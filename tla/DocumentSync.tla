----------------------------- MODULE DocumentSync -----------------------------
(***************************************************************************)
(* One shared document: the copy the server relays (the document handlers  *)
(* of server.ts) and the copies the clients edit (DocumentSync.ts).        *)
(*                                                                         *)
(* A client has two copies of the text: the Yjs document and the text in   *)
(* the editor.  Local changes wait in a queue for a timer to write them to *)
(* the Yjs document and to send it, as a whole; a remote change is merged  *)
(* into the Yjs document, whose text then replaces the editor's, which the *)
(* client awaits with changes of the editor suppressed meanwhile.  A       *)
(* version, counted by the server and guessed by the client that edits,    *)
(* tells which remote changes to ignore.                                   *)
(*                                                                         *)
(* Connections do not break here.                                          *)
(***************************************************************************)
EXTENDS Naturals, Sequences, FiniteSets

CONSTANTS
  Clients,
  Owner,        \* the root of the room, who shares the document
  Typists,      \* the clients whose users type
  TextAtShare,  \* whether the document has text when it is shared
  MaxBlocks     \* bound: insertions into any of the copies

ASSUME DocumentConstants ==
  /\ Owner \in Clients
  /\ Typists \subseteq Clients
  /\ TextAtShare \in BOOLEAN
  /\ MaxBlocks \in Nat

VARIABLES
  doc,        \* the server's DocumentState
  members,    \* the connections of the room
  client,     \* TrackedDocument and what else DocumentSync.ts keeps of the document
  up,         \* messages from each client to the server
  down,       \* messages from the server to each client
  holds,      \* the text in each block
  made,       \* history: the content its author had when each block was written
  nextBlock   \* the next block to be inserted anywhere

vars == <<doc, members, client, up, down, holds, made, nextBlock>>

-------------------------------------------------------------------------------
\* Contents

\* What a Yjs document consists of: blocks, each inserted once somewhere, of
\* which some have been deleted.  Merging never forgets either.
Blocks == 1 .. MaxBlocks
Content == [ins: SUBSET Blocks, del: SUBSET Blocks]
EmptyContent == [ins |-> {}, del |-> {}]
Merge(y, z) == [ins |-> y.ins \cup z.ins, del |-> y.del \cup z.del]

\* A text is the set of what was typed into it, a keystroke being named as the
\* block it becomes, and 0 standing for the text at the time of sharing.
Units == 0 .. MaxBlocks
Text(y) == UNION {holds[b] : b \in y.ins \ y.del}
SharedText == IF TextAtShare THEN {0} ELSE {}

\* A local change, made when the editor showed base: a keystroke, or the whole
\* text replaced by a block.
Change == [block: Blocks, whole: BOOLEAN, base: SUBSET Units]

\* y after the queued changes.  Replacing the whole text deletes what was there.
Edited(y, queue) ==
  [ ins |-> y.ins \cup {queue[i].block : i \in DOMAIN queue},
    del |-> y.del \cup
            UNION {y.ins \cup {queue[j].block : j \in 1 .. i - 1} :
                   i \in {k \in DOMAIN queue : queue[k].whole}} ]

\* y with its whole text replaced by block b.
Rewritten(y, b) == [ins |-> y.ins \cup {b}, del |-> y.del \cup y.ins]

\* A variant that sends what is new only.
EncodedChanges(before, after) ==
  [ins |-> after.ins \ before.ins, del |-> after.del \ before.del]

\* What a flush sends of a Yjs document: all of it.
EncodedState(before, after) == after

-------------------------------------------------------------------------------
\* Messages and states

\* A message in either direction; fields it does not have are empty.  A
\* shareDocument without a CRDT state is a "shareDocument", one with it (as the
\* owner sends it, and the server to a newcomer) a "shareState".  The patch of a
\* docChange inserts text, or replaces all by it, where its author saw base.
Message ==
  [ type: {"shareDocument", "shareState", "docChange", "requestFullSync",
           "fullDocumentSync", "unshareDocument"},
    version: Nat, text: SUBSET Units, update: Content,
    base: SUBSET Units, whole: BOOLEAN ]

Msg(type, version, text, update) ==
  [type |-> type, version |-> version, text |-> text, update |-> update,
   base |-> {}, whole |-> FALSE]

\* A text after the patch of m.
Patched(text, m) == (IF m.whole THEN text \ m.base ELSE text) \cup m.text

\* A replacement of editor text that is awaited: the whole text by the Yjs
\* document's, a patch instead when that was refused, or a full sync.
Edit ==
  [ mode: {"replace", "patch", "sync"}, message: Message, shows: SUBSET Units,
    stage: {"sent", "stale", "shown", "refused"} ]

SentEdit(mode, m, shows) ==
  [mode |-> mode, message |-> m, shows |-> shows, stage |-> "sent"]

\* status: not in documents; shareDocument being processed; in documents.
Client ==
  [ status: {"absent", "opening", "open"},
    sharing: BOOLEAN,               \* in pendingShareDocs
    unsharing: BOOLEAN,             \* in pendingUnshares
    opening: Message,               \* the shareDocument being processed
    yDoc: Content,
    editor: SUBSET Units,
    version: Nat,
    queue: Seq(Change),             \* pendingDocChanges
    timer: BOOLEAN,                 \* pendingDocFlush
    applying: Seq(Edit),            \* the awaited applyEdit calls
    suppress: BOOLEAN,              \* suppressChanges
    requested: BOOLEAN,             \* pendingSnapshot
    fullSync: SUBSET Message ]      \* pendingFullSyncs, at most one

NoMessage == Msg("requestFullSync", 0, {}, EmptyContent)

AbsentDocument ==
  [ status |-> "absent", sharing |-> FALSE, unsharing |-> FALSE, opening |-> NoMessage,
    yDoc |-> EmptyContent, editor |-> {}, version |-> 0, queue |-> << >>, timer |-> FALSE,
    applying |-> << >>, suppress |-> FALSE, requested |-> FALSE, fullSync |-> {} ]

Document ==
  [ status: {"none", "shared", "unshared"}, version: Nat,
    text: SUBSET Units, yjsState: Content ]

\* The types, and how the fields of a client go together: its editor is deaf
\* only while something is being applied to an open document, its timer runs only
\* for changes to be flushed, and only the owner shares.
DocsTypeOK ==
  /\ doc \in Document
  /\ members \subseteq Clients
  /\ client \in [Clients -> Client]
  /\ up \in [Clients -> Seq(Message)]
  /\ down \in [Clients -> Seq(Message)]
  /\ holds \in [Blocks -> SUBSET Units]
  /\ made \in [Blocks -> Content]
  /\ nextBlock \in 1 .. MaxBlocks + 1
  /\ \A c \in Clients : LET s == client[c] IN
       /\ s.suppress => s.applying # << >>
       /\ s.applying # << >> => s.status = "open"
       /\ s.timer => s.queue # << >>
       /\ s.sharing \/ s.unsharing => c = Owner

Init ==
  /\ doc = [status |-> "none", version |-> 0, text |-> {}, yjsState |-> EmptyContent]
  /\ members = {Owner}
  /\ client = [c \in Clients |->
                 IF c = Owner THEN [AbsentDocument EXCEPT !.editor = SharedText]
                 ELSE AbsentDocument]
  /\ up = [c \in Clients |-> << >>]
  /\ down = [c \in Clients |-> << >>]
  /\ holds = [b \in Blocks |-> {}]
  /\ made = [b \in Blocks |-> EmptyContent]
  /\ nextBlock = 1

-------------------------------------------------------------------------------
\* Parts of steps

Send(c, m) == up' = [up EXCEPT ![c] = Append(@, m)]

Broadcast(m, receivers) ==
  down' = [d \in Clients |-> IF d \in receivers THEN Append(down[d], m) ELSE down[d]]

\* The server takes the next message of c, of the given type.
FromClient(c, type) ==
  /\ up[c] # << >>
  /\ Head(up[c]).type = type
  /\ up' = [up EXCEPT ![c] = Tail(@)]

\* Client c takes its next message, of the given type.
FromServer(c, type) ==
  /\ down[c] # << >>
  /\ Head(down[c]).type = type
  /\ down' = [down EXCEPT ![c] = Tail(@)]

SetClient(c, s) == client' = [client EXCEPT ![c] = s]

\* A new block with the given text, written by an author whose content is y.
NewBlock(text, y) ==
  /\ nextBlock \in Blocks
  /\ holds' = [holds EXCEPT ![nextBlock] = text]
  /\ made' = [made EXCEPT ![nextBlock] = y]
  /\ nextBlock' = nextBlock + 1

NoNewBlock == UNCHANGED <<holds, made, nextBlock>>

ServerUnchanged == UNCHANGED <<doc, members>>

-------------------------------------------------------------------------------
\* Sharing

\* The owner shares the document it edits, once.  The Yjs document it sends is
\* not the one it will work with.
Share ==
  LET s == client[Owner]
      m(state) == Msg("shareState", 1, s.editor, state) IN
  /\ doc.status = "none" /\ ~s.sharing
  /\ SetClient(Owner, [s EXCEPT !.sharing = TRUE])
  /\ IF s.editor = {}
     THEN NoNewBlock /\ Send(Owner, m(EmptyContent))
     ELSE /\ NewBlock(s.editor, EmptyContent)
          /\ Send(Owner, m([EmptyContent EXCEPT !.ins = {nextBlock}]))
  /\ ServerUnchanged
  /\ UNCHANGED down

\* The server stores the document and broadcasts its text, without the state,
\* to everybody, the sharer included.
ShareDocument(c) ==
  LET m == Head(up[c]) IN
  /\ FromClient(c, "shareState")
  /\ doc' = [status |-> "shared", version |-> m.version, text |-> m.text,
             yjsState |-> m.update]
  /\ Broadcast(Msg("shareDocument", m.version, m.text, EmptyContent), members)
  /\ NoNewBlock
  /\ UNCHANGED <<members, client>>

\* A newcomer is sent the document with the state the server keeps.
Join(c) ==
  /\ c \notin members
  /\ members' = members \cup {c}
  /\ Broadcast(Msg("shareState", doc.version, doc.text, doc.yjsState),
               IF doc.status = "shared" THEN {c} ELSE {})
  /\ NoNewBlock
  /\ UNCHANGED <<doc, client, up>>

\* handleShareDocument up to the await that registers the document on disk.
ReceiveShare(c) ==
  /\ FromServer(c, "shareDocument") \/ FromServer(c, "shareState")
  /\ SetClient(c, [client[c] EXCEPT !.status = "opening", !.opening = Head(down[c])])
  /\ NoNewBlock
  /\ ServerUnchanged
  /\ UNCHANGED up

\* A variant that forgets the queued full sync.
NothingQueued(s) == << >>

\* A queued full sync is applied to the editor only.
QueuedSync(s) ==
  IF s.fullSync = {} THEN << >>
  ELSE LET m == CHOOSE m \in s.fullSync : TRUE IN <<SentEdit("sync", m, m.text)>>

\* A variant that leaves the changes made before the share for the next one.
FlushAfterNextChange(s) == FALSE

\* Changes made while the share was pending are flushed after it.
FlushAfterOpening(s) == s.queue # << >>

OpenedDocument(c, s, y) ==
  [ status |-> "open", sharing |-> FALSE, unsharing |-> FALSE, opening |-> NoMessage, yDoc |-> y,
    editor |-> IF c = Owner THEN s.editor ELSE s.opening.text, version |-> s.opening.version,
    queue |-> s.queue, timer |-> FlushAfterOpening(s), applying |-> QueuedSync(s),
    suppress |-> s.fullSync # {}, requested |-> FALSE, fullSync |-> {} ]

\* The rest of handleShareDocument.  Without a state the client makes a Yjs
\* document of its own from the text.
OpenShared(c) ==
  LET s == client[c] IN
  /\ s.status = "opening"
  /\ IF s.opening.type = "shareState" \/ s.opening.text = {}
     THEN NoNewBlock /\ SetClient(c, OpenedDocument(c, s, s.opening.update))
     ELSE /\ NewBlock(s.opening.text, EmptyContent)
          /\ SetClient(c, OpenedDocument(c, s, [EmptyContent EXCEPT !.ins = {nextBlock}]))
  /\ ServerUnchanged
  /\ UNCHANGED <<up, down>>

Unshare ==
  LET s == client[Owner] IN
  /\ s.sharing \/ s.status = "open"
  /\ ~s.unsharing
  /\ SetClient(Owner, [s EXCEPT !.unsharing = TRUE])
  /\ Send(Owner, Msg("unshareDocument", 0, {}, EmptyContent))
  /\ NoNewBlock
  /\ ServerUnchanged
  /\ UNCHANGED down

UnshareDocument(c) ==
  /\ FromClient(c, "unshareDocument")
  /\ IF doc.status = "shared"
     THEN /\ doc' = [doc EXCEPT !.status = "unshared"]
          /\ Broadcast(Msg("unshareDocument", 0, {}, EmptyContent), members)
     ELSE UNCHANGED <<doc, down>>
  /\ NoNewBlock
  /\ UNCHANGED <<members, client>>

\* handleDocumentUnshared: what is tracked is forgotten; a share being
\* processed goes on.
ReceiveUnshared(c) ==
  /\ FromServer(c, "unshareDocument")
  /\ SetClient(c, IF client[c].status = "opening"
                  THEN [AbsentDocument EXCEPT !.status = "opening",
                          !.opening = client[c].opening, !.editor = client[c].editor]
                  ELSE [AbsentDocument EXCEPT !.editor = client[c].editor])
  /\ NoNewBlock
  /\ ServerUnchanged
  /\ UNCHANGED up

-------------------------------------------------------------------------------
\* Local changes

\* onDidChangeTextDocument: ignored while suppressed; without a timer as long
\* as the share is pending.
Changed(s, change) ==
  IF s.suppress THEN s
  ELSE [s EXCEPT !.queue = Append(@, change), !.timer = @ \/ ~s.sharing]

\* VS Code refuses an edit computed for another version of the text than it
\* finds.
Outdated(edits) ==
  [i \in DOMAIN edits |->
     IF edits[i].stage = "sent" THEN [edits[i] EXCEPT !.stage = "stale"] ELSE edits[i]]

Type(c) ==
  LET s == client[c] IN
  /\ c \in Typists
  /\ s.sharing \/ s.status = "open"
  /\ NewBlock({nextBlock}, EmptyContent)
  /\ SetClient(c, Changed([s EXCEPT !.editor = @ \cup {nextBlock},
                                    !.applying = Outdated(@)],
                          [block |-> nextBlock, whole |-> FALSE, base |-> s.editor]))
  /\ ServerUnchanged
  /\ UNCHANGED <<up, down>>

\* flushDocumentChanges, when the timer has fired.
Flush(c) ==
  LET s == client[c]
      n == Len(s.queue)
      last == s.queue[n]
      y == Edited(s.yDoc, s.queue) IN
  /\ s.timer
  /\ SetClient(c, [s EXCEPT !.yDoc = y, !.version = @ + 1,
                            !.queue = << >>, !.timer = FALSE])
  /\ Send(c, [ type |-> "docChange", version |-> s.version + 1,
               text |-> holds[last.block], update |-> EncodedState(s.yDoc, y),
               base |-> last.base, whole |-> last.whole ])
  /\ made' = [b \in Blocks |->
                IF \E i \in 1 .. n : s.queue[i].block = b THEN s.yDoc ELSE made[b]]
  /\ ServerUnchanged
  /\ UNCHANGED <<down, holds, nextBlock>>

\* The server.  The patch is the last change of the flush only: on the text it
\* was made on it fits, elsewhere it may not, and then the whole flush is
\* acknowledged and dropped.
DocChange(c) ==
  LET m == Head(up[c]) IN
  /\ FromClient(c, "docChange")
  /\ \/ /\ doc.status = "shared"
        /\ doc' = [doc EXCEPT !.text = Patched(@, m), !.version = @ + 1]
        /\ Broadcast([m EXCEPT !.version = doc.version + 1], members \ {c})
     \/ /\ doc.status = "shared" => doc.text # m.base
        /\ UNCHANGED <<doc, down>>
  /\ NoNewBlock
  /\ UNCHANGED <<members, client>>

-------------------------------------------------------------------------------
\* Remote changes

\* requestFullSyncForDoc: not while an earlier request is unanswered.
RequestFullSyncForDoc(c, s) ==
  /\ SetClient(c, [s EXCEPT !.requested = TRUE])
  /\ IF s.requested THEN UNCHANGED up
     ELSE Send(c, Msg("requestFullSync", 0, {}, EmptyContent))

\* s with an edit sent to its editor.
Sent(s, mode, m, y, shows) ==
  [s EXCEPT !.yDoc = y, !.suppress = TRUE,
            !.applying = Append(@, SentEdit(mode, m, shows))]

\* applyRemoteChange up to its await.  A change that is not newer than the
\* client's own count is ignored.
ReceiveChange(c) ==
  LET s == client[c]
      m == Head(down[c])
      y == Merge(s.yDoc, m.update) IN
  /\ FromServer(c, "docChange")
  /\ \/ s.status # "open" /\ RequestFullSyncForDoc(c, s)
     \/ s.status = "open" /\ m.version <= s.version /\ UNCHANGED <<client, up>>
     \/ /\ s.status = "open" /\ m.version > s.version
        /\ SetClient(c, Sent(s, "replace", m, y, Text(y)))
        /\ UNCHANGED up
  /\ NoNewBlock
  /\ ServerUnchanged

\* The editor handles the edits in the order they were sent.  One that it
\* applies is an event like any other: a local change, unless suppressed.
EditorReacts(c) ==
  LET s == client[c] IN
  \E i \in DOMAIN s.applying :
    LET e == s.applying[i]
        m == e.message
        text == IF e.mode = "patch" THEN Patched(s.editor, m) ELSE e.shows
        handled(stage) == [s.applying EXCEPT ![i].stage = stage]
        shown == [s EXCEPT !.editor = text,
                    !.applying = IF text = s.editor THEN handled("shown")
                                 ELSE Outdated(handled("shown"))] IN
    /\ e.stage \in {"sent", "stale"}
    /\ \A j \in 1 .. i - 1 : s.applying[j].stage \notin {"sent", "stale"}
    /\ \/ /\ e.stage = "stale"
          /\ SetClient(c, [s EXCEPT !.applying = handled("refused")])
          /\ NoNewBlock
       \/ /\ e.stage = "sent"
          /\ s.suppress \/ text = s.editor
          /\ SetClient(c, shown)
          /\ NoNewBlock
       \/ /\ e.stage = "sent"
          /\ ~s.suppress /\ text # s.editor
          /\ NewBlock(IF e.mode = "patch" THEN m.text ELSE text, EmptyContent)
          /\ SetClient(c, Changed(shown, [block |-> nextBlock, base |-> s.editor,
                                          whole |-> e.mode = "patch" => m.whole]))
    /\ ServerUnchanged
    /\ UNCHANGED <<up, down>>

\* The first awaited edit is answered.  A change that was refused is tried once
\* more as a patch if it is the next one, and else a full sync requested.
Applied(c) ==
  LET s == client[c]
      e == Head(s.applying)
      rest == [s EXCEPT !.applying = Tail(@), !.suppress = FALSE]
      current == [rest EXCEPT !.version = e.message.version, !.requested = FALSE]
      next == e.mode = "replace" /\ e.message.version = s.version + 1 IN
  /\ s.applying # << >>
  /\ e.stage \in {"shown", "refused"}
  /\ \/ /\ e.mode = "sync" \/ (e.mode = "replace" /\ e.stage = "shown")
        /\ SetClient(c, current)
        /\ NoNewBlock
        /\ UNCHANGED up
     \/ /\ e.mode = "patch" /\ e.stage = "shown"
        /\ NewBlock(s.editor, s.yDoc)
        /\ SetClient(c, [current EXCEPT !.yDoc = Rewritten(@, nextBlock)])
        /\ UNCHANGED up
     \/ /\ e.stage = "refused" /\ next
        /\ SetClient(c, [rest EXCEPT !.suppress = TRUE,
                           !.applying = Append(@, [e EXCEPT !.mode = "patch", !.stage = "sent"])])
        /\ NoNewBlock
        /\ UNCHANGED up
     \/ /\ e.stage = "refused" /\ e.mode # "sync" /\ ~next
        /\ RequestFullSyncForDoc(c, rest)
        /\ NoNewBlock
  /\ ServerUnchanged
  /\ UNCHANGED down

-------------------------------------------------------------------------------
\* Full syncs

\* A request not answered in time may be made again.
SnapshotTimeout(c) ==
  /\ client[c].requested
  /\ SetClient(c, [client[c] EXCEPT !.requested = FALSE])
  /\ NoNewBlock
  /\ ServerUnchanged
  /\ UNCHANGED <<up, down>>

\* The server passes the request on to the owner.
RequestFullSync(c) ==
  /\ FromClient(c, "requestFullSync")
  /\ Broadcast(Msg("requestFullSync", 0, {}, EmptyContent), {Owner})
  /\ NoNewBlock
  /\ ServerUnchanged
  /\ UNCHANGED client

\* handleRequestFullSync: the owner sends what its editor shows.
AnswerFullSync ==
  LET s == client[Owner] IN
  /\ FromServer(Owner, "requestFullSync")
  /\ IF s.status = "open"
     THEN Send(Owner, Msg("fullDocumentSync", s.version, s.editor, s.yDoc))
     ELSE UNCHANGED up
  /\ NoNewBlock
  /\ ServerUnchanged
  /\ UNCHANGED client

\* A variant that accepts any version.
AcceptsAnySync(m) == doc.status = "shared"

\* The server takes only a full sync that is newer than its own version.
AcceptsSync(m) == doc.status = "shared" /\ m.version > doc.version

FullDocumentSync(c) ==
  LET m == Head(up[c]) IN
  /\ FromClient(c, "fullDocumentSync")
  /\ IF AcceptsSync(m)
     THEN /\ doc' = [doc EXCEPT !.text = m.text, !.version = m.version, !.yjsState = m.update]
          /\ Broadcast(m, members \ {c})
     ELSE UNCHANGED <<doc, down>>
  /\ NoNewBlock
  /\ UNCHANGED <<members, client>>

\* applyFullDocumentSync up to its await, or queued until the document is open.
ReceiveFullSync(c) ==
  LET s == client[c]
      m == Head(down[c]) IN
  /\ FromServer(c, "fullDocumentSync")
  /\ SetClient(c, IF s.status = "open"
                  THEN Sent(s, "sync", m, Merge(s.yDoc, m.update), m.text)
                  ELSE [s EXCEPT !.fullSync = {m}])
  /\ NoNewBlock
  /\ ServerUnchanged
  /\ UNCHANGED up

-------------------------------------------------------------------------------

ServerStep(c) ==
  \/ ShareDocument(c) \/ UnshareDocument(c) \/ DocChange(c)
  \/ RequestFullSync(c) \/ FullDocumentSync(c)

Receive(c) ==
  \/ ReceiveShare(c) \/ ReceiveUnshared(c) \/ ReceiveChange(c) \/ ReceiveFullSync(c)
  \/ c = Owner /\ AnswerFullSync

Progress(c) ==
  OpenShared(c) \/ Flush(c) \/ EditorReacts(c) \/ Applied(c)

Next ==
  \/ Share
  \/ Unshare
  \/ \E c \in Clients :
       Join(c) \/ Type(c) \/ ServerStep(c) \/ Receive(c) \/ Progress(c) \/ SnapshotTimeout(c)

Spec == Init /\ [][Next]_vars

\* The server handles what arrives, and so do the clients, whose files open and
\* timers fire; users owe nothing.
FairSpec ==
  /\ Spec
  /\ \A c \in Clients : /\ WF_vars(ServerStep(c))
                        /\ WF_vars(Receive(c))
                        /\ WF_vars(OpenShared(c))
                        /\ WF_vars(Flush(c))
===============================================================================
