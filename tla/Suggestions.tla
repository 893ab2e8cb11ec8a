------------------------------ MODULE Suggestions ------------------------------
(***************************************************************************)
(* Suggestions for one shared document, from the author's keystroke to the *)
(* owner's verdict: the server's handlers (server.ts, suggestions.ts), the *)
(* author's suggestion mode (DocumentSync.ts), the owner's review queue    *)
(* (SuggestionManager.ts), and between them connections that break, rejoin *)
(* (extension.ts) and send again what was not acknowledged                 *)
(* (OutboundQueue).                                                        *)
(*                                                                         *)
(* The author streams each edit as a chunk of the suggestion it has open;  *)
(* sending the suggestion puts all of them in a second one.  A lost        *)
(* connection loses what is in transit; the room, the roles and the        *)
(* clients' state survive it.  Patches are named by the edit they stem     *)
(* from.                                                                   *)
(***************************************************************************)
EXTENDS OutboundQueue, FiniteSets, FiniteSetsExt

CONSTANTS
  Author, Owner,
  MaxSuggestions,   \* MAX_SUGGESTIONS_PER_ROOM: pending suggestions a room takes
  MaxReviewed,      \* MAX_REVIEWED_SUGGESTIONS: reviewed ones it remembers
  MaxPatches,       \* patches a suggestion keeps (2000)
  MaxIds,           \* bound: suggestion ids the author draws
  MaxEdits,         \* bound: edits the author makes
  MaxRequests,      \* bound: requests the owner makes
  MaxDrops          \* bound: connections lost

ASSUME SuggestionConstants ==
  /\ Author # Owner
  /\ {MaxSuggestions, MaxReviewed, MaxPatches} \subseteq Nat \ {0}
  /\ MaxSuggestions =< MaxReviewed
  /\ {MaxIds, MaxEdits, MaxRequests, MaxDrops} \subseteq Nat

VARIABLES
  suggestions,  \* room.suggestions; "missing" for an id the Map does not have
  reviewed,     \* the reviewed ids in the order of reviewedAt
  shared,       \* whether room.documents has the document
  members,      \* the clients whose connection is in the room
  joining,      \* the clients whose joinRoom awaits validateJoinAccess
  author,       \* the author's DocumentSync: active suggestion, patches, document
  view,         \* the owner's SuggestionManager: the patches of each entry
  requests,     \* requests the owner has made
  link,         \* per client: down, connected (joinRoom is sent) or joined
  flushDue,     \* the clients whose joinedRoom handler has yet to flush
  queue,        \* per client: the outbound queue
  toServer, toClient,
  drops

serverVars == <<suggestions, reviewed, shared, members, joining>>
linkVars == <<link, flushDue, drops>>
vars == <<serverVars, author, view, requests, linkVars, queue, toServer, toClient>>

Clients == {Author, Owner}
Ids == 1 .. MaxIds
Edits == 1 .. MaxEdits
NoId == 0
NoEntry == <<0>>

-------------------------------------------------------------------------------
\* The server's map

Missing == [status |-> "missing", patches |-> <<>>]
Pending(map) == {s \in Ids : map[s].status = "pending"}

\* createPendingSuggestion, or more patches of a pending one, the oldest of which
\* are dropped beyond the limit
Capped(patches) ==
  IF Len(patches) > MaxPatches
    THEN SubSeq(patches, Len(patches) - MaxPatches + 1, Len(patches))
    ELSE patches

Extended(suggestion, patches) ==
  IF suggestion.status = "missing" THEN [status |-> "pending", patches |-> patches]
  ELSE [suggestion EXCEPT !.patches = Capped(@ \o patches)]

VerdictAsAsked(action) == action
Verdict(action) == IF action = "accept" THEN "accepted" ELSE "rejected"

\* reviewSuggestion: what can be reviewed; the rest is an error or was reviewed
ReviewableAgain(map, s, action) == map[s].status # "missing" /\ (action = "accept" => shared)
Reviewable(map, s, action) ==
  /\ map[s].status = "pending"
  /\ action = "accept" => shared

\* pruneReviewedSuggestions
Kept(order) == SubSeq(order, Len(order) - MaxReviewed + 1, Len(order))
RememberedAll(order) == order
Remembered(order) == IF Len(order) > MaxReviewed THEN Kept(order) ELSE order

AfterReview(map, ids, action, order) ==
  [s \in Ids |->
    IF s \notin Range(order) /\ (map[s].status \in {"accepted", "rejected"} \/ s \in ids) THEN Missing
    ELSE IF s \in ids THEN [map[s] EXCEPT !.status = Verdict(action)]
    ELSE map[s]]

-------------------------------------------------------------------------------
\* A room as createRoomInner makes it, with nothing suggested, a document the owner has
\* shared in it, and the author beside the owner.
Init ==
  /\ suggestions = [s \in Ids |-> Missing]
  /\ reviewed = <<>>
  /\ shared = TRUE
  /\ members = Clients
  /\ joining = {}
  /\ author = [active |-> NoId, patches |-> <<>>, tracked |-> TRUE, nextId |-> 1, edits |-> 0]
  /\ view = [s \in Ids |-> NoEntry]
  /\ requests = 0
  /\ link = [c \in Clients |-> "joined"]
  /\ flushDue = {}
  /\ drops = 0
  /\ queue = [c \in Clients |-> EmptyQueue]
  /\ toServer = [c \in Clients |-> <<>>]
  /\ toClient = [c \in Clients |-> <<>>]

\* sendClientMessage
IsConnected(c) == link[c] # "down"

Send(c, m) ==
  /\ queue' = [queue EXCEPT ![c] = Enqueued(@, m, IsConnected(c))]
  /\ toServer' = IF IsConnected(c) THEN [toServer EXCEPT ![c] = Append(@, m)] ELSE toServer

-------------------------------------------------------------------------------
\* The author

Suggestion(s, patches) == [type |-> "suggestion", id |-> s, patches |-> patches]

\* handleSuggestionMode: an edit goes out at once as a chunk of the open suggestion
\* and is kept for sendPendingSuggestion.
Edit ==
  /\ author.tracked
  /\ author.edits < MaxEdits
  /\ LET fresh == author.active = NoId
         s     == IF fresh THEN author.nextId ELSE author.active
         edit  == author.edits + 1
     IN /\ s \in Ids
        /\ author' = [author EXCEPT !.active  = s,
                                    !.patches = Append(@, edit),
                                    !.nextId  = IF fresh THEN @ + 1 ELSE @,
                                    !.edits   = edit]
        /\ Send(Author, Suggestion(s, <<edit>>))
  /\ UNCHANGED <<serverVars, view, requests, linkVars, toClient>>

\* sendPendingSuggestion: all patches in a suggestion of a new id
SendPending ==
  /\ author.patches # <<>>
  /\ author.nextId \in Ids
  /\ author' = [author EXCEPT !.active = NoId, !.patches = <<>>, !.nextId = @ + 1]
  /\ Send(Author, Suggestion(author.nextId, author.patches))
  /\ UNCHANGED <<serverVars, view, requests, linkVars, toClient>>

-------------------------------------------------------------------------------
\* The owner

Entries == {s \in Ids : view[s] # NoEntry}

\* acceptSuggestion, rejectSuggestion of DocumentSync.ts; reviewPendingSuggestions
\* and unshareCurrentFile of extension.ts
OwnerRequests ==
  [type : {"acceptSuggestion", "rejectSuggestion"}, id : Entries]
    \cup (IF Entries = {} THEN {}
          ELSE [type : {"reviewSuggestions"}, ids : {Entries}, action : {"accept", "reject"}])
    \cup {[type |-> "unshareDocument"]}

Request ==
  /\ requests < MaxRequests
  /\ \E m \in OwnerRequests : Send(Owner, m)
  /\ requests' = requests + 1
  /\ UNCHANGED <<serverVars, author, view, linkVars, toClient>>

-------------------------------------------------------------------------------
\* The server's handlers.  A message to a client that would ignore it is left out.

Ack(m) == IF AckKey(m) = Untracked THEN <<>> ELSE <<[type |-> "ack", key |-> AckKey(m)]>>

\* broadcast, and answers to the connection of c; a client out of the room gets none
Tell(c, answers, news) ==
  toClient' = [d \in Clients |->
    toClient[d] \o (IF d = Owner /\ d \in members THEN news.owner ELSE <<>>)
                \o (IF d = Author /\ d \in members THEN news.author ELSE <<>>)
                \o (IF d = c THEN answers ELSE <<>>)]

Nothing == [owner |-> <<>>, author |-> <<>>]
ToOwner(ms) == [Nothing EXCEPT !.owner = ms]
ToAuthor(ms) == [Nothing EXCEPT !.author = ms]

\* rejectTrackedMessage: an error and, all the same, the acknowledgement
Refuse(c, m) ==
  /\ Tell(c, Ack(m), Nothing)
  /\ UNCHANGED <<suggestions, reviewed, shared>>

\* handleSuggestion.  The limiter may refuse, and so does a role or a mode that
\* changed; the pending suggestions are counted before the id is looked up.
CanSubmit == Cardinality(Pending(suggestions)) < MaxSuggestions /\ shared

HandleSuggestion(m) ==
  IF ~CanSubmit THEN Refuse(Author, m)
  ELSE IF suggestions[m.id].status \in {"accepted", "rejected"}
    THEN /\ Tell(Author, Ack(m), Nothing)
         /\ UNCHANGED <<suggestions, reviewed, shared>>
    ELSE LET after == Extended(suggestions[m.id], m.patches)
         IN /\ suggestions' = [suggestions EXCEPT ![m.id] = after]
            /\ Tell(Author, Ack(m),
                    ToOwner(<<[type |-> "newSuggestion", id |-> m.id, patches |-> after.patches]>>))
            /\ UNCHANGED <<reviewed, shared>>

\* reviewSuggestion for each of ids; those reviewed at once may be so in any order
Review(ids, action, answers) ==
  LET done == {s \in ids : Reviewable(suggestions, s, action)}
  IN \E list \in SetToSeqs(done) :
       /\ reviewed' = Remembered(reviewed \o list)
       /\ suggestions' = AfterReview(suggestions, done, action, reviewed')
       /\ Tell(Owner, answers,
               ToOwner([i \in DOMAIN list |-> [type |-> "suggestionReviewed", id |-> list[i]]]))
       /\ UNCHANGED shared

\* handleSuggestionDecision, handleReviewSuggestions, handleUnshareDocument
HandleDecision(m) ==
  Review({m.id}, IF m.type = "acceptSuggestion" THEN "accept" ELSE "reject", Ack(m))
HandleReview(m) == Review(m.ids, m.action, <<>>)
HandleUnshare(m) ==
  /\ shared' = FALSE
  /\ Tell(Owner, Ack(m), IF shared THEN ToAuthor(<<[type |-> "documentUnshared"]>>) ELSE Nothing)
  /\ UNCHANGED <<suggestions, reviewed>>

HandleInRoom(c, m) ==
  \/ m.type = "suggestion" /\ (HandleSuggestion(m) \/ Refuse(c, m))
  \/ m.type \in {"acceptSuggestion", "rejectSuggestion"} /\ HandleDecision(m)
  \/ m.type = "reviewSuggestions" /\ HandleReview(m)
  \/ m.type = "unshareDocument" /\ HandleUnshare(m)

Handle(c, m) == IF c \in members THEN HandleInRoom(c, m) ELSE Refuse(c, m)

\* validateClientMessage lets no other message through.
IsValid(m) ==
  /\ m.type = "suggestion" => m.id \in Ids /\ m.patches \in Seq(Edits)
  /\ m.type \in {"acceptSuggestion", "rejectSuggestion"} => m.id \in Ids
  /\ m.type = "reviewSuggestions" => m.ids \subseteq Ids /\ m.action \in {"accept", "reject"}

ServerReceives(c) ==
  /\ toServer[c] # <<>>
  /\ LET m == Head(toServer[c])
     IN /\ IsValid(m)
        /\ IF m.type = "joinRoom"
             THEN /\ joining' = joining \cup {c}
                  /\ UNCHANGED <<suggestions, reviewed, shared, toClient>>
             ELSE Handle(c, m) /\ UNCHANGED joining
  /\ toServer' = [toServer EXCEPT ![c] = Tail(@)]
  /\ UNCHANGED <<members, author, view, requests, linkVars, queue>>

\* joinRoomInner once the access is verified: the owner gets the pending
\* suggestions, if there are any.
ReplayNothing(c) == <<>>
Replay(c) ==
  IF c = Owner /\ Pending(suggestions) # {}
    THEN <<[type |-> "syncSuggestions",
            entries |-> [s \in Ids |-> IF s \in Pending(suggestions) THEN suggestions[s].patches
                                       ELSE NoEntry]]>>
    ELSE <<>>

JoinCompletes(c) ==
  /\ c \in joining
  /\ joining' = joining \ {c}
  /\ members' = members \cup {c}
  /\ toClient' = [toClient EXCEPT ![c] = @ \o <<[type |-> "joinedRoom"]>> \o Replay(c)]
  /\ UNCHANGED <<suggestions, reviewed, shared, author, view, requests, linkVars, queue, toServer>>

-------------------------------------------------------------------------------
\* The clients' handlers (handleServerMessage)

\* handleSuggestion, handleSuggestionAccepted and -Rejected, replaceAll
Shown(m) ==
  CASE m.type = "newSuggestion"      -> [view EXCEPT ![m.id] = m.patches]
    [] m.type = "suggestionReviewed" -> [view EXCEPT ![m.id] = NoEntry]
    [] m.type = "syncSuggestions"    -> m.entries
    [] OTHER                         -> view

\* removeTrackedDocument, which leaves the active suggestion
AfterUnshared == [author EXCEPT !.tracked = FALSE, !.patches = <<>>]

ClientReceives(c) ==
  /\ toClient[c] # <<>>
  /\ LET m == Head(toClient[c])
     IN /\ queue' = IF m.type = "ack" THEN [queue EXCEPT ![c] = Acknowledged(@, m.key)] ELSE queue
        /\ link' = IF m.type = "joinedRoom" THEN [link EXCEPT ![c] = "joined"] ELSE link
        /\ flushDue' = IF m.type = "joinedRoom" THEN flushDue \cup {c} ELSE flushDue
        /\ view' = IF c = Owner THEN Shown(m) ELSE view
        /\ author' = IF m.type = "documentUnshared" THEN AfterUnshared ELSE author
  /\ toClient' = [toClient EXCEPT ![c] = Tail(@)]
  /\ UNCHANGED <<serverVars, requests, drops, toServer>>

\* the end of the joinedRoom handler, after its awaits
FlushPending(c) ==
  /\ c \in flushDue
  /\ flushDue' = flushDue \ {c}
  /\ IF IsConnected(c)
       THEN /\ toServer' = [toServer EXCEPT ![c] = @ \o FlushSends(queue[c])]
            /\ queue' = [queue EXCEPT ![c] = Flushed(@)]
       ELSE UNCHANGED <<toServer, queue>>
  /\ UNCHANGED <<serverVars, author, view, requests, link, drops, toClient>>

-------------------------------------------------------------------------------
\* Connections

Drop(c) ==
  /\ IsConnected(c)
  /\ drops < MaxDrops
  /\ drops' = drops + 1
  /\ link' = [link EXCEPT ![c] = "down"]
  /\ members' = members \ {c}
  /\ joining' = joining \ {c}
  /\ toServer' = [toServer EXCEPT ![c] = <<>>]
  /\ toClient' = [toClient EXCEPT ![c] = <<>>]
  /\ UNCHANGED <<suggestions, reviewed, shared, author, view, requests, flushDue, queue>>

\* the connected handler
Reconnect(c) ==
  /\ link[c] = "down"
  /\ link' = [link EXCEPT ![c] = "connected"]
  /\ toServer' = [toServer EXCEPT ![c] = <<[type |-> "joinRoom"]>>]
  /\ UNCHANGED <<serverVars, author, view, requests, flushDue, drops, queue, toClient>>

LinkStep(c) ==
  ServerReceives(c) \/ JoinCompletes(c) \/ ClientReceives(c) \/ FlushPending(c) \/ Reconnect(c)

Next ==
  \/ Edit
  \/ SendPending
  \/ Request
  \/ \E c \in Clients : LinkStep(c) \/ Drop(c)

Spec == Init /\ [][Next]_vars

\* Sockets deliver, the event loop runs every handler to its end, and the client
\* keeps trying to connect.
Fairness == \A c \in Clients : WF_vars(LinkStep(c))

FairSpec == Spec /\ Fairness
=============================================================================
