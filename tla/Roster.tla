--------------------------------- MODULE Roster ---------------------------------
(***************************************************************************)
(* Who is in a room, as the server knows it and as each client shows it:   *)
(* the server's membership (server.ts, roomSessions.ts), RoomState.ts and  *)
(* ChatManager.ts, and the handlers of extension.ts between them, which    *)
(* await files while later messages are handled.                           *)
(*                                                                         *)
(* The room is open and its owner stays.  A connection is a user id.  The  *)
(* server handles what a client sends when it is sent: a delay is a later  *)
(* sending, because no message carries anything but its sender's choice.   *)
(* What it sends waits in the connection's channel, and is lost with it.   *)
(* Notices, voice, cursors and typing are left out.                        *)
(***************************************************************************)
EXTENDS Naturals, Sequences, FiniteSets, SequencesExt

CONSTANTS
  Clients, Owner,
  MaxIds,      \* bound: connections
  MaxDrops,    \* bound: connections lost
  MaxChanges,  \* bound: what the users change and say
  MaxChat      \* bound: chat messages

ASSUME RosterConstants ==
  /\ Owner \in Clients
  /\ {MaxIds, MaxDrops, MaxChanges, MaxChat} \subseteq Nat /\ MaxIds > 0

VARIABLES
  members,    \* room.participants: the marks of each user id
  sessions,   \* room.recoverableSessions, by the id each was drawn for
  sessionOf,  \* the session of a member
  displaced,  \* the ids whose session was resumed on another connection
  chat,       \* the chat messages the room has taken
  before,     \* per id: those it had taken when the id joined
  ids,        \* connections made
  open,       \* connections the server has not seen close
  link,       \* per client: its connection
  channel,    \* per id: what the server has sent and the client has not handled
  views,      \* per client: RoomState, and what the extension would rejoin with
  creating,   \* where the owner's handler of roomCreated awaits
  joins,      \* per client: the handlers of joinedRoom that await
  overtaken,  \* per client: a message was handled that one of these may undo
  shown,      \* per client: ChatManager's messages
  stored,     \* per client: those in its memento
  chatRoom,   \* per client: whether ChatManager has a room
  drops, changes, said

server == <<members, sessions, sessionOf, displaced, chat, before>>
chats == <<shown, stored, chatRoom>>
counts == <<drops, changes, said>>
vars == <<server, ids, open, link, channel, views, creating, joins, overtaken, chats, counts>>

Ids == 1 .. MaxIds
NoId == 0
Chats == 1 .. MaxChat
Roles == {"root", "collaborator", "viewer"}
Marks == [role : Roles, direct : BOOLEAN]
Absent == [role |-> "none", direct |-> FALSE]
Lists == [Ids -> Marks \cup {Absent}]
NoOne == [i \in Ids |-> Absent]
Here(list, i) == i # NoId /\ list[i] # Absent

Messages ==
  [type : {"joinedRoom"}, id : Ids, role : Roles, session : Ids, list : Lists]
    \cup [type : {"participantJoined"}, id : Ids, marks : Marks]
    \cup [type : {"participantLeft"}, id : Ids]
    \cup [type : {"roleUpdated"}, id : Ids, role : Roles]
    \cup [type : {"editModeUpdated"}, id : Ids, direct : BOOLEAN]
    \cup [type : {"chatMessage"}, n : Chats]
    \cup [type : {"removed"}]
Views ==
  [inRoom : BOOLEAN, self : Ids \cup {NoId}, role : Roles \cup {"none"}, direct : BOOLEAN,
   list : Lists, intent : BOOLEAN, token : Ids \cup {NoId}]
Joins ==
  [stage : {"naming", "recording"}, id : Ids, role : Roles, session : Ids, list : Lists]
Creations == {"naming", "recording", "done"}

RosterTypeOK ==
  /\ members \in Lists /\ sessions \in Lists
  /\ sessionOf \in [Ids -> Ids \cup {NoId}]
  /\ displaced \subseteq Ids /\ open \subseteq Ids
  /\ chat \subseteq Chats
  /\ before \in [Ids -> SUBSET Chats]
  /\ ids \in Ids
  /\ link \in [Clients -> Ids \cup {NoId}]
  /\ \A i \in Ids : channel[i] \in Seq(Messages)
  /\ views \in [Clients -> Views]
  /\ creating \in Creations
  /\ \A c \in Clients : joins[c] \in Seq(Joins)
  /\ overtaken \in [Clients -> BOOLEAN]
  /\ shown \in [Clients -> SUBSET Chats] /\ stored \in [Clients -> SUBSET Chats]
  /\ chatRoom \in [Clients -> BOOLEAN]
  /\ drops \in Nat /\ changes \in Nat /\ said \in Nat

Outside ==
  [inRoom |-> FALSE, self |-> NoId, role |-> "none", direct |-> FALSE, list |-> NoOne,
   intent |-> FALSE, token |-> NoId]
OwnerMarks == [role |-> "root", direct |-> TRUE]

JoinedMessage(i, session, list) ==
  [type |-> "joinedRoom", id |-> i, role |-> list[i].role, session |-> session, list |-> list]

\* createRoomInner has answered with roomCreated, whose handler has begun, and with a
\* joinedRoom, which is on its way; the others are about to join.
Init ==
  /\ members = [NoOne EXCEPT ![1] = OwnerMarks]
  /\ sessions = members
  /\ sessionOf = [i \in Ids |-> IF i = 1 THEN 1 ELSE NoId]
  /\ displaced = {} /\ chat = {}
  /\ before = [i \in Ids |-> {}]
  /\ ids = 1 /\ open = {1}
  /\ link = [c \in Clients |-> IF c = Owner THEN 1 ELSE NoId]
  /\ channel = [i \in Ids |-> IF i = 1 THEN <<JoinedMessage(1, 1, members)>> ELSE <<>>]
  /\ views = [c \in Clients |-> [Outside EXCEPT !.intent = c # Owner]]
  /\ creating = "naming"
  /\ joins = [c \in Clients |-> <<>>]
  /\ overtaken = [c \in Clients |-> FALSE]
  /\ shown = [c \in Clients |-> {}] /\ stored = [c \in Clients |-> {}]
  /\ chatRoom = [c \in Clients |-> FALSE]
  /\ drops = 0 /\ changes = 0 /\ said = 0

-------------------------------------------------------------------------------
\* The server

\* broadcast to the connections of a list; what nobody listens to is lost
Linked(i) == \E c \in Clients : link[c] = i
Broadcast(list, m) ==
  [i \in Ids |-> IF Here(list, i) /\ Linked(i) THEN Append(channel[i], m) ELSE channel[i]]

Without(list, i) == [list EXCEPT ![i] = Absent]

ResolvedBlindly(token) ==
  IF token # NoId THEN sessions[token]
  ELSE [role |-> "collaborator", direct |-> FALSE]
\* resolveJoinParticipant: the session's marks, the owner's or a newcomer's
Resolved(token) ==
  IF token # NoId /\ Here(sessions, token) THEN sessions[token]
  ELSE [role |-> "collaborator", direct |-> FALSE]
SessionFor(i, token) == IF token # NoId /\ Here(sessions, token) THEN token ELSE i

Previous(i, token) == {j \in Ids : Here(members, j) /\ sessionOf[j] = SessionFor(i, token)}

\* joinRoomInner: the previous connection of the session loses its place unseen
JoinRoom(c, i, token) ==
  LET prior == Previous(i, token)
      marks == Resolved(token)
      rest == [j \in Ids |-> IF j \in prior THEN Absent ELSE members[j]]
      list == [rest EXCEPT ![i] = marks]
      told == [j \in Ids |->
                IF Here(rest, j) /\ j # i /\ Linked(j)
                  THEN Append(channel[j], [type |-> "participantJoined", id |-> i, marks |-> marks])
                  ELSE channel[j]]
  IN /\ members' = list
     /\ sessions' = [sessions EXCEPT ![SessionFor(i, token)] = marks]
     /\ sessionOf' = [j \in Ids |-> IF j = i THEN SessionFor(i, token)
                                    ELSE IF j \in prior THEN NoId ELSE sessionOf[j]]
     /\ displaced' = (displaced \cup prior) \ {i}
     /\ before' = [before EXCEPT ![i] = chat]
     /\ channel' = [told EXCEPT ![i] = Append(@, JoinedMessage(i, SessionFor(i, token), list))]
     /\ UNCHANGED chat

\* cleanupRoomMembership of a member that is not the owner
DepartUnseen(i) == channel
Depart(i) == Broadcast(Without(members, i), [type |-> "participantLeft", id |-> i])
Unseat(i) ==
  /\ members' = Without(members, i)
  /\ sessionOf' = [sessionOf EXCEPT ![i] = NoId]
  /\ UNCHANGED <<displaced, chat, before>>

\* The close event of a connection the client has lost.
ServerCloses(i) ==
  /\ i \in open /\ ~Linked(i)
  /\ open' = open \ {i}
  /\ \/ /\ Here(members, i)
        /\ Unseat(i)
        /\ channel' = Depart(i)
     \/ /\ ~Here(members, i)
        /\ UNCHANGED <<members, sessionOf, displaced, chat, before, channel>>
  /\ UNCHANGED <<sessions, ids, link, views, creating, joins, overtaken, chats, counts>>

-------------------------------------------------------------------------------
\* The clients' connections and commands

\* A first connection or a reconnection: the connected event sends joinRoom.
Connect(c) ==
  /\ link[c] = NoId
  /\ ids < MaxIds
  /\ views[c].intent
  /\ ids' = ids + 1
  /\ open' = open \cup {ids + 1}
  /\ link' = [link EXCEPT ![c] = ids + 1]
  /\ JoinRoom(c, ids + 1, views[c].token)
  /\ UNCHANGED <<views, creating, joins, overtaken, chats, counts>>

\* joinRoom over the connection it has
JoinAgain(c) ==
  /\ link[c] # NoId
  /\ ~Here(members, link[c])
  /\ ~views[c].intent
  /\ JoinRoom(c, link[c], NoId)
  /\ views' = [views EXCEPT ![c].intent = TRUE, ![c].token = NoId]
  /\ UNCHANGED <<ids, open, link, creating, joins, overtaken, chats, counts>>

\* The close event, with a reconnection to come: the views are kept.
Drop(c) ==
  /\ link[c] # NoId
  /\ drops < MaxDrops
  /\ drops' = drops + 1
  /\ channel' = [channel EXCEPT ![link[c]] = <<>>]
  /\ link' = [link EXCEPT ![c] = NoId]
  /\ UNCHANGED <<server, ids, open, views, creating, joins, overtaken, chats, changes, said>>

\* ChatManager's methods
AddMessage(c, n) ==
  /\ shown' = [shown EXCEPT ![c] = @ \cup {n}]
  /\ stored' = [stored EXCEPT ![c] = IF chatRoom[c] THEN shown'[c] ELSE @]
  /\ UNCHANGED chatRoom
Clear(c) ==
  /\ shown' = [shown EXCEPT ![c] = {}]
  /\ stored' = [stored EXCEPT ![c] = IF chatRoom[c] THEN {} ELSE @]
  /\ chatRoom' = [chatRoom EXCEPT ![c] = FALSE]
SetRoom(c) ==
  /\ shown' = [shown EXCEPT ![c] = stored[c]]
  /\ chatRoom' = [chatRoom EXCEPT ![c] = TRUE]
  /\ UNCHANGED stored

\* resetState, and clearJoinIntent
Reset(c) ==
  /\ views' = [views EXCEPT ![c] = Outside]
  /\ Clear(c)

Change == changes < MaxChanges /\ changes' = changes + 1 /\ UNCHANGED <<drops, said>>

\* leaveRoom of a guest
LeaveRoom(c) ==
  /\ Change
  /\ c # Owner
  /\ views[c].inRoom
  /\ link[c] # NoId
  /\ Reset(c)
  /\ LET i == link[c]
     IN \/ /\ Here(members, i)
           /\ Unseat(i)
           /\ sessions' = Without(sessions, sessionOf[i])
           /\ channel' = Depart(i)
        \/ /\ ~Here(members, i)
           /\ UNCHANGED <<server, channel>>
  /\ UNCHANGED <<ids, open, link, creating, joins, overtaken>>

\* the owner's commands, about somebody it shows who is still a member
Commands(i) ==
  /\ Change
  /\ views[Owner].role = "root" /\ views[Owner].inRoom
  /\ link[Owner] # NoId /\ Here(members, link[Owner])
  /\ i # views[Owner].self
  /\ Here(views[Owner].list, i)
  /\ Here(members, i) /\ members[i].role # "root"

SetMarks(i, marks) ==
  /\ members' = [members EXCEPT ![i] = marks]
  /\ sessions' = [sessions EXCEPT ![sessionOf[i]] = marks]
  /\ UNCHANGED <<sessionOf, displaced, chat, before>>

\* changeParticipantRole and updateRole
UpdateRole(i, role) ==
  /\ Commands(i)
  /\ SetMarks(i, [role |-> role, direct |-> members[i].direct /\ role = "collaborator"])
  /\ channel' = Broadcast(members, [type |-> "roleUpdated", id |-> i, role |-> role])
  /\ UNCHANGED <<ids, open, link, views, creating, joins, overtaken, chats>>

\* handleKickParticipant and removeParticipant
RemoveParticipant(i) ==
  /\ Commands(i)
  /\ Unseat(i)
  /\ sessions' = Without(sessions, sessionOf[i])
  /\ channel' = [Depart(i) EXCEPT ![i] = IF Linked(i) THEN Append(@, [type |-> "removed"]) ELSE @]
  /\ UNCHANGED <<ids, open, link, views, creating, joins, overtaken, chats>>

\* setEditMode, from its participant
SetEditMode(i, direct) ==
  \/ /\ members[i].role = "collaborator"
     /\ SetMarks(i, [members[i] EXCEPT !.direct = direct])
     /\ channel' = Broadcast(members, [type |-> "editModeUpdated", id |-> i, direct |-> direct])
  \/ /\ members[i].role # "collaborator"
     /\ UNCHANGED <<server, channel>>

\* toggleCollaboratorMode, which does not wait; what it sends over no connection is
\* lost, and refused for an id that is no longer its own
ToggleMode(c) ==
  /\ Change
  /\ views[c].role = "collaborator" /\ views[c].self # NoId
  /\ views' = [views EXCEPT ![c].direct = ~@]
  /\ \/ link[c] = views[c].self /\ SetEditMode(link[c], views'[c].direct)
     \/ link[c] # views[c].self /\ UNCHANGED <<server, channel>>
  /\ UNCHANGED <<ids, open, link, creating, joins, overtaken, chats>>

\* handleChatSend
HeardBySpeakers(list) == [i \in Ids |-> IF list[i].role = "viewer" THEN Absent ELSE list[i]]
Heard(list) == list
HandleChatSend(i, n) ==
  \/ /\ Here(members, i) /\ members[i].role # "viewer"
     /\ chat' = chat \cup {n}
     /\ channel' = Broadcast(Heard(members), [type |-> "chatMessage", n |-> n])
  \/ /\ ~(Here(members, i) /\ members[i].role # "viewer")
     /\ UNCHANGED <<chat, channel>>

\* sendChatMessage, which shows the message at once, whatever becomes of it
SendChatMessage(c) ==
  /\ views[c].inRoom
  /\ said < MaxChat /\ said' = said + 1
  /\ changes < MaxChanges /\ changes' = changes + 1
  /\ AddMessage(c, said')
  /\ HandleChatSend(link[c], said')
  /\ UNCHANGED <<members, sessions, sessionOf, displaced, before>>
  /\ UNCHANGED <<ids, open, link, views, creating, joins, overtaken, drops>>

-------------------------------------------------------------------------------
\* The clients' handlers

\* RoomState's methods
SyncCollaboratorMode(v) ==
  IF v.role = "collaborator" /\ v.self # NoId /\ Here(v.list, v.self)
    THEN [v EXCEPT !.direct = v.list[v.self].direct]
    ELSE v
SetSelfInfo(v, id, role) ==
  SyncCollaboratorMode([v EXCEPT !.inRoom = TRUE, !.self = id, !.role = role,
                                 !.direct = @ /\ role = "collaborator"])
SetParticipants(v, list) == SyncCollaboratorMode([v EXCEPT !.list = list])
AddParticipant(v, id, marks) ==
  LET added == [v EXCEPT !.list[id] = marks]
  IN IF id = v.self THEN SyncCollaboratorMode(added) ELSE added
KeepParticipant(v, id) == v
RemovedParticipant(v, id) ==
  [v EXCEPT !.list[id] = Absent, !.direct = @ /\ id # v.self]
UpdateParticipantRoleOnly(v, id, role) ==
  LET listed == IF Here(v.list, id) THEN [v EXCEPT !.list[id].role = role] ELSE v
  IN IF id = v.self THEN [listed EXCEPT !.role = role] ELSE listed
UpdateParticipantRole(v, id, role) ==
  LET listed == IF Here(v.list, id) THEN [v EXCEPT !.list[id].role = role] ELSE v
  IN IF id = v.self
       THEN [listed EXCEPT !.role = role, !.direct = @ /\ role = "collaborator"]
       ELSE listed
UpdateParticipantMode(v, id, direct) ==
  LET listed == IF Here(v.list, id) THEN [v EXCEPT !.list[id].direct = direct] ELSE v
  IN IF id = v.self /\ v.role = "collaborator" THEN [listed EXCEPT !.direct = direct] ELSE listed

\* What roomCreated's handler may undo: it sets the owner's id and role.
Creating(c) == c = Owner /\ creating # "done"
Denies(m) ==
  \/ m.type = "joinedRoom" /\ ~(m.id = 1 /\ m.role = "root")
  \/ m.type = "roleUpdated" /\ m.id = 1

\* The client takes the next message; one that a handler may yet undo has overtaken it.
Takes(c, m) ==
  /\ link[c] # NoId
  /\ channel[link[c]] # <<>>
  /\ m = Head(channel[link[c]])
  /\ channel' = [channel EXCEPT ![link[c]] = Tail(@)]
  /\ overtaken' = [overtaken EXCEPT ![c] =
       \/ joins[c] # <<>>
       \/ Creating(c) /\ Denies(m)
       \/ @ /\ m.type # "joinedRoom"]
  /\ UNCHANGED <<server, ids, open, link, creating, counts>>

\* joinedRoom, up to its first await
JoinedRoom(c, m) ==
  /\ m.type = "joinedRoom"
  /\ \/ /\ views[c].inRoom
        /\ UNCHANGED <<views, chats>>
     \/ /\ ~views[c].inRoom
        /\ views' = [views EXCEPT ![c] =
             [Outside EXCEPT !.intent = views[c].intent, !.token = views[c].token]]
        /\ Clear(c)
  /\ joins' = [joins EXCEPT ![c] = Append(@,
       [stage |-> "naming", id |-> m.id, role |-> m.role, session |-> m.session, list |-> m.list])]

\* the messages that change the list
ListChanged(c, m) ==
  /\ \/ /\ m.type = "participantJoined"
        /\ views' = [views EXCEPT ![c] = AddParticipant(@, m.id, m.marks)]
     \/ /\ m.type = "participantLeft"
        /\ views' = [views EXCEPT ![c] = RemovedParticipant(@, m.id)]
     \/ /\ m.type = "roleUpdated"
        /\ views' = [views EXCEPT ![c] = UpdateParticipantRole(@, m.id, m.role)]
     \/ /\ m.type = "editModeUpdated"
        /\ views' = [views EXCEPT ![c] = UpdateParticipantMode(@, m.id, m.direct)]
  /\ UNCHANGED <<joins, chats>>

ChatMessage(c, m) ==
  /\ m.type = "chatMessage"
  /\ AddMessage(c, m.n)
  /\ UNCHANGED <<views, joins>>

Removed(c, m) ==
  /\ m.type = "removed"
  /\ Reset(c)
  /\ UNCHANGED joins

Receive(c) ==
  /\ link[c] # NoId /\ channel[link[c]] # <<>>
  /\ LET m == Head(channel[link[c]])
     IN /\ Takes(c, m)
        /\ JoinedRoom(c, m) \/ ListChanged(c, m) \/ ChatMessage(c, m) \/ Removed(c, m)

\* joinedRoom after getStoredDisplayName
Named(c, k) ==
  /\ k \in 1 .. Len(joins[c])
  /\ LET join == joins[c][k]
     IN /\ join.stage = "naming"
        /\ joins' = [joins EXCEPT ![c][k].stage = "recording"]
        /\ views' = [views EXCEPT ![c] =
             SetSelfInfo([@ EXCEPT !.intent = TRUE, !.token = join.session], join.id, join.role)]
  /\ UNCHANGED <<server, ids, open, link, channel, creating, overtaken, chats, counts>>

\* joinedRoom after recordRoomInfo: setParticipants and ChatManager.setRoom
Recorded(c, k) ==
  /\ k \in 1 .. Len(joins[c])
  /\ LET join == joins[c][k]
     IN /\ join.stage = "recording"
        /\ joins' = [joins EXCEPT ![c] = RemoveAt(@, k)]
        /\ views' = [views EXCEPT ![c] = SetParticipants(@, join.list)]
        /\ SetRoom(c)
  /\ UNCHANGED <<server, ids, open, link, channel, creating, overtaken, counts>>

\* roomCreated after its awaits, of the same functions
CreatedNamed ==
  /\ creating = "naming"
  /\ creating' = "recording"
  /\ views' = [views EXCEPT ![Owner] =
       SetSelfInfo([@ EXCEPT !.intent = TRUE, !.token = 1], 1, "root")]
  /\ UNCHANGED <<server, ids, open, link, channel, joins, overtaken, chats, counts>>

CreatedRecorded ==
  /\ creating = "recording"
  /\ creating' = "done"
  /\ SetRoom(Owner)
  /\ UNCHANGED <<server, ids, open, link, channel, views, joins, overtaken, counts>>

-------------------------------------------------------------------------------
\* getStoredDisplayName has its answer at once: only messages that came together with
\* the one it is asked for are handled before the handler goes on.
Naming(c) ==
  \/ c = Owner /\ creating = "naming"
  \/ \E k \in DOMAIN joins[c] : joins[c][k].stage = "naming"

ClientStep(c) ==
  \/ Receive(c)
  \/ \E k \in 1 .. Len(joins[c]) : Named(c, k)
  \/ /\ ~Naming(c)
     /\ \/ Connect(c) \/ JoinAgain(c) \/ Drop(c) \/ LeaveRoom(c)
        \/ ToggleMode(c) \/ SendChatMessage(c)
        \/ \E k \in 1 .. Len(joins[c]) : Recorded(c, k)

OwnerStep ==
  \/ CreatedNamed
  \/ /\ ~Naming(Owner)
     /\ \/ CreatedRecorded
        \/ \E i \in Ids : \/ RemoveParticipant(i)
                          \/ \E role \in {"collaborator", "viewer"} : UpdateRole(i, role)

Next ==
  \/ \E c \in Clients : ClientStep(c)
  \/ OwnerStep
  \/ \E i \in Ids : ServerCloses(i)

Spec == Init /\ [][Next]_vars
===============================================================================
