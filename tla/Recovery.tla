-------------------------------- MODULE Recovery --------------------------------
(***************************************************************************)
(* The rooms of a server, their rows in SQLite and the two counters that   *)
(* are kept beside them, over saves, crashes and restarts: server.ts,      *)
(* db.ts, serialTaskRunner.ts, recoveryState.ts and accounting.ts.         *)
(*                                                                         *)
(* Saving and loading run to their end before anything else does, but a    *)
(* save may fail between two rows.  A user has one session per room, and   *)
(* is in one room at a time: the switch from a room to another is its      *)
(* departure and its arrival, and the room that is created or joined while *)
(* a hash is awaited is RoomServer's subject.  Suggestions and chat are    *)
(* saved and restored with their room as its documents are and are left    *)
(* out.  A document is its version and its sizes.                          *)
(***************************************************************************)
EXTENDS Integers, FiniteSets, FiniteSetsExt

CONSTANTS
  Rooms,          \* the ids generateRoomId draws
  Users, Ips, Docs,
  IpOf,           \* the address of each user
  NoRoom, NoUser, NoDoc,
  MaxRoomsPerIp,  \* MAX_ROOMS_PER_IP
  MaxTotal,       \* MAX_TOTAL_DOC_BYTES
  Sizes,          \* the sizes of what clients send
  Owners,         \* bound: the users that create rooms
  Busy,           \* bound: the rooms with guests and documents
  MaxVersion,     \* bound: versions of a document
  MaxSaves,       \* bound: saves
  MaxOutages      \* bound: crashes and stops

Roles == {"root", "collaborator", "viewer"}

ASSUME RecoveryConstants ==
  /\ IsFiniteSet(Rooms) /\ IsFiniteSet(Docs)
  /\ IpOf \in [Users -> Ips]
  /\ Sizes \subseteq Nat \ {0}
  /\ MaxRoomsPerIp \in Nat /\ MaxTotal \in Nat
  /\ MaxVersion \in Nat \ {0}
  /\ MaxSaves \in Nat /\ MaxOutages \in Nat
  /\ Owners \subseteq Users /\ Busy \subseteq Rooms
  /\ NoUser \notin Users \cup Roles

\* text and state in bytes; a state of 0 is none
Documents == [version : 1 .. MaxVersion, text : Nat, state : Nat]

\* what a row of the table holds
RoomStates ==
  [owner : Users, ip : Ips, sessions : [Users -> Roles \cup {NoUser}],
   documents : [Docs -> Documents \cup {NoDoc}]]

ASSUME RecoveryNulls == NoRoom \notin RoomStates /\ NoDoc \notin Documents

VARIABLES
  up,
  stopped,  \* it was told to stop, and is down since
  rooms,    \* the server's map; NoRoom for an id it does not have
  present,  \* per room: the users whose connection is in it
  row,      \* the table rooms of rooms.db
  drawn,    \* the room ids that were drawn
  totalDocBytes,
  roomCountByIp,
  saves, outages

memory == <<rooms, present, totalDocBytes, roomCountByIp>>
vars == <<up, stopped, memory, row, drawn, saves, outages>>

RecoveryTypeOK ==
  /\ up \in BOOLEAN /\ stopped \in BOOLEAN
  /\ rooms \in [Rooms -> RoomStates \cup {NoRoom}]
  /\ present \in [Rooms -> SUBSET Users]
  /\ row \in [Rooms -> RoomStates \cup {NoRoom}]
  /\ drawn \subseteq Rooms
  /\ totalDocBytes \in Int
  /\ roomCountByIp \in [Ips -> Nat]
  /\ saves \in Nat /\ outages \in Nat

NoRooms == [r \in Rooms |-> NoRoom]
Open(r) == rooms[r] # NoRoom
OpenRooms == {r \in Rooms : Open(r)}

\* Buffer.byteLength of a document: of its state if it has one
Held(doc) == IF doc = NoDoc THEN 0 ELSE IF doc.state # 0 THEN doc.state ELSE doc.text
HeldBy(room) == MapThenSumSet(LAMBDA d : Held(room.documents[d]), Docs)
AllHeld == MapThenSumSet(LAMBDA r : HeldBy(rooms[r]), OpenRooms)

Init ==
  /\ up = TRUE /\ stopped = FALSE
  /\ rooms = NoRooms
  /\ present = [r \in Rooms |-> {}]
  /\ row = NoRooms
  /\ drawn = {}
  /\ totalDocBytes = 0
  /\ roomCountByIp = [i \in Ips |-> 0]
  /\ saves = 0 /\ outages = 0

-------------------------------------------------------------------------------
\* Rooms and members

Elsewhere(u) == \E r \in Rooms : u \in present[r]

\* createRoomInner
CreateRoom(r, u) ==
  /\ up
  /\ u \in Owners
  /\ r \notin drawn
  /\ ~Elsewhere(u)
  /\ roomCountByIp[IpOf[u]] < MaxRoomsPerIp
  /\ rooms' = [rooms EXCEPT ![r] =
       [owner |-> u, ip |-> IpOf[u],
        sessions |-> [v \in Users |-> IF v = u THEN "root" ELSE NoUser],
        documents |-> [d \in Docs |-> NoDoc]]]
  /\ present' = [present EXCEPT ![r] = {u}]
  /\ drawn' = drawn \cup {r}
  /\ roomCountByIp' = [roomCountByIp EXCEPT ![IpOf[u]] = @ + 1]
  /\ UNCHANGED <<up, stopped, row, totalDocBytes, saves, outages>>

SetSession(r, u, role) == rooms' = [rooms EXCEPT ![r].sessions[u] = role]

\* joinRoomInner: with the session the room remembers, or a new one
JoinRoom(r, u) ==
  /\ up /\ Open(r)
  /\ r \in Busy \/ u = rooms[r].owner
  /\ ~Elsewhere(u)
  /\ present' = [present EXCEPT ![r] = @ \cup {u}]
  /\ \/ rooms[r].sessions[u] # NoUser /\ UNCHANGED rooms
     \/ rooms[r].sessions[u] = NoUser /\ SetSession(r, u, "collaborator")
  /\ UNCHANGED <<up, stopped, row, drawn, totalDocBytes, roomCountByIp, saves, outages>>

\* cleanupRoomMembership of a connection that closes: the session stays
Disconnect(r, u) ==
  /\ up /\ u \in present[r]
  /\ present' = [present EXCEPT ![r] = @ \ {u}]
  /\ UNCHANGED <<up, stopped, rooms, row, drawn, totalDocBytes, roomCountByIp, saves, outages>>

\* leaveRoom of a member, or removeParticipant by the owner
LeaveOrRemove(r, u) ==
  /\ up /\ u \in present[r]
  /\ u # rooms[r].owner
  /\ present' = [present EXCEPT ![r] = @ \ {u}]
  /\ SetSession(r, u, NoUser)
  /\ UNCHANGED <<up, stopped, row, drawn, totalDocBytes, roomCountByIp, saves, outages>>

OwnerActs(r) == up /\ Open(r) /\ rooms[r].owner \in present[r]

\* updateRole
UpdateRole(r, u, role) ==
  /\ OwnerActs(r)
  /\ u \in present[r] \ {rooms[r].owner}
  /\ SetSession(r, u, role)
  /\ UNCHANGED <<up, stopped, present, row, drawn, totalDocBytes, roomCountByIp, saves, outages>>

\* deleteRoom: the room, what it was charged for and its row
DecrementTwice(n) == n - 2
Decrement(n) == IF n =< 1 THEN 0 ELSE n - 1
KeepRow(r) == row
WithoutRow(r) == [row EXCEPT ![r] = NoRoom]
DeleteRoom(r) ==
  /\ totalDocBytes' = IF totalDocBytes < HeldBy(rooms[r]) THEN 0 ELSE totalDocBytes - HeldBy(rooms[r])
  /\ roomCountByIp' = [roomCountByIp EXCEPT ![rooms[r].ip] = Decrement(@)]
  /\ rooms' = [rooms EXCEPT ![r] = NoRoom]
  /\ present' = [present EXCEPT ![r] = {}]
  /\ row' = WithoutRow(r)
  /\ UNCHANGED <<up, stopped, drawn, saves, outages>>

\* leaveRoom of the owner, which closes the room
OwnerLeaves(r) == OwnerActs(r) /\ DeleteRoom(r)

\* the cleanup timer, for a room without connections
CollectIdle(r) == up /\ Open(r) /\ present[r] = {} /\ DeleteRoom(r)

-------------------------------------------------------------------------------
\* Documents: charges that are refused beyond MAX_TOTAL_DOC_BYTES

Charge(previous, next) ==
  /\ totalDocBytes' = totalDocBytes + next - previous
  /\ totalDocBytes' =< MaxTotal

SetDoc(r, d, doc) == rooms' = [rooms EXCEPT ![r].documents[d] = doc]

\* handleShareDocument
ShareDocument(r, d) ==
  /\ OwnerActs(r) /\ r \in Busy
  /\ \E text \in Sizes, state \in Sizes \cup {0} :
       LET doc == [version |-> 1, text |-> text, state |-> state]
       IN /\ rooms[r].documents[d] # NoDoc => rooms[r].documents[d].version # 1
          /\ Charge(Held(rooms[r].documents[d]), Held(doc))
          /\ SetDoc(r, d, doc)
  /\ UNCHANGED <<up, stopped, present, row, drawn, roomCountByIp, saves, outages>>

\* handleUnshareDocument
ReleasedWithState(doc) == doc.text + doc.state
Released(doc) == Held(doc)
UnshareDocument(r, d) ==
  /\ OwnerActs(r)
  /\ rooms[r].documents[d] # NoDoc
  /\ totalDocBytes' = totalDocBytes - Released(rooms[r].documents[d])
  /\ SetDoc(r, d, NoDoc)
  /\ UNCHANGED <<up, stopped, present, row, drawn, roomCountByIp, saves, outages>>

\* handleDocChange: an update is charged and forgotten; a patch, alone or with
\* an update no shorter than what it inserts, changes the text.  A patch that does
\* not apply is charged all the same.
DocChange(r, d) ==
  /\ up
  /\ \E u \in present[r] : rooms[r].sessions[u] # "viewer"
  /\ LET doc == rooms[r].documents[d]
     IN /\ doc # NoDoc
        /\ doc.version < MaxVersion
        /\ \E sent \in Sizes \cup {0} :
             /\ Charge(Held(doc), Held(doc) + sent)
             /\ \/ UNCHANGED rooms
                \/ \E inserted \in 0 .. sent, removed \in 0 .. doc.text :
                     SetDoc(r, d, [doc EXCEPT !.version = @ + 1, !.text = @ - removed + inserted])
  /\ UNCHANGED <<up, stopped, present, row, drawn, roomCountByIp, saves, outages>>

\* handleFullDocumentSync
FullDocumentSync(r, d) ==
  /\ OwnerActs(r)
  /\ LET doc == rooms[r].documents[d]
     IN /\ doc # NoDoc
        /\ \E text \in Sizes, state \in Sizes \cup {0}, version \in doc.version + 1 .. MaxVersion :
             LET next == [version |-> version, text |-> text, state |-> state]
             IN Charge(Held(doc), Held(next)) /\ SetDoc(r, d, next)
  /\ UNCHANGED <<up, stopped, present, row, drawn, roomCountByIp, saves, outages>>

-------------------------------------------------------------------------------
\* Saves and restarts

\* saveRooms: a row for each room, in turn
SavedAfresh(some) == [r \in Rooms |-> IF r \in some THEN rooms[r] ELSE NoRoom]
Saved(some) == [r \in Rooms |-> IF r \in some THEN rooms[r] ELSE row[r]]

\* the autosave, queued behind the last one; an error ends it, and is logged
AutoSave ==
  /\ up
  /\ OpenRooms # {}
  /\ saves < MaxSaves
  /\ saves' = saves + 1
  /\ \E some \in SUBSET OpenRooms : row' = Saved(some)
  /\ UNCHANGED <<up, stopped, memory, drawn, outages>>

\* resetInMemoryState, or the end of the process
Down ==
  /\ up
  /\ outages < MaxOutages
  /\ outages' = outages + 1
  /\ up' = FALSE
  /\ rooms' = NoRooms
  /\ present' = [r \in Rooms |-> {}]
  /\ totalDocBytes' = 0
  /\ roomCountByIp' = [i \in Ips |-> 0]
  /\ UNCHANGED <<drawn, saves>>

Crash == Down /\ UNCHANGED <<stopped, row>>

\* SIGTERM and SIGINT, and stopCodeRoomsServer, whose save is not queued.  One that
\* fails is an AutoSave that fails, and then a Crash.
ShutdownUnsaved == Down /\ stopped' = TRUE /\ UNCHANGED row
Shutdown == Down /\ stopped' = TRUE /\ row' = Saved(OpenRooms)

\* loadRooms, with rebuildAccountingFromRooms: by the sizes of the texts
TextBytes(room) ==
  MapThenSumSet(LAMBDA d : IF room.documents[d] = NoDoc THEN 0 ELSE room.documents[d].text, Docs)

RoomsOf(map, i) == {r \in Rooms : map[r] # NoRoom /\ map[r].ip = i}
RebuiltOnce(i) == IF RoomsOf(row, i) = {} THEN 0 ELSE 1
Rebuilt(i) == Cardinality(RoomsOf(row, i))
Restart ==
  /\ ~up
  /\ up' = TRUE /\ stopped' = FALSE
  /\ rooms' = row
  /\ totalDocBytes' = MapThenSumSet(LAMBDA r : TextBytes(row[r]), {r \in Rooms : row[r] # NoRoom})
  /\ roomCountByIp' = [i \in Ips |-> Rebuilt(i)]
  /\ UNCHANGED <<present, row, drawn, saves, outages>>

-------------------------------------------------------------------------------
RoomStep(r) ==
  \/ \E u \in Users : CreateRoom(r, u) \/ JoinRoom(r, u) \/ Disconnect(r, u) \/ LeaveOrRemove(r, u)
  \/ \E u \in Users, role \in Roles \ {"root"} : UpdateRole(r, u, role)
  \/ OwnerLeaves(r) \/ CollectIdle(r)
  \/ \E d \in Docs : ShareDocument(r, d) \/ UnshareDocument(r, d)
                       \/ DocChange(r, d) \/ FullDocumentSync(r, d)

Next ==
  \/ \E r \in Rooms : RoomStep(r)
  \/ AutoSave \/ Crash \/ Shutdown \/ Restart

Spec == Init /\ [][Next]_vars
===============================================================================
