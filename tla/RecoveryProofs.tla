----------------------------- MODULE RecoveryProofs -----------------------------
(***************************************************************************)
(* Theorems about the recovery, for every set of rooms, users, addresses   *)
(* and documents.  The second half is about the total of bytes, which is   *)
(* charged in steps and is measured by sums over rooms and documents.      *)
(***************************************************************************)
EXTENDS RecoveryInvariants, FiniteSetTheorems, WellFoundedInduction, TLAPS

RoomMaps == [Rooms -> RoomStates \cup {NoRoom}]

\* RecoveryTypeOK but for the total
RoomsTyped ==
  /\ up \in BOOLEAN /\ stopped \in BOOLEAN
  /\ rooms \in RoomMaps
  /\ present \in [Rooms -> SUBSET Users]
  /\ row \in RoomMaps
  /\ drawn \in SUBSET Rooms
  /\ roomCountByIp \in [Ips -> Nat]

\* nobody is in a room the server does not have
PresentInOpenRooms == \A r \in Rooms : present[r] # {} => up /\ Open(r)

\* One room is rewritten and stays its owner's.
Rewrites(r) ==
  /\ up /\ UNCHANGED <<up, stopped>>
  /\ Open(r)
  /\ \E room \in RoomStates :
       /\ room.ip = rooms[r].ip
       /\ rooms' = [rooms EXCEPT ![r] = room]
  /\ UNCHANGED <<row, drawn, roomCountByIp>>

\* Who is present changes, or nothing the theorems are about.
Moves ==
  /\ up /\ UNCHANGED <<up, stopped>>
  /\ UNCHANGED <<rooms, row, drawn, roomCountByIp>>

\* A move puts users only into rooms that are open.
MovesWell ==
  /\ present' \in [Rooms -> SUBSET Users]
  /\ \A r \in Rooms : present'[r] # {} => present[r] # {} \/ Open(r)

-------------------------------------------------------------------------------
\* The steps, sorted by what they do

LEMMA SessionRewritten ==
  ASSUME RoomsTyped, up, UNCHANGED <<up, stopped>>, NEW r \in Rooms, Open(r),
         NEW u \in Users, NEW role \in Roles \cup {NoUser}, SetSession(r, u, role),
         UNCHANGED <<row, drawn, roomCountByIp>>
  PROVE  Rewrites(r)
<1> DEFINE room == [rooms[r] EXCEPT !.sessions[u] = role]
<1>1. rooms[r] \in RoomStates
  BY DEF RoomsTyped, RoomMaps, Open
<1>2. room \in RoomStates
  BY <1>1 DEF RoomStates
<1>3. room.ip = rooms[r].ip
  BY <1>1 DEF RoomStates
<1>4. rooms' = [rooms EXCEPT ![r] = room]
  BY DEF SetSession
<1> HIDE DEF room
<1> QED
  BY <1>2, <1>3, <1>4 DEF Rewrites

LEMMA DocRewritten ==
  ASSUME RoomsTyped, up, UNCHANGED <<up, stopped>>, NEW r \in Rooms, Open(r),
         NEW d \in Docs, NEW doc \in Documents \cup {NoDoc}, SetDoc(r, d, doc),
         UNCHANGED <<row, drawn, roomCountByIp>>
  PROVE  Rewrites(r)
<1> DEFINE room == [rooms[r] EXCEPT !.documents[d] = doc]
<1>1. rooms[r] \in RoomStates
  BY DEF RoomsTyped, RoomMaps, Open
<1>2. room \in RoomStates
  BY <1>1 DEF RoomStates
<1>3. room.ip = rooms[r].ip
  BY <1>1 DEF RoomStates
<1>4. rooms' = [rooms EXCEPT ![r] = room]
  BY DEF SetDoc
<1> HIDE DEF room
<1> QED
  BY <1>2, <1>3, <1>4 DEF Rewrites

LEMMA SizesTyped == Sizes \in SUBSET Nat /\ MaxVersion \in Nat /\ 1 \in 1 .. MaxVersion
BY RecoveryConstants

LEMMA ShareRewrites ==
  ASSUME RoomsTyped, PresentInOpenRooms, NEW r \in Rooms, NEW d \in Docs, ShareDocument(r, d)
  PROVE  Rewrites(r)
<1>1. PICK text \in Sizes, state \in Sizes \cup {0} :
        SetDoc(r, d, [version |-> 1, text |-> text, state |-> state])
  BY DEF ShareDocument
<1>2. [version |-> 1, text |-> text, state |-> state] \in Documents
  BY SizesTyped DEF Documents
<1> QED
  BY <1>1, <1>2, DocRewritten DEF ShareDocument, OwnerActs

LEMMA UnshareRewrites ==
  ASSUME RoomsTyped, PresentInOpenRooms, NEW r \in Rooms, NEW d \in Docs, UnshareDocument(r, d)
  PROVE  Rewrites(r)
BY DocRewritten DEF UnshareDocument, OwnerActs

LEMMA FullSyncRewrites ==
  ASSUME RoomsTyped, PresentInOpenRooms, NEW r \in Rooms, NEW d \in Docs, FullDocumentSync(r, d)
  PROVE  Rewrites(r)
<1>1. rooms[r].documents[d] \in Documents
  BY DEF FullDocumentSync, OwnerActs, RoomsTyped, RoomMaps, Open, RoomStates
<1>2. PICK text \in Sizes, state \in Sizes \cup {0},
           version \in rooms[r].documents[d].version + 1 .. MaxVersion :
        SetDoc(r, d, [version |-> version, text |-> text, state |-> state])
  BY DEF FullDocumentSync
<1>3. version \in 1 .. MaxVersion
  BY <1>1, SizesTyped DEF Documents
<1>4. [version |-> version, text |-> text, state |-> state] \in Documents
  BY <1>3, SizesTyped DEF Documents
<1> QED
  BY <1>2, <1>4, DocRewritten DEF FullDocumentSync, OwnerActs

LEMMA ChangeRewrites ==
  ASSUME RoomsTyped, PresentInOpenRooms, NEW r \in Rooms, NEW d \in Docs, DocChange(r, d)
  PROVE  Rewrites(r) \/ (Moves /\ UNCHANGED present)
<1> DEFINE doc == rooms[r].documents[d]
<1>1. Open(r)
  BY DEF DocChange, PresentInOpenRooms
<1>2. doc \in Documents
  BY <1>1 DEF DocChange, RoomsTyped, RoomMaps, Open, RoomStates
<1>3. CASE UNCHANGED rooms
  BY <1>3 DEF DocChange, Moves
<1>4. CASE \E sent \in Sizes \cup {0} : \E inserted \in 0 .. sent, removed \in 0 .. doc.text :
             SetDoc(r, d, [doc EXCEPT !.version = @ + 1, !.text = @ - removed + inserted])
  <2>1. PICK sent \in Sizes \cup {0} : \E inserted \in 0 .. sent, removed \in 0 .. doc.text :
               SetDoc(r, d, [doc EXCEPT !.version = @ + 1, !.text = @ - removed + inserted])
    BY <1>4
  <2>2. PICK inserted \in 0 .. sent, removed \in 0 .. doc.text :
             SetDoc(r, d, [doc EXCEPT !.version = @ + 1, !.text = @ - removed + inserted])
    BY <2>1
  <2>3. sent \in Nat
    BY SizesTyped
  <2>4. doc.text - removed + inserted \in Nat /\ doc.version + 1 \in 1 .. MaxVersion
    <3>1. doc.text \in Nat /\ doc.version \in 1 .. MaxVersion
      BY <1>2 DEF Documents
    <3>2. doc.version < MaxVersion
      BY DEF DocChange
    <3>3. inserted \in 0 .. sent /\ removed \in 0 .. doc.text
      BY <2>2
    <3> HIDE DEF doc
    <3> QED
      BY <2>3, <3>1, <3>2, <3>3, SizesTyped
  <2>5. [doc EXCEPT !.version = @ + 1, !.text = @ - removed + inserted] \in Documents
    BY <1>2, <2>4 DEF Documents
  <2> HIDE DEF doc
  <2> QED
    BY <1>1, <2>2, <2>5, DocRewritten DEF DocChange
<1> QED
  BY <1>3, <1>4 DEF DocChange

LEMMA MemberSteps ==
  ASSUME RoomsTyped, PresentInOpenRooms, NEW r \in Rooms, NEW u \in Users,
         \/ JoinRoom(r, u) \/ Disconnect(r, u) \/ LeaveOrRemove(r, u)
         \/ \E role \in Roles \ {"root"} : UpdateRole(r, u, role)
  PROVE  (Rewrites(r) \/ Moves) /\ MovesWell
<1>1. CASE JoinRoom(r, u)
  <2>1. MovesWell
    BY <1>1 DEF JoinRoom, MovesWell, RoomsTyped
  <2>2. "collaborator" \in Roles
    BY DEF Roles
  <2>3. Rewrites(r) \/ Moves
    BY <1>1, <2>2, SessionRewritten DEF JoinRoom, Moves
  <2> QED
    BY <2>1, <2>3
<1>2. CASE Disconnect(r, u)
  BY <1>2 DEF Disconnect, Moves, MovesWell, RoomsTyped
<1>3. CASE LeaveOrRemove(r, u)
  <2>1. MovesWell
    BY <1>3 DEF LeaveOrRemove, MovesWell, RoomsTyped
  <2>2. Open(r)
    BY <1>3 DEF LeaveOrRemove, PresentInOpenRooms
  <2> QED
    BY <1>3, <2>1, <2>2, SessionRewritten DEF LeaveOrRemove
<1>4. CASE \E role \in Roles \ {"root"} : UpdateRole(r, u, role)
  BY <1>4, SessionRewritten DEF UpdateRole, OwnerActs, MovesWell, RoomsTyped
<1> QED
  BY <1>1, <1>2, <1>3, <1>4

LEMMA DocumentSteps ==
  ASSUME RoomsTyped, PresentInOpenRooms, NEW r \in Rooms, NEW d \in Docs,
         \/ ShareDocument(r, d) \/ UnshareDocument(r, d)
         \/ DocChange(r, d) \/ FullDocumentSync(r, d)
  PROVE  (Rewrites(r) \/ Moves) /\ MovesWell
<1>1. UNCHANGED present
  BY DEF ShareDocument, UnshareDocument, DocChange, FullDocumentSync
<1>2. MovesWell
  BY <1>1 DEF MovesWell, RoomsTyped
<1> QED
  BY <1>2, ShareRewrites, UnshareRewrites, ChangeRewrites, FullSyncRewrites

\* Every step of the server is one of these.
LEMMA StepKinds ==
  ASSUME RoomsTyped, PresentInOpenRooms, Next
  PROVE  \/ \E r \in Rooms, u \in Users : CreateRoom(r, u)
         \/ \E r \in Rooms : Rewrites(r) /\ MovesWell
         \/ Moves /\ MovesWell
         \/ \E r \in Rooms : up /\ Open(r) /\ DeleteRoom(r)
         \/ AutoSave \/ Crash \/ Shutdown \/ Restart
<1>1. CASE \E r \in Rooms : RoomStep(r)
  <2>1. PICK r \in Rooms : RoomStep(r)
    BY <1>1
  <2>2. CASE OwnerLeaves(r) \/ CollectIdle(r)
    BY <2>2 DEF OwnerLeaves, OwnerActs, CollectIdle
  <2>3. CASE \E d \in Docs : ShareDocument(r, d) \/ UnshareDocument(r, d)
                               \/ DocChange(r, d) \/ FullDocumentSync(r, d)
    BY <2>3, DocumentSteps
  <2>4. CASE \E u \in Users : CreateRoom(r, u)
    BY <2>4
  <2>5. CASE \E u \in Users : JoinRoom(r, u) \/ Disconnect(r, u) \/ LeaveOrRemove(r, u)
    BY <2>5, MemberSteps
  <2>6. CASE \E u \in Users, role \in Roles \ {"root"} : UpdateRole(r, u, role)
    <3>1. PICK u \in Users : \E role \in Roles \ {"root"} : UpdateRole(r, u, role)
      BY <2>6
    <3> QED
      BY <3>1, MemberSteps
  <2> QED
    BY <2>1, <2>2, <2>3, <2>4, <2>5, <2>6 DEF RoomStep
<1> QED
  BY <1>1 DEF Next
-------------------------------------------------------------------------------
\* Types

LEMMA CountsTyped ==
  ASSUME RoomsTyped
  PROVE  /\ \A r \in Rooms : rooms[r] \in RoomStates \/ rooms[r] = NoRoom
         /\ \A r \in Rooms : row[r] \in RoomStates \/ row[r] = NoRoom
         /\ \A i \in Ips : roomCountByIp[i] \in Nat
BY DEF RoomsTyped, RoomMaps

LEMMA OpenRoomTyped ==
  ASSUME RoomsTyped, NEW r \in Rooms, Open(r)
  PROVE  rooms[r] \in RoomStates /\ rooms[r].ip \in Ips
BY DEF RoomsTyped, RoomMaps, Open, RoomStates

LEMMA CreatedRoom ==
  ASSUME RoomsTyped, NEW r \in Rooms, NEW u \in Users, CreateRoom(r, u)
  PROVE  \E room \in RoomStates :
           room.ip = IpOf[u] /\ rooms' = [rooms EXCEPT ![r] = room]
<1> DEFINE sessions == [v \in Users |-> IF v = u THEN "root" ELSE NoUser]
           documents == [d \in Docs |-> NoDoc]
           room == [owner |-> u, ip |-> IpOf[u], sessions |-> sessions, documents |-> documents]
<1>1. sessions \in [Users -> Roles \cup {NoUser}]
  BY DEF Roles
<1>2. documents \in [Docs -> Documents \cup {NoDoc}]
  OBVIOUS
<1>3. rooms' = [rooms EXCEPT ![r] = room]
  BY DEF CreateRoom
<1>4. IpOf[u] \in Ips
  BY RecoveryConstants
<1> HIDE DEF sessions, documents
<1>5. room \in RoomStates /\ room.ip = IpOf[u]
  BY <1>1, <1>2, <1>4 DEF RoomStates
<1> QED
  BY <1>3, <1>5

LEMMA SavedTyped ==
  ASSUME RoomsTyped, NEW some \in SUBSET OpenRooms
  PROVE  Saved(some) \in RoomMaps
BY DEF RoomsTyped, RoomMaps, Saved, OpenRooms

LEMMA RebuiltTyped ==
  ASSUME NEW map, NEW i
  PROVE  IsFiniteSet(RoomsOf(map, i)) /\ Cardinality(RoomsOf(map, i)) \in Nat
<1>1. RoomsOf(map, i) \in SUBSET Rooms
  BY DEF RoomsOf
<1> QED
  BY <1>1, FS_Subset, FS_CardinalityType, RecoveryConstants

LEMMA InitTyped == Init => RoomsTyped
<1> SUFFICES ASSUME Init PROVE RoomsTyped
  OBVIOUS
<1>1. rooms \in RoomMaps /\ row \in RoomMaps
  BY DEF Init, RoomMaps, NoRooms
<1> QED
  BY <1>1 DEF Init, RoomsTyped

LEMMA StepTyped ==
  ASSUME RoomsTyped, PresentInOpenRooms, [Next]_vars
  PROVE  RoomsTyped'
<1>1. CASE UNCHANGED vars
  BY <1>1 DEF RoomsTyped, vars, memory
<1>2. CASE \E r \in Rooms, u \in Users : CreateRoom(r, u)
  <2>1. PICK r \in Rooms, u \in Users : CreateRoom(r, u)
    BY <1>2
  <2>2. rooms' \in RoomMaps
    BY <2>1, CreatedRoom DEF RoomsTyped, RoomMaps
  <2>3. roomCountByIp' \in [Ips -> Nat]
    BY <2>1, CountsTyped, RecoveryConstants DEF CreateRoom, RoomsTyped
  <2> QED
    BY <2>1, <2>2, <2>3 DEF CreateRoom, RoomsTyped
<1>3. CASE \E r \in Rooms : Rewrites(r) /\ MovesWell
  BY <1>3 DEF Rewrites, MovesWell, RoomsTyped, RoomMaps
<1>4. CASE Moves /\ MovesWell
  BY <1>4 DEF Moves, MovesWell, RoomsTyped
<1>5. CASE \E r \in Rooms : up /\ Open(r) /\ DeleteRoom(r)
  <2>1. PICK r \in Rooms : up /\ Open(r) /\ DeleteRoom(r)
    BY <1>5
  <2>2. rooms[r].ip \in Ips /\ roomCountByIp[rooms[r].ip] \in Nat
    BY <2>1, OpenRoomTyped, CountsTyped
  <2>3. Decrement(roomCountByIp[rooms[r].ip]) \in Nat
    BY <2>2 DEF Decrement
  <2>4. roomCountByIp' \in [Ips -> Nat]
    BY <2>1, <2>2, <2>3 DEF DeleteRoom, RoomsTyped
  <2>5. rooms' \in RoomMaps /\ row' \in RoomMaps /\ present' \in [Rooms -> SUBSET Users]
    BY <2>1 DEF DeleteRoom, WithoutRow, RoomsTyped, RoomMaps
  <2> QED
    BY <2>1, <2>4, <2>5 DEF DeleteRoom, RoomsTyped
<1>6. CASE AutoSave
  BY <1>6, SavedTyped DEF AutoSave, memory, RoomsTyped
<1>7. CASE Crash \/ Shutdown
  <2>1. OpenRooms \in SUBSET OpenRooms
    OBVIOUS
  <2>2. row' \in RoomMaps
    BY <1>7, <2>1, SavedTyped DEF Crash, Shutdown, RoomsTyped
  <2>3. up' = FALSE /\ drawn' = drawn /\ stopped' \in BOOLEAN
    BY <1>7 DEF Crash, Shutdown, Down, RoomsTyped
  <2>4. rooms' \in RoomMaps
    BY <1>7 DEF Crash, Shutdown, Down, NoRooms, RoomMaps
  <2>5. present' \in [Rooms -> SUBSET Users]
    BY <1>7 DEF Crash, Shutdown, Down
  <2>6. roomCountByIp' \in [Ips -> Nat]
    BY <1>7 DEF Crash, Shutdown, Down
  <2> QED
    BY <2>2, <2>3, <2>4, <2>5, <2>6 DEF RoomsTyped
<1>8. CASE Restart
  BY <1>8, RebuiltTyped DEF Restart, Rebuilt, RoomsTyped
<1> QED
  BY <1>1, <1>2, <1>3, <1>4, <1>5, <1>6, <1>7, <1>8, StepKinds

LEMMA StepPresent ==
  ASSUME RoomsTyped, PresentInOpenRooms, [Next]_vars
  PROVE  PresentInOpenRooms'
<1>1. CASE UNCHANGED vars
  BY <1>1 DEF PresentInOpenRooms, Open, vars, memory
<1>2. CASE \E r \in Rooms, u \in Users : CreateRoom(r, u)
  <2>1. PICK r \in Rooms, u \in Users : CreateRoom(r, u)
    BY <1>2
  <2>2. rooms'[r] # NoRoom /\ \A s \in Rooms \ {r} : rooms'[s] = rooms[s]
    BY <2>1, CreatedRoom, RecoveryNulls DEF RoomsTyped, RoomMaps
  <2> QED
    BY <2>1, <2>2 DEF CreateRoom, PresentInOpenRooms, Open, RoomsTyped
<1>3. CASE \E r \in Rooms : Rewrites(r) /\ MovesWell
  BY <1>3, RecoveryNulls DEF Rewrites, MovesWell, PresentInOpenRooms, Open, RoomsTyped, RoomMaps
<1>4. CASE Moves /\ MovesWell
  BY <1>4 DEF Moves, MovesWell, PresentInOpenRooms, Open
<1>5. CASE \E r \in Rooms : up /\ Open(r) /\ DeleteRoom(r)
  BY <1>5 DEF DeleteRoom, PresentInOpenRooms, Open, RoomsTyped, RoomMaps
<1>6. CASE AutoSave
  BY <1>6 DEF AutoSave, memory, PresentInOpenRooms, Open
<1>7. CASE Crash \/ Shutdown
  BY <1>7 DEF Crash, Shutdown, Down, PresentInOpenRooms
<1>8. CASE Restart
  BY <1>8 DEF Restart, PresentInOpenRooms
<1> QED
  BY <1>1, <1>2, <1>3, <1>4, <1>5, <1>6, <1>7, <1>8, StepKinds

\* The rooms the server has and those of its table are rooms, a user is in none but
\* a room the server has, and the rooms counted are numbers (RecoveryTypeOK but for
\* the total of bytes, which ServerStaysTyped adds).
THEOREM RecoveryTyped == Spec => [](RoomsTyped /\ PresentInOpenRooms)
<1>1. Init => RoomsTyped /\ PresentInOpenRooms
  BY InitTyped DEF Init, PresentInOpenRooms
<1>2. RoomsTyped /\ PresentInOpenRooms /\ [Next]_vars => (RoomsTyped /\ PresentInOpenRooms)'
  BY StepTyped, StepPresent
<1> QED
  BY <1>1, <1>2, PTL DEF Spec

-------------------------------------------------------------------------------
\* Rows

LEMMA StepRows ==
  ASSUME RoomsTyped, PresentInOpenRooms, RowsHaveRooms, [Next]_vars
  PROVE  RowsHaveRooms'
<1>1. CASE UNCHANGED vars
  BY <1>1 DEF RowsHaveRooms, Open, vars, memory
<1>2. CASE \E r \in Rooms, u \in Users : CreateRoom(r, u)
  <2>1. PICK r \in Rooms, u \in Users : CreateRoom(r, u)
    BY <1>2
  <2>2. rooms'[r] # NoRoom /\ \A s \in Rooms \ {r} : rooms'[s] = rooms[s]
    BY <2>1, CreatedRoom, RecoveryNulls DEF RoomsTyped, RoomMaps
  <2> QED
    BY <2>1, <2>2 DEF CreateRoom, RowsHaveRooms, Open
<1>3. CASE \E r \in Rooms : Rewrites(r) /\ MovesWell
  BY <1>3, RecoveryNulls DEF Rewrites, RowsHaveRooms, Open, RoomsTyped, RoomMaps
<1>4. CASE Moves /\ MovesWell
  BY <1>4 DEF Moves, RowsHaveRooms, Open
<1>5. CASE \E r \in Rooms : up /\ Open(r) /\ DeleteRoom(r)
  BY <1>5 DEF DeleteRoom, WithoutRow, RowsHaveRooms, Open, RoomsTyped, RoomMaps
<1>6. CASE AutoSave
  BY <1>6 DEF AutoSave, Saved, memory, RowsHaveRooms, Open, OpenRooms
<1>7. CASE Crash \/ Shutdown
  BY <1>7 DEF Crash, Shutdown, Down, RowsHaveRooms
<1>8. CASE Restart
  BY <1>8 DEF Restart, RowsHaveRooms, Open
<1> QED
  BY <1>1, <1>2, <1>3, <1>4, <1>5, <1>6, <1>7, <1>8, StepKinds

\* A row of the table belongs to a room the running server has: a room that was
\* closed does not come back (deleteRoom, saveRooms, loadRooms).
THEOREM RowsOfRooms == Spec => []RowsHaveRooms
<1>1. Init => RowsHaveRooms
  BY DEF Init, NoRooms, RowsHaveRooms
<1>2. RoomsTyped /\ PresentInOpenRooms /\ RowsHaveRooms /\ [Next]_vars => RowsHaveRooms'
  BY StepRows
<1> QED
  BY <1>1, <1>2, RecoveryTyped, PTL DEF Spec

-------------------------------------------------------------------------------
\* Counts

\* Only the room at r changed, and its address did not: each address owns what it did.
LEMMA SameOwners ==
  ASSUME RoomsTyped, NEW r \in Rooms, Rewrites(r), NEW i \in Ips
  PROVE  RoomsOf(rooms', i) = RoomsOf(rooms, i)
BY RecoveryNulls DEF Rewrites, RoomsOf, Open, RoomsTyped, RoomMaps

LEMMA OneMore ==
  ASSUME RoomsTyped, NEW r \in Rooms, NEW u \in Users, CreateRoom(r, u), ~Open(r), NEW i \in Ips
  PROVE  /\ r \notin RoomsOf(rooms, i)
         /\ RoomsOf(rooms', i) = IF i = IpOf[u] THEN RoomsOf(rooms, i) \cup {r} ELSE RoomsOf(rooms, i)
<1>1. PICK room \in RoomStates : room.ip = IpOf[u] /\ rooms' = [rooms EXCEPT ![r] = room]
  BY CreatedRoom
<1>2. room # NoRoom
  BY RecoveryNulls
<1> QED
  BY <1>1, <1>2 DEF RoomsOf, Open, RoomsTyped, RoomMaps

LEMMA OneLess ==
  ASSUME RoomsTyped, NEW r \in Rooms, Open(r), DeleteRoom(r), NEW i \in Ips
  PROVE  RoomsOf(rooms', i) = RoomsOf(rooms, i) \ {r}
BY DEF DeleteRoom, RoomsOf, RoomsTyped, RoomMaps

\* the ids of rooms are drawn
OpenAreDrawn == \A r \in Rooms : (rooms[r] # NoRoom \/ row[r] # NoRoom) => r \in drawn

LEMMA StepDrawn ==
  ASSUME RoomsTyped, PresentInOpenRooms, OpenAreDrawn, [Next]_vars
  PROVE  OpenAreDrawn'
<1>1. CASE UNCHANGED vars
  BY <1>1 DEF OpenAreDrawn, vars, memory
<1>2. CASE \E r \in Rooms, u \in Users : CreateRoom(r, u)
  <2>1. PICK r \in Rooms, u \in Users : CreateRoom(r, u)
    BY <1>2
  <2>2. \A s \in Rooms \ {r} : rooms'[s] = rooms[s]
    BY <2>1, CreatedRoom DEF RoomsTyped, RoomMaps
  <2> QED
    BY <2>1, <2>2 DEF CreateRoom, OpenAreDrawn
<1>3. CASE \E r \in Rooms : Rewrites(r) /\ MovesWell
  BY <1>3 DEF Rewrites, OpenAreDrawn, Open, RoomsTyped, RoomMaps
<1>4. CASE Moves /\ MovesWell
  BY <1>4 DEF Moves, OpenAreDrawn
<1>5. CASE \E r \in Rooms : up /\ Open(r) /\ DeleteRoom(r)
  BY <1>5 DEF DeleteRoom, WithoutRow, OpenAreDrawn, RoomsTyped, RoomMaps
<1>6. CASE AutoSave
  BY <1>6 DEF AutoSave, Saved, OpenRooms, Open, memory, OpenAreDrawn
<1>7. CASE Crash \/ Shutdown
  BY <1>7 DEF Crash, Shutdown, Down, Saved, OpenRooms, Open, NoRooms, OpenAreDrawn
<1>8. CASE Restart
  BY <1>8 DEF Restart, OpenAreDrawn
<1> QED
  BY <1>1, <1>2, <1>3, <1>4, <1>5, <1>6, <1>7, <1>8, StepKinds

LEMMA StepCounts ==
  ASSUME RoomsTyped, PresentInOpenRooms, OpenAreDrawn, CountsMatchRooms, [Next]_vars
  PROVE  CountsMatchRooms'
<1>1. CASE UNCHANGED vars
  BY <1>1 DEF CountsMatchRooms, RoomsOf, vars, memory
<1>2. CASE \E r \in Rooms, u \in Users : CreateRoom(r, u)
  <2>1. PICK r \in Rooms, u \in Users : CreateRoom(r, u)
    BY <1>2
  <2>2. ~Open(r) /\ up
    BY <2>1 DEF CreateRoom, OpenAreDrawn, Open
  <2> SUFFICES ASSUME NEW i \in Ips PROVE roomCountByIp'[i] = Cardinality(RoomsOf(rooms', i))
    BY DEF CountsMatchRooms
  <2>3. roomCountByIp[i] = Cardinality(RoomsOf(rooms, i))
    BY <2>2 DEF CountsMatchRooms
  <2>4. IpOf[u] \in Ips
    BY RecoveryConstants
  <2>5. roomCountByIp'[i] = IF i = IpOf[u] THEN roomCountByIp[i] + 1 ELSE roomCountByIp[i]
    BY <2>1, <2>4 DEF CreateRoom, RoomsTyped
  <2>6. /\ r \notin RoomsOf(rooms, i)
        /\ RoomsOf(rooms', i) = IF i = IpOf[u] THEN RoomsOf(rooms, i) \cup {r} ELSE RoomsOf(rooms, i)
    BY <2>1, <2>2, OneMore
  <2>7. Cardinality(RoomsOf(rooms, i) \cup {r}) = Cardinality(RoomsOf(rooms, i)) + 1
    BY <2>6, RebuiltTyped, FS_AddElement
  <2> QED
    BY <2>3, <2>5, <2>6, <2>7
<1>3. CASE \E r \in Rooms : Rewrites(r) /\ MovesWell
  <2>1. PICK r \in Rooms : Rewrites(r)
    BY <1>3
  <2> QED
    BY <2>1, SameOwners DEF Rewrites, CountsMatchRooms
<1>4. CASE Moves /\ MovesWell
  BY <1>4 DEF Moves, CountsMatchRooms
<1>5. CASE \E r \in Rooms : up /\ Open(r) /\ DeleteRoom(r)
  <2>1. PICK r \in Rooms : up /\ Open(r) /\ DeleteRoom(r)
    BY <1>5
  <2> SUFFICES ASSUME NEW i \in Ips PROVE roomCountByIp'[i] = Cardinality(RoomsOf(rooms', i))
    BY DEF CountsMatchRooms
  <2> DEFINE mine == RoomsOf(rooms, i)
  <2>2. roomCountByIp[i] = Cardinality(mine)
    BY <2>1 DEF CountsMatchRooms
  <2>3. RoomsOf(rooms', i) = mine \ {r}
    BY <2>1, OneLess
  <2>4. roomCountByIp'[i] = IF i = rooms[r].ip THEN Decrement(roomCountByIp[i]) ELSE roomCountByIp[i]
    BY <2>1 DEF DeleteRoom, RoomsTyped
  <2>5. r \in mine <=> i = rooms[r].ip
    BY <2>1 DEF RoomsOf, Open
  <2>6. IsFiniteSet(mine) /\ Cardinality(mine) \in Nat
    BY RebuiltTyped
  <2>7. Cardinality(mine \ {r}) \in Nat
    BY <2>3, RebuiltTyped
  <2> HIDE DEF mine
  <2>8. Cardinality(mine \ {r}) = IF r \in mine THEN Cardinality(mine) - 1 ELSE Cardinality(mine)
    BY <2>6, FS_RemoveElement
  <2> QED
    BY <2>2, <2>3, <2>4, <2>5, <2>6, <2>7, <2>8 DEF Decrement
<1>6. CASE AutoSave
  BY <1>6 DEF AutoSave, memory, CountsMatchRooms
<1>7. CASE Crash \/ Shutdown
  BY <1>7 DEF Crash, Shutdown, Down, CountsMatchRooms
<1>8. CASE Restart
  BY <1>8 DEF Restart, Rebuilt, CountsMatchRooms
<1> QED
  BY <1>1, <1>2, <1>3, <1>4, <1>5, <1>6, <1>7, <1>8, StepKinds

LEMMA IdsDrawn == Spec => []OpenAreDrawn
<1>1. Init => OpenAreDrawn
  BY DEF Init, NoRooms, OpenAreDrawn
<1>2. RoomsTyped /\ PresentInOpenRooms /\ OpenAreDrawn /\ [Next]_vars => OpenAreDrawn'
  BY StepDrawn
<1> QED
  BY <1>1, <1>2, RecoveryTyped, PTL DEF Spec

\* The limit of rooms per address is tested against the rooms it owns, also after
\* a restart rebuilt the counts (createRoomInner, deleteRoom, loadRooms).
THEOREM CountsOfRooms == Spec => []CountsMatchRooms
<1>1. Init => CountsMatchRooms
  <2> SUFFICES ASSUME Init, NEW i \in Ips PROVE roomCountByIp[i] = Cardinality(RoomsOf(rooms, i))
    BY DEF CountsMatchRooms
  <2>1. RoomsOf(rooms, i) = {}
    BY DEF Init, NoRooms, RoomsOf
  <2> QED
    BY <2>1, FS_EmptySet DEF Init
<1>2. RoomsTyped /\ PresentInOpenRooms /\ OpenAreDrawn /\ CountsMatchRooms /\ [Next]_vars
        => CountsMatchRooms'
  BY StepCounts
<1> QED
  BY <1>1, <1>2, RecoveryTyped, IdsDrawn, PTL DEF Spec

-------------------------------------------------------------------------------
\* Refinement

LEMMA InitDurable == Init => Durable!Init
BY DEF Init, NoRooms, Durable!Init

\* Each step is one of DurableRooms or changes nothing there.  A shutdown
\* leaves exactly its rooms in the table, because no row is of another (RowsHaveRooms).
LEMMA StepDurable ==
  ASSUME RoomsTyped, PresentInOpenRooms, RowsHaveRooms, [Next]_vars
  PROVE  Durable!Next \/ UNCHANGED <<up, stopped, IF up THEN rooms ELSE row, row, drawn>>
<1>1. CASE UNCHANGED vars
  BY <1>1 DEF vars, memory
<1>2. CASE \E r \in Rooms, u \in Users : CreateRoom(r, u)
  <2>1. PICK r \in Rooms, u \in Users : CreateRoom(r, u)
    BY <1>2
  <2>2. rooms'[r] # NoRoom /\ \A s \in Rooms \ {r} : rooms'[s] = rooms[s]
    BY <2>1, CreatedRoom, RecoveryNulls DEF RoomsTyped, RoomMaps
  <2>3. Durable!Create
    BY <2>1, <2>2 DEF CreateRoom, Durable!Create, Durable!Runs
  <2> QED
    BY <2>3 DEF Durable!Next
<1>3. CASE \E r \in Rooms : Rewrites(r) /\ MovesWell
  <2>1. PICK r \in Rooms : Rewrites(r)
    BY <1>3
  <2>2. rooms'[r] # NoRoom /\ \A s \in Rooms \ {r} : rooms'[s] = rooms[s]
    BY <2>1, RecoveryNulls DEF Rewrites, RoomsTyped, RoomMaps
  <2>3. Durable!Change
    BY <2>1, <2>2 DEF Rewrites, Open, Durable!Change, Durable!Exists, Durable!Runs
  <2> QED
    BY <2>3 DEF Durable!Next
<1>4. CASE Moves /\ MovesWell
  BY <1>4 DEF Moves
<1>5. CASE \E r \in Rooms : up /\ Open(r) /\ DeleteRoom(r)
  <2>1. PICK r \in Rooms : up /\ Open(r) /\ DeleteRoom(r)
    BY <1>5
  <2>2. Durable!Close
    BY <2>1 DEF DeleteRoom, WithoutRow, Open, Durable!Close, Durable!Exists, Durable!Runs
  <2> QED
    BY <2>2 DEF Durable!Next
<1>6. CASE AutoSave
  <2>1. PICK some \in SUBSET OpenRooms : row' = Saved(some)
    BY <1>6 DEF AutoSave
  <2>2. Durable!Keep
    BY <1>6, <2>1 DEF AutoSave, memory, Saved, OpenRooms, Open, Durable!Keep, Durable!Exists,
                           Durable!Runs
  <2> QED
    BY <2>2 DEF Durable!Next
<1>7. CASE Crash
  <2>1. Durable!Revert
    BY <1>7 DEF Crash, Down, Durable!Revert
  <2> QED
    BY <2>1 DEF Durable!Next
<1>8. CASE Shutdown
  <2>1. up /\ up' = FALSE /\ stopped' = TRUE /\ drawn' = drawn /\ row' = Saved(OpenRooms)
    BY <1>8 DEF Shutdown, Down
  <2>2. \A r \in Rooms : ~Open(r) => row[r] = NoRoom /\ rooms[r] = NoRoom
    BY <2>1 DEF RowsHaveRooms, Open
  <2>3. \A r \in Rooms : Saved(OpenRooms)[r] = rooms[r]
    BY <2>2 DEF Saved, OpenRooms
  <2>4. Saved(OpenRooms) = rooms
    BY <2>3 DEF Saved, RoomsTyped, RoomMaps
  <2>5. Durable!Stop
    BY <2>1, <2>4 DEF Durable!Stop
  <2> QED
    BY <2>5 DEF Durable!Next
<1>9. CASE Restart
  <2>1. Durable!Start
    BY <1>9 DEF Restart, Durable!Start
  <2> QED
    BY <2>1 DEF Durable!Next
<1> QED
  BY <1>1, <1>2, <1>3, <1>4, <1>5, <1>6, <1>7, <1>8, <1>9, StepKinds

\* A restart brings back each room as it was last saved, and no room that was closed;
\* after a stop that was asked for, each as it was (saveRooms, saveRoomsSync, loadRooms).
THEOREM RoomsDurable == Spec => RoomsAreDurable
<1>1. RoomsTyped /\ PresentInOpenRooms /\ RowsHaveRooms /\ [Next]_vars
        => [Durable!Next]_<<up, stopped, IF up THEN rooms ELSE row, row, drawn>>
  BY StepDurable
<1> QED
  BY <1>1, InitDurable, RecoveryTyped, RowsOfRooms, PTL DEF Spec, RoomsAreDurable, Durable!Spec

-------------------------------------------------------------------------------
\* Sums over finite sets.  The induction is on a least set that refutes a claim,
\* which exists because the strict subsets of a finite set are well-founded.

LEMMA LeastSet ==
  ASSUME NEW S, IsFiniteSet(S), NEW T, T \subseteq SUBSET S, T # {}
  PROVE  \E s \in T : \A t \in T : ~(t \subseteq s /\ t # s)
<1>1. FiniteSubsetsOf(S) = SUBSET S
  BY FS_FiniteSubsetsOfFinite
<1>2. IsWellFoundedOn(StrictSubsetOrdering(S), SUBSET S)
  BY <1>1, FS_StrictSubsetOrderingWellFounded
<1>3. \E s \in T : \A t \in T : <<t, s>> \notin StrictSubsetOrdering(S)
  BY <1>2, WFMin
<1> QED
  BY <1>3 DEF StrictSubsetOrdering

\* The element MapThenSumSet takes next.
Pick(s) == CHOOSE x \in s : TRUE

LEMMA Picked ==
  ASSUME NEW s, s # {}
  PROVE  Pick(s) \in s /\ s \ {Pick(s)} \subseteq s /\ s \ {Pick(s)} # s
BY DEF Pick

\* sums is what MapThenSumSet computes on the way, for each subset of S.
Sums(f, S, sums) ==
  sums = [s \in SUBSET S |-> IF s = {} THEN 0 ELSE f[Pick(s)] + sums[s \ {Pick(s)}]]

SumOf(f, S) == (CHOOSE sums : Sums(f, S, sums))[S]

LEMMA SumsAt ==
  ASSUME NEW f, NEW S, NEW sums, Sums(f, S, sums), NEW s \in SUBSET S
  PROVE  sums[s] = IF s = {} THEN 0 ELSE f[Pick(s)] + sums[s \ {Pick(s)}]
BY DEF Sums

\* Whatever they are part of, the sums of a subset are the same.
LEMMA SumsAgree ==
  ASSUME NEW f, NEW S, NEW R, IsFiniteSet(S), NEW a, NEW b, Sums(f, S, a), Sums(f, R, b),
         NEW s \in SUBSET S, s \in SUBSET R
  PROVE  a[s] = b[s]
<1> DEFINE T == {t \in SUBSET S : t \in SUBSET R /\ a[t] # b[t]}
<1> SUFFICES ASSUME T # {} PROVE FALSE
  OBVIOUS
<1>1. PICK t \in T : \A u \in T : ~(u \subseteq t /\ u # t)
  <2> T \subseteq SUBSET S
    OBVIOUS
  <2> HIDE DEF T
  <2> QED
    BY LeastSet
<1>2. /\ a[t] = IF t = {} THEN 0 ELSE f[Pick(t)] + a[t \ {Pick(t)}]
      /\ b[t] = IF t = {} THEN 0 ELSE f[Pick(t)] + b[t \ {Pick(t)}]
  BY SumsAt
<1>3. t # {}
  BY <1>2
<1>4. t \ {Pick(t)} \notin T
  BY <1>1, <1>3, Picked
<1>5. a[t \ {Pick(t)}] = b[t \ {Pick(t)}]
  BY <1>3, <1>4, Picked
<1> QED
  BY <1>2, <1>5

LEMMA SumsExist ==
  ASSUME NEW f, NEW S, IsFiniteSet(S)
  PROVE  \E sums : Sums(f, S, sums)
<1> DEFINE T == {s \in SUBSET S : ~\E sums : Sums(f, s, sums)}
<1> SUFFICES ASSUME T # {} PROVE FALSE
  OBVIOUS
<1>1. PICK s \in T : \A u \in T : ~(u \subseteq s /\ u # s)
  <2> T \subseteq SUBSET S
    OBVIOUS
  <2> HIDE DEF T
  <2> QED
    BY LeastSet
<1>2. ASSUME NEW t \in SUBSET s, t # s
      PROVE  /\ Sums(f, t, CHOOSE sums : Sums(f, t, sums))
             /\ SumOf(f, t) = (CHOOSE sums : Sums(f, t, sums))[t]
  <2>1. \E sums : Sums(f, t, sums)
    BY <1>1, <1>2
  <2> QED
    BY <2>1 DEF SumOf
<1> DEFINE sums == [t \in SUBSET s |->
                      IF t = s THEN IF s = {} THEN 0 ELSE f[Pick(s)] + SumOf(f, s \ {Pick(s)})
                      ELSE SumOf(f, t)]
<1>3. ASSUME NEW t \in SUBSET s
      PROVE  sums[t] = IF t = {} THEN 0 ELSE f[Pick(t)] + sums[t \ {Pick(t)}]
  <2>1. CASE t = s /\ s = {}
    BY <2>1
  <2>2. CASE t = s /\ s # {}
    <3>1. s \ {Pick(s)} \in SUBSET s /\ s \ {Pick(s)} # s
      BY <2>2, Picked
    <3>2. sums[s \ {Pick(s)}] = SumOf(f, s \ {Pick(s)})
      BY <3>1
    <3> QED
      BY <2>2, <3>2
  <2>3. CASE t # s
    <3> DEFINE g == CHOOSE h : Sums(f, t, h)
    <3>1. Sums(f, t, g) /\ SumOf(f, t) = g[t]
      BY <1>2, <2>3
    <3>2. sums[t] = g[t]
      BY <2>3, <3>1
    <3> HIDE DEF g
    <3>3. g[t] = IF t = {} THEN 0 ELSE f[Pick(t)] + g[t \ {Pick(t)}]
      BY <3>1, SumsAt
    <3>4. CASE t = {}
      BY <3>2, <3>3, <3>4
    <3>5. CASE t # {}
      <4> DEFINE v == t \ {Pick(t)}
      <4>1. v \in SUBSET t /\ v \in SUBSET s /\ v # s
        BY <3>5, Picked
      <4> HIDE DEF v
      <4> DEFINE k == CHOOSE h : Sums(f, v, h)
      <4>2. Sums(f, v, k) /\ SumOf(f, v) = k[v]
        BY <1>2, <4>1
      <4> HIDE DEF k
      <4>3. IsFiniteSet(t)
        BY FS_Subset
      <4>4. g[v] = k[v]
        BY <3>1, <4>1, <4>2, <4>3, SumsAgree
      <4>5. sums[v] = SumOf(f, v)
        BY <4>1
      <4> QED
        BY <3>2, <3>3, <3>5, <4>2, <4>4, <4>5 DEF v
    <3> QED
      BY <3>4, <3>5
  <2> QED
    BY <2>1, <2>2, <2>3
<1>4. sums = [t \in SUBSET s |-> IF t = {} THEN 0 ELSE f[Pick(t)] + sums[t \ {Pick(t)}]]
  <2> DEFINE rec == [t \in SUBSET s |-> IF t = {} THEN 0 ELSE f[Pick(t)] + sums[t \ {Pick(t)}]]
  <2>1. \A t \in SUBSET s : sums[t] = rec[t]
    BY <1>3
  <2>2. DOMAIN sums = SUBSET s /\ DOMAIN rec = SUBSET s
    OBVIOUS
  <2>3. sums = [t \in SUBSET s |-> sums[t]] /\ rec = [t \in SUBSET s |-> rec[t]]
    OBVIOUS
  <2> HIDE DEF sums, rec
  <2>4. sums = rec
    BY <2>1, <2>3
  <2> QED
    BY <2>4 DEF rec
<1> HIDE DEF sums
<1> QED
  BY <1>1, <1>4 DEF Sums

LEMMA SumsChosen ==
  ASSUME NEW f, NEW S, IsFiniteSet(S)
  PROVE  Sums(f, S, CHOOSE sums : Sums(f, S, sums))
BY SumsExist

LEMMA SumUnfolds ==
  ASSUME NEW f, NEW S, IsFiniteSet(S)
  PROVE  SumOf(f, S) = IF S = {} THEN 0 ELSE f[Pick(S)] + SumOf(f, S \ {Pick(S)})
<1> DEFINE a == CHOOSE sums : Sums(f, S, sums)
           R == S \ {Pick(S)}
           b == CHOOSE sums : Sums(f, R, sums)
<1>1. Sums(f, S, a) /\ SumOf(f, S) = a[S]
  BY SumsChosen DEF SumOf
<1>2. IsFiniteSet(R)
  BY FS_Subset
<1>3. Sums(f, R, b) /\ SumOf(f, R) = b[R]
  <2> HIDE DEF R
  <2> QED
    BY <1>2, SumsChosen DEF SumOf
<1>4. R \in SUBSET S
  OBVIOUS
<1> HIDE DEF a, b
<1>5. a[S] = IF S = {} THEN 0 ELSE f[Pick(S)] + a[R]
  BY <1>1, SumsAt
<1> HIDE DEF R
<1>6. a[R] = b[R]
  BY <1>1, <1>3, <1>4, SumsAgree
<1> QED
  BY <1>1, <1>3, <1>5, <1>6 DEF R

\* A sum of integers is an integer.
LEMMA SumTyped ==
  ASSUME NEW f, NEW S, IsFiniteSet(S), \A x \in S : f[x] \in Int
  PROVE  SumOf(f, S) \in Int
<1> DEFINE T == {s \in SUBSET S : SumOf(f, s) \notin Int}
<1> SUFFICES ASSUME T # {} PROVE FALSE
  OBVIOUS
<1>1. PICK s \in T : \A u \in T : ~(u \subseteq s /\ u # s)
  <2> T \subseteq SUBSET S
    OBVIOUS
  <2> HIDE DEF T
  <2> QED
    BY LeastSet
<1>2. SumOf(f, s) = IF s = {} THEN 0 ELSE f[Pick(s)] + SumOf(f, s \ {Pick(s)})
  BY FS_Subset, SumUnfolds
<1>3. s # {}
  BY <1>2
<1>4. SumOf(f, s \ {Pick(s)}) \in Int
  BY <1>1, <1>3, Picked
<1> QED
  BY <1>2, <1>3, <1>4, Picked

\* A sum depends on the values at the elements of its set.
LEMMA SumSame ==
  ASSUME NEW f, NEW g, NEW S, IsFiniteSet(S), \A x \in S : f[x] = g[x]
  PROVE  SumOf(f, S) = SumOf(g, S)
<1> DEFINE T == {s \in SUBSET S : SumOf(f, s) # SumOf(g, s)}
<1> SUFFICES ASSUME T # {} PROVE FALSE
  OBVIOUS
<1>1. PICK s \in T : \A u \in T : ~(u \subseteq s /\ u # s)
  <2> T \subseteq SUBSET S
    OBVIOUS
  <2> HIDE DEF T
  <2> QED
    BY LeastSet
<1>2. /\ SumOf(f, s) = IF s = {} THEN 0 ELSE f[Pick(s)] + SumOf(f, s \ {Pick(s)})
      /\ SumOf(g, s) = IF s = {} THEN 0 ELSE g[Pick(s)] + SumOf(g, s \ {Pick(s)})
  BY FS_Subset, SumUnfolds
<1>3. s # {}
  BY <1>2
<1>4. SumOf(f, s \ {Pick(s)}) = SumOf(g, s \ {Pick(s)})
  BY <1>1, <1>3, Picked
<1> QED
  BY <1>2, <1>3, <1>4, Picked

\* Any element can be added last.
LEMMA SumWithout ==
  ASSUME NEW f, NEW S, IsFiniteSet(S), \A x \in S : f[x] \in Int, NEW e \in S
  PROVE  SumOf(f, S) = f[e] + SumOf(f, S \ {e})
<1> DEFINE T == {s \in SUBSET S : \E x \in s : SumOf(f, s) # f[x] + SumOf(f, s \ {x})}
<1> SUFFICES ASSUME T # {} PROVE FALSE
  OBVIOUS
<1>1. PICK s \in T : \A u \in T : ~(u \subseteq s /\ u # s)
  <2> T \subseteq SUBSET S
    OBVIOUS
  <2> HIDE DEF T
  <2> QED
    BY LeastSet
<1>2. PICK x \in s : SumOf(f, s) # f[x] + SumOf(f, s \ {x})
  OBVIOUS
<1> DEFINE p == Pick(s)
<1>3. SumOf(f, s) = f[p] + SumOf(f, s \ {p})
  BY FS_Subset, SumUnfolds
<1>4. p \in s
  BY Picked
<1> HIDE DEF p
<1>5. p # x
  BY <1>2, <1>3
<1>6. ASSUME NEW a \in s, NEW b \in s, a # b
      PROVE  SumOf(f, s \ {a}) = f[b] + SumOf(f, (s \ {a}) \ {b})
  <2>1. s \ {a} \subseteq s /\ s \ {a} # s /\ s \ {a} \in SUBSET S /\ b \in s \ {a}
    BY <1>6
  <2>2. s \ {a} \notin T
    BY <1>1, <2>1
  <2> QED
    BY <2>1, <2>2
<1>7. /\ SumOf(f, s \ {p}) = f[x] + SumOf(f, (s \ {p}) \ {x})
      /\ SumOf(f, s \ {x}) = f[p] + SumOf(f, (s \ {x}) \ {p})
  BY <1>4, <1>5, <1>6
<1>8. (s \ {x}) \ {p} = (s \ {p}) \ {x}
  OBVIOUS
<1>9. SumOf(f, (s \ {p}) \ {x}) \in Int
  <2> DEFINE u == (s \ {p}) \ {x}
  <2>1. u \in SUBSET S
    OBVIOUS
  <2> HIDE DEF u
  <2>2. IsFiniteSet(u)
    BY <2>1, FS_Subset
  <2>3. SumOf(f, u) \in Int
    BY <2>1, <2>2, SumTyped
  <2> QED
    BY <2>3 DEF u
<1>10. f[x] \in Int /\ f[p] \in Int
  BY <1>4
<1>11. f[p] + SumOf(f, s \ {p}) = f[x] + SumOf(f, s \ {x})
  <2> DEFINE i == SumOf(f, (s \ {p}) \ {x})
             fx == f[x]
             fp == f[p]
  <2>1. SumOf(f, s \ {p}) = fx + i /\ SumOf(f, s \ {x}) = fp + i
    BY <1>7, <1>8
  <2>2. i \in Int /\ fx \in Int /\ fp \in Int
    BY <1>9, <1>10
  <2> HIDE DEF i, fx, fp
  <2>3. fp + (fx + i) = fx + (fp + i)
    BY <2>2
  <2> QED
    BY <2>1, <2>3 DEF fx, fp
<1> QED
  BY <1>2, <1>3, <1>11

\* A sum changes by what one of its values changes.
LEMMA SumChanged ==
  ASSUME NEW f, NEW g, NEW S, IsFiniteSet(S), NEW e \in S,
         \A x \in S : f[x] \in Int /\ g[x] \in Int,
         \A x \in S \ {e} : g[x] = f[x]
  PROVE  SumOf(g, S) = SumOf(f, S) + g[e] - f[e]
<1>1. SumOf(f, S) = f[e] + SumOf(f, S \ {e}) /\ SumOf(g, S) = g[e] + SumOf(g, S \ {e})
  BY SumWithout
<1>2. IsFiniteSet(S \ {e})
  BY FS_Subset
<1>3. SumOf(f, S \ {e}) = SumOf(g, S \ {e}) /\ SumOf(f, S \ {e}) \in Int
  BY <1>2, SumSame, SumTyped
<1> QED
  BY <1>1, <1>3

\* A sum of zeros is zero.
LEMMA SumOfZeros ==
  ASSUME NEW f, NEW S, IsFiniteSet(S), \A x \in S : f[x] = 0
  PROVE  SumOf(f, S) = 0
<1> DEFINE T == {s \in SUBSET S : SumOf(f, s) # 0}
<1> SUFFICES ASSUME T # {} PROVE FALSE
  OBVIOUS
<1>1. PICK s \in T : \A u \in T : ~(u \subseteq s /\ u # s)
  <2> T \subseteq SUBSET S
    OBVIOUS
  <2> HIDE DEF T
  <2> QED
    BY LeastSet
<1>2. SumOf(f, s) = IF s = {} THEN 0 ELSE f[Pick(s)] + SumOf(f, s \ {Pick(s)})
  BY FS_Subset, SumUnfolds
<1>3. s # {}
  BY <1>2
<1>4. SumOf(f, s \ {Pick(s)}) = 0
  BY <1>1, <1>3, Picked
<1> QED
  BY <1>2, <1>3, <1>4, Picked

\* What MapThenSumSet makes of a function is SumOf.
LEMMA SumIs ==
  ASSUME NEW f, NEW S, IsFiniteSet(S), NEW sums, Sums(f, S, sums)
  PROVE  sums[S] = SumOf(f, S)
BY SumsChosen, SumsAgree DEF SumOf

-------------------------------------------------------------------------------
\* What documents and rooms hold

DocsHeld(room) == [d \in Docs |-> Held(room.documents[d])]

LEMMA HeldByIsSum ==
  ASSUME NEW room
  PROVE  HeldBy(room) = SumOf(DocsHeld(room), Docs)
<1> DEFINE Computes(sums) ==
             sums = [s \in SUBSET Docs |->
                       IF s = {} THEN 0
                       ELSE Held(room.documents[CHOOSE x \in s : TRUE]) + sums[s \ {CHOOSE x \in s : TRUE}]]
           sums == CHOOSE a : Computes(a)
<1>1. HeldBy(room) = sums[Docs]
  BY Zenon DEF HeldBy, MapThenSumSet, MapThenFoldSet
<1>2. \A s \in SUBSET Docs : s # {} => DocsHeld(room)[Pick(s)] = Held(room.documents[Pick(s)])
  BY Picked DEF DocsHeld
<1>3. ASSUME NEW a
      PROVE  Computes(a) <=> Sums(DocsHeld(room), Docs, a)
  <2>1. [s \in SUBSET Docs |-> IF s = {} THEN 0 ELSE DocsHeld(room)[Pick(s)] + a[s \ {Pick(s)}]]
        = [s \in SUBSET Docs |-> IF s = {} THEN 0 ELSE Held(room.documents[Pick(s)]) + a[s \ {Pick(s)}]]
    BY <1>2
  <2> QED
    BY <2>1 DEF Sums, Pick
<1> HIDE DEF Computes
<1>4. \E a : Computes(a)
  BY <1>3, SumsExist, RecoveryConstants
<1>5. Computes(sums)
  BY <1>4
<1> HIDE DEF sums
<1> QED
  BY <1>1, <1>3, <1>5, SumIs, RecoveryConstants

\* The rooms of a map, and what each holds.
RoomsIn(map) == {r \in Rooms : map[r] # NoRoom}
RoomsHeld(map) == [r \in Rooms |-> HeldBy(map[r])]
Worth(map) == SumOf(RoomsHeld(map), RoomsIn(map))

LEMMA RoomsInFinite ==
  ASSUME NEW map
  PROVE  IsFiniteSet(RoomsIn(map))
BY FS_Subset, RecoveryConstants DEF RoomsIn

LEMMA WorthIsSum ==
  ASSUME NEW map
  PROVE  MapThenSumSet(LAMBDA r : HeldBy(map[r]), RoomsIn(map)) = Worth(map)
<1> DEFINE S == RoomsIn(map)
           Computes(sums) ==
             sums = [s \in SUBSET S |->
                       IF s = {} THEN 0
                       ELSE HeldBy(map[CHOOSE x \in s : TRUE]) + sums[s \ {CHOOSE x \in s : TRUE}]]
           sums == CHOOSE a : Computes(a)
<1>1. MapThenSumSet(LAMBDA r : HeldBy(map[r]), S) = sums[S]
  BY Zenon DEF MapThenSumSet, MapThenFoldSet
<1>2. \A s \in SUBSET S : s # {} => RoomsHeld(map)[Pick(s)] = HeldBy(map[Pick(s)])
  BY Picked DEF RoomsHeld, RoomsIn
<1> HIDE DEF S
<1>3. ASSUME NEW a
      PROVE  Computes(a) <=> Sums(RoomsHeld(map), S, a)
  <2>1. [s \in SUBSET S |-> IF s = {} THEN 0 ELSE RoomsHeld(map)[Pick(s)] + a[s \ {Pick(s)}]]
        = [s \in SUBSET S |-> IF s = {} THEN 0 ELSE HeldBy(map[Pick(s)]) + a[s \ {Pick(s)}]]
    BY <1>2
  <2> QED
    BY <2>1 DEF Sums, Pick
<1>4. IsFiniteSet(S)
  BY RoomsInFinite DEF S
<1> HIDE DEF Computes
<1>5. \E a : Computes(a)
  BY <1>3, <1>4, SumsExist
<1>6. Computes(sums)
  BY <1>5
<1> HIDE DEF sums
<1>7. sums[S] = SumOf(RoomsHeld(map), S)
  BY <1>3, <1>4, <1>6, SumIs
<1> QED
  BY <1>1, <1>7 DEF S, Worth

LEMMA AllHeldIsWorth == AllHeld = Worth(rooms)
BY WorthIsSum DEF AllHeld, OpenRooms, Open, RoomsIn

LEMMA AllHeldNext == AllHeld' = Worth(rooms')
<1>1. (AllHeld = Worth(rooms))'
  BY AllHeldIsWorth, PTL
<1> QED
  BY <1>1

LEMMA HeldTyped ==
  ASSUME NEW doc \in Documents \cup {NoDoc}
  PROVE  Held(doc) \in Int
BY DEF Held, Documents

LEMMA DocsTyped ==
  ASSUME NEW room \in RoomStates
  PROVE  \A d \in Docs : room.documents[d] \in Documents \cup {NoDoc} /\ DocsHeld(room)[d] \in Int
<1>1. room.documents \in [Docs -> Documents \cup {NoDoc}]
  BY DEF RoomStates
<1> QED
  BY <1>1, HeldTyped DEF DocsHeld

LEMMA HeldByTyped ==
  ASSUME NEW room \in RoomStates
  PROVE  HeldBy(room) \in Int
BY HeldByIsSum, DocsTyped, SumTyped, RecoveryConstants

\* A new room holds nothing.
LEMMA NothingHeld ==
  ASSUME NEW room, room.documents = [d \in Docs |-> NoDoc]
  PROVE  HeldBy(room) = 0
<1>1. \A d \in Docs : DocsHeld(room)[d] = 0
  BY DEF DocsHeld, Held
<1> QED
  BY <1>1, HeldByIsSum, SumOfZeros, RecoveryConstants

\* A room holds what its documents do, whatever its sessions are.
LEMMA SessionsHoldNothing ==
  ASSUME NEW room \in RoomStates, NEW u, NEW role
  PROVE  HeldBy([room EXCEPT !.sessions[u] = role]) = HeldBy(room)
<1> DEFINE next == [room EXCEPT !.sessions[u] = role]
<1>1. next.documents = room.documents
  BY DEF RoomStates
<1> HIDE DEF next
<1>2. DocsHeld(next) = DocsHeld(room)
  BY <1>1 DEF DocsHeld
<1>3. HeldBy(next) = HeldBy(room)
  BY <1>2, HeldByIsSum
<1> QED
  BY <1>3 DEF next

\* A document that is replaced changes what its room holds by the difference.
LEMMA HeldReplaced ==
  ASSUME NEW room \in RoomStates, NEW d \in Docs, NEW doc \in Documents \cup {NoDoc}
  PROVE  HeldBy([room EXCEPT !.documents[d] = doc])
           = HeldBy(room) + Held(doc) - Held(room.documents[d])
<1> DEFINE next == [room EXCEPT !.documents[d] = doc]
<1>1. next \in RoomStates /\ next.documents = [room.documents EXCEPT ![d] = doc]
  BY DEF RoomStates
<1>2. room.documents \in [Docs -> Documents \cup {NoDoc}]
  BY DEF RoomStates
<1> HIDE DEF next
<1>3. next.documents[d] = doc /\ \A x \in Docs \ {d} : next.documents[x] = room.documents[x]
  BY <1>1, <1>2
<1>4. \A x \in Docs : DocsHeld(room)[x] \in Int /\ DocsHeld(next)[x] \in Int
  BY <1>1, DocsTyped
<1>5. \A x \in Docs \ {d} : DocsHeld(next)[x] = DocsHeld(room)[x]
  BY <1>3 DEF DocsHeld
<1>6. SumOf(DocsHeld(next), Docs) = SumOf(DocsHeld(room), Docs) + DocsHeld(next)[d] - DocsHeld(room)[d]
  BY <1>4, <1>5, SumChanged, RecoveryConstants
<1>7. DocsHeld(next)[d] = Held(doc) /\ DocsHeld(room)[d] = Held(room.documents[d])
  BY <1>3 DEF DocsHeld
<1>8. HeldBy(next) = HeldBy(room) + Held(doc) - Held(room.documents[d])
  BY <1>6, <1>7, HeldByIsSum
<1> QED
  BY <1>8 DEF next

LEMMA RoomsHeldTyped ==
  ASSUME NEW map \in RoomMaps
  PROVE  \A r \in RoomsIn(map) : map[r] \in RoomStates /\ RoomsHeld(map)[r] \in Int
BY HeldByTyped DEF RoomMaps, RoomsIn, RoomsHeld

LEMMA WorthTyped ==
  ASSUME NEW map \in RoomMaps
  PROVE  Worth(map) \in Int
BY RoomsHeldTyped, RoomsInFinite, SumTyped DEF Worth

\* A room that is added or rewritten changes what the rooms hold by what it holds.
LEMMA WorthChanged ==
  ASSUME NEW map \in RoomMaps, NEW r \in Rooms, NEW room \in RoomStates
  PROVE  Worth([map EXCEPT ![r] = room])
           = Worth(map) + HeldBy(room) - (IF map[r] = NoRoom THEN 0 ELSE HeldBy(map[r]))
<1> DEFINE next == [map EXCEPT ![r] = room]
           S == RoomsIn(next)
           O == S \ {r}
<1>1. next \in RoomMaps /\ next[r] = room /\ room # NoRoom
  BY RecoveryNulls DEF RoomMaps
<1>2. \A x \in Rooms \ {r} : next[x] = map[x]
  BY DEF RoomMaps
<1>3. r \in S /\ O = RoomsIn(map) \ {r}
  BY <1>1, <1>2 DEF RoomsIn
<1> HIDE DEF next
<1>4. IsFiniteSet(S) /\ IsFiniteSet(O) /\ IsFiniteSet(RoomsIn(map))
  BY RoomsInFinite, FS_Subset
<1>5. \A x \in O : RoomsHeld(next)[x] = RoomsHeld(map)[x] /\ RoomsHeld(map)[x] \in Int
  BY <1>2, <1>3, RoomsHeldTyped DEF RoomsHeld, RoomsIn
<1>6. \A x \in S : RoomsHeld(next)[x] \in Int
  BY <1>1, RoomsHeldTyped
<1> DEFINE rest == SumOf(RoomsHeld(map), O)
<1>7. SumOf(RoomsHeld(next), O) = rest /\ rest \in Int
  <2> HIDE DEF O
  <2> QED
    BY <1>4, <1>5, SumSame, SumTyped
<1>8. Worth(next) = HeldBy(room) + rest
  <2>1. SumOf(RoomsHeld(next), S) = RoomsHeld(next)[r] + SumOf(RoomsHeld(next), O)
    <3> HIDE DEF S
    <3> QED
      BY <1>3, <1>4, <1>6, SumWithout
  <2>2. RoomsHeld(next)[r] = HeldBy(room)
    BY <1>1 DEF RoomsHeld
  <2> QED
    BY <1>7, <2>1, <2>2 DEF Worth
<1>9. HeldBy(room) \in Int
  BY HeldByTyped
<1>10. CASE map[r] = NoRoom
  <2>1. O = RoomsIn(map)
    BY <1>3, <1>10 DEF RoomsIn
  <2>2. rest = Worth(map)
    BY <2>1 DEF Worth
  <2> HIDE DEF rest
  <2> QED
    BY <1>7, <1>8, <1>9, <1>10, <2>2 DEF next
<1>11. CASE map[r] # NoRoom
  <2>1. r \in RoomsIn(map) /\ RoomsHeld(map)[r] = HeldBy(map[r])
    BY <1>11 DEF RoomsIn, RoomsHeld
  <2>2. SumOf(RoomsHeld(map), RoomsIn(map)) = RoomsHeld(map)[r] + SumOf(RoomsHeld(map), RoomsIn(map) \ {r})
    BY <1>4, <2>1, RoomsHeldTyped, SumWithout
  <2>3. Worth(map) = HeldBy(map[r]) + rest
    BY <1>3, <2>1, <2>2 DEF Worth
  <2>4. HeldBy(map[r]) \in Int
    BY <2>1, RoomsHeldTyped
  <2> HIDE DEF rest
  <2> QED
    BY <1>7, <1>8, <1>9, <1>11, <2>3, <2>4 DEF next
<1> QED
  BY <1>10, <1>11

LEMMA WorthWithout ==
  ASSUME NEW map \in RoomMaps, NEW r \in Rooms, map[r] # NoRoom
  PROVE  Worth([map EXCEPT ![r] = NoRoom]) = Worth(map) - HeldBy(map[r])
<1> DEFINE next == [map EXCEPT ![r] = NoRoom]
           O == RoomsIn(map) \ {r}
<1>1. RoomsIn(next) = O
  BY DEF RoomMaps, RoomsIn
<1>2. \A x \in O : RoomsHeld(next)[x] = RoomsHeld(map)[x] /\ RoomsHeld(map)[x] \in Int
  BY RoomsHeldTyped DEF RoomsHeld, RoomsIn, RoomMaps
<1>3. IsFiniteSet(O) /\ IsFiniteSet(RoomsIn(map))
  BY RoomsInFinite, FS_Subset
<1> HIDE DEF next
<1>4. r \in RoomsIn(map) /\ RoomsHeld(map)[r] = HeldBy(map[r])
  BY DEF RoomsIn, RoomsHeld
<1>5. Worth(map) = HeldBy(map[r]) + SumOf(RoomsHeld(map), O)
  BY <1>3, <1>4, RoomsHeldTyped, SumWithout DEF Worth
<1>6. HeldBy(map[r]) \in Int
  BY <1>4, RoomsHeldTyped
<1> HIDE DEF O
<1>7. SumOf(RoomsHeld(next), O) = SumOf(RoomsHeld(map), O) /\ SumOf(RoomsHeld(map), O) \in Int
  BY <1>2, <1>3, SumSame, SumTyped
<1>8. Worth(next) = SumOf(RoomsHeld(map), O)
  BY <1>1, <1>7 DEF Worth
<1> QED
  BY <1>5, <1>6, <1>7, <1>8 DEF next

-------------------------------------------------------------------------------
\* Charges

\* The step charges what the rooms grow by, or more.
KeepsUp ==
  /\ totalDocBytes' \in Int
  /\ totalDocBytes' - Worth(rooms') >= totalDocBytes - Worth(rooms)

LEMMA ChargedAbove ==
  ASSUME NEW before \in Int, NEW after \in Int, NEW w \in Int, NEW n \in Int, NEW o \in Int,
         after >= before + n - o
  PROVE  after - (w + (n - o)) >= before - w
<1> DEFINE x == n - o
<1>1. x \in Int /\ after >= before + x
  OBVIOUS
<1> HIDE DEF x
<1>2. after - (w + x) >= before - w
  BY <1>1
<1> QED
  BY <1>2 DEF x

LEMMA DocCharged ==
  ASSUME RoomsTyped, totalDocBytes \in Int, NEW r \in Rooms, NEW d \in Docs, Open(r),
         NEW doc \in Documents \cup {NoDoc}, SetDoc(r, d, doc), totalDocBytes' \in Int,
         totalDocBytes' >= totalDocBytes + Held(doc) - Held(rooms[r].documents[d])
  PROVE  KeepsUp
<1> DEFINE old == rooms[r]
           room == [old EXCEPT !.documents[d] = doc]
<1>1. old \in RoomStates /\ rooms \in RoomMaps /\ old # NoRoom
  BY OpenRoomTyped DEF RoomsTyped, Open
<1>2. room \in RoomStates
  BY <1>1 DEF RoomStates
<1>3. rooms' = [rooms EXCEPT ![r] = room]
  BY DEF SetDoc
<1>4. HeldBy(room) = HeldBy(old) + Held(doc) - Held(old.documents[d])
  <2> HIDE DEF old
  <2> QED
    BY <1>1, HeldReplaced
<1> HIDE DEF room
<1>5. Worth(rooms') = Worth(rooms) + HeldBy(room) - HeldBy(old)
  BY <1>1, <1>2, <1>3, WorthChanged
<1>6. /\ Worth(rooms) \in Int /\ HeldBy(old) \in Int
      /\ Held(doc) \in Int /\ Held(old.documents[d]) \in Int
  BY <1>1, WorthTyped, HeldByTyped, HeldTyped, DocsTyped
<1> DEFINE w == Worth(rooms)
           h == HeldBy(old)
           n == Held(doc)
           o == Held(old.documents[d])
<1>7. Worth(rooms') = w + (h + n - o) - h
  BY <1>4, <1>5
<1>8. /\ w \in Int /\ h \in Int /\ n \in Int /\ o \in Int
      /\ totalDocBytes' \in Int /\ totalDocBytes \in Int /\ totalDocBytes' >= totalDocBytes + n - o
  BY <1>6
<1> HIDE DEF w, h, n, o
<1>9. totalDocBytes' - (w + (h + n - o) - h) >= totalDocBytes - w
  <2>1. w + (h + n - o) - h = w + (n - o)
    BY <1>8
  <2>2. totalDocBytes' - (w + (n - o)) >= totalDocBytes - w
    BY <1>8, ChargedAbove
  <2> QED
    BY <2>1, <2>2
<1> QED
  BY <1>7, <1>9 DEF KeepsUp, w

LEMMA SessionFree ==
  ASSUME RoomsTyped, totalDocBytes \in Int, NEW r \in Rooms, Open(r),
         NEW u \in Users, NEW role \in Roles \cup {NoUser}, SetSession(r, u, role),
         UNCHANGED totalDocBytes
  PROVE  KeepsUp
<1> DEFINE old == rooms[r]
           room == [old EXCEPT !.sessions[u] = role]
<1>1. old \in RoomStates /\ rooms \in RoomMaps /\ old # NoRoom
  BY OpenRoomTyped DEF RoomsTyped, Open
<1>2. room \in RoomStates
  BY <1>1 DEF RoomStates
<1>3. rooms' = [rooms EXCEPT ![r] = room]
  BY DEF SetSession
<1>4. HeldBy(room) = HeldBy(old)
  <2> HIDE DEF old
  <2> QED
    BY <1>1, SessionsHoldNothing
<1> HIDE DEF room
<1>5. Worth(rooms') = Worth(rooms) + HeldBy(room) - HeldBy(old)
  BY <1>1, <1>2, <1>3, WorthChanged
<1>6. Worth(rooms) \in Int /\ HeldBy(old) \in Int
  BY <1>1, WorthTyped, HeldByTyped
<1>7. Worth(rooms') = Worth(rooms)
  BY <1>4, <1>5, <1>6
<1> QED
  BY <1>6, <1>7 DEF KeepsUp

LEMMA RoomsSame ==
  ASSUME RoomsTyped, totalDocBytes \in Int, UNCHANGED <<rooms, totalDocBytes>>
  PROVE  KeepsUp
BY WorthTyped DEF KeepsUp, RoomsTyped

LEMMA CreateFree ==
  ASSUME RoomsTyped, OpenAreDrawn, totalDocBytes \in Int, NEW r \in Rooms, NEW u \in Users,
         CreateRoom(r, u)
  PROVE  KeepsUp
<1>1. PICK room \in RoomStates : /\ room.documents = [d \in Docs |-> NoDoc]
                                 /\ rooms' = [rooms EXCEPT ![r] = room]
  <2> DEFINE sessions == [v \in Users |-> IF v = u THEN "root" ELSE NoUser]
             documents == [d \in Docs |-> NoDoc]
             room == [owner |-> u, ip |-> IpOf[u], sessions |-> sessions, documents |-> documents]
  <2>1. sessions \in [Users -> Roles \cup {NoUser}]
    BY DEF Roles
  <2>2. documents \in [Docs -> Documents \cup {NoDoc}]
    OBVIOUS
  <2>3. rooms' = [rooms EXCEPT ![r] = room]
    BY DEF CreateRoom
  <2>4. IpOf[u] \in Ips
    BY RecoveryConstants
  <2>5. documents = [d \in Docs |-> NoDoc]
    OBVIOUS
  <2> HIDE DEF sessions, documents
  <2>6. room \in RoomStates /\ room.documents = documents
    BY <2>1, <2>2, <2>4 DEF RoomStates
  <2> QED
    BY <2>3, <2>5, <2>6
<1>2. rooms[r] = NoRoom /\ rooms \in RoomMaps
  BY DEF OpenAreDrawn, CreateRoom, RoomsTyped
<1>3. Worth(rooms') = Worth(rooms) + HeldBy(room) - 0
  BY <1>1, <1>2, WorthChanged
<1>4. HeldBy(room) = 0 /\ Worth(rooms) \in Int
  BY <1>1, <1>2, NothingHeld, WorthTyped
<1>5. Worth(rooms') = Worth(rooms)
  BY <1>3, <1>4
<1> QED
  BY <1>4, <1>5 DEF KeepsUp, CreateRoom

LEMMA DeleteReleases ==
  ASSUME RoomsTyped, totalDocBytes \in Int, NEW r \in Rooms, Open(r), DeleteRoom(r)
  PROVE  KeepsUp
<1> DEFINE h == HeldBy(rooms[r])
           w == Worth(rooms)
<1>1. rooms \in RoomMaps /\ rooms[r] \in RoomStates /\ rooms[r] # NoRoom
  BY OpenRoomTyped DEF RoomsTyped, Open
<1>2. h \in Int /\ w \in Int
  BY <1>1, HeldByTyped, WorthTyped
<1>3. Worth(rooms') = w - h
  BY <1>1, WorthWithout DEF DeleteRoom
<1>4. totalDocBytes' = IF totalDocBytes < h THEN 0 ELSE totalDocBytes - h
  BY DEF DeleteRoom
<1> HIDE DEF h
<1>5. totalDocBytes' \in Int /\ totalDocBytes' - (w - h) >= totalDocBytes - w
  <2> HIDE DEF w
  <2> QED
    BY <1>2, <1>4
<1> QED
  BY <1>3, <1>5 DEF KeepsUp

LEMMA ShareCharged ==
  ASSUME RoomsTyped, totalDocBytes \in Int, NEW r \in Rooms, NEW d \in Docs, ShareDocument(r, d)
  PROVE  KeepsUp
<1> DEFINE old == rooms[r].documents[d]
<1>1. PICK text \in Sizes, state \in Sizes \cup {0} :
         LET doc == [version |-> 1, text |-> text, state |-> state]
         IN Charge(Held(old), Held(doc)) /\ SetDoc(r, d, doc)
  BY DEF ShareDocument
<1> DEFINE doc == [version |-> 1, text |-> text, state |-> state]
<1>2. doc \in Documents
  BY SizesTyped DEF Documents
<1>3. Open(r) /\ old \in Documents \cup {NoDoc}
  BY OpenRoomTyped, DocsTyped DEF ShareDocument, OwnerActs
<1>4. Charge(Held(old), Held(doc)) /\ SetDoc(r, d, doc)
  BY <1>1
<1> HIDE DEF doc
<1>5. Held(old) \in Int /\ Held(doc) \in Int
  BY <1>2, <1>3, HeldTyped
<1>6. totalDocBytes' = totalDocBytes + Held(doc) - Held(old)
  BY <1>4 DEF Charge
<1>7. totalDocBytes' \in Int /\ totalDocBytes' >= totalDocBytes + Held(doc) - Held(old)
  <2> HIDE DEF old
  <2> QED
    BY <1>5, <1>6
<1> QED
  BY <1>2, <1>3, <1>4, <1>7, DocCharged

LEMMA UnshareReleases ==
  ASSUME RoomsTyped, totalDocBytes \in Int, NEW r \in Rooms, NEW d \in Docs, UnshareDocument(r, d)
  PROVE  KeepsUp
<1> DEFINE old == rooms[r].documents[d]
<1>1. Open(r) /\ old \in Documents \cup {NoDoc}
  BY OpenRoomTyped, DocsTyped DEF UnshareDocument, OwnerActs
<1>2. Held(old) \in Int /\ Held(NoDoc) = 0
  BY <1>1, HeldTyped DEF Held
<1>3. totalDocBytes' = totalDocBytes - Held(old) /\ SetDoc(r, d, NoDoc)
  BY DEF UnshareDocument, Released
<1>4. totalDocBytes' \in Int /\ totalDocBytes' >= totalDocBytes + Held(NoDoc) - Held(old)
  <2> HIDE DEF old
  <2> QED
    BY <1>2, <1>3
<1> QED
  BY <1>1, <1>3, <1>4, DocCharged

LEMMA SyncCharged ==
  ASSUME RoomsTyped, totalDocBytes \in Int, NEW r \in Rooms, NEW d \in Docs, FullDocumentSync(r, d)
  PROVE  KeepsUp
<1> DEFINE old == rooms[r].documents[d]
<1>1. Open(r) /\ old \in Documents
  BY OpenRoomTyped, DocsTyped DEF FullDocumentSync, OwnerActs
<1>2. PICK text \in Sizes, state \in Sizes \cup {0}, version \in old.version + 1 .. MaxVersion :
         LET next == [version |-> version, text |-> text, state |-> state]
         IN Charge(Held(old), Held(next)) /\ SetDoc(r, d, next)
  BY DEF FullDocumentSync
<1> DEFINE doc == [version |-> version, text |-> text, state |-> state]
<1>3. version \in 1 .. MaxVersion
  <2>1. old.version \in 1 .. MaxVersion
    BY <1>1 DEF Documents
  <2> HIDE DEF old
  <2> QED
    BY <2>1, SizesTyped
<1>4. doc \in Documents
  BY <1>3, SizesTyped DEF Documents
<1>5. Charge(Held(old), Held(doc)) /\ SetDoc(r, d, doc)
  BY <1>2
<1> HIDE DEF doc
<1>6. Held(old) \in Int /\ Held(doc) \in Int
  BY <1>1, <1>4, HeldTyped
<1>7. totalDocBytes' = totalDocBytes + Held(doc) - Held(old)
  BY <1>5 DEF Charge
<1>8. totalDocBytes' \in Int /\ totalDocBytes' >= totalDocBytes + Held(doc) - Held(old)
  <2> HIDE DEF old
  <2> QED
    BY <1>6, <1>7
<1> QED
  BY <1>1, <1>4, <1>5, <1>8, DocCharged

\* A patch makes its document longer by no more than was sent.
LEMMA ChangeCharged ==
  ASSUME RoomsTyped, PresentInOpenRooms, totalDocBytes \in Int,
         NEW r \in Rooms, NEW d \in Docs, DocChange(r, d)
  PROVE  KeepsUp
<1> DEFINE old == rooms[r].documents[d]
<1>1. Open(r)
  BY DEF DocChange, PresentInOpenRooms
<1>2. old \in Documents /\ old # NoDoc
  BY <1>1, OpenRoomTyped, DocsTyped DEF DocChange
<1>3. PICK sent \in Sizes \cup {0} :
         /\ Charge(Held(old), Held(old) + sent)
         /\ \/ UNCHANGED rooms
            \/ \E inserted \in 0 .. sent, removed \in 0 .. old.text :
                 SetDoc(r, d, [old EXCEPT !.version = @ + 1, !.text = @ - removed + inserted])
  BY DEF DocChange
<1>4. sent \in Nat /\ Held(old) \in Int
  BY <1>2, SizesTyped, HeldTyped
<1>5. totalDocBytes' = totalDocBytes + (Held(old) + sent) - Held(old)
  BY <1>3 DEF Charge
<1>6. totalDocBytes' = totalDocBytes + sent /\ totalDocBytes' \in Int
  <2> HIDE DEF old
  <2> QED
    BY <1>4, <1>5
<1>7. CASE UNCHANGED rooms
  <2>1. Worth(rooms') = Worth(rooms) /\ Worth(rooms) \in Int
    BY <1>7, WorthTyped DEF RoomsTyped
  <2> HIDE DEF old
  <2> QED
    BY <1>4, <1>6, <2>1 DEF KeepsUp
<1>8. CASE \E inserted \in 0 .. sent, removed \in 0 .. old.text :
             SetDoc(r, d, [old EXCEPT !.version = @ + 1, !.text = @ - removed + inserted])
  <2>1. PICK inserted \in 0 .. sent, removed \in 0 .. old.text :
               SetDoc(r, d, [old EXCEPT !.version = @ + 1, !.text = @ - removed + inserted])
    BY <1>8
  <2> DEFINE doc == [old EXCEPT !.version = @ + 1, !.text = @ - removed + inserted]
  <2>2. old.text \in Nat /\ old.version \in 1 .. MaxVersion /\ old.version < MaxVersion /\ old.state \in Nat
    BY <1>2 DEF Documents, DocChange
  <2>3. inserted \in 0 .. sent /\ removed \in 0 .. old.text /\ SetDoc(r, d, doc)
    BY <2>1
  <2>4. old.text - removed + inserted \in Nat /\ old.version + 1 \in 1 .. MaxVersion
    <3> HIDE DEF old
    <3> QED
      BY <1>4, <2>2, <2>3, SizesTyped
  <2>5. /\ doc \in Documents
        /\ doc.text = old.text - removed + inserted /\ doc.state = old.state
    BY <1>2, <2>4 DEF Documents
  <2>6. doc # NoDoc
    BY <2>5, RecoveryNulls
  <2> HIDE DEF doc, old
  <2>7. totalDocBytes' >= totalDocBytes + Held(doc) - Held(old)
    <3>1. CASE old.state # 0
      <4>1. Held(doc) = Held(old)
        BY <1>2, <2>5, <2>6, <3>1 DEF Held
      <4> QED
        BY <1>4, <1>6, <4>1
    <3>2. CASE old.state = 0
      <4>1. Held(doc) = old.text - removed + inserted /\ Held(old) = old.text
        BY <1>2, <2>5, <2>6, <3>2 DEF Held
      <4> QED
        BY <1>4, <1>6, <2>2, <2>3, <4>1
    <3> QED
      BY <3>1, <3>2
  <2> QED
    BY <1>1, <1>6, <2>3, <2>5, <2>7, DocCharged DEF old
<1> QED
  BY <1>3, <1>7, <1>8

LEMMA RoomStepKeepsUp ==
  ASSUME RoomsTyped, PresentInOpenRooms, OpenAreDrawn, totalDocBytes \in Int,
         NEW r \in Rooms, RoomStep(r)
  PROVE  KeepsUp
<1>1. ASSUME NEW u \in Users, CreateRoom(r, u)
      PROVE  KeepsUp
  BY <1>1, CreateFree
<1>2. ASSUME NEW u \in Users, JoinRoom(r, u)
      PROVE  KeepsUp
  <2>1. "collaborator" \in Roles
    BY DEF Roles
  <2> QED
    BY <1>2, <2>1, SessionFree, RoomsSame DEF JoinRoom
<1>3. ASSUME NEW u \in Users, Disconnect(r, u)
      PROVE  KeepsUp
  BY <1>3, RoomsSame DEF Disconnect
<1>4. ASSUME NEW u \in Users, LeaveOrRemove(r, u)
      PROVE  KeepsUp
  <2>1. Open(r)
    BY <1>4 DEF LeaveOrRemove, PresentInOpenRooms
  <2> QED
    BY <1>4, <2>1, SessionFree DEF LeaveOrRemove
<1>5. ASSUME NEW u \in Users, NEW role \in Roles \ {"root"}, UpdateRole(r, u, role)
      PROVE  KeepsUp
  BY <1>5, SessionFree DEF UpdateRole, OwnerActs
<1>6. CASE OwnerLeaves(r) \/ CollectIdle(r)
  BY <1>6, DeleteReleases DEF OwnerLeaves, OwnerActs, CollectIdle
<1>7. ASSUME NEW d \in Docs,
             \/ ShareDocument(r, d) \/ UnshareDocument(r, d)
             \/ DocChange(r, d) \/ FullDocumentSync(r, d)
      PROVE  KeepsUp
  BY <1>7, ShareCharged, UnshareReleases, ChangeCharged, SyncCharged
<1> QED
  BY <1>1, <1>2, <1>3, <1>4, <1>5, <1>6, <1>7 DEF RoomStep

-------------------------------------------------------------------------------
\* The total of a restart

DocsText(room) ==
  [d \in Docs |-> IF room.documents[d] = NoDoc THEN 0 ELSE room.documents[d].text]
RoomsText(map) == [r \in Rooms |-> TextBytes(map[r])]

LEMMA TextIsSum ==
  ASSUME NEW room
  PROVE  TextBytes(room) = SumOf(DocsText(room), Docs)
<1> DEFINE Text(d) == IF room.documents[d] = NoDoc THEN 0 ELSE room.documents[d].text
           Computes(sums) ==
             sums = [s \in SUBSET Docs |->
                       IF s = {} THEN 0
                       ELSE Text(CHOOSE x \in s : TRUE) + sums[s \ {CHOOSE x \in s : TRUE}]]
           sums == CHOOSE a : Computes(a)
<1>1. TextBytes(room) = sums[Docs]
  BY Zenon DEF TextBytes, MapThenSumSet, MapThenFoldSet
<1>2. \A s \in SUBSET Docs : s # {} => DocsText(room)[Pick(s)] = Text(Pick(s))
  BY Picked DEF DocsText
<1> HIDE DEF Text
<1>3. ASSUME NEW a
      PROVE  Computes(a) <=> Sums(DocsText(room), Docs, a)
  <2>1. [s \in SUBSET Docs |-> IF s = {} THEN 0 ELSE DocsText(room)[Pick(s)] + a[s \ {Pick(s)}]]
        = [s \in SUBSET Docs |-> IF s = {} THEN 0 ELSE Text(Pick(s)) + a[s \ {Pick(s)}]]
    BY <1>2
  <2> QED
    BY <2>1 DEF Sums, Pick
<1> HIDE DEF Computes
<1>4. \E a : Computes(a)
  BY <1>3, SumsExist, RecoveryConstants
<1>5. Computes(sums)
  BY <1>4
<1> HIDE DEF sums
<1> QED
  BY <1>1, <1>3, <1>5, SumIs, RecoveryConstants

LEMMA TextTyped ==
  ASSUME NEW room \in RoomStates
  PROVE  TextBytes(room) \in Int
<1>1. \A d \in Docs : DocsText(room)[d] \in Int
  BY DocsTyped DEF DocsText, Documents
<1> QED
  BY <1>1, TextIsSum, SumTyped, RecoveryConstants

LEMMA TextsAreSum ==
  ASSUME NEW map
  PROVE  MapThenSumSet(LAMBDA r : TextBytes(map[r]), RoomsIn(map)) = SumOf(RoomsText(map), RoomsIn(map))
<1> DEFINE S == RoomsIn(map)
           Computes(sums) ==
             sums = [s \in SUBSET S |->
                       IF s = {} THEN 0
                       ELSE TextBytes(map[CHOOSE x \in s : TRUE]) + sums[s \ {CHOOSE x \in s : TRUE}]]
           sums == CHOOSE a : Computes(a)
<1>1. MapThenSumSet(LAMBDA r : TextBytes(map[r]), S) = sums[S]
  BY Zenon DEF MapThenSumSet, MapThenFoldSet
<1>2. \A s \in SUBSET S : s # {} => RoomsText(map)[Pick(s)] = TextBytes(map[Pick(s)])
  BY Picked DEF RoomsText, RoomsIn
<1> HIDE DEF S
<1>3. ASSUME NEW a
      PROVE  Computes(a) <=> Sums(RoomsText(map), S, a)
  <2>1. [s \in SUBSET S |-> IF s = {} THEN 0 ELSE RoomsText(map)[Pick(s)] + a[s \ {Pick(s)}]]
        = [s \in SUBSET S |-> IF s = {} THEN 0 ELSE TextBytes(map[Pick(s)]) + a[s \ {Pick(s)}]]
    BY <1>2
  <2> QED
    BY <2>1 DEF Sums, Pick
<1>4. IsFiniteSet(S)
  BY RoomsInFinite DEF S
<1> HIDE DEF Computes
<1>5. \E a : Computes(a)
  BY <1>3, <1>4, SumsExist
<1>6. Computes(sums)
  BY <1>5
<1> HIDE DEF sums
<1>7. sums[S] = SumOf(RoomsText(map), S)
  BY <1>3, <1>4, <1>6, SumIs
<1> QED
  BY <1>1, <1>7 DEF S

LEMMA RestartCounts ==
  ASSUME RoomsTyped, Restart
  PROVE  totalDocBytes' \in Int
<1>1. totalDocBytes' = MapThenSumSet(LAMBDA r : TextBytes(row[r]), RoomsIn(row))
  BY DEF Restart, RoomsIn
<1>2. \A r \in RoomsIn(row) : RoomsText(row)[r] \in Int
  BY TextTyped DEF RoomsTyped, RoomMaps, RoomsIn, RoomsText
<1>3. SumOf(RoomsText(row), RoomsIn(row)) \in Int
  BY <1>2, RoomsInFinite, SumTyped
<1> QED
  BY <1>1, <1>3, TextsAreSum

LEMMA StepCharges ==
  ASSUME RoomsTyped, PresentInOpenRooms, OpenAreDrawn, totalDocBytes \in Int, [Next]_vars
  PROVE  /\ totalDocBytes' \in Int
         /\ up /\ up' => totalDocBytes' - AllHeld' >= totalDocBytes - AllHeld
<1>1. KeepsUp => /\ totalDocBytes' \in Int
                /\ totalDocBytes' - AllHeld' >= totalDocBytes - AllHeld
  BY AllHeldIsWorth, AllHeldNext DEF KeepsUp
<1>2. CASE UNCHANGED vars
  BY <1>1, <1>2, RoomsSame DEF vars, memory
<1>3. CASE \E r \in Rooms : RoomStep(r)
  BY <1>1, <1>3, RoomStepKeepsUp
<1>4. CASE AutoSave
  BY <1>1, <1>4, RoomsSame DEF AutoSave, memory
<1>5. CASE Crash \/ Shutdown
  BY <1>5 DEF Crash, Shutdown, Down
<1>6. CASE Restart
  BY <1>6, RestartCounts DEF Restart
<1> QED
  BY <1>2, <1>3, <1>4, <1>5, <1>6 DEF Next

LEMMA BoundsTyped ==
  ASSUME saves \in Nat, outages \in Nat, [Next]_vars
  PROVE  saves' \in Nat /\ outages' \in Nat
<1>1. CASE \E r \in Rooms : RoomStep(r)
  <2>1. PICK r \in Rooms : RoomStep(r)
    BY <1>1
  <2>2. UNCHANGED <<saves, outages>>
    BY <2>1 DEF RoomStep, CreateRoom, JoinRoom, Disconnect, LeaveOrRemove, UpdateRole, OwnerLeaves,
                CollectIdle, DeleteRoom, ShareDocument, UnshareDocument, DocChange, FullDocumentSync
  <2> QED
    BY <2>2
<1>2. CASE AutoSave \/ Crash \/ Shutdown \/ Restart
  BY <1>2 DEF AutoSave, Crash, Shutdown, Down, Restart
<1>3. CASE UNCHANGED vars
  BY <1>3 DEF vars
<1> QED
  BY <1>1, <1>2, <1>3 DEF Next

LEMMA TotalIsNumber == Spec => [](totalDocBytes \in Int)
<1>1. Init => totalDocBytes \in Int
  BY DEF Init
<1>2. /\ RoomsTyped /\ PresentInOpenRooms /\ OpenAreDrawn /\ totalDocBytes \in Int /\ [Next]_vars
      => (totalDocBytes \in Int)'
  BY StepCharges
<1> QED
  BY <1>1, <1>2, RecoveryTyped, IdsDrawn, PTL DEF Spec

\* Every variable of the server keeps its type, the rebuilt counters included
\* (rebuildAccountingFromRooms).
THEOREM ServerStaysTyped == Spec => []RecoveryTypeOK
<1>1. Init => saves \in Nat /\ outages \in Nat
  BY DEF Init
<1>2. saves \in Nat /\ outages \in Nat /\ [Next]_vars => (saves \in Nat /\ outages \in Nat)'
  BY BoundsTyped
<1>3. RoomsTyped /\ totalDocBytes \in Int /\ saves \in Nat /\ outages \in Nat => RecoveryTypeOK
  BY DEF RoomsTyped, RoomMaps, RecoveryTypeOK
<1> QED
  BY <1>1, <1>2, <1>3, RecoveryTyped, TotalIsNumber, PTL DEF Spec

\* Whatever is shared, changed, synchronised, unshared or deleted, a running server
\* charges no less than the documents grow and releases no more than they held: what
\* its total lacks of them it lacks since a restart (handleShareDocument,
\* handleUnshareDocument, handleDocChange, handleFullDocumentSync, deleteRoom).
THEOREM ChargesAlwaysKeepUp == Spec => ChargesKeepUp
<1>1. /\ RoomsTyped /\ PresentInOpenRooms /\ OpenAreDrawn /\ totalDocBytes \in Int /\ [Next]_vars
      => [up /\ up' => totalDocBytes' - AllHeld' >= totalDocBytes - AllHeld]_vars
  BY StepCharges
<1> QED
  BY <1>1, RecoveryTyped, IdsDrawn, TotalIsNumber, PTL DEF Spec, ChargesKeepUp
===============================================================================
