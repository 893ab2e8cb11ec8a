--------------------------- MODULE RoomScopeProofs ----------------------------
(***************************************************************************)
(* Properties of the room server that hold within a scope, for every value *)
(* of the constants in it, and outside of which there are runs that break  *)
(* them:                                                                   *)
(*   - the owner is whom ownerId names, as long as every connection comes  *)
(*     from one address (a join with the owner's token from another one    *)
(*     throws the owner out and is refused the role);                      *)
(*   - the counts are exact and there are no ghost members, as long as no  *)
(*     room has a secret (the handlers that hash or verify one go on after *)
(*     the connection closed, with the count they read before);            *)
(*   - a context agrees with the room it names, as long as there is no     *)
(*     voice tab (the end of one takes its user's place in the room, but   *)
(*     not the room out of the user's own context).                        *)
(*                                                                         *)
(* StepForms says once what a step does to rooms, contexts and counts.     *)
(***************************************************************************)
EXTENDS RoomServerProofs

-------------------------------------------------------------------------------
\* The owner of one room

\* ownerId names an active participant with the owner session, or nobody.
OwnerIsTrue(room) ==
  /\ room.ownerId \in Active(room) \cup {RestoredOwner}
  /\ room.ownerId \in Active(room)
       => room.participants[room.ownerId].session = room.ownerSession

\* What every change of a room keeps: its address, whether it has a secret,
\* and a true owner.
KeepsOwner(room, q) ==
  /\ q.ownerIp = room.ownerIp
  /\ q.locked = room.locked
  /\ OwnerIsTrue(room) => OwnerIsTrue(q)

\* OwnerIsTrue looks at three fields.
LEMMA OwnerFields ==
  ASSUME NEW room, NEW q, q.ownerId = room.ownerId, q.ownerSession = room.ownerSession,
         q.participants = room.participants, OwnerIsTrue(room)
  PROVE  OwnerIsTrue(q)
<1>1. Active(q) = Active(room)
  BY DEF Active
<1> QED
  BY <1>1 DEF OwnerIsTrue

\* The creator of a room is its owner.
LEMMA CreatedOwner ==
  ASSUME NEW c \in Conns, NEW ip, NEW mode, NEW locked, NEW s
  PROVE  LET q == CreatedRoom(c, ip, mode, locked, s) IN
         /\ q.status = "open"
         /\ q.ownerIp = ip
         /\ q.locked = locked
         /\ q.connections = {c}
         /\ OwnerIsTrue(q)
<1> DEFINE q == CreatedRoom(c, ip, mode, locked, s)
<1>1. /\ q.status = "open"
      /\ q.ownerIp = ip
      /\ q.locked = locked
      /\ q.connections = {c}
      /\ q.ownerId = c
      /\ q.ownerSession = s
      /\ q.participants[c].session = s
      /\ q.participants[c].role = "root"
  BY DEF CreatedRoom
<1> HIDE DEF q
<1>2. OwnerIsTrue(q)
  BY <1>1 DEF OwnerIsTrue, Active
<1> QED
  BY <1>1, <1>2 DEF q

\* A cleanup never changes the address and the lock of the room.
LEMMA CleanupMarks ==
  ASSUME NEW room \in Room, NEW u \in Conns, NEW reason
  PROVE  LET q == RoomAfterCleanup(room, u, reason) IN
         q.ownerIp = room.ownerIp /\ q.locked = room.locked
<1> DEFINE parts == [room.participants EXCEPT ![u] = NoParticipant]
           held  == [s \in Sessions |-> IF /\ s = room.participants[u].session
                                           /\ room.participants[u].role # "none"
                                           /\ reason # "disconnect"
                                        THEN NoEntry ELSE room.recoverable[s]]
           live  == room.connections \ {u}
           heard == [room.voice EXCEPT ![u] = NoTab]
           none  == [v \in Conns |-> NoParticipant]
           lost  == [s \in Sessions |-> NoEntry]
           rest  == WithoutUser(room, u, reason)
           q     == RoomAfterCleanup(room, u, reason)
<1>1. rest = [room EXCEPT !.participants = parts, !.connections = live,
                          !.voice = heard, !.recoverable = held]
  BY DEF WithoutUser, Room
<1>2. ClosedRoom(rest) = [rest EXCEPT !.status = "closed", !.participants = none,
                                      !.recoverable = lost, !.connections = {},
                                      !.activity = "unset"]
  BY DEF ClosedRoom
<1>3. q \in {ClosedRoom(rest), [rest EXCEPT !.ownerId = RestoredOwner], rest}
  BY DEF RoomAfterCleanup
<1>4. rest \in Room
  BY WithoutUserFields
<1> HIDE DEF parts, held, live, heard, none, lost, rest, q
<1>5. rest.ownerIp = room.ownerIp /\ rest.locked = room.locked
  BY <1>1 DEF Room
<1>6. ClosedRoom(rest).ownerIp = rest.ownerIp /\ ClosedRoom(rest).locked = rest.locked
  BY <1>2, <1>4 DEF Room
<1>7. /\ [rest EXCEPT !.ownerId = RestoredOwner].ownerIp = rest.ownerIp
      /\ [rest EXCEPT !.ownerId = RestoredOwner].locked = rest.locked
  BY <1>4 DEF Room
<1>8. q.ownerIp = room.ownerIp /\ q.locked = room.locked
  BY <1>3, <1>5, <1>6, <1>7
<1> QED
  BY <1>8 DEF q

\* A cleanup that leaves the room open says so when the owner is who went.
LEMMA CleanupKeepsOwner ==
  ASSUME NEW room \in Room, NEW u \in Conns, NEW reason, ~ClosesRoom(room, u, reason)
  PROVE  KeepsOwner(room, RoomAfterCleanup(room, u, reason))
<1> DEFINE rest == WithoutUser(room, u, reason)
           q    == RoomAfterCleanup(room, u, reason)
<1>1. /\ rest \in Room
      /\ rest.ownerSession = room.ownerSession
      /\ rest.ownerId = room.ownerId
      /\ rest.participants = [room.participants EXCEPT ![u] = NoParticipant]
  BY WithoutUserFields
<1>2. q = IF room.ownerId = u THEN [rest EXCEPT !.ownerId = RestoredOwner] ELSE rest
  BY DEF RoomAfterCleanup
<1>3. q.ownerIp = room.ownerIp /\ q.locked = room.locked
  BY CleanupMarks
<1>4. room.participants \in [Conns -> Participant] /\ NoParticipant.role = "none"
  BY DEF Room, NoParticipant
<1> HIDE DEF rest, q
<1>5. CASE room.ownerId = u
  <2>1. q.ownerId = RestoredOwner
    BY <1>1, <1>2, <1>5 DEF Room
  <2>2. OwnerIsTrue(q)
    BY <2>1, RoomConstants DEF OwnerIsTrue, Active
  <2> QED
    BY <1>3, <2>2 DEF KeepsOwner, q
<1>6. CASE room.ownerId # u
  <2>1. q = rest
    BY <1>2, <1>6
  <2>2. Active(q) = Active(room) \ {u} /\ \A v \in Conns \ {u} : q.participants[v] = room.participants[v]
    BY <1>1, <1>4, <2>1 DEF Active
  <2>3. Active(room) \subseteq Conns
    BY DEF Active
  <2>4. OwnerIsTrue(room) => OwnerIsTrue(q)
    BY <1>1, <1>6, <2>1, <2>2, <2>3 DEF OwnerIsTrue
  <2> QED
    BY <1>3, <2>4 DEF KeepsOwner, q
<1> QED
  BY <1>5, <1>6

\* A join never changes the address and the lock of the room.
LEMMA JoinedMarks ==
  ASSUME NEW room, NEW c, NEW p, NEW out, room \in Room
  PROVE  LET q == JoinedRoom(room, c, p, out) IN
         q.ownerIp = room.ownerIp /\ q.locked = room.locked
<1> DEFINE q     == JoinedRoom(room, c, p, out)
           owner == IF p.session = room.ownerSession THEN c ELSE room.ownerId
           parts == [u \in Conns |-> IF u = c THEN p
                                     ELSE IF u \in out THEN NoParticipant
                                     ELSE room.participants[u]]
           held  == [room.recoverable EXCEPT ![p.session] = ToRecoverable(p)]
           live  == (room.connections \ out) \cup {c}
<1>1. q = [room EXCEPT !.ownerId = owner, !.participants = parts,
                       !.recoverable = held, !.connections = live]
  BY DEF JoinedRoom, Room
<1> HIDE DEF q, owner, parts, held, live
<1>2. q.ownerIp = room.ownerIp /\ q.locked = room.locked
  BY <1>1 DEF Room
<1> QED
  BY <1>2 DEF q

\* A join from the owner's address keeps the owner: one that asks for the
\* owner's session is the owner, and any other one leaves the owner alone.
LEMMA JoinKeepsOwner ==
  ASSUME NEW room \in Room, NEW c \in Conns, c \notin Active(room),
         NEW s \in 0 .. MaxSession, NEW ip \in Ips, ip = room.ownerIp,
         NEW n \in 1 .. MaxSession + 1, Consistent(room, n), s < n,
         NeedsFresh(room, s, ip) => n \in Sessions
  PROVE  OwnerIsTrue(room) =>
           OwnerIsTrue(JoinedRoom(room, c, ResolvedParticipant(room, s, ip, n),
                                  Displaced(room, s)))
<1> DEFINE p   == ResolvedParticipant(room, s, ip, n)
           out == Displaced(room, s)
           q   == JoinedRoom(room, c, p, out)
<1>1. p \in Participant /\ p.role # "none"
  BY ResolvedType
<1>2. s = room.ownerSession => p.session = room.ownerSession
  <2> SUFFICES ASSUME s = room.ownerSession
               PROVE  p.session = room.ownerSession
    OBVIOUS
  <2>1. CanReclaimRoot(room, s, ip)
    BY DEF CanReclaimRoot
  <2> QED
    BY <2>1 DEF ResolvedParticipant
<1>3. out \in SUBSET Conns /\ \A u \in out : room.participants[u].session = s
  BY DEF Displaced
<1> HIDE DEF p, out
<1>4. /\ q \in Room
      /\ q.status = room.status
      /\ q.ownerSession = room.ownerSession
      /\ q.ownerId = IF p.session = room.ownerSession THEN c ELSE room.ownerId
      /\ q.participants = [u \in Conns |-> IF u = c THEN p
                                           ELSE IF u \in out THEN NoParticipant
                                           ELSE room.participants[u]]
      /\ q.recoverable = [room.recoverable EXCEPT ![p.session] = ToRecoverable(p)]
      /\ q.connections = (room.connections \ out) \cup {c}
  BY <1>1, <1>3, JoinedRoomFields
<1> HIDE DEF q
<1>5. ASSUME OwnerIsTrue(room)
      PROVE  OwnerIsTrue(q)
  <2>1. CASE p.session = room.ownerSession
    <3>1. q.ownerId = c /\ q.participants[c] = p
      BY <1>4, <2>1
    <3>2. c \in Active(q)
      BY <1>1, <3>1 DEF Active
    <3> QED
      BY <1>4, <2>1, <3>1, <3>2 DEF OwnerIsTrue
  <2>2. CASE p.session # room.ownerSession /\ room.ownerId = RestoredOwner
    <3>1. q.ownerId = RestoredOwner
      BY <1>4, <2>2
    <3> QED
      BY <3>1, RoomConstants DEF OwnerIsTrue, Active
  <2>3. CASE p.session # room.ownerSession /\ room.ownerId \in Active(room)
    <3>1. PICK o \in Active(room) : o = room.ownerId
      BY <2>3
    <3>2. /\ o \in Conns
          /\ o # c
          /\ room.participants[o].role # "none"
          /\ room.participants[o].session = room.ownerSession
      BY <1>5, <3>1 DEF OwnerIsTrue, Active
    <3>3. o \notin out
      BY <1>2, <1>3, <2>3, <3>2
    <3>4. q.ownerId = o /\ q.participants[o] = room.participants[o]
      BY <1>4, <2>3, <3>1, <3>2, <3>3
    <3>5. o \in Active(q)
      BY <3>2, <3>4 DEF Active
    <3> QED
      BY <1>4, <3>2, <3>4, <3>5 DEF OwnerIsTrue
  <2> QED
    BY <1>5, <2>1, <2>2, <2>3 DEF OwnerIsTrue
<1> QED
  BY <1>5 DEF p, out, q

\* Roles and edit modes are changed within a session.
LEMMA WithParticipantKeepsOwner ==
  ASSUME NEW room \in Room, NEW u \in Active(room), NEW p \in Participant,
         p.session \in Sessions, p.role # "none",
         p.session = room.participants[u].session
  PROVE  KeepsOwner(room, WithParticipant(room, u, p))
<1> DEFINE parts == [room.participants EXCEPT ![u] = p]
           held  == [room.recoverable EXCEPT ![p.session] = ToRecoverable(p)]
           q     == WithParticipant(room, u, p)
<1>1. q = [room EXCEPT !.participants = parts, !.recoverable = held]
  BY DEF WithParticipant, Room
<1>2. u \in Conns
  BY DEF Active
<1>3. /\ q.ownerSession = room.ownerSession
      /\ q.ownerId = room.ownerId
      /\ q.participants = [room.participants EXCEPT ![u] = p]
  BY <1>2, WithParticipantFields
<1>4. room.participants \in [Conns -> Participant]
  BY DEF Room
<1> HIDE DEF parts, held, q
<1>5. q.ownerIp = room.ownerIp /\ q.locked = room.locked
  BY <1>1 DEF Room
<1>6. \A v \in Conns : q.participants[v].session = room.participants[v].session
  BY <1>2, <1>3, <1>4
<1>7. Active(q) = Active(room)
  BY <1>2, <1>3, <1>4 DEF Active
<1>8. Active(room) \subseteq Conns
  BY DEF Active
<1>9. OwnerIsTrue(room) => OwnerIsTrue(q)
  BY <1>3, <1>6, <1>7, <1>8 DEF OwnerIsTrue
<1> QED
  BY <1>5, <1>9 DEF KeepsOwner, q

\* Only another one than the owner is removed.
LEMMA RemovalKeepsOwner ==
  ASSUME NEW room \in Room, NEW u \in Conns, room.ownerId # u
  PROVE  KeepsOwner(room, RoomAfterRemoval(room, u))
<1> DEFINE parts == [room.participants EXCEPT ![u] = NoParticipant]
           held  == [room.recoverable EXCEPT ![room.participants[u].session] = NoEntry]
           live  == room.connections \ {u}
           q     == RoomAfterRemoval(room, u)
<1>1. q = [room EXCEPT !.participants = parts, !.recoverable = held, !.connections = live]
  BY DEF RoomAfterRemoval, Room
<1>2. /\ q.ownerSession = room.ownerSession
      /\ q.ownerId = room.ownerId
      /\ q.participants = [room.participants EXCEPT ![u] = NoParticipant]
  BY RemovalFields
<1>3. room.participants \in [Conns -> Participant] /\ NoParticipant.role = "none"
  BY DEF Room, NoParticipant
<1> HIDE DEF parts, held, live, q
<1>4. q.ownerIp = room.ownerIp /\ q.locked = room.locked
  BY <1>1 DEF Room
<1>5. Active(q) = Active(room) \ {u} /\ \A v \in Conns \ {u} : q.participants[v] = room.participants[v]
  BY <1>2, <1>3 DEF Active
<1>6. Active(room) \subseteq Conns
  BY DEF Active
<1>7. OwnerIsTrue(room) => OwnerIsTrue(q)
  BY <1>2, <1>5, <1>6 DEF OwnerIsTrue
<1> QED
  BY <1>4, <1>7 DEF KeepsOwner, q

\* Marks of the voice bridge and of the timers.
LEMMA MarksKeepOwner ==
  ASSUME NEW room, NEW heard, NEW age, room \in Room
  PROVE  KeepsOwner(room, [room EXCEPT !.voice = heard, !.activity = age])
<1> DEFINE q == [room EXCEPT !.voice = heard, !.activity = age]
<1>1. /\ q.ownerIp = room.ownerIp
      /\ q.locked = room.locked
      /\ q.ownerId = room.ownerId
      /\ q.ownerSession = room.ownerSession
      /\ q.participants = room.participants
  BY DEF Room
<1> HIDE DEF q
<1>2. OwnerIsTrue(room) => OwnerIsTrue(q)
  BY <1>1, OwnerFields
<1> QED
  BY <1>1, <1>2 DEF KeepsOwner, q

-------------------------------------------------------------------------------
\* The forms of a step

\* No room has a secret, and no handler hashes or verifies one.
NoLocks ==
  /\ \A r \in OpenRooms : ~rooms[r].locked
  /\ \A c \in Conns : pending[c].kind \notin {"hashing", "verifying"}

\* c creates r.  Where there are no secrets, r has none, c is connected, and the
\* count is the present one.
Creates(c, r, mode, locked, count) ==
  /\ RegisterRoom(c, r, mode, locked, count)
  /\ NoLocks => /\ ~locked
                /\ conn[c].live
                /\ count = roomCountByIp[IpOf[c]]
                /\ count < MaxRoomsPerIp

\* c enters r, asking for session s.  Where there are no secrets, c is connected
\* and r is open.
Enters(c, r, s) ==
  /\ EnterRoom(c, r, s)
  /\ s < nextSession
  /\ r # conn[c].room
  /\ IsOpen(r) \/ (Verifying(c) /\ pending[c].room = r /\ pending[c].session = s)
  /\ NoLocks => conn[c].live /\ IsOpen(r)

\* The open room r becomes q, and the members in gone are thrown out of it.
ChangesRoom(r, q, gone) ==
  /\ IsOpen(r)
  /\ q.status = "open"
  /\ KeepsOwner(rooms[r], q)
  /\ gone \subseteq rooms[r].connections
  /\ q.connections = rooms[r].connections \ gone
  /\ rooms' = [rooms EXCEPT ![r] = q]
  /\ \A x \in Conns : /\ conn'[x].live = conn[x].live
                      /\ conn'[x].room = IF x \in gone THEN NoRoom ELSE conn[x].room
  /\ UNCHANGED roomCountByIp

\* The owner's change of one participant of r, within its session.
LEMMA ParticipantForm ==
  ASSUME IndInv, NEW r, NEW u, NEW p, IsOpen(r), u \in Active(rooms[r]), p \in Participant,
         p.role # "none", p.session = rooms[r].participants[u].session,
         rooms' = [rooms EXCEPT ![r] = WithParticipant(rooms[r], u, p)],
         \A x \in Conns : conn'[x].live = conn[x].live /\ conn'[x].room = conn[x].room,
         UNCHANGED roomCountByIp
  PROVE  ChangesRoom(r, WithParticipant(rooms[r], u, p), {})
<1>1. /\ rooms[r] \in Room
      /\ rooms[r].status = "open"
      /\ Consistent(rooms[r], nextSession)
  BY OpenRoomFacts
<1>2. u \in Conns /\ p.session \in Sessions
  BY <1>1, ActiveSession
<1> DEFINE q == WithParticipant(rooms[r], u, p)
<1>3. KeepsOwner(rooms[r], q)
  BY <1>1, <1>2, WithParticipantKeepsOwner
<1>4. /\ q.status = rooms[r].status
      /\ q.connections = rooms[r].connections
  BY <1>1, <1>2, WithParticipantFields
<1> HIDE DEF q
<1>5. ChangesRoom(r, q, {})
  BY <1>1, <1>3, <1>4 DEF ChangesRoom, q
<1> QED
  BY <1>5 DEF q

\* A mark on the open room r.
LEMMA MarkForm ==
  ASSUME IndInv, NEW r, NEW heard, NEW age, IsOpen(r),
         rooms' = [rooms EXCEPT ![r] = [rooms[r] EXCEPT !.voice = heard, !.activity = age]],
         UNCHANGED <<conn, roomCountByIp>>
  PROVE  ChangesRoom(r, [rooms[r] EXCEPT !.voice = heard, !.activity = age], {})
<1> DEFINE q == [rooms[r] EXCEPT !.voice = heard, !.activity = age]
<1>1. rooms[r] \in Room /\ rooms[r].status = "open"
  BY OpenRoomFacts
<1>2. KeepsOwner(rooms[r], q)
  BY <1>1, MarksKeepOwner
<1>3. q.status = rooms[r].status /\ q.connections = rooms[r].connections
  BY <1>1 DEF Room
<1> HIDE DEF q
<1>4. ChangesRoom(r, q, {})
  BY <1>1, <1>2, <1>3 DEF ChangesRoom, q
<1> QED
  BY <1>4 DEF q

LEMMA ManagingForms ==
  ASSUME IndInv, Managing
  PROVE  \/ \E r, q, gone : ChangesRoom(r, q, gone)
         \/ UNCHANGED <<rooms, conn, roomCountByIp>>
<1>0. conn \in [Conns -> Context]
  BY DEF IndInv, TypeOK
<1>1. ASSUME NEW c \in Conns, NEW u \in Conns, NEW role \in {"collaborator", "viewer"},
             UpdateRole(c, u, role)
      PROVE  \E r, q, gone : ChangesRoom(r, q, gone)
  <2>1. PICK r : r = conn[c].room
    OBVIOUS
  <2> DEFINE p == [rooms[r].participants[u] EXCEPT !.role = role,
                                                   !.direct = role = "collaborator" /\ @]
  <2>2. /\ IsOpen(r)
        /\ u \in Active(rooms[r])
        /\ rooms' = [rooms EXCEPT ![r] = WithParticipant(rooms[r], u, p)]
        /\ conn' = IF u \in rooms[r].connections THEN [conn EXCEPT ![u].role = role] ELSE conn
        /\ roomCountByIp' = roomCountByIp
    BY <1>1, <2>1 DEF UpdateRole, ActsAsOwner, SetRoom, RoomAfterRoleUpdate
  <2>3. rooms[r].participants \in [Conns -> Participant]
    BY <2>2, OpenRoomFacts DEF Room
  <2>4. /\ p \in Participant
        /\ p.role # "none"
        /\ p.session = rooms[r].participants[u].session
    BY <2>3 DEF Participant, Role
  <2>5. \A x \in Conns : conn'[x].live = conn[x].live /\ conn'[x].room = conn[x].room
    BY <1>0, <2>2 DEF Context
  <2> HIDE DEF p
  <2>6. ChangesRoom(r, WithParticipant(rooms[r], u, p), {})
    BY <2>2, <2>4, <2>5, ParticipantForm
  <2> QED
    BY <2>6
<1>2. ASSUME NEW c \in Conns, NEW u \in Conns, NEW direct \in BOOLEAN, SetEditMode(c, u, direct)
      PROVE  \E r, q, gone : ChangesRoom(r, q, gone)
  <2>1. PICK r : r = conn[c].room
    OBVIOUS
  <2> DEFINE p == [rooms[r].participants[u] EXCEPT !.direct = direct]
  <2>2. /\ IsOpen(r)
        /\ rooms[r].participants[u].role = "collaborator"
        /\ rooms' = [rooms EXCEPT ![r] = WithParticipant(rooms[r], u, p)]
        /\ conn' = conn
        /\ roomCountByIp' = roomCountByIp
    BY <1>2, <2>1 DEF SetEditMode, SetRoom, RoomAfterEditMode
  <2>3. rooms[r].participants \in [Conns -> Participant]
    BY <2>2, OpenRoomFacts DEF Room
  <2>4. /\ p \in Participant
        /\ p.role # "none"
        /\ p.session = rooms[r].participants[u].session
        /\ u \in Active(rooms[r])
    BY <2>2, <2>3 DEF Participant, Active
  <2> HIDE DEF p
  <2>5. ChangesRoom(r, WithParticipant(rooms[r], u, p), {})
    BY <2>2, <2>4, ParticipantForm
  <2> QED
    BY <2>5
<1>3. ASSUME NEW c \in Conns, NEW u \in Conns, RemoveParticipant(c, u)
      PROVE  \E r, q, gone : ChangesRoom(r, q, gone)
  <2>1. PICK r : r = conn[c].room
    OBVIOUS
  <2> DEFINE q == RoomAfterRemoval(rooms[r], u)
  <2>2. /\ IsOpen(r)
        /\ rooms[r].ownerId # u
        /\ u \in Active(rooms[r])
        /\ rooms' = [rooms EXCEPT ![r] = q]
        /\ conn' = IF u \in rooms[r].connections THEN [conn EXCEPT ![u] = Detached(@)] ELSE conn
        /\ roomCountByIp' = roomCountByIp
    BY <1>3, <2>1 DEF RemoveParticipant, ActsAsOwner, SetRoom
  <2>3. /\ rooms[r] \in Room
        /\ rooms[r].status = "open"
        /\ rooms[r].connections = Active(rooms[r])
    BY <2>2, OpenRoomFacts
  <2>4. KeepsOwner(rooms[r], q)
    BY <2>2, <2>3, RemovalKeepsOwner
  <2>5. q.status = "open" /\ q.connections = rooms[r].connections \ {u}
    BY <2>3, RemovalFields
  <2>6. conn' = [conn EXCEPT ![u] = Detached(conn[u])]
    BY <2>2, <2>3
  <2>7. Detached(conn[u]).room = NoRoom /\ Detached(conn[u]).live = conn[u].live
    BY <1>0 DEF Detached, Context
  <2>8. \A x \in Conns : /\ conn'[x].live = conn[x].live
                         /\ conn'[x].room = IF x \in {u} THEN NoRoom ELSE conn[x].room
    BY <1>0, <2>6, <2>7
  <2> HIDE DEF q
  <2>9. ChangesRoom(r, q, {u})
    BY <2>2, <2>3, <2>4, <2>5, <2>8 DEF ChangesRoom
  <2> QED
    BY <2>9
<1>4. ASSUME NEW c \in Conns, NEW i \in Invites, CreateToken(c, i)
      PROVE  UNCHANGED <<rooms, conn, roomCountByIp>>
  BY <1>4 DEF CreateToken
<1> QED
  BY <1>1, <1>2, <1>3, <1>4 DEF Managing

LEMMA CreatingForms ==
  ASSUME IndInv, Creating
  PROVE  \/ \E c \in Conns, r \in RoomIds, mode \in Modes, locked \in BOOLEAN, count \in Nat :
              Creates(c, r, mode, locked, count)
         \/ UNCHANGED <<rooms, conn, roomCountByIp>>
<1>1. /\ \A c \in Conns : roomCountByIp[IpOf[c]] \in Nat
      /\ \A c \in Conns : pending[c].mode \in Modes /\ pending[c].count \in Nat
  BY ServerConstants DEF IndInv, TypeOK, Pending
<1>2. ASSUME NEW c \in Conns, NEW m \in Modes, BeginProtectedCreate(c, m)
      PROVE  UNCHANGED <<rooms, conn, roomCountByIp>>
  BY <1>2 DEF BeginProtectedCreate
<1>3. ASSUME NEW c \in Conns, NEW r \in RoomIds, NEW m \in Modes, CreateRoom(c, r, m)
      PROVE  Creates(c, r, m, FALSE, roomCountByIp[IpOf[c]])
  <2>1. /\ RegisterRoom(c, r, m, FALSE, roomCountByIp[IpOf[c]])
        /\ conn[c].live
        /\ roomCountByIp[IpOf[c]] < MaxRoomsPerIp
    BY <1>3 DEF CreateRoom, NotBusy, WithinRoomLimits
  <2> QED
    BY <2>1 DEF Creates
<1>4. ASSUME NEW c \in Conns, NEW r \in RoomIds, CompleteProtectedCreate(c, r)
      PROVE  Creates(c, r, pending[c].mode, TRUE, pending[c].count)
  <2>1. /\ pending[c].kind = "hashing"
        /\ RegisterRoom(c, r, pending[c].mode, TRUE, pending[c].count)
    BY <1>4 DEF CompleteProtectedCreate
  <2> QED
    BY <2>1 DEF Creates, NoLocks
<1>5. CASE \E c \in Conns : \E m \in Modes : BeginProtectedCreate(c, m)
  BY <1>2, <1>5
<1>6. CASE \E c \in Conns : \E r \in RoomIds, m \in Modes : CreateRoom(c, r, m)
  <2>1. PICK c \in Conns, r \in RoomIds, m \in Modes : CreateRoom(c, r, m)
    BY <1>6
  <2>2. PICK count \in Nat : count = roomCountByIp[IpOf[c]]
    BY <1>1
  <2>3. Creates(c, r, m, FALSE, count)
    BY <1>3, <2>1, <2>2
  <2> QED
    BY <2>3
<1>7. CASE \E c \in Conns : \E r \in RoomIds : CompleteProtectedCreate(c, r)
  <2>1. PICK c \in Conns, r \in RoomIds : CompleteProtectedCreate(c, r)
    BY <1>7
  <2>2. PICK m \in Modes, count \in Nat : m = pending[c].mode /\ count = pending[c].count
    BY <1>1
  <2>3. Creates(c, r, m, TRUE, count)
    BY <1>4, <2>1, <2>2
  <2> QED
    BY <2>3
<1> QED
  BY <1>5, <1>6, <1>7 DEF Creating

LEMMA JoiningForms ==
  ASSUME IndInv, Joining
  PROVE  \/ \E c \in Conns, r \in RoomIds, s \in 0 .. MaxSession : Enters(c, r, s)
         \/ UNCHANGED <<rooms, conn, roomCountByIp>>
<1>1. PICK c \in Conns, r \in RoomIds, s \in 0 .. MaxSession :
        \/ JoinRoom(c, r, s)
        \/ BeginProtectedJoin(c, r, s)
        \/ DenyJoin(c, r, s)
        \/ \E i \in Invites : JoinRoomByInvite(c, r, s, i)
  BY DEF Joining
<1>2. \/ UNCHANGED <<rooms, conn, roomCountByIp>>
      \/ RequestsJoin(c, r, s) /\ IsOpen(r) /\ EnterRoom(c, r, s)
  BY <1>1 DEF JoinRoom, BeginProtectedJoin, DenyJoin, JoinRoomByInvite
<1>3. CASE RequestsJoin(c, r, s) /\ IsOpen(r) /\ EnterRoom(c, r, s)
  <2>1. conn[c].live /\ s < nextSession /\ r # conn[c].room
    BY <1>3 DEF RequestsJoin, NotBusy
  <2>2. Enters(c, r, s)
    BY <1>3, <2>1 DEF Enters
  <2> QED
    BY <2>2
<1> QED
  BY <1>2, <1>3

LEMMA CompleteProtectedJoinForm ==
  ASSUME IndInv, NEW c \in Conns, CompleteProtectedJoin(c)
  PROVE  \E r \in RoomIds, s \in 0 .. MaxSession : Enters(c, r, s)
<1>1. Verifying(c) /\ EnterRoom(c, pending[c].room, pending[c].session)
  BY DEF CompleteProtectedJoin, Verifying
<1>2. /\ pending[c].room \in RoomIds
      /\ pending[c].room # conn[c].room
      /\ pending[c].session < nextSession
  BY <1>1 DEF IndInv, JoinsUnderWay
<1>3. pending[c].session \in 0 .. MaxSession
  BY DEF IndInv, TypeOK, Pending
<1>4. PICK r \in RoomIds, s \in 0 .. MaxSession : r = pending[c].room /\ s = pending[c].session
  BY <1>2, <1>3
<1>5. ~NoLocks
  BY <1>1 DEF NoLocks, Verifying
<1>6. Enters(c, r, s)
  BY <1>1, <1>2, <1>4, <1>5 DEF Enters
<1> QED
  BY <1>6

\* What a step of the server is, as far as rooms, contexts and counts go.
LEMMA StepForms ==
  ASSUME IndInv, [Next]_vars
  PROVE  \/ \E c \in Conns, r \in RoomIds, mode \in Modes, locked \in BOOLEAN, count \in Nat :
              Creates(c, r, mode, locked, count)
         \/ \E c \in Conns, r \in RoomIds, s \in 0 .. MaxSession : Enters(c, r, s)
         \/ \E c \in Conns : \E live, reason : Cleanup(c, live, reason)
         \/ \E r, q, gone : ChangesRoom(r, q, gone)
         \/ \E t \in Tabs : VoiceClose(t)
         \/ CleanupTick
         \/ UNCHANGED <<rooms, conn, roomCountByIp>>
<1>1. ASSUME NEW c \in Conns, LeaveRoom(c) \/ Disconnect(c)
      PROVE  \E live, reason : Cleanup(c, live, reason)
  <2>1. Cleanup(c, TRUE, "leave") \/ Cleanup(c, FALSE, "disconnect")
    BY <1>1 DEF LeaveRoom, Disconnect
  <2> QED
    BY <2>1
<1>2. ASSUME NEW c \in Conns, AnswerDeniedJoin(c)
      PROVE  UNCHANGED <<rooms, conn, roomCountByIp>>
  BY <1>2 DEF AnswerDeniedJoin
<1>3. ASSUME NEW i \in Invites, ExpireToken(i)
      PROVE  UNCHANGED <<rooms, conn, roomCountByIp>>
  BY <1>3 DEF ExpireToken
<1>4. ASSUME NEW t \in Tabs, NEW u \in Conns, NEW r \in RoomIds, VoiceJoin(t, u, r)
      PROVE  \E k, q, gone : ChangesRoom(k, q, gone)
  <2> DEFINE heard == [rooms[r].voice EXCEPT ![u] = t]
             age   == rooms[r].activity
  <2>1. IsOpen(r) /\ UNCHANGED <<conn, roomCountByIp>>
    BY <1>4 DEF VoiceJoin
  <2>2. rooms[r] \in Room
    BY <2>1, OpenRoomFacts
  <2>3. [rooms[r] EXCEPT !.voice[u] = t] = [rooms[r] EXCEPT !.voice = heard, !.activity = age]
    BY <2>2 DEF Room
  <2>4. rooms' = [rooms EXCEPT ![r] = [rooms[r] EXCEPT !.voice = heard, !.activity = age]]
    BY <1>4, <2>3 DEF VoiceJoin, SetRoom
  <2> HIDE DEF heard, age
  <2>5. ChangesRoom(r, [rooms[r] EXCEPT !.voice = heard, !.activity = age], {})
    BY <2>1, <2>4, MarkForm
  <2> QED
    BY <2>5
<1>5. ASSUME NEW r \in RoomIds, IdleTimePasses(r)
      PROVE  \E k, q, gone : ChangesRoom(k, q, gone)
  <2> DEFINE heard == rooms[r].voice
  <2>1. IsOpen(r) /\ UNCHANGED <<conn, roomCountByIp>>
    BY <1>5 DEF IdleTimePasses
  <2>2. rooms[r] \in Room
    BY <2>1, OpenRoomFacts
  <2>3. [rooms[r] EXCEPT !.activity = "stale"]
          = [rooms[r] EXCEPT !.voice = heard, !.activity = "stale"]
    BY <2>2 DEF Room
  <2>4. rooms' = [rooms EXCEPT ![r] = [rooms[r] EXCEPT !.voice = heard, !.activity = "stale"]]
    BY <1>5, <2>3 DEF IdleTimePasses, SetRoom
  <2> HIDE DEF heard
  <2>5. ChangesRoom(r, [rooms[r] EXCEPT !.voice = heard, !.activity = "stale"], {})
    BY <2>1, <2>4, MarkForm
  <2> QED
    BY <2>5
<1>6. CASE UNCHANGED vars
  BY <1>6 DEF vars
<1>7. CASE Creating
  BY <1>7, CreatingForms
<1>8. CASE Joining
  BY <1>8, JoiningForms
<1>9. CASE Managing
  BY <1>9, ManagingForms
<1>10. ASSUME NEW c \in Conns, CompleteProtectedJoin(c)
       PROVE  \E r \in RoomIds, s \in 0 .. MaxSession : Enters(c, r, s)
  BY <1>10, CompleteProtectedJoinForm
<1> QED
  BY <1>1, <1>2, <1>3, <1>4, <1>5, <1>6, <1>7, <1>8, <1>9, <1>10 DEF Next

-------------------------------------------------------------------------------
\* What a step does to one room

\* Every connection comes from the same address.
SameAddress == \A c, d \in Conns : IpOf[c] = IpOf[d]

\* The room was created from the address of every connection, and its owner
\* is whom it names.
OwnerAtHome(room) ==
  /\ \A c \in Conns : room.ownerIp = IpOf[c]
  /\ OwnerIsTrue(room)

\* A room that is open after a cleanup was open before, and kept its owner.
LEMMA CleanedKeepsOwner ==
  ASSUME IndInv, NEW k, NEW u, NEW reason, NEW r, NEW q, u \in Conns, r \in RoomIds,
         q = Cleaned(rooms, k, u, reason)[r]
  PROVE  /\ q.ownerIp = rooms[r].ownerIp
         /\ q.status = "open" => IsOpen(r) /\ KeepsOwner(rooms[r], q)
<1>1. rooms \in [RoomIds -> Room] /\ rooms[r] \in Room
  BY DEF IndInv, TypeOK
<1>2. CASE r # k \/ ~IsOpen(k)
  <2>1. q = rooms[r]
    BY <1>1, <1>2, CleanedOthers, CleanedItself
  <2> QED
    BY <2>1 DEF KeepsOwner, IsOpen
<1>3. CASE r = k /\ IsOpen(k)
  <2>1. q = RoomAfterCleanup(rooms[r], u, reason)
    BY <1>1, <1>3, CleanedItself
  <2>2. q.ownerIp = rooms[r].ownerIp
    BY <1>1, <2>1, CleanupMarks
  <2>3. q.status = "open" => ~ClosesRoom(rooms[r], u, reason)
    <3>1. q.status = "open" /\ r = k => ~Closes(k, u, reason)
      BY CleanedOpen
    <3> QED
      BY <1>3, <3>1 DEF Closes
  <2>4. q.status = "open" => KeepsOwner(rooms[r], q)
    BY <1>1, <2>1, <2>3, CleanupKeepsOwner
  <2> QED
    BY <1>3, <2>2, <2>4
<1> QED
  BY <1>2, <1>3

\* An open room after a step was open before, with the same address and secret
\* and, if everybody comes from there, still a true owner; or it is new.
LEMMA RoomForms ==
  ASSUME IndInv, [Next]_vars, NEW r \in OpenRooms'
  PROVE  \/ /\ r \in OpenRooms
            /\ rooms'[r].ownerIp = rooms[r].ownerIp
            /\ rooms'[r].locked = rooms[r].locked
            /\ OwnerAtHome(rooms[r]) => OwnerIsTrue(rooms'[r])
         \/ /\ \E c \in Conns : rooms'[r].ownerIp = IpOf[c]
            /\ OwnerIsTrue(rooms'[r])
            /\ \E c \in Conns, mode \in Modes, locked \in BOOLEAN, count \in Nat :
                 Creates(c, r, mode, locked, count) /\ rooms'[r].locked = locked
<1>1. /\ rooms \in [RoomIds -> Room]
      /\ r \in RoomIds
      /\ rooms[r] \in Room
      /\ rooms'[r].status = "open"
      /\ nextSession \in 1 .. MaxSession + 1
  BY DEF IndInv, TypeOK, OpenRooms
<1> DEFINE Kept == /\ r \in OpenRooms
                   /\ rooms'[r].ownerIp = rooms[r].ownerIp
                   /\ rooms'[r].locked = rooms[r].locked
                   /\ OwnerAtHome(rooms[r]) => OwnerIsTrue(rooms'[r])
           New  == /\ \E c \in Conns : rooms'[r].ownerIp = IpOf[c]
                   /\ OwnerIsTrue(rooms'[r])
                   /\ \E c \in Conns, mode \in Modes, locked \in BOOLEAN, count \in Nat :
                        Creates(c, r, mode, locked, count) /\ rooms'[r].locked = locked
<1>2. ASSUME IsOpen(r), KeepsOwner(rooms[r], rooms'[r])
      PROVE  Kept
  BY <1>1, <1>2 DEF IsOpen, OpenRooms, KeepsOwner, OwnerAtHome
<1>3. ASSUME rooms'[r] = rooms[r]
      PROVE  Kept
  BY <1>1, <1>3 DEF OpenRooms, OwnerAtHome
<1>4. ASSUME NEW k, NEW u \in Conns, NEW reason, rooms'[r] = Cleaned(rooms, k, u, reason)[r]
      PROVE  Kept
  BY <1>1, <1>2, <1>4, CleanedKeepsOwner
<1>5. ASSUME NEW c \in Conns, NEW o \in RoomIds, NEW mode \in Modes, NEW locked \in BOOLEAN,
             NEW count \in Nat, Creates(c, o, mode, locked, count)
      PROVE  Kept \/ New
  <2> DEFINE k  == conn[c].room
             rs == Cleaned(rooms, k, c, "switch")
             q  == CreatedRoom(c, IpOf[c], mode, locked, nextSession)
  <2>1. rooms' = [rs EXCEPT ![o] = q]
    BY <1>5 DEF Creates, RegisterRoom
  <2>2. rs \in [RoomIds -> Room]
    BY <1>1, CleanedType
  <2>3. q.ownerIp = IpOf[c] /\ q.locked = locked /\ OwnerIsTrue(q)
    BY CreatedOwner
  <2>4. CASE r = o
    <3> HIDE DEF rs, q
    <3>1. rooms'[r] = q
      BY <2>1, <2>2, <2>4
    <3> QED
      BY <1>5, <2>3, <2>4, <3>1
  <2>5. CASE r # o
    <3> HIDE DEF q
    <3>1. rooms'[r] = Cleaned(rooms, k, c, "switch")[r]
      BY <2>1, <2>2, <2>5
    <3> QED
      BY <1>4, <3>1
  <2> QED
    BY <2>4, <2>5
<1>6. ASSUME NEW c \in Conns, NEW o \in RoomIds, NEW s \in 0 .. MaxSession, Enters(c, o, s)
      PROVE  Kept
  <2> DEFINE k   == conn[c].room
             rs  == Cleaned(rooms, k, c, "switch")
             p   == ResolvedParticipant(rooms[o], s, IpOf[c], nextSession)
             out == Displaced(rooms[o], s)
             q   == JoinedRoom(rooms[o], c, p, out)
  <2>1. rooms' = [rs EXCEPT ![o] = JoinedRoom(@, c, p, out)]
    BY <1>6 DEF Enters, EnterRoom
  <2>2. o # k /\ s < nextSession /\ (NeedsFresh(rooms[o], s, IpOf[c]) => nextSession \in Sessions)
    BY <1>6 DEF Enters, EnterRoom
  <2>3. rs \in [RoomIds -> Room] /\ rs[o] = rooms[o]
    BY <1>1, <2>2, CleanedType, CleanedOthers
  <2>4. CASE r = o
    <3>1. IpOf[c] \in Ips
      BY ServerConstants
    <3>2. p \in Participant /\ out \in SUBSET Conns
      BY <1>1, <2>2, <2>4, <3>1, ResolvedType DEF Displaced
    <3>3. q.status = rooms[r].status /\ q.ownerIp = rooms[r].ownerIp /\ q.locked = rooms[r].locked
      <4> HIDE DEF p, out
      <4>1. /\ q \in Room
            /\ q.status = rooms[o].status
            /\ q.participants = [u \in Conns |-> IF u = c THEN p
                                                 ELSE IF u \in out THEN NoParticipant
                                                 ELSE rooms[o].participants[u]]
            /\ q.connections = (rooms[o].connections \ out) \cup {c}
        BY <1>1, <2>4, <3>2, JoinedRoomMembers
      <4>2. q.ownerIp = rooms[o].ownerIp /\ q.locked = rooms[o].locked
        BY <1>1, <2>4, JoinedMarks
      <4> QED
        BY <2>4, <4>1, <4>2
    <3>4. rooms'[r] = q
      <4> HIDE DEF rs, p, out
      <4> QED
        BY <2>1, <2>3, <2>4
    <3>5. IsOpen(r)
      BY <1>1, <3>3, <3>4 DEF IsOpen
    <3>6. Consistent(rooms[r], nextSession)
      BY <3>5, OpenRoomFacts
    <3>7. c \notin Active(rooms[r])
      BY <2>2, <2>4, <3>5, OpenRoomFacts
    <3>8. OwnerAtHome(rooms[r]) => OwnerIsTrue(q)
      <4> SUFFICES ASSUME OwnerAtHome(rooms[r])
                   PROVE  OwnerIsTrue(q)
        OBVIOUS
      <4>1. IpOf[c] = rooms[r].ownerIp /\ OwnerIsTrue(rooms[r])
        BY DEF OwnerAtHome
      <4> QED
        BY <1>1, <2>2, <2>4, <3>1, <3>6, <3>7, <4>1, JoinKeepsOwner
    <3>9. r \in OpenRooms
      BY <3>5, OpenRoomFacts
    <3> HIDE DEF q
    <3> QED
      BY <3>3, <3>4, <3>8, <3>9
  <2>5. CASE r # o
    <3> HIDE DEF p, out
    <3>1. rooms'[r] = Cleaned(rooms, k, c, "switch")[r]
      BY <2>1, <2>3, <2>5
    <3> QED
      BY <1>4, <3>1
  <2> QED
    BY <2>4, <2>5
<1>7. ASSUME NEW c \in Conns, NEW live, NEW reason, Cleanup(c, live, reason)
      PROVE  Kept
  <2>1. rooms'[r] = Cleaned(rooms, conn[c].room, c, reason)[r]
    BY <1>7 DEF Cleanup
  <2> HIDE DEF Kept
  <2> QED
    BY <1>4, <2>1
<1>8. ASSUME NEW k, NEW q, NEW gone, ChangesRoom(k, q, gone)
      PROVE  Kept
  <2>1. IsOpen(k) /\ KeepsOwner(rooms[k], q) /\ rooms' = [rooms EXCEPT ![k] = q]
    BY <1>8 DEF ChangesRoom
  <2>2. CASE r = k
    <3>1. rooms'[r] = q
      BY <1>1, <2>1, <2>2
    <3> QED
      BY <1>2, <2>1, <2>2, <3>1
  <2>3. CASE r # k
    <3>1. rooms'[r] = rooms[r]
      BY <1>1, <2>1, <2>3
    <3> QED
      BY <1>3, <3>1
  <2> QED
    BY <2>2, <2>3
<1>9. ASSUME NEW t \in Tabs, VoiceClose(t)
      PROVE  Kept
  <2>1. PICK k, u : k = tab[t].room /\ u = tab[t].user
    OBVIOUS
  <2>2. u \in Conns /\ rooms' = Cleaned(rooms, k, u, "disconnect")
    BY <1>9, <2>1 DEF VoiceClose, IndInv, TypeOK, TabContext
  <2> HIDE DEF Kept
  <2> QED
    BY <1>4, <2>2
<1>10. ASSUME CleanupTick
       PROVE  Kept
  <2> DEFINE gone == [rooms[r] EXCEPT !.status = "closed", !.activity = "unset"]
             heard == rooms[r].voice
             used == [rooms[r] EXCEPT !.voice = heard, !.activity = "recent"]
  <2>1. used = [rooms[r] EXCEPT !.activity = "recent"]
    BY <1>1 DEF Room
  <2>2. rooms'[r] \in {gone, used, rooms[r]}
    <3> HIDE DEF used
    <3> QED
      BY <1>1, <1>10, <2>1 DEF CleanupTick
  <2>3. gone.status = "closed"
    BY <1>1, ZenonT(60) DEF Room
  <2>4. used.status = rooms[r].status
    BY <1>1, ZenonT(60) DEF Room
  <2> HIDE DEF heard
  <2>5. KeepsOwner(rooms[r], used)
    BY <1>1, MarksKeepOwner
  <2> HIDE DEF gone, used, Kept
  <2>6. CASE rooms'[r] = used
    <3>1. IsOpen(r)
      BY <1>1, <2>4, <2>6 DEF IsOpen
    <3> QED
      BY <1>2, <2>5, <2>6, <3>1
  <2>7. rooms'[r] # gone
    BY <1>1, <2>3
  <2> QED
    BY <1>3, <2>2, <2>6, <2>7
<1> HIDE DEF Kept, New
<1>11. ASSUME UNCHANGED <<rooms, conn, roomCountByIp>>
       PROVE  Kept
  <2>1. rooms'[r] = rooms[r]
    BY <1>11
  <2> QED
    BY <1>3, <2>1
<1>12. Kept \/ New
  BY <1>5, <1>6, <1>7, <1>8, <1>9, <1>10, <1>11, StepForms
<1> QED
  BY <1>12 DEF Kept, New

-------------------------------------------------------------------------------
\* The owner, as long as everybody is on one address

LEMMA OwnerStep ==
  ASSUME SameAddress, IndInv, [Next]_vars, \A r \in OpenRooms : OwnerAtHome(rooms[r])
  PROVE  \A r \in OpenRooms' : OwnerAtHome(rooms'[r])
<1> SUFFICES ASSUME NEW r \in OpenRooms'
             PROVE  OwnerAtHome(rooms'[r])
  OBVIOUS
<1>1. CASE /\ r \in OpenRooms
           /\ rooms'[r].ownerIp = rooms[r].ownerIp
           /\ OwnerAtHome(rooms[r]) => OwnerIsTrue(rooms'[r])
  BY <1>1 DEF OwnerAtHome
<1>2. CASE (\E c \in Conns : rooms'[r].ownerIp = IpOf[c]) /\ OwnerIsTrue(rooms'[r])
  BY <1>2 DEF OwnerAtHome, SameAddress
<1> QED
  BY <1>1, <1>2, RoomForms

\* Of every open room, with everybody on one address.
LEMMA OwnersAtHome ==
  ASSUME SameAddress
  PROVE  Spec => [](\A r \in OpenRooms : OwnerAtHome(rooms[r]))
<1> DEFINE P == \A r \in OpenRooms : OwnerAtHome(rooms[r])
<1>1. Init => P
  BY DEF Init, OpenRooms, UnusedRoom
<1>2. P /\ IndInv /\ [Next]_vars => P'
  BY OwnerStep DEF OpenRooms
<1> QED
  BY <1>1, <1>2, RoomsAreConsistent, PTL DEF Spec

\* With everybody on one address, ownerId names an active participant or says
\* that the owner is away, through every takeover, reconnect and voice tab.
THEOREM OwnerStaysKnown ==
  ASSUME \A c, d \in Conns : IpOf[c] = IpOf[d]
  PROVE  Spec => []OwnerIsActiveOrAway
<1>1. SameAddress
  BY DEF SameAddress
<1>2. (\A r \in OpenRooms : OwnerAtHome(rooms[r])) => OwnerIsActiveOrAway
  BY DEF OwnerAtHome, OwnerIsTrue, OwnerIsActiveOrAway
<1> QED
  BY <1>1, <1>2, OwnersAtHome, PTL

\* With everybody on one address, the active owner holds the owner session.
THEOREM OwnerKeepsItsSession ==
  ASSUME \A c, d \in Conns : IpOf[c] = IpOf[d]
  PROVE  Spec => []OwnerHoldsOwnerSession
<1>1. SameAddress
  BY DEF SameAddress
<1>2. (\A r \in OpenRooms : OwnerAtHome(rooms[r])) => OwnerHoldsOwnerSession
  BY DEF OwnerAtHome, OwnerIsTrue, OwnerHoldsOwnerSession
<1> QED
  BY <1>1, <1>2, OwnersAtHome, PTL

-------------------------------------------------------------------------------
\* Who moves where in a step

\* No context names a room that was never created, and no join is under way
\* into one.
RoomsWereCreated ==
  /\ \A c \in Conns : conn[c].room \in RoomIds => rooms[conn[c].room].status # "unused"
  /\ \A c \in Conns : Verifying(c) => rooms[pending[c].room].status # "unused"

\* A cleanup changes no status but that of the room it closes, and takes
\* nobody but u out of a room that stays open.
LEMMA CleanedStatus ==
  ASSUME IndInv, NEW k, NEW u, NEW reason, NEW r, NEW q, u \in Conns, r \in RoomIds,
         q = Cleaned(rooms, k, u, reason)[r]
  PROVE  /\ r = k /\ Closes(k, u, reason) => q.status = "closed"
         /\ ~(r = k /\ Closes(k, u, reason)) => q.status = rooms[r].status
         /\ q.status = "open" =>
              q.connections = rooms[r].connections \ (IF r = k THEN {u} ELSE {})
<1>1. /\ rooms \in [RoomIds -> Room]
      /\ nextSession \in Nat
      /\ IsOpen(r) => Consistent(rooms[r], nextSession)
  BY RoomConstants DEF IndInv, TypeOK, OpenRooms, IsOpen
<1>2. CASE r # k
  <2>1. q = rooms[r]
    BY <1>1, <1>2, CleanedOthers
  <2> QED
    BY <1>2, <2>1
<1>3. CASE r = k /\ ~IsOpen(k)
  <2>1. q = rooms[r]
    BY <1>1, <1>3, CleanedItself
  <2>2. q.status # "open" /\ ~Closes(k, u, reason)
    BY <1>3, <2>1 DEF IsOpen, Closes
  <2> QED
    BY <2>1, <2>2
<1>4. CASE r = k /\ IsOpen(k)
  <2>1. q = RoomAfterCleanup(rooms[k], u, reason)
    BY <1>1, <1>4, CleanedItself
  <2>2. rooms[k] \in Room /\ rooms[k].status = "open" /\ Consistent(rooms[k], nextSession)
    BY <1>1, <1>4 DEF IsOpen
  <2>3. \/ ClosesRoom(rooms[k], u, reason) /\ q.status = "closed"
        \/ /\ ~ClosesRoom(rooms[k], u, reason)
           /\ q.status = "open"
           /\ q.connections = rooms[k].connections \ {u}
    BY <1>1, <2>1, <2>2, CleanupConsistent
  <2> QED
    BY <1>4, <2>2, <2>3 DEF Closes
<1> QED
  BY <1>2, <1>3, <1>4

\* The context of c leaves the room it names, for the given reason, and names
\* here instead; the members in gone are thrown out of here.
Moves(c, reason, here, gone) ==
  /\ here \in RoomIds =>
       /\ here # conn[c].room
       /\ IsOpen(here) => rooms'[here].status = "open"
       /\ ~IsOpen(here) /\ rooms'[here].status = "open" => rooms[here].status = "unused"
       /\ rooms'[here].status # "unused"
       /\ NoLocks => conn'[c].live /\ rooms'[here].status = "open"
       /\ rooms'[here].status = "open" =>
            /\ c \in rooms'[here].connections
            /\ \A x \in Conns \ {c} :
                 x \in rooms'[here].connections
                   <=> IsOpen(here) /\ x \in rooms[here].connections \ gone
  /\ \A x \in gone : IsOpen(here) /\ x \in rooms[here].connections
  /\ \A q \in RoomIds \ {here} : rooms'[q] = Cleaned(rooms, conn[c].room, c, reason)[q]
  /\ conn'[c].room = here
  /\ \A x \in Conns \ {c} :
       /\ conn'[x].live = conn[x].live
       /\ conn'[x].room = IF x \in Evicted(conn[c].room, c, reason) \cup gone
                          THEN NoRoom ELSE conn[x].room

LEMMA CreatesMoves ==
  ASSUME IndInv, RoomsWereCreated, NEW c \in Conns, NEW r \in RoomIds, NEW mode \in Modes,
         NEW locked \in BOOLEAN, NEW count \in Nat, Creates(c, r, mode, locked, count)
  PROVE  Moves(c, "switch", r, {})
<1> DEFINE k    == conn[c].room
           rs   == Cleaned(rooms, k, c, "switch")
           room == CreatedRoom(c, IpOf[c], mode, locked, nextSession)
           here == [conn[c] EXCEPT !.room = r, !.role = "root"]
           out  == Evicted(k, c, "switch")
<1>1. rooms[r].status = "unused"
  BY DEF Creates, RegisterRoom
<1>2. rooms' = [rs EXCEPT ![r] = room]
  BY DEF Creates, RegisterRoom
<1>3. conn' = [x \in Conns |-> IF x = c THEN here
                               ELSE IF x \in out THEN Detached(conn[x])
                               ELSE conn[x]]
  BY DEF Creates, RegisterRoom
<1>4. conn \in [Conns -> Context] /\ rooms \in [RoomIds -> Room]
  BY DEF IndInv, TypeOK
<1>5. \A x \in Conns : Detached(conn[x]).room = NoRoom /\ Detached(conn[x]).live = conn[x].live
  BY <1>4 DEF Detached, Context
<1>6. here.room = r /\ here.live = conn[c].live
  BY <1>4 DEF Context
<1>7. room.status = "open" /\ room.connections = {c}
  BY CreatedOwner
<1>8. rs \in [RoomIds -> Room]
  BY <1>4, CleanedType
<1>9. ~IsOpen(r) /\ r # k
  BY <1>1 DEF IsOpen, RoomsWereCreated
<1>10. NoLocks => conn[c].live
  BY DEF Creates
<1> HIDE DEF rs, room, here, out
<1>11. rooms'[r] = room /\ \A q \in RoomIds \ {r} : rooms'[q] = rs[q]
  BY <1>2, <1>8
<1>12. /\ conn'[c].room = r
       /\ conn'[c].live = conn[c].live
       /\ \A x \in Conns \ {c} : /\ conn'[x].live = conn[x].live
                                 /\ conn'[x].room = IF x \in out \cup {} THEN NoRoom ELSE conn[x].room
  BY <1>3, <1>5, <1>6
<1> QED
  BY <1>1, <1>7, <1>9, <1>10, <1>11, <1>12 DEF Moves, rs, out

LEMMA EntersMoves ==
  ASSUME IndInv, RoomsWereCreated, NEW c \in Conns, NEW r \in RoomIds, NEW s \in 0 .. MaxSession,
         Enters(c, r, s)
  PROVE  Moves(c, "switch", r, Displaced(rooms[r], s) \cap rooms[r].connections)
<1> DEFINE k    == conn[c].room
           rs   == Cleaned(rooms, k, c, "switch")
           p    == ResolvedParticipant(rooms[r], s, IpOf[c], nextSession)
           out  == Displaced(rooms[r], s)
           gone == out \cap rooms[r].connections
           room == JoinedRoom(rooms[r], c, p, out)
           here == [conn[c] EXCEPT !.room = r, !.role = p.role]
           left == Evicted(k, c, "switch")
<1>1. /\ s < nextSession
      /\ r # k
      /\ NeedsFresh(rooms[r], s, IpOf[c]) => nextSession \in Sessions
      /\ NoLocks => conn[c].live /\ IsOpen(r)
  BY DEF Enters, EnterRoom
<1>2. rooms' = [rs EXCEPT ![r] = JoinedRoom(@, c, p, out)]
  BY DEF Enters, EnterRoom
<1>3. conn' = [x \in Conns |-> IF x = c THEN here
                               ELSE IF x \in left \cup gone THEN Detached(conn[x])
                               ELSE conn[x]]
  BY DEF Enters, EnterRoom
<1>4. /\ conn \in [Conns -> Context] /\ rooms \in [RoomIds -> Room]
      /\ rooms[r] \in Room
      /\ nextSession \in 1 .. MaxSession + 1
      /\ IpOf[c] \in Ips
  BY ServerConstants DEF IndInv, TypeOK
<1>5. \A x \in Conns : Detached(conn[x]).room = NoRoom /\ Detached(conn[x]).live = conn[x].live
  BY <1>4 DEF Detached, Context
<1>6. here.room = r /\ here.live = conn[c].live
  <2> HIDE DEF p
  <2> QED
    BY <1>4 DEF Context
<1>7. p \in Participant /\ out \in SUBSET Conns
  BY <1>1, <1>4, ResolvedType DEF Displaced
<1>8. rs \in [RoomIds -> Room] /\ rs[r] = rooms[r]
  BY <1>1, <1>4, CleanedType, CleanedOthers
<1>9. rooms[r].status # "unused" /\ (IsOpen(r) <=> rooms[r].status = "open")
  BY DEF Enters, RoomsWereCreated, IsOpen
<1>10. \A x \in gone : IsOpen(r) /\ x \in rooms[r].connections
  <2> SUFFICES ASSUME NEW x \in gone
               PROVE  IsOpen(r)
    OBVIOUS
  <2>1. ~IsOpen(r) => Displaced(rooms[r], s) = {}
    BY DEF Enters, IndInv, JoinsUnderWay
  <2> QED
    BY <2>1
<1> HIDE DEF rs, p, out, here, left
<1>11. /\ room \in Room
       /\ room.status = rooms[r].status
       /\ room.participants = [u \in Conns |-> IF u = c THEN p
                                               ELSE IF u \in out THEN NoParticipant
                                               ELSE rooms[r].participants[u]]
       /\ room.connections = (rooms[r].connections \ out) \cup {c}
  BY <1>4, <1>7, JoinedRoomMembers
<1> HIDE DEF gone, room
<1>12. rooms'[r] = room /\ \A q \in RoomIds \ {r} : rooms'[q] = rs[q]
  BY <1>2, <1>8 DEF room
<1>13. /\ conn'[c].room = r
       /\ conn'[c].live = conn[c].live
       /\ \A x \in Conns \ {c} : /\ conn'[x].live = conn[x].live
                                 /\ conn'[x].room = IF x \in left \cup gone THEN NoRoom ELSE conn[x].room
  BY <1>3, <1>5, <1>6
<1>14. ASSUME room.status = "open"
       PROVE  /\ c \in room.connections
              /\ \A x \in Conns \ {c} :
                   x \in room.connections <=> IsOpen(r) /\ x \in rooms[r].connections \ gone
  BY <1>9, <1>11, <1>14 DEF gone
<1>15. /\ IsOpen(r) => rooms'[r].status = "open"
       /\ ~(~IsOpen(r) /\ rooms'[r].status = "open")
       /\ rooms'[r].status # "unused"
       /\ NoLocks => conn'[c].live /\ rooms'[r].status = "open"
  BY <1>1, <1>9, <1>11, <1>12, <1>13
<1>16. Moves(c, "switch", r, gone)
  BY <1>1, <1>10, <1>12, <1>13, <1>14, <1>15 DEF Moves, rs, left
<1> QED
  BY <1>16 DEF gone, out

LEMMA CleanupMoves ==
  ASSUME IndInv, NEW c \in Conns, NEW live, NEW reason, Cleanup(c, live, reason)
  PROVE  Moves(c, reason, NoRoom, {})
<1> DEFINE k    == conn[c].room
           here == [live |-> live, room |-> NoRoom, role |-> "none"]
           left == Evicted(k, c, reason)
<1>1. rooms' = Cleaned(rooms, k, c, reason)
  BY DEF Cleanup
<1>2. conn' = [x \in Conns |-> IF x = c THEN here
                               ELSE IF x \in left THEN Detached(conn[x])
                               ELSE conn[x]]
  BY DEF Cleanup
<1>3. conn \in [Conns -> Context]
  BY DEF IndInv, TypeOK
<1>4. \A x \in Conns : Detached(conn[x]).room = NoRoom /\ Detached(conn[x]).live = conn[x].live
  BY <1>3 DEF Detached, Context
<1>5. here.room = NoRoom
  OBVIOUS
<1> HIDE DEF here, left
<1>6. /\ conn'[c].room = NoRoom
      /\ \A x \in Conns \ {c} : /\ conn'[x].live = conn[x].live
                                /\ conn'[x].room = IF x \in left \cup {} THEN NoRoom ELSE conn[x].room
  BY <1>2, <1>4, <1>5
<1>7. NoRoom \notin RoomIds
  BY ServerConstants
<1> QED
  BY <1>1, <1>6, <1>7 DEF Moves, left

\* What a step of the server is, as far as the memberships go.
LEMMA MoveForms ==
  ASSUME IndInv, RoomsWereCreated, [Next]_vars
  PROVE  \/ \E c \in Conns : \E reason, here, gone : Moves(c, reason, here, gone)
         \/ \E r, q, gone : ChangesRoom(r, q, gone)
         \/ \E t \in Tabs : VoiceClose(t)
         \/ CleanupTick
         \/ UNCHANGED <<rooms, conn>>
<1>1. ASSUME NEW c \in Conns, NEW r \in RoomIds, NEW mode \in Modes, NEW locked \in BOOLEAN,
             NEW count \in Nat, Creates(c, r, mode, locked, count)
      PROVE  \E reason, here, gone : Moves(c, reason, here, gone)
  BY <1>1, CreatesMoves
<1>2. ASSUME NEW c \in Conns, NEW r \in RoomIds, NEW s \in 0 .. MaxSession, Enters(c, r, s)
      PROVE  \E reason, here, gone : Moves(c, reason, here, gone)
  BY <1>2, EntersMoves
<1>3. ASSUME NEW c \in Conns, NEW live, NEW reason, Cleanup(c, live, reason)
      PROVE  \E why, here, gone : Moves(c, why, here, gone)
  BY <1>3, CleanupMoves
<1>4. UNCHANGED <<rooms, conn, roomCountByIp>> => UNCHANGED <<rooms, conn>>
  OBVIOUS
<1> QED
  BY <1>1, <1>2, <1>3, <1>4, StepForms

\* A cleanup for a context makes no room unused.
LEMMA MovesStatus ==
  ASSUME IndInv, NEW c \in Conns, NEW reason, NEW here, NEW gone, Moves(c, reason, here, gone),
         NEW r \in RoomIds
  PROVE  rooms'[r].status = "unused" => r # here /\ rooms[r].status = "unused"
<1>1. CASE r = here
  BY <1>1 DEF Moves
<1>2. CASE r # here
  <2>1. rooms'[r] = Cleaned(rooms, conn[c].room, c, reason)[r]
    BY <1>2 DEF Moves
  <2>2. rooms'[r].status \in {"closed", rooms[r].status}
    BY <2>1, CleanedStatus
  <2> QED
    BY <1>2, <2>2
<1> QED
  BY <1>1, <1>2

\* One run of the timer: which rooms it closes, and what it leaves alone.
LEMMA TickStatus ==
  ASSUME IndInv, CleanupTick, NEW r \in RoomIds
  PROVE  /\ r \in IdleRooms => rooms'[r].status = "closed"
         /\ r \notin IdleRooms => rooms'[r].status = rooms[r].status
         /\ rooms'[r].connections = rooms[r].connections
         /\ rooms'[r].ownerIp = rooms[r].ownerIp
<1> DEFINE gone == [rooms[r] EXCEPT !.status = "closed", !.activity = "unset"]
           used == [rooms[r] EXCEPT !.activity = "recent"]
<1>1. rooms[r] \in Room
  BY DEF IndInv, TypeOK
<1>2. rooms'[r] = IF r \in IdleRooms THEN gone
                  ELSE IF IsOpen(r) /\ rooms[r].connections # {} THEN used
                  ELSE rooms[r]
  BY DEF CleanupTick
<1>3. /\ gone.status = "closed"
      /\ gone.connections = rooms[r].connections
      /\ gone.ownerIp = rooms[r].ownerIp
  BY <1>1, ZenonT(60) DEF Room
<1>4. /\ used.status = rooms[r].status
      /\ used.connections = rooms[r].connections
      /\ used.ownerIp = rooms[r].ownerIp
  BY <1>1, ZenonT(60) DEF Room
<1> HIDE DEF gone, used
<1> QED
  BY <1>2, <1>3, <1>4

\* No room is unused again.
LEMMA StatusStep ==
  ASSUME IndInv, RoomsWereCreated, [Next]_vars, NEW r \in RoomIds, rooms'[r].status = "unused"
  PROVE  rooms[r].status = "unused"
<1>0. rooms \in [RoomIds -> Room]
  BY DEF IndInv, TypeOK
<1>1. ASSUME NEW c \in Conns, NEW reason, NEW here, NEW gone, Moves(c, reason, here, gone)
      PROVE  rooms[r].status = "unused"
  BY <1>1, MovesStatus
<1>2. ASSUME NEW k, NEW q, NEW gone, ChangesRoom(k, q, gone)
      PROVE  rooms[r].status = "unused"
  <2>1. q.status = "open" /\ rooms' = [rooms EXCEPT ![k] = q]
    BY <1>2 DEF ChangesRoom
  <2>2. rooms'[r] \in {q, rooms[r]}
    BY <1>0, <2>1
  <2> QED
    BY <2>1, <2>2
<1>3. ASSUME NEW t \in Tabs, VoiceClose(t)
      PROVE  rooms[r].status = "unused"
  <2>1. PICK k, u : k = tab[t].room /\ u = tab[t].user
    OBVIOUS
  <2>2. u \in Conns /\ rooms' = Cleaned(rooms, k, u, "disconnect")
    BY <1>3, <2>1 DEF VoiceClose, IndInv, TypeOK, TabContext
  <2>3. rooms'[r].status \in {"closed", rooms[r].status}
    BY <2>2, CleanedStatus
  <2> QED
    BY <2>3
<1>4. CASE CleanupTick
  <2>1. rooms'[r].status \in {"closed", rooms[r].status}
    BY <1>4, TickStatus
  <2> QED
    BY <2>1
<1>5. CASE UNCHANGED <<rooms, conn>>
  BY <1>5
<1> QED
  BY <1>1, <1>2, <1>3, <1>4, <1>5, MoveForms

\* Whose context names another room after a step has come into it.
LEMMA ContextStep ==
  ASSUME IndInv, RoomsWereCreated, [Next]_vars, NEW x \in Conns, conn'[x].room \in RoomIds
  PROVE  \/ conn'[x].room = conn[x].room
         \/ rooms'[conn'[x].room].status # "unused"
<1>0. NoRoom \notin RoomIds
  BY ServerConstants
<1>1. ASSUME NEW c \in Conns, NEW reason, NEW here, NEW gone, Moves(c, reason, here, gone)
      PROVE  \/ conn'[x].room = conn[x].room
             \/ rooms'[conn'[x].room].status # "unused"
  <2>1. CASE x = c
    BY <1>1, <2>1 DEF Moves
  <2>2. CASE x # c
    BY <1>0, <1>1, <2>2 DEF Moves
  <2> QED
    BY <2>1, <2>2
<1>2. ASSUME NEW k, NEW q, NEW gone, ChangesRoom(k, q, gone)
      PROVE  conn'[x].room = conn[x].room
  BY <1>0, <1>2 DEF ChangesRoom
<1>3. ASSUME NEW t \in Tabs, VoiceClose(t)
      PROVE  conn'[x].room = conn[x].room
  BY <1>3 DEF VoiceClose
<1>4. CASE CleanupTick
  BY <1>4 DEF CleanupTick
<1>5. CASE UNCHANGED <<rooms, conn>>
  BY <1>5
<1> QED
  BY <1>1, <1>2, <1>3, <1>4, <1>5, MoveForms

\* What a step does to the request of a connection that waits.
LEMMA WaitingForms ==
  ASSUME IndInv, [Next]_vars, NEW x \in Conns
  PROVE  \/ pending'[x] = pending[x]
         \/ pending'[x].kind \in {"idle", "denied"}
         \/ pending'[x].kind = "hashing" /\ TRUE \in Locking
         \/ /\ pending'[x].kind = "verifying"
            /\ rooms' = rooms
            /\ IsOpen(pending'[x].room)
            /\ rooms[pending'[x].room].locked
<1>0. pending \in [Conns -> Pending]
  BY DEF IndInv, TypeOK
<1> DEFINE Goal == \/ pending'[x] = pending[x]
                   \/ pending'[x].kind \in {"idle", "denied"}
                   \/ pending'[x].kind = "hashing" /\ TRUE \in Locking
                   \/ /\ pending'[x].kind = "verifying"
                      /\ rooms' = rooms
                      /\ IsOpen(pending'[x].room)
                      /\ rooms[pending'[x].room].locked
<1>1. ASSUME pending' = pending
      PROVE  Goal
  BY <1>1
<1>2. ASSUME NEW c \in Conns, pending' = [pending EXCEPT ![c] = Idle]
      PROVE  Goal
  BY <1>0, <1>2 DEF Idle
<1>3. ASSUME NEW c \in Conns, NEW m \in Modes, BeginProtectedCreate(c, m)
      PROVE  Goal
  BY <1>0, <1>3 DEF BeginProtectedCreate, Idle
<1>4. ASSUME NEW c \in Conns, NEW r \in RoomIds, NEW s \in 0 .. MaxSession,
             BeginProtectedJoin(c, r, s)
      PROVE  Goal
  BY <1>0, <1>4 DEF BeginProtectedJoin, Idle
<1>5. ASSUME NEW c \in Conns, NEW r \in RoomIds, NEW s \in 0 .. MaxSession, DenyJoin(c, r, s)
      PROVE  Goal
  BY <1>0, <1>5 DEF DenyJoin, Idle
<1> HIDE DEF Goal
<1>6. ASSUME Creating
      PROVE  Goal
  BY <1>1, <1>2, <1>3, <1>6 DEF Creating, CreateRoom, CompleteProtectedCreate
<1>7. ASSUME Joining
      PROVE  Goal
  BY <1>1, <1>4, <1>5, <1>7 DEF Joining, JoinRoom, JoinRoomByInvite
<1>8. ASSUME Managing
      PROVE  Goal
  BY <1>1, <1>8 DEF Managing, UpdateRole, RemoveParticipant, SetEditMode, CreateToken
<1>9. ASSUME NEW c \in Conns, \/ CompleteProtectedJoin(c)
                              \/ AnswerDeniedJoin(c)
                              \/ LeaveRoom(c)
                              \/ Disconnect(c)
      PROVE  Goal
  BY <1>1, <1>2, <1>9 DEF CompleteProtectedJoin, AnswerDeniedJoin, LeaveRoom, Disconnect, Cleanup
<1>10. ASSUME NEW t \in Tabs, VoiceClose(t) \/ \E u \in Conns, r \in RoomIds : VoiceJoin(t, u, r)
       PROVE  Goal
  BY <1>1, <1>10 DEF VoiceClose, VoiceJoin
<1>11. ASSUME \/ \E i \in Invites : ExpireToken(i)
              \/ \E r \in RoomIds : IdleTimePasses(r)
              \/ CleanupTick
              \/ UNCHANGED vars
       PROVE  Goal
  BY <1>1, <1>11 DEF ExpireToken, IdleTimePasses, CleanupTick, vars
<1>12. Goal
  BY <1>6, <1>7, <1>8, <1>9, <1>10, <1>11 DEF Next
<1> QED
  BY <1>12 DEF Goal

LEMMA RoomsWereCreatedStep ==
  ASSUME IndInv, RoomsWereCreated, [Next]_vars
  PROVE  RoomsWereCreated'
<1>1. ASSUME NEW c \in Conns, conn'[c].room \in RoomIds
      PROVE  rooms'[conn'[c].room].status # "unused"
  BY <1>1, ContextStep, StatusStep DEF RoomsWereCreated
<1>2. ASSUME NEW c \in Conns, Verifying(c)'
      PROVE  rooms'[pending'[c].room].status # "unused"
  <2>1. CASE pending'[c] = pending[c]
    <3>1. Verifying(c)
      BY <1>2, <2>1 DEF Verifying
    <3>2. pending[c].room \in RoomIds /\ rooms[pending[c].room].status # "unused"
      BY <3>1 DEF IndInv, JoinsUnderWay, RoomsWereCreated
    <3> QED
      BY <2>1, <3>2, StatusStep
  <2>2. CASE rooms' = rooms /\ IsOpen(pending'[c].room)
    BY <2>2 DEF IsOpen
  <2> QED
    BY <1>2, <2>1, <2>2, WaitingForms DEF Verifying
<1> QED
  BY <1>1, <1>2 DEF RoomsWereCreated

LEMMA RoomsAlwaysCreated == Spec => []RoomsWereCreated
<1>1. Init => RoomsWereCreated
  BY ServerConstants DEF Init, RoomsWereCreated, Verifying, Idle
<1>2. RoomsWereCreated /\ IndInv /\ [Next]_vars => RoomsWereCreated'
  BY RoomsWereCreatedStep
<1> QED
  BY <1>1, <1>2, RoomsAreConsistent, PTL DEF Spec

-------------------------------------------------------------------------------
\* Memberships, where nothing interferes

\* Rooms that are created without a secret stay without one.
LEMMA NoLocksStep ==
  ASSUME TRUE \notin Locking, IndInv, NoLocks, [Next]_vars
  PROVE  NoLocks'
<1>1. ASSUME NEW r \in OpenRooms'
      PROVE  ~rooms'[r].locked
  <2>1. CASE r \in OpenRooms /\ rooms'[r].locked = rooms[r].locked
    BY <2>1 DEF NoLocks
  <2>2. CASE \E c \in Conns, mode \in Modes, locked \in BOOLEAN, count \in Nat :
               Creates(c, r, mode, locked, count) /\ rooms'[r].locked = locked
    BY <2>2 DEF Creates
  <2> QED
    BY <2>1, <2>2, RoomForms
<1>2. ASSUME NEW c \in Conns
      PROVE  pending'[c].kind \notin {"hashing", "verifying"}
  <2>1. CASE pending'[c] = pending[c]
    BY <2>1 DEF NoLocks
  <2>2. ~(IsOpen(pending'[c].room) /\ rooms[pending'[c].room].locked)
    BY DEF NoLocks, IsOpen, OpenRooms
  <2> QED
    BY <2>1, <2>2, WaitingForms
<1> QED
  BY <1>1, <1>2 DEF NoLocks

LEMMA NeverLocked ==
  ASSUME TRUE \notin Locking
  PROVE  Spec => []NoLocks
<1>1. Init => NoLocks
  BY DEF Init, NoLocks, OpenRooms, UnusedRoom, Idle
<1>2. NoLocks /\ IndInv /\ [Next]_vars => NoLocks'
  BY NoLocksStep
<1> QED
  BY <1>1, <1>2, RoomsAreConsistent, PTL DEF Spec

\* A member of an open room after a step was one before, or has just come in.
LEMMA GhostStep ==
  ASSUME IndInv, RoomsWereCreated, NoLocks, NoGhostMembers, [Next]_vars
  PROVE  NoGhostMembers'
<1> SUFFICES ASSUME NEW r \in OpenRooms', NEW x \in rooms'[r].connections
             PROVE  conn'[x].live
  BY DEF NoGhostMembers
<1>0. /\ rooms \in [RoomIds -> Room]
      /\ r \in RoomIds
      /\ rooms[r] \in Room
      /\ rooms'[r].status = "open"
      /\ IsOpen(r) <=> r \in OpenRooms
  BY DEF IndInv, TypeOK, OpenRooms, IsOpen
<1>1. ASSUME IsOpen(r), x \in rooms[r].connections, conn'[x].live = conn[x].live
      PROVE  conn'[x].live
  BY <1>0, <1>1 DEF NoGhostMembers
<1>2. ASSUME NEW c \in Conns, NEW reason, NEW here, NEW gone, Moves(c, reason, here, gone)
      PROVE  conn'[x].live
  <2>1. CASE r = here
    <3>1. CASE x = c
      BY <1>0, <1>2, <2>1, <3>1 DEF Moves
    <3>2. CASE x # c
      <4>1. rooms'[r] \in Room
        BY <1>0, NextIndInv DEF IndInv, TypeOK
      <4>2. x \in Conns
        BY <4>1 DEF Room
      <4>3. IsOpen(r) /\ x \in rooms[r].connections /\ conn'[x].live = conn[x].live
        BY <1>0, <1>2, <2>1, <3>2, <4>2 DEF Moves
      <4> QED
        BY <1>1, <4>3
    <3> QED
      BY <3>1, <3>2
  <2>2. CASE r # here
    <3>1. rooms'[r] = Cleaned(rooms, conn[c].room, c, reason)[r]
      BY <1>0, <1>2, <2>2 DEF Moves
    <3>2. IsOpen(r) /\ Keeps(rooms'[r], rooms[r])
      BY <1>0, <3>1, CleanedOpen
    <3>3. x \in rooms[r].connections
      BY <3>2 DEF Keeps
    <3>4. x \in Conns \ {c}
      BY <1>0, <3>1, StayingMembers
    <3>5. conn'[x].live = conn[x].live
      BY <1>2, <3>4 DEF Moves
    <3> QED
      BY <1>1, <3>2, <3>3, <3>5
  <2> QED
    BY <2>1, <2>2
<1>3. ASSUME NEW k, NEW q, NEW gone, ChangesRoom(k, q, gone)
      PROVE  conn'[x].live
  <2>1. /\ IsOpen(k)
        /\ q.connections \subseteq rooms[k].connections
        /\ rooms' = [rooms EXCEPT ![k] = q]
        /\ \A y \in Conns : conn'[y].live = conn[y].live
    BY <1>3 DEF ChangesRoom
  <2>2. IsOpen(r) /\ x \in rooms[r].connections
    <3>1. CASE r = k
      BY <1>0, <2>1, <3>1
    <3>2. CASE r # k
      <4>1. rooms'[r] = rooms[r]
        BY <1>0, <2>1, <3>2
      <4> QED
        BY <1>0, <4>1 DEF IsOpen
    <3> QED
      BY <3>1, <3>2
  <2>3. x \in Conns
    BY <1>0, <2>2 DEF Room
  <2> QED
    BY <1>1, <2>1, <2>2, <2>3
<1>4. ASSUME NEW t \in Tabs, VoiceClose(t)
      PROVE  conn'[x].live
  <2>1. PICK k, u : k = tab[t].room /\ u = tab[t].user
    OBVIOUS
  <2>2. u \in Conns /\ rooms' = Cleaned(rooms, k, u, "disconnect") /\ conn' = conn
    BY <1>4, <2>1 DEF VoiceClose, IndInv, TypeOK, TabContext
  <2>3. IsOpen(r) /\ Keeps(rooms'[r], rooms[r])
    BY <1>0, <2>2, CleanedOpen
  <2> QED
    BY <1>1, <2>2, <2>3 DEF Keeps
<1>5. CASE CleanupTick
  <2>1. rooms'[r].connections = rooms[r].connections /\ IsOpen(r)
    BY <1>0, <1>5, TickStatus DEF IsOpen
  <2>2. conn' = conn
    BY <1>5 DEF CleanupTick
  <2> QED
    BY <1>1, <2>1, <2>2
<1>6. CASE UNCHANGED <<rooms, conn>>
  BY <1>0, <1>1, <1>6 DEF IsOpen
<1> QED
  BY <1>2, <1>3, <1>4, <1>5, <1>6, MoveForms

\* Where no room has a secret, no open room has a member without a connection:
\* whoever joins is connected, and a close takes its user out of every room.
THEOREM MembersAreNeverGhosts ==
  ASSUME TRUE \notin Locking
  PROVE  Spec => []NoGhostMembers
<1>1. Init => NoGhostMembers
  BY DEF Init, NoGhostMembers, OpenRooms, UnusedRoom
<1>2. /\ IndInv /\ RoomsWereCreated /\ NoLocks /\ NoGhostMembers /\ [Next]_vars
      => NoGhostMembers'
  BY GhostStep
<1> QED
  BY <1>1, <1>2, RoomsAreConsistent, RoomsAlwaysCreated, NeverLocked, PTL DEF Spec

\* Whose context names an open room after a step was a member of it before and
\* was not thrown out, or has just come in.
LEMMA ContextsAreMembersStep ==
  ASSUME Tabs = {}, IndInv, RoomsWereCreated, ContextsAreMembers, [Next]_vars
  PROVE  ContextsAreMembers'
<1> SUFFICES ASSUME NEW x \in Conns, conn'[x].live, IsOpen(conn[x].room)'
             PROVE  x \in Active(rooms'[conn'[x].room])
  BY DEF ContextsAreMembers, Active
<1>1. PICK r \in RoomIds : r = conn'[x].room
  BY DEF IsOpen
<1>2. /\ rooms'[r].status = "open"
      /\ rooms \in [RoomIds -> Room]
      /\ r # NoRoom
      /\ r \in OpenRooms'
  BY <1>1, ServerConstants DEF IsOpen, IndInv, TypeOK, OpenRooms
<1>3. Active(rooms'[r]) = rooms'[r].connections
  <2>1. Consistent(rooms'[r], nextSession')
    BY <1>2, NextIndInv DEF IndInv
  <2> QED
    BY <2>1 DEF Consistent
<1>4. SUFFICES x \in rooms'[r].connections
  BY <1>1, <1>3
<1>5. ASSUME IsOpen(r), conn[x].live, conn[x].room = r
      PROVE  x \in rooms[r].connections
  <2>1. x \in Active(rooms[r])
    BY <1>5 DEF ContextsAreMembers
  <2> QED
    BY <1>5, <2>1, OpenRoomFacts
<1>6. ASSUME NEW c \in Conns, NEW reason, NEW here, NEW gone, Moves(c, reason, here, gone)
      PROVE  x \in rooms'[r].connections
  <2>1. CASE x = c
    BY <1>1, <1>2, <1>6, <2>1 DEF Moves
  <2>2. CASE x # c
    <3>1. conn[x].live /\ conn[x].room = r /\ x \notin gone
      BY <1>1, <1>2, <1>6, <2>2 DEF Moves
    <3>2. CASE r = here
      <4>1. rooms[r].status # "unused"
        BY <3>1 DEF RoomsWereCreated
      <4>2. IsOpen(r)
        BY <1>2, <1>6, <3>2, <4>1 DEF Moves
      <4> QED
        BY <1>2, <1>5, <1>6, <2>2, <3>1, <3>2, <4>2 DEF Moves
    <3>3. CASE r # here
      <4>1. rooms'[r] = Cleaned(rooms, conn[c].room, c, reason)[r]
        BY <1>6, <3>3 DEF Moves
      <4>2. IsOpen(r)
        BY <1>2, <4>1, CleanedOpen
      <4>3. rooms'[r].connections
              = rooms[r].connections \ (IF r = conn[c].room THEN {c} ELSE {})
        BY <1>2, <4>1, CleanedStatus
      <4> QED
        BY <1>5, <2>2, <3>1, <4>2, <4>3
    <3> QED
      BY <3>2, <3>3
  <2> QED
    BY <2>1, <2>2
<1>7. ASSUME NEW k, NEW q, NEW gone, ChangesRoom(k, q, gone)
      PROVE  x \in rooms'[r].connections
  <2>1. /\ IsOpen(k)
        /\ q.connections = rooms[k].connections \ gone
        /\ rooms' = [rooms EXCEPT ![k] = q]
        /\ conn'[x].live = conn[x].live
        /\ conn'[x].room = IF x \in gone THEN NoRoom ELSE conn[x].room
    BY <1>7 DEF ChangesRoom
  <2>2. conn[x].live /\ conn[x].room = r /\ x \notin gone
    BY <1>1, <1>2, <2>1
  <2>3. CASE r = k
    <3>1. rooms'[r] = q
      BY <1>2, <2>1, <2>3
    <3> QED
      BY <1>5, <2>1, <2>2, <2>3, <3>1
  <2>4. CASE r # k
    <3>1. rooms'[r] = rooms[r]
      BY <1>2, <2>1, <2>4
    <3>2. IsOpen(r)
      BY <1>2, <3>1 DEF IsOpen
    <3> QED
      BY <1>5, <2>2, <3>1, <3>2
  <2> QED
    BY <2>3, <2>4
<1>8. CASE CleanupTick
  <2>1. rooms'[r].connections = rooms[r].connections /\ IsOpen(r)
    BY <1>2, <1>8, TickStatus DEF IsOpen
  <2>2. conn' = conn
    BY <1>8 DEF CleanupTick
  <2> QED
    BY <1>1, <1>5, <2>1, <2>2
<1>9. CASE UNCHANGED <<rooms, conn>>
  BY <1>1, <1>2, <1>5, <1>9 DEF IsOpen
<1> QED
  BY <1>6, <1>7, <1>8, <1>9, MoveForms

\* Where there are no voice tabs, a live connection whose context names an open
\* room is a member of it, whichever joins were under way when it closed.
THEOREM ContextsStayMembers ==
  ASSUME Tabs = {}
  PROVE  Spec => []ContextsAreMembers
<1>1. Init => ContextsAreMembers
  BY ServerConstants DEF Init, ContextsAreMembers, IsOpen
<1>2. IndInv /\ RoomsWereCreated /\ ContextsAreMembers /\ [Next]_vars => ContextsAreMembers'
  BY ContextsAreMembersStep
<1> QED
  BY <1>1, <1>2, RoomsAreConsistent, RoomsAlwaysCreated, PTL DEF Spec

\* A room is closed over nobody: its members are told, and nobody else is in it.
LEMMA ClosedRoomsStep ==
  ASSUME Tabs = {}, IndInv, RoomsWereCreated, NoLocks, ContextsAreMembers,
         ClosedRoomsAreEmpty, [Next]_vars
  PROVE  ClosedRoomsAreEmpty'
<1> SUFFICES ASSUME NEW x \in Conns, conn'[x].live, conn'[x].room # NoRoom
             PROVE  IsOpen(conn[x].room)'
  BY DEF ClosedRoomsAreEmpty
<1>1. conn'[x].room \in RoomIds
  BY NextIndInv DEF IndInv, TypeOK, Context
<1>2. PICK r \in RoomIds : r = conn'[x].room
  BY <1>1
<1>3. rooms \in [RoomIds -> Room] /\ r # NoRoom
  BY <1>2 DEF IndInv, TypeOK
<1>4. SUFFICES rooms'[r].status = "open"
  BY <1>2 DEF IsOpen
<1>5. ASSUME conn[x].live, conn[x].room = r
      PROVE  IsOpen(r) /\ rooms[r].status = "open" /\ x \in rooms[r].connections
  <2>1. IsOpen(r)
    BY <1>3, <1>5 DEF ClosedRoomsAreEmpty
  <2>2. x \in Active(rooms[r])
    BY <1>5, <2>1 DEF ContextsAreMembers
  <2> QED
    BY <2>1, <2>2, OpenRoomFacts
<1>6. ASSUME NEW c \in Conns, NEW reason, NEW here, NEW gone, Moves(c, reason, here, gone)
      PROVE  rooms'[r].status = "open"
  <2>1. CASE r = here
    BY <1>6, <2>1 DEF Moves
  <2>2. CASE r # here
    <3>1. x # c
      BY <1>2, <1>6, <2>2 DEF Moves
    <3>2. /\ conn[x].live
          /\ conn[x].room = r
          /\ x \notin Evicted(conn[c].room, c, reason)
      BY <1>2, <1>3, <1>6, <3>1 DEF Moves
    <3>3. ~(r = conn[c].room /\ Closes(conn[c].room, c, reason))
      BY <1>5, <3>1, <3>2 DEF Evicted
    <3>4. rooms'[r] = Cleaned(rooms, conn[c].room, c, reason)[r]
      BY <1>6, <2>2 DEF Moves
    <3>5. rooms'[r].status = rooms[r].status
      BY <3>3, <3>4, CleanedStatus
    <3> QED
      BY <1>5, <3>2, <3>5
  <2> QED
    BY <2>1, <2>2
<1>7. ASSUME NEW k, NEW q, NEW gone, ChangesRoom(k, q, gone)
      PROVE  rooms'[r].status = "open"
  <2>1. /\ q.status = "open"
        /\ rooms' = [rooms EXCEPT ![k] = q]
        /\ conn'[x].live = conn[x].live
        /\ conn'[x].room = IF x \in gone THEN NoRoom ELSE conn[x].room
    BY <1>7 DEF ChangesRoom
  <2>2. rooms'[r] \in {q, rooms[r]}
    BY <1>3, <2>1
  <2> QED
    BY <1>2, <1>3, <1>5, <2>1, <2>2
<1>8. CASE CleanupTick
  <2>1. conn' = conn
    BY <1>8 DEF CleanupTick
  <2>2. rooms[r].status = "open" /\ x \in rooms[r].connections
    BY <1>2, <1>5, <2>1
  <2>3. r \notin IdleRooms
    BY <2>2 DEF IdleRooms
  <2> QED
    BY <1>8, <2>2, <2>3, TickStatus
<1>9. CASE UNCHANGED <<rooms, conn>>
  BY <1>2, <1>5, <1>9
<1> QED
  BY <1>6, <1>7, <1>8, <1>9, MoveForms

\* Where there are neither secrets nor voice tabs, closing a room leaves nobody
\* in it: the room a live connection's context names is one the server holds.
THEOREM NobodyStaysInAClosedRoom ==
  ASSUME TRUE \notin Locking, Tabs = {}
  PROVE  Spec => []ClosedRoomsAreEmpty
<1>1. Init => ClosedRoomsAreEmpty
  BY DEF Init, ClosedRoomsAreEmpty
<1>2. /\ IndInv /\ RoomsWereCreated /\ NoLocks /\ ContextsAreMembers
      /\ ClosedRoomsAreEmpty /\ [Next]_vars
      => ClosedRoomsAreEmpty'
  BY ClosedRoomsStep
<1> QED
  BY <1>1, <1>2, RoomsAreConsistent, RoomsAlwaysCreated, NeverLocked, ContextsStayMembers,
     PTL DEF Spec

-------------------------------------------------------------------------------
\* The counts, where no room has a secret

\* The open rooms among rs that were created from ip.
RoomsFrom(rs, ip) == {r \in RoomIds : rs[r].status = "open" /\ rs[r].ownerIp = ip}

LEMMA RoomsFromFinite ==
  ASSUME NEW rs, NEW ip
  PROVE  IsFiniteSet(RoomsFrom(rs, ip)) /\ Cardinality(RoomsFrom(rs, ip)) \in Nat
<1>1. IsFiniteSet(RoomIds) /\ RoomsFrom(rs, ip) \in SUBSET RoomIds
  BY ServerConstants DEF RoomsFrom
<1>2. IsFiniteSet(RoomsFrom(rs, ip))
  BY <1>1, FS_Subset
<1> QED
  BY <1>2, FS_CardinalityType

\* RoomCountIsExact counts these.
LEMMA RoomsFromOpen ==
  ASSUME NEW ip
  PROVE  {r \in OpenRooms : rooms[r].ownerIp = ip} = RoomsFrom(rooms, ip)
  BY DEF OpenRooms, RoomsFrom

\* Every count is at most the limit.
CountsWithinLimit == \A ip \in Ips : roomCountByIp[ip] <= MaxRoomsPerIp

\* What counting down does to the count of one address.
LEMMA UncountedAt ==
  ASSUME NEW counts \in [Ips -> Nat], NEW k, NEW u, NEW reason, NEW ip \in Ips
  PROVE  /\ Closes(k, u, reason) /\ rooms[k].ownerIp = ip =>
              Uncounted(counts, k, u, reason)[ip] = Decrement(counts[ip])
         /\ ~(Closes(k, u, reason) /\ rooms[k].ownerIp = ip) =>
              Uncounted(counts, k, u, reason)[ip] = counts[ip]
  BY DEF Uncounted

\* Counting down is exact if the closed room was counted.
LEMMA UncountedExact ==
  ASSUME NEW counts \in [Ips -> Nat], NEW k, NEW u, NEW reason, NEW ip \in Ips,
         NEW T, IsFiniteSet(T), counts[ip] = Cardinality(T),
         Closes(k, u, reason) /\ rooms[k].ownerIp = ip => k \in T,
         ~(Closes(k, u, reason) /\ rooms[k].ownerIp = ip) => k \notin T \/ ~Closes(k, u, reason)
  PROVE  Uncounted(counts, k, u, reason)[ip]
           = Cardinality(IF Closes(k, u, reason) THEN T \ {k} ELSE T)
<1>1. CASE Closes(k, u, reason) /\ rooms[k].ownerIp = ip
  <2>1. Uncounted(counts, k, u, reason)[ip] = Decrement(counts[ip])
    BY <1>1, UncountedAt
  <2>2. Cardinality(T \ {k}) = Cardinality(T) - 1
    BY <1>1, FS_RemoveElement
  <2>3. Cardinality(T) \in Nat /\ Cardinality(T) # 0
    BY <1>1, FS_CardinalityType, FS_EmptySet
  <2>4. Decrement(Cardinality(T)) = Cardinality(T) - 1
    BY <2>3 DEF Decrement
  <2> QED
    BY <1>1, <2>1, <2>2, <2>4
<1>2. CASE ~Closes(k, u, reason)
  <2>1. Uncounted(counts, k, u, reason)[ip] = counts[ip]
    BY <1>2, UncountedAt
  <2> QED
    BY <1>2, <2>1
<1>3. CASE Closes(k, u, reason) /\ rooms[k].ownerIp # ip
  <2>1. Uncounted(counts, k, u, reason)[ip] = counts[ip]
    BY <1>3, UncountedAt
  <2>2. T \ {k} = T
    BY <1>3
  <2> QED
    BY <1>3, <2>1, <2>2
<1> QED
  BY <1>1, <1>2, <1>3

\* A cleanup takes the room it closes away from its address, and no other.
LEMMA CleanedRoomsFrom ==
  ASSUME IndInv, NEW k, NEW u \in Conns, NEW reason, NEW ip
  PROVE  RoomsFrom(Cleaned(rooms, k, u, reason), ip)
           = IF Closes(k, u, reason) THEN RoomsFrom(rooms, ip) \ {k} ELSE RoomsFrom(rooms, ip)
<1> DEFINE rs == Cleaned(rooms, k, u, reason)
<1>1. ASSUME NEW r \in RoomIds
      PROVE  /\ rs[r].ownerIp = rooms[r].ownerIp
             /\ rs[r].status = "open" <=> /\ rooms[r].status = "open"
                                          /\ ~(r = k /\ Closes(k, u, reason))
  <2>1. rs[r].ownerIp = rooms[r].ownerIp
    BY CleanedKeepsOwner
  <2>2. /\ r = k /\ Closes(k, u, reason) => rs[r].status = "closed"
        /\ ~(r = k /\ Closes(k, u, reason)) => rs[r].status = rooms[r].status
    BY CleanedStatus
  <2> QED
    BY <2>1, <2>2
<1> HIDE DEF rs
<1>2. CASE Closes(k, u, reason)
  <2>1. RoomsFrom(rs, ip) = RoomsFrom(rooms, ip) \ {k}
    BY <1>1, <1>2 DEF RoomsFrom
  <2> QED
    BY <1>2, <2>1 DEF rs
<1>3. CASE ~Closes(k, u, reason)
  <2>1. RoomsFrom(rs, ip) = RoomsFrom(rooms, ip)
    BY <1>1, <1>3 DEF RoomsFrom
  <2> QED
    BY <1>3, <2>1 DEF rs
<1> QED
  BY <1>2, <1>3

\* The counts after a cleanup are exact if they were before.
LEMMA CleanedCounts ==
  ASSUME IndInv, RoomCountIsExact, NEW k, NEW u \in Conns, NEW reason, NEW ip \in Ips
  PROVE  Uncounted(roomCountByIp, k, u, reason)[ip]
           = Cardinality(RoomsFrom(Cleaned(rooms, k, u, reason), ip))
<1>1. roomCountByIp \in [Ips -> Nat]
  BY DEF IndInv, TypeOK
<1>2. roomCountByIp[ip] = Cardinality(RoomsFrom(rooms, ip))
  BY RoomsFromOpen DEF RoomCountIsExact
<1>3. Closes(k, u, reason) => k \in RoomIds /\ rooms[k].status = "open"
  BY DEF Closes, IsOpen
<1>4. /\ Closes(k, u, reason) /\ rooms[k].ownerIp = ip => k \in RoomsFrom(rooms, ip)
      /\ rooms[k].ownerIp # ip => k \notin RoomsFrom(rooms, ip)
  BY <1>3 DEF RoomsFrom
<1>5. Uncounted(roomCountByIp, k, u, reason)[ip]
        = Cardinality(IF Closes(k, u, reason) THEN RoomsFrom(rooms, ip) \ {k}
                      ELSE RoomsFrom(rooms, ip))
  BY <1>1, <1>2, <1>4, RoomsFromFinite, UncountedExact
<1> QED
  BY <1>5, CleanedRoomsFrom

LEMMA CreatesCounts ==
  ASSUME IndInv, NoLocks, RoomCountIsExact, NEW c \in Conns, NEW o \in RoomIds,
         NEW mode \in Modes, NEW locked \in BOOLEAN, NEW count \in Nat,
         Creates(c, o, mode, locked, count), NEW ip \in Ips
  PROVE  roomCountByIp'[ip] = Cardinality(RoomsFrom(rooms', ip))
<1> DEFINE k      == conn[c].room
           rs     == Cleaned(rooms, k, c, "switch")
           room   == CreatedRoom(c, IpOf[c], mode, locked, nextSession)
           counts == [roomCountByIp EXCEPT ![IpOf[c]] = count + 1]
           new    == IF ip = IpOf[c] THEN {o} ELSE {}
           T      == RoomsFrom(rooms, ip) \cup new
           closes == Closes(k, c, "switch")
<1>1. /\ rooms[o].status = "unused"
      /\ rooms' = [rs EXCEPT ![o] = room]
      /\ roomCountByIp' = Uncounted(counts, k, c, "switch")
      /\ count = roomCountByIp[IpOf[c]]
  BY DEF Creates, RegisterRoom
<1>2. /\ rooms \in [RoomIds -> Room]
      /\ roomCountByIp \in [Ips -> Nat]
      /\ IpOf[c] \in Ips
  BY ServerConstants DEF IndInv, TypeOK
<1>3. rs \in [RoomIds -> Room]
  BY <1>2, CleanedType
<1>4. room.status = "open" /\ room.ownerIp = IpOf[c]
  BY CreatedOwner
<1>5. RoomsFrom(rs, ip) = IF closes THEN RoomsFrom(rooms, ip) \ {k} ELSE RoomsFrom(rooms, ip)
  BY CleanedRoomsFrom
<1>6. closes => k \in RoomIds /\ rooms[k].status = "open" /\ k # o
  BY <1>1 DEF Closes, IsOpen
<1> HIDE DEF rs, room
<1>7. RoomsFrom(rooms', ip) = (RoomsFrom(rs, ip) \ {o}) \cup new
  BY <1>1, <1>3, <1>4 DEF RoomsFrom
<1>8. o \notin RoomsFrom(rooms, ip)
  BY <1>1 DEF RoomsFrom
<1>9. RoomsFrom(rooms', ip) = IF closes THEN T \ {k} ELSE T
  BY <1>5, <1>6, <1>7, <1>8
<1>10. IsFiniteSet(RoomsFrom(rooms, ip)) /\ Cardinality(RoomsFrom(rooms, ip)) \in Nat
  BY RoomsFromFinite
<1>11. roomCountByIp[ip] = Cardinality(RoomsFrom(rooms, ip))
  BY RoomsFromOpen DEF RoomCountIsExact
<1>12. counts \in [Ips -> Nat] /\ counts[ip] = roomCountByIp[ip] + (IF ip = IpOf[c] THEN 1 ELSE 0)
  BY <1>1, <1>2
<1>13. IsFiniteSet(T) /\ Cardinality(T) = counts[ip]
  <2>1. CASE ip = IpOf[c]
    <3>1. T = RoomsFrom(rooms, ip) \cup {o}
      BY <2>1
    <3>2. Cardinality(RoomsFrom(rooms, ip) \cup {o}) = Cardinality(RoomsFrom(rooms, ip)) + 1
      BY <1>8, <1>10, FS_AddElement
    <3>3. IsFiniteSet(RoomsFrom(rooms, ip) \cup {o})
      BY <1>10, FS_AddElement
    <3> HIDE DEF T, counts
    <3> QED
      BY <1>11, <1>12, <2>1, <3>1, <3>2, <3>3
  <2>2. CASE ip # IpOf[c]
    <3>1. T = RoomsFrom(rooms, ip)
      BY <2>2
    <3> HIDE DEF T, counts
    <3> QED
      BY <1>2, <1>10, <1>11, <1>12, <2>2, <3>1
  <2> QED
    BY <2>1, <2>2
<1>14. /\ closes /\ rooms[k].ownerIp = ip => k \in T
       /\ closes /\ rooms[k].ownerIp # ip => k \notin T
  BY <1>6 DEF RoomsFrom
<1> HIDE DEF T, counts, k
<1>15. Uncounted(counts, k, c, "switch")[ip] = Cardinality(IF closes THEN T \ {k} ELSE T)
  BY <1>12, <1>13, <1>14, UncountedExact
<1> QED
  BY <1>1, <1>9, <1>15

LEMMA EntersCounts ==
  ASSUME IndInv, RoomCountIsExact, NEW c \in Conns, NEW o \in RoomIds,
         NEW s \in 0 .. MaxSession, Enters(c, o, s), NEW ip \in Ips
  PROVE  roomCountByIp'[ip] = Cardinality(RoomsFrom(rooms', ip))
<1> DEFINE k    == conn[c].room
           rs   == Cleaned(rooms, k, c, "switch")
           p    == ResolvedParticipant(rooms[o], s, IpOf[c], nextSession)
           out  == Displaced(rooms[o], s)
           room == JoinedRoom(rooms[o], c, p, out)
<1>1. /\ rooms' = [rs EXCEPT ![o] = JoinedRoom(@, c, p, out)]
      /\ o # k
      /\ NeedsFresh(rooms[o], s, IpOf[c]) => nextSession \in Sessions
  BY DEF Enters, EnterRoom
<1>2. roomCountByIp' = Uncounted(roomCountByIp, k, c, "switch")
  BY DEF Enters, EnterRoom
<1>3. /\ rooms \in [RoomIds -> Room]
      /\ rooms[o] \in Room
      /\ nextSession \in 1 .. MaxSession + 1
      /\ IpOf[c] \in Ips
  BY ServerConstants DEF IndInv, TypeOK
<1>4. p \in Participant /\ out \in SUBSET Conns
  BY <1>1, <1>3, ResolvedType DEF Displaced
<1>5. rs \in [RoomIds -> Room] /\ rs[o] = rooms[o]
  BY <1>1, <1>3, CleanedType, CleanedOthers
<1> HIDE DEF rs, p, out
<1>6. /\ room \in Room
      /\ room.status = rooms[o].status
      /\ room.participants = [u \in Conns |-> IF u = c THEN p
                                              ELSE IF u \in out THEN NoParticipant
                                              ELSE rooms[o].participants[u]]
      /\ room.connections = (rooms[o].connections \ out) \cup {c}
  BY <1>3, <1>4, JoinedRoomMembers
<1>7. room.ownerIp = rooms[o].ownerIp /\ room.locked = rooms[o].locked
  BY <1>3, JoinedMarks
<1>8. rooms' = [rs EXCEPT ![o] = room]
  BY <1>1, <1>5
<1> HIDE DEF room
<1>9. RoomsFrom(rooms', ip) = RoomsFrom(rs, ip)
  BY <1>5, <1>6, <1>7, <1>8 DEF RoomsFrom
<1>10. Uncounted(roomCountByIp, k, c, "switch")[ip] = Cardinality(RoomsFrom(rs, ip))
  BY CleanedCounts DEF rs
<1> QED
  BY <1>2, <1>9, <1>10

LEMMA TickCounts ==
  ASSUME IndInv, RoomCountIsExact, CleanupTick, NEW ip \in Ips
  PROVE  roomCountByIp'[ip] = Cardinality(RoomsFrom(rooms', ip))
<1> DEFINE idle == {r \in IdleRooms : rooms[r].ownerIp = ip}
           old  == RoomsFrom(rooms, ip)
<1>1. /\ \A r \in IdleRooms : r \in RoomIds /\ rooms[r].status = "open"
      /\ roomCountByIp \in [Ips -> Nat]
  BY DEF IdleRooms, OpenRooms, IndInv, TypeOK
<1>2. idle \in SUBSET old
  BY <1>1 DEF RoomsFrom
<1>3. \A r \in RoomIds : /\ r \in IdleRooms => rooms'[r].status = "closed"
                         /\ r \notin IdleRooms => rooms'[r].status = rooms[r].status
                         /\ rooms'[r].ownerIp = rooms[r].ownerIp
  BY TickStatus
<1>4. RoomsFrom(rooms', ip) = old \ idle
  BY <1>1, <1>3 DEF RoomsFrom
<1>5. roomCountByIp'[ip] = IF roomCountByIp[ip] <= Cardinality(idle) THEN 0
                           ELSE roomCountByIp[ip] - Cardinality(idle)
  BY DEF CleanupTick
<1>6. roomCountByIp[ip] = Cardinality(old)
  BY RoomsFromOpen DEF RoomCountIsExact
<1>7. IsFiniteSet(old) /\ Cardinality(old) \in Nat
  BY RoomsFromFinite
<1> HIDE DEF idle, old
<1>8. IsFiniteSet(idle) /\ Cardinality(idle) \in Nat /\ Cardinality(idle) <= Cardinality(old)
  BY <1>2, <1>7, FS_Subset, FS_CardinalityType
<1>9. Cardinality(old \ idle) = Cardinality(old) - Cardinality(idle)
  <2>1. old \cap idle = idle
    BY <1>2
  <2>2. Cardinality(old \ idle) = Cardinality(old) - Cardinality(old \cap idle)
    BY <1>7, FS_Difference
  <2> QED
    BY <2>1, <2>2
<1> QED
  BY <1>4, <1>5, <1>6, <1>7, <1>8, <1>9

\* Every step keeps the counts exact.
LEMMA CountStep ==
  ASSUME IndInv, NoLocks, RoomCountIsExact, [Next]_vars
  PROVE  RoomCountIsExact'
<1> SUFFICES ASSUME NEW ip \in Ips
             PROVE  roomCountByIp'[ip] = Cardinality(RoomsFrom(rooms', ip))
  BY DEF RoomCountIsExact, RoomsFrom, OpenRooms
<1>0. roomCountByIp[ip] = Cardinality(RoomsFrom(rooms, ip))
  BY RoomsFromOpen DEF RoomCountIsExact
<1>1. ASSUME NEW c \in Conns, NEW live, NEW reason, Cleanup(c, live, reason)
      PROVE  roomCountByIp'[ip] = Cardinality(RoomsFrom(rooms', ip))
  BY <1>1, CleanedCounts DEF Cleanup
<1>2. ASSUME NEW k, NEW q, NEW gone, ChangesRoom(k, q, gone)
      PROVE  roomCountByIp'[ip] = Cardinality(RoomsFrom(rooms', ip))
  <2>1. /\ k \in RoomIds
        /\ rooms[k].status = "open"
        /\ q.status = "open"
        /\ q.ownerIp = rooms[k].ownerIp
        /\ rooms' = [rooms EXCEPT ![k] = q]
        /\ roomCountByIp' = roomCountByIp
    BY <1>2 DEF ChangesRoom, IsOpen, KeepsOwner
  <2>2. rooms \in [RoomIds -> Room]
    BY DEF IndInv, TypeOK
  <2>3. RoomsFrom(rooms', ip) = RoomsFrom(rooms, ip)
    BY <2>1, <2>2 DEF RoomsFrom
  <2> QED
    BY <1>0, <2>1, <2>3
<1>3. ASSUME NEW t \in Tabs, VoiceClose(t)
      PROVE  roomCountByIp'[ip] = Cardinality(RoomsFrom(rooms', ip))
  <2>1. PICK k, u : k = tab[t].room /\ u = tab[t].user
    OBVIOUS
  <2>2. /\ u \in Conns
        /\ rooms' = Cleaned(rooms, k, u, "disconnect")
        /\ roomCountByIp' = roomCountByIp
    BY <1>3, <2>1 DEF VoiceClose, IndInv, TypeOK, TabContext
  <2>3. ~Closes(k, u, "disconnect")
    BY DEF Closes, ClosesRoom
  <2>4. RoomsFrom(rooms', ip) = RoomsFrom(rooms, ip)
    BY <2>2, <2>3, CleanedRoomsFrom
  <2> QED
    BY <1>0, <2>2, <2>4
<1>4. CASE CleanupTick
  BY <1>4, TickCounts
<1>5. CASE UNCHANGED <<rooms, conn, roomCountByIp>>
  BY <1>0, <1>5
<1>6. ASSUME NEW c \in Conns, NEW o \in RoomIds, NEW mode \in Modes, NEW locked \in BOOLEAN,
             NEW count \in Nat, Creates(c, o, mode, locked, count)
      PROVE  roomCountByIp'[ip] = Cardinality(RoomsFrom(rooms', ip))
  BY <1>6, CreatesCounts
<1>7. ASSUME NEW c \in Conns, NEW o \in RoomIds, NEW s \in 0 .. MaxSession, Enters(c, o, s)
      PROVE  roomCountByIp'[ip] = Cardinality(RoomsFrom(rooms', ip))
  BY <1>7, EntersCounts
<1> QED
  BY <1>1, <1>2, <1>3, <1>4, <1>5, <1>6, <1>7, StepForms

\* Where no room has a secret, the rooms counted against an address are exactly
\* its open rooms, whichever way they are closed.
THEOREM CountsAreExact ==
  ASSUME TRUE \notin Locking
  PROVE  Spec => []RoomCountIsExact
<1>1. Init => RoomCountIsExact
  <2> SUFFICES ASSUME Init, NEW ip \in Ips
               PROVE  roomCountByIp[ip] = Cardinality({r \in OpenRooms : rooms[r].ownerIp = ip})
    BY DEF RoomCountIsExact
  <2>1. {r \in OpenRooms : rooms[r].ownerIp = ip} = {}
    BY DEF Init, OpenRooms, UnusedRoom
  <2>2. roomCountByIp[ip] = 0
    BY DEF Init
  <2> QED
    BY <2>1, <2>2, FS_EmptySet
<1>2. IndInv /\ NoLocks /\ RoomCountIsExact /\ [Next]_vars => RoomCountIsExact'
  BY CountStep
<1> QED
  BY <1>1, <1>2, RoomsAreConsistent, NeverLocked, PTL DEF Spec

\* A creation is only counted below the limit, and nothing else counts up.
LEMMA LimitStep ==
  ASSUME IndInv, NoLocks, CountsWithinLimit, [Next]_vars
  PROVE  CountsWithinLimit'
<1> SUFFICES ASSUME NEW ip \in Ips
             PROVE  roomCountByIp'[ip] <= MaxRoomsPerIp
  BY DEF CountsWithinLimit
<1>0. /\ roomCountByIp \in [Ips -> Nat]
      /\ roomCountByIp[ip] \in Nat
      /\ roomCountByIp[ip] <= MaxRoomsPerIp
      /\ MaxRoomsPerIp \in Nat
  BY ServerConstants DEF IndInv, TypeOK, CountsWithinLimit
<1>1. ASSUME NEW counts \in [Ips -> Nat], NEW k, NEW u, NEW reason,
             counts[ip] <= MaxRoomsPerIp, roomCountByIp' = Uncounted(counts, k, u, reason)
      PROVE  roomCountByIp'[ip] <= MaxRoomsPerIp
  <2>1. roomCountByIp'[ip] \in {counts[ip], Decrement(counts[ip])}
    BY <1>1, UncountedAt
  <2>2. counts[ip] \in Nat
    OBVIOUS
  <2> QED
    BY <1>0, <1>1, <2>1, <2>2 DEF Decrement
<1>2. ASSUME NEW c \in Conns, NEW o \in RoomIds, NEW mode \in Modes, NEW locked \in BOOLEAN,
             NEW count \in Nat, Creates(c, o, mode, locked, count)
      PROVE  roomCountByIp'[ip] <= MaxRoomsPerIp
  <2> DEFINE counts == [roomCountByIp EXCEPT ![IpOf[c]] = count + 1]
  <2>1. count < MaxRoomsPerIp
    BY <1>2 DEF Creates
  <2>2. counts \in [Ips -> Nat] /\ counts[ip] <= MaxRoomsPerIp
    <3>1. count + 1 \in Nat /\ count + 1 <= MaxRoomsPerIp
      BY <1>0, <2>1
    <3>2. counts \in [Ips -> Nat]
      BY <1>0, <3>1
    <3>3. counts[ip] = IF ip = IpOf[c] THEN count + 1 ELSE roomCountByIp[ip]
      BY <1>0
    <3> HIDE DEF counts
    <3> QED
      BY <1>0, <3>1, <3>2, <3>3
  <2>3. PICK k : roomCountByIp' = Uncounted(counts, k, c, "switch")
    BY <1>2 DEF Creates, RegisterRoom
  <2> HIDE DEF counts
  <2> QED
    BY <1>1, <2>2, <2>3
<1>3. ASSUME NEW c \in Conns, NEW o \in RoomIds, NEW s \in 0 .. MaxSession, Enters(c, o, s)
      PROVE  roomCountByIp'[ip] <= MaxRoomsPerIp
  <2>1. roomCountByIp' = Uncounted(roomCountByIp, conn[c].room, c, "switch")
    BY <1>3 DEF Enters, EnterRoom
  <2> QED
    BY <1>0, <1>1, <2>1
<1>4. ASSUME NEW c \in Conns, NEW live, NEW reason, Cleanup(c, live, reason)
      PROVE  roomCountByIp'[ip] <= MaxRoomsPerIp
  <2>1. roomCountByIp' = Uncounted(roomCountByIp, conn[c].room, c, reason)
    BY <1>4 DEF Cleanup
  <2> QED
    BY <1>0, <1>1, <2>1
<1>5. ASSUME NEW k, NEW q, NEW gone, ChangesRoom(k, q, gone)
      PROVE  roomCountByIp'[ip] <= MaxRoomsPerIp
  BY <1>0, <1>5 DEF ChangesRoom
<1>6. ASSUME NEW t \in Tabs, VoiceClose(t)
      PROVE  roomCountByIp'[ip] <= MaxRoomsPerIp
  BY <1>0, <1>6 DEF VoiceClose
<1>7. CASE CleanupTick
  <2> DEFINE lost == Cardinality({r \in IdleRooms : rooms[r].ownerIp = ip})
  <2>1. roomCountByIp'[ip] = IF roomCountByIp[ip] <= lost THEN 0 ELSE roomCountByIp[ip] - lost
    BY <1>7 DEF CleanupTick
  <2>2. lost \in Nat
    <3>1. IsFiniteSet(RoomIds) /\ {r \in IdleRooms : rooms[r].ownerIp = ip} \in SUBSET RoomIds
      BY ServerConstants DEF IdleRooms, OpenRooms
    <3>2. IsFiniteSet({r \in IdleRooms : rooms[r].ownerIp = ip})
      BY <3>1, FS_Subset
    <3> QED
      BY <3>2, FS_CardinalityType
  <2> HIDE DEF lost
  <2> QED
    BY <1>0, <2>1, <2>2
<1>8. CASE UNCHANGED <<rooms, conn, roomCountByIp>>
  BY <1>0, <1>8
<1> QED
  BY <1>2, <1>3, <1>4, <1>5, <1>6, <1>7, <1>8, StepForms

\* Where no room has a secret, no address ever has more open rooms than the
\* limit: what breaks the limit elsewhere is the await of hashSecret.
THEOREM LimitHoldsWithoutSecrets ==
  ASSUME TRUE \notin Locking
  PROVE  Spec => []PerIpLimitEnforced
<1>1. Init => CountsWithinLimit
  BY ServerConstants DEF Init, CountsWithinLimit
<1>2. IndInv /\ NoLocks /\ CountsWithinLimit /\ [Next]_vars => CountsWithinLimit'
  BY LimitStep
<1>3. RoomCountIsExact /\ CountsWithinLimit => PerIpLimitEnforced
  BY DEF RoomCountIsExact, CountsWithinLimit, PerIpLimitEnforced
<1> QED
  BY <1>1, <1>2, <1>3, RoomsAreConsistent, NeverLocked, CountsAreExact, PTL DEF Spec
===============================================================================
