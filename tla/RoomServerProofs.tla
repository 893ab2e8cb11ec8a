--------------------------- MODULE RoomServerProofs ---------------------------
(***************************************************************************)
(* Proofs about the room server for every value of its constants: any      *)
(* number of connections, rooms, addresses, tabs, invites and sessions.    *)
(*                                                                         *)
(* The functions on one room come first: each yields a room, and keeps     *)
(* what Consistent says of an open one.  Then each action of RoomServer    *)
(* preserves IndInv, and the properties of RoomInvariants follow.          *)
(***************************************************************************)
EXTENDS RoomInvariants, FiniteSetTheorems, TLAPS

-------------------------------------------------------------------------------
\* Every function on rooms yields a room

LEMMA EmptyValues ==
  NoParticipant \in Participant /\ NoEntry \in Entry
  BY RoomConstants DEF NoParticipant, Participant, NoEntry, Entry, NoSession

LEMMA UnusedRoomType == UnusedRoom \in Room
  BY EmptyValues, RoomConstants DEF UnusedRoom, Room, NoSession

LEMMA CreatedRoomType ==
  ASSUME NEW c \in Conns, NEW ip \in Ips, NEW mode \in Modes, NEW locked \in BOOLEAN,
         NEW s \in Sessions
  PROVE  CreatedRoom(c, ip, mode, locked, s) \in Room
<1> DEFINE owner == [role |-> "root", direct |-> TRUE, session |-> s]
<1>1. s \in 0 .. MaxSession
  BY RoomConstants DEF Sessions
<1>2. owner \in Participant /\ ToRecoverable(owner) \in Entry
  BY <1>1 DEF Participant, Entry, Role, ToRecoverable
<1> HIDE DEF owner
<1>3. [u \in Conns |-> IF u = c THEN owner ELSE NoParticipant] \in [Conns -> Participant]
  BY <1>2, EmptyValues
<1>4. [t \in Sessions |-> IF t = s THEN ToRecoverable(owner) ELSE NoEntry] \in [Sessions -> Entry]
  BY <1>2, EmptyValues
<1>5. [u \in Conns |-> NoTab] \in [Conns -> Tabs \cup {NoTab}]
  OBVIOUS
<1> QED
  BY <1>1, <1>3, <1>4, <1>5 DEF CreatedRoom, Room, owner

LEMMA ResolvedType ==
  ASSUME NEW room \in Room, NEW s \in 0 .. MaxSession, NEW ip \in Ips,
         NEW fresh \in 1 .. MaxSession + 1,
         NeedsFresh(room, s, ip) => fresh \in Sessions
  PROVE  /\ ResolvedParticipant(room, s, ip, fresh) \in Participant
         /\ ResolvedParticipant(room, s, ip, fresh).role # "none"
  BY RoomConstants
     DEF ResolvedParticipant, Reclaimed, NeedsFresh, CanReclaimRoot, Held, Room, Participant,
         Entry, Role, Sessions, DefaultRole, NoEntry

\* What JoinedRoom changes, field by field.
LEMMA JoinedRoomFields ==
  ASSUME NEW room, NEW c, NEW p, NEW out,
         room \in Room, c \in Conns, p \in Participant, out \in SUBSET Conns
  PROVE  LET q == JoinedRoom(room, c, p, out) IN
         /\ q \in Room
         /\ q.status = room.status
         /\ q.ownerSession = room.ownerSession
         /\ q.ownerId = IF p.session = room.ownerSession THEN c ELSE room.ownerId
         /\ q.participants = [u \in Conns |-> IF u = c THEN p
                                              ELSE IF u \in out THEN NoParticipant
                                              ELSE room.participants[u]]
         /\ q.recoverable = [room.recoverable EXCEPT ![p.session] = ToRecoverable(p)]
         /\ q.connections = (room.connections \ out) \cup {c}
<1> DEFINE owner == IF p.session = room.ownerSession THEN c ELSE room.ownerId
           parts == [u \in Conns |-> IF u = c THEN p
                                     ELSE IF u \in out THEN NoParticipant
                                     ELSE room.participants[u]]
           held  == [room.recoverable EXCEPT ![p.session] = ToRecoverable(p)]
           live  == (room.connections \ out) \cup {c}
<1>1. parts \in [Conns -> Participant]
  BY EmptyValues DEF Room
<1>2. held \in [Sessions -> Entry]
  BY DEF Room, Participant, Entry, ToRecoverable
<1>3. live \in SUBSET Conns /\ owner \in Conns \cup {RestoredOwner}
  BY DEF Room
<1>4. JoinedRoom(room, c, p, out)
        = [room EXCEPT !.ownerId = owner, !.participants = parts,
                       !.recoverable = held, !.connections = live]
  BY DEF JoinedRoom, Room
<1> HIDE DEF owner, parts, held, live
<1>5. JoinedRoom(room, c, p, out) \in Room
  BY <1>1, <1>2, <1>3, <1>4, ZenonT(60) DEF Room
<1>6. LET q == JoinedRoom(room, c, p, out) IN
         /\ q.status = room.status
         /\ q.ownerSession = room.ownerSession
         /\ q.ownerId = owner
         /\ q.participants = parts
         /\ q.recoverable = held
         /\ q.connections = live
  BY <1>4 DEF Room
<1> QED
  BY <1>5, <1>6 DEF owner, parts, held, live

\* The same without the owner and the sessions.
LEMMA JoinedRoomMembers ==
  ASSUME NEW room, NEW c, NEW p, NEW out,
         room \in Room, c \in Conns, p \in Participant, out \in SUBSET Conns
  PROVE  LET q == JoinedRoom(room, c, p, out) IN
         /\ q \in Room
         /\ q.status = room.status
         /\ q.participants = [u \in Conns |-> IF u = c THEN p
                                              ELSE IF u \in out THEN NoParticipant
                                              ELSE room.participants[u]]
         /\ q.connections = (room.connections \ out) \cup {c}
<1> DEFINE q     == JoinedRoom(room, c, p, out)
           owner == IF p.session = room.ownerSession THEN c ELSE room.ownerId
           parts == [u \in Conns |-> IF u = c THEN p
                                     ELSE IF u \in out THEN NoParticipant
                                     ELSE room.participants[u]]
           held  == [room.recoverable EXCEPT ![p.session] = ToRecoverable(p)]
           live  == (room.connections \ out) \cup {c}
<1>1. /\ q \in Room
      /\ q.status = room.status
      /\ q.ownerSession = room.ownerSession
      /\ q.ownerId = owner
      /\ q.participants = parts
      /\ q.recoverable = held
      /\ q.connections = live
  BY JoinedRoomFields
<1> HIDE DEF q, owner, parts, held, live
<1> QED
  BY <1>1 DEF q, parts, live

\* What WithoutUser changes.
LEMMA WithoutUserChanges ==
  ASSUME NEW room \in Room, NEW u \in Conns, NEW reason
  PROVE  LET q == WithoutUser(room, u, reason) IN
         /\ q \in Room
         /\ q.status = room.status
         /\ q.ownerSession = room.ownerSession
         /\ q.ownerId = room.ownerId
         /\ q.participants = [room.participants EXCEPT ![u] = NoParticipant]
         /\ q.recoverable = [s \in Sessions |->
                               IF /\ s = room.participants[u].session
                                  /\ room.participants[u].role # "none"
                                  /\ reason # "disconnect"
                               THEN NoEntry ELSE room.recoverable[s]]
         /\ q.connections = room.connections \ {u}
<1> DEFINE parts == [room.participants EXCEPT ![u] = NoParticipant]
           held  == [s \in Sessions |-> IF /\ s = room.participants[u].session
                                           /\ room.participants[u].role # "none"
                                           /\ reason # "disconnect"
                                        THEN NoEntry ELSE room.recoverable[s]]
           live  == room.connections \ {u}
           heard == [room.voice EXCEPT ![u] = NoTab]
<1>1. parts \in [Conns -> Participant]
  BY EmptyValues DEF Room
<1>2. held \in [Sessions -> Entry]
  BY EmptyValues DEF Room
<1>3. live \in SUBSET Conns /\ heard \in [Conns -> Tabs \cup {NoTab}]
  BY DEF Room
<1>4. WithoutUser(room, u, reason)
        = [room EXCEPT !.participants = parts, !.connections = live,
                       !.voice = heard, !.recoverable = held]
  BY DEF WithoutUser, Room
<1> HIDE DEF parts, held, live, heard
<1>5. WithoutUser(room, u, reason) \in Room
  BY <1>1, <1>2, <1>3, <1>4 DEF Room
<1>6. LET q == WithoutUser(room, u, reason) IN
         /\ q.status = room.status
         /\ q.ownerSession = room.ownerSession
         /\ q.ownerId = room.ownerId
         /\ q.participants = parts
         /\ q.recoverable = held
         /\ q.connections = live
  BY <1>4 DEF Room
<1> QED
  BY <1>5, <1>6 DEF parts, held, live

\* The same without the sessions.
LEMMA WithoutUserFields ==
  ASSUME NEW room \in Room, NEW u \in Conns, NEW reason
  PROVE  LET q == WithoutUser(room, u, reason) IN
         /\ q \in Room
         /\ q.status = room.status
         /\ q.ownerSession = room.ownerSession
         /\ q.ownerId = room.ownerId
         /\ q.participants = [room.participants EXCEPT ![u] = NoParticipant]
         /\ q.connections = room.connections \ {u}
<1> DEFINE q == WithoutUser(room, u, reason)
           held == [s \in Sessions |-> IF /\ s = room.participants[u].session
                                          /\ room.participants[u].role # "none"
                                          /\ reason # "disconnect"
                                       THEN NoEntry ELSE room.recoverable[s]]
<1>1. /\ q \in Room
      /\ q.status = room.status
      /\ q.ownerSession = room.ownerSession
      /\ q.ownerId = room.ownerId
      /\ q.participants = [room.participants EXCEPT ![u] = NoParticipant]
      /\ q.recoverable = held
      /\ q.connections = room.connections \ {u}
  BY WithoutUserChanges
<1> HIDE DEF q, held
<1> QED
  BY <1>1 DEF q

LEMMA ClosedRoomType ==
  ASSUME NEW room \in Room
  PROVE  /\ ClosedRoom(room) \in Room
         /\ ClosedRoom(room).status = "closed"
         /\ ClosedRoom(room).participants = [u \in Conns |-> NoParticipant]
<1>1. /\ [u \in Conns |-> NoParticipant] \in [Conns -> Participant]
      /\ [s \in Sessions |-> NoEntry] \in [Sessions -> Entry]
  BY EmptyValues
<1>2. {} \in SUBSET Conns
  OBVIOUS
<1> DEFINE parts == [u \in Conns |-> NoParticipant]
           held == [s \in Sessions |-> NoEntry]
<1>3. ClosedRoom(room) = [room EXCEPT !.status = "closed", !.participants = parts,
                                      !.recoverable = held, !.connections = {},
                                      !.activity = "unset"]
  BY DEF ClosedRoom
<1> HIDE DEF parts, held
<1>4. parts \in [Conns -> Participant] /\ held \in [Sessions -> Entry]
  BY <1>1 DEF parts, held
<1> QED
  BY <1>2, <1>3, <1>4, ZenonT(60) DEF Room, parts

LEMMA CleanupType ==
  ASSUME NEW room \in Room, NEW u \in Conns, NEW reason
  PROVE  RoomAfterCleanup(room, u, reason) \in Room
<1>1. WithoutUser(room, u, reason) \in Room
  BY WithoutUserFields
<1>2. ClosedRoom(WithoutUser(room, u, reason)) \in Room
  BY <1>1, ClosedRoomType
<1>3. [WithoutUser(room, u, reason) EXCEPT !.ownerId = RestoredOwner] \in Room
  BY <1>1 DEF Room
<1> QED
  BY <1>1, <1>2, <1>3 DEF RoomAfterCleanup

\* What the owner's changes do to one participant and its session.
LEMMA WithParticipantFields ==
  ASSUME NEW room \in Room, NEW u \in Conns, NEW p \in Participant, p.session \in Sessions
  PROVE  LET q == WithParticipant(room, u, p) IN
         /\ q \in Room
         /\ q.status = room.status
         /\ q.ownerSession = room.ownerSession
         /\ q.ownerId = room.ownerId
         /\ q.connections = room.connections
         /\ q.participants = [room.participants EXCEPT ![u] = p]
         /\ q.recoverable = [room.recoverable EXCEPT ![p.session] = ToRecoverable(p)]
<1> DEFINE parts == [room.participants EXCEPT ![u] = p]
           held  == [room.recoverable EXCEPT ![p.session] = ToRecoverable(p)]
<1>1. parts \in [Conns -> Participant] /\ held \in [Sessions -> Entry]
  BY DEF Room, Participant, Entry, ToRecoverable
<1>2. WithParticipant(room, u, p) = [room EXCEPT !.participants = parts, !.recoverable = held]
  BY DEF WithParticipant, Room
<1> HIDE DEF parts, held
<1>3. WithParticipant(room, u, p) \in Room
  BY <1>1, <1>2 DEF Room
<1>4. LET q == WithParticipant(room, u, p) IN
         /\ q.status = room.status
         /\ q.ownerSession = room.ownerSession
         /\ q.ownerId = room.ownerId
         /\ q.connections = room.connections
         /\ q.participants = parts
         /\ q.recoverable = held
  BY <1>2 DEF Room
<1> QED
  BY <1>3, <1>4 DEF parts, held

LEMMA RemovalFields ==
  ASSUME NEW room \in Room, NEW u \in Conns
  PROVE  LET q == RoomAfterRemoval(room, u) IN
         /\ q \in Room
         /\ q.status = room.status
         /\ q.ownerSession = room.ownerSession
         /\ q.ownerId = room.ownerId
         /\ q.connections = room.connections \ {u}
         /\ q.participants = [room.participants EXCEPT ![u] = NoParticipant]
         /\ q.recoverable = [room.recoverable EXCEPT ![room.participants[u].session] = NoEntry]
<1> DEFINE parts == [room.participants EXCEPT ![u] = NoParticipant]
           held  == [room.recoverable EXCEPT ![room.participants[u].session] = NoEntry]
           live  == room.connections \ {u}
<1>1. parts \in [Conns -> Participant] /\ held \in [Sessions -> Entry] /\ live \in SUBSET Conns
  BY EmptyValues DEF Room
<1>2. RoomAfterRemoval(room, u)
        = [room EXCEPT !.participants = parts, !.recoverable = held, !.connections = live]
  BY DEF RoomAfterRemoval, Room
<1> HIDE DEF parts, held, live
<1>3. RoomAfterRemoval(room, u) \in Room
  BY <1>1, <1>2 DEF Room
<1>4. LET q == RoomAfterRemoval(room, u) IN
         /\ q.status = room.status
         /\ q.ownerSession = room.ownerSession
         /\ q.ownerId = room.ownerId
         /\ q.connections = live
         /\ q.participants = parts
         /\ q.recoverable = held
  BY <1>2 DEF Room
<1> QED
  BY <1>3, <1>4 DEF parts, held, live

-------------------------------------------------------------------------------
\* Every function on rooms keeps an open room consistent

\* Consistent only looks at five fields.
LEMMA ConsistentFields ==
  ASSUME NEW room, NEW q, NEW n,
         q.ownerId = room.ownerId, q.ownerSession = room.ownerSession,
         q.participants = room.participants, q.recoverable = room.recoverable,
         q.connections = room.connections, Consistent(room, n)
  PROVE  Consistent(q, n)
  BY DEF Consistent, Held, Active, ToRecoverable

\* Generating more sessions leaves a room consistent.
LEMMA LaterSession ==
  ASSUME NEW room \in Room, NEW n \in Nat, NEW m \in Nat, n <= m, Consistent(room, n)
  PROVE  Consistent(room, m)
<1>1. room.ownerSession \in 1 .. m - 1
  BY DEF Consistent
<1>2. \A s \in Sessions : Held(room, s) => s < m
  BY RoomConstants DEF Consistent, Sessions
<1> QED
  BY <1>1, <1>2 DEF Consistent

\* An active participant of a consistent room holds a session that mirrors it.
LEMMA ActiveSession ==
  ASSUME NEW room, NEW n, Consistent(room, n), NEW u \in Active(room)
  PROVE  /\ u \in Conns
         /\ room.participants[u].role # "none"
         /\ room.participants[u].session \in Sessions
         /\ room.recoverable[room.participants[u].session] = ToRecoverable(room.participants[u])
         /\ Held(room, room.participants[u].session)
         /\ room.participants[u].session < n
         /\ room.participants[u].session = room.ownerSession => room.ownerId = u
<1>1. u \in Conns /\ room.participants[u].role # "none"
  BY DEF Active
<1>2. /\ room.participants[u].session \in Sessions
      /\ room.recoverable[room.participants[u].session] = ToRecoverable(room.participants[u])
      /\ room.participants[u].session = room.ownerSession => room.ownerId = u
  BY <1>1, SMT DEF Consistent
<1>3. ToRecoverable(room.participants[u]).role = room.participants[u].role
  BY DEF ToRecoverable
<1>4. Held(room, room.participants[u].session)
  BY <1>1, <1>2, <1>3 DEF Held
<1> QED
  BY <1>1, <1>2, <1>4 DEF Consistent

LEMMA CreatedConsistent ==
  ASSUME NEW c \in Conns, NEW ip \in Ips, NEW mode \in Modes, NEW locked \in BOOLEAN,
         NEW s \in Sessions
  PROVE  Consistent(CreatedRoom(c, ip, mode, locked, s), s + 1)
<1> DEFINE q == CreatedRoom(c, ip, mode, locked, s)
           owner == [role |-> "root", direct |-> TRUE, session |-> s]
<1>1. /\ q.ownerSession = s
      /\ q.ownerId = c
      /\ q.participants = [u \in Conns |-> IF u = c THEN owner ELSE NoParticipant]
      /\ q.recoverable = [t \in Sessions |-> IF t = s THEN ToRecoverable(owner) ELSE NoEntry]
      /\ q.connections = {c}
  BY DEF CreatedRoom
<1>2. Active(q) = {c}
  BY <1>1 DEF Active, NoParticipant
<1>3. s \in 1 .. (s + 1) - 1 /\ s < s + 1
  BY RoomConstants DEF Sessions
<1>4. ToRecoverable(owner).role = "root" /\ NoEntry.role = "none"
  BY DEF ToRecoverable, NoEntry
<1>5. \A t \in Sessions : Held(q, t) <=> t = s
  BY <1>1, <1>4 DEF Held
<1>6. \A u \in Conns :
        IF q.participants[u].role = "none"
        THEN q.participants[u].session = NoSession
        ELSE /\ q.participants[u].session \in Sessions
             /\ q.recoverable[q.participants[u].session] = ToRecoverable(q.participants[u])
             /\ q.participants[u].session = q.ownerSession => q.ownerId = u
  <2>1. q.participants[c] = owner /\ owner.role = "root" /\ owner.session = s
    BY <1>1
  <2>2. \A u \in Conns : u # c => q.participants[u] = NoParticipant
    BY <1>1
  <2>3. q.recoverable[s] = ToRecoverable(owner)
    BY <1>1
  <2>4. NoParticipant.role = "none" /\ NoParticipant.session = NoSession
    BY DEF NoParticipant
  <2> HIDE DEF q, owner
  <2> QED
    BY <1>1, <2>1, <2>2, <2>3, <2>4
<1>7. \A t \in Sessions : q.recoverable[t].role = "root" => t = q.ownerSession
  BY <1>1, <1>4
<1> HIDE DEF owner
<1>8. Consistent(q, s + 1)
  <2> HIDE DEF q
  <2> QED
    BY <1>1, <1>2, <1>3, <1>5, <1>6, <1>7 DEF Consistent
<1> QED
  BY <1>8

\* What a join that asks for session s gets from a consistent room: a session
\* nobody but those it displaces is using, and the owner's if it is the root.
LEMMA ResolvedSession ==
  ASSUME NEW room \in Room, NEW s \in 0 .. MaxSession, NEW ip \in Ips,
         NEW n \in 1 .. MaxSession + 1, Consistent(room, n), s < n,
         NeedsFresh(room, s, ip) => n \in Sessions
  PROVE  LET p == ResolvedParticipant(room, s, ip, n) IN
         /\ p.session \in Sessions
         /\ p.session = n \/ (p.session < n /\ p.session = s)
         /\ p.session = n => NeedsFresh(room, s, ip)
         /\ p.role = "root" => p.session = room.ownerSession
         /\ \A u \in Active(room) \ Displaced(room, s) :
              room.participants[u].session # p.session
<1> DEFINE p == ResolvedParticipant(room, s, ip, n)
<1>1. CASE Reclaimed(room, s, ip).role # "none"
  <2>1. Held(room, s) /\ Reclaimed(room, s, ip) = room.recoverable[s]
    BY <1>1 DEF Reclaimed, NoEntry
  <2>2. p.session = s /\ p.role = room.recoverable[s].role
    BY <1>1, <2>1 DEF ResolvedParticipant
  <2>3. s \in Sessions /\ s < n /\ s # n /\ s # NoSession
    BY <2>1, RoomConstants DEF Held, Sessions, NoSession
  <2>4. p.role = "root" => s = room.ownerSession
    BY <2>2, <2>3 DEF Consistent
  <2>5. \A u \in Active(room) \ Displaced(room, s) : room.participants[u].session # s
    BY <2>3 DEF Displaced, Active
  <2> HIDE DEF p
  <2> QED
    BY <2>2, <2>3, <2>4, <2>5 DEF p
<1>2. CASE Reclaimed(room, s, ip).role = "none" /\ CanReclaimRoot(room, s, ip)
  <2>1. p.session = room.ownerSession /\ s = room.ownerSession
    BY <1>2 DEF ResolvedParticipant, CanReclaimRoot
  <2>2. s \in Sessions /\ s < n /\ s # n /\ s # NoSession
    BY <2>1, RoomConstants DEF Consistent, Held, Sessions, NoSession
  <2>3. \A u \in Active(room) \ Displaced(room, s) : room.participants[u].session # s
    BY <2>2 DEF Displaced, Active
  <2> HIDE DEF p
  <2> QED
    BY <2>1, <2>2, <2>3 DEF p
<1>3. CASE Reclaimed(room, s, ip).role = "none" /\ ~CanReclaimRoot(room, s, ip)
  <2>1. p.session = n /\ p.role = DefaultRole(room)
    BY <1>3 DEF ResolvedParticipant
  <2>2. NeedsFresh(room, s, ip) /\ n \in Sessions
    BY <1>3 DEF NeedsFresh
  <2>3. p.role # "root"
    BY <2>1 DEF DefaultRole
  <2>4. \A u \in Active(room) : room.participants[u].session # n
    <3> SUFFICES ASSUME NEW u \in Active(room) PROVE room.participants[u].session # n
      OBVIOUS
    <3>1. room.participants[u].session \in Sessions /\ room.participants[u].session < n
      BY ActiveSession
    <3> QED
      BY <3>1, RoomConstants DEF Sessions
  <2> HIDE DEF p
  <2> QED
    BY <2>1, <2>2, <2>3, <2>4 DEF p
<1> QED
  BY <1>1, <1>2, <1>3

LEMMA JoinedConsistent ==
  ASSUME NEW room \in Room, NEW c \in Conns, c \notin Active(room),
         NEW s \in 0 .. MaxSession, NEW ip \in Ips,
         NEW n \in 1 .. MaxSession + 1, Consistent(room, n), s < n,
         NeedsFresh(room, s, ip) => n \in Sessions
  PROVE  Consistent(JoinedRoom(room, c, ResolvedParticipant(room, s, ip, n), Displaced(room, s)),
                    IF NeedsFresh(room, s, ip) THEN n + 1 ELSE n)
<1> DEFINE p == ResolvedParticipant(room, s, ip, n)
           out == Displaced(room, s)
           q == JoinedRoom(room, c, p, out)
           m == IF NeedsFresh(room, s, ip) THEN n + 1 ELSE n
<1>1. /\ p.session \in Sessions
      /\ p.session = n \/ p.session < n
      /\ p.session = n => NeedsFresh(room, s, ip)
      /\ p.role = "root" => p.session = room.ownerSession
      /\ \A u \in Active(room) \ out : room.participants[u].session # p.session
  BY ResolvedSession
<1>2. p \in Participant /\ p.role # "none"
  BY ResolvedType
<1>3. out \in SUBSET Conns
  BY DEF Displaced
<1>4. /\ q.ownerSession = room.ownerSession
      /\ q.ownerId = IF p.session = room.ownerSession THEN c ELSE room.ownerId
      /\ q.participants = [u \in Conns |-> IF u = c THEN p
                                           ELSE IF u \in out THEN NoParticipant
                                           ELSE room.participants[u]]
      /\ q.recoverable = [room.recoverable EXCEPT ![p.session] = ToRecoverable(p)]
      /\ q.connections = (room.connections \ out) \cup {c}
  BY <1>2, <1>3, JoinedRoomFields
<1>5. /\ NoParticipant.role = "none" /\ NoParticipant.session = NoSession
      /\ ToRecoverable(p).role = p.role
  BY DEF NoParticipant, ToRecoverable
<1>6. room.recoverable \in [Sessions -> Entry] /\ n \in Nat /\ m \in Nat /\ n <= m
  BY RoomConstants DEF Room
<1>7. p.session < m /\ Sessions \subseteq Nat
  BY <1>1, RoomConstants DEF Sessions
<1> HIDE DEF p, out, q, m
<1>8. Active(q) = (Active(room) \ out) \cup {c}
  BY <1>2, <1>4, <1>5 DEF Active
<1>9. q.ownerSession \in 1 .. m - 1 /\ Held(q, q.ownerSession)
  <2>1. room.ownerSession \in 1 .. n - 1 /\ Held(room, room.ownerSession)
    BY DEF Consistent
  <2> QED
    BY <1>1, <1>2, <1>4, <1>5, <1>6, <2>1 DEF Held
<1>10. \A t \in Sessions : Held(q, t) => t < m
  <2>1. \A t \in Sessions : Held(room, t) => t < n
    BY DEF Consistent
  <2> QED
    BY <1>4, <1>6, <1>7, <2>1 DEF Held
<1>11. \A t \in Sessions : q.recoverable[t].role = "root" => t = q.ownerSession
  <2>1. \A t \in Sessions : room.recoverable[t].role = "root" => t = room.ownerSession
    BY DEF Consistent
  <2> QED
    BY <1>1, <1>4, <1>5, <1>6, <2>1
<1>12. \A u \in Conns :
         IF q.participants[u].role = "none"
         THEN q.participants[u].session = NoSession
         ELSE /\ q.participants[u].session \in Sessions
              /\ q.recoverable[q.participants[u].session] = ToRecoverable(q.participants[u])
              /\ q.participants[u].session = q.ownerSession => q.ownerId = u
  <2> TAKE u \in Conns
  <2>1. CASE u = c
    BY <1>1, <1>2, <1>4, <1>6, <2>1
  <2>2. CASE u # c /\ u \in out
    BY <1>4, <1>5, <2>2
  <2>3. CASE u # c /\ u \notin out /\ u \notin Active(room)
    <3>1. q.participants[u] = room.participants[u] /\ room.participants[u].role = "none"
      BY <1>4, <2>3 DEF Active
    <3>2. room.participants[u].session = NoSession
      BY <3>1, SMT DEF Consistent
    <3> QED
      BY <3>1, <3>2
  <2>4. CASE u # c /\ u \notin out /\ u \in Active(room)
    <3>1. q.participants[u] = room.participants[u] /\ room.participants[u].session # p.session
      BY <1>1, <1>4, <2>4
    <3>2. /\ room.participants[u].role # "none"
          /\ room.participants[u].session \in Sessions
          /\ room.recoverable[room.participants[u].session] = ToRecoverable(room.participants[u])
          /\ room.participants[u].session = room.ownerSession => room.ownerId = u
      BY <2>4, ActiveSession
    <3>3. q.recoverable[room.participants[u].session]
            = room.recoverable[room.participants[u].session]
      BY <1>4, <1>6, <3>1, <3>2
    <3>4. room.participants[u].session = room.ownerSession => q.ownerId = u
      BY <1>4, <3>1, <3>2
    <3> QED
      BY <1>4, <3>1, <3>2, <3>3, <3>4
  <2> QED
    BY <2>1, <2>2, <2>3, <2>4
<1>13. \A u, v \in Active(q) : q.participants[u].session = q.participants[v].session => u = v
  <2>1. \A u \in Active(room) \ out : u \in Conns /\ u # c
    BY DEF Active
  <2>2. \A u \in Active(room) \ out : q.participants[u] = room.participants[u]
    BY <1>4, <2>1
  <2>3. q.participants[c] = p
    BY <1>4
  <2>4. \A u, v \in Active(room) :
          room.participants[u].session = room.participants[v].session => u = v
    BY DEF Consistent
  <2> QED
    BY <1>1, <1>8, <2>1, <2>2, <2>3, <2>4
<1>14. q.connections = Active(q)
  BY <1>4, <1>8 DEF Consistent
<1>15. Consistent(q, m)
  BY <1>9, <1>10, <1>11, <1>12, <1>13, <1>14 DEF Consistent
<1> QED
  BY <1>15 DEF p, out, q, m

LEMMA WithoutUserConsistent ==
  ASSUME NEW room \in Room, NEW n \in Nat, Consistent(room, n), NEW u \in Conns, NEW reason,
         room.ownerId = u => reason = "disconnect"
  PROVE  Consistent(WithoutUser(room, u, reason), n)
<1> DEFINE q == WithoutUser(room, u, reason)
           left == /\ room.participants[u].role # "none"
                   /\ reason # "disconnect"
<1>1. /\ q.ownerSession = room.ownerSession
      /\ q.ownerId = room.ownerId
      /\ q.participants = [room.participants EXCEPT ![u] = NoParticipant]
      /\ q.recoverable = [s \in Sessions |-> IF s = room.participants[u].session /\ left
                                             THEN NoEntry ELSE room.recoverable[s]]
      /\ q.connections = room.connections \ {u}
  BY WithoutUserChanges
<1>2. NoParticipant.role = "none" /\ NoParticipant.session = NoSession /\ NoEntry.role = "none"
  BY DEF NoParticipant, NoEntry
<1>3. room.participants \in [Conns -> Participant]
  BY DEF Room
<1>4. left => u \in Active(room) /\ room.ownerId # u
  BY DEF Active
<1> HIDE DEF q, left
<1>5. Active(q) = Active(room) \ {u}
  BY <1>1, <1>2, <1>3 DEF Active
<1>6. left => room.participants[u].session # room.ownerSession
  BY <1>4, ActiveSession
<1>7. q.ownerSession \in 1 .. n - 1 /\ Held(q, q.ownerSession)
  <2>1. room.ownerSession \in 1 .. n - 1 /\ Held(room, room.ownerSession)
    BY DEF Consistent
  <2> QED
    BY <1>1, <1>6, <2>1 DEF Held
<1>8. \A s \in Sessions : Held(q, s) => s < n
  <2>1. \A s \in Sessions : Held(room, s) => s < n
    BY DEF Consistent
  <2> QED
    BY <1>1, <1>2, <2>1 DEF Held
<1>9. \A s \in Sessions : q.recoverable[s].role = "root" => s = q.ownerSession
  <2>1. \A s \in Sessions : room.recoverable[s].role = "root" => s = room.ownerSession
    BY DEF Consistent
  <2> QED
    BY <1>1, <1>2, <2>1
<1>10. \A v \in Conns :
         IF q.participants[v].role = "none"
         THEN q.participants[v].session = NoSession
         ELSE /\ q.participants[v].session \in Sessions
              /\ q.recoverable[q.participants[v].session] = ToRecoverable(q.participants[v])
              /\ q.participants[v].session = q.ownerSession => q.ownerId = v
  <2> TAKE v \in Conns
  <2>1. CASE v = u
    BY <1>1, <1>2, <1>3, <2>1
  <2>2. CASE v # u /\ v \notin Active(room)
    <3>1. q.participants[v] = room.participants[v] /\ room.participants[v].role = "none"
      BY <1>1, <1>3, <2>2 DEF Active
    <3>2. room.participants[v].session = NoSession
      BY <3>1, SMT DEF Consistent
    <3> QED
      BY <3>1, <3>2
  <2>3. CASE v # u /\ v \in Active(room)
    <3>1. q.participants[v] = room.participants[v]
      BY <1>1, <1>3, <2>3
    <3>2. /\ room.participants[v].role # "none"
          /\ room.participants[v].session \in Sessions
          /\ room.recoverable[room.participants[v].session] = ToRecoverable(room.participants[v])
          /\ room.participants[v].session = room.ownerSession => room.ownerId = v
      BY <2>3, ActiveSession
    <3>3. left => room.participants[v].session # room.participants[u].session
      BY <1>4, <2>3 DEF Consistent
    <3>4. q.recoverable[room.participants[v].session]
            = room.recoverable[room.participants[v].session]
      BY <1>1, <3>2, <3>3
    <3> QED
      BY <1>1, <3>1, <3>2, <3>4
  <2> QED
    BY <2>1, <2>2, <2>3
<1>11. \A v, w \in Active(q) : q.participants[v].session = q.participants[w].session => v = w
  <2>1. \A v \in Active(room) \ {u} : q.participants[v] = room.participants[v]
    BY <1>1, <1>3 DEF Active
  <2>2. \A v, w \in Active(room) :
          room.participants[v].session = room.participants[w].session => v = w
    BY DEF Consistent
  <2> QED
    BY <1>5, <2>1, <2>2
<1>12. q.connections = Active(q)
  BY <1>1, <1>5 DEF Consistent
<1>13. Consistent(q, n)
  BY <1>7, <1>8, <1>9, <1>10, <1>11, <1>12 DEF Consistent
<1> QED
  BY <1>13 DEF q

\* A cleanup either leaves the room open, and then consistent and without u, or
\* closes it with nobody in it.
LEMMA CleanupConsistent ==
  ASSUME NEW room \in Room, NEW n \in Nat, Consistent(room, n), room.status = "open",
         NEW u \in Conns, NEW reason
  PROVE  LET q == RoomAfterCleanup(room, u, reason) IN
         \/ /\ ClosesRoom(room, u, reason)
            /\ q.status = "closed"
            /\ q.participants = [v \in Conns |-> NoParticipant]
         \/ /\ ~ClosesRoom(room, u, reason)
            /\ q.status = "open"
            /\ Consistent(q, n)
            /\ q.connections = room.connections \ {u}
            /\ \A v \in Conns \ {u} : q.participants[v] = room.participants[v]
<1> DEFINE q    == RoomAfterCleanup(room, u, reason)
           rest == WithoutUser(room, u, reason)
<1>1. /\ rest \in Room
      /\ rest.status = "open"
      /\ rest.ownerId = room.ownerId
      /\ rest.participants = [room.participants EXCEPT ![u] = NoParticipant]
      /\ rest.connections = room.connections \ {u}
  BY WithoutUserFields
<1>2. room.participants \in [Conns -> Participant]
  BY DEF Room
<1>3. \A v \in Conns \ {u} : rest.participants[v] = room.participants[v]
  BY <1>1, <1>2
<1>4. CASE ClosesRoom(room, u, reason)
  <2>1. q = ClosedRoom(rest)
    BY <1>4 DEF RoomAfterCleanup
  <2> HIDE DEF rest, q
  <2>2. q.status = "closed" /\ q.participants = [v \in Conns |-> NoParticipant]
    BY <1>1, <2>1, ClosedRoomType
  <2> QED
    BY <1>4, <2>2 DEF q
<1>5. CASE ~ClosesRoom(room, u, reason) /\ room.ownerId # u
  <2>1. q = rest
    BY <1>5 DEF RoomAfterCleanup
  <2>2. Consistent(rest, n)
    BY <1>5, WithoutUserConsistent
  <2> HIDE DEF rest, q
  <2> QED
    BY <1>1, <1>3, <1>5, <2>1, <2>2 DEF q
<1>6. CASE ~ClosesRoom(room, u, reason) /\ room.ownerId = u
  <2>1. q = [rest EXCEPT !.ownerId = RestoredOwner]
    BY <1>6 DEF RoomAfterCleanup
  <2>2. Consistent(rest, n)
    BY <1>6, WithoutUserConsistent DEF ClosesRoom
  <2> HIDE DEF rest, q
  <2>3. /\ q.status = "open"
        /\ q.ownerSession = rest.ownerSession
        /\ q.participants = rest.participants
        /\ q.recoverable = rest.recoverable
        /\ q.connections = rest.connections
    BY <1>1, <2>1 DEF Room
  <2>4. Active(q) = Active(rest) /\ \A s \in Sessions : Held(q, s) <=> Held(rest, s)
    BY <2>3 DEF Active, Held
  <2>5. Held(q, q.ownerSession)
    BY <2>2, <2>3 DEF Consistent, Held
  <2>6. rest.participants[u] = NoParticipant /\ NoParticipant.role = "none"
    BY <1>1, <1>2 DEF NoParticipant
  <2>7. \A v \in Conns : rest.participants[v].role # "none"
                           => rest.participants[v].session # rest.ownerSession
    <3> SUFFICES ASSUME NEW v \in Conns, rest.participants[v].role # "none",
                        rest.participants[v].session = rest.ownerSession
                 PROVE  FALSE
      OBVIOUS
    <3>1. v \in Active(rest)
      BY DEF Active
    <3>2. rest.ownerId = v
      BY <2>2, <3>1, ActiveSession
    <3> QED
      BY <1>1, <1>6, <2>6, <3>2
  <2>8. \A v \in Conns :
          IF q.participants[v].role = "none"
          THEN q.participants[v].session = NoSession
          ELSE /\ q.participants[v].session \in Sessions
               /\ q.recoverable[q.participants[v].session] = ToRecoverable(q.participants[v])
               /\ q.participants[v].session = q.ownerSession => q.ownerId = v
    BY <2>2, <2>3, <2>7, SMT DEF Consistent
  <2>9. Consistent(q, n)
    BY <2>2, <2>3, <2>4, <2>5, <2>8 DEF Consistent
  <2> QED
    BY <1>1, <1>3, <1>6, <2>3, <2>9 DEF q
<1> QED
  BY <1>4, <1>5, <1>6

LEMMA WithParticipantConsistent ==
  ASSUME NEW room \in Room, NEW n, Consistent(room, n), NEW u \in Active(room),
         NEW p \in Participant, p.role # "none",
         p.session = room.participants[u].session,
         p.role = "root" => p.session = room.ownerSession
  PROVE  Consistent(WithParticipant(room, u, p), n)
<1> DEFINE q == WithParticipant(room, u, p)
<1>1. /\ u \in Conns
      /\ room.participants[u].role # "none"
      /\ p.session \in Sessions
      /\ p.session < n
      /\ p.session = room.ownerSession => room.ownerId = u
  BY ActiveSession
<1>2. /\ q.ownerSession = room.ownerSession
      /\ q.ownerId = room.ownerId
      /\ q.connections = room.connections
      /\ q.participants = [room.participants EXCEPT ![u] = p]
      /\ q.recoverable = [room.recoverable EXCEPT ![p.session] = ToRecoverable(p)]
  BY <1>1, WithParticipantFields
<1>3. ToRecoverable(p).role = p.role
  BY DEF ToRecoverable
<1>4. room.participants \in [Conns -> Participant] /\ room.recoverable \in [Sessions -> Entry]
  BY DEF Room
<1> HIDE DEF q
<1>5. Active(q) = Active(room)
  BY <1>1, <1>2, <1>4 DEF Active
<1>6. q.ownerSession \in 1 .. n - 1 /\ Held(q, q.ownerSession)
  <2>1. room.ownerSession \in 1 .. n - 1 /\ Held(room, room.ownerSession)
    BY DEF Consistent
  <2> QED
    BY <1>2, <1>3, <1>4, <2>1 DEF Held
<1>7. \A s \in Sessions : Held(q, s) => s < n
  <2>1. \A s \in Sessions : Held(room, s) => s < n
    BY DEF Consistent
  <2> QED
    BY <1>1, <1>2, <1>4, <2>1 DEF Held
<1>8. \A s \in Sessions : q.recoverable[s].role = "root" => s = q.ownerSession
  <2>1. \A s \in Sessions : room.recoverable[s].role = "root" => s = room.ownerSession
    BY DEF Consistent
  <2> QED
    BY <1>2, <1>3, <1>4, <2>1
<1>9. \A v \in Conns :
        IF q.participants[v].role = "none"
        THEN q.participants[v].session = NoSession
        ELSE /\ q.participants[v].session \in Sessions
             /\ q.recoverable[q.participants[v].session] = ToRecoverable(q.participants[v])
             /\ q.participants[v].session = q.ownerSession => q.ownerId = v
  <2> TAKE v \in Conns
  <2>1. CASE v = u
    BY <1>1, <1>2, <1>4, <2>1
  <2>2. CASE v # u /\ v \notin Active(room)
    <3>1. q.participants[v] = room.participants[v] /\ room.participants[v].role = "none"
      BY <1>2, <1>4, <2>2 DEF Active
    <3>2. room.participants[v].session = NoSession
      BY <3>1, SMT DEF Consistent
    <3> QED
      BY <3>1, <3>2
  <2>3. CASE v # u /\ v \in Active(room)
    <3>1. q.participants[v] = room.participants[v]
      BY <1>2, <1>4, <2>3
    <3>2. /\ room.participants[v].role # "none"
          /\ room.participants[v].session \in Sessions
          /\ room.recoverable[room.participants[v].session] = ToRecoverable(room.participants[v])
          /\ room.participants[v].session = room.ownerSession => room.ownerId = v
      BY <2>3, ActiveSession
    <3>3. room.participants[v].session # p.session
      BY <2>3 DEF Consistent
    <3>4. q.recoverable[room.participants[v].session]
            = room.recoverable[room.participants[v].session]
      BY <1>2, <1>4, <3>2, <3>3
    <3> QED
      BY <1>2, <3>1, <3>2, <3>4
  <2> QED
    BY <2>1, <2>2, <2>3
<1>10. \A v, w \in Active(q) : q.participants[v].session = q.participants[w].session => v = w
  <2>1. \A v \in Active(room) : q.participants[v].session = room.participants[v].session
    BY <1>2, <1>4 DEF Active
  <2>2. \A v, w \in Active(room) :
          room.participants[v].session = room.participants[w].session => v = w
    BY DEF Consistent
  <2> QED
    BY <1>5, <2>1, <2>2
<1>11. q.connections = Active(q)
  BY <1>2, <1>5 DEF Consistent
<1>12. Consistent(q, n)
  BY <1>6, <1>7, <1>8, <1>9, <1>10, <1>11 DEF Consistent
<1> QED
  BY <1>12 DEF q

\* The removal of a participant is the departure of one that is not the owner.
LEMMA RemovalConsistent ==
  ASSUME NEW room \in Room, NEW n \in Nat, Consistent(room, n), NEW u \in Active(room),
         room.ownerId # u
  PROVE  Consistent(RoomAfterRemoval(room, u), n)
<1> DEFINE q == RoomAfterRemoval(room, u)
           w == WithoutUser(room, u, "leave")
<1>1. u \in Conns /\ room.participants[u].role # "none"
  BY ActiveSession
<1>2. Consistent(w, n)
  BY <1>1, WithoutUserConsistent
<1>3. room.recoverable \in [Sessions -> Entry]
  BY DEF Room
<1>4. [room.recoverable EXCEPT ![room.participants[u].session] = NoEntry]
        = [s \in Sessions |-> IF /\ s = room.participants[u].session
                                 /\ room.participants[u].role # "none"
                                 /\ "leave" # "disconnect"
                              THEN NoEntry ELSE room.recoverable[s]]
  BY <1>1, <1>3
<1>5. /\ w.ownerSession = room.ownerSession
      /\ w.ownerId = room.ownerId
      /\ w.connections = room.connections \ {u}
      /\ w.participants = [room.participants EXCEPT ![u] = NoParticipant]
      /\ w.recoverable = [room.recoverable EXCEPT ![room.participants[u].session] = NoEntry]
  BY <1>1, <1>4, WithoutUserChanges
<1>6. /\ q.ownerSession = room.ownerSession
      /\ q.ownerId = room.ownerId
      /\ q.connections = room.connections \ {u}
      /\ q.participants = [room.participants EXCEPT ![u] = NoParticipant]
      /\ q.recoverable = [room.recoverable EXCEPT ![room.participants[u].session] = NoEntry]
  BY <1>1, RemovalFields
<1> HIDE DEF q, w
<1>7. Consistent(q, n)
  BY <1>2, <1>5, <1>6, ConsistentFields
<1> QED
  BY <1>7 DEF q

-------------------------------------------------------------------------------
\* Every action preserves IndInv

LEMMA DetachedType ==
  ASSUME NEW context \in Context
  PROVE  Detached(context) \in Context /\ Detached(context).room = NoRoom
  BY DEF Detached, Context

LEMMA IdleType == Idle \in Pending
  BY RoomConstants DEF Idle, Pending, NoSession

\* A cleanup of u's membership in room k changes that room only,
LEMMA CleanedOthers ==
  ASSUME rooms \in [RoomIds -> Room], NEW k, NEW u \in Conns, NEW reason,
         NEW r \in RoomIds, r # k
  PROVE  Cleaned(rooms, k, u, reason)[r] = rooms[r]
  BY DEF Cleaned

\* and an open one as RoomAfterCleanup says.
LEMMA CleanedItself ==
  ASSUME rooms \in [RoomIds -> Room], NEW k, NEW u \in Conns, NEW reason
  PROVE  /\ ~IsOpen(k) => Cleaned(rooms, k, u, reason) = rooms
         /\ IsOpen(k) => Cleaned(rooms, k, u, reason)[k] = RoomAfterCleanup(rooms[k], u, reason)
  BY DEF Cleaned, IsOpen

LEMMA CleanedType ==
  ASSUME rooms \in [RoomIds -> Room], NEW k, NEW u \in Conns, NEW reason
  PROVE  Cleaned(rooms, k, u, reason) \in [RoomIds -> Room]
<1>1. CASE IsOpen(k)
  <2>1. RoomAfterCleanup(rooms[k], u, reason) \in Room
    BY <1>1, CleanupType DEF IsOpen
  <2> QED
    BY <1>1, <2>1 DEF Cleaned
<1>2. CASE ~IsOpen(k)
  BY <1>2 DEF Cleaned
<1> QED
  BY <1>1, <1>2

\* The members of q are members of room, and the same participants of both.
Keeps(q, room) ==
  /\ q.connections \subseteq room.connections
  /\ \A x \in q.connections : q.participants[x] = room.participants[x]

\* A room that is open after a cleanup was open before, and lost at most u.
LEMMA CleanedOpen ==
  ASSUME IndInv, NEW k, NEW u, NEW reason, NEW r, NEW q, u \in Conns, r \in RoomIds,
         q = Cleaned(rooms, k, u, reason)[r], q.status = "open"
  PROVE  /\ IsOpen(r)
         /\ Consistent(q, nextSession)
         /\ r = k => ~Closes(k, u, reason)
         /\ Keeps(q, rooms[r])
         /\ r = k => u \notin q.connections
<1>1. /\ rooms \in [RoomIds -> Room]
      /\ nextSession \in Nat
      /\ IsOpen(r) => Consistent(rooms[r], nextSession)
  BY RoomConstants DEF IndInv, TypeOK, OpenRooms, IsOpen
<1>2. CASE r # k \/ ~IsOpen(k)
  <2>1. q = rooms[r]
    BY <1>1, <1>2, CleanedOthers, CleanedItself
  <2>2. IsOpen(r)
    BY <2>1 DEF IsOpen
  <2> QED
    BY <1>1, <1>2, <2>1, <2>2 DEF Keeps
<1>3. CASE r = k /\ IsOpen(k)
  <2>1. q = RoomAfterCleanup(rooms[k], u, reason)
    BY <1>1, <1>3, CleanedItself
  <2>2. rooms[k] \in Room /\ rooms[k].status = "open" /\ Consistent(rooms[k], nextSession)
    BY <1>1, <1>3 DEF IsOpen
  <2>3. /\ ~ClosesRoom(rooms[k], u, reason)
        /\ Consistent(q, nextSession)
        /\ q.connections = rooms[k].connections \ {u}
        /\ \A x \in Conns \ {u} : q.participants[x] = rooms[k].participants[x]
    BY <1>1, <2>1, <2>2, CleanupConsistent
  <2>4. rooms[k].connections \subseteq Conns
    BY <2>2 DEF Room
  <2> QED
    BY <1>3, <2>3, <2>4 DEF Closes, Keeps
<1> QED
  BY <1>2, <1>3

\* A room that is closed after a cleanup has nobody in it, or was before.
LEMMA CleanedClosed ==
  ASSUME IndInv, NEW k, NEW u, NEW reason, NEW r, NEW q, NEW s, u \in Conns, r \in RoomIds,
         q = Cleaned(rooms, k, u, reason)[r], q.status # "open", s \in 0 .. MaxSession
  PROVE  (~IsOpen(r) /\ q = rooms[r]) \/ Displaced(q, s) = {}
<1>1. /\ rooms \in [RoomIds -> Room]
      /\ nextSession \in Nat
      /\ IsOpen(r) => Consistent(rooms[r], nextSession)
  BY RoomConstants DEF IndInv, TypeOK, OpenRooms, IsOpen
<1>2. CASE r # k \/ ~IsOpen(k)
  <2>1. q = rooms[r]
    BY <1>1, <1>2, CleanedOthers, CleanedItself
  <2> QED
    BY <2>1 DEF IsOpen
<1>3. CASE r = k /\ IsOpen(k)
  <2>1. q = RoomAfterCleanup(rooms[k], u, reason)
    BY <1>1, <1>3, CleanedItself
  <2>2. rooms[k] \in Room /\ rooms[k].status = "open" /\ Consistent(rooms[k], nextSession)
    BY <1>1, <1>3 DEF IsOpen
  <2>3. q.participants = [x \in Conns |-> NoParticipant]
    BY <1>1, <2>1, <2>2, CleanupConsistent
  <2> QED
    BY <2>3 DEF Displaced, NoParticipant
<1> QED
  BY <1>2, <1>3

\* The connections a cleanup evicts were in the room it closes.
LEMMA EvictedWereThere ==
  ASSUME IndInv, NEW k, NEW u, NEW reason, NEW x \in Evicted(k, u, reason)
  PROVE  /\ Closes(k, u, reason)
         /\ x \in Conns
         /\ conn[x].room = k
<1>1. Closes(k, u, reason) /\ x \in rooms[k].connections
  BY DEF Evicted
<1>2. k \in OpenRooms
  BY <1>1 DEF Closes, IsOpen, OpenRooms
<1>3. rooms[k].connections \subseteq Conns
  BY <1>2 DEF IndInv, TypeOK, OpenRooms, Room
<1>4. conn[x].room = k
  BY <1>1, <1>2 DEF IndInv, ContextsAgree
<1> QED
  BY <1>1, <1>3, <1>4

\* Members of open rooms after a cleanup for the context of c: their contexts
\* are not among those the cleanup detaches.
LEMMA StayingMembers ==
  ASSUME IndInv, NEW c, NEW reason, NEW r, NEW q, NEW x, c \in Conns, r \in RoomIds,
         q = Cleaned(rooms, conn[c].room, c, reason)[r], q.status = "open",
         x \in q.connections
  PROVE  /\ x \in Conns \ {c}
         /\ x \notin Evicted(conn[c].room, c, reason)
         /\ conn[x].room = r
         /\ conn[x].role = q.participants[x].role
<1> DEFINE k == conn[c].room
<1>1. /\ IsOpen(r)
      /\ r = k => ~Closes(k, c, reason)
      /\ Keeps(q, rooms[r])
      /\ r = k => x # c
  BY CleanedOpen
<1>2. x \in rooms[r].connections /\ q.participants[x] = rooms[r].participants[x]
  BY <1>1 DEF Keeps
<1>3. conn[x].room = r /\ conn[x].role = rooms[r].participants[x].role
  BY <1>1, <1>2 DEF IndInv, ContextsAgree, IsOpen, OpenRooms
<1>4. x \in Conns
  BY <1>1, <1>2 DEF IndInv, TypeOK, Room, IsOpen
<1>5. x # c
  BY <1>1, <1>3
<1>6. x \notin Evicted(k, c, reason)
  BY <1>1, <1>3, EvictedWereThere
<1> QED
  BY <1>2, <1>3, <1>4, <1>5, <1>6

LEMMA UncountedType ==
  ASSUME NEW counts \in [Ips -> Nat], NEW k, NEW u, NEW reason
  PROVE  Uncounted(counts, k, u, reason) \in [Ips -> Nat]
<1>1. \A n \in Nat : Decrement(n) \in Nat
  BY DEF Decrement
<1>2. [counts EXCEPT ![rooms[k].ownerIp] = Decrement(@)] \in [Ips -> Nat]
  BY <1>1
<1> QED
  BY <1>2 DEF Uncounted

\* No action but BeginProtectedJoin starts a join.  The others keep what is
\* known of those under way if they move nobody into the room a join is for,
\* and leave nobody in the rooms they close.
LEMMA JoinsKept ==
  ASSUME IndInv, TypeOK',
         \A d \in Conns : Verifying(d)' => pending'[d] = pending[d],
         \A d \in Conns : Verifying(d)' => conn'[d].room \in {conn[d].room, NoRoom},
         nextSession <= nextSession',
         \A d \in Conns : \A r \in RoomIds :
           Verifying(d)' /\ pending[d].room = r /\ ~IsOpen(r)' =>
             \/ ~IsOpen(r) /\ rooms'[r] = rooms[r]
             \/ Displaced(rooms'[r], pending[d].session) = {}
  PROVE  JoinsUnderWay'
<1>1. \A d \in Conns : Verifying(d)' => Verifying(d)
  BY DEF Verifying
<1>2. ASSUME NEW d \in Conns, Verifying(d)'
      PROVE  /\ pending'[d].room \in RoomIds
             /\ pending'[d].room # conn'[d].room
             /\ pending'[d].session < nextSession'
  <2>1. /\ pending[d].room \in RoomIds
        /\ pending[d].room # conn[d].room
        /\ pending[d].session < nextSession
    BY <1>1, <1>2 DEF IndInv, JoinsUnderWay
  <2>2. pending[d].session \in Nat /\ nextSession \in Nat /\ nextSession' \in Nat
    BY RoomConstants DEF IndInv, TypeOK, Pending
  <2> QED
    BY <1>2, <2>1, <2>2, ServerConstants
<1>3. ASSUME NEW d \in Conns, NEW e \in Conns, Verifying(d)', Verifying(e)',
             pending'[d].room = pending'[e].room,
             pending'[d].session = pending'[e].session,
             pending'[d].session # NoSession
      PROVE  d = e
  <2>1. Verifying(d) /\ Verifying(e) /\ pending'[d] = pending[d] /\ pending'[e] = pending[e]
    BY <1>1, <1>3
  <2> QED
    BY <1>3, <2>1 DEF IndInv, JoinsUnderWay
<1>4. ASSUME NEW d \in Conns, Verifying(d)', ~IsOpen(pending[d].room)'
      PROVE  Displaced(rooms[pending[d].room], pending[d].session)' = {}
  <2>1. Verifying(d) /\ pending'[d] = pending[d]
    BY <1>1, <1>4
  <2>2. PICK r \in RoomIds : r = pending[d].room
    BY <2>1 DEF IndInv, JoinsUnderWay
  <2>3. ~IsOpen(r) => Displaced(rooms[r], pending[d].session) = {}
    BY <2>1, <2>2 DEF IndInv, JoinsUnderWay
  <2>4. ~IsOpen(r)' /\ pending'[d].room = r
    BY <1>4, <2>1, <2>2
  <2>5. Displaced(rooms'[r], pending[d].session) = {}
    BY <1>4, <2>2, <2>3, <2>4
  <2> QED
    BY <2>1, <2>4, <2>5
<1> QED
  BY <1>2, <1>3, <1>4 DEF JoinsUnderWay

\* The same cleanup, seen from a join under way: what it closes is left empty.
LEMMA CleanedForJoins ==
  ASSUME IndInv, NEW k, NEW u \in Conns, NEW reason,
         rooms' = Cleaned(rooms, k, u, reason)
  PROVE  \A r \in RoomIds : \A s \in 0 .. MaxSession :
           ~IsOpen(r)' => \/ ~IsOpen(r) /\ rooms'[r] = rooms[r]
                          \/ Displaced(rooms'[r], s) = {}
<1> TAKE r \in RoomIds
<1> TAKE s \in 0 .. MaxSession
<1> HAVE ~IsOpen(r)'
<1>1. rooms'[r].status # "open"
  BY DEF IsOpen
<1> QED
  BY <1>1, CleanedClosed

LEMMA CleanupStep ==
  ASSUME IndInv, NEW c \in Conns, NEW live \in BOOLEAN, NEW reason, Cleanup(c, live, reason)
  PROVE  IndInv'
<1> DEFINE k == conn[c].room
           left == [live |-> live, room |-> NoRoom, role |-> "none"]
<1>1. /\ rooms' = Cleaned(rooms, k, c, reason)
      /\ roomCountByIp' = Uncounted(roomCountByIp, k, c, reason)
      /\ conn' = [x \in Conns |-> IF x = c THEN left
                                  ELSE IF x \in Evicted(k, c, reason) THEN Detached(conn[x])
                                  ELSE conn[x]]
      /\ UNCHANGED <<tab, pending, nextSession, invites>>
  BY DEF Cleanup
<1>2. TypeOK
  BY DEF IndInv
<1>3. \A x \in Conns : Detached(conn[x]) \in Context /\ Detached(conn[x]).room = NoRoom
  BY <1>2, DetachedType DEF TypeOK
<1>4. TypeOK'
  <2>1. rooms' \in [RoomIds -> Room]
    BY <1>1, <1>2, CleanedType DEF TypeOK
  <2>2. roomCountByIp' \in [Ips -> Nat]
    BY <1>1, <1>2, UncountedType DEF TypeOK
  <2>3. left \in Context
    BY DEF Context
  <2> HIDE DEF left
  <2>4. conn' \in [Conns -> Context]
    BY <1>1, <1>2, <1>3, <2>3 DEF TypeOK
  <2> QED
    BY <1>1, <1>2, <2>1, <2>2, <2>4 DEF TypeOK
<1>5. ASSUME NEW r \in OpenRooms'
      PROVE  Consistent(rooms'[r], nextSession')
  <2>1. r \in RoomIds /\ rooms'[r].status = "open"
    BY DEF OpenRooms
  <2> QED
    BY <1>1, <2>1, CleanedOpen
<1>6. ASSUME NEW r \in OpenRooms', NEW x \in rooms'[r].connections
      PROVE  conn'[x].room = r /\ conn'[x].role = rooms'[r].participants[x].role
  <2>1. r \in RoomIds /\ rooms'[r].status = "open"
    BY DEF OpenRooms
  <2>2. /\ x \in Conns \ {c}
        /\ x \notin Evicted(k, c, reason)
        /\ conn[x].room = r
        /\ conn[x].role = rooms'[r].participants[x].role
    BY <1>1, <2>1, StayingMembers, SMTT(60)
  <2>3. conn'[x] = conn[x]
    BY <1>1, <2>2
  <2> QED
    BY <2>2, <2>3
<1>7. \A d \in Conns : conn'[d].room \in {conn[d].room, NoRoom}
  BY <1>1, <1>3
<1>8. JoinsUnderWay'
  <2>1. \A d \in Conns : pending[d].session \in 0 .. MaxSession
    BY <1>2 DEF TypeOK, Pending
  <2>2. nextSession <= nextSession'
    BY <1>1, <1>2, RoomConstants DEF TypeOK
  <2>3. \A r \in RoomIds : \A s \in 0 .. MaxSession :
           ~IsOpen(r)' => \/ ~IsOpen(r) /\ rooms'[r] = rooms[r]
                          \/ Displaced(rooms'[r], s) = {}
    BY <1>1, CleanedForJoins
  <2> QED
    BY <1>1, <1>4, <1>7, <2>1, <2>2, <2>3, JoinsKept
<1> QED
  BY <1>4, <1>5, <1>6, <1>8 DEF IndInv, ContextsAgree

LEMMA RegisterStep ==
  ASSUME IndInv, NEW c \in Conns, NEW r \in RoomIds, NEW mode \in Modes, NEW locked \in BOOLEAN,
         NEW count \in Nat, RegisterRoom(c, r, mode, locked, count), ~Verifying(c),
         pending' \in {pending, [pending EXCEPT ![c] = Idle]}
  PROVE  IndInv'
<1> DEFINE k    == conn[c].room
           rs   == Cleaned(rooms, k, c, "switch")
           room == CreatedRoom(c, IpOf[c], mode, locked, nextSession)
           here == [conn[c] EXCEPT !.room = r, !.role = "root"]
           counts == [roomCountByIp EXCEPT ![IpOf[c]] = count + 1]
<1>0. /\ rooms[r].status = "unused"
      /\ nextSession \in Sessions
      /\ nextSession' = nextSession + 1
      /\ UNCHANGED <<tab, invites>>
  BY DEF RegisterRoom
<1>1a. rooms' = [rs EXCEPT ![r] = room]
  BY DEF RegisterRoom
<1>1b. roomCountByIp' = Uncounted(counts, k, c, "switch")
  BY DEF RegisterRoom
<1>1c. conn' = [x \in Conns |-> IF x = c THEN here
                                  ELSE IF x \in Evicted(k, c, "switch") THEN Detached(conn[x])
                                  ELSE conn[x]]
  BY DEF RegisterRoom
<1>1. /\ rooms[r].status = "unused"
      /\ nextSession \in Sessions
      /\ rooms' = [rs EXCEPT ![r] = room]
      /\ roomCountByIp' = Uncounted(counts, k, c, "switch")
      /\ conn' = [x \in Conns |-> IF x = c THEN here
                                  ELSE IF x \in Evicted(k, c, "switch") THEN Detached(conn[x])
                                  ELSE conn[x]]
      /\ nextSession' = nextSession + 1
      /\ UNCHANGED <<tab, invites>>
  BY <1>0, <1>1a, <1>1b, <1>1c
<1>2. TypeOK
  BY DEF IndInv
<1>3. \A x \in Conns : Detached(conn[x]) \in Context /\ Detached(conn[x]).room = NoRoom
  BY <1>2, DetachedType DEF TypeOK
<1>4. rs \in [RoomIds -> Room]
  BY <1>2, CleanedType DEF TypeOK
<1>5. IpOf[c] \in Ips
  BY ServerConstants
<1>6. room \in Room /\ Consistent(room, nextSession + 1)
  BY <1>1, <1>5, CreatedRoomType, CreatedConsistent
<1>7. /\ room.connections = {c}
      /\ room.participants[c].role = "root"
      /\ room.status = "open"
  BY DEF CreatedRoom
<1>8. here \in Context /\ here.room = r /\ here.role = "root"
  BY <1>2, ZenonT(60) DEF TypeOK, Context, Role
<1> HIDE DEF rs, room, here, counts
<1>9. TypeOK'
  <2>1. rooms' \in [RoomIds -> Room]
    BY <1>1, <1>4, <1>6
  <2>2. roomCountByIp' \in [Ips -> Nat]
    <3>1. roomCountByIp \in [Ips -> Nat] /\ count + 1 \in Nat
      BY <1>2 DEF TypeOK
    <3>2. counts \in [Ips -> Nat]
      BY <3>1 DEF counts
    <3> QED
      BY <1>1, <3>2, UncountedType
  <2>3. conn' \in [Conns -> Context]
    BY <1>1, <1>2, <1>3, <1>8 DEF TypeOK
  <2>4. nextSession' \in 1 .. MaxSession + 1
    BY <1>1, RoomConstants DEF Sessions
  <2>5. pending' \in [Conns -> Pending]
    BY <1>2, IdleType DEF TypeOK
  <2> QED
    BY <1>1, <1>2, <2>1, <2>2, <2>3, <2>4, <2>5 DEF TypeOK
<1>10. rooms'[r] = room /\ \A q \in RoomIds \ {r} : rooms'[q] = rs[q]
  BY <1>1, <1>4
<1>11. \A q \in OpenRooms' : q # r => q \in RoomIds /\ rs[q].status = "open"
  BY <1>10 DEF OpenRooms
<1>12. ASSUME NEW q \in OpenRooms'
       PROVE  Consistent(rooms'[q], nextSession')
  <2>1. CASE q = r
    BY <1>1, <1>6, <1>10, <2>1
  <2>2. CASE q # r
    <3>1. Consistent(rs[q], nextSession)
      BY <1>11, <2>2, CleanedOpen DEF rs
    <3>2. nextSession <= nextSession' /\ nextSession \in Nat
      BY <1>1, RoomConstants DEF Sessions
    <3>3. nextSession' \in Nat /\ rs[q] \in Room
      BY <1>1, <1>4, <1>11, <2>2, RoomConstants DEF Sessions
    <3>4. Consistent(rs[q], nextSession')
      BY <3>1, <3>2, <3>3, LaterSession
    <3> QED
      BY <1>10, <1>11, <2>2, <3>4
  <2> QED
    BY <2>1, <2>2
<1>13. ASSUME NEW q \in OpenRooms', NEW x \in rooms'[q].connections
       PROVE  conn'[x].room = q /\ conn'[x].role = rooms'[q].participants[x].role
  <2>1. CASE q = r
    BY <1>1, <1>7, <1>8, <1>10, <2>1
  <2>2. CASE q # r
    <3>1. x \in rs[q].connections /\ rooms'[q] = rs[q] /\ q \in RoomIds /\ rs[q].status = "open"
      BY <1>10, <1>11, <2>2
    <3>2. /\ x \in Conns \ {c}
          /\ x \notin Evicted(k, c, "switch")
          /\ conn[x].room = q
          /\ conn[x].role = rs[q].participants[x].role
      BY <3>1, StayingMembers DEF rs
    <3>3. conn'[x] = conn[x]
      BY <1>1, <3>2
    <3> QED
      BY <3>1, <3>2, <3>3
  <2> QED
    BY <2>1, <2>2
<1>14. \A d \in Conns : Verifying(d)' => d # c /\ pending'[d] = pending[d]
  <2>1. pending \in [Conns -> Pending] /\ Idle.kind = "idle"
    BY <1>2 DEF TypeOK, Idle
  <2> QED
    BY <2>1 DEF Verifying
<1>15. \A d \in Conns : Verifying(d)' => conn'[d].room \in {conn[d].room, NoRoom}
  BY <1>1, <1>3, <1>14
<1>16. JoinsUnderWay'
  <2>1. \A d \in Conns : pending[d].session \in 0 .. MaxSession
    BY <1>2 DEF TypeOK, Pending
  <2>2. nextSession <= nextSession'
    BY <1>1, RoomConstants DEF Sessions
  <2>3. ASSUME NEW q \in RoomIds, NEW s \in 0 .. MaxSession, ~IsOpen(q)'
        PROVE  (~IsOpen(q) /\ rooms'[q] = rooms[q]) \/ Displaced(rooms'[q], s) = {}
    <3>1. rooms'[q].status # "open"
      BY <2>3 DEF IsOpen
    <3>2. q # r
      BY <1>7, <1>10, <3>1
    <3>3. rooms'[q] = rs[q] /\ rs[q].status # "open"
      BY <1>10, <3>1, <3>2
    <3>4. (~IsOpen(q) /\ rs[q] = rooms[q]) \/ Displaced(rs[q], s) = {}
      BY <3>3, CleanedClosed DEF rs
    <3> QED
      BY <3>3, <3>4
  <2> QED
    BY <1>9, <1>14, <1>15, <2>1, <2>2, <2>3, JoinsKept
<1> QED
  BY <1>9, <1>12, <1>13, <1>16 DEF IndInv, ContextsAgree

LEMMA ResolvedAsked ==
  ASSUME NEW room, NEW s, NEW ip, NEW n
  PROVE  ResolvedParticipant(room, s, ip, n).session \in {s, n}
  BY DEF ResolvedParticipant, CanReclaimRoot

\* A joined room holds nobody under session t if it did not before and the
\* newcomer does not come with t.
LEMMA JoinedDisplaced ==
  ASSUME NEW room, NEW c, NEW p, NEW out, NEW t,
         room \in Room, c \in Conns, p \in Participant, out \in SUBSET Conns,
         Displaced(room, t) = {},
         t # NoSession => p.session # t
  PROVE  Displaced(JoinedRoom(room, c, p, out), t) = {}
<1> DEFINE q == JoinedRoom(room, c, p, out)
<1>1. /\ q \in Room
      /\ q.status = room.status
      /\ q.participants = [u \in Conns |-> IF u = c THEN p
                                           ELSE IF u \in out THEN NoParticipant
                                           ELSE room.participants[u]]
      /\ q.connections = (room.connections \ out) \cup {c}
  BY JoinedRoomMembers
<1>2. NoParticipant.session = NoSession
  BY DEF NoParticipant
<1>3. \A u \in Conns : t # NoSession => room.participants[u].session # t
  BY DEF Displaced
<1> HIDE DEF q
<1>4. \A u \in Conns : t # NoSession => q.participants[u].session # t
  BY <1>1, <1>2, <1>3
<1>5. Displaced(q, t) = {}
  BY <1>4 DEF Displaced
<1> QED
  BY <1>5 DEF q

LEMMA EnterStep ==
  ASSUME IndInv, NEW c \in Conns, NEW r \in RoomIds, NEW s \in 0 .. MaxSession,
         EnterRoom(c, r, s), s < nextSession, r # conn[c].room,
         ~IsOpen(r) => Displaced(rooms[r], s) = {},
         invites' \in [Invites -> RoomIds \cup {NoRoom}],
         pending' \in [Conns -> Pending],
         \A d \in Conns : Verifying(d)' => d # c /\ pending'[d] = pending[d],
         ~IsOpen(r) => \A d \in Conns : Verifying(d)' /\ pending[d].room = r =>
                         (pending[d].session = s => s = NoSession)
  PROVE  IndInv'
<1> DEFINE k     == conn[c].room
           rs    == Cleaned(rooms, k, c, "switch")
           p     == ResolvedParticipant(rooms[r], s, IpOf[c], nextSession)
           out   == Displaced(rooms[r], s)
           fresh == NeedsFresh(rooms[r], s, IpOf[c])
           room  == JoinedRoom(rooms[r], c, p, out)
           here  == [conn[c] EXCEPT !.room = r, !.role = p.role]
<1>1. TypeOK /\ IpOf[c] \in Ips
  BY ServerConstants DEF IndInv
<1>2. rooms \in [RoomIds -> Room] /\ rooms[r] \in Room /\ nextSession \in 1 .. MaxSession + 1
  BY <1>1 DEF TypeOK
<1>3. rs \in [RoomIds -> Room] /\ rs[r] = rooms[r]
  BY <1>2, CleanedType, CleanedOthers
<1>4. fresh => nextSession \in Sessions
  BY DEF EnterRoom
<1>5. p \in Participant /\ p.role # "none" /\ out \in SUBSET Conns
  BY <1>1, <1>2, <1>4, ResolvedType DEF Displaced
<1>6. p.session \in {s, nextSession}
  BY ResolvedAsked
<1>7. rooms' = [rs EXCEPT ![r] = JoinedRoom(@, c, p, out)]
  BY DEF EnterRoom
<1>8. conn' = [x \in Conns |->
                 IF x = c THEN here
                 ELSE IF x \in Evicted(k, c, "switch") \cup (out \cap rooms[r].connections)
                 THEN Detached(conn[x])
                 ELSE conn[x]]
  BY DEF EnterRoom
<1>9. /\ roomCountByIp' = Uncounted(roomCountByIp, k, c, "switch")
      /\ nextSession' = IF fresh THEN nextSession + 1 ELSE nextSession
      /\ tab' = tab
  BY DEF EnterRoom
<1>10. /\ room \in Room
       /\ room.status = rooms[r].status
       /\ room.participants = [u \in Conns |-> IF u = c THEN p
                                               ELSE IF u \in out THEN NoParticipant
                                               ELSE rooms[r].participants[u]]
       /\ room.connections = (rooms[r].connections \ out) \cup {c}
  BY <1>2, <1>5, JoinedRoomMembers
<1>11. \A x \in Conns : Detached(conn[x]) \in Context /\ Detached(conn[x]).room = NoRoom
  BY <1>1, DetachedType DEF TypeOK
<1>12. here \in Context /\ here.room = r /\ here.role = p.role
  <2>1. conn[c] \in Context /\ p.role \in Role \cup {"none"}
    BY <1>1, <1>5 DEF TypeOK, Participant
  <2> HIDE DEF p
  <2> DEFINE context == conn[c]
             role == p.role
  <2>2. here = [context EXCEPT !.room = r, !.role = role]
    OBVIOUS
  <2> HIDE DEF here, context, role
  <2> QED
    BY <2>1, <2>2 DEF Context, context, role
<1> HIDE DEF rs, p, out, fresh, here
<1>13. rooms'[r] = room /\ \A q \in RoomIds \ {r} : rooms'[q] = rs[q]
  BY <1>3, <1>7
<1> HIDE DEF room
<1>14. nextSession' \in 1 .. MaxSession + 1 /\ nextSession <= nextSession'
  BY <1>2, <1>4, <1>9, RoomConstants DEF Sessions
<1>15. TypeOK'
  <2>1. rooms' \in [RoomIds -> Room]
    BY <1>3, <1>7, <1>10, <1>13
  <2>2. roomCountByIp' \in [Ips -> Nat]
    BY <1>1, <1>9, UncountedType DEF TypeOK
  <2>3. conn' \in [Conns -> Context]
    BY <1>1, <1>8, <1>11, <1>12 DEF TypeOK
  <2> QED
    BY <1>1, <1>9, <1>14, <2>1, <2>2, <2>3 DEF TypeOK
<1>16. \A q \in OpenRooms' : q # r => q \in RoomIds /\ rs[q].status = "open"
  BY <1>13 DEF OpenRooms
<1>17. r \in OpenRooms' => r \in OpenRooms
  BY <1>10, <1>13 DEF OpenRooms
<1>18. ASSUME NEW q \in OpenRooms'
       PROVE  Consistent(rooms'[q], nextSession')
  <2>1. CASE q = r
    <3>1. r \in OpenRooms
      BY <1>17, <2>1
    <3>2. Consistent(rooms[r], nextSession)
      BY <3>1 DEF IndInv
    <3>3. c \notin Active(rooms[r])
      BY <3>1, <3>2 DEF IndInv, ContextsAgree, Consistent
    <3>4. Consistent(room, nextSession')
      BY <1>1, <1>2, <1>4, <1>9, <3>2, <3>3, JoinedConsistent DEF room, p, out, fresh
    <3> QED
      BY <1>13, <2>1, <3>4
  <2>2. CASE q # r
    <3>1. Consistent(rs[q], nextSession)
      BY <1>16, <2>2, CleanedOpen DEF rs
    <3>2. nextSession' \in Nat /\ nextSession \in Nat /\ rs[q] \in Room
      BY <1>2, <1>3, <1>14, <1>16, <2>2, RoomConstants
    <3>3. Consistent(rs[q], nextSession')
      BY <1>14, <3>1, <3>2, LaterSession
    <3> QED
      BY <1>13, <1>16, <2>2, <3>3
  <2> QED
    BY <2>1, <2>2
<1>19. \A x \in out \cap rooms[r].connections : IsOpen(r) /\ conn[x].room = r
  <2> SUFFICES ASSUME NEW x \in out \cap rooms[r].connections
               PROVE  IsOpen(r) /\ conn[x].room = r
    OBVIOUS
  <2>1. IsOpen(r)
    BY DEF out
  <2> QED
    BY <2>1 DEF IsOpen, OpenRooms, IndInv, ContextsAgree
<1>20. ASSUME NEW q \in OpenRooms', NEW x \in rooms'[q].connections
       PROVE  conn'[x].room = q /\ conn'[x].role = rooms'[q].participants[x].role
  <2>1. CASE q = r /\ x = c
    <3>1. room.participants[c] = p
      BY <1>10
    <3> QED
      BY <1>8, <1>12, <1>13, <2>1, <3>1
  <2>2. CASE q = r /\ x # c
    <3>1. x \in rooms[r].connections /\ x \notin out
      BY <1>10, <1>13, <2>2
    <3>2. r \in OpenRooms /\ x \in Conns
      BY <1>2, <1>17, <2>2, <3>1 DEF Room
    <3>3. conn[x].room = r /\ conn[x].role = rooms[r].participants[x].role
      BY <3>1, <3>2 DEF IndInv, ContextsAgree
    <3>4. x \notin Evicted(k, c, "switch")
      BY <3>3, EvictedWereThere
    <3>5. conn'[x] = conn[x]
      BY <1>8, <2>2, <3>1, <3>2, <3>4
    <3>6. room.participants[x] = rooms[r].participants[x]
      BY <1>10, <2>2, <3>1, <3>2
    <3> QED
      BY <1>13, <2>2, <3>3, <3>5, <3>6
  <2>3. CASE q # r
    <3>1. x \in rs[q].connections /\ rooms'[q] = rs[q] /\ q \in RoomIds /\ rs[q].status = "open"
      BY <1>13, <1>16, <2>3
    <3>2. /\ x \in Conns \ {c}
          /\ x \notin Evicted(k, c, "switch")
          /\ conn[x].room = q
          /\ conn[x].role = rs[q].participants[x].role
      BY <3>1, StayingMembers DEF rs
    <3>3. conn'[x] = conn[x]
      BY <1>8, <1>19, <2>3, <3>2
    <3> QED
      BY <3>1, <3>2, <3>3
  <2> QED
    BY <2>1, <2>2, <2>3
<1>21. \A d \in Conns : Verifying(d)' => conn'[d].room \in {conn[d].room, NoRoom}
  BY <1>8, <1>11
<1>22. ASSUME NEW d \in Conns, NEW q \in RoomIds, Verifying(d)', pending[d].room = q, ~IsOpen(q)'
       PROVE  \/ ~IsOpen(q) /\ rooms'[q] = rooms[q]
              \/ Displaced(rooms'[q], pending[d].session) = {}
  <2>1. rooms'[q].status # "open" /\ pending[d].session \in 0 .. MaxSession
    BY <1>1, <1>22 DEF IsOpen, TypeOK, Pending
  <2>2. CASE q = r
    <3>1. ~IsOpen(r) /\ Verifying(d)
      BY <1>10, <1>13, <1>22, <2>1, <2>2 DEF IsOpen, Verifying
    <3>2. Displaced(rooms[r], pending[d].session) = {} /\ pending[d].session < nextSession
      BY <1>22, <2>2, <3>1 DEF IndInv, JoinsUnderWay
    <3>3. pending[d].session # NoSession => p.session # pending[d].session
      BY <1>2, <1>6, <1>22, <2>1, <2>2, <3>1, <3>2, RoomConstants
    <3>4. Displaced(room, pending[d].session) = {}
      BY <1>2, <1>5, <3>2, <3>3, JoinedDisplaced DEF room
    <3> QED
      BY <1>13, <2>2, <3>4
  <2>3. CASE q # r
    <3>1. rooms'[q] = rs[q]
      BY <1>13, <2>3
    <3>2. PICK t \in 0 .. MaxSession : t = pending[d].session
      BY <2>1
    <3>3. (~IsOpen(q) /\ rs[q] = rooms[q]) \/ Displaced(rs[q], t) = {}
      BY <2>1, <3>1, CleanedClosed, ZenonT(60) DEF rs
    <3> QED
      BY <3>1, <3>2, <3>3
  <2> QED
    BY <2>2, <2>3
<1>23. JoinsUnderWay'
  BY <1>14, <1>15, <1>21, <1>22, JoinsKept
<1> QED
  BY <1>15, <1>18, <1>20, <1>23 DEF IndInv, ContextsAgree

\* The actions that change one open room and the contexts of its members.
LEMMA OneRoomStep ==
  ASSUME IndInv, NEW r, NEW q, r \in OpenRooms, q \in Room, q.status = "open",
         Consistent(q, nextSession), rooms' = [rooms EXCEPT ![r] = q],
         UNCHANGED <<pending, roomCountByIp, nextSession, invites>>,
         tab' \in [Tabs -> TabContext],
         conn' \in [Conns -> Context],
         \A x \in q.connections : conn'[x].room = r /\ conn'[x].role = q.participants[x].role,
         \A x \in Conns : conn[x].room # r => conn'[x] = conn[x],
         \A x \in Conns : conn'[x].room \in {conn[x].room, NoRoom}
  PROVE  IndInv'
<1>1. TypeOK /\ r \in RoomIds
  BY DEF IndInv, OpenRooms
<1>2. rooms'[r] = q /\ \A o \in RoomIds \ {r} : rooms'[o] = rooms[o]
  BY <1>1 DEF TypeOK
<1>3. TypeOK'
  <2>1. rooms' \in [RoomIds -> Room]
    BY <1>1 DEF TypeOK
  <2> QED
    BY <1>1, <2>1 DEF TypeOK
<1>4. \A o \in OpenRooms' : o # r => o \in OpenRooms
  BY <1>2 DEF OpenRooms
<1>5. ASSUME NEW o \in OpenRooms'
      PROVE  Consistent(rooms'[o], nextSession')
  <2>1. CASE o = r
    BY <1>2, <2>1
  <2>2. CASE o # r
    <3>1. o \in OpenRooms /\ o \in RoomIds
      BY <1>4, <2>2 DEF OpenRooms
    <3>2. Consistent(rooms[o], nextSession)
      BY <3>1 DEF IndInv
    <3> QED
      BY <1>2, <2>2, <3>1, <3>2
  <2> QED
    BY <2>1, <2>2
<1>6. ASSUME NEW o \in OpenRooms', NEW x \in rooms'[o].connections
      PROVE  conn'[x].room = o /\ conn'[x].role = rooms'[o].participants[x].role
  <2>1. CASE o = r
    BY <1>2, <2>1
  <2>2. CASE o # r
    <3>1. o \in OpenRooms /\ rooms'[o] = rooms[o]
      BY <1>2, <1>4, <2>2 DEF OpenRooms
    <3>2. conn[x].room = o /\ conn[x].role = rooms[o].participants[x].role
      BY <3>1 DEF IndInv, ContextsAgree
    <3>3. x \in Conns
      BY <1>1, <3>1 DEF TypeOK, OpenRooms, Room
    <3> QED
      BY <2>2, <3>1, <3>2, <3>3
  <2> QED
    BY <2>1, <2>2
<1>7. JoinsUnderWay'
  <2>1. nextSession <= nextSession'
    BY <1>1, RoomConstants DEF TypeOK
  <2>2. \A o \in RoomIds : ~IsOpen(o)' => ~IsOpen(o) /\ rooms'[o] = rooms[o]
    BY <1>2 DEF IsOpen
  <2> QED
    BY <1>3, <2>1, <2>2, JoinsKept
<1> QED
  BY <1>3, <1>5, <1>6, <1>7 DEF IndInv, ContextsAgree

\* What a handler that found its context's room knows of it.
LEMMA OpenRoomFacts ==
  ASSUME IndInv, NEW r, IsOpen(r)
  PROVE  /\ r \in OpenRooms
         /\ rooms[r] \in Room
         /\ rooms[r].status = "open"
         /\ Consistent(rooms[r], nextSession)
         /\ nextSession \in Nat
         /\ rooms[r].connections = Active(rooms[r])
         /\ \A x \in rooms[r].connections :
              /\ x \in Conns
              /\ conn[x].room = r
              /\ conn[x].role = rooms[r].participants[x].role
<1>1. r \in OpenRooms /\ r \in RoomIds /\ rooms[r].status = "open"
  BY DEF IsOpen, OpenRooms
<1>2. rooms[r] \in Room /\ nextSession \in Nat
  BY <1>1, RoomConstants DEF IndInv, TypeOK
<1>3. Consistent(rooms[r], nextSession)
  BY <1>1 DEF IndInv
<1>4. rooms[r].connections = Active(rooms[r])
  BY <1>3 DEF Consistent
<1>5. \A x \in rooms[r].connections :
         conn[x].room = r /\ conn[x].role = rooms[r].participants[x].role
  BY <1>1 DEF IndInv, ContextsAgree
<1>6. \A x \in rooms[r].connections : x \in Conns
  BY <1>4 DEF Active
<1> QED
  BY <1>1, <1>2, <1>3, <1>4, <1>5, <1>6

LEMMA UpdateRoleStep ==
  ASSUME IndInv, NEW c \in Conns, NEW u \in Conns, NEW role \in {"collaborator", "viewer"},
         UpdateRole(c, u, role)
  PROVE  IndInv'
<1>1. PICK r : r = conn[c].room
  OBVIOUS
<1> DEFINE room == rooms[r]
           p == [room.participants[u] EXCEPT !.role = role,
                                             !.direct = role = "collaborator" /\ @]
           q == WithParticipant(room, u, p)
<1>2. /\ IsOpen(r)
      /\ u \in Active(room)
      /\ rooms' = [rooms EXCEPT ![r] = q]
      /\ conn' = IF u \in room.connections THEN [conn EXCEPT ![u].role = role] ELSE conn
      /\ UNCHANGED <<tab, pending, roomCountByIp, nextSession, invites>>
  BY <1>1 DEF UpdateRole, ActsAsOwner, SetRoom, RoomAfterRoleUpdate
<1>3. TypeOK
  BY DEF IndInv
<1>4. /\ r \in OpenRooms
      /\ room \in Room
      /\ room.status = "open"
      /\ Consistent(room, nextSession)
      /\ room.connections = Active(room)
      /\ \A x \in room.connections :
           x \in Conns /\ conn[x].room = r /\ conn[x].role = room.participants[x].role
  BY <1>2, OpenRoomFacts
<1>5. room.participants[u].session \in Sessions
  BY <1>2, <1>4, ActiveSession
<1>6. room.participants[u] \in Participant
  BY <1>4 DEF Room
<1>7. p \in Participant /\ p.role = role /\ p.session = room.participants[u].session
  BY <1>6 DEF Participant, Role
<1> HIDE DEF room, p, q
<1>8. q \in Room /\ q.status = "open" /\ Consistent(q, nextSession)
  <2>1. q \in Room /\ q.status = room.status
    BY <1>4, <1>5, <1>7, WithParticipantFields DEF q
  <2>2. Consistent(q, nextSession)
    BY <1>2, <1>4, <1>7, WithParticipantConsistent DEF q
  <2> QED
    BY <1>4, <2>1, <2>2
<1>9. q.connections = room.connections /\ q.participants = [room.participants EXCEPT ![u] = p]
  BY <1>4, <1>5, <1>7, WithParticipantFields, ZenonT(60) DEF q
<1>10. room.participants \in [Conns -> Participant]
  BY <1>4 DEF Room
<1>11. conn' = [conn EXCEPT ![u].role = role] /\ conn \in [Conns -> Context]
  BY <1>2, <1>3, <1>4 DEF TypeOK
<1>12. conn' \in [Conns -> Context]
  BY <1>11 DEF Context, Role
<1>13. /\ conn'[u].role = role /\ conn'[u].room = conn[u].room
       /\ \A x \in Conns \ {u} : conn'[x] = conn[x]
  BY <1>11 DEF Context
<1>14. \A x \in q.connections : conn'[x].room = r /\ conn'[x].role = q.participants[x].role
  <2> TAKE x \in q.connections
  <2>1. x \in Conns /\ conn[x].room = r /\ conn[x].role = room.participants[x].role
    BY <1>4, <1>9
  <2>2. CASE x = u
    BY <1>7, <1>9, <1>10, <1>13, <2>1, <2>2
  <2>3. CASE x # u
    BY <1>9, <1>10, <1>13, <2>1, <2>3
  <2> QED
    BY <2>2, <2>3
<1>15. conn[u].room = r
  BY <1>2, <1>4
<1>16. tab' \in [Tabs -> TabContext]
  BY <1>2, <1>3 DEF TypeOK
<1>17. /\ \A x \in Conns : conn[x].room # r => conn'[x] = conn[x]
       /\ \A x \in Conns : conn'[x].room \in {conn[x].room, NoRoom}
  BY <1>13, <1>15
<1> QED
  BY <1>2, <1>4, <1>8, <1>12, <1>14, <1>16, <1>17, OneRoomStep

LEMMA RemoveParticipantStep ==
  ASSUME IndInv, NEW c \in Conns, NEW u \in Conns, RemoveParticipant(c, u)
  PROVE  IndInv'
<1>1. PICK r : r = conn[c].room
  OBVIOUS
<1> DEFINE room == rooms[r]
           q == RoomAfterRemoval(room, u)
<1>2. /\ IsOpen(r)
      /\ room.ownerId = c /\ u # c
      /\ u \in Active(room)
      /\ rooms' = [rooms EXCEPT ![r] = q]
      /\ conn' = IF u \in room.connections THEN [conn EXCEPT ![u] = Detached(@)] ELSE conn
      /\ UNCHANGED <<tab, pending, roomCountByIp, nextSession, invites>>
  BY <1>1 DEF RemoveParticipant, ActsAsOwner, SetRoom
<1>3. TypeOK
  BY DEF IndInv
<1>4. /\ r \in OpenRooms
      /\ room \in Room
      /\ room.status = "open"
      /\ Consistent(room, nextSession)
      /\ nextSession \in Nat
      /\ room.connections = Active(room)
      /\ \A x \in room.connections :
           x \in Conns /\ conn[x].room = r /\ conn[x].role = room.participants[x].role
  BY <1>2, OpenRoomFacts
<1> HIDE DEF room, q
<1>5. q \in Room /\ q.status = "open" /\ Consistent(q, nextSession)
  <2>1. q \in Room /\ q.status = room.status
    BY <1>4, RemovalFields DEF q
  <2>2. Consistent(q, nextSession)
    BY <1>2, <1>4, RemovalConsistent DEF q
  <2> QED
    BY <1>4, <2>1, <2>2
<1>6. /\ q.connections = room.connections \ {u}
      /\ q.participants = [room.participants EXCEPT ![u] = NoParticipant]
  BY <1>4, RemovalFields DEF q
<1>7. room.participants \in [Conns -> Participant]
  BY <1>4 DEF Room
<1>8. conn' = [conn EXCEPT ![u] = Detached(conn[u])] /\ conn \in [Conns -> Context]
  BY <1>2, <1>3, <1>4 DEF TypeOK
<1>9. Detached(conn[u]) \in Context /\ Detached(conn[u]).room = NoRoom
  BY <1>8, DetachedType
<1>10. conn' \in [Conns -> Context]
  BY <1>8, <1>9
<1>11. conn'[u].room = NoRoom /\ \A x \in Conns \ {u} : conn'[x] = conn[x]
  BY <1>8, <1>9
<1>12. \A x \in q.connections : conn'[x].room = r /\ conn'[x].role = q.participants[x].role
  <2> TAKE x \in q.connections
  <2>1. x # u /\ x \in Conns /\ conn[x].room = r /\ conn[x].role = room.participants[x].role
    BY <1>4, <1>6
  <2> QED
    BY <1>6, <1>7, <1>11, <2>1
<1>13. conn[u].room = r
  BY <1>2, <1>4
<1>14. tab' \in [Tabs -> TabContext]
  BY <1>2, <1>3 DEF TypeOK
<1>15. /\ \A x \in Conns : conn[x].room # r => conn'[x] = conn[x]
       /\ \A x \in Conns : conn'[x].room \in {conn[x].room, NoRoom}
  BY <1>11, <1>13
<1> QED
  BY <1>2, <1>4, <1>5, <1>10, <1>12, <1>14, <1>15, OneRoomStep

\* The actions that change one open room and no context.
LEMMA QuietStep ==
  ASSUME IndInv, NEW r, NEW q, IsOpen(r), q \in Room, q.status = "open",
         Consistent(q, nextSession), rooms' = [rooms EXCEPT ![r] = q],
         q.connections = rooms[r].connections,
         \A x \in q.connections : q.participants[x].role = rooms[r].participants[x].role,
         UNCHANGED <<conn, pending, roomCountByIp, nextSession, invites>>,
         tab' \in [Tabs -> TabContext]
  PROVE  IndInv'
<1>1. /\ r \in OpenRooms
      /\ \A x \in rooms[r].connections :
           conn[x].room = r /\ conn[x].role = rooms[r].participants[x].role
  BY OpenRoomFacts
<1>2. conn' = conn /\ conn' \in [Conns -> Context]
  BY DEF IndInv, TypeOK
<1>3. \A x \in q.connections : conn'[x].room = r /\ conn'[x].role = q.participants[x].role
  BY <1>1, <1>2
<1> QED
  BY <1>1, <1>2, <1>3, OneRoomStep

LEMMA SetEditModeStep ==
  ASSUME IndInv, NEW c \in Conns, NEW u \in Conns, NEW direct \in BOOLEAN,
         SetEditMode(c, u, direct)
  PROVE  IndInv'
<1>1. PICK r : r = conn[c].room
  OBVIOUS
<1> DEFINE room == rooms[r]
           p == [room.participants[u] EXCEPT !.direct = direct]
           q == WithParticipant(room, u, p)
<1>2. /\ IsOpen(r)
      /\ room.participants[u].role = "collaborator"
      /\ rooms' = [rooms EXCEPT ![r] = q]
      /\ UNCHANGED <<conn, tab, pending, roomCountByIp, nextSession, invites>>
  BY <1>1 DEF SetEditMode, SetRoom, RoomAfterEditMode
<1>3. TypeOK
  BY DEF IndInv
<1>4. room \in Room /\ room.status = "open" /\ Consistent(room, nextSession)
  BY <1>2, OpenRoomFacts
<1>5. u \in Active(room)
  BY <1>2 DEF Active
<1>6. room.participants[u].session \in Sessions
  BY <1>4, <1>5, ActiveSession
<1>7. room.participants \in [Conns -> Participant]
  BY <1>4 DEF Room
<1>8. /\ p \in Participant
      /\ p.role = "collaborator"
      /\ p.session = room.participants[u].session
  BY <1>2, <1>7 DEF Participant
<1> HIDE DEF room, p, q
<1>9. /\ q \in Room
      /\ q.status = room.status
      /\ q.connections = room.connections
      /\ q.participants = [room.participants EXCEPT ![u] = p]
  BY <1>4, <1>6, <1>8, WithParticipantFields, ZenonT(60) DEF q
<1>10. Consistent(q, nextSession)
  BY <1>4, <1>5, <1>8, WithParticipantConsistent DEF q
<1>11. \A x \in q.connections : q.participants[x].role = room.participants[x].role
  <2>1. q.connections \subseteq Conns
    BY <1>9 DEF Room
  <2> QED
    BY <1>2, <1>7, <1>8, <1>9, <2>1
<1>12. tab' \in [Tabs -> TabContext]
  BY <1>2, <1>3 DEF TypeOK
<1> QED
  BY <1>2, <1>4, <1>9, <1>10, <1>11, <1>12, QuietStep DEF room

\* A room with another voice tab or age is the same room to Consistent.
LEMMA MarkedRoom ==
  ASSUME NEW room, NEW n, NEW heard, NEW age,
         room \in Room, Consistent(room, n), heard \in [Conns -> Tabs \cup {NoTab}],
         age \in {"unset", "recent", "stale"}
  PROVE  LET q == [room EXCEPT !.voice = heard, !.activity = age] IN
         /\ q \in Room
         /\ q.status = room.status
         /\ q.connections = room.connections
         /\ q.participants = room.participants
         /\ Consistent(q, n)
<1> DEFINE q == [room EXCEPT !.voice = heard, !.activity = age]
<1>1. /\ q \in Room
      /\ q.status = room.status
      /\ q.ownerId = room.ownerId
      /\ q.ownerSession = room.ownerSession
      /\ q.connections = room.connections
      /\ q.participants = room.participants
      /\ q.recoverable = room.recoverable
  BY DEF Room
<1> HIDE DEF q
<1>2. Consistent(q, n)
  BY <1>1, ConsistentFields
<1> QED
  BY <1>1, <1>2 DEF q

LEMMA VoiceJoinStep ==
  ASSUME IndInv, NEW t \in Tabs, NEW u \in Conns, NEW r \in RoomIds, VoiceJoin(t, u, r)
  PROVE  IndInv'
<1> DEFINE room  == rooms[r]
           heard == [room.voice EXCEPT ![u] = t]
           q     == [room EXCEPT !.voice = heard, !.activity = room.activity]
<1>1. /\ room \in Room
      /\ room.status = "open"
      /\ Consistent(room, nextSession)
  BY OpenRoomFacts DEF VoiceJoin
<1>2. heard \in [Conns -> Tabs \cup {NoTab}] /\ room.activity \in {"unset", "recent", "stale"}
  BY <1>1 DEF Room
<1>3. [room EXCEPT !.voice[u] = t] = q
  BY <1>1 DEF Room
<1>4. /\ IsOpen(r)
      /\ rooms' = [rooms EXCEPT ![r] = q]
      /\ UNCHANGED <<conn, pending, roomCountByIp, nextSession, invites>>
      /\ tab' = [tab EXCEPT ![t].user = u, ![t].room = r]
  BY <1>3 DEF VoiceJoin, SetRoom
<1>5. tab' \in [Tabs -> TabContext]
  BY <1>4, ZenonT(60) DEF IndInv, TypeOK, TabContext
<1> HIDE DEF room, heard
<1>6. /\ q \in Room
      /\ q.status = room.status
      /\ q.connections = room.connections
      /\ q.participants = room.participants
      /\ Consistent(q, nextSession)
  BY <1>1, <1>2, MarkedRoom
<1> HIDE DEF q
<1> QED
  BY <1>1, <1>4, <1>5, <1>6, QuietStep DEF room

LEMMA IdleTimePassesStep ==
  ASSUME IndInv, NEW r \in RoomIds, IdleTimePasses(r)
  PROVE  IndInv'
<1> DEFINE room == rooms[r]
           q    == [room EXCEPT !.voice = room.voice, !.activity = "stale"]
<1>1. /\ room \in Room
      /\ room.status = "open"
      /\ Consistent(room, nextSession)
  BY OpenRoomFacts DEF IdleTimePasses
<1>2. room.voice \in [Conns -> Tabs \cup {NoTab}]
  BY <1>1 DEF Room
<1>3. [room EXCEPT !.activity = "stale"] = q
  BY <1>1 DEF Room
<1>4. /\ IsOpen(r)
      /\ rooms' = [rooms EXCEPT ![r] = q]
      /\ UNCHANGED <<conn, tab, pending, roomCountByIp, nextSession, invites>>
  BY <1>3 DEF IdleTimePasses, SetRoom
<1>5. tab' \in [Tabs -> TabContext]
  BY <1>4 DEF IndInv, TypeOK
<1> HIDE DEF room
<1>6. /\ q \in Room
      /\ q.status = room.status
      /\ q.connections = room.connections
      /\ q.participants = room.participants
      /\ Consistent(q, nextSession)
  BY <1>1, <1>2, MarkedRoom
<1> HIDE DEF q
<1> QED
  BY <1>1, <1>4, <1>5, <1>6, QuietStep DEF room

LEMMA VoiceCloseStep ==
  ASSUME IndInv, NEW t \in Tabs, VoiceClose(t)
  PROVE  IndInv'
<1>1. PICK k, u : k = tab[t].room /\ u = tab[t].user
  OBVIOUS
<1>2. /\ u # NoUser
      /\ rooms' = Cleaned(rooms, k, u, "disconnect")
      /\ tab' = [tab EXCEPT ![t].live = FALSE, ![t].room = NoRoom]
      /\ UNCHANGED <<conn, pending, roomCountByIp, nextSession, invites>>
  BY <1>1 DEF VoiceClose
<1>3. TypeOK
  BY DEF IndInv
<1>4. u \in Conns
  BY <1>1, <1>2, <1>3 DEF TypeOK, TabContext
<1>5. TypeOK'
  <2>1. rooms' \in [RoomIds -> Room]
    BY <1>2, <1>3, <1>4, CleanedType DEF TypeOK
  <2>2. tab' \in [Tabs -> TabContext]
    BY <1>2, <1>3, ZenonT(60) DEF TypeOK, TabContext
  <2> QED
    BY <1>2, <1>3, <2>1, <2>2 DEF TypeOK
<1>6. ASSUME NEW r \in OpenRooms'
      PROVE  /\ r \in OpenRooms
             /\ Consistent(rooms'[r], nextSession')
             /\ Keeps(rooms'[r], rooms[r])
  <2>1. r \in RoomIds /\ rooms'[r].status = "open"
    BY DEF OpenRooms
  <2>2. IsOpen(r) /\ Consistent(rooms'[r], nextSession) /\ Keeps(rooms'[r], rooms[r])
    BY <1>2, <1>4, <2>1, CleanedOpen
  <2> QED
    BY <1>2, <2>2 DEF IsOpen, OpenRooms
<1>7. ASSUME NEW r \in OpenRooms', NEW x \in rooms'[r].connections
      PROVE  conn'[x].room = r /\ conn'[x].role = rooms'[r].participants[x].role
  <2>1. r \in OpenRooms /\ Keeps(rooms'[r], rooms[r])
    BY <1>6
  <2>2. x \in rooms[r].connections /\ rooms'[r].participants[x] = rooms[r].participants[x]
    BY <2>1 DEF Keeps
  <2>3. conn[x].room = r /\ conn[x].role = rooms[r].participants[x].role
    BY <2>1, <2>2 DEF IndInv, ContextsAgree
  <2> QED
    BY <1>2, <2>2, <2>3
<1>8. JoinsUnderWay'
  <2>1. \A d \in Conns : pending[d].session \in 0 .. MaxSession
    BY <1>3 DEF TypeOK, Pending
  <2>2. nextSession <= nextSession'
    BY <1>2, <1>3, RoomConstants DEF TypeOK
  <2>3. \A r \in RoomIds : \A s \in 0 .. MaxSession :
           ~IsOpen(r)' => \/ ~IsOpen(r) /\ rooms'[r] = rooms[r]
                          \/ Displaced(rooms'[r], s) = {}
    BY <1>2, <1>4, CleanedForJoins
  <2> QED
    BY <1>2, <1>5, <2>1, <2>2, <2>3, JoinsKept
<1> QED
  BY <1>5, <1>6, <1>7, <1>8 DEF IndInv, ContextsAgree

LEMMA CleanupTickStep ==
  ASSUME IndInv, CleanupTick
  PROVE  IndInv'
<1> DEFINE gone(r) == [rooms[r] EXCEPT !.status = "closed", !.activity = "unset"]
           used(r) == [rooms[r] EXCEPT !.voice = rooms[r].voice, !.activity = "recent"]
<1>1. TypeOK
  BY DEF IndInv
<1>2. \A r \in RoomIds : rooms[r] \in Room
  BY <1>1 DEF TypeOK
<1>3. ASSUME NEW r \in RoomIds
      PROVE  \/ r \in IdleRooms /\ rooms'[r] = gone(r)
             \/ IsOpen(r) /\ rooms'[r] = used(r)
             \/ rooms'[r] = rooms[r]
  <2>1. used(r) = [rooms[r] EXCEPT !.activity = "recent"]
    BY <1>2 DEF Room
  <2> HIDE DEF used, gone
  <2>2. rooms'[r] = IF r \in IdleRooms THEN gone(r)
                    ELSE IF IsOpen(r) /\ rooms[r].connections # {} THEN used(r)
                    ELSE rooms[r]
    BY <2>1 DEF CleanupTick, gone
  <2> QED
    BY <2>2
<1>4. \A r \in RoomIds : gone(r) \in Room /\ gone(r).status = "closed"
                         /\ gone(r).participants = rooms[r].participants
  BY <1>2, ZenonT(60) DEF Room
<1>5. ASSUME NEW r \in RoomIds, IsOpen(r)
      PROVE  /\ used(r) \in Room
             /\ used(r).status = rooms[r].status
             /\ used(r).connections = rooms[r].connections
             /\ used(r).participants = rooms[r].participants
             /\ Consistent(used(r), nextSession)
  <2>1. rooms[r] \in Room /\ Consistent(rooms[r], nextSession)
    BY <1>5, OpenRoomFacts
  <2>2. rooms[r].voice \in [Conns -> Tabs \cup {NoTab}]
    BY <2>1 DEF Room
  <2> QED
    BY <2>1, <2>2, MarkedRoom
<1> HIDE DEF gone, used
<1>6. TypeOK'
  <2>1. rooms' \in [RoomIds -> Room]
    <3>1. \A r \in RoomIds : rooms'[r] \in Room
      BY <1>2, <1>3, <1>4, <1>5
    <3>2. DOMAIN rooms' = RoomIds /\ rooms' = [r \in RoomIds |-> rooms'[r]]
      BY DEF CleanupTick
    <3> QED
      BY <3>1, <3>2
  <2>2. ASSUME NEW ip \in Ips
        PROVE  Cardinality({r \in IdleRooms : rooms[r].ownerIp = ip}) \in Nat
    <3>1. IsFiniteSet(RoomIds) /\ {r \in IdleRooms : rooms[r].ownerIp = ip} \subseteq RoomIds
      BY ServerConstants DEF IdleRooms, OpenRooms
    <3>2. IsFiniteSet({r \in IdleRooms : rooms[r].ownerIp = ip})
      BY <3>1, FS_Subset
    <3> QED
      BY <3>2, FS_CardinalityType
  <2>3. roomCountByIp' \in [Ips -> Nat]
    <3> DEFINE lost(ip) == Cardinality({r \in IdleRooms : rooms[r].ownerIp = ip})
    <3>1. roomCountByIp' = [ip \in Ips |-> IF roomCountByIp[ip] <= lost(ip) THEN 0
                                           ELSE roomCountByIp[ip] - lost(ip)]
      BY DEF CleanupTick
    <3>2. \A ip \in Ips : lost(ip) \in Nat
      BY <2>2
    <3>3. roomCountByIp \in [Ips -> Nat]
      BY <1>1 DEF TypeOK
    <3> HIDE DEF lost
    <3> QED
      BY <3>1, <3>2, <3>3
  <2> QED
    BY <1>1, <2>1, <2>3 DEF TypeOK, CleanupTick
<1>7. ASSUME NEW r \in OpenRooms'
      PROVE  /\ r \in OpenRooms
             /\ Consistent(rooms'[r], nextSession)
             /\ rooms'[r].connections = rooms[r].connections
             /\ rooms'[r].participants = rooms[r].participants
  <2>1. r \in RoomIds /\ rooms'[r].status = "open"
    BY DEF OpenRooms
  <2>2. \/ IsOpen(r) /\ rooms'[r] = used(r)
        \/ rooms'[r] = rooms[r]
    BY <1>3, <1>4, <2>1
  <2>3. IsOpen(r)
    BY <2>1, <2>2 DEF IsOpen
  <2>4. Consistent(rooms[r], nextSession) /\ r \in OpenRooms
    BY <2>3, OpenRoomFacts
  <2> QED
    BY <1>5, <2>1, <2>2, <2>3, <2>4
<1>8. ASSUME NEW r \in OpenRooms', NEW x \in rooms'[r].connections
      PROVE  conn'[x].room = r /\ conn'[x].role = rooms'[r].participants[x].role
  <2>1. /\ r \in OpenRooms
        /\ rooms'[r].connections = rooms[r].connections
        /\ rooms'[r].participants = rooms[r].participants
    BY <1>7
  <2>2. conn[x].room = r /\ conn[x].role = rooms[r].participants[x].role
    BY <1>8, <2>1 DEF IndInv, ContextsAgree
  <2>3. conn' = conn
    BY DEF CleanupTick
  <2> QED
    BY <2>1, <2>2, <2>3
<1>9. ASSUME NEW r \in RoomIds, NEW s \in 0 .. MaxSession, ~IsOpen(r)'
      PROVE  (~IsOpen(r) /\ rooms'[r] = rooms[r]) \/ Displaced(rooms'[r], s) = {}
  <2>1. rooms'[r].status # "open"
    BY <1>9 DEF IsOpen
  <2>2. CASE r \in IdleRooms /\ rooms'[r] = gone(r)
    <3>1. IsOpen(r) /\ rooms[r].connections = {}
      BY <2>2 DEF IdleRooms, OpenRooms, IsOpen
    <3>2. Active(rooms[r]) = {} /\ Consistent(rooms[r], nextSession)
      BY <3>1, OpenRoomFacts
    <3>3. \A u \in Conns : rooms[r].participants[u].session = NoSession
      BY <3>2, SMT DEF Consistent, Active
    <3>4. rooms'[r].participants = rooms[r].participants
      BY <1>4, <2>2
    <3>5. Displaced(rooms'[r], s) = {}
      BY <3>3, <3>4 DEF Displaced
    <3> QED
      BY <3>5
  <2>3. CASE rooms'[r] = rooms[r]
    BY <2>1, <2>3 DEF IsOpen
  <2>4. CASE IsOpen(r) /\ rooms'[r] = used(r)
    BY <1>5, <2>1, <2>4 DEF IsOpen
  <2> QED
    BY <1>3, <2>2, <2>3, <2>4
<1>10. JoinsUnderWay'
  <2>0. nextSession \in Nat
    BY <1>1, RoomConstants DEF TypeOK
  <2>1. pending' = pending /\ conn' = conn /\ nextSession' = nextSession
    BY DEF CleanupTick
  <2>2. \A d \in Conns : pending[d].session \in 0 .. MaxSession
    BY <1>1 DEF TypeOK, Pending
  <2>3. nextSession <= nextSession'
    BY <2>0, <2>1
  <2> QED
    BY <1>6, <1>9, <2>1, <2>2, <2>3, JoinsKept
<1>11. nextSession' = nextSession
  BY DEF CleanupTick
<1> QED
  BY <1>6, <1>7, <1>8, <1>10, <1>11 DEF IndInv, ContextsAgree

\* A connection's request that waits, and the end of one that was refused.
LEMMA WaitingStep ==
  ASSUME IndInv, NEW c \in Conns, NEW w \in Pending, ~(w.kind = "verifying"),
         pending' = [pending EXCEPT ![c] = w],
         UNCHANGED <<rooms, conn, tab, roomCountByIp, nextSession, invites>>
  PROVE  IndInv'
<1>1. TypeOK /\ pending \in [Conns -> Pending]
  BY DEF IndInv, TypeOK
<1>2. TypeOK'
  BY <1>1 DEF TypeOK
<1>3. \A d \in Conns : Verifying(d)' => pending'[d] = pending[d]
  BY <1>1 DEF Verifying
<1>4. JoinsUnderWay'
  <2>1. nextSession <= nextSession'
    BY <1>1, RoomConstants DEF TypeOK
  <2>2. \A r \in RoomIds : ~IsOpen(r)' => ~IsOpen(r) /\ rooms'[r] = rooms[r]
    BY DEF IsOpen
  <2>3. \A d \in Conns : conn'[d].room \in {conn[d].room, NoRoom}
    OBVIOUS
  <2> QED
    BY <1>2, <1>3, <2>1, <2>2, <2>3, JoinsKept
<1>5. OpenRooms' = OpenRooms
  BY DEF OpenRooms
<1> QED
  BY <1>2, <1>4, <1>5 DEF IndInv, ContextsAgree

\* Steps that change no room, no connection and no pending request.
LEMMA InvitesStep ==
  ASSUME IndInv, invites' \in [Invites -> RoomIds \cup {NoRoom}],
         UNCHANGED <<rooms, conn, tab, pending, roomCountByIp, nextSession>>
  PROVE  IndInv'
<1>1. TypeOK'
  BY DEF IndInv, TypeOK
<1>2. OpenRooms' = OpenRooms /\ \A r : IsOpen(r)' <=> IsOpen(r)
  BY DEF OpenRooms, IsOpen
<1>3. \A r \in OpenRooms' : Consistent(rooms'[r], nextSession')
  BY <1>2 DEF IndInv
<1>4. ContextsAgree'
  BY <1>2 DEF IndInv, ContextsAgree
<1>5. JoinsUnderWay'
  BY DEF IndInv, JoinsUnderWay, Verifying, IsOpen
<1> QED
  BY <1>1, <1>3, <1>4, <1>5 DEF IndInv

LEMMA BeginProtectedJoinStep ==
  ASSUME IndInv, NEW c \in Conns, NEW r \in RoomIds, NEW s \in 0 .. MaxSession,
         BeginProtectedJoin(c, r, s)
  PROVE  IndInv'
<1> DEFINE w == [Idle EXCEPT !.kind = "verifying", !.room = r, !.session = s]
<1>1. /\ ~JoinClaimed(r, s)
      /\ conn[c].room # r
      /\ s < nextSession
      /\ IsOpen(r)
      /\ pending' = [pending EXCEPT ![c] = w]
      /\ UNCHANGED <<rooms, conn, tab, roomCountByIp, nextSession, invites>>
  BY DEF BeginProtectedJoin, RequestsJoin
<1>2. TypeOK /\ pending \in [Conns -> Pending]
  BY DEF IndInv, TypeOK
<1>3. w \in Pending /\ w.room = r /\ w.session = s
  BY IdleType DEF Pending
<1> HIDE DEF w
<1>4. TypeOK'
  BY <1>1, <1>2, <1>3 DEF TypeOK
<1>5. pending'[c] = w /\ \A d \in Conns \ {c} : pending'[d] = pending[d]
  BY <1>1, <1>2
<1>6. \A d \in Conns \ {c} : Verifying(d)' => Verifying(d)
  BY <1>5 DEF Verifying
<1>7. \A d \in Conns : Verifying(d)' =>
        /\ pending'[d].room \in RoomIds
        /\ pending'[d].room # conn'[d].room
        /\ pending'[d].session < nextSession'
  <2> TAKE d \in Conns
  <2>1. CASE d = c
    BY <1>1, <1>3, <1>5, <2>1
  <2>2. CASE d # c
    <3>1. Verifying(d)' => /\ pending[d].room \in RoomIds
                           /\ pending[d].room # conn[d].room
                           /\ pending[d].session < nextSession
      BY <1>6, <2>2 DEF IndInv, JoinsUnderWay
    <3> QED
      BY <1>1, <1>5, <2>2, <3>1
  <2> QED
    BY <2>1, <2>2
<1>8. \A d \in Conns \ {c} : Verifying(d) /\ s # NoSession =>
        ~(pending[d].room = r /\ pending[d].session = s)
  BY <1>1 DEF JoinClaimed, Verifying
<1>9. ASSUME NEW d \in Conns, NEW e \in Conns, Verifying(d)', Verifying(e)',
             pending'[d].room = pending'[e].room,
             pending'[d].session = pending'[e].session,
             pending'[d].session # NoSession
      PROVE  d = e
  <2>1. CASE d = c /\ e # c
    BY <1>3, <1>5, <1>6, <1>8, <1>9, <2>1
  <2>2. CASE d # c /\ e = c
    BY <1>3, <1>5, <1>6, <1>8, <1>9, <2>2
  <2>3. CASE d # c /\ e # c
    <3>1. Verifying(d) /\ Verifying(e) /\ pending'[d] = pending[d] /\ pending'[e] = pending[e]
      BY <1>5, <1>6, <1>9, <2>3
    <3> QED
      BY <1>9, <3>1 DEF IndInv, JoinsUnderWay
  <2> QED
    BY <2>1, <2>2, <2>3
<1>10. ASSUME NEW d \in Conns, Verifying(d)', ~IsOpen(pending[d].room)'
       PROVE  Displaced(rooms[pending[d].room], pending[d].session)' = {}
  <2>1. d # c
    BY <1>1, <1>3, <1>5, <1>10 DEF IsOpen
  <2>2. Verifying(d) /\ pending'[d] = pending[d]
    BY <1>5, <1>6, <1>10, <2>1
  <2>3. ~IsOpen(pending[d].room)
    BY <1>1, <1>10, <2>2 DEF IsOpen
  <2>4. Displaced(rooms[pending[d].room], pending[d].session) = {}
    BY <2>2, <2>3 DEF IndInv, JoinsUnderWay
  <2> QED
    BY <1>1, <2>2, <2>4
<1>11. JoinsUnderWay'
  BY <1>7, <1>9, <1>10 DEF JoinsUnderWay
<1>12. OpenRooms' = OpenRooms
  BY <1>1 DEF OpenRooms
<1> QED
  BY <1>1, <1>4, <1>11, <1>12 DEF IndInv, ContextsAgree

LEMMA CreatingStep ==
  ASSUME IndInv, Creating
  PROVE  IndInv'
<1>1. TypeOK
  BY DEF IndInv
<1>2. ASSUME NEW c \in Conns, NEW m \in Modes, BeginProtectedCreate(c, m)
      PROVE  IndInv'
  <2> DEFINE w == [Idle EXCEPT !.kind = "hashing", !.mode = m,
                               !.count = roomCountByIp[IpOf[c]]]
  <2>1. roomCountByIp[IpOf[c]] \in Nat
    BY <1>1, ServerConstants DEF TypeOK
  <2>2. w \in Pending /\ w.kind = "hashing"
    BY <2>1, IdleType DEF Pending
  <2>3. pending' = [pending EXCEPT ![c] = w]
        /\ UNCHANGED <<rooms, conn, tab, roomCountByIp, nextSession, invites>>
    BY <1>2 DEF BeginProtectedCreate
  <2> HIDE DEF w
  <2> QED
    BY <2>2, <2>3, WaitingStep
<1>3. ASSUME NEW c \in Conns, NEW r \in RoomIds, NEW m \in Modes, CreateRoom(c, r, m)
      PROVE  IndInv'
  <2>1. roomCountByIp[IpOf[c]] \in Nat
    BY <1>1, ServerConstants DEF TypeOK
  <2>2. RegisterRoom(c, r, m, FALSE, roomCountByIp[IpOf[c]]) /\ pending' = pending
    BY <1>3 DEF CreateRoom
  <2>3. ~Verifying(c)
    BY <1>3 DEF CreateRoom, NotBusy, Verifying
  <2> QED
    BY <2>1, <2>2, <2>3, RegisterStep
<1>4. ASSUME NEW c \in Conns, NEW r \in RoomIds, CompleteProtectedCreate(c, r)
      PROVE  IndInv'
  <2>1. pending[c].mode \in Modes /\ pending[c].count \in Nat
    BY <1>1 DEF TypeOK, Pending
  <2>2. /\ RegisterRoom(c, r, pending[c].mode, TRUE, pending[c].count)
        /\ pending' = [pending EXCEPT ![c] = Idle]
    BY <1>4 DEF CompleteProtectedCreate
  <2>3. ~Verifying(c)
    BY <1>4 DEF CompleteProtectedCreate, Verifying
  <2> QED
    BY <2>1, <2>2, <2>3, RegisterStep
<1> QED
  BY <1>2, <1>3, <1>4 DEF Creating

\* A join that is granted at once, by a room that needs no secret or an invite.
LEMMA JoinAtOnceStep ==
  ASSUME IndInv, NEW c \in Conns, NEW r \in RoomIds, NEW s \in 0 .. MaxSession,
         RequestsJoin(c, r, s), IsOpen(r), EnterRoom(c, r, s), pending' = pending,
         invites' \in [Invites -> RoomIds \cup {NoRoom}]
  PROVE  IndInv'
<1>1. s < nextSession /\ r # conn[c].room /\ ~Verifying(c)
  BY DEF RequestsJoin, NotBusy, Verifying
<1>2. pending' \in [Conns -> Pending]
  BY DEF IndInv, TypeOK
<1>3. \A d \in Conns : Verifying(d)' => d # c /\ pending'[d] = pending[d]
  BY <1>1 DEF Verifying
<1> QED
  BY <1>1, <1>2, <1>3, EnterStep

LEMMA JoiningStep ==
  ASSUME IndInv, Joining
  PROVE  IndInv'
<1>1. PICK c \in Conns, r \in RoomIds, s \in 0 .. MaxSession :
        \/ JoinRoom(c, r, s)
        \/ BeginProtectedJoin(c, r, s)
        \/ DenyJoin(c, r, s)
        \/ \E i \in Invites : JoinRoomByInvite(c, r, s, i)
  BY DEF Joining
<1>2. invites \in [Invites -> RoomIds \cup {NoRoom}]
  BY DEF IndInv, TypeOK
<1>3. CASE JoinRoom(c, r, s)
  <2>1. RequestsJoin(c, r, s) /\ IsOpen(r) /\ EnterRoom(c, r, s) /\ UNCHANGED <<pending, invites>>
    BY <1>3 DEF JoinRoom
  <2> QED
    BY <1>2, <2>1, JoinAtOnceStep
<1>4. CASE BeginProtectedJoin(c, r, s)
  BY <1>4, BeginProtectedJoinStep
<1>5. CASE DenyJoin(c, r, s)
  <2> DEFINE w == [Idle EXCEPT !.kind = "denied", !.room = r, !.session = s]
  <2>1. w \in Pending /\ w.kind = "denied"
    BY IdleType DEF Pending
  <2>2. pending' = [pending EXCEPT ![c] = w]
        /\ UNCHANGED <<rooms, conn, tab, roomCountByIp, nextSession, invites>>
    BY <1>5 DEF DenyJoin
  <2> HIDE DEF w
  <2> QED
    BY <2>1, <2>2, WaitingStep
<1>6. CASE \E i \in Invites : JoinRoomByInvite(c, r, s, i)
  <2>1. PICK i \in Invites : JoinRoomByInvite(c, r, s, i)
    BY <1>6
  <2>2. /\ RequestsJoin(c, r, s) /\ IsOpen(r) /\ EnterRoom(c, r, s)
        /\ invites' = [invites EXCEPT ![i] = NoRoom]
        /\ pending' = pending
    BY <2>1 DEF JoinRoomByInvite
  <2>3. invites' \in [Invites -> RoomIds \cup {NoRoom}]
    BY <1>2, <2>2
  <2> QED
    BY <2>2, <2>3, JoinAtOnceStep
<1> QED
  BY <1>1, <1>3, <1>4, <1>5, <1>6

LEMMA CompleteProtectedJoinStep ==
  ASSUME IndInv, NEW c \in Conns, CompleteProtectedJoin(c)
  PROVE  IndInv'
<1>1. PICK r, s : r = pending[c].room /\ s = pending[c].session
  OBVIOUS
<1>2. /\ Verifying(c)
      /\ EnterRoom(c, r, s)
      /\ pending' = [pending EXCEPT ![c] = Idle]
      /\ invites' = invites
  BY <1>1 DEF CompleteProtectedJoin, Verifying
<1>3. pending \in [Conns -> Pending] /\ invites \in [Invites -> RoomIds \cup {NoRoom}]
  BY DEF IndInv, TypeOK
<1>4. /\ r \in RoomIds /\ r # conn[c].room
      /\ s < nextSession
      /\ ~IsOpen(r) => Displaced(rooms[r], s) = {}
  BY <1>1, <1>2 DEF IndInv, JoinsUnderWay
<1>5. s \in 0 .. MaxSession
  BY <1>1, <1>3 DEF Pending
<1>6. pending' \in [Conns -> Pending]
  BY <1>2, <1>3, IdleType
<1>7. \A d \in Conns : Verifying(d)' => d # c /\ Verifying(d) /\ pending'[d] = pending[d]
  <2>1. Idle.kind = "idle"
    BY DEF Idle
  <2> QED
    BY <1>2, <1>3, <2>1 DEF Verifying
<1>8. \A d \in Conns : Verifying(d)' /\ pending[d].room = r =>
                         (pending[d].session = s => s = NoSession)
  BY <1>1, <1>2, <1>7 DEF IndInv, JoinsUnderWay
<1> QED
  BY <1>2, <1>3, <1>4, <1>5, <1>6, <1>7, <1>8, EnterStep

LEMMA ManagingStep ==
  ASSUME IndInv, Managing
  PROVE  IndInv'
<1>1. ASSUME NEW c \in Conns, NEW i \in Invites, CreateToken(c, i)
      PROVE  IndInv'
  <2>1. conn[c].room \in RoomIds
    BY <1>1 DEF CreateToken, ActsAsOwner, IsOpen
  <2> QED
    BY <1>1, <2>1, InvitesStep DEF CreateToken, IndInv, TypeOK
<1> QED
  BY <1>1, UpdateRoleStep, RemoveParticipantStep, SetEditModeStep DEF Managing

-------------------------------------------------------------------------------
\* The theorems

\* Nothing is wrong before the first request.
LEMMA InitIndInv == Init => IndInv
<1> SUFFICES ASSUME Init PROVE IndInv
  OBVIOUS
<1>1. rooms = [r \in RoomIds |-> UnusedRoom]
  BY DEF Init
<1>2. rooms \in [RoomIds -> Room]
  BY <1>1, UnusedRoomType
<1>3. UnusedRoom.status = "unused"
  BY DEF UnusedRoom
<1>4. OpenRooms = {}
  BY <1>1, <1>3 DEF OpenRooms
<1>5. pending \in [Conns -> Pending] /\ \A c \in Conns : ~Verifying(c)
  <2>1. pending = [c \in Conns |-> Idle]
    BY DEF Init
  <2>2. Idle.kind = "idle"
    BY DEF Idle
  <2> QED
    BY <2>1, <2>2, IdleType DEF Verifying
<1>6. conn \in [Conns -> Context] /\ tab \in [Tabs -> TabContext]
  BY DEF Init, Context, TabContext
<1>7. roomCountByIp \in [Ips -> Nat] /\ invites \in [Invites -> RoomIds \cup {NoRoom}]
  BY DEF Init
<1>8. nextSession \in 1 .. MaxSession + 1
  BY RoomConstants DEF Init
<1> QED
  BY <1>2, <1>4, <1>5, <1>6, <1>7, <1>8 DEF IndInv, TypeOK, ContextsAgree, JoinsUnderWay

\* Every step preserves the invariant.
LEMMA NextIndInv == IndInv /\ [Next]_vars => IndInv'
<1> SUFFICES ASSUME IndInv, [Next]_vars PROVE IndInv'
  OBVIOUS
<1>1. ASSUME NEW c \in Conns, AnswerDeniedJoin(c)
      PROVE  IndInv'
  <2>1. ~(Idle.kind = "verifying")
    BY DEF Idle
  <2>2. /\ pending' = [pending EXCEPT ![c] = Idle]
        /\ UNCHANGED <<rooms, conn, tab, roomCountByIp, nextSession, invites>>
    BY <1>1 DEF AnswerDeniedJoin
  <2> QED
    BY <2>1, <2>2, IdleType, WaitingStep
<1>2. ASSUME NEW c \in Conns, LeaveRoom(c) \/ Disconnect(c)
      PROVE  IndInv'
  <2>1. Cleanup(c, TRUE, "leave") \/ Cleanup(c, FALSE, "disconnect")
    BY <1>2 DEF LeaveRoom, Disconnect
  <2> QED
    BY <2>1, CleanupStep
<1>3. ASSUME NEW i \in Invites, ExpireToken(i)
      PROVE  IndInv'
  BY <1>3, InvitesStep DEF ExpireToken, IndInv, TypeOK
<1>4. CASE UNCHANGED vars
  <2>1. UNCHANGED <<rooms, conn, tab, pending, roomCountByIp, nextSession, invites>>
    BY <1>4 DEF vars
  <2> QED
    BY <2>1, InvitesStep DEF IndInv, TypeOK
<1>5. CASE Creating
  BY <1>5, CreatingStep
<1>6. CASE Joining
  BY <1>6, JoiningStep
<1>7. CASE Managing
  BY <1>7, ManagingStep
<1>8. CASE \E c \in Conns : CompleteProtectedJoin(c)
  BY <1>8, CompleteProtectedJoinStep
<1>9. CASE \E t \in Tabs : VoiceClose(t) \/ \E u \in Conns, r \in RoomIds : VoiceJoin(t, u, r)
  BY <1>9, VoiceCloseStep, VoiceJoinStep
<1>10. CASE \E r \in RoomIds : IdleTimePasses(r)
  BY <1>10, IdleTimePassesStep
<1>11. CASE CleanupTick
  BY <1>11, CleanupTickStep
<1> QED
  BY <1>1, <1>2, <1>3, <1>4, <1>5, <1>6, <1>7, <1>8, <1>9, <1>10, <1>11 DEF Next

\* The inductive invariant holds in every reachable state.
THEOREM RoomsAreConsistent == Spec => []IndInv
  BY InitIndInv, NextIndInv, PTL DEF Spec

\* Every variable always has a value of its type: no count becomes negative, no
\* context or pending join names a room code that does not exist.
THEOREM TypeCorrect == Spec => []TypeOK
<1>1. IndInv => TypeOK
  BY DEF IndInv
<1> QED
  BY <1>1, RoomsAreConsistent, PTL

\* The participants of an open room are its connections, with the room and the
\* role in their contexts, whatever cleanup, takeover or eviction came before.
THEOREM MembersStayConnected == Spec => []MembersAreConnected
<1>1. IndInv => MembersAreConnected
  BY DEF IndInv, ContextsAgree, MembersAreConnected, Consistent
<1> QED
  BY <1>1, RoomsAreConsistent, PTL

\* Whoever is root is the owner and holds the owner's session, so a room never
\* has two roots.
THEOREM OnlyTheOwnerIsRoot == Spec => []RootHoldsOwnerSession
<1>1. IndInv => RootHoldsOwnerSession
  <2> SUFFICES ASSUME IndInv, NEW r \in OpenRooms, NEW u \in Conns,
                      rooms[r].participants[u].role = "root"
               PROVE  /\ rooms[r].ownerId = u
                      /\ rooms[r].participants[u].session = rooms[r].ownerSession
    BY DEF RootHoldsOwnerSession
  <2> DEFINE room == rooms[r]
             p == room.participants[u]
  <2>1. Consistent(room, nextSession)
    BY DEF IndInv
  <2>2. u \in Active(room)
    BY DEF Active
  <2>3. /\ p.session \in Sessions
        /\ room.recoverable[p.session] = ToRecoverable(p)
        /\ p.session = room.ownerSession => room.ownerId = u
    BY <2>1, <2>2, ActiveSession
  <2>4. room.recoverable[p.session].role = "root"
    BY <2>3 DEF ToRecoverable
  <2>5. p.session = room.ownerSession
    BY <2>1, <2>3, <2>4 DEF Consistent
  <2> QED
    BY <2>3, <2>5
<1> QED
  BY <1>1, RoomsAreConsistent, PTL

\* No two participants of a room use the same session.
THEOREM SessionsStayExclusive == Spec => []SessionsAreExclusive
<1>1. IndInv => SessionsAreExclusive
  BY DEF IndInv, Consistent, SessionsAreExclusive
<1> QED
  BY <1>1, RoomsAreConsistent, PTL

\* What a reconnect restores is what the participant is now.
THEOREM SessionsStayUpToDate == Spec => []SessionsRememberRoles
<1>1. IndInv => SessionsRememberRoles
  <2> SUFFICES ASSUME IndInv, NEW r \in OpenRooms, NEW u \in Active(rooms[r])
               PROVE  LET p == rooms[r].participants[u]
                      IN p.session \in Sessions /\ rooms[r].recoverable[p.session] = ToRecoverable(p)
    BY DEF SessionsRememberRoles
  <2>1. Consistent(rooms[r], nextSession)
    BY DEF IndInv
  <2> QED
    BY <2>1, ActiveSession
<1> QED
  BY <1>1, RoomsAreConsistent, PTL

\* An open room always remembers the session its owner can return with.
THEOREM OwnerCanAlwaysReturn == Spec => []OwnerCanReturn
<1>1. IndInv => OwnerCanReturn
  BY DEF IndInv, Consistent, OwnerCanReturn
<1> QED
  BY <1>1, RoomsAreConsistent, PTL

-------------------------------------------------------------------------------
\* What a step does to the sessions of one open room

\* Of the sessions generated before n, q holds none that room had given up, and
\* has changed no role if the owner was away.
Evolves(room, q, n) ==
  \A s \in Sessions : s < n /\ Held(q, s) =>
    /\ Held(room, s)
    /\ room.ownerId = RestoredOwner => q.recoverable[s].role = room.recoverable[s].role

LEMMA SameSessions ==
  ASSUME NEW room, NEW q, NEW n, q.recoverable = room.recoverable
  PROVE  Evolves(room, q, n)
  BY DEF Evolves, Held

LEMMA CleanupEvolves ==
  ASSUME NEW room, NEW u, NEW reason, NEW n, room \in Room, u \in Conns
  PROVE  Evolves(room, RoomAfterCleanup(room, u, reason), n)
<1> DEFINE q    == RoomAfterCleanup(room, u, reason)
           rest == WithoutUser(room, u, reason)
           left == /\ room.participants[u].role # "none"
                   /\ reason # "disconnect"
<1>1. /\ rest \in Room
      /\ rest.status = room.status
      /\ rest.ownerSession = room.ownerSession
      /\ rest.ownerId = room.ownerId
      /\ rest.participants = [room.participants EXCEPT ![u] = NoParticipant]
      /\ rest.recoverable = [s \in Sessions |-> IF s = room.participants[u].session /\ left
                                                THEN NoEntry ELSE room.recoverable[s]]
      /\ rest.connections = room.connections \ {u}
  BY WithoutUserChanges
<1>2. NoEntry.role = "none"
  BY DEF NoEntry
<1>3. q \in {ClosedRoom(rest), [rest EXCEPT !.ownerId = RestoredOwner], rest}
  BY DEF RoomAfterCleanup
<1> HIDE DEF rest, left, q
<1>4. ClosedRoom(rest).recoverable = [s \in Sessions |-> NoEntry]
  BY <1>1 DEF ClosedRoom, Room
<1>5. [rest EXCEPT !.ownerId = RestoredOwner].recoverable = rest.recoverable
  BY <1>1 DEF Room
<1>6. q.recoverable \in {[s \in Sessions |-> NoEntry], rest.recoverable}
  BY <1>3, <1>4, <1>5
<1>7. Evolves(room, q, n)
  BY <1>1, <1>2, <1>6 DEF Evolves, Held
<1> QED
  BY <1>7 DEF q

LEMMA JoinEvolves ==
  ASSUME NEW room \in Room, NEW c \in Conns, NEW s \in 0 .. MaxSession, NEW ip \in Ips,
         NEW n \in 1 .. MaxSession + 1, Consistent(room, n), s < n,
         NeedsFresh(room, s, ip) => n \in Sessions
  PROVE  Evolves(room,
                 JoinedRoom(room, c, ResolvedParticipant(room, s, ip, n), Displaced(room, s)), n)
<1> DEFINE p == ResolvedParticipant(room, s, ip, n)
           out == Displaced(room, s)
           q == JoinedRoom(room, c, p, out)
<1>1. p \in Participant /\ p.session \in Sessions /\ (p.session = n \/ p.session = s)
  BY ResolvedType, ResolvedSession
<1>0. out \in SUBSET Conns
  BY DEF Displaced
<1>2. /\ q \in Room
      /\ q.status = room.status
      /\ q.ownerSession = room.ownerSession
      /\ q.ownerId = IF p.session = room.ownerSession THEN c ELSE room.ownerId
      /\ q.participants = [u \in Conns |-> IF u = c THEN p
                                           ELSE IF u \in out THEN NoParticipant
                                           ELSE room.participants[u]]
      /\ q.recoverable = [room.recoverable EXCEPT ![p.session] = ToRecoverable(p)]
      /\ q.connections = (room.connections \ out) \cup {c}
  <2> HIDE DEF p, out
  <2> QED
    BY <1>0, <1>1, JoinedRoomFields
<1>3. ASSUME p.session < n
      PROVE  Held(room, p.session) /\ ToRecoverable(p).role = room.recoverable[p.session].role
  <2>1. p.session = s /\ s \in Sessions
    BY <1>1, <1>3, RoomConstants DEF Sessions
  <2>2. Reclaimed(room, s, ip).role # "none" \/ CanReclaimRoot(room, s, ip)
    <3> SUFFICES ASSUME Reclaimed(room, s, ip).role = "none", ~CanReclaimRoot(room, s, ip)
                 PROVE  FALSE
      OBVIOUS
    <3>1. p.session = n
      BY DEF ResolvedParticipant
    <3> QED
      BY <1>3, <3>1, RoomConstants
  <2>3. Held(room, room.ownerSession)
    BY DEF Consistent
  <2>4. Reclaimed(room, s, ip).role # "none"
    BY <2>2, <2>3 DEF CanReclaimRoot, Reclaimed, Held
  <2>5. Held(room, s) /\ Reclaimed(room, s, ip) = room.recoverable[s]
    BY <2>4 DEF Reclaimed, NoEntry
  <2>6. p.role = room.recoverable[s].role
    BY <2>4, <2>5 DEF ResolvedParticipant
  <2> QED
    BY <2>1, <2>5, <2>6 DEF ToRecoverable
<1>4. room.recoverable \in [Sessions -> Entry]
  BY DEF Room
<1> HIDE DEF p, q, out
<1>5. Evolves(room, q, n)
  BY <1>1, <1>2, <1>3, <1>4 DEF Evolves, Held
<1> QED
  BY <1>5 DEF p, q, out

LEMMA WithParticipantEvolves ==
  ASSUME NEW room \in Room, NEW n, Consistent(room, n), NEW u \in Active(room),
         NEW p \in Participant, p.session = room.participants[u].session,
         room.ownerId = RestoredOwner => p.role = room.participants[u].role
  PROVE  Evolves(room, WithParticipant(room, u, p), n)
<1> DEFINE q == WithParticipant(room, u, p)
<1>1. /\ u \in Conns
      /\ p.session \in Sessions
      /\ Held(room, p.session)
      /\ room.recoverable[p.session] = ToRecoverable(room.participants[u])
  BY ActiveSession
<1>2. /\ q \in Room
      /\ q.status = room.status
      /\ q.ownerSession = room.ownerSession
      /\ q.ownerId = room.ownerId
      /\ q.connections = room.connections
      /\ q.participants = [room.participants EXCEPT ![u] = p]
      /\ q.recoverable = [room.recoverable EXCEPT ![p.session] = ToRecoverable(p)]
  BY <1>1, WithParticipantFields
<1>3. room.ownerId = RestoredOwner =>
        ToRecoverable(p).role = room.recoverable[p.session].role
  BY <1>1 DEF ToRecoverable
<1>4. room.recoverable \in [Sessions -> Entry]
  BY DEF Room
<1> HIDE DEF q
<1>5. Evolves(room, q, n)
  BY <1>1, <1>2, <1>3, <1>4 DEF Evolves, Held
<1> QED
  BY <1>5 DEF q

LEMMA RemovalEvolves ==
  ASSUME NEW room, NEW u, NEW n, room \in Room, u \in Conns
  PROVE  Evolves(room, RoomAfterRemoval(room, u), n)
<1> DEFINE q == RoomAfterRemoval(room, u)
<1>1. q.recoverable = [room.recoverable EXCEPT ![room.participants[u].session] = NoEntry]
  BY RemovalFields
<1>2. NoEntry.role = "none" /\ room.recoverable \in [Sessions -> Entry]
  BY DEF NoEntry, Room
<1> HIDE DEF q
<1>3. Evolves(room, q, n)
  BY <1>1, <1>2 DEF Evolves, Held
<1> QED
  BY <1>3 DEF q

LEMMA CleanedEvolves ==
  ASSUME NEW k, NEW u, NEW reason, NEW r, NEW n, rooms \in [RoomIds -> Room],
         u \in Conns, r \in RoomIds
  PROVE  Evolves(rooms[r], Cleaned(rooms, k, u, reason)[r], n)
<1>1. CASE r # k \/ ~IsOpen(k)
  <2>1. Cleaned(rooms, k, u, reason)[r] = rooms[r]
    BY <1>1, CleanedOthers, CleanedItself
  <2> QED
    BY <2>1, SameSessions
<1>2. CASE r = k /\ IsOpen(k)
  <2>1. Cleaned(rooms, k, u, reason)[r] = RoomAfterCleanup(rooms[r], u, reason)
    BY <1>2, CleanedItself
  <2>2. rooms[r] \in Room
    OBVIOUS
  <2> QED
    BY <2>1, <2>2, CleanupEvolves
<1> QED
  BY <1>1, <1>2

LEMMA RegisterEvolves ==
  ASSUME IndInv, NEW c \in Conns, NEW o \in RoomIds, NEW mode, NEW locked, NEW count,
         RegisterRoom(c, o, mode, locked, count), NEW r \in OpenRooms
  PROVE  Evolves(rooms[r], rooms'[r], nextSession)
<1>1. PICK k : k = conn[c].room
  OBVIOUS
<1> DEFINE rs == Cleaned(rooms, k, c, "switch")
<1>2. rooms \in [RoomIds -> Room] /\ r \in RoomIds /\ rooms[r].status = "open"
  BY DEF IndInv, TypeOK, OpenRooms
<1>3. rs \in [RoomIds -> Room]
  BY <1>2, CleanedType
<1>4. /\ rooms[o].status = "unused"
      /\ rooms' = [rs EXCEPT ![o] = CreatedRoom(c, IpOf[c], mode, locked, nextSession)]
  BY <1>1 DEF RegisterRoom
<1>5. Evolves(rooms[r], rs[r], nextSession)
  BY <1>2, CleanedEvolves
<1> HIDE DEF rs
<1>6. r # o /\ rooms'[r] = rs[r]
  BY <1>2, <1>3, <1>4
<1> QED
  BY <1>5, <1>6

LEMMA EnterEvolves ==
  ASSUME IndInv, NEW c \in Conns, NEW o \in RoomIds, NEW s \in 0 .. MaxSession,
         EnterRoom(c, o, s), s < nextSession, o # conn[c].room, NEW r \in OpenRooms
  PROVE  Evolves(rooms[r], rooms'[r], nextSession)
<1>1. PICK k : k = conn[c].room
  OBVIOUS
<1> DEFINE rs == Cleaned(rooms, k, c, "switch")
           joined == JoinedRoom(rooms[o],
                                c, ResolvedParticipant(rooms[o], s, IpOf[c], nextSession),
                                Displaced(rooms[o], s))
<1>2. /\ rooms \in [RoomIds -> Room] /\ r \in RoomIds
      /\ nextSession \in 1 .. MaxSession + 1
      /\ IpOf[c] \in Ips
  BY ServerConstants DEF IndInv, TypeOK, OpenRooms
<1>3. rs \in [RoomIds -> Room] /\ rs[o] = rooms[o]
  BY <1>1, <1>2, CleanedType, CleanedOthers
<1>4. rooms' = [rs EXCEPT ![o] = JoinedRoom(@,
                                            c, ResolvedParticipant(rooms[o], s, IpOf[c], nextSession),
                                            Displaced(rooms[o], s))]
  BY <1>1 DEF EnterRoom
<1>5. NeedsFresh(rooms[o], s, IpOf[c]) => nextSession \in Sessions
  BY DEF EnterRoom
<1>6. Evolves(rooms[r], rs[r], nextSession)
  BY <1>2, CleanedEvolves
<1>7. r = o => Evolves(rooms[o], joined, nextSession)
  <2>1. r = o => rooms[o] \in Room /\ Consistent(rooms[o], nextSession)
    BY <1>2 DEF IndInv
  <2> QED
    BY <1>2, <1>5, <2>1, JoinEvolves
<1> HIDE DEF rs
<1>8. rooms'[o] = joined /\ \A q \in RoomIds \ {o} : rooms'[q] = rs[q]
  BY <1>3, <1>4
<1> HIDE DEF joined
<1>9. CASE r = o
  BY <1>7, <1>8, <1>9
<1>10. CASE r # o
  BY <1>2, <1>6, <1>8, <1>10
<1> QED
  BY <1>9, <1>10

LEMMA ManagingEvolves ==
  ASSUME IndInv, Managing, NEW r \in OpenRooms
  PROVE  Evolves(rooms[r], rooms'[r], nextSession)
<1>1. rooms \in [RoomIds -> Room] /\ r \in RoomIds
  BY DEF IndInv, TypeOK, OpenRooms
<1>2. ASSUME NEW q, rooms' = [rooms EXCEPT ![r] = q], Evolves(rooms[r], q, nextSession)
      PROVE  Evolves(rooms[r], rooms'[r], nextSession)
  <2>1. rooms'[r] = q
    BY <1>1, <1>2
  <2> QED
    BY <1>2, <2>1
<1>3. ASSUME NEW k, NEW q, k # r, rooms' = [rooms EXCEPT ![k] = q]
      PROVE  Evolves(rooms[r], rooms'[r], nextSession)
  <2>1. rooms'[r] = rooms[r]
    BY <1>1, <1>3
  <2> QED
    BY <2>1, SameSessions
<1>4. /\ rooms[r] \in Room
      /\ Consistent(rooms[r], nextSession)
      /\ rooms[r].participants \in [Conns -> Participant]
  BY <1>1 DEF IndInv, Room
<1>5. ASSUME NEW c \in Conns, NEW u \in Conns, NEW role \in {"collaborator", "viewer"},
             UpdateRole(c, u, role)
      PROVE  Evolves(rooms[r], rooms'[r], nextSession)
  <2>1. PICK k : k = conn[c].room
    OBVIOUS
  <2>2. /\ rooms[k].ownerId = c
        /\ u \in Active(rooms[k])
        /\ rooms' = [rooms EXCEPT ![k] = RoomAfterRoleUpdate(rooms[k], u, role)]
    BY <1>5, <2>1 DEF UpdateRole, ActsAsOwner, SetRoom
  <2>3. CASE k # r
    BY <1>3, <2>2, <2>3
  <2>4. CASE k = r
    <3> DEFINE p == [rooms[r].participants[u] EXCEPT !.role = role,
                                                     !.direct = role = "collaborator" /\ @]
    <3>1. p \in Participant /\ p.session = rooms[r].participants[u].session
      BY <1>4 DEF Participant, Role
    <3>2. rooms[r].ownerId # RestoredOwner
      BY <2>2, <2>4, RoomConstants
    <3>3. RoomAfterRoleUpdate(rooms[r], u, role) = WithParticipant(rooms[r], u, p)
      BY DEF RoomAfterRoleUpdate
    <3> HIDE DEF p
    <3>4. Evolves(rooms[r], WithParticipant(rooms[r], u, p), nextSession)
      BY <1>4, <2>2, <2>4, <3>1, <3>2, WithParticipantEvolves
    <3> QED
      BY <1>2, <2>2, <2>4, <3>3, <3>4
  <2> QED
    BY <2>3, <2>4
<1>6. ASSUME NEW c \in Conns, NEW u \in Conns, RemoveParticipant(c, u)
      PROVE  Evolves(rooms[r], rooms'[r], nextSession)
  <2>1. PICK k : k = conn[c].room
    OBVIOUS
  <2>2. rooms' = [rooms EXCEPT ![k] = RoomAfterRemoval(rooms[k], u)]
    BY <1>6, <2>1 DEF RemoveParticipant, SetRoom
  <2>3. CASE k # r
    BY <1>3, <2>2, <2>3
  <2>4. CASE k = r
    BY <1>2, <1>4, <2>2, <2>4, RemovalEvolves
  <2> QED
    BY <2>3, <2>4
<1>7. ASSUME NEW c \in Conns, NEW u \in Conns, NEW direct \in BOOLEAN, SetEditMode(c, u, direct)
      PROVE  Evolves(rooms[r], rooms'[r], nextSession)
  <2>1. PICK k : k = conn[c].room
    OBVIOUS
  <2>2. /\ rooms[k].participants[u].role = "collaborator"
        /\ rooms' = [rooms EXCEPT ![k] = RoomAfterEditMode(rooms[k], u, direct)]
    BY <1>7, <2>1 DEF SetEditMode, SetRoom
  <2>3. CASE k # r
    BY <1>3, <2>2, <2>3
  <2>4. CASE k = r
    <3> DEFINE p == [rooms[r].participants[u] EXCEPT !.direct = direct]
    <3>1. /\ p \in Participant
          /\ p.session = rooms[r].participants[u].session
          /\ p.role = rooms[r].participants[u].role
      BY <1>4 DEF Participant
    <3>2. u \in Active(rooms[r])
      BY <2>2, <2>4 DEF Active
    <3>3. RoomAfterEditMode(rooms[r], u, direct) = WithParticipant(rooms[r], u, p)
      BY DEF RoomAfterEditMode
    <3> HIDE DEF p
    <3>4. Evolves(rooms[r], WithParticipant(rooms[r], u, p), nextSession)
      BY <1>4, <3>1, <3>2, WithParticipantEvolves
    <3> QED
      BY <1>2, <2>2, <2>4, <3>3, <3>4
  <2> QED
    BY <2>3, <2>4
<1>8. ASSUME NEW c \in Conns, NEW i \in Invites, CreateToken(c, i)
      PROVE  Evolves(rooms[r], rooms'[r], nextSession)
  BY <1>8, SameSessions DEF CreateToken
<1> QED
  BY <1>5, <1>6, <1>7, <1>8 DEF Managing

LEMMA JoiningEvolves ==
  ASSUME IndInv, Joining, NEW r \in OpenRooms
  PROVE  Evolves(rooms[r], rooms'[r], nextSession)
<1>1. PICK c \in Conns, o \in RoomIds, s \in 0 .. MaxSession :
        \/ JoinRoom(c, o, s)
        \/ BeginProtectedJoin(c, o, s)
        \/ DenyJoin(c, o, s)
        \/ \E i \in Invites : JoinRoomByInvite(c, o, s, i)
  BY DEF Joining
<1>2. \/ rooms' = rooms
      \/ RequestsJoin(c, o, s) /\ EnterRoom(c, o, s)
  BY <1>1 DEF JoinRoom, BeginProtectedJoin, DenyJoin, JoinRoomByInvite
<1>3. CASE rooms' = rooms
  BY <1>3, SameSessions
<1>4. CASE RequestsJoin(c, o, s) /\ EnterRoom(c, o, s)
  <2>1. s < nextSession /\ o # conn[c].room
    BY <1>4 DEF RequestsJoin
  <2> QED
    BY <1>4, <2>1, EnterEvolves
<1> QED
  BY <1>2, <1>3, <1>4

\* Every step of the server lets every open room evolve.
LEMMA StepEvolves ==
  ASSUME IndInv, [Next]_vars, NEW r \in OpenRooms
  PROVE  Evolves(rooms[r], rooms'[r], nextSession)
<1>1. rooms \in [RoomIds -> Room] /\ r \in RoomIds
  BY DEF IndInv, TypeOK, OpenRooms
<1>2. CASE Creating
  <2>1. PICK c \in Conns :
          \/ \E m \in Modes : BeginProtectedCreate(c, m)
          \/ \E o \in RoomIds, m \in Modes : CreateRoom(c, o, m)
          \/ \E o \in RoomIds : CompleteProtectedCreate(c, o)
    BY <1>2 DEF Creating
  <2>2. \/ rooms' = rooms
        \/ \E o \in RoomIds : \E m, locked, count : RegisterRoom(c, o, m, locked, count)
    BY <2>1 DEF BeginProtectedCreate, CreateRoom, CompleteProtectedCreate
  <2> QED
    BY <2>2, RegisterEvolves, SameSessions
<1>3. ASSUME NEW c \in Conns, CompleteProtectedJoin(c)
      PROVE  Evolves(rooms[r], rooms'[r], nextSession)
  <2>1. PICK o, s : o = pending[c].room /\ s = pending[c].session
    OBVIOUS
  <2>2. Verifying(c) /\ EnterRoom(c, o, s)
    BY <1>3, <2>1 DEF CompleteProtectedJoin, Verifying
  <2>3. o \in RoomIds /\ o # conn[c].room /\ s < nextSession
    BY <2>1, <2>2 DEF IndInv, JoinsUnderWay
  <2>4. s \in 0 .. MaxSession
    BY <2>1 DEF IndInv, TypeOK, Pending
  <2> QED
    BY <2>2, <2>3, <2>4, EnterEvolves
<1>4. ASSUME NEW c \in Conns, LeaveRoom(c) \/ Disconnect(c)
      PROVE  Evolves(rooms[r], rooms'[r], nextSession)
  <2>1. PICK k : k = conn[c].room
    OBVIOUS
  <2>2. \E reason : rooms' = Cleaned(rooms, k, c, reason)
    BY <1>4, <2>1 DEF LeaveRoom, Disconnect, Cleanup
  <2> QED
    BY <1>1, <2>2, CleanedEvolves
<1>5. ASSUME NEW t \in Tabs, VoiceClose(t)
      PROVE  Evolves(rooms[r], rooms'[r], nextSession)
  <2>1. PICK k, u : k = tab[t].room /\ u = tab[t].user
    OBVIOUS
  <2>2. u \in Conns /\ rooms' = Cleaned(rooms, k, u, "disconnect")
    BY <1>5, <2>1 DEF VoiceClose, IndInv, TypeOK, TabContext
  <2> QED
    BY <1>1, <2>2, CleanedEvolves
<1>6. ASSUME rooms'[r].recoverable = rooms[r].recoverable
      PROVE  Evolves(rooms[r], rooms'[r], nextSession)
  BY <1>6, SameSessions
<1>7. ASSUME NEW t \in Tabs, NEW u \in Conns, NEW k \in RoomIds, VoiceJoin(t, u, k)
      PROVE  Evolves(rooms[r], rooms'[r], nextSession)
  <2>1. rooms' = [rooms EXCEPT ![k] = [rooms[k] EXCEPT !.voice[u] = t]]
    BY <1>7 DEF VoiceJoin, SetRoom
  <2> QED
    BY <1>1, <1>6, <2>1 DEF Room
<1>8. ASSUME NEW k \in RoomIds, IdleTimePasses(k)
      PROVE  Evolves(rooms[r], rooms'[r], nextSession)
  <2>1. rooms' = [rooms EXCEPT ![k] = [rooms[k] EXCEPT !.activity = "stale"]]
    BY <1>8 DEF IdleTimePasses, SetRoom
  <2> QED
    BY <1>1, <1>6, <2>1 DEF Room
<1>9. CASE CleanupTick
  <2>1. rooms'[r] \in { [rooms[r] EXCEPT !.status = "closed", !.activity = "unset"],
                        [rooms[r] EXCEPT !.activity = "recent"],
                        rooms[r] }
    BY <1>1, <1>9 DEF CleanupTick
  <2> QED
    BY <1>1, <1>6, <2>1, ZenonT(60) DEF Room
<1>10. ASSUME rooms' = rooms
       PROVE  Evolves(rooms[r], rooms'[r], nextSession)
  BY <1>6, <1>10
<1>11. ASSUME NEW c \in Conns, AnswerDeniedJoin(c)
       PROVE  Evolves(rooms[r], rooms'[r], nextSession)
  BY <1>10, <1>11 DEF AnswerDeniedJoin
<1>12. ASSUME NEW i \in Invites, ExpireToken(i)
       PROVE  Evolves(rooms[r], rooms'[r], nextSession)
  BY <1>10, <1>12 DEF ExpireToken
<1>13. CASE UNCHANGED vars
  BY <1>10, <1>13 DEF vars
<1>14. CASE Joining
  BY <1>14, JoiningEvolves
<1>15. CASE Managing
  BY <1>15, ManagingEvolves
<1> QED
  BY <1>2, <1>3, <1>4, <1>5, <1>7, <1>8, <1>9, <1>11, <1>12, <1>13, <1>14, <1>15 DEF Next

\* A session an open room gave up stays given up, whatever join for it was
\* already waiting for its secret to be verified.
THEOREM RevokedSessionsStayRevoked == Spec => RevokedStaysRevoked
<1> DEFINE A == \A r \in OpenRooms : \A s \in 1 .. nextSession - 1 :
                  ~Held(rooms[r], s) => ~Held(rooms[r], s)'
<1>1. IndInv /\ [Next]_vars => A
  <2> SUFFICES ASSUME IndInv, [Next]_vars, NEW r \in OpenRooms, NEW s \in 1 .. nextSession - 1,
                      Held(rooms[r], s)'
               PROVE  Held(rooms[r], s)
    OBVIOUS
  <2>1. Evolves(rooms[r], rooms'[r], nextSession)
    BY StepEvolves
  <2>2. nextSession \in 1 .. MaxSession + 1
    BY DEF IndInv, TypeOK
  <2>3. s \in Sessions /\ s < nextSession
    BY <2>2, RoomConstants DEF Sessions
  <2>4. Held(rooms'[r], s)
    BY DEF Held
  <2> QED
    BY <2>1, <2>3, <2>4 DEF Evolves
<1>2. IndInv /\ [Next]_vars => [A]_vars
  BY <1>1
<1> QED
  BY <1>2, RoomsAreConsistent, PTL DEF Spec, RevokedStaysRevoked

\* While the owner is away no session that is kept changes its role.
THEOREM RolesStayFrozen == Spec => RolesFrozenWithoutOwner
<1> DEFINE B == \A r \in OpenRooms : \A s \in Sessions :
                  /\ rooms[r].ownerId = RestoredOwner
                  /\ Held(rooms[r], s) /\ Held(rooms[r], s)'
                  => rooms'[r].recoverable[s].role = rooms[r].recoverable[s].role
<1>1. IndInv /\ [Next]_vars => B
  <2> SUFFICES ASSUME IndInv, [Next]_vars, NEW r \in OpenRooms, NEW s \in Sessions,
                      rooms[r].ownerId = RestoredOwner,
                      Held(rooms[r], s), Held(rooms[r], s)'
               PROVE  rooms'[r].recoverable[s].role = rooms[r].recoverable[s].role
    OBVIOUS
  <2>1. Evolves(rooms[r], rooms'[r], nextSession)
    BY StepEvolves
  <2>2. Consistent(rooms[r], nextSession)
    BY DEF IndInv
  <2>3. s < nextSession
    BY <2>2 DEF Consistent
  <2>4. Held(rooms'[r], s)
    BY DEF Held
  <2> QED
    BY <2>1, <2>3, <2>4 DEF Evolves
<1>2. IndInv /\ [Next]_vars => [B]_vars
  BY <1>1
<1> QED
  BY <1>2, RoomsAreConsistent, PTL DEF Spec, RolesFrozenWithoutOwner
===============================================================================
