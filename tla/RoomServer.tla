------------------------------ MODULE RoomServer ------------------------------
(***************************************************************************)
(* Rooms, memberships and sessions in the CodeRooms server (server.ts):    *)
(* creating and joining rooms, leaving, losing the connection, roles,      *)
(* removal, invite tokens, the voice bridge and the idle-room cleanup.     *)
(*                                                                         *)
(* The server is one Node process: a message handler is one atomic step    *)
(* unless it awaits.  Two handlers await something that lets other         *)
(* messages in: createRoom while it hashes a room secret, and joinRoom     *)
(* while it verifies one or delays the answer to a refused join.  These    *)
(* are two actions each, with what the handler read before the await kept  *)
(* in pending.  Early returns that change nothing are the guards.          *)
(***************************************************************************)
EXTENDS RoomSessions

CONSTANTS
  RoomIds,       \* the room codes generateRoomId may produce
  Invites,       \* invite tokens usable at the same time
  IpOf,          \* the address of each connection
  Locking,       \* whether rooms are created with a secret: subset of BOOLEAN
  MaxRooms,      \* MAX_ROOMS_GLOBAL
  MaxRoomsPerIp, \* MAX_ROOMS_PER_IP
  NoRoom,
  NoUser

ASSUME ServerConstants ==
  /\ IpOf \in [Conns -> Ips]
  /\ IsFiniteSet(RoomIds)
  /\ Locking \subseteq BOOLEAN
  /\ MaxRooms \in Nat
  /\ MaxRoomsPerIp \in Nat
  /\ NoRoom \notin RoomIds
  /\ NoUser \notin Conns

VARIABLES
  rooms,         \* the rooms by their code
  conn,          \* ConnectionContext of each editor connection
  tab,           \* ConnectionContext of each voice tab
  pending,       \* the awaiting createRoom or joinRoom of each connection
  roomCountByIp, \* rooms counted against each address
  nextSession,   \* the next session token to generate
  invites        \* inviteTokens: the room a usable token opens

vars == <<rooms, conn, tab, pending, roomCountByIp, nextSession, invites>>

-------------------------------------------------------------------------------

Context == [live: BOOLEAN, room: RoomIds \cup {NoRoom}, role: Role \cup {"none"}]

TabContext == [live: BOOLEAN, user: Conns \cup {NoUser}, room: RoomIds \cup {NoRoom}]

Pending ==
  [ kind: {"idle", "hashing", "verifying", "denied"},
    room: RoomIds \cup {NoRoom},
    session: 0 .. MaxSession,
    mode: Modes,
    count: Nat ]

Idle == [ kind |-> "idle", room |-> NoRoom, session |-> NoSession,
          mode |-> CHOOSE m \in Modes : TRUE, count |-> 0 ]

TypeOK ==
  /\ rooms \in [RoomIds -> Room]
  /\ conn \in [Conns -> Context]
  /\ tab \in [Tabs -> TabContext]
  /\ pending \in [Conns -> Pending]
  /\ roomCountByIp \in [Ips -> Nat]
  /\ nextSession \in 1 .. MaxSession + 1
  /\ invites \in [Invites -> RoomIds \cup {NoRoom}]

Init ==
  /\ rooms = [r \in RoomIds |-> UnusedRoom]
  /\ conn = [c \in Conns |-> [live |-> TRUE, room |-> NoRoom, role |-> "none"]]
  /\ tab = [t \in Tabs |-> [live |-> TRUE, user |-> NoUser, room |-> NoRoom]]
  /\ pending = [c \in Conns |-> Idle]
  /\ roomCountByIp = [ip \in Ips |-> 0]
  /\ nextSession = 1
  /\ invites = [i \in Invites |-> NoRoom]

-------------------------------------------------------------------------------
\* State functions the handlers share

IsOpen(r) == r \in RoomIds /\ rooms[r].status = "open"

OpenRooms == {r \in RoomIds : rooms[r].status = "open"}

\* getRoomForContext succeeds, and the caller passes canPerformOwnerAction.
ActsAsOwner(c) ==
  /\ conn[c].live
  /\ IsOpen(conn[c].room)
  /\ rooms[conn[c].room].ownerId = c

\* The connection is not in the middle of another createRoom or joinRoom.
NotBusy(c) == conn[c].live /\ pending[c].kind = "idle"

\* A variant without join claims.
NothingClaimed(r, s) == FALSE

\* The session join claim: a join for the same session of the same room has not
\* been answered yet.  A join with an invite claims the invite instead.
JoinClaimed(r, s) ==
  \E c \in Conns : /\ pending[c].kind \in {"verifying", "denied"}
                   /\ pending[c].room = r
                   /\ s # NoSession
                   /\ pending[c].session = s

Detached(context) == [context EXCEPT !.room = NoRoom, !.role = "none"]

\* Does the departure of user u from room r close it?
Closes(r, u, reason) == IsOpen(r) /\ ClosesRoom(rooms[r], u, reason)

\* rs with the membership of u in room r cleaned up, if the server holds r.
Cleaned(rs, r, u, reason) ==
  IF IsOpen(r) THEN [rs EXCEPT ![r] = RoomAfterCleanup(@, u, reason)] ELSE rs

\* A variant that closes a room without telling its members.
EvictedNobody(r, u, reason) == {}

\* The connections whose context a cleanup detaches besides the caller's.
Evicted(r, u, reason) == IF Closes(r, u, reason) THEN rooms[r].connections \ {u} ELSE {}

Decrement(n) == IF n <= 1 THEN 0 ELSE n - 1

\* A variant that forgets to count down when the owner switches rooms.
UncountedUnlessSwitched(counts, r, u, reason) ==
  IF Closes(r, u, reason) /\ reason # "switch"
  THEN [counts EXCEPT ![rooms[r].ownerIp] = Decrement(@)]
  ELSE counts

\* The counts after a cleanup: a closed room no longer counts for its address.
Uncounted(counts, r, u, reason) ==
  IF Closes(r, u, reason)
  THEN [counts EXCEPT ![rooms[r].ownerIp] = Decrement(@)]
  ELSE counts

-------------------------------------------------------------------------------
\* Creating a room

WithinRoomLimits(c) ==
  /\ Cardinality(OpenRooms) < MaxRooms
  /\ roomCountByIp[IpOf[c]] < MaxRoomsPerIp

\* The part of createRoomInner after the room object is complete: it registers
\* the room, writes the count it is given, and leaves the creator's old room.
RegisterRoom(c, r, mode, locked, count) ==
  LET old == conn[c].room IN
  /\ rooms[r].status = "unused"
  /\ nextSession \in Sessions
  /\ rooms' = [Cleaned(rooms, old, c, "switch") EXCEPT
                 ![r] = CreatedRoom(c, IpOf[c], mode, locked, nextSession)]
  /\ roomCountByIp' = Uncounted([roomCountByIp EXCEPT ![IpOf[c]] = count + 1],
                                old, c, "switch")
  /\ conn' = [x \in Conns |->
                IF x = c THEN [conn[c] EXCEPT !.room = r, !.role = "root"]
                ELSE IF x \in Evicted(old, c, "switch") THEN Detached(conn[x])
                ELSE conn[x]]
  /\ nextSession' = nextSession + 1
  /\ UNCHANGED <<tab, invites>>

\* createRoom without a secret never gives up the thread.
CreateRoom(c, r, mode) ==
  /\ NotBusy(c)
  /\ FALSE \in Locking
  /\ WithinRoomLimits(c)
  /\ RegisterRoom(c, r, mode, FALSE, roomCountByIp[IpOf[c]])
  /\ UNCHANGED pending

\* createRoom with a secret, up to the await of hashSecret.
BeginProtectedCreate(c, mode) ==
  /\ NotBusy(c)
  /\ TRUE \in Locking
  /\ WithinRoomLimits(c)
  /\ pending' = [pending EXCEPT ![c] = [Idle EXCEPT !.kind = "hashing",
                                                    !.mode = mode,
                                                    !.count = roomCountByIp[IpOf[c]]]]
  /\ UNCHANGED <<rooms, conn, tab, roomCountByIp, nextSession, invites>>

\* The rest of it, whatever happened to the connection or the counts meanwhile.
CompleteProtectedCreate(c, r) ==
  /\ pending[c].kind = "hashing"
  /\ RegisterRoom(c, r, pending[c].mode, TRUE, pending[c].count)
  /\ pending' = [pending EXCEPT ![c] = Idle]

-------------------------------------------------------------------------------
\* Joining a room

\* The part of joinRoomInner after access is granted, to the room object that
\* was looked up before: it may be closed by now.
EnterRoom(c, r, s) ==
  LET old   == conn[c].room
      p     == ResolvedParticipant(rooms[r], s, IpOf[c], nextSession)
      out   == Displaced(rooms[r], s)
      fresh == NeedsFresh(rooms[r], s, IpOf[c])
  IN
  /\ fresh => nextSession \in Sessions
  /\ rooms' = [Cleaned(rooms, old, c, "switch") EXCEPT ![r] = JoinedRoom(@, c, p, out)]
  /\ roomCountByIp' = Uncounted(roomCountByIp, old, c, "switch")
  /\ conn' = [x \in Conns |->
                IF x = c THEN [conn[c] EXCEPT !.room = r, !.role = p.role]
                ELSE IF x \in Evicted(old, c, "switch") \cup (out \cap rooms[r].connections)
                THEN Detached(conn[x])
                ELSE conn[x]]
  /\ nextSession' = IF fresh THEN nextSession + 1 ELSE nextSession
  /\ UNCHANGED tab

\* A joinRoom request that reaches the look-up of the room.
RequestsJoin(c, r, s) ==
  /\ NotBusy(c)
  /\ s < nextSession
  /\ conn[c].room # r

\* joinRoom of a room without a secret: the only await is of settled promises.
JoinRoom(c, r, s) ==
  /\ RequestsJoin(c, r, s) /\ ~JoinClaimed(r, s)
  /\ IsOpen(r) /\ ~rooms[r].locked
  /\ EnterRoom(c, r, s)
  /\ UNCHANGED <<pending, invites>>

\* joinRoom with a usable invite token, which opens a room with a secret too,
\* and claims no session.
JoinRoomByInvite(c, r, s, i) ==
  /\ RequestsJoin(c, r, s)
  /\ IsOpen(r)
  /\ invites[i] = r
  /\ EnterRoom(c, r, s)
  /\ invites' = [invites EXCEPT ![i] = NoRoom]
  /\ UNCHANGED pending

\* joinRoom with the right secret, up to the await of verifySecret.
BeginProtectedJoin(c, r, s) ==
  /\ RequestsJoin(c, r, s) /\ ~JoinClaimed(r, s)
  /\ IsOpen(r) /\ rooms[r].locked
  /\ pending' = [pending EXCEPT ![c] = [Idle EXCEPT !.kind = "verifying",
                                                    !.room = r, !.session = s]]
  /\ UNCHANGED <<rooms, conn, tab, roomCountByIp, nextSession, invites>>

\* The rest of it.
CompleteProtectedJoin(c) ==
  /\ pending[c].kind = "verifying"
  /\ EnterRoom(c, pending[c].room, pending[c].session)
  /\ pending' = [pending EXCEPT ![c] = Idle]
  /\ UNCHANGED invites

\* joinRoom of an unknown room, with a wrong or missing secret or (claiming no
\* session) an unusable invite: the answer is delayed, and the request stays
\* pending so long.
DenyJoin(c, r, s) ==
  /\ RequestsJoin(c, r, s) /\ ~JoinClaimed(r, s)
  /\ \/ ~IsOpen(r)
     \/ rooms[r].locked
     \/ s = NoSession /\ \E i \in Invites : invites[i] # r
  /\ pending' = [pending EXCEPT ![c] = [Idle EXCEPT !.kind = "denied",
                                                    !.room = r, !.session = s]]
  /\ UNCHANGED <<rooms, conn, tab, roomCountByIp, nextSession, invites>>

AnswerDeniedJoin(c) ==
  /\ pending[c].kind = "denied"
  /\ pending' = [pending EXCEPT ![c] = Idle]
  /\ UNCHANGED <<rooms, conn, tab, roomCountByIp, nextSession, invites>>

-------------------------------------------------------------------------------
\* Leaving a room

\* cleanupRoomMembership for the context of connection c.
Cleanup(c, live, reason) ==
  LET old == conn[c].room IN
  /\ rooms' = Cleaned(rooms, old, c, reason)
  /\ roomCountByIp' = Uncounted(roomCountByIp, old, c, reason)
  /\ conn' = [x \in Conns |->
                IF x = c THEN [live |-> live, room |-> NoRoom, role |-> "none"]
                ELSE IF x \in Evicted(old, c, reason) THEN Detached(conn[x])
                ELSE conn[x]]
  /\ UNCHANGED <<tab, pending, nextSession, invites>>

LeaveRoom(c) ==
  /\ conn[c].live
  /\ conn[c].room # NoRoom
  /\ Cleanup(c, TRUE, "leave")

\* The close event of the socket, whoever closed it.
Disconnect(c) ==
  /\ conn[c].live
  /\ Cleanup(c, FALSE, "disconnect")

-------------------------------------------------------------------------------
\* Roles, edit mode, removal, invites

SetRoom(r, room) == rooms' = [rooms EXCEPT ![r] = room]

UpdateRole(c, u, role) ==
  LET r == conn[c].room IN
  /\ ActsAsOwner(c)
  /\ u \in Active(rooms[r])
  /\ SetRoom(r, RoomAfterRoleUpdate(rooms[r], u, role))
  /\ conn' = IF u \in rooms[r].connections
             THEN [conn EXCEPT ![u].role = role] ELSE conn
  /\ UNCHANGED <<tab, pending, roomCountByIp, nextSession, invites>>

\* A variant that leaves the removed participant's context in the room.
RemoveParticipantOnly(c, u) ==
  LET r == conn[c].room IN
  /\ ActsAsOwner(c)
  /\ u # c
  /\ u \in Active(rooms[r])
  /\ SetRoom(r, RoomAfterRemoval(rooms[r], u))
  /\ UNCHANGED <<conn, tab, pending, roomCountByIp, nextSession, invites>>

\* A variant in which the owner can remove itself.
RemoveAnyParticipant(c, u) ==
  LET r == conn[c].room IN
  /\ ActsAsOwner(c)
  /\ u \in Active(rooms[r])
  /\ SetRoom(r, RoomAfterRemoval(rooms[r], u))
  /\ conn' = IF u \in rooms[r].connections
             THEN [conn EXCEPT ![u] = Detached(@)] ELSE conn
  /\ UNCHANGED <<tab, pending, roomCountByIp, nextSession, invites>>

RemoveParticipant(c, u) ==
  LET r == conn[c].room IN
  /\ ActsAsOwner(c)
  /\ u # c
  /\ u \in Active(rooms[r])
  /\ SetRoom(r, RoomAfterRemoval(rooms[r], u))
  /\ conn' = IF u \in rooms[r].connections
             THEN [conn EXCEPT ![u] = Detached(@)] ELSE conn
  /\ UNCHANGED <<tab, pending, roomCountByIp, nextSession, invites>>

SetEditMode(c, u, direct) ==
  LET r == conn[c].room IN
  /\ conn[c].live
  /\ IsOpen(r)
  /\ c \in {rooms[r].ownerId, u}
  /\ rooms[r].participants[u].role = "collaborator"
  /\ SetRoom(r, RoomAfterEditMode(rooms[r], u, direct))
  /\ UNCHANGED <<conn, tab, pending, roomCountByIp, nextSession, invites>>

CreateToken(c, i) ==
  /\ ActsAsOwner(c)
  /\ invites[i] = NoRoom
  /\ invites' = [invites EXCEPT ![i] = conn[c].room]
  /\ UNCHANGED <<rooms, conn, tab, pending, roomCountByIp, nextSession>>

\* An invite older than TOKEN_TTL_MS is refused, and removed by the next tick.
ExpireToken(i) ==
  /\ invites[i] # NoRoom
  /\ invites' = [invites EXCEPT ![i] = NoRoom]
  /\ UNCHANGED <<rooms, conn, tab, pending, roomCountByIp, nextSession>>

-------------------------------------------------------------------------------
\* The voice bridge: a browser tab that takes over the userId it was opened for

VoiceJoin(t, u, r) ==
  /\ tab[t].live
  /\ tab[t].user = NoUser
  /\ IsOpen(r)
  /\ u \in Active(rooms[r])
  /\ tab' = [tab EXCEPT ![t].user = u, ![t].room = r]
  /\ SetRoom(r, [rooms[r] EXCEPT !.voice[u] = t])
  /\ UNCHANGED <<conn, pending, roomCountByIp, nextSession, invites>>

\* The close event of the tab's socket runs the same cleanup as an editor's,
\* under the userId the tab took over.
VoiceClose(t) ==
  /\ tab[t].live
  /\ tab[t].user # NoUser
  /\ rooms' = Cleaned(rooms, tab[t].room, tab[t].user, "disconnect")
  /\ tab' = [tab EXCEPT ![t].live = FALSE, ![t].room = NoRoom]
  /\ UNCHANGED <<conn, pending, roomCountByIp, nextSession, invites>>

-------------------------------------------------------------------------------
\* Idle rooms

\* The idle timeout passes without a tick that saw the room in use.  The ticks
\* are closer together than the timeout, so the room has been empty so long.
IdleTimePasses(r) ==
  /\ IsOpen(r)
  /\ rooms[r].connections = {}
  /\ rooms[r].activity = "recent"
  /\ SetRoom(r, [rooms[r] EXCEPT !.activity = "stale"])
  /\ UNCHANGED <<conn, tab, pending, roomCountByIp, nextSession, invites>>

\* A variant that keeps a room for an owner who is away.
IdleUnlessOwnerIsAway ==
  {r \in OpenRooms : /\ rooms[r].connections = {}
                     /\ rooms[r].activity = "stale"
                     /\ rooms[r].ownerId # RestoredOwner}

IdleRooms == {r \in OpenRooms : rooms[r].connections = {} /\ rooms[r].activity = "stale"}

\* One run of the cleanup timer over all rooms.
CleanupTick ==
  /\ rooms' = [r \in RoomIds |->
                 IF r \in IdleRooms
                 THEN [rooms[r] EXCEPT !.status = "closed", !.activity = "unset"]
                 ELSE IF IsOpen(r) /\ rooms[r].connections # {}
                 THEN [rooms[r] EXCEPT !.activity = "recent"]
                 ELSE rooms[r]]
  /\ roomCountByIp' =
       [ip \in Ips |->
          LET gone == Cardinality({r \in IdleRooms : rooms[r].ownerIp = ip})
          IN IF roomCountByIp[ip] <= gone THEN 0 ELSE roomCountByIp[ip] - gone]
  /\ UNCHANGED <<conn, tab, pending, nextSession, invites>>

-------------------------------------------------------------------------------

Joining ==
  \E c \in Conns, r \in RoomIds, s \in 0 .. MaxSession :
    \/ JoinRoom(c, r, s)
    \/ BeginProtectedJoin(c, r, s)
    \/ DenyJoin(c, r, s)
    \/ \E i \in Invites : JoinRoomByInvite(c, r, s, i)

Creating ==
  \E c \in Conns :
    \/ \E m \in Modes : BeginProtectedCreate(c, m)
    \/ \E r \in RoomIds, m \in Modes : CreateRoom(c, r, m)
    \/ \E r \in RoomIds : CompleteProtectedCreate(c, r)

Managing ==
  \E c \in Conns :
    \/ \E u \in Conns, role \in {"collaborator", "viewer"} : UpdateRole(c, u, role)
    \/ \E u \in Conns : RemoveParticipant(c, u)
    \/ \E u \in Conns, direct \in BOOLEAN : SetEditMode(c, u, direct)
    \/ \E i \in Invites : CreateToken(c, i)

Next ==
  \/ Creating
  \/ Joining
  \/ Managing
  \/ \E c \in Conns : \/ CompleteProtectedJoin(c)
                      \/ AnswerDeniedJoin(c)
                      \/ LeaveRoom(c)
                      \/ Disconnect(c)
  \/ \E i \in Invites : ExpireToken(i)
  \/ \E t \in Tabs : VoiceClose(t) \/ \E u \in Conns, r \in RoomIds : VoiceJoin(t, u, r)
  \/ \E r \in RoomIds : IdleTimePasses(r)
  \/ CleanupTick

Spec == Init /\ [][Next]_vars

\* The two timers keep running: setInterval, and the clock.
TimerFairness == WF_vars(CleanupTick) /\ \A r \in RoomIds : WF_vars(IdleTimePasses(r))

FairSpec == Spec /\ TimerFairness
===============================================================================
