----------------------------- MODULE RoomSessions -----------------------------
(***************************************************************************)
(* One room of the CodeRooms server as a value, and the functions of       *)
(* roomSessions.ts and server.ts that compute its next value: who a        *)
(* joining connection becomes, what a departure removes, what closing a    *)
(* room clears.  RoomServer applies them to the rooms the server holds.    *)
(*                                                                         *)
(* A session is the uuid the server hands out as sessionToken.  Sessions   *)
(* are numbered in the order they are generated; 0 is "no session token".  *)
(* A connection is identified with the userId it gets on connecting.       *)
(***************************************************************************)
EXTENDS Naturals, FiniteSets

CONSTANTS
  Conns,         \* editor connections, each with the userId it was given
  Ips,           \* network addresses
  Tabs,          \* browser tabs of the voice bridge
  Modes,         \* the room modes in play, a subset of {"team", "classroom"}
  MaxSession,    \* bound: how many session tokens are ever generated
  LargeRoom,     \* participants from which newcomers only watch (40 in the code)
  RestoredOwner, \* the ownerId of a room whose owner is away
  NoTab

ASSUME RoomConstants ==
  /\ MaxSession \in Nat
  /\ LargeRoom \in Nat
  /\ Modes \subseteq {"team", "classroom"}
  /\ RestoredOwner \notin Conns
  /\ NoTab \notin Tabs
  /\ Ips # {}
  /\ Modes # {}

NoSession == 0
Sessions == 1 .. MaxSession

\* What the server remembers of a session: RecoverableParticipantState.  The
\* role "none" stands for a session that recoverableSessions does not hold.
Role == {"root", "collaborator", "viewer"}
Entry == [role: Role \cup {"none"}, direct: BOOLEAN]
NoEntry == [role |-> "none", direct |-> FALSE]

\* An active participant: ParticipantState.  The role "none" is an absent key.
Participant == [role: Role \cup {"none"}, direct: BOOLEAN, session: 0 .. MaxSession]
NoParticipant == [role |-> "none", direct |-> FALSE, session |-> NoSession]

\* The part of a participant its session remembers.
ToRecoverable(p) == [role |-> p.role, direct |-> p.direct]

\* RoomState.  status says whether the map rooms holds the room: "unused" ids
\* have not been generated, a "closed" room is only held by requests that
\* looked it up before it was deleted.  activity is the age of the room's entry
\* in roomLastActivity, relative to the idle timeout.
Room ==
  [ status: {"unused", "open", "closed"},
    ownerId: Conns \cup {RestoredOwner},
    ownerSession: 0 .. MaxSession,
    ownerIp: Ips,
    mode: Modes,
    locked: BOOLEAN,
    participants: [Conns -> Participant],
    recoverable: [Sessions -> Entry],
    connections: SUBSET Conns,
    voice: [Conns -> Tabs \cup {NoTab}],
    activity: {"unset", "recent", "stale"} ]

UnusedRoom ==
  [ status |-> "unused",
    ownerId |-> RestoredOwner,
    ownerSession |-> NoSession,
    ownerIp |-> CHOOSE ip \in Ips : TRUE,
    mode |-> CHOOSE m \in Modes : TRUE,
    locked |-> FALSE,
    participants |-> [u \in Conns |-> NoParticipant],
    recoverable |-> [s \in Sessions |-> NoEntry],
    connections |-> {},
    voice |-> [u \in Conns |-> NoTab],
    activity |-> "unset" ]

Active(room) == {u \in Conns : room.participants[u].role # "none"}

Held(room, s) == s \in Sessions /\ room.recoverable[s].role # "none"

-------------------------------------------------------------------------------
\* Joining

\* A room as createRoom registers it, the creator c in it as its root.
CreatedRoom(c, ip, mode, locked, s) ==
  LET owner == [role |-> "root", direct |-> TRUE, session |-> s] IN
  [ status |-> "open",
    ownerId |-> c,
    ownerSession |-> s,
    ownerIp |-> ip,
    mode |-> mode,
    locked |-> locked,
    participants |-> [u \in Conns |-> IF u = c THEN owner ELSE NoParticipant],
    recoverable |-> [t \in Sessions |-> IF t = s THEN ToRecoverable(owner) ELSE NoEntry],
    connections |-> {c},
    voice |-> [u \in Conns |-> NoTab],
    activity |-> "unset" ]

\* The root role is only given back to the owner's token on the owner's address.
CanReclaimRoot(room, s, ip) == s = room.ownerSession /\ ip = room.ownerIp

\* The session a join resumes, or NoEntry when it resumes none.
Reclaimed(room, s, ip) ==
  IF Held(room, s) /\ (room.recoverable[s].role = "root" => CanReclaimRoot(room, s, ip))
  THEN room.recoverable[s]
  ELSE NoEntry

DefaultRole(room) ==
  IF room.mode = "classroom" \/ Cardinality(Active(room)) >= LargeRoom
  THEN "viewer" ELSE "collaborator"

\* Does this join need a newly generated session token?
NeedsFresh(room, s, ip) ==
  Reclaimed(room, s, ip).role = "none" /\ ~CanReclaimRoot(room, s, ip)

\* A variant that keeps whatever session was asked for.
ParticipantAsAsked(room, s, ip, fresh) ==
  LET entry == Reclaimed(room, s, ip) IN
  IF entry.role # "none"
  THEN [role |-> entry.role, direct |-> entry.direct, session |-> s]
  ELSE IF CanReclaimRoot(room, s, ip)
  THEN [role |-> "root", direct |-> TRUE, session |-> room.ownerSession]
  ELSE [ role |-> DefaultRole(room), direct |-> FALSE,
         session |-> IF s # NoSession THEN s ELSE fresh ]

\* A variant in which a session is only resumed with the default role.
ParticipantByDefault(room, s, ip, fresh) ==
  LET entry == Reclaimed(room, s, ip) IN
  IF CanReclaimRoot(room, s, ip)
  THEN [role |-> "root", direct |-> TRUE, session |-> room.ownerSession]
  ELSE [ role |-> DefaultRole(room), direct |-> FALSE,
         session |-> IF entry.role # "none" THEN s ELSE fresh ]

\* The participant a join creates: a resumed one, the root, or a newcomer
\* with the freshly generated session.
ResolvedParticipant(room, s, ip, fresh) ==
  LET entry == Reclaimed(room, s, ip) IN
  IF entry.role # "none"
  THEN [ role |-> entry.role,
         direct |-> entry.role = "root" \/ (entry.role = "collaborator" /\ entry.direct),
         session |-> s ]
  ELSE IF CanReclaimRoot(room, s, ip)
  THEN [role |-> "root", direct |-> TRUE, session |-> room.ownerSession]
  ELSE [role |-> DefaultRole(room), direct |-> FALSE, session |-> fresh]

\* A variant without takeover.
DisplacedNobody(room, s) == {}

\* Active users whose session the join asks for: they lose their place, also
\* when the session itself is refused.
Displaced(room, s) ==
  {u \in Conns : s # NoSession /\ room.participants[u].session = s}

\* A variant that forgets to name the returning owner in ownerId.
JoinedAsGuest(room, c, p, out) ==
  [room EXCEPT
     !.participants = [u \in Conns |-> IF u = c THEN p
                                       ELSE IF u \in out THEN NoParticipant
                                       ELSE @[u]],
     !.recoverable[p.session] = ToRecoverable(p),
     !.connections = (@ \ out) \cup {c}]

\* The room after connection c joined it as participant p, displacing out.
JoinedRoom(room, c, p, out) ==
  [room EXCEPT
     !.ownerId = IF p.session = room.ownerSession THEN c ELSE @,
     !.participants = [u \in Conns |-> IF u = c THEN p
                                       ELSE IF u \in out THEN NoParticipant
                                       ELSE @[u]],
     !.recoverable[p.session] = ToRecoverable(p),
     !.connections = (@ \ out) \cup {c}]

-------------------------------------------------------------------------------
\* Leaving

\* A variant that keeps the connection.
WithoutParticipant(room, u, reason) ==
  LET p == room.participants[u] IN
  [room EXCEPT
     !.participants[u] = NoParticipant,
     !.voice[u] = NoTab,
     !.recoverable = [s \in Sessions |->
                        IF s = p.session /\ p.role # "none" /\ reason # "disconnect"
                        THEN NoEntry ELSE @[s]]]

\* A variant that forgets the session on a disconnect too.
WithoutUserAndSession(room, u, reason) ==
  LET p == room.participants[u] IN
  [room EXCEPT
     !.participants[u] = NoParticipant,
     !.connections = @ \ {u},
     !.voice[u] = NoTab,
     !.recoverable = [s \in Sessions |->
                        IF s = p.session /\ p.role # "none" THEN NoEntry ELSE @[s]]]

\* A room without user u, whose session stays resumable after a disconnect and
\* is forgotten after a leave or a switch to another room.
WithoutUser(room, u, reason) ==
  LET p == room.participants[u] IN
  [room EXCEPT
     !.participants[u] = NoParticipant,
     !.connections = @ \ {u},
     !.voice[u] = NoTab,
     !.recoverable = [s \in Sessions |->
                        IF s = p.session /\ p.role # "none" /\ reason # "disconnect"
                        THEN NoEntry ELSE @[s]]]

\* A room its owner closed.
ClosedRoom(room) ==
  [room EXCEPT
     !.status = "closed",
     !.participants = [u \in Conns |-> NoParticipant],
     !.recoverable = [s \in Sessions |-> NoEntry],
     !.connections = {},
     !.activity = "unset"]

\* Whether the departure of u closes the room: its owner going on purpose.
ClosesRoom(room, u, reason) == room.ownerId = u /\ reason # "disconnect"

\* A variant that leaves ownerId to an owner who disconnected.
RoomAfterDeparture(room, u, reason) ==
  LET rest == WithoutUser(room, u, reason) IN
  IF ClosesRoom(room, u, reason) THEN ClosedRoom(rest) ELSE rest

\* The room after the membership of u was cleaned up.
RoomAfterCleanup(room, u, reason) ==
  LET rest == WithoutUser(room, u, reason) IN
  IF ClosesRoom(room, u, reason) THEN ClosedRoom(rest)
  ELSE IF room.ownerId = u THEN [rest EXCEPT !.ownerId = RestoredOwner]
  ELSE rest

-------------------------------------------------------------------------------
\* Changes by the owner

WithParticipant(room, u, p) ==
  [room EXCEPT !.participants[u] = p, !.recoverable[p.session] = ToRecoverable(p)]

\* A variant that does not update the session.
RoomAfterActiveRoleUpdate(room, u, role) ==
  [room EXCEPT !.participants[u].role = role,
               !.participants[u].direct = role = "collaborator" /\ @]

\* u with another role: direct editing is only kept by a collaborator.
RoomAfterRoleUpdate(room, u, role) ==
  WithParticipant(room, u, [room.participants[u] EXCEPT
                              !.role = role,
                              !.direct = role = "collaborator" /\ @])

RoomAfterEditMode(room, u, direct) ==
  WithParticipant(room, u, [room.participants[u] EXCEPT !.direct = direct])

\* u removed: place, connection and session gone.
RoomAfterRemoval(room, u) ==
  [room EXCEPT
     !.participants[u] = NoParticipant,
     !.recoverable[room.participants[u].session] = NoEntry,
     !.connections = @ \ {u}]
===============================================================================
