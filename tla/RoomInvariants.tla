---------------------------- MODULE RoomInvariants ----------------------------
(***************************************************************************)
(* What must be true of the rooms of RoomServer.  The first group is the   *)
(* audit the server runs on itself after every membership change           *)
(* (roomInvariants.ts, called by auditRoomInvariants); the second is what  *)
(* the rest of the program relies on and no audit looks at.                *)
(***************************************************************************)
EXTENDS RoomServer

-------------------------------------------------------------------------------
\* The audit

\* The participants of an open room are exactly its connections, and each of
\* them has the room and the role in its own context: otherwise a handler that
\* trusts the context acts for someone who is not there.  (Audit issues
\* participant_missing_connection, connection_missing_participant,
\* connection_room_mismatch and connection_role_mismatch.)
MembersAreConnected ==
  \A r \in OpenRooms :
    /\ rooms[r].connections = Active(rooms[r])
    /\ \A c \in rooms[r].connections :
         /\ conn[c].room = r
         /\ conn[c].role = rooms[r].participants[c].role

\* Whoever is root in an open room is the one its ownerId names and holds its
\* owner session, so there is never a second root: however joins, takeovers,
\* role changes and reconnects interleave.  (multiple_active_roots,
\* root_participant_mismatch, root_session_token_mismatch.)
RootHoldsOwnerSession ==
  \A r \in OpenRooms : \A u \in Conns :
    rooms[r].participants[u].role = "root" =>
      /\ rooms[r].ownerId = u
      /\ rooms[r].participants[u].session = rooms[r].ownerSession

\* No session is in use by two participants of a room.
\* (duplicate_active_session_token.)
SessionsAreExclusive ==
  \A r \in OpenRooms : \A u, v \in Active(rooms[r]) :
    rooms[r].participants[u].session = rooms[r].participants[v].session => u = v

\* What an open room would restore a participant to is what the participant
\* is now: a reconnect can neither undo a demotion nor lose a promotion.
\* (Stronger than participant_missing_recoverable_session.)
SessionsRememberRoles ==
  \A r \in OpenRooms : \A u \in Active(rooms[r]) :
    LET p == rooms[r].participants[u]
    IN p.session \in Sessions /\ rooms[r].recoverable[p.session] = ToRecoverable(p)

\* An open room never forgets its owner's session: an owner who lost the
\* connection can come back.  (owner_recovery_session_missing.)
OwnerCanReturn == \A r \in OpenRooms : Held(rooms[r], rooms[r].ownerSession)

\* ownerId names an active participant or says that the owner is away.
\* (owner_id_is_neither_active_nor_restored.)
OwnerIsActiveOrAway ==
  \A r \in OpenRooms : rooms[r].ownerId \in Active(rooms[r]) \cup {RestoredOwner}

\* The active owner holds the owner session.  (owner_session_token_mismatch.)
OwnerHoldsOwnerSession ==
  \A r \in OpenRooms :
    rooms[r].ownerId \in Active(rooms[r])
      => rooms[r].participants[rooms[r].ownerId].session = rooms[r].ownerSession

-------------------------------------------------------------------------------
\* Beyond the audit

\* A session that an open room gave up (its participant left, switched rooms or
\* was removed) never becomes resumable again, whichever joins for it were
\* already under way.
RevokedStaysRevoked ==
  [][ \A r \in OpenRooms : \A s \in 1 .. nextSession - 1 :
        ~Held(rooms[r], s) => ~Held(rooms[r], s)' ]_vars

\* While the owner of an open room is away nobody's role changes: what a
\* reconnect restores is the role the owner left the session with.
RolesFrozenWithoutOwner ==
  [][ \A r \in OpenRooms : \A s \in Sessions :
        /\ rooms[r].ownerId = RestoredOwner
        /\ Held(rooms[r], s) /\ Held(rooms[r], s)'
        => rooms'[r].recoverable[s].role = rooms[r].recoverable[s].role ]_vars

\* The number of rooms counted against an address is the number of open rooms
\* created from it: otherwise the limit refuses creators with no rooms, or
\* admits creators with too many.
RoomCountIsExact ==
  \A ip \in Ips :
    roomCountByIp[ip] = Cardinality({r \in OpenRooms : rooms[r].ownerIp = ip})

\* No address has more open rooms than the limit allows ("Enforce global and
\* per-IP room limits", server.ts).
PerIpLimitEnforced ==
  \A ip \in Ips : Cardinality({r \in OpenRooms : rooms[r].ownerIp = ip}) <= MaxRoomsPerIp

\* Closing a room leaves nobody in it: no live connection's context names a
\* room the server does not hold, so no client believes to be in one.
ClosedRoomsAreEmpty ==
  \A c \in Conns : conn[c].live /\ conn[c].room # NoRoom => IsOpen(conn[c].room)

\* A live connection whose context names an open room is a member of it.
ContextsAreMembers ==
  \A c \in Conns :
    conn[c].live /\ IsOpen(conn[c].room) => c \in Active(rooms[conn[c].room])

\* Every member of an open room has a live connection: a member without one
\* never leaves, and the room is never idle.
NoGhostMembers ==
  \A r \in OpenRooms : \A c \in rooms[r].connections : conn[c].live

\* A room everybody left is eventually deleted or used again, provided the
\* timer saw it in use once.
IdleRoomsAreCollected ==
  \A r \in RoomIds :
    IsOpen(r) /\ rooms[r].connections = {} /\ rooms[r].activity # "unset"
      ~> ~IsOpen(r) \/ rooms[r].connections # {}
-------------------------------------------------------------------------------
\* The inductive invariant behind the safety properties above

\* What holds of the sessions of an open room, n being the next one to be
\* generated: the owner's is held, no other one is a root's, and each active
\* participant has one of its own that mirrors it.
Consistent(room, n) ==
  /\ room.ownerSession \in 1 .. n - 1
  /\ Held(room, room.ownerSession)
  /\ \A s \in Sessions : Held(room, s) => s < n
  /\ \A s \in Sessions : room.recoverable[s].role = "root" => s = room.ownerSession
  /\ \A u \in Conns :
       IF room.participants[u].role = "none"
       THEN room.participants[u].session = NoSession
       ELSE /\ room.participants[u].session \in Sessions
            /\ room.recoverable[room.participants[u].session]
                 = ToRecoverable(room.participants[u])
            /\ room.participants[u].session = room.ownerSession => room.ownerId = u
  /\ \A u, v \in Active(room) :
       room.participants[u].session = room.participants[v].session => u = v
  /\ room.connections = Active(room)

Verifying(c) == pending[c].kind = "verifying"

\* The joins under way: each is into another room than the connection is in,
\* no two ask for the same session of a room, and the session one asks for is
\* not in use in a room that was closed meanwhile, where nobody is told.
JoinsUnderWay ==
  /\ \A c \in Conns : Verifying(c) =>
       /\ pending[c].room \in RoomIds
       /\ pending[c].room # conn[c].room
       /\ pending[c].session < nextSession
  /\ \A c, d \in Conns :
       /\ Verifying(c) /\ Verifying(d)
       /\ pending[c].room = pending[d].room
       /\ pending[c].session = pending[d].session
       /\ pending[c].session # NoSession
       => c = d
  /\ \A c \in Conns : Verifying(c) /\ ~IsOpen(pending[c].room) =>
       Displaced(rooms[pending[c].room], pending[c].session) = {}

\* The part of MembersAreConnected about the contexts.
ContextsAgree ==
  \A r \in OpenRooms : \A c \in rooms[r].connections :
    /\ conn[c].room = r
    /\ conn[c].role = rooms[r].participants[c].role

\* Inductive: every step of the server preserves it.
IndInv ==
  /\ TypeOK
  /\ \A r \in OpenRooms : Consistent(rooms[r], nextSession)
  /\ ContextsAgree
  /\ JoinsUnderWay
===============================================================================
