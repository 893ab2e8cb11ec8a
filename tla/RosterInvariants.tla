---------------------------- MODULE RosterInvariants ----------------------------
(***************************************************************************)
(* What a client may rely on in what it shows of its room.                 *)
(***************************************************************************)
EXTENDS Roster

\* The client is in the room, has handled all that was sent to it, and nothing
\* while its joinedRoom handler awaited.
CaughtUp(c) ==
  /\ link[c] # NoId
  /\ Here(members, link[c])
  /\ channel[link[c]] = <<>>
  /\ joins[c] = <<>>
  /\ ~overtaken[c]

\* A client that has caught up shows itself and every other member in its role, and
\* nobody else but those whose session was resumed on another connection
\* (joinRoomInner tells nobody that they are gone).
ViewsCatchUp ==
  \A c \in Clients : CaughtUp(c) =>
    LET v == views[c]
    IN /\ v.inRoom /\ v.self = link[c] /\ v.role = members[v.self].role
       /\ \A i \in Ids : Here(members, i) /\ i # v.self => v.list[i].role = members[i].role
       /\ \A i \in Ids : Here(v.list, i) => Here(members, i) \/ i \in displaced

\* A client that has caught up edits directly if and only if the server takes its
\* edits: what its toggle showed at once was taken, or taken back.
EditModeIsTrue ==
  \A c \in Clients : CaughtUp(c) =>
    (views[c].direct <=> members[link[c]].role = "collaborator" /\ members[link[c]].direct)

\* A client that has caught up shows every chat message the room took since it
\* joined, whoever sent it and whatever its role is.
ChatReachesMembers ==
  \A c \in Clients : CaughtUp(c) => chat \ before[link[c]] \subseteq shown[c]
===============================================================================
