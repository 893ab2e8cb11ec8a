------------------------------ MODULE DurableRooms ------------------------------
(***************************************************************************)
(* What the server promises of its rooms over stops and restarts: a stop   *)
(* that is asked for loses nothing, a crash loses what was not kept and    *)
(* nothing else, what was kept comes back all together, and no room that   *)
(* was closed comes back.                                                  *)
(***************************************************************************)
CONSTANTS Rooms, NoRoom

VARIABLES
  running,
  stopped,  \* it was told to stop, and has not been started again
  current,  \* the rooms as they are, or as they will be after the restart
  kept,     \* the rooms as they were last kept
  drawn     \* the ids that were ever given to a room

Exists(r) == current[r] # NoRoom

Init ==
  /\ running = TRUE /\ stopped = FALSE
  /\ current = [r \in Rooms |-> NoRoom]
  /\ kept = [r \in Rooms |-> NoRoom]
  /\ drawn = {}

Runs == running /\ UNCHANGED <<running, stopped>>

\* A room is created, under an id no room has had.
Create ==
  /\ Runs
  /\ \E r \in Rooms \ drawn :
       /\ current'[r] # NoRoom
       /\ \A s \in Rooms \ {r} : current'[s] = current[s]
       /\ drawn' = drawn \cup {r}
  /\ UNCHANGED kept

Change ==
  /\ Runs
  /\ \E r \in Rooms :
       /\ Exists(r)
       /\ current'[r] # NoRoom
       /\ \A s \in Rooms \ {r} : current'[s] = current[s]
  /\ UNCHANGED <<kept, drawn>>

Close ==
  /\ Runs
  /\ \E r \in Rooms :
       /\ Exists(r)
       /\ current' = [current EXCEPT ![r] = NoRoom]
       /\ kept' = [kept EXCEPT ![r] = NoRoom]
  /\ UNCHANGED drawn

\* The rooms are kept as they are, or some of them when keeping them fails; what was
\* kept of the others stays.
Keep ==
  /\ Runs
  /\ \E some \in SUBSET {r \in Rooms : Exists(r)} :
       kept' = [r \in Rooms |-> IF r \in some THEN current[r] ELSE kept[r]]
  /\ UNCHANGED <<current, drawn>>

\* The server is stopped: every room is kept as it is.
Stop ==
  /\ running /\ running' = FALSE
  /\ stopped' = TRUE
  /\ kept' = current
  /\ UNCHANGED <<current, drawn>>

\* The server fails: what was not kept is lost.
Revert ==
  /\ running /\ running' = FALSE
  /\ current' = kept
  /\ UNCHANGED <<stopped, kept, drawn>>

Start ==
  /\ ~running /\ running' = TRUE
  /\ stopped' = FALSE
  /\ UNCHANGED <<current, kept, drawn>>

Next == Create \/ Change \/ Close \/ Keep \/ Stop \/ Revert \/ Start
Spec == Init /\ [][Next]_<<running, stopped, current, kept, drawn>>
===============================================================================
