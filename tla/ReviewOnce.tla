------------------------------ MODULE ReviewOnce ------------------------------
(***************************************************************************)
(* What a room promises about its suggestions: each collects patches while *)
(* it is pending, gets one verdict, and then stays as it is until the room *)
(* forgets it.  Several may take a step at once.                           *)
(***************************************************************************)
EXTENDS Naturals, Sequences

CONSTANTS
  Ids,
  Cap       \* the patches a suggestion keeps when it is extended

VARIABLES status, patches

vars == <<status, patches>>

Init ==
  /\ status = [s \in Ids |-> "missing"]
  /\ patches = [s \in Ids |-> <<>>]

Submit(s) ==
  /\ status[s] = "missing"
  /\ status'[s] = "pending"

\* What is added comes after what was there; only a full suggestion loses some, the
\* oldest.
Extend(s) ==
  /\ status[s] = "pending"
  /\ status'[s] = "pending"
  /\ \E kept \in 0 .. Len(patches[s]) :
       /\ kept =< Len(patches'[s])
       /\ SubSeq(patches'[s], 1, kept)
            = SubSeq(patches[s], Len(patches[s]) - kept + 1, Len(patches[s]))
       /\ kept < Len(patches[s]) => Len(patches'[s]) = Cap

Decide(s) ==
  /\ status[s] = "pending"
  /\ status'[s] \in {"accepted", "rejected"}
  /\ patches'[s] = patches[s]

Forget(s) ==
  /\ status[s] \in {"accepted", "rejected"}
  /\ status'[s] = "missing"

Keep(s) == status'[s] = status[s] /\ patches'[s] = patches[s]

Next == \A s \in Ids : Submit(s) \/ Extend(s) \/ Decide(s) \/ Forget(s) \/ Keep(s)

Spec == Init /\ [][Next]_vars
=============================================================================
