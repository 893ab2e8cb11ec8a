------------------------------- MODULE MCRooms --------------------------------
(***************************************************************************)
(* Instances of the room server for TLC.                                   *)
(***************************************************************************)
EXTENDS RoomInvariants, TLC

CONSTANTS c1, c2, c3, r1, r2, t1, i1, home, away

\* Everybody on one address.
OneAddress == [c \in Conns |-> home]

\* c2 is the owner's second machine, or the first one on another network.
TwoAddresses == [c \in Conns |-> IF c = c2 THEN away ELSE home]

ConnSymmetry == Permutations(Conns)

RoomSymmetry == Permutations(RoomIds)
===============================================================================
