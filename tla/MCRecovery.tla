------------------------------- MODULE MCRecovery -------------------------------
(***************************************************************************)
(* Instances of the recovery for TLC.                                      *)
(***************************************************************************)
EXTENDS RecoveryInvariants, TLC

CONSTANTS home, away, r1, r2, alice, bob, d1

\* The first user owns an address, the others share one.
Addresses == [u \in Users |-> IF u = CHOOSE v \in Users : TRUE THEN home ELSE away]
===============================================================================
