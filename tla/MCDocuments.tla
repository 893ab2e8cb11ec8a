------------------------------ MODULE MCDocuments ------------------------------
(***************************************************************************)
(* Instances of a shared document for TLC.                                 *)
(***************************************************************************)
EXTENDS DocumentInvariants, TLC

CONSTANTS owner, peer
===============================================================================
