------------------------------ MODULE MCConnection ------------------------------
(***************************************************************************)
(* Instances of the connection for TLC.                                    *)
(***************************************************************************)
EXTENDS ConnectionInvariants, TLC
===============================================================================
