-------------------------------- MODULE MCRoster --------------------------------
(***************************************************************************)
(* Instances of the roster for TLC.                                        *)
(***************************************************************************)
EXTENDS RosterInvariants, TLC

CONSTANTS host, guest
===============================================================================
