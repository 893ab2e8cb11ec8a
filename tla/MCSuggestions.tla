------------------------------ MODULE MCSuggestions ------------------------------
(***************************************************************************)
(* Instances of the suggestions for TLC.                                   *)
(***************************************************************************)
EXTENDS SuggestionInvariants, TLC
=============================================================================
