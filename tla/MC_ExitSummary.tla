---------------------------- MODULE MC_ExitSummary ----------------------------
(* Instance of ExitSummary for TLC: the constants are in the .cfg files. *)
EXTENDS ExitSummary
=============================================================================
