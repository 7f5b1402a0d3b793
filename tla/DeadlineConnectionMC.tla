------------------------- MODULE DeadlineConnectionMC -------------------------
(* Instances of DeadlineConnection for TLC.                                   *)
EXTENDS DeadlineConnection, TLC
=============================================================================
