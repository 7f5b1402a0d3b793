----------------------------- MODULE BulkheadMC -----------------------------
(* Instances of Bulkhead for TLC; Bulkhead.cfg gives the requests and the    *)
(* capacities.                                                               *)
EXTENDS Bulkhead, TLC
=============================================================================
