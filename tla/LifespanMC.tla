----------------------------- MODULE LifespanMC -----------------------------
(* Instances of Lifespan for TLC; Lifespan.cfg gives the bounds.             *)
EXTENDS Lifespan, TLC
=============================================================================
