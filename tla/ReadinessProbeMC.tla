-------------------------- MODULE ReadinessProbeMC --------------------------
(* Instances of ReadinessProbe for TLC.                                      *)
EXTENDS ReadinessProbe, TLC
=============================================================================
