--------------------------- MODULE AdminMetricsMC ---------------------------
(* Instances of AdminMetrics for TLC.                                        *)
EXTENDS AdminMetrics, TLC
=============================================================================
