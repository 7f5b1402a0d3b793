----------------------------- MODULE AdminLogsMC ----------------------------
(* Instances of AdminLogs for TLC; AdminLogs.cfg gives the bounds.           *)
EXTENDS AdminLogs, TLC

(* Everything, and the business events with one code.                        *)
MCQueries ==
    {[window |-> 1, code |-> AnyCode, includeSystem |-> TRUE],
     [window |-> 1, code |-> 0, includeSystem |-> FALSE]}
=============================================================================
