--------------------------- MODULE MCTaskScheduler ---------------------------
(***************************************************************************)
(* Bounds for TaskScheduler: two slots whose periods differ, a pass that   *)
(* may take as long as the short one, and a time base that wraps after a   *)
(* few periods.                                                            *)
(***************************************************************************)
EXTENDS TaskScheduler

MCPeriod == [s \in Slots |-> s + 2]
MCPeriods == {2, 3}
=============================================================================
