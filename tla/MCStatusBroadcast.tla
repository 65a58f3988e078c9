------------------------- MODULE MCStatusBroadcast --------------------------
(***************************************************************************)
(* Two TestCaseExecutions, their report levels and the batches they come   *)
(* in, for the model checker.                                              *)
(***************************************************************************)
EXTENDS StatusBroadcast

AllLevels  == [c \in TCE |-> "REPORT_ALL_STATUS_CHANGES_ON_EXECUTIONS"]
EndLevels  == [c \in TCE |-> "REPORT_ONLY_ALL_END_STATUS_CHANGES_ON_EXECUTIONS"]
AllOrEnds ==
  [c \in TCE |-> IF c = 1 THEN "REPORT_ALL_STATUS_CHANGES_ON_EXECUTIONS"
                 ELSE "REPORT_ONLY_ALL_END_STATUS_CHANGES_ON_EXECUTIONS"]
MixedLevels ==
  [c \in TCE |-> IF c = 1 THEN "NO_STATUS_REPORTING_FOR_EXECUTION"
                 ELSE "REPORT_ALL_STATUS_CHANGES_ON_EXECUTIONS"]
OneOrBoth == {<<1>>, <<2>>, <<1, 2>>}

Executing == {EXECUTING}
Ended     == {FINISHED_OK}
TimedOuts == {TIMEOUT_INTERRUPTION}
=============================================================================
