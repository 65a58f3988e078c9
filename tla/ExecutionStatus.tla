-------------------------- MODULE ExecutionStatus --------------------------
(***************************************************************************)
(* The execution statuses of TestInstructionExecutions and of              *)
(* TestCaseExecutions (both enumerations use the same numbers), and the    *)
(* classifications of them that the engine's decisions rest on.            *)
(***************************************************************************)
EXTENDS Integers

NoRow == 0   \* DEFAULT_NOT_SET; in the models: there is no such row yet

INITIATED                            == 1
EXECUTING                            == 2
CONTROLLED_INTERRUPTION              == 3
CONTROLLED_INTERRUPTION_CAN_BE_RERUN == 4
FINISHED_OK                          == 5
FINISHED_OK_CAN_BE_RERUN             == 6
FINISHED_NOT_OK                      == 7
FINISHED_NOT_OK_CAN_BE_RERUN         == 8
UNEXPECTED_INTERRUPTION              == 9
UNEXPECTED_INTERRUPTION_CAN_BE_RERUN == 10
TIMEOUT_INTERRUPTION_CAN_BE_RERUN    == 11
TIMEOUT_INTERRUPTION                 == 12

Statuses == INITIATED .. TIMEOUT_INTERRUPTION

\* A report from a Worker is accepted as final from CONTROLLED_INTERRUPTION on.
IsFinal(s) == s >= CONTROLLED_INTERRUPTION

\* The row exists and its TestInstructionExecution has not ended.
IsOngoing(s) == s \in {INITIATED, EXECUTING}

EndedOk(s) == s \in {FINISHED_OK, FINISHED_OK_CAN_BE_RERUN}

\* 'statusOrderDecisionMap': the status with the highest number decides.
StatusOrder ==
  [s \in Statuses |->
     CASE s = INITIATED                            -> 1
       [] s = FINISHED_OK                          -> 2
       [] s = EXECUTING                            -> 3
       [] s = FINISHED_OK_CAN_BE_RERUN             -> 4
       [] s = FINISHED_NOT_OK_CAN_BE_RERUN         -> 5
       [] s = TIMEOUT_INTERRUPTION_CAN_BE_RERUN    -> 6
       [] s = CONTROLLED_INTERRUPTION_CAN_BE_RERUN -> 7
       [] s = UNEXPECTED_INTERRUPTION_CAN_BE_RERUN -> 8
       [] s = FINISHED_NOT_OK                      -> 9
       [] s = TIMEOUT_INTERRUPTION                 -> 10
       [] s = CONTROLLED_INTERRUPTION              -> 11
       [] s = UNEXPECTED_INTERRUPTION              -> 12]

\* The members of S that no member of S outranks (one, as the ranks differ).
Dominant(S) == {s \in S : \A r \in S : StatusOrder[r] =< StatusOrder[s]}

\* 'ExecutionHasFinished' of a TestCaseExecution with status s.
HasFinished(s) == ~ IsOngoing(s)
=============================================================================
