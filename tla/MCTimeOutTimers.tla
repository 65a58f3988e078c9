-------------------------- MODULE MCTimeOutTimers ---------------------------
(***************************************************************************)
(* TestInstructionExecutions as model values, for the model checker.       *)
(***************************************************************************)
EXTENDS TimeOutTimers, TLC

Symmetry == Permutations(TIE)
=============================================================================
