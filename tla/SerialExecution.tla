-------------------------- MODULE SerialExecution ---------------------------
(***************************************************************************)
(* What the execution engine promises a user who has queued test cases: the*)
(* TIEs of one TCE are executed one at a time and in their order, each one *)
(* at most once, and the first that does not end well is the last.  TCEs   *)
(* do not disturb each other.  Tables, commands, tracks and transactions   *)
(* are left to ExecutionEngine, which implements this specification.       *)
(***************************************************************************)
EXTENDS Naturals

CONSTANTS
  TCE,      \* TestCaseExecutions
  TIE,      \* TestInstructionExecutions
  Parent,   \* [TIE -> TCE]
  Order     \* [TIE -> Nat]

VARIABLES
  accepted, \* the TCEs the engine has taken over from the clients
  state     \* how far each TIE has come

promise == <<accepted, state>>

Init ==
  /\ accepted = {}
  /\ state = [i \in TIE |-> "waiting"]

\* The TCEs that a client has listed are taken over together.
Accept(S) ==
  /\ S # {} /\ S \cap accepted = {}
  /\ accepted' = accepted \cup S
  /\ UNCHANGED state

Siblings(i) == {j \in TIE : j # i /\ Parent[j] = Parent[i]}

\* It is i's turn: nothing of its TCE is running or has failed, and what comes
\* before it has passed.
Turn(i) ==
  /\ state[i] = "waiting" /\ Parent[i] \in accepted
  /\ \A j \in Siblings(i) : /\ state[j] \notin {"running", "failed"}
                            /\ Order[j] < Order[i] => state[j] = "passed"

\* One TIE of each of several TCEs begins.
Begin(S) ==
  /\ S # {}
  /\ \A i \in S : Turn(i) /\ S \cap Siblings(i) = {}
  /\ state' = [i \in TIE |-> IF i \in S THEN "running" ELSE state[i]]
  /\ UNCHANGED accepted

End(i) ==
  /\ state[i] = "running"
  /\ \E outcome \in {"passed", "failed"} :
       state' = [state EXCEPT ![i] = outcome]
  /\ UNCHANGED accepted

Next ==
  \/ \E S \in SUBSET TCE : Accept(S)
  \/ \E S \in SUBSET TIE : Begin(S)
  \/ \E i \in TIE : End(i)

Spec == Init /\ [][Next]_promise

=============================================================================
