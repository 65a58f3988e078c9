--------------------------- MODULE ExecutionOrder ---------------------------
(***************************************************************************)
(* In which order the TestInstructions of a test case are executed: how    *)
(* the tree of serial and parallel TestInstructionContainers is turned into*)
(* one number per TestInstruction when a TestCaseExecution is taken over,  *)
(* and in which order (A) takes the TestInstructions from their queue.     *)
(*                                                                         *)
(* The calculator walks the tree with a list of numbers, a Go slice: the   *)
(* last number of a slice is stepped in place, so that the caller sees the *)
(* steps of the callee unless the slice was made longer in between.        *)
(***************************************************************************)
EXTENDS Integers, Sequences, SequencesExt, FiniteSetsExt

CONSTANTS
  Models,         \* test cases: what the elements are and how they are nested
  MaxOrderNumber  \* the largest number 'ParseInt' returns, 2^63 - 1 in the code

(***************************************************************************)
(* A model m: kind and parent of every element, whether a container is     *)
(* serial or parallel, and the elements that are stored.  Elements are     *)
(* numbered as they come in the test case, a container before what it      *)
(* holds; element 1 is the first one and its own parent.                   *)
(***************************************************************************)
Elements(m) == DOMAIN m.kind

ASSUME OrderAssumption ==
  /\ MaxOrderNumber \in Nat
  /\ \A m \in Models :
       /\ 1 \in Elements(m) /\ m.stored \subseteq Elements(m)
       /\ \A e \in Elements(m) :
            /\ m.kind[e] \in {"TI", "TIC", "BOND"}
            /\ IF e = 1 THEN m.parent[e] = 1
               ELSE m.parent[e] < e /\ m.kind[m.parent[e]] = "TIC"
            /\ m.exec[e] \in {"serial", "parallel"}

VARIABLES
  model,   \* the test case
  status,  \* of the take-over: "waiting", "queued" or "failed"
  queue,   \* 'TestInstructionExecutionQueue': TestInstruction -> order number
  begun    \* the TestInstructions in the order (A) has taken them

vars == <<model, status, queue, begun>>

TestInstructions(m) == {e \in Elements(m) : m.kind[e] = "TI"}

Children(m, e) == {x \in Elements(m) \ {e} : m.parent[x] = e}
LaterSiblings(m, e) ==
  IF m.parent[e] = e THEN {} ELSE {x \in Children(m, m.parent[e]) : x > e}

\* Bonds only join the others and do not count.
Counts(m, e) == m.kind[e] # "BOND"

\* The first element is treated as if it stood in a parallel container.
InParallel(m, e) == m.parent[e] = e \/ m.exec[m.parent[e]] = "parallel"

-----------------------------------------------------------------------------
(* The lists of numbers *)

\* What the children of e, and its later siblings, are given.
Longer(m, e, slice) ==
  IF Children(m, e) # {} /\ Counts(m, e) /\ InParallel(m, e)
  THEN Append(slice, 0) ELSE slice

Step(m, e, slice) ==
  IF Counts(m, e) /\ ~ InParallel(m, e)
  THEN [slice EXCEPT ![Len(slice)] = @ + 1] ELSE slice

\* Mutant: the callee works on a copy.
CallerKeeps(slice, longer, stepped) == slice

\* A slice of the same length is the caller's own.
SeenByCaller(slice, longer, stepped) ==
  IF Len(longer) > Len(slice) THEN slice ELSE stepped

\* The lists of the TestInstructions from e on: e, what it holds, and its later
\* siblings.
RawExecutionOrder(m) ==
  LET Visit[e \in Elements(m), slice \in Seq(Nat)] ==
        LET longer == Longer(m, e, slice)
            inner  == IF Children(m, e) = {} THEN [lists |-> <<>>, slice |-> longer]
                      ELSE Visit[Min(Children(m, e)), longer]
            later  == LaterSiblings(m, e)
            rest   == IF later = {} THEN [lists |-> <<>>, slice |-> inner.slice]
                      ELSE Visit[Min(later), Step(m, e, inner.slice)]
            own    == [x \in {e} \cap TestInstructions(m) |-> slice]
        IN [lists |-> own @@ inner.lists @@ rest.lists,
            slice |-> SeenByCaller(slice, longer, rest.slice)]
  IN Visit[1, <<0>>].lists

-----------------------------------------------------------------------------
(* From lists to numbers *)

Digits(n) == Len(ToString(n))

\* The largest number of digits of any number in the lists.
MaxNumberOfDigits(lists) ==
  Max(UNION {{Digits(n) : n \in Range(lists[i])} : i \in DOMAIN lists})

\* The comment beside it wants every number padded to 'max' digits.  But the
\* number of missing digits is handed to the format as its width.
PrintedDigits(n, max) == Max({Digits(n), max - Digits(n)})

\* The numbers of a list, printed one after the other and read as one number.
TemporaryOrderNumber(list, max) ==
  FoldLeft(LAMBDA number, n : number * 10 ^ PrintedDigits(n, max) + n, 0, list)

OrderNumbers(m) ==
  LET lists == RawExecutionOrder(m)
      max   == MaxNumberOfDigits(lists)
  IN [i \in DOMAIN lists |-> TemporaryOrderNumber(lists[i], max)]

\* Mutant: the error of 'ParseInt' is ignored.
CalculableIfStored(m) == m.stored = Elements(m)

\* An element that is referred to but not stored, or a number that 'ParseInt'
\* cannot hold, makes the calculation fail.
Calculable(m) ==
  /\ m.stored = Elements(m)
  /\ \A i \in TestInstructions(m) : OrderNumbers(m)[i] =< MaxOrderNumber

-----------------------------------------------------------------------------
(* Taking over the test case, and (A) *)

Init ==
  /\ model \in Models
  /\ status = "waiting" /\ queue = <<>> /\ begun = <<>>

SaveTestInstructionsToExecutionQueue ==
  /\ status = "waiting" /\ Calculable(model)
  /\ status' = "queued"
  /\ queue' = OrderNumbers(model)
  /\ UNCHANGED <<model, begun>>

\* The transaction is rolled back.
CannotBeOrdered ==
  /\ status = "waiting" /\ ~ Calculable(model)
  /\ status' = "failed"
  /\ UNCHANGED <<model, queue, begun>>

\* Mutant: the rows come in descending order.
ComesLast(i) == \A j \in DOMAIN queue : queue[j] =< queue[i]

\* Rows of one number have the same time stamp, and come in the order they were
\* inserted, which the test case as stored decides and the tree does not.
ComesFirst(i) == \A j \in DOMAIN queue : queue[i] =< queue[j]

\* (A) takes one row, of the lowest number.
Take(i) ==
  /\ i \in DOMAIN queue /\ ComesFirst(i)
  /\ begun' = Append(begun, i)
  /\ queue' = [j \in DOMAIN queue \ {i} |-> queue[j]]
  /\ UNCHANGED <<model, status>>

Next ==
  \/ SaveTestInstructionsToExecutionQueue
  \/ CannotBeOrdered
  \/ \E i \in Elements(model) : Take(i)

Spec == Init /\ [][Next]_vars

-----------------------------------------------------------------------------
(* Properties *)

\* Every variable holds a value of its type, and a TestInstruction of a test
\* case that could be ordered is on the queue or has been taken, once.
TypeOK ==
  /\ status \in {"waiting", "queued", "failed"}
  /\ \A i \in DOMAIN queue : queue[i] \in 0 .. MaxOrderNumber
  /\ IsInjective(begun)
  /\ DOMAIN queue \cap Range(begun) = {}
  /\ DOMAIN queue \cup Range(begun) =
       IF status = "queued" THEN TestInstructions(model) ELSE {}

\* e and the containers it is in.
AndContainers(m, e) ==
  LET Up[x \in Elements(m)] == IF m.parent[x] = x THEN {x}
                               ELSE {x} \cup Up[m.parent[x]]
  IN Up[e]

\* Of a serial container, i is in an earlier element and j in a later one.
MustPrecede(m, i, j) ==
  \E x \in AndContainers(m, i), y \in AndContainers(m, j) :
    x < y /\ m.parent[x] = m.parent[y] /\ ~ InParallel(m, x)

\* What a serial container holds is executed in its order, however its elements
\* are nested.
InModelOrder ==
  \A k, l \in DOMAIN begun : k < l => ~ MustPrecede(model, begun[l], begun[k])

\* A test case that can be ordered has a number for each TestInstruction.
IsNumbered(m) ==
  Calculable(m) => OrderNumbers(m) \in [TestInstructions(m) -> Nat]

\* The numbers of a test case that can be ordered are those of its TestInstructions,
\* and grow where a serial container wants them to.
NumbersFollow(m) ==
  /\ IsNumbered(m)
  /\ Calculable(m) =>
       \A i, j \in TestInstructions(m) :
         MustPrecede(m, i, j) => OrderNumbers(m)[i] < OrderNumbers(m)[j]

\* The calculator gives such numbers to the test case that is taken over.
NumbersInOrder == NumbersFollow(model)

\* What is on the queue has the number that was calculated for it, and (A) has taken
\* nothing before what has a lower number.
LowestFirst ==
  LET number == OrderNumbers(model)
  IN /\ status = "queued" => /\ Calculable(model)
                             /\ queue = [i \in DOMAIN queue |-> number[i]]
     /\ \A k \in DOMAIN begun :
          /\ \A j \in DOMAIN queue : number[begun[k]] =< number[j]
          /\ \A l \in DOMAIN begun : k < l => number[begun[k]] =< number[begun[l]]

\* The parts of one list decide before the later ones: lists of one length are
\* in the same order as the numbers made of them, whatever their digits.
ComparedPartByPart ==
  \A i, j \in DOMAIN queue :
    LET a == RawExecutionOrder(model)[i]
        b == RawExecutionOrder(model)[j]
    IN Len(a) = Len(b) /\ queue[i] =< queue[j] =>
         \/ a = b
         \/ \E k \in DOMAIN a : /\ a[k] < b[k]
                                /\ \A h \in 1 .. k - 1 : a[h] = b[h]

=============================================================================
