----------------------- MODULE ExecutionOrder_proofs ------------------------
(***************************************************************************)
(* Proofs about ExecutionOrder, of test cases of every size: (A) takes each*)
(* TestInstruction once, and always one of the lowest calculated number.   *)
(* So the order in which they begin is that of their numbers; whether the  *)
(* numbers follow the containers of the test case is a question about a    *)
(* recursive walk over a tree, which the model checker answers (yes for    *)
(* order_even, no for order_nested).  That the walk gives every            *)
(* TestInstruction a number is such a question too: IsNumbered, which the  *)
(* theorems say of the test case at hand and order_all checks of all trees *)
(* of its size, as part of TypeOK.                                         *)
(***************************************************************************)
EXTENDS ExecutionOrder, TLAPS

\* What the variables hold, and (A) has taken the lowest number each time.
OrderInv ==
  /\ model \in Models
  /\ IsNumbered(model) => /\ begun \in Seq(TestInstructions(model))
                          /\ TypeOK /\ LowestFirst

-----------------------------------------------------------------------------
(* The steps *)

\* The numbers of a test case on the queue.
LEMMA NumbersAre ==
  ASSUME NEW m \in Models, IsNumbered(m), Calculable(m)
  PROVE  /\ OrderNumbers(m) \in [TestInstructions(m) -> Nat]
         /\ \A i \in TestInstructions(m) : OrderNumbers(m)[i] \in 0 .. MaxOrderNumber
<1>1. OrderNumbers(m) \in [TestInstructions(m) -> Nat]
  BY DEF IsNumbered
<1>2. \A i \in TestInstructions(m) : OrderNumbers(m)[i] =< MaxOrderNumber
  BY DEF Calculable
<1> QED BY <1>1, <1>2, OrderAssumption

\* Nothing is on the queue before the take-over.
LEMMA OrderInvAtFirst ==
  ASSUME Init
  PROVE  OrderInv
<1>1. DOMAIN begun = {} /\ DOMAIN queue = {} /\ Range(begun) = {}
  BY DEF Init, Range
<1> QED BY <1>1 DEF Init, OrderInv, TypeOK, LowestFirst, IsInjective

\* The take-over puts all of them on the queue.
LEMMA SaveKeepsOrder ==
  ASSUME IsNumbered(model), OrderInv, SaveTestInstructionsToExecutionQueue
  PROVE  OrderInv'
<1> DEFINE number == OrderNumbers(model)
<1>1. /\ model \in Models /\ Calculable(model) /\ status = "waiting"
      /\ model' = model /\ begun' = begun /\ queue' = number /\ status' = "queued"
  BY DEF SaveTestInstructionsToExecutionQueue, OrderInv
<1>2. /\ number \in [TestInstructions(model) -> Nat]
      /\ \A i \in TestInstructions(model) : number[i] \in 0 .. MaxOrderNumber
  BY <1>1, NumbersAre
<1>3. begun \in Seq(TestInstructions(model)) /\ IsInjective(begun) /\ Range(begun) = {}
  BY <1>1 DEF OrderInv, TypeOK
<1>4. DOMAIN begun = {}
  BY <1>3 DEF Range
<1> HIDE DEF number
<1>5. TypeOK'
  BY <1>1, <1>2, <1>3 DEF TypeOK
<1>6. LowestFirst'
  <2>1. queue' = [i \in DOMAIN queue' |-> number[i]]
    BY <1>1, <1>2
  <2> QED BY <1>1, <1>4, <2>1 DEF LowestFirst, number
<1> QED BY <1>1, <1>3, <1>5, <1>6 DEF OrderInv

\* What cannot be ordered is not taken over.
LEMMA FailureKeepsOrder ==
  ASSUME OrderInv, CannotBeOrdered
  PROVE  OrderInv'
BY DEF OrderInv, TypeOK, LowestFirst, CannotBeOrdered

\* (A) goes on with the lowest number, which is not lower than any before it.
LEMMA TakeKeepsOrder ==
  ASSUME IsNumbered(model), OrderInv, NEW i \in Elements(model), Take(i)
  PROVE  OrderInv'
<1> DEFINE number == OrderNumbers(model)
           n == Len(begun)
<1>1. /\ model \in Models /\ model' = model /\ status' = status
      /\ i \in DOMAIN queue /\ \A j \in DOMAIN queue : queue[i] =< queue[j]
      /\ begun' = Append(begun, i) /\ queue' = [j \in DOMAIN queue \ {i} |-> queue[j]]
      /\ begun \in Seq(TestInstructions(model))
  BY DEF Take, ComesFirst, OrderInv
<1>2. /\ status = "queued"
      /\ DOMAIN queue \cup Range(begun) = TestInstructions(model)
      /\ DOMAIN queue \cap Range(begun) = {} /\ IsInjective(begun)
  BY <1>1 DEF OrderInv, TypeOK
<1>3. /\ Calculable(model)
      /\ \A j \in DOMAIN queue : queue[j] = number[j]
      /\ \A k \in 1 .. n : /\ \A j \in DOMAIN queue : number[begun[k]] =< number[j]
                           /\ \A l \in 1 .. n : k < l => number[begun[k]] =< number[begun[l]]
  BY <1>1, <1>2 DEF OrderInv, LowestFirst
<1>4. number \in [TestInstructions(model) -> Nat]
  BY <1>1, <1>3, NumbersAre
<1> HIDE DEF number
<1>5. /\ i \in TestInstructions(model) /\ n \in Nat
      /\ DOMAIN begun = 1 .. n /\ DOMAIN begun' = 1 .. n + 1
      /\ begun'[n + 1] = i /\ \A k \in 1 .. n : begun'[k] = begun[k]
      /\ begun' \in Seq(TestInstructions(model))
      /\ DOMAIN queue' = DOMAIN queue \ {i}
      /\ \A j \in DOMAIN queue' : queue'[j] = queue[j]
  BY <1>1, <1>2
<1>6. Range(begun') = Range(begun) \cup {i}
  BY <1>5 DEF Range
<1>7. IsInjective(begun')
  <2>1. \A k \in 1 .. n : begun[k] # i
    BY <1>1, <1>2, <1>5 DEF Range
  <2> QED BY <1>2, <1>5, <2>1 DEF IsInjective
<1>8. TypeOK'
  <2>1. \A j \in DOMAIN queue' : queue'[j] \in 0 .. MaxOrderNumber
    BY <1>5 DEF OrderInv, TypeOK
  <2>2. DOMAIN queue' \cap Range(begun') = {}
    BY <1>2, <1>5, <1>6
  <2>3. DOMAIN queue' \cup Range(begun') = TestInstructions(model)
    BY <1>1, <1>2, <1>5, <1>6
  <2> QED BY <1>1, <1>2, <1>7, <2>1, <2>2, <2>3 DEF TypeOK
<1>9. LowestFirst'
  <2>1. queue' = [j \in DOMAIN queue' |-> number[j]]
    BY <1>1, <1>3, <1>5
  <2>2. ASSUME NEW k \in 1 .. n + 1, NEW j \in DOMAIN queue'
        PROVE  number[begun'[k]] =< number[j]
    <3>1. CASE k = n + 1
      BY <1>1, <1>3, <1>5, <3>1
    <3>2. CASE k \in 1 .. n
      BY <1>3, <1>5, <3>2
    <3> QED BY <1>5, <3>1, <3>2
  <2>3. ASSUME NEW k \in 1 .. n + 1, NEW l \in 1 .. n + 1, k < l
        PROVE  number[begun'[k]] =< number[begun'[l]]
    <3>1. k \in 1 .. n
      BY <1>5, <2>3
    <3>2. CASE l = n + 1
      BY <1>1, <1>3, <1>5, <3>1, <3>2
    <3>3. CASE l \in 1 .. n
      BY <1>3, <1>5, <2>3, <3>1, <3>3
    <3> QED BY <1>5, <3>2, <3>3
  <2> QED BY <1>1, <1>3, <1>5, <2>1, <2>2, <2>3 DEF LowestFirst, number
<1> QED BY <1>1, <1>5, <1>8, <1>9 DEF OrderInv

-----------------------------------------------------------------------------
(* The theorems *)

\* Each step keeps it, and the test case.
LEMMA OrderInvStays ==
  ASSUME OrderInv, [Next]_vars
  PROVE  OrderInv'
<1>1. CASE UNCHANGED vars
  BY <1>1 DEF vars, OrderInv, TypeOK, LowestFirst
<1>2. CASE Next /\ IsNumbered(model)
  BY <1>2, SaveKeepsOrder, FailureKeepsOrder, TakeKeepsOrder DEF Next
<1>3. CASE Next /\ ~ IsNumbered(model)
  <2>1. model' = model
    BY <1>3 DEF Next, SaveTestInstructionsToExecutionQueue, CannotBeOrdered, Take
  <2> QED BY <1>3, <2>1 DEF OrderInv
<1> QED BY <1>1, <1>2, <1>3

\* Every TestInstruction of a test case that could be ordered is on the queue with
\* its number or has been taken by (A), once, and (A) has taken none before one of a
\* lower number.
THEOREM OrderInvHolds == Spec => [](IsNumbered(model) => TypeOK /\ LowestFirst)
<1>1. OrderInv => (IsNumbered(model) => TypeOK /\ LowestFirst)
  BY DEF OrderInv
<1> QED BY <1>1, OrderInvAtFirst, OrderInvStays, PTL DEF Spec

\* A test case whose own numbers follow its serial containers is executed in their
\* order, however (A) chooses among rows of one number: if it is not, the
\* calculation is to blame.
THEOREM NumbersDecide == Spec => [](NumbersInOrder => InModelOrder)
<1>1. ASSUME OrderInv, NumbersInOrder PROVE InModelOrder
  <2> DEFINE number == OrderNumbers(model)
  <2> SUFFICES ASSUME NEW k \in DOMAIN begun, NEW l \in DOMAIN begun, k < l,
                      MustPrecede(model, begun[l], begun[k])
               PROVE  FALSE
    BY DEF InModelOrder
  <2>1. /\ model \in Models /\ IsNumbered(model)
        /\ begun \in Seq(TestInstructions(model)) /\ TypeOK /\ LowestFirst
    BY <1>1 DEF OrderInv, NumbersInOrder, NumbersFollow
  <2>2. begun[k] \in TestInstructions(model) /\ begun[l] \in TestInstructions(model)
    BY <2>1
  <2>3. status = "queued"
    <3>1. begun[k] \in Range(begun)
      BY DEF Range
    <3> QED BY <2>1, <3>1 DEF TypeOK
  <2>4. Calculable(model) /\ number[begun[k]] =< number[begun[l]]
    BY <2>1, <2>3 DEF LowestFirst
  <2>5. number[begun[l]] < number[begun[k]]
    BY <1>1, <2>2, <2>4 DEF NumbersInOrder, NumbersFollow
  <2>6. number[begun[k]] \in Nat /\ number[begun[l]] \in Nat
    BY <2>1, <2>2, <2>4, NumbersAre
  <2> HIDE DEF number
  <2> QED BY <2>4, <2>5, <2>6
<1> QED BY <1>1, OrderInvAtFirst, OrderInvStays, PTL DEF Spec

=============================================================================
