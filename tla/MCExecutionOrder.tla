-------------------------- MODULE MCExecutionOrder --------------------------
(***************************************************************************)
(* Test cases for the model checker: every tree of a given size, and one   *)
(* tree that is large enough for numbers of two digits.                    *)
(***************************************************************************)
EXTENDS ExecutionOrder

Root(exec) == [kind |-> <<"TIC">>, parent |-> <<1>>, exec |-> <<exec>>,
               stored |-> {1}]

\* The walk goes down before it goes on, and no container is empty: the next
\* element is inside the last one, or else after something that holds it.
Extended(m, kind, exec) ==
  LET last == Len(m.kind)
  IN {[kind   |-> Append(m.kind, kind),   parent |-> Append(m.parent, p),
       exec   |-> Append(m.exec, exec),   stored |-> m.stored \cup {last + 1}] :
        p \in IF m.kind[last] = "TIC" THEN {last}
              ELSE AndContainers(m, last) \ {last}}

Containers(m) == Extended(m, "TIC", "serial") \cup Extended(m, "TIC", "parallel")
Leaves(m)     == Extended(m, "TI", "serial") \cup Extended(m, "BOND", "serial")

\* The test cases of n elements.
TestCases(n) ==
  LET Trees[k \in 1 .. n] ==
        IF k = 1 THEN {Root("serial"), Root("parallel")}
        ELSE UNION {Leaves(m) \cup (IF k = n THEN {} ELSE Containers(m)) :
                      m \in Trees[k - 1]}
  IN {m \in Trees[n] : TestInstructions(m) # {}}

\* Below the first element no container is inside a parallel one.
IsEven(m) ==
  \A e \in Elements(m) :
    m.kind[e] = "TIC" /\ m.parent[e] # 1 => ~ InParallel(m, e)

Even(n) == {m \in TestCases(n) : IsEven(m)}

\* One element is missing in the database.
Damaged(models) ==
  UNION {{[m EXCEPT !.stored = @ \ {e}] : e \in Elements(m)} : m \in models}

EvenModels == Even(7) \cup Even(5) \cup Damaged(Even(4))

AllModels == TestCases(6)

\* However the containers are nested.
EveryModel == TestCases(6) \cup TestCases(5) \cup Damaged(TestCases(4))

\* A serial test case of two parallel containers; the first one holds a serial
\* container of eleven TestInstructions, the second one of a single one.
WideModels ==
  {[kind   |-> <<"TIC", "TIC", "TIC">> \o [k \in 1 .. 11 |-> "TI"]
                 \o <<"TIC", "TIC", "TI">>,
    parent |-> <<1, 1, 2>> \o [k \in 1 .. 11 |-> 3] \o <<1, 15, 16>>,
    exec   |-> <<"serial", "parallel", "serial">> \o [k \in 1 .. 11 |-> "serial"]
                 \o <<"parallel", "serial", "serial">>,
    stored |-> 1 .. 17]}
=============================================================================
