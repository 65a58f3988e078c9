------------------------- MODULE MCExecutionEngine -------------------------
(***************************************************************************)
(* Instances of ExecutionEngine for TLC.  The first digit of a TIE is its  *)
(* TCE, the second one its place in the execution order.                   *)
(***************************************************************************)
EXTENDS SerialDrivers

MCParent  == [i \in TIE |-> i \div 10]
MCOrder   == [i \in TIE |-> i % 10]
MCVersion == [c \in TCE |-> 1]

\* Everything on one track.
OneTrack == [x \in TCE \cup TIE |-> 0]

\* The tracks of a TCE and of its TIEs differ.
TwoTracks == [x \in TCE \cup TIE |-> IF x < 10 THEN (x + 1) % 2 ELSE x % 2]

\* The two serial counters agree for every pair of rows.
AllPairs == TIE \X TIE

OneList  == {<<1, 2>>}
TwoLists == {<<1>>, <<2>>}
OneTestCase == {<<1>>}

=============================================================================
