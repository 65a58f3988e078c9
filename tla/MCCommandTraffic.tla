-------------------------- MODULE MCCommandTraffic --------------------------
(***************************************************************************)
(* Two tracks and three TestCaseExecutions, and what a stopped process has *)
(* left of them, for the model checker.                                    *)
(***************************************************************************)
EXTENDS CommandTraffic

\* 1 and 3 on track 0, and their TIEs on the other track.
TceTracks == [c \in TCE |-> (c + 1) % 2]
TieTracks == [c \in TCE |-> c % 2]

\* The first two are under execution and on its queue, or one is still on the queue of
\* TCEs; the third has been sent, or is to come.
FromQueues == {<<"ongoing", "onQueue", "unknown">>,
               <<"ongoing", "onQueue", "sent">>,
               <<"ended", "onTestCaseQueue", "unknown">>,
               <<"ended", "onTestCaseQueue", "sent">>}
AllOngoing == {[c \in TCE |-> "ongoing"]}
=============================================================================
