-------------------------- MODULE MCSuiteListings ---------------------------
(***************************************************************************)
(* Instances of SuiteListings for TLC.  The first digit of a TIE is its    *)
(* TCE, the second one its place in the execution order.                   *)
(***************************************************************************)
EXTENDS SuiteListings

MCParent  == [i \in TIE |-> i \div 10]
MCOrder   == [i \in TIE |-> i % 10]
MCVersion == [c \in TCE |-> 1]

\* Everything on one track.
OneTrack == [x \in TCE \cup TIE |-> 0]

OneList == {<<1, 2>>}

\* All TCEs belong to one execution of a suite.
OneSuite == [c \in TCE |-> 1]

=============================================================================
