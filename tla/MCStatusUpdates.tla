-------------------------- MODULE MCStatusUpdates ---------------------------
(***************************************************************************)
(* An instance of StatusUpdates for TLC, on two tracks.                    *)
(***************************************************************************)
EXTENDS StatusUpdates, MCSuiteListings

\* The TCEs are on tracks of their own, and the TIEs of a TCE are on both.
Crosswise == [x \in TCE \cup TIE |-> x % 2]

=============================================================================
