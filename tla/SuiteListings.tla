--------------------------- MODULE SuiteListings ----------------------------
(***************************************************************************)
(* The tables from which the user interface lists executions: one row per  *)
(* TestCaseExecution (TCE) and one per execution of a test suite, with     *)
(* their status, whether they have finished, and previews of the results of*)
(* their TestInstructionExecutions (TIE).                                  *)
(*                                                                         *)
(* ExecutionEngine is extended with the two handlers that write them, in   *)
(* the transactions in which they write their other tables: the take-over  *)
(* of TCEs, which inserts the rows, and (C), which updates them.  The other*)
(* steps of the engine leave the listings alone.                           *)
(*                                                                         *)
(* The suites of the model exist in the builder's tables: for a suite that *)
(* has been deleted no preview is written.  The statements of one (C) are  *)
(* one action, so that two (C) on two tracks that each miss what the other *)
(* one has not committed yet are not in this model.                        *)
(***************************************************************************)
EXTENDS ExecutionEngine

CONSTANT SuiteOf   \* [TCE -> Nat]: the execution of a suite a TCE is part of;
                   \* 0, 'ZeroUuid', when it is part of none

ASSUME SuiteAssumption == SuiteOf \in [TCE -> Nat]

VARIABLES
  tcListing, \* 'TestCasesExecutionsForListings': TCE -> status and finished flag
  tcPreview, \* its previews: TIE -> the status shown for it
  tsListing, \* 'TestSuitesExecutionsForListings': suite -> status and finished
  tsPreview  \* its previews: TIE -> the status shown for it

listings == <<tcListing, tcPreview, tsListing, tsPreview>>
allVars  == <<vars, listings>>

SuitesOf(cs) == {SuiteOf[c] : c \in cs} \ {0}
Suites       == SuitesOf(TCE)
CasesOf(s)   == {c \in TCE : SuiteOf[c] = s}

-----------------------------------------------------------------------------
(* The take-over of TCEs *)

FirstListing == [status |-> INITIATED, finished |-> FALSE]

IsListed(s) == tsListing[s].status # NoRow

\* Mutant: the suites are not listed.
ListTestCasesOnly(rows) ==
  /\ tcListing' = [c \in TCE |-> IF c \in rows THEN FirstListing ELSE tcListing[c]]
  /\ UNCHANGED <<tcPreview, tsListing, tsPreview>>

\* Mutant: one TCE of a suite is copied, as it is for the listing of suites.
ListOneOfEachSuite(rows) ==
  LET one == {c \in rows : IsLowest(c, rows \cap CasesOf(SuiteOf[c]))}
  IN /\ tcListing' = [c \in TCE |-> IF c \in one THEN FirstListing ELSE tcListing[c]]
     /\ tsListing' = [s \in Suites |-> IF s \in SuitesOf(rows) THEN FirstListing
                                                               ELSE tsListing[s]]
     /\ UNCHANGED <<tcPreview, tsPreview>>

\* The new rows of 'TestCasesUnderExecution' are copied, for a suite the row of
\* one of its TCEs.  (The copies hold previews of test cases and suites too,
\* which no result changes.)
ListNew(rows) ==
  /\ tcListing' = [c \in TCE |-> IF c \in rows THEN FirstListing ELSE tcListing[c]]
  /\ tsListing' = [s \in Suites |-> IF s \in SuitesOf(rows) THEN FirstListing
                                                            ELSE tsListing[s]]
  /\ UNCHANGED <<tcPreview, tsPreview>>

TakeOver(t) ==
  /\ \A s \in SuitesOf(handler[t].tces) : ~ IsListed(s)
  /\ SaveTestCases(t)
  /\ ListNew(handler[t].tces)

\* The suite of one of the TCEs has been listed by an earlier take-over.  Its
\* preview would be written to two rows, which is an error: rolled back.
ListedAlready(t) ==
  /\ WorksOn(t, "ProcessTestCases")
  /\ \A c \in handler[t].tces : tcue[c].status = NoRow
  /\ \E s \in SuitesOf(handler[t].tces) : IsListed(s)
  /\ Stop(t)
  /\ UNCHANGED <<database, chan, result, environment, listings>>

-----------------------------------------------------------------------------
(* (C) *)

\* 'hasTestCaseAnEndStatus': the two time-outs are no end statuses.
HasEndStatus(s) ==
  s \in CONTROLLED_INTERRUPTION .. UNEXPECTED_INTERRUPTION_CAN_BE_RERUN

\* Below, told are the TCEs of one (C), and after is the table of ongoing TCEs
\* as (C) has written it.
Ended(told, after) == {c \in told : HasEndStatus(after[c].status)}

\* Mutant: only what has ended well is listed as finished.
TestCaseListingsEndedOk(told, after) ==
  [c \in TCE |-> IF c \in Ended(told, after) /\ EndedOk(after[c].status)
                 THEN [status |-> after[c].status, finished |-> TRUE]
                 ELSE tcListing[c]]

TestCaseListings(told, after) ==
  [c \in TCE |-> IF c \in Ended(told, after)
                 THEN [status |-> after[c].status, finished |-> TRUE]
                 ELSE tcListing[c]]

\* The TIEs of the TCEs cs that are ongoing or have ended, as they are now.
PreviewsOf(cs) ==
  [i \in TIE |-> IF Parent[i] \in cs THEN tiue[i].status ELSE tcPreview[i]]

\* Mutant: the table is read before (C) has written it.
NothingLeftBefore(s, after) ==
  /\ CasesOf(s) \cap tcQueue = {}
  /\ \A c \in CasesOf(s) : ~ IsOngoing(tcue[c].status)

\* No TCE of the suite is on the queue, none is ongoing.
NothingLeft(s, after) ==
  /\ CasesOf(s) \cap tcQueue = {}
  /\ \A c \in CasesOf(s) : ~ IsOngoing(after[c].status)

\* (C) goes through its TCEs, lowest first, and sets the suite of c to the
\* status of c if that is a higher number and nothing of the suite is left.
Raises(c, told, after) ==
  LET s == SuiteOf[c]
  IN /\ s # 0
     /\ NothingLeft(s, after)
     /\ tsListing[s].status < after[c].status
     /\ \A d \in told \cap CasesOf(s) :
          d < c => after[d].status < after[c].status

SuiteListing(s, told, after) ==
  LET raising == {c \in told \cap CasesOf(s) : Raises(c, told, after)}
      last    == {c \in raising : IsHighest(c, raising)}
  IN IF last = {} THEN tsListing[s]
     ELSE LET final == after[CHOOSE c \in last : TRUE].status
          IN [status |-> final, finished |-> HasEndStatus(final)]

\* The first TCE that has ended and does not set the status of its suite has the
\* previews of the suite rewritten, from those of its TCEs.
SuitePreview(s, told, after) ==
  LET ended == Ended(told, after)
      quiet == {c \in ended \cap CasesOf(s) : ~ Raises(c, told, after)}
      first == {c \in quiet : IsLowest(c, quiet)}
  IN IF first = {} THEN tsPreview
     ELSE PreviewsOf({c \in ended : \A d \in first : c =< d})

ListStatuses(told, after) ==
  /\ tcListing' = TestCaseListings(told, after)
  /\ tcPreview' = PreviewsOf(Ended(told, after))
  /\ tsListing' = [s \in Suites |-> SuiteListing(s, told, after)]
  /\ tsPreview' = [i \in TIE |->
                     LET s == SuiteOf[Parent[i]]
                     IN IF s = 0 THEN tsPreview[i]
                        ELSE SuitePreview(s, told, after)[i]]

UpdateAndList(t) ==
  LET messages == handler[t].messages
  IN /\ UpdateTestCases(t)
     /\ ListStatuses({m.tce : m \in messages}, TestCasesUpdated(messages))

-----------------------------------------------------------------------------
(* The specification *)

ListInit ==
  /\ Init
  /\ tcListing = [c \in TCE |-> [status |-> NoRow, finished |-> FALSE]]
  /\ tsListing = [s \in Suites |-> [status |-> NoRow, finished |-> FALSE]]
  /\ tcPreview = [i \in TIE |-> NoRow]
  /\ tsPreview = [i \in TIE |-> NoRow]

ListReader(t) ==
  \/ TakeOver(t) \/ ListedAlready(t) \/ UpdateAndList(t)
  \/ OtherCommand(t) /\ UNCHANGED listings

ListNext ==
  \/ \E t \in Tracks : ListReader(t)
  \/ Surroundings /\ UNCHANGED listings

ListSpec == ListInit /\ [][ListNext]_allVars

-----------------------------------------------------------------------------
(* Properties *)

ListingRow == [status: Statuses \cup {NoRow}, finished: BOOLEAN]

ListTypeOK ==
  /\ tcListing \in [TCE -> ListingRow]
  /\ tsListing \in [Suites -> ListingRow]
  /\ tcPreview \in [TIE -> Statuses \cup {NoRow}]
  /\ tsPreview \in [TIE -> Statuses \cup {NoRow}]

\* Every TCE that is under execution has a row in the listing, and so has its
\* suite; nothing else has.  (C) relies on it: an UPDATE of a listing that does
\* not meet exactly one row rolls (C) back, and the TCE would not go on.
RowsToUpdate ==
  /\ \A c \in TCE : tcListing[c].status # NoRow <=> tcue[c].status # NoRow
  /\ \A s \in Suites :
       IsListed(s) <=> \E c \in CasesOf(s) : tcue[c].status # NoRow

\* RowsToUpdate rests on what handlers have read being about rows that exist,
\* which the invariant of the engine says.
ListIInv == IInv /\ ListTypeOK /\ RowsToUpdate

\* A TCE with an end status is listed with that status, as finished, and with the
\* results of all its TIEs.
ListingAgrees(c) ==
  HasEndStatus(tcue[c].status) =>
    /\ tcListing[c] = [status |-> tcue[c].status, finished |-> TRUE]
    /\ \A i \in ChildrenOf({c}) : tcPreview[i] = tiue[i].status

\* When the engine has settled, the listing agrees with every TCE that has an end
\* status, although that status has been overwritten meanwhile by steps that know
\* no listing.
ListingFollows == Settled => \A c \in TCE : ListingAgrees(c)

\* When the engine comes to rest, a suite whose TCEs all have an end status is
\* listed as finished.
SuiteFinishes ==
  Quiet => \A s \in Suites :
    (\A c \in CasesOf(s) : HasEndStatus(tcue[c].status)) => tsListing[s].finished

\* A suite that is listed as finished has no TIE with a Worker, and none of its
\* TCEs waits to be taken over.
FinishedIsOver ==
  \A s \in Suites : tsListing[s].finished =>
    \A c \in CasesOf(s) :
      c \notin tcQueue /\ \A i \in RowsOf(c) : ~ IsOngoing(tiue[i].status)

\* When the engine comes to rest, a suite that is finished shows the dominant
\* status of its TCEs.
SuiteShowsWorst ==
  Quiet => \A s \in Suites : tsListing[s].finished =>
    tsListing[s].status \in Dominant({tcue[c].status : c \in CasesOf(s)})

\* When the engine comes to rest, no TCE is left on its queue, as the start-up
\* scan takes over what a crash has left there.
NoneLeftOnQueue == Quiet => tcQueue = {}

\* When the engine comes to rest, a suite that is finished shows the results of
\* all its TIEs.
SuiteShowsResults ==
  Quiet => \A s \in Suites : tsListing[s].finished =>
    \A i \in TIE : SuiteOf[Parent[i]] = s => tsPreview[i] = tiue[i].status

=============================================================================
