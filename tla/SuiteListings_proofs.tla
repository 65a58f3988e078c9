------------------------ MODULE SuiteListings_proofs ------------------------
(***************************************************************************)
(* Proofs about the engine together with its listings, for any number of   *)
(* tracks, whatever fails and wherever the process stops.                  *)
(*                                                                         *)
(* First, that every UPDATE of a listing meets the row it is for: a TCE has*)
(* a row in the listing exactly when it is under execution, and a suite    *)
(* exactly when one of its TCEs is.                                        *)
(*                                                                         *)
(* Then, that the status of a TCE, its row in the listing and the row of   *)
(* its suite follow its TIEs when nothing is under way, unless the TCE is  *)
(* doubted (StatusUpdates).  Each of the three is what UpdatesInv leaves   *)
(* then; it says what is still to come for what is not right.  The argument*)
(* is about one step and one TCE: the step leaves all alone that the status*)
(* depends on, or it puts a command on a channel that brings a (C), or it  *)
(* is a (C), which writes what it has read: and that is what it would read *)
(* now, or another (C) is to come.                                         *)
(***************************************************************************)
EXTENDS StatusUpdates, ExecutionEngine_proofs, WellFoundedInduction

-----------------------------------------------------------------------------
(* The rows of the listings *)

\* The listings are written beside the tables of the engine: every step is one of
\* the engine, or a take-over that is rolled back.
LEMMA EngineSteps ==
  ASSUME ListNext
  PROVE  Next \/ \E t \in Tracks : ListedAlready(t)
BY DEF ListNext, ListReader, TakeOver, UpdateAndList, Next, Reader

\* A take-over that is rolled back leaves everything but its handler alone.
LEMMA ListedAlreadyKeeps ==
  ASSUME IInv, NEW t \in Tracks, ListedAlready(t)
  PROVE  IInv' /\ tcue' = tcue /\ UNCHANGED listings
<1>1. /\ tcQueue' = tcQueue /\ tcue' = tcue /\ tiQueue' = tiQueue
      /\ tiue' = tiue /\ chan' = chan /\ result' = result
      /\ pending' = pending /\ sent' = sent /\ responded' = responded
      /\ faults' = faults /\ UNCHANGED listings /\ Stop(t)
  BY DEF ListedAlready, database, environment
<1>2. TypeOK'
  <2>1. TypeOK /\ handler' \in [Tracks -> Handler]
    BY <1>1, StopType DEF IInv
  <2> QED BY <1>1, <2>1 DEF TypeOK
<1>3. OnePlace' /\ EndsForAReason' /\ SentRows' /\ CommandRows' /\ ResultRows'
  BY <1>1 DEF IInv, OnePlace, EndsForAReason, SentRows, CommandRows, ResultRows,
     OnChannels, Accounted, HasRow
<1>4. HandlerRows'
  <2> SUFFICES ASSUME NEW u \in Tracks PROVE AboutRows(handler[u])'
    BY DEF HandlerRows
  <2>1. AboutRows(Idle) /\ AboutRows(handler[u])
    BY NothingRead DEF Idle, Scan, ForTCEs, IInv, HandlerRows
  <2>2. handler'[u] = handler[u] \/ handler'[u] = Idle
    BY <1>1 DEF IInv, TypeOK, Stop, Start
  <2>3. CASE handler'[u] = handler[u]
    BY <1>1, <2>1, <2>3 DEF AboutRows, Accounted, HasRow, Batch
  <2>4. CASE handler'[u] = Idle
    BY <1>1, <2>1, <2>4 DEF AboutRows, Accounted, HasRow, Batch
  <2> QED BY <2>2, <2>3, <2>4
<1> QED BY <1>1, <1>2, <1>3, <1>4 DEF IInv

\* Only a take-over gives a TCE its row.
LEMMA NoNewTestCase ==
  ASSUME IInv, NEW c \in TCE, tcue[c].status = NoRow,
         Surroundings \/ \E t \in Tracks : OtherCommand(t)
  PROVE  tcue'[c] = tcue[c]
<1>0. TypeOK /\ tcue \in [TCE -> [status: Statuses \cup {NoRow}, finished: BOOLEAN]]
  BY DEF IInv, TypeOK
<1>1. ASSUME NEW i \in TIE, HasRow(i) PROVE Parent[i] # c
  BY <1>1 DEF IInv, OnePlace
<1>2. ASSUME NEW t \in Tracks, CommitSent(t) PROVE tcue'[c] = tcue[c]
  <2> DEFINE h == handler[t]
  <2>1. h \in Handler /\ \A i \in Batch(h) : HasRow(i)
    BY <1>0, <1>2, RowTypes DEF IInv, HandlerRows, AboutRows, CommitSent, WorksOn
  <2>2. \A i \in Batch(h) : i \in TIE /\ Parent[i] # c
    BY <1>1, <2>1 DEF Batch, Handler
  <2>3. h.acked \subseteq Batch(h) /\ h.nacked \subseteq Batch(h)
    BY DEF Batch
  <2>4. tcue' = TestCaseStatusOfSent(h)
    BY <1>2 DEF CommitSent
  <2>5. ~ \E i \in h.acked : IsHighest(i, Batch(h) \cap ChildrenOf({c}))
    BY <2>2, <2>3 DEF IsHighest, ChildrenOf
  <2>6. ~ \E i \in h.nacked : Parent[i] = c
    BY <2>2, <2>3
  <2> QED BY <2>4, <2>5, <2>6 DEF TestCaseStatusOfSent
<1>3. ASSUME NEW i \in TIE, Response(i) PROVE tcue'[c] = tcue[c]
  <2>1. Parent[i] # c
    BY <1>1, <1>3 DEF IInv, SentRows, Response
  <2>2. tcue' = [tcue EXCEPT ![Parent[i]].status = EXECUTING]
    BY <1>3 DEF Response
  <2> QED BY <1>0, <2>1, <2>2
<1>4. ASSUME NEW t \in Tracks, OtherCommand(t) PROVE CommitSent(t) \/ tcue' = tcue
  BY <1>4 DEF OtherCommand, LoadTestCases, TestCasesAlreadySaved, LoadQueue,
     NothingOnQueue, MoveToOngoing, AlreadyMoved, LoadWaiting, NothingWaiting,
     SentToWorker, RefusedByWorker, CannotBeSent, LoadStatuses, ReportProblem,
     TimedOut, LoadZombies, LoadScan, SendAllZombiesUnderExecution,
     SendZombieTestCasesOnQueue, SendForRow, SendAllZombiesOnQueue,
     SendZombiesTimedOut, EndScan, database
<1>5. ASSUME Surroundings PROVE tcue' = tcue \/ \E i \in TIE : Response(i)
  BY <1>5 DEF Surroundings, Inform, Reporter, OpenResult, CommitResult,
     TriggerNext, Worker, WorkerReports, TimePasses, Fault, FailedLoad,
     RolledBack, ResultRolledBack, CrashAndRestart, database
<1> QED BY <1>2, <1>3, <1>4, <1>5

\* A take-over lists the TCEs and the suites that it puts under execution.
LEMMA TakeOverLists ==
  ASSUME IInv, RowsToUpdate, NEW t \in Tracks, TakeOver(t)
  PROVE  RowsToUpdate'
<1> DEFINE rows == handler[t].tces
<1>0. INITIATED # NoRow /\ rows \subseteq TCE
  <2>1. handler[t] \in Handler
    BY RowTypes DEF IInv
  <2> QED BY <2>1, StatusNumbers DEF Handler
<1>1. \A c \in TCE : tcue'[c] = IF c \in rows
                                THEN [status |-> INITIATED, finished |-> FALSE]
                                ELSE tcue[c]
  BY DEF TakeOver, SaveTestCases, TestCasesOnOngoing
<1>2. /\ \A c \in TCE : tcListing'[c] = IF c \in rows THEN FirstListing
                                                      ELSE tcListing[c]
      /\ \A s \in Suites : tsListing'[s] = IF s \in SuitesOf(rows) THEN FirstListing
                                                                  ELSE tsListing[s]
  BY DEF TakeOver, ListNew
<1>3. FirstListing.status = INITIATED
  BY DEF FirstListing
<1>4. ASSUME NEW c \in TCE
      PROVE  tcListing'[c].status # NoRow <=> tcue'[c].status # NoRow
  BY <1>0, <1>1, <1>2, <1>3 DEF RowsToUpdate
<1>5. ASSUME NEW s \in Suites
      PROVE  tsListing'[s].status # NoRow
               <=> \E c \in CasesOf(s) : tcue'[c].status # NoRow
  <2>1. s \in SuitesOf(rows) <=> \E c \in CasesOf(s) : c \in rows
    BY <1>0 DEF SuitesOf, Suites, CasesOf
  <2>2. tsListing[s].status # NoRow <=> \E c \in CasesOf(s) : tcue[c].status # NoRow
    BY DEF RowsToUpdate, IsListed
  <2>3. \A c \in CasesOf(s) : c \in TCE
    BY DEF CasesOf
  <2>4. \A c \in CasesOf(s) :
          tcue'[c].status # NoRow <=> c \in rows \/ tcue[c].status # NoRow
    BY <1>0, <1>1, <2>3
  <2> QED BY <1>0, <1>2, <1>3, <2>1, <2>2, <2>4
<1> QED BY <1>4, <1>5 DEF RowsToUpdate, IsListed

\* What (C) has been told is about TCEs under execution, and they stay so.
LEMMA TestCasesStay ==
  ASSUME IInv, Next, NEW t \in Tracks, UpdateTestCases(t)
  PROVE  /\ tcue' = TestCasesUpdated(handler[t].messages)
         /\ \A c \in TCE : tcue'[c].status = NoRow <=> tcue[c].status = NoRow
         /\ \A m \in handler[t].messages : m.tce \in TCE /\ tcue[m.tce].status # NoRow
<1>1. tcue' = TestCasesUpdated(handler[t].messages)
  BY DEF UpdateTestCases
<1>2. Kept
  BY TablesStayRight DEF TablesRight
<1>3. handler[t].messages \in SUBSET Message
  BY RowTypes DEF IInv, Handler
<1>4. \A m \in handler[t].messages : m.tce \in TCE /\ tcue[m.tce].status # NoRow
  BY <1>3 DEF IInv, HandlerRows, AboutRows, Message
<1>5. \A c \in TCE : tcue[c].status = NoRow => tcue'[c] = tcue[c]
  BY <1>1, <1>4 DEF TestCasesUpdated
<1> QED BY <1>1, <1>2, <1>4, <1>5 DEF Kept

\* (C) updates rows of the listings and inserts none.
LEMMA UpdateLists ==
  ASSUME IInv, Next, RowsToUpdate, NEW t \in Tracks, UpdateAndList(t)
  PROVE  RowsToUpdate'
<1> DEFINE told == {m.tce : m \in handler[t].messages}
           after == TestCasesUpdated(handler[t].messages)
<1>1. /\ tcue' = after
      /\ \A c \in TCE : tcue'[c].status = NoRow <=> tcue[c].status = NoRow
      /\ told \subseteq TCE /\ \A c \in told : tcue[c].status # NoRow
  BY TestCasesStay DEF UpdateAndList
<1>2. /\ tcListing' = TestCaseListings(told, after)
      /\ tsListing' = [s \in Suites |-> SuiteListing(s, told, after)]
  BY DEF UpdateAndList, ListStatuses
<1> HIDE DEF told, after
<1>3. ASSUME NEW c \in TCE
      PROVE  tcListing'[c].status # NoRow <=> tcue'[c].status # NoRow
  <2>1. tcListing[c].status # NoRow <=> tcue[c].status # NoRow
    BY DEF RowsToUpdate
  <2>2. CASE c \in Ended(told, after)
    <3>1. tcListing'[c].status = tcue'[c].status
      BY <1>1, <1>2, <2>2 DEF TestCaseListings
    <3> QED BY <3>1
  <2>3. CASE c \notin Ended(told, after)
    <3>1. tcListing'[c] = tcListing[c]
      BY <1>2, <2>3 DEF TestCaseListings
    <3> QED BY <1>1, <2>1, <3>1
  <2> QED BY <2>2, <2>3
<1>4. ASSUME NEW s \in Suites
      PROVE  tsListing'[s].status # NoRow
               <=> \E c \in CasesOf(s) : tcue'[c].status # NoRow
  <2> DEFINE raising == {c \in told \cap CasesOf(s) : Raises(c, told, after)}
             last == {c \in raising : IsHighest(c, raising)}
  <2>1. tsListing[s].status # NoRow <=> \E c \in CasesOf(s) : tcue[c].status # NoRow
    BY DEF RowsToUpdate, IsListed
  <2>2. \A c \in CasesOf(s) : c \in TCE
    BY DEF CasesOf
  <2>3. tsListing'[s] = SuiteListing(s, told, after)
    BY <1>2
  <2>4. CASE last = {}
    <3>1. tsListing'[s] = tsListing[s]
      BY <2>3, <2>4 DEF SuiteListing
    <3> QED BY <1>1, <2>1, <2>2, <3>1
  <2>5. CASE last # {}
    <3> DEFINE final == CHOOSE c \in last : TRUE
    <3>1. final \in last
      BY <2>5
    <3>2. tsListing'[s].status = after[final].status
      BY <2>3, <2>5 DEF SuiteListing
    <3>3. final \in told /\ final \in CasesOf(s) /\ last \subseteq raising
      BY <3>1
    <3> HIDE DEF final
    <3>4. tcue'[final].status # NoRow
      BY <1>1, <2>2, <3>3
    <3> QED BY <1>1, <3>2, <3>3, <3>4
  <2> QED BY <2>4, <2>5
<1> QED BY <1>3, <1>4 DEF RowsToUpdate, IsListed

\* Every other step leaves the listings and the set of ongoing TCEs alone.
LEMMA OthersKeepRows ==
  ASSUME IInv, Next, RowsToUpdate, UNCHANGED listings,
         Surroundings \/ \E t \in Tracks : OtherCommand(t)
  PROVE  RowsToUpdate'
<1>1. Kept
  BY TablesStayRight DEF TablesRight
<1>2. \A c \in TCE : tcue'[c].status # NoRow <=> tcue[c].status # NoRow
  BY <1>1, NoNewTestCase DEF Kept
<1>3. tcListing' = tcListing /\ tsListing' = tsListing
  BY DEF listings
<1> QED BY <1>2, <1>3 DEF RowsToUpdate, IsListed, CasesOf

\* The listings keep their types.
LEMMA ListTypesStay ==
  ASSUME IInv, IInv', Next, ListTypeOK,
         \/ UNCHANGED listings
         \/ \E t \in Tracks : TakeOver(t) \/ UpdateAndList(t)
  PROVE  ListTypeOK'
<1>0. /\ tcue' \in [TCE -> [status: Statuses \cup {NoRow}, finished: BOOLEAN]]
      /\ \A i \in TIE : tiue[i].status \in Statuses \cup {NoRow}
      /\ INITIATED \in Statuses
  BY StatusNumbers, RowTypes DEF IInv, TypeOK
<1>1. CASE UNCHANGED listings
  BY <1>1 DEF listings, ListTypeOK
<1>2. ASSUME NEW t \in Tracks, TakeOver(t) PROVE ListTypeOK'
  BY <1>0, <1>2 DEF TakeOver, ListNew, FirstListing, ListTypeOK, ListingRow
<1>3. ASSUME NEW t \in Tracks, UpdateAndList(t) PROVE ListTypeOK'
  <2> DEFINE told == {m.tce : m \in handler[t].messages}
             after == TestCasesUpdated(handler[t].messages)
  <2>1. after \in [TCE -> [status: Statuses \cup {NoRow}, finished: BOOLEAN]]
    BY <1>0, <1>3, TestCasesStay DEF UpdateAndList
  <2>2. /\ tcListing' = TestCaseListings(told, after)
        /\ tcPreview' = PreviewsOf(Ended(told, after))
        /\ tsListing' = [s \in Suites |-> SuiteListing(s, told, after)]
        /\ tsPreview' = [i \in TIE |->
                           LET s == SuiteOf[Parent[i]]
                           IN IF s = 0 THEN tsPreview[i]
                              ELSE SuitePreview(s, told, after)[i]]
    BY <1>3 DEF UpdateAndList, ListStatuses
  <2> HIDE DEF told, after
  <2>3. tcListing' \in [TCE -> ListingRow]
    BY <2>1, <2>2 DEF TestCaseListings, ListTypeOK, ListingRow
  <2>4. \A cs : PreviewsOf(cs) \in [TIE -> Statuses \cup {NoRow}]
    BY <1>0 DEF PreviewsOf, ListTypeOK
  <2>5. tsListing' \in [Suites -> ListingRow]
    <3> SUFFICES ASSUME NEW s \in Suites
                 PROVE  SuiteListing(s, told, after) \in ListingRow
      BY <2>2
    <3>1. ASSUME NEW c \in TCE
          PROVE  [status |-> after[c].status,
                  finished |-> HasEndStatus(after[c].status)] \in ListingRow
      BY <2>1 DEF ListingRow, HasEndStatus
    <3>2. tsListing[s] \in ListingRow
      BY DEF ListTypeOK
    <3> DEFINE last == {c \in {d \in told \cap CasesOf(s) : Raises(d, told, after)} :
                          IsHighest(c, {d \in told \cap CasesOf(s) :
                                          Raises(d, told, after)})}
    <3>3. CASE last = {}
      BY <3>2, <3>3 DEF SuiteListing
    <3>4. CASE last # {}
      <4>1. (CHOOSE c \in last : TRUE) \in TCE
        BY <3>4 DEF CasesOf
      <4> QED BY <3>1, <3>4, <4>1 DEF SuiteListing
    <3> QED BY <3>3, <3>4
  <2>6. tsPreview' \in [TIE -> Statuses \cup {NoRow}]
    BY <2>2, <2>4 DEF SuitePreview, ListTypeOK
  <2> QED BY <2>2, <2>3, <2>4, <2>5, <2>6 DEF ListTypeOK
<1> QED BY <1>1, <1>2, <1>3

-----------------------------------------------------------------------------

\* The inductive invariant of the engine and of its listings.
THEOREM ListInvariantHolds == ListSpec => []ListIInv
<1>1. ListInit => ListIInv
  <2>1. ListInit => RowsToUpdate
    BY DEF ListInit, Init, RowsToUpdate, IsListed, CasesOf
  <2>2. ListInit => ListTypeOK
    BY DEF ListInit, ListTypeOK, ListingRow
  <2> QED BY <2>1, <2>2, InvariantAtFirst DEF ListInit, ListIInv
<1>2. ListIInv /\ [ListNext]_allVars => ListIInv'
  <2>1. ASSUME ListIInv, Next, ListNext PROVE ListIInv'
    <3>0. IInv /\ ListTypeOK /\ RowsToUpdate
      BY <2>1 DEF ListIInv
    <3>1. IInv'
      BY <2>1, <3>0, InvariantStays
    <3>2. \/ \E t \in Tracks : TakeOver(t) \/ UpdateAndList(t)
          \/ \E t \in Tracks : ListedAlready(t)
          \/ UNCHANGED listings /\ (Surroundings \/ \E t \in Tracks : OtherCommand(t))
      BY <2>1 DEF ListNext, ListReader
    <3>3. ASSUME NEW t \in Tracks, ListedAlready(t)
          PROVE  UNCHANGED listings /\ RowsToUpdate'
      BY <3>0, <3>3, ListedAlreadyKeeps DEF listings, RowsToUpdate, IsListed, CasesOf
    <3>4. ListTypeOK'
      BY <2>1, <3>0, <3>1, <3>2, <3>3, ListTypesStay
    <3>5. RowsToUpdate'
      BY <2>1, <3>0, <3>2, <3>3, TakeOverLists, UpdateLists, OthersKeepRows
    <3> QED BY <3>1, <3>4, <3>5 DEF ListIInv
  <2>2. ASSUME ListIInv, NEW t \in Tracks, ListedAlready(t) PROVE ListIInv'
    <3>1. IInv' /\ tcue' = tcue /\ UNCHANGED listings
      BY <2>2, ListedAlreadyKeeps DEF ListIInv
    <3> QED BY <2>2, <3>1
            DEF ListIInv, listings, ListTypeOK, RowsToUpdate, IsListed, CasesOf
  <2>3. ASSUME ListIInv, UNCHANGED allVars PROVE ListIInv'
    <3>1. UNCHANGED vars /\ UNCHANGED listings
      BY <2>3 DEF allVars
    <3>2. IInv'
      BY <2>3, <3>1, InvariantStutters DEF ListIInv
    <3> QED BY <2>3, <3>1, <3>2
            DEF ListIInv, vars, database, listings, ListTypeOK, RowsToUpdate,
                IsListed, CasesOf
  <2> QED BY <2>1, <2>2, <2>3, EngineSteps
<1> QED BY <1>1, <1>2, PTL DEF ListSpec

\* Every TCE under execution, and its suite, has the one row in the listings that
\* (C) is to update, and no other TCE or suite has one: (C) is never rolled back
\* for want of a row, whichever tracks work on the TCEs of a suite and wherever
\* the process stops.
THEOREM RowsToUpdateAlways == ListSpec => []RowsToUpdate
<1>1. ListIInv => RowsToUpdate
  BY DEF ListIInv
<1> QED BY <1>1, ListInvariantHolds, PTL

-----------------------------------------------------------------------------
(* One step *)

\* A step from a state in which the invariants hold.
Going == ListIInv /\ UpdatesInv /\ AuditNext

\* The types of what the step is about, and what it leaves as it is.
LEMMA GoingMeans ==
  ASSUME Going
  PROVE  /\ IInv /\ TypeOK /\ ListTypeOK /\ IInv'
         /\ UpdatesInv /\ ListNext /\ (Next \/ \E t \in Tracks : ListedAlready(t))
         /\ chan \in [Tracks -> Seq(Command)] /\ handler \in [Tracks -> Handler]
         /\ \A t \in Tracks : /\ handler[t] \in Handler
                              /\ handler[t].cmd.tces \in SUBSET TCE
                              /\ handler[t].cmd.last \in SUBSET TCE
                              /\ handler[t].messages \in SUBSET Message
                              /\ Batch(handler[t]) \in SUBSET TIE
         /\ \A i \in TIE : Parent[i] \in TCE /\ TrackOf[i] \in Tracks
         /\ \A c \in TCE : TrackOf[c] \in Tracks /\ RowsOf(c) \subseteq RowsOf(c)'
<1>1. IInv /\ TypeOK /\ ListTypeOK /\ UpdatesInv /\ ListNext
  BY DEF Going, ListIInv, IInv, AuditNext
<1>2. Next \/ \E t \in Tracks : ListedAlready(t)
  BY <1>1, EngineSteps
<1>3. IInv' /\ \A i \in TIE : HasRow(i) => HasRow(i)'
  <2>1. ASSUME Next PROVE IInv' /\ \A i \in TIE : HasRow(i) => HasRow(i)'
    BY <1>1, <2>1, InvariantStays, TablesStayRight DEF TablesRight, Kept
  <2>2. ASSUME NEW t \in Tracks, ListedAlready(t)
        PROVE  IInv' /\ \A i \in TIE : HasRow(i) => HasRow(i)'
    BY <1>1, <2>2, ListedAlreadyKeeps DEF ListedAlready, database, HasRow
  <2> QED BY <1>2, <2>1, <2>2
<1>4. chan \in [Tracks -> Seq(Command)] /\ handler \in [Tracks -> Handler]
  BY <1>1 DEF TypeOK
<1>5. ASSUME NEW t \in Tracks
      PROVE  /\ handler[t] \in Handler
             /\ handler[t].cmd.tces \in SUBSET TCE
             /\ handler[t].cmd.last \in SUBSET TCE
             /\ handler[t].messages \in SUBSET Message
             /\ Batch(handler[t]) \in SUBSET TIE
  BY <1>4 DEF Handler, Batch
<1>6. /\ \A i \in TIE : Parent[i] \in TCE /\ TrackOf[i] \in Tracks
      /\ \A c \in TCE : TrackOf[c] \in Tracks
  BY ModelAssumption
<1>7. ASSUME NEW c \in TCE PROVE RowsOf(c) \subseteq RowsOf(c)'
  BY <1>3 DEF RowsOf
<1> QED BY <1>1, <1>2, <1>3, <1>4, <1>5, <1>6, <1>7

\* A reader that is free works on nothing.
LEMMA IdleIs ==
  /\ Idle.cmd.kind = "Idle" /\ Idle.cmd.tces = {}
  /\ Idle.ties = {} /\ Idle.messages = {}
BY DEF Idle, Scan, ForTCEs

-----------------------------------------------------------------------------
(* Channels *)

\* What is on a channel after something has been put on it.
LEMMA AppendElements ==
  ASSUME NEW q \in Seq(Command), NEW new \in Command
  PROVE  /\ \A k \in DOMAIN q : k \in DOMAIN Append(q, new) /\ Append(q, new)[k] = q[k]
         /\ Len(q) + 1 \in DOMAIN Append(q, new) /\ Append(q, new)[Len(q) + 1] = new
OBVIOUS

\* What is left on it after the first has been taken.
LEMMA TailElements ==
  ASSUME NEW q \in Seq(Command), q # <<>>
  PROVE  /\ \A k \in DOMAIN q : \/ k = 1
                                \/ k - 1 \in DOMAIN Tail(q) /\ Tail(q)[k - 1] = q[k]
         /\ Head(q) = q[1]
OBVIOUS

\* What is on a channel stays there when a command is put on it, and that is there.
LEMMA PutKeeps ==
  ASSUME NEW channels \in [Tracks -> Seq(Command)], NEW t \in Tracks,
         NEW new \in Command
  PROVE  OnChannels(channels) \cup {new} \subseteq OnChannels(Put(channels, t, new))
<1> DEFINE after == Put(channels, t, new)
<1>1. after[t] = Append(channels[t], new) /\ channels[t] \in Seq(Command)
  BY DEF Put
<1>2. \A u \in Tracks : u # t => after[u] = channels[u]
  BY DEF Put
<1> HIDE DEF after
<1>3. ASSUME NEW u \in Tracks, NEW k \in DOMAIN channels[u]
      PROVE  k \in DOMAIN after[u] /\ after[u][k] = channels[u][k]
  <2>1. CASE u = t
    BY <1>1, <1>3, <2>1, AppendElements
  <2>2. CASE u # t
    BY <1>2, <1>3, <2>2
  <2> QED BY <2>1, <2>2
<1>4. new \in OnChannels(after)
  <2>1. /\ Len(channels[t]) + 1 \in DOMAIN after[t]
        /\ after[t][Len(channels[t]) + 1] = new
    BY <1>1, AppendElements
  <2> QED BY <2>1 DEF OnChannels
<1>5. OnChannels(channels) \subseteq OnChannels(after)
  <2> SUFFICES ASSUME NEW u \in Tracks, NEW k \in DOMAIN channels[u]
               PROVE  channels[u][k] \in OnChannels(after)
    BY DEF OnChannels
  <2> QED BY <1>3 DEF OnChannels
<1> QED BY <1>4, <1>5 DEF after

\* So it is when the command is sent to the track of the lowest TCE.
LEMMA SendKeeps ==
  ASSUME NEW channels \in [Tracks -> Seq(Command)], NEW cs \in SUBSET TCE,
         NEW new \in Command, SendByLowest(channels, cs, new)
  PROVE  OnChannels(channels) \cup {new} \subseteq OnChannels(chan')
<1>1. PICK c \in cs : chan' = Put(channels, TrackOf[c], new)
  BY DEF SendByLowest
<1>2. TrackOf[c] \in Tracks
  BY ModelAssumption
<1> QED BY <1>1, <1>2, PutKeeps

\* Only the first command of a channel is taken from it.
LEMMA PoppedKeeps ==
  ASSUME TypeOK, NEW t \in Tracks, chan[t] # <<>>
  PROVE  OnChannels(chan) \ {Head(chan[t])} \subseteq OnChannels(Popped(t))
<1>0. chan \in [Tracks -> Seq(Command)] /\ chan[t] \in Seq(Command)
  BY DEF TypeOK
<1>1. ASSUME NEW u \in Tracks, NEW k \in DOMAIN chan[u], chan[u][k] # Head(chan[t])
      PROVE  chan[u][k] \in OnChannels(Popped(t))
  <2>1. CASE u # t
    <3>1. Popped(t)[u] = chan[u]
      BY <1>0, <2>1 DEF Popped
    <3> QED BY <3>1 DEF OnChannels
  <2>2. CASE u = t
    <3>1. Popped(t)[t] = Tail(chan[t])
      BY <1>0 DEF Popped
    <3>2. k - 1 \in DOMAIN Popped(t)[t] /\ Popped(t)[t][k - 1] = chan[t][k]
      BY <1>0, <1>1, <2>2, <3>1, TailElements
    <3> QED BY <2>2, <3>2 DEF OnChannels
  <2> QED BY <2>1, <2>2
<1> QED BY <1>1 DEF OnChannels

\* The steps that take the first command of a track from its channel.
Takes(t) ==
  \/ LoadTestCases(t) \/ LoadQueue(t) \/ NothingOnQueue(t)
  \/ LoadWaiting(t) \/ NothingWaiting(t) \/ LoadStatuses(t)
  \/ ReportProblem(t) \/ TimedOut(t) \/ LoadZombies(t) \/ FailedLoad(t)

\* The channel is not empty then.
LEMMA TakenIsThere ==
  ASSUME Going, NEW t \in Tracks, Takes(t)
  PROVE  /\ chan[t] # <<>> /\ Head(chan[t]) \in Command
         /\ Popped(t) \in [Tracks -> Seq(Command)]
         /\ OnChannels(chan) \ {Head(chan[t])} \subseteq OnChannels(Popped(t))
<1>1. chan[t] # <<>>
  BY DEF Takes, LoadTestCases, LoadQueue, NothingOnQueue, LoadWaiting, NothingWaiting,
     LoadStatuses, ReportProblem, TimedOut, LoadZombies, LoadScan, FailedLoad, Ready
<1> QED BY <1>1, GoingMeans, PoppedType, PoppedKeeps

\* A command stays on its channel until its reader takes it or the process stops.
LEMMA CommandStays ==
  ASSUME Going, ~ CrashAndRestart, NEW cmd \in OnChannels(chan),
         cmd \notin OnChannels(chan')
  PROVE  \E t \in Tracks : Takes(t) /\ cmd = Head(chan[t])
<1>0. /\ chan \in [Tracks -> Seq(Command)] /\ TypeOK
      /\ \A t \in Tracks : /\ handler[t] \in Handler /\ handler[t].track \in Tracks
                           /\ handler[t].cmd.tces \in SUBSET TCE
                           /\ handler[t].cmd.last \in SUBSET TCE
                           /\ handler[t].tces \in SUBSET TCE
                           /\ handler[t].ties \in SUBSET TIE
                           /\ Batch(handler[t]) \in SUBSET TIE
      /\ \A i \in TIE : Parent[i] \in TCE /\ TrackOf[i] \in Tracks
      /\ \A c \in TCE : TrackOf[c] \in Tracks
  BY GoingMeans DEF Handler
<1>1. ASSUME chan' = chan PROVE FALSE
  BY <1>1
<1>2. ASSUME NEW t \in Tracks, NEW new \in Command, chan' = Put(chan, t, new) PROVE FALSE
  BY <1>0, <1>2, PutKeeps
<1>3. ASSUME NEW cs \in SUBSET TCE, NEW new \in Command, SendByLowest(chan, cs, new)
      PROVE  FALSE
  BY <1>0, <1>3, SendKeeps
<1>4. ASSUME NEW t \in Tracks, NEW kind, chan' = NextScan(chan, t, kind) PROVE FALSE
  <2>1. \A k \in Kinds : Scan(k) \in Command
    BY CommandsAreCommands
  <2> QED BY <1>1, <1>2, <1>4, <2>1 DEF NextScan, Kinds
<1>5. ASSUME NEW t \in Tracks,
             SaveTestCases(t) \/ MoveToOngoing(t) \/ CommitSent(t)
      PROVE  FALSE
  <2>1. ParentsOf(Batch(handler[t])) \in SUBSET TCE
    BY <1>0 DEF ParentsOf
  <2>2. \A kind \in Kinds, cs, last \in SUBSET TCE : ForTCEs(kind, cs, last) \in Command
    BY CommandsAreCommands
  <2>3. CASE SaveTestCases(t)
    BY <1>0, <1>3, <2>2, <2>3 DEF SaveTestCases, CheckQueueFor, Kinds
  <2>4. CASE MoveToOngoing(t)
    BY <1>0, <1>3, <2>2, <2>4 DEF MoveToOngoing, SendWaitingFor, Kinds
  <2>5. CASE CommitSent(t)
    BY <1>0, <1>3, <2>1, <2>2, <2>5 DEF CommitSent, UpdateStatusFor, Kinds
  <2> QED BY <1>5, <2>3, <2>4, <2>5
<1>6. ASSUME NEW t \in Tracks, NEW i \in TIE, CannotBeSent(t, i) PROVE FALSE
  <2>1. PICK first \in Batch(handler[t]) :
          SendByLowest(chan, handler[t].cmd.tces, ForTIE("ProblemWhenSending", first))
    BY <1>6 DEF CannotBeSent
  <2>2. ForTIE("ProblemWhenSending", first) \in Command
    BY <1>0, CommandsAreCommands DEF Kinds
  <2> QED BY <1>0, <1>3, <2>1, <2>2
<1>7. ASSUME NEW t \in Tracks, NEW kind, NEW cmdKind \in Kinds, SendForRow(t, kind, cmdKind)
      PROVE  FALSE
  <2>1. PICK i \in TIE : chan' = Put(chan, handler[t].track, ForTCE(cmdKind, Parent[i]))
    BY <1>0, <1>7 DEF SendForRow
  <2>2. ForTCE(cmdKind, Parent[i]) \in Command
    BY <1>0, CommandsAreCommands
  <2> QED BY <1>0, <1>2, <2>1, <2>2
<1>8. ASSUME NEW t \in Tracks, SendZombieTestCasesOnQueue(t) \/ SendZombiesTimedOut(t)
      PROVE  FALSE
  <2>1. \A c \in TCE : ForTCE("ProcessTestCases", c) \in Command
    BY CommandsAreCommands DEF Kinds
  <2>2. \A i \in TIE : ForTIE("TimedOut", i) \in Command
    BY CommandsAreCommands DEF Kinds
  <2>3. CASE SendZombieTestCasesOnQueue(t)
    BY <1>0, <1>2, <2>1, <2>3 DEF SendZombieTestCasesOnQueue
  <2>4. CASE SendZombiesTimedOut(t)
    BY <1>0, <1>2, <2>2, <2>4 DEF SendZombiesTimedOut
  <2> QED BY <1>8, <2>3, <2>4
<1>9. ASSUME NEW t \in Tracks, EndScan(t) PROVE FALSE
  BY <1>4, <1>9 DEF EndScan
<1>10. ASSUME NEW t \in Tracks,
              \/ TestCasesAlreadySaved(t) \/ AlreadyMoved(t) \/ UpdateTestCases(t)
              \/ RolledBack(t) \/ ListedAlready(t)
              \/ \E i \in TIE : SentToWorker(t, i) \/ RefusedByWorker(t, i)
       PROVE  FALSE
  BY <1>1, <1>10 DEF TestCasesAlreadySaved, AlreadyMoved, UpdateTestCases, RolledBack,
     ListedAlready, SentToWorker, RefusedByWorker
<1>11. ASSUME NEW cs \in Informs, Inform(cs) PROVE FALSE
  <2> DEFINE listed == {cs[k] : k \in DOMAIN cs}
  <2>1. cs \in Seq(TCE) /\ cs # <<>>
    BY ModelAssumption
  <2>2. listed \in SUBSET TCE /\ {cs[Len(cs)]} \in SUBSET TCE
    BY <2>1
  <2>3. SendByLowest(chan, listed, ForTCEs("ProcessTestCases", listed, {cs[Len(cs)]}))
    BY <1>11 DEF Inform
  <2> HIDE DEF listed
  <2>4. ForTCEs("ProcessTestCases", listed, {cs[Len(cs)]}) \in Command
    BY <2>2, CommandsAreCommands DEF Kinds
  <2> QED BY <1>3, <2>2, <2>3, <2>4
<1>12. ASSUME NEW r \in Results, Reporter(r) PROVE FALSE
  <2>1. r[1] \in TIE
    BY DEF Results
  <2>2. /\ WithReply(ForTCE("UpdateTestCaseStatus", Parent[r[1]]), r) \in Command
        /\ ForTCE("CheckWaitingToBeSent", Parent[r[1]]) \in Command
    BY <1>0, <2>1, CommandsAreCommands DEF Kinds
  <2>3. CASE OpenResult(r)
    BY <1>1, <2>3 DEF OpenResult
  <2>4. CASE CommitResult(r)
    BY <1>0, <1>2, <2>1, <2>2, <2>4 DEF CommitResult
  <2>5. CASE TriggerNext(r)
    BY <1>0, <1>1, <1>2, <2>1, <2>2, <2>5 DEF TriggerNext
  <2> QED BY <1>12, <2>3, <2>4, <2>5 DEF Reporter
<1>13. ASSUME NEW i \in TIE, Response(i) PROVE FALSE
  <2>1. ForTCE("UpdateTestCaseStatus", Parent[i]) \in Command
    BY <1>0, CommandsAreCommands DEF Kinds
  <2> QED BY <1>0, <1>2, <1>13, <2>1 DEF Response
<1>14. ASSUME \/ \E i \in TIE, k \in 1 .. MaxReports : WorkerReports(i, k)
              \/ \E i \in TIE : TimePasses(i)
              \/ \E r \in Results : ResultRolledBack(r)
       PROVE  FALSE
  BY <1>1, <1>14 DEF WorkerReports, TimePasses, ResultRolledBack
<1>15. PICK t \in Tracks : Takes(t)
  <2>1. \A t \in Tracks : ~ SendAllZombiesUnderExecution(t) /\ ~ SendAllZombiesOnQueue(t)
    BY <1>7 DEF SendAllZombiesUnderExecution, SendAllZombiesOnQueue, Kinds
  <2>2. ASSUME NEW t \in Tracks, Reader(t) PROVE Takes(t)
    BY <1>5, <1>6, <1>8, <1>9, <1>10, <2>1, <2>2 DEF Reader, OtherCommand, Takes
  <2>3. ASSUME Surroundings PROVE \E t \in Tracks : FailedLoad(t)
    BY <1>10, <1>11, <1>12, <1>13, <1>14, <2>3 DEF Surroundings, Worker, Fault
  <2> QED BY <1>10, <2>2, <2>3, GoingMeans DEF Next, Takes
<1>16. ASSUME cmd # Head(chan[t]) PROVE FALSE
  <2>0. /\ chan[t] # <<>> /\ Head(chan[t]) \in Command
        /\ Popped(t) \in [Tracks -> Seq(Command)]
        /\ cmd \in OnChannels(Popped(t))
    BY <1>15, <1>16, TakenIsThere
  <2>1. ASSUME chan' = Popped(t) PROVE FALSE
    BY <2>0, <2>1
  <2>2. ASSUME NEW u \in Tracks, NEW new \in Command, chan' = Put(Popped(t), u, new)
        PROVE  FALSE
    BY <2>0, <2>2, PutKeeps
  <2>3. ASSUME NEW cs \in SUBSET TCE, NEW new \in Command, SendByLowest(Popped(t), cs, new)
        PROVE  FALSE
    BY <2>0, <2>3, SendKeeps
  <2>4. CASE NothingOnQueue(t) \/ NothingWaiting(t)
    <3>1. /\ CheckQueueFor(Head(chan[t])) \in Command
          /\ UpdateStatusFor(Head(chan[t]), Head(chan[t]).tces) \in Command
          /\ Head(chan[t]).tces \in SUBSET TCE
      BY <2>0, CommandsAreCommands DEF CheckQueueFor, UpdateStatusFor, Command, Kinds
    <3> QED BY <2>3, <2>4, <3>1 DEF NothingOnQueue, NothingWaiting
  <2>5. CASE TimedOut(t)
    <3>1. PICK i \in Head(chan[t]).ties :
            chan' = Put(Popped(t), TrackOf[Parent[i]],
                        ForTCE("UpdateTestCaseStatus", Parent[i]))
      BY <2>5 DEF TimedOut
    <3>2. i \in TIE
      BY <2>0 DEF Command
    <3>3. ForTCE("UpdateTestCaseStatus", Parent[i]) \in Command
      BY <1>0, <3>2, CommandsAreCommands DEF Kinds
    <3> QED BY <1>0, <2>2, <3>1, <3>2, <3>3
  <2>6. CASE FailedLoad(t)
    <3>1. chan' = Popped(t) \/ \E k \in Kinds : chan' = Put(Popped(t), t, Scan(k))
      BY <2>6 DEF FailedLoad, NextScan, Kinds
    <3>2. \A k \in Kinds : Scan(k) \in Command
      BY CommandsAreCommands
    <3> QED BY <2>1, <2>2, <3>1, <3>2
  <2>7. CASE \/ LoadTestCases(t) \/ LoadQueue(t) \/ LoadWaiting(t) \/ LoadStatuses(t)
             \/ ReportProblem(t) \/ LoadZombies(t)
    BY <2>1, <2>7 DEF LoadTestCases, LoadQueue, LoadWaiting, LoadStatuses, ReportProblem,
       LoadZombies, LoadScan
  <2> QED BY <1>15, <2>4, <2>5, <2>6, <2>7 DEF Takes
<1> QED BY <1>15, <1>16

-----------------------------------------------------------------------------
(* What the status of a TCE depends on *)

\* A (C) on a channel is one that is to come.
LEMMA Brings ==
  ASSUME NEW c, NEW cmd \in OnChannels(chan'), cmd.kind = "UpdateTestCaseStatus",
         c \in cmd.tces
  PROVE  IsToCome(c)'
BY DEF IsToCome, OwedBy, OnChannels

\* A (B) that finds a TIE waiting brings one.
LEMMA BringsOne ==
  ASSUME NEW c, NEW cmd \in OnChannels(chan'), cmd.kind = "CheckWaitingToBeSent",
         c \in cmd.tces, NEW i \in TIE, Parent[i] = c, tiue'[i].status = INITIATED
  PROVE  IsToCome(c)'
<1>1. c \in ParentsOf(WaitingToBeSent(cmd))'
  BY DEF ParentsOf, WaitingToBeSent
<1> QED BY <1>1 DEF IsToCome, OwedBy, OnChannels

\* So does a (C) that has just been put there for a single TCE.
LEMMA PutBrings ==
  ASSUME Going, NEW c \in TCE, NEW channels \in [Tracks -> Seq(Command)],
         NEW t \in Tracks,
         \/ chan' = Put(channels, t, ForTCE("UpdateTestCaseStatus", c))
         \/ \E r \in Results :
              chan' = Put(channels, t, WithReply(ForTCE("UpdateTestCaseStatus", c), r))
  PROVE  IsToCome(c)'
<1>1. /\ ForTCE("UpdateTestCaseStatus", c) \in Command
      /\ ForTCE("UpdateTestCaseStatus", c).kind = "UpdateTestCaseStatus"
      /\ ForTCE("UpdateTestCaseStatus", c).tces = {c}
  BY CommandsAreCommands DEF Kinds, ForTCE, ForTCEs
<1>2. ASSUME NEW r \in Results
      PROVE  LET cmd == WithReply(ForTCE("UpdateTestCaseStatus", c), r)
             IN cmd \in Command /\ cmd.kind = "UpdateTestCaseStatus" /\ cmd.tces = {c}
  BY CommandsAreCommands DEF Kinds, WithReply, ForTCE, ForTCEs
<1>3. ASSUME NEW cmd \in Command, chan' = Put(channels, t, cmd),
             cmd.kind = "UpdateTestCaseStatus", cmd.tces = {c}
      PROVE  IsToCome(c)'
  BY <1>3, PutKeeps, Brings
<1> QED BY <1>1, <1>2, <1>3

\* When (B) ends, (C) is to come for the TCEs of its batch.
LEMMA CommitBrings ==
  ASSUME Going, NEW t \in Tracks, CommitSent(t), NEW c \in ParentsOf(Batch(handler[t]))
  PROVE  IsToCome(c)'
<1> DEFINE h == handler[t]
           cmd == UpdateStatusFor(h.cmd, ParentsOf(Batch(h)))
<1>1. SendByLowest(chan, h.cmd.tces, cmd)
  BY DEF CommitSent
<1>2. ParentsOf(Batch(h)) \in SUBSET TCE
  BY GoingMeans DEF ParentsOf
<1>3. cmd \in Command /\ cmd.kind = "UpdateTestCaseStatus" /\ c \in cmd.tces
  <2>1. h.cmd.last \in SUBSET TCE
    BY GoingMeans
  <2>2. cmd \in Command
    BY <1>2, <2>1, CommandsAreCommands DEF UpdateStatusFor, Kinds
  <2> QED BY <2>2 DEF UpdateStatusFor, ForTCEs
<1> HIDE DEF cmd
<1>4. cmd \in OnChannels(chan')
  BY <1>1, <1>3, SendKeeps, GoingMeans
<1> QED BY <1>3, <1>4, Brings

\* Nothing that the status of c depends on changes.
SameStatus(c) ==
  /\ tcue'[c] = tcue[c] /\ RowsOf(c)' = RowsOf(c)
  /\ \A i \in RowsOf(c) : tiue'[i].status = tiue[i].status
  /\ (\E i \in tiQueue' : Parent[i] = c) <=> (\E i \in tiQueue : Parent[i] = c)

\* It is enough that its TIEs keep their statuses and places.
LEMMA SameTies ==
  ASSUME Going, NEW c \in TCE, tcue'[c] = tcue[c],
         \A i \in TIE : Parent[i] = c =>
           tiue'[i].status = tiue[i].status /\ (i \in tiQueue' <=> i \in tiQueue)
  PROVE  SameStatus(c)
<1>1. tiQueue \subseteq TIE /\ tiQueue' \subseteq TIE
  BY GoingMeans DEF IInv, TypeOK
<1>2. RowsOf(c)' = RowsOf(c) /\ \A i \in RowsOf(c) : tiue'[i].status = tiue[i].status
  BY DEF RowsOf, HasRow
<1> QED BY <1>1, <1>2 DEF SameStatus

\* The take-over writes TCEs that have no rows yet.
LEMMA SaveKeepsStatus ==
  ASSUME Going, NEW t \in Tracks, SaveTestCases(t), NEW c \in TCE
  PROVE  \/ c \notin handler[t].tces /\ SameStatus(c)
         \/ c \in handler[t].tces /\ RowsOf(c)' = {} /\ tcue'[c].status = INITIATED
<1> DEFINE rows == handler[t].tces
<1>0. /\ tcue' = TestCasesOnOngoing(rows) /\ tiQueue' = TestInstructionsToQueue(rows)
      /\ tiue' = tiue /\ \A d \in rows : tcue[d].status = NoRow
  BY DEF SaveTestCases
<1>1. CASE c \in rows
  <2>1. \A i \in TIE : Parent[i] = c => ~ HasRow(i)
    BY <1>0, <1>1, GoingMeans DEF IInv, OnePlace
  <2>2. RowsOf(c)' = {}
    BY <1>0, <2>1 DEF RowsOf, HasRow
  <2>3. tcue'[c].status = INITIATED
    BY <1>0, <1>1 DEF TestCasesOnOngoing
  <2> QED BY <1>1, <2>2, <2>3
<1>2. CASE c \notin rows
  <2>1. tcue'[c] = tcue[c]
    BY <1>0, <1>2 DEF TestCasesOnOngoing
  <2>2. \A i \in TIE : Parent[i] = c => (i \in tiQueue' <=> i \in tiQueue)
    BY <1>0, <1>2 DEF TestInstructionsToQueue, ChildrenOf
  <2> QED BY <1>0, <1>2, <2>1, <2>2, SameTies
<1> QED BY <1>1, <1>2

\* What (A) moves is to be sent, and a (C) will follow.
LEMMA MovedIsToCome ==
  ASSUME Going, NEW t \in Tracks, MoveToOngoing(t), NEW c \in TCE
  PROVE  SameStatus(c) \/ IsToCome(c)'
<1> DEFINE h == handler[t]
           cmd == SendWaitingFor(h.cmd)
<1>0. /\ tcue' = tcue /\ h.cmd.kind = "CheckQueue"
      /\ tiue' = TestInstructionsUnderExecution(h.ties)
      /\ tiQueue' = tiQueue \ h.ties
      /\ SendByLowest(chan, h.cmd.tces, cmd)
  BY DEF MoveToOngoing, WorksOn, QueueCleared
<1>1. CASE c \in ParentsOf(h.ties)
  <2>1. PICK i \in h.ties : Parent[i] = c
    BY <1>1 DEF ParentsOf
  <2>2. i \in TIE
    BY <2>1, GoingMeans DEF Handler
  <2>3. tiue'[i].status = INITIATED
    BY <1>0, <2>1, <2>2 DEF TestInstructionsUnderExecution
  <2>4. c \in h.cmd.tces
    BY <1>0, <1>1, GoingMeans DEF UpdatesInv, HandlersRead
  <2>5. cmd \in Command /\ cmd.kind = "CheckWaitingToBeSent" /\ cmd.tces = h.cmd.tces
    <3>1. h.cmd.tces \in SUBSET TCE /\ h.cmd.last \in SUBSET TCE
      BY GoingMeans
    <3>2. cmd \in Command
      BY <3>1, CommandsAreCommands DEF SendWaitingFor, Kinds
    <3> QED BY <3>2 DEF SendWaitingFor, ForTCEs
  <2> HIDE DEF cmd, h
  <2>6. cmd \in OnChannels(chan')
    BY <1>0, <2>5, SendKeeps, GoingMeans DEF h
  <2> QED BY <2>1, <2>2, <2>3, <2>4, <2>5, <2>6, BringsOne
<1>2. CASE c \notin ParentsOf(h.ties)
  <2>1. \A i \in TIE : Parent[i] = c => i \notin h.ties
    BY <1>2 DEF ParentsOf
  <2>2. \A i \in TIE : Parent[i] = c =>
          tiue'[i].status = tiue[i].status /\ (i \in tiQueue' <=> i \in tiQueue)
    BY <1>0, <2>1 DEF TestInstructionsUnderExecution
  <2> QED BY <1>0, <2>2, SameTies
<1> QED BY <1>1, <1>2

\* (B) leaves the TCEs alone that are not of its batch.
LEMMA CommitKeepsStatus ==
  ASSUME Going, NEW t \in Tracks, CommitSent(t), NEW c \in TCE
  PROVE  SameStatus(c) \/ IsToCome(c)'
<1> DEFINE h == handler[t]
<1>0. h \in Handler /\ tiQueue' = tiQueue /\ tcue' = TestCaseStatusOfSent(h)
  BY GoingMeans DEF CommitSent
<1>1. CASE c \in ParentsOf(Batch(h))
  BY <1>1, CommitBrings
<1>2. CASE c \notin ParentsOf(Batch(h))
  <2>1. \A i \in Batch(h) : Parent[i] # c
    BY <1>2 DEF ParentsOf
  <2>2. \A i \in h.acked \cup h.nacked : Parent[i] # c
    BY <2>1 DEF Batch
  <2>3. Batch(h) \cap ChildrenOf({c}) = {}
    BY <2>1 DEF ChildrenOf
  <2>4. tcue'[c] = tcue[c]
    BY <1>0, <2>2, <2>3 DEF TestCaseStatusOfSent, IsHighest
  <2>5. PICK last \in Batch(h) : tiue' = StatusOfLastSent(h, last)
    BY DEF CommitSent
  <2>6. \A i \in TIE : Parent[i] = c => tiue'[i] = tiue[i]
    BY <2>1, <2>5, GoingMeans DEF StatusOfLastSent, TypeOK
  <2> QED BY <1>0, <2>4, <2>6, SameTies
<1> QED BY <1>1, <1>2

\* A report, a response and a time-out have a (C) come.
LEMMA ReportsKeepStatus ==
  ASSUME Going, NEW c \in TCE,
         \/ \E r \in Results : CommitResult(r)
         \/ \E i \in TIE : Response(i) \/ TimePasses(i)
         \/ \E t \in Tracks : TimedOut(t)
  PROVE  SameStatus(c) \/ IsToCome(c)'
<1>0. /\ tiue \in [TIE -> [status: Statuses \cup {NoRow}, end: {"null", "future", "past"}]]
      /\ tcue \in [TCE -> [status: Statuses \cup {NoRow}, finished: BOOLEAN]]
      /\ chan \in [Tracks -> Seq(Command)]
      /\ \A r \in Results : r[1] \in TIE
      /\ \A i \in TIE : Parent[i] \in TCE /\ TrackOf[i] \in Tracks
      /\ \A d \in TCE : TrackOf[d] \in Tracks
  BY GoingMeans DEF TypeOK, Results
<1>1. ASSUME NEW j \in TIE, tiQueue' = tiQueue,
             \A i \in TIE : i # j => tiue'[i] = tiue[i],
             \A d \in TCE : d # Parent[j] => tcue'[d] = tcue[d],
             IsToCome(Parent[j])'
      PROVE  SameStatus(c) \/ IsToCome(c)'
  <2>1. CASE c = Parent[j]
    BY <1>1, <2>1
  <2>2. CASE c # Parent[j]
    <3>1. \A i \in TIE : Parent[i] = c => tiue'[i] = tiue[i]
      BY <1>1, <2>2
    <3> QED BY <1>1, <2>2, <3>1, SameTies
  <2> QED BY <2>1, <2>2
<1>2. ASSUME NEW r \in Results, CommitResult(r) PROVE SameStatus(c) \/ IsToCome(c)'
  <2>1. \A i \in TIE : i # r[1] => tiue'[i] = tiue[i]
    BY <1>0, <1>2 DEF CommitResult, StatusOfReport
  <2>2. IsToCome(Parent[r[1]])'
    BY <1>0, <1>2, PutBrings DEF CommitResult
  <2> QED BY <1>0, <1>1, <1>2, <2>1, <2>2 DEF CommitResult
<1>3. ASSUME NEW j \in TIE, Response(j) PROVE SameStatus(c) \/ IsToCome(c)'
  <2>1. \A i \in TIE : i # j => tiue'[i] = tiue[i]
    BY <1>0, <1>3 DEF Response, StatusOfResponse
  <2>2. \A d \in TCE : d # Parent[j] => tcue'[d] = tcue[d]
    BY <1>0, <1>3 DEF Response
  <2>3. IsToCome(Parent[j])'
    BY <1>0, <1>3, PutBrings DEF Response
  <2> QED BY <1>1, <1>3, <2>1, <2>2, <2>3 DEF Response
<1>4. ASSUME NEW t \in Tracks, TimedOut(t) PROVE SameStatus(c) \/ IsToCome(c)'
  <2>0. /\ Head(chan[t]) \in Command /\ Popped(t) \in [Tracks -> Seq(Command)]
        /\ tcue' = tcue /\ tiQueue' = tiQueue
    BY <1>4, TakenIsThere DEF Takes, TimedOut
  <2>1. PICK i \in Head(chan[t]).ties :
          /\ tiue' = StatusOfTimedOut(i)
          /\ chan' = Put(Popped(t), TrackOf[Parent[i]],
                         ForTCE("UpdateTestCaseStatus", Parent[i]))
    BY <1>4 DEF TimedOut
  <2>2. i \in TIE
    BY <2>0, <2>1 DEF Command
  <2>3. IsToCome(Parent[i])'
    BY <1>0, <2>0, <2>1, <2>2, PutBrings
  <2>4. \A j \in TIE : j # i => tiue'[j] = tiue[j]
    BY <1>0, <2>1 DEF StatusOfTimedOut
  <2> QED BY <1>1, <2>0, <2>2, <2>3, <2>4
<1>5. ASSUME NEW j \in TIE, TimePasses(j) PROVE SameStatus(c)
  <2>1. \A i \in TIE : tiue'[i].status = tiue[i].status
    BY <1>0, <1>5 DEF TimePasses
  <2> QED BY <1>5, <2>1, SameTies DEF TimePasses
<1> QED BY <1>2, <1>3, <1>4, <1>5

\* (C) leaves the TCEs alone that are not of its command.
LEMMA UpdateKeepsStatus ==
  ASSUME Going, NEW t \in Tracks, UpdateTestCases(t), NEW c \in TCE,
         ~ \E m \in handler[t].messages : m.tce = c
  PROVE  SameStatus(c)
<1>1. tcue'[c] = tcue[c]
  BY DEF UpdateTestCases, TestCasesUpdated
<1> QED BY <1>1, SameTies DEF UpdateTestCases

\* What any step does to a TCE.
LEMMA StatusSteps ==
  ASSUME Going, NEW c \in TCE
  PROVE  \/ SameStatus(c) \/ IsToCome(c)'
         \/ \E t \in Tracks : SaveTestCases(t) /\ c \in handler[t].tces
         \/ \E t \in Tracks : UpdateTestCases(t) /\ \E m \in handler[t].messages : m.tce = c
<1>1. UNCHANGED <<tcue, tiQueue, tiue>> => SameStatus(c)
  BY SameTies
<1>2. DatabaseStep \/ UNCHANGED <<tcue, tiQueue, tiue>>
  BY GoingMeans, OnlyDatabaseSteps DEF ListedAlready, database
<1> QED BY <1>1, <1>2, SaveKeepsStatus, MovedIsToCome, CommitKeepsStatus,
           ReportsKeepStatus, UpdateKeepsStatus DEF DatabaseStep

-----------------------------------------------------------------------------
(* What a reader is doing *)

\* The steps with which a handler begins,
Starts(t) ==
  \/ LoadTestCases(t) \/ LoadQueue(t) \/ LoadWaiting(t) \/ LoadStatuses(t)
  \/ LoadZombies(t)

\* goes on,
Continues(t) ==
  \/ \E i \in TIE : SentToWorker(t, i) \/ RefusedByWorker(t, i)
  \/ SendAllZombiesUnderExecution(t) \/ SendZombieTestCasesOnQueue(t)
  \/ SendAllZombiesOnQueue(t) \/ SendZombiesTimedOut(t)

\* and ends.
Finishes(t) ==
  \/ SaveTestCases(t) \/ TestCasesAlreadySaved(t) \/ ListedAlready(t)
  \/ MoveToOngoing(t) \/ AlreadyMoved(t)
  \/ CommitSent(t) \/ \E i \in TIE : CannotBeSent(t, i)
  \/ UpdateTestCases(t) \/ EndScan(t) \/ RolledBack(t)

\* What a handler does is changed by its own steps and by a crash.
LEMMA HandlerSteps ==
  ASSUME Going, NEW t \in Tracks, handler'[t] # handler[t]
  PROVE  CrashAndRestart \/ Starts(t) \/ Continues(t) \/ Finishes(t)
<1>0. handler \in [Tracks -> Handler]
  BY GoingMeans
<1>1. ASSUME NEW u \in Tracks, NEW h, Start(u, h) PROVE u = t
  BY <1>0, <1>1 DEF Start
<1>2. ASSUME NEW u \in Tracks, Reader(u) PROVE u = t
  <2>1. handler' = handler \/ \E h : Start(u, h)
    BY <1>2 DEF Reader, OtherCommand, LoadTestCases, SaveTestCases, TestCasesAlreadySaved,
       LoadQueue, NothingOnQueue, MoveToOngoing, AlreadyMoved, LoadWaiting,
       NothingWaiting, CommitSent, SentToWorker, RefusedByWorker, CannotBeSent,
       LoadStatuses, UpdateTestCases, ReportProblem, TimedOut, LoadZombies,
       LoadScan, SendAllZombiesUnderExecution, SendZombieTestCasesOnQueue,
       SendForRow, SendAllZombiesOnQueue, SendZombiesTimedOut, EndScan, Stop
  <2> QED BY <1>1, <1>2, <2>1
<1>3. ASSUME Reader(t) PROVE Starts(t) \/ Continues(t) \/ Finishes(t)
  <2>1. ~ (NothingOnQueue(t) \/ NothingWaiting(t) \/ ReportProblem(t) \/ TimedOut(t))
    BY DEF NothingOnQueue, NothingWaiting, ReportProblem, TimedOut
  <2> QED BY <1>3, <2>1 DEF Reader, OtherCommand, Starts, Continues, Finishes
<1>4. ASSUME NEW u \in Tracks, RolledBack(u) \/ ListedAlready(u) PROVE u = t
  BY <1>1, <1>4 DEF RolledBack, ListedAlready, Stop
<1>5. ASSUME Fault PROVE CrashAndRestart \/ RolledBack(t)
  <2>1. ~ ((\E u \in Tracks : FailedLoad(u)) \/ \E r \in Results : ResultRolledBack(r))
    BY DEF FailedLoad, ResultRolledBack
  <2> QED BY <1>4, <1>5, <2>1 DEF Fault
<1>6. ~ (\/ \E cs \in Informs : Inform(cs)
         \/ \E r \in Results : Reporter(r)
         \/ Worker \/ \E i \in TIE : TimePasses(i))
  BY DEF Inform, Reporter, OpenResult, CommitResult, TriggerNext, Worker,
     WorkerReports, Response, TimePasses
<1> QED BY <1>2, <1>3, <1>4, <1>5, <1>6, GoingMeans
        DEF Next, Surroundings, Finishes

\* What a handler that begins has read.
LEMMA StartsHave ==
  ASSUME Going, NEW t \in Tracks, Starts(t)
  PROVE  LET cmd == Head(chan[t])  h == handler'[t] IN
         /\ handler[t] = Idle /\ chan[t] # <<>> /\ cmd \in Command
         /\ Takes(t) /\ chan' = Popped(t) /\ UNCHANGED database
         /\ \/ h = Idle /\ LoadTestCases(t)
            \/ /\ LoadTestCases(t) \/ LoadZombies(t)
               /\ cmd.kind \in {"ProcessTestCases"} \cup Scans
               /\ h.cmd = cmd /\ h.messages = {}
            \/ /\ LoadQueue(t) /\ cmd.kind = "CheckQueue"
               /\ h.cmd = cmd /\ h.messages = {} /\ ParentsOf(h.ties) \subseteq cmd.tces
            \/ /\ LoadWaiting(t) /\ cmd.kind = "CheckWaitingToBeSent"
               /\ h.cmd = cmd /\ h.messages = {} /\ Batch(h) = WaitingToBeSent(cmd)
            \/ /\ LoadStatuses(t) /\ cmd.kind = "UpdateTestCaseStatus"
               /\ h.cmd = cmd /\ h.messages = StatusMessages(cmd.tces)
<1> DEFINE cmd == Head(chan[t])
<1>0. handler \in [Tracks -> Handler]
  BY GoingMeans
<1>1. Takes(t)
  BY DEF Starts, Takes
<1>2. handler[t] = Idle /\ chan[t] # <<>> /\ chan' = Popped(t) /\ UNCHANGED database
  BY DEF Starts, LoadTestCases, LoadQueue, LoadWaiting, LoadStatuses, LoadZombies,
     LoadScan, Ready
<1>3. cmd \in Command
  BY <1>1, TakenIsThere
<1>4. ASSUME NEW x, Start(t, [Working(cmd) EXCEPT !.ties = x])
      PROVE  /\ handler'[t].cmd = cmd /\ handler'[t].messages = {}
             /\ handler'[t].ties = x
             /\ handler'[t].acked = {} /\ handler'[t].nacked = {}
  BY <1>0, <1>4 DEF Start, Working, Idle
<1>5. CASE LoadTestCases(t)
  <2>1. cmd.kind = "ProcessTestCases"
    BY <1>5 DEF LoadTestCases, Ready
  <2>2. \/ handler' = handler
        \/ Start(t, [Working(cmd) EXCEPT !.tces = TestCaseExecutionQueueRows(cmd)])
    BY <1>5 DEF LoadTestCases
  <2>3. handler'[t] = Idle \/ (handler'[t].cmd = cmd /\ handler'[t].messages = {})
    BY <1>0, <1>2, <2>2 DEF Start, Working, Idle
  <2> QED BY <1>1, <1>2, <1>3, <1>5, <2>1, <2>3
<1>6. CASE LoadZombies(t)
  <2>0. PICK kind \in Scans : \E cs, is : LoadScan(t, kind, cs, is)
    BY <1>6 DEF LoadZombies, Scans
  <2>1. PICK cs, is : LoadScan(t, kind, cs, is)
    BY <2>0
  <2>2. PICK track \in Tracks :
          Start(t, [Working(cmd) EXCEPT !.tces = cs, !.ties = is, !.track = track])
    BY <2>1 DEF LoadScan
  <2>3. handler'[t].cmd = cmd /\ handler'[t].messages = {}
    BY <1>0, <2>2 DEF Start, Working, Idle
  <2>4. cmd.kind \in Scans
    BY <2>1 DEF LoadScan, Ready
  <2> QED BY <1>1, <1>2, <1>3, <1>6, <2>3, <2>4
<1>7. CASE LoadQueue(t)
  <2>1. cmd.kind = "CheckQueue"
    BY <1>7 DEF LoadQueue, Ready
  <2>2. PICK S \in FirstOfEachTestCase(OnQueue(cmd)) :
          Start(t, [Working(cmd) EXCEPT !.ties = S])
    BY <1>7 DEF LoadQueue
  <2>3. ParentsOf(S) \subseteq cmd.tces
    BY DEF FirstOfEachTestCase, OnQueue, ParentsOf
  <2> QED BY <1>1, <1>2, <1>3, <1>4, <1>7, <2>1, <2>2, <2>3
<1>8. CASE LoadWaiting(t)
  <2>1. /\ cmd.kind = "CheckWaitingToBeSent"
        /\ Start(t, [Working(cmd) EXCEPT !.ties = WaitingToBeSent(cmd)])
    BY <1>8 DEF LoadWaiting, Ready
  <2>2. /\ handler'[t].cmd = cmd /\ handler'[t].messages = {}
        /\ handler'[t].ties = WaitingToBeSent(cmd)
        /\ handler'[t].acked = {} /\ handler'[t].nacked = {}
    BY <1>4, <2>1
  <2>3. Batch(handler'[t]) = WaitingToBeSent(cmd)
    BY <2>2 DEF Batch
  <2> QED BY <1>1, <1>2, <1>3, <1>8, <2>1, <2>2, <2>3
<1>9. CASE LoadStatuses(t)
  <2>1. /\ cmd.kind = "UpdateTestCaseStatus"
        /\ Start(t, [Working(cmd) EXCEPT !.messages = StatusMessages(cmd.tces)])
    BY <1>9 DEF LoadStatuses, Ready
  <2>2. handler'[t].cmd = cmd /\ handler'[t].messages = StatusMessages(cmd.tces)
    BY <1>0, <2>1 DEF Start, Working, Idle
  <2> QED BY <1>1, <1>2, <1>3, <1>9, <2>1, <2>2
<1> QED BY <1>5, <1>6, <1>7, <1>8, <1>9 DEF Starts

\* A handler that goes on keeps its command, what it has read and its batch.
LEMMA ContinuesHas ==
  ASSUME Going, NEW t \in Tracks, Continues(t)
  PROVE  /\ handler[t].cmd.kind \in {"CheckWaitingToBeSent"} \cup Scans
         /\ handler'[t].cmd = handler[t].cmd
         /\ handler'[t].messages = handler[t].messages
         /\ WorksOn(t, "CheckWaitingToBeSent") => Batch(handler'[t]) = Batch(handler[t])
<1> DEFINE h == handler[t]
<1>0. handler \in [Tracks -> Handler] /\ h \in Handler
  BY GoingMeans
<1>1. ASSUME NEW i \in TIE, SentToWorker(t, i) \/ RefusedByWorker(t, i)
      PROVE  /\ h.cmd.kind = "CheckWaitingToBeSent" /\ handler'[t].cmd = h.cmd
             /\ handler'[t].messages = h.messages /\ Batch(handler'[t]) = Batch(h)
  <2> DEFINE acked == [h EXCEPT !.ties = @ \ {i}, !.acked = @ \cup {i}]
             nacked == [h EXCEPT !.ties = @ \ {i}, !.nacked = @ \cup {i}]
  <2>1. i \in h.ties /\ h.cmd.kind = "CheckWaitingToBeSent"
    BY <1>1 DEF SentToWorker, RefusedByWorker, IsLowest, WorksOn
  <2>2. Start(t, acked) \/ Start(t, nacked)
    BY <1>1 DEF SentToWorker, RefusedByWorker
  <2>3. handler'[t] = acked \/ handler'[t] = nacked
    BY <1>0, <2>2 DEF Start
  <2>4. /\ acked.cmd = h.cmd /\ acked.messages = h.messages
        /\ acked.ties = h.ties \ {i} /\ acked.acked = h.acked \cup {i}
        /\ acked.nacked = h.nacked
    BY <1>0 DEF Handler
  <2>5. /\ nacked.cmd = h.cmd /\ nacked.messages = h.messages
        /\ nacked.ties = h.ties \ {i} /\ nacked.acked = h.acked
        /\ nacked.nacked = h.nacked \cup {i}
    BY <1>0 DEF Handler
  <2> HIDE DEF acked, nacked
  <2>6. Batch(acked) = Batch(h) /\ Batch(nacked) = Batch(h)
    BY <2>1, <2>4, <2>5 DEF Batch
  <2> QED BY <2>1, <2>3, <2>4, <2>5, <2>6
<1>2. ASSUME \/ SendAllZombiesUnderExecution(t) \/ SendZombieTestCasesOnQueue(t)
             \/ SendAllZombiesOnQueue(t) \/ SendZombiesTimedOut(t)
      PROVE  /\ h.cmd.kind \in Scans /\ handler'[t].cmd = h.cmd
             /\ handler'[t].messages = h.messages
  <2>1. h.cmd.kind \in Scans
    BY <1>2 DEF SendAllZombiesUnderExecution, SendZombieTestCasesOnQueue,
       SendAllZombiesOnQueue, SendForRow, SendZombiesTimedOut, WorksOn, Scans
  <2>2. \/ \E i : Start(t, [h EXCEPT !.ties = @ \ {i}])
        \/ \E c : Start(t, [h EXCEPT !.tces = @ \ {c}])
    BY <1>2 DEF SendAllZombiesUnderExecution, SendZombieTestCasesOnQueue,
       SendAllZombiesOnQueue, SendForRow, SendZombiesTimedOut
  <2> QED BY <1>0, <2>1, <2>2 DEF Start, Handler
<1>3. h.cmd.kind \in Scans => ~ WorksOn(t, "CheckWaitingToBeSent")
  BY DEF Scans, WorksOn
<1> QED BY <1>1, <1>2, <1>3 DEF Continues

\* A handler that ends is free, and what it did says what it was working on.
LEMMA FinishesHas ==
  ASSUME Going, NEW t \in Tracks, Finishes(t)
  PROVE  /\ handler'[t] = Idle
         /\ WorksOn(t, "CheckWaitingToBeSent") =>
              RolledBack(t) \/ CommitSent(t) \/ \E i \in TIE : CannotBeSent(t, i)
         /\ WorksOn(t, "UpdateTestCaseStatus") => RolledBack(t) \/ UpdateTestCases(t)
<1>0. handler \in [Tracks -> Handler]
  BY GoingMeans
<1>1. Stop(t)
  BY DEF Finishes, SaveTestCases, TestCasesAlreadySaved, ListedAlready, MoveToOngoing,
     AlreadyMoved, CommitSent, CannotBeSent, UpdateTestCases, EndScan, RolledBack
<1>2. /\ SaveTestCases(t) \/ TestCasesAlreadySaved(t) \/ ListedAlready(t) =>
           WorksOn(t, "ProcessTestCases")
      /\ MoveToOngoing(t) \/ AlreadyMoved(t) => WorksOn(t, "CheckQueue")
      /\ CommitSent(t) \/ (\E i \in TIE : CannotBeSent(t, i)) =>
           WorksOn(t, "CheckWaitingToBeSent")
      /\ UpdateTestCases(t) => WorksOn(t, "UpdateTestCaseStatus")
      /\ EndScan(t) => handler[t].cmd.kind \in Scans
  BY DEF SaveTestCases, TestCasesAlreadySaved, ListedAlready, MoveToOngoing,
     AlreadyMoved, CommitSent, CannotBeSent, UpdateTestCases, EndScan
<1> QED BY <1>0, <1>1, <1>2 DEF Finishes, Stop, Start, WorksOn, Scans

-----------------------------------------------------------------------------
(* What a (C) reads *)

\* A set of numbers that is not empty has a lowest member.
LEMMA HasLowest ==
  ASSUME NEW S, S \subseteq Nat, S # {}
  PROVE  \E n \in S : \A x \in S : n =< x
<1>1. PICK n \in S : \A x \in S : <<x, n>> \notin OpToRel(<, Nat)
  BY NatLessThanWellFounded, WFMin
<1>2. ASSUME NEW x \in S PROVE n =< x
  <2>1. x \in Nat /\ n \in Nat
    OBVIOUS
  <2>2. x < n => <<x, n>> \in OpToRel(<, Nat)
    BY <2>1 DEF OpToRel
  <2>3. ~ (x < n)
    BY <1>1, <2>2, Zenon
  <2> QED BY <2>1, <2>3
<1> QED BY <1>2

\* Of some statuses, one decides.
LEMMA OneDecides ==
  ASSUME NEW S \in SUBSET Statuses, S # {}
  PROVE  Dominant(S) # {}
<1> DEFINE ranks == {12 - StatusOrder[s] : s \in S}
<1>1. \A s \in Statuses : StatusOrder[s] \in 1 .. 12
  BY DEF StatusOrder, Statuses, INITIATED, EXECUTING, CONTROLLED_INTERRUPTION,
     CONTROLLED_INTERRUPTION_CAN_BE_RERUN, FINISHED_OK, FINISHED_OK_CAN_BE_RERUN,
     FINISHED_NOT_OK, FINISHED_NOT_OK_CAN_BE_RERUN, UNEXPECTED_INTERRUPTION,
     UNEXPECTED_INTERRUPTION_CAN_BE_RERUN, TIMEOUT_INTERRUPTION_CAN_BE_RERUN,
     TIMEOUT_INTERRUPTION
<1>2. ranks \subseteq Nat /\ ranks # {}
  BY <1>1
<1>3. \A s \in S : 12 - StatusOrder[s] \in ranks
  OBVIOUS
<1> HIDE DEF ranks
<1>4. PICK n \in ranks : \A m \in ranks : n =< m
  BY <1>2, HasLowest
<1>5. PICK s \in S : n = 12 - StatusOrder[s]
  BY <1>4 DEF ranks
<1>6. ASSUME NEW r \in S PROVE StatusOrder[r] =< StatusOrder[s]
  BY <1>1, <1>3, <1>4, <1>5
<1> QED BY <1>6 DEF Dominant

\* A message of (C) is for a TCE of its command.
LEMMA MessagesAreOfCommand ==
  ASSUME Going, NEW cs \in SUBSET TCE, NEW m \in StatusMessages(cs)
  PROVE  m.tce \in cs /\ RowsOf(m.tce) # {}
<1> DEFINE listed == {c \in cs : RowsOf(c) # {}}
           StatusesFor(c) ==
             {tiue[i].status : i \in UNION {RowsOf(d) : d \in CountedTo(c, listed)}}
           MessagesOf(c) == {[tce |-> c, status |-> s] : s \in Dominant(StatusesFor(c))}
           Opened == {d \in listed : ~ CountedToEarlier(d, listed)}
<1>1. m \in UNION {MessagesOf(c) : c \in Opened}
  BY Zenon DEF StatusMessages
<1>2. PICK c \in listed : m \in MessagesOf(c)
  BY <1>1
<1> HIDE DEF listed, StatusesFor
<1>3. m.tce = c
  BY <1>2
<1> QED BY <1>2, <1>3 DEF listed

\* Handlers stay about rows of the TCEs of their commands.
LEMMA HandlersReadStays ==
  ASSUME Going
  PROVE  HandlersRead'
<1> DEFINE ReadRight(h) ==
             /\ h.cmd.kind = "CheckQueue" => ParentsOf(h.ties) \subseteq h.cmd.tces
             /\ \A m \in h.messages : m.tce \in h.cmd.tces /\ RowsOf(m.tce)' # {}
<1>1. ASSUME NEW t \in Tracks PROVE ReadRight(handler'[t])
  <2>0. /\ handler[t].messages \in SUBSET Message
        /\ \A c \in TCE : RowsOf(c) # {} => RowsOf(c)' # {}
    BY GoingMeans
  <2>1. ReadRight(handler[t])
    BY <2>0, GoingMeans DEF UpdatesInv, HandlersRead, Message
  <2>2. ReadRight(Idle)
    BY IdleIs
  <2>3. CASE Continues(t)
    BY <2>1, <2>3, ContinuesHas DEF Scans
  <2>4. CASE Starts(t)
    <3> DEFINE cmd == Head(chan[t])
    <3>1. /\ cmd \in Command /\ cmd.tces \in SUBSET TCE
          /\ \A m \in StatusMessages(cmd.tces) :
               m.tce \in cmd.tces /\ RowsOf(m.tce)' # {}
      BY <2>0, <2>4, StartsHave, MessagesAreOfCommand DEF Command
    <3> HIDE DEF cmd
    <3> QED BY <2>2, <2>4, <3>1, StartsHave DEF cmd, Scans
  <2>5. CASE Finishes(t)
    BY <2>2, <2>5, FinishesHas
  <2>6. CASE CrashAndRestart
    BY <2>2, <2>6 DEF CrashAndRestart
  <2> HIDE DEF ReadRight
  <2> QED BY <2>1, <2>3, <2>4, <2>5, <2>6, HandlerSteps
<1> QED BY <1>1 DEF HandlersRead, ParentsOf, RowsOf, HasRow

-----------------------------------------------------------------------------
(* What is to come *)

\* A (C) that is to come stays so until one is read, or something fails.
LEMMA IsToComeStays ==
  ASSUME Going, NEW c \in TCE, IsToCome(c), ~ CrashAndRestart,
         ~ \E t \in Tracks : Loads(t, c) \/ Loses(t, c)
  PROVE  IsToCome(c)'
<1>1. ASSUME NEW cmd \in OnChannels(chan), cmd.kind = "UpdateTestCaseStatus",
             c \in cmd.tces
      PROVE  IsToCome(c)'
  <2>1. CASE cmd \in OnChannels(chan')
    BY <1>1, <2>1, Brings
  <2>2. CASE cmd \notin OnChannels(chan')
    <3>1. PICK t \in Tracks : Takes(t) /\ cmd = Head(chan[t])
      BY <2>2, CommandStays
    <3>2. LoadStatuses(t) \/ FailedLoad(t)
      BY <1>1, <3>1 DEF Takes, LoadTestCases, LoadQueue, NothingOnQueue, LoadWaiting,
         NothingWaiting, ReportProblem, TimedOut, LoadZombies, LoadScan, Ready
    <3> QED BY <1>1, <3>1, <3>2 DEF Loads, Loses, OwedBy
  <2> QED BY <2>1, <2>2
<1>2. ASSUME NEW cmd \in OnChannels(chan), cmd.kind = "CheckWaitingToBeSent",
             c \in ParentsOf(WaitingToBeSent(cmd))
      PROVE  IsToCome(c)'
  <2>1. PICK i \in TIE : Parent[i] = c /\ c \in cmd.tces /\ tiue[i].status = INITIATED
    BY <1>2 DEF ParentsOf, WaitingToBeSent
  <2>2. CASE cmd \in OnChannels(chan')
    <3>1. i \in RowsOf(c)
      BY <2>1, StatusNumbers DEF RowsOf, HasRow
    <3>2. tiue'[i].status = INITIATED \/ IsToCome(c)'
      BY <2>1, <3>1, StatusSteps DEF SameStatus, SaveTestCases, UpdateTestCases
    <3> QED BY <1>2, <2>1, <2>2, <3>2, BringsOne
  <2>3. CASE cmd \notin OnChannels(chan')
    <3>1. PICK t \in Tracks : Takes(t) /\ cmd = Head(chan[t])
      BY <2>3, CommandStays
    <3>2. LoadWaiting(t) \/ FailedLoad(t)
      <4>1. ~ NothingWaiting(t)
        BY <1>2, <3>1 DEF NothingWaiting, ParentsOf
      <4> QED BY <1>2, <3>1, <4>1 DEF Takes, LoadTestCases, LoadQueue, NothingOnQueue,
              LoadStatuses, ReportProblem, TimedOut, LoadZombies, LoadScan, Ready
    <3>3. ASSUME FailedLoad(t) PROVE FALSE
      <4>1. c \in cmd.tces
        BY <2>1
      <4> QED BY <1>2, <3>1, <3>3, <4>1 DEF Loses, OwedBy
    <3>4. CASE LoadWaiting(t)
      <4>1. ~ (LoadTestCases(t) \/ LoadQueue(t) \/ LoadStatuses(t) \/ LoadZombies(t))
        BY <1>2, <3>1 DEF LoadTestCases, LoadQueue, LoadStatuses, LoadZombies, LoadScan,
           Ready
      <4>2. handler'[t].cmd = cmd /\ Batch(handler'[t]) = WaitingToBeSent(cmd)
        BY <3>1, <3>4, <4>1, StartsHave DEF Starts
      <4>3. Sends(t, c)'
        BY <1>2, <4>2 DEF Sends, WorksOn, Batch, ParentsOf
      <4> QED BY <4>3 DEF IsToCome
    <3> QED BY <3>2, <3>3, <3>4
  <2> QED BY <2>2, <2>3
<1>3. ASSUME NEW t \in Tracks, Sends(t, c) PROVE IsToCome(c)'
  <2>0. /\ handler[t].cmd.kind = "CheckWaitingToBeSent" /\ handler[t] # Idle
        /\ c \in ParentsOf(Batch(handler[t]))
    BY <1>3, IdleIs DEF Sends, WorksOn
  <2>1. ASSUME handler'[t].cmd = handler[t].cmd, Batch(handler'[t]) = Batch(handler[t])
        PROVE  IsToCome(c)'
    <3>1. Sends(t, c)'
      BY <2>0, <2>1 DEF Sends, WorksOn, Batch, ParentsOf
    <3> QED BY <3>1 DEF IsToCome
  <2>2. CASE Finishes(t)
    <3>1. CommitSent(t)
      BY <1>3, <2>2, FinishesHas DEF Loses, Sends
    <3> QED BY <2>0, <3>1, CommitBrings
  <2>3. ~ Starts(t)
    BY <2>0, StartsHave
  <2>4. CASE Continues(t)
    BY <2>0, <2>1, <2>4, ContinuesHas DEF WorksOn
  <2>5. CASE handler'[t] = handler[t]
    BY <2>1, <2>5
  <2> QED BY <2>2, <2>3, <2>4, <2>5, HandlerSteps
<1> QED BY <1>1, <1>2, <1>3 DEF IsToCome, OwedBy

\* A (C) that has read a TCE stays at work until it writes, or something fails.
LEMMA UpdatesStays ==
  ASSUME Going, NEW t \in Tracks, NEW c, Updates(t, c), ~ CrashAndRestart,
         ~ RolledBack(t), ~ UpdateTestCases(t)
  PROVE  handler'[t] = handler[t] /\ Updates(t, c)'
<1>1. handler[t].cmd.kind = "UpdateTestCaseStatus" /\ handler[t] # Idle
  BY IdleIs DEF Updates, WorksOn
<1>2. ~ Starts(t) /\ ~ Continues(t) /\ ~ Finishes(t)
  BY <1>1, StartsHave, ContinuesHas, FinishesHas DEF WorksOn, Scans
<1> QED BY <1>2, HandlerSteps DEF Updates, WorksOn

\* The handler of a (C) that has just read a TCE.
LEMMA LoadsHas ==
  ASSUME Going, NEW t \in Tracks, NEW c, Loads(t, c)
  PROVE  /\ Updates(t, c)' /\ Head(chan[t]) \in Command /\ Starts(t)
         /\ handler'[t].messages = StatusMessages(Head(chan[t]).tces)
         /\ \A u \in Tracks : u # t => handler'[u] = handler[u]
         /\ UNCHANGED database
<1>1. Starts(t) /\ Head(chan[t]).kind = "UpdateTestCaseStatus"
  BY DEF Loads, LoadStatuses, Starts, Ready
<1>2. ~ (LoadTestCases(t) \/ LoadQueue(t) \/ LoadWaiting(t) \/ LoadZombies(t))
  BY <1>1 DEF LoadTestCases, LoadQueue, LoadWaiting, LoadZombies, LoadScan, Ready
<1>3. /\ handler'[t].cmd = Head(chan[t]) /\ Head(chan[t]) \in Command
      /\ handler'[t].messages = StatusMessages(Head(chan[t]).tces)
      /\ UNCHANGED database
  BY <1>1, <1>2, StartsHave
<1>4. \A u \in Tracks : u # t => handler'[u] = handler[u]
  BY DEF Loads, LoadStatuses, Start
<1>5. Updates(t, c)'
  BY <1>1, <1>3 DEF Updates, WorksOn, Loads
<1> QED BY <1>1, <1>3, <1>4, <1>5

\* A (C) that is due stays so until one writes, or something fails.
LEMMA DueStays ==
  ASSUME Going, NEW c \in TCE, Due(c), ~ CrashAndRestart,
         ~ \E t \in Tracks : Loses(t, c),
         ~ \E t \in Tracks : UpdateTestCases(t) /\ c \in handler[t].cmd.tces
  PROVE  Due(c)'
<1>1. ASSUME NEW t \in Tracks, Loads(t, c) PROVE Due(c)'
  <2>1. Updates(t, c)'
    BY <1>1, LoadsHas
  <2> QED BY <2>1 DEF Due
<1>2. CASE IsToCome(c) /\ ~ \E t \in Tracks : Loads(t, c)
  <2>1. IsToCome(c)'
    BY <1>2, IsToComeStays
  <2> QED BY <2>1 DEF Due
<1>3. ASSUME NEW t \in Tracks, Updates(t, c) PROVE Due(c)'
  <2>1. ~ RolledBack(t) /\ ~ UpdateTestCases(t)
    BY <1>3 DEF Loses, Updates
  <2>2. Updates(t, c)'
    BY <1>3, <2>1, UpdatesStays
  <2> QED BY <2>2 DEF Due
<1> QED BY <1>1, <1>2, <1>3 DEF Due

\* A TCE that is not doubted after a step is read well by it, or was not doubted
\* before and nothing has failed for it.
LEMMA NotDoubted ==
  ASSUME Going, NEW c \in TCE \ doubted'
  PROVE  \/ \E t \in Tracks : LoadsWell(t, c)
         \/ /\ ~ \E t \in Tracks : Loads(t, c) \/ Loses(t, c)
            /\ c \notin doubted /\ (CrashAndRestart => ~ Due(c))
BY DEF Going, AuditNext, Doubts

-----------------------------------------------------------------------------
(* What a (C) has read, and the status it writes *)

\* A (C) reads the status that the rows of a TCE call for, when they are counted to
\* it alone.
LEMMA AloneIsExact ==
  ASSUME Going, NEW cs \in SUBSET TCE, NEW c \in cs, RowsOf(c) # {}, ReadAlone(c, cs)
  PROVE  /\ \E m \in StatusMessages(cs) : m.tce = c
         /\ \A m \in StatusMessages(cs) :
              m.tce = c => m.status \in Dominant({tiue[i].status : i \in RowsOf(c)})
<1> DEFINE listed == {d \in cs : RowsOf(d) # {}}
           StatusesFor(d) ==
             {tiue[i].status : i \in UNION {RowsOf(e) : e \in CountedTo(d, listed)}}
           MessagesOf(d) == {[tce |-> d, status |-> s] : s \in Dominant(StatusesFor(d))}
           Opened == {d \in listed : ~ CountedToEarlier(d, listed)}
           due == {tiue[i].status : i \in RowsOf(c)}
<1>1. StatusMessages(cs) = UNION {MessagesOf(d) : d \in Opened}
  BY Zenon DEF StatusMessages
<1>2. c \in Opened /\ CountedTo(c, listed) = {c}
  BY DEF ReadAlone
<1>3. StatusesFor(c) = due
  <2> HIDE DEF listed
  <2> QED BY <1>2
<1>4. Dominant(due) # {}
  <2>1. due \subseteq Statuses
    BY GoingMeans, RowTypes DEF RowsOf, HasRow
  <2>2. due # {}
    OBVIOUS
  <2> HIDE DEF due
  <2> QED BY <2>1, <2>2, OneDecides
<1> HIDE DEF StatusesFor, listed, Opened, due
<1>5. ASSUME NEW m \in StatusMessages(cs), m.tce = c PROVE m.status \in Dominant(due)
  <2>1. PICK d \in Opened : m \in MessagesOf(d)
    BY <1>1, <1>5
  <2>2. d = c
    BY <1>5, <2>1
  <2> QED BY <1>3, <2>1, <2>2
<1>6. PICK s : s \in Dominant(due)
  BY <1>4
<1>7. [tce |-> c, status |-> s] \in MessagesOf(c)
  BY <1>3, <1>6
<1> HIDE DEF MessagesOf
<1>8. [tce |-> c, status |-> s] \in StatusMessages(cs)
  BY <1>1, <1>2, <1>7
<1> QED BY <1>5, <1>8 DEF due

\* What has been read stays right while the rows keep their statuses.
LEMMA ReadNowStays ==
  ASSUME NEW t, NEW c, handler'[t].messages = handler[t].messages,
         RowsOf(c)' = RowsOf(c),
         \A i \in RowsOf(c) : tiue'[i].status = tiue[i].status, ReadNow(handler[t], c)
  PROVE  ReadNow(handler[t], c)'
<1>1. {tiue'[i].status : i \in RowsOf(c)'} = {tiue[i].status : i \in RowsOf(c)}
  OBVIOUS
<1> QED BY <1>1 DEF ReadNow

\* A (C) that is at work on a TCE was so before, or has just read it.
LEMMA UpdatesBefore ==
  ASSUME Going, NEW t \in Tracks, NEW c, Updates(t, c)'
  PROVE  \/ Loads(t, c)
         \/ handler'[t] = handler[t] /\ Updates(t, c) /\ ~ CrashAndRestart
<1>1. /\ handler'[t].cmd.kind = "UpdateTestCaseStatus" /\ c \in handler'[t].cmd.tces
      /\ handler'[t] # Idle
  BY IdleIs DEF Updates, WorksOn
<1>2. ~ CrashAndRestart /\ ~ Finishes(t) /\ ~ Continues(t)
  BY <1>1, FinishesHas, ContinuesHas DEF CrashAndRestart, Scans
<1>3. ASSUME Starts(t) PROVE Loads(t, c)
  BY <1>1, <1>3, StartsHave DEF Scans, Loads
<1>4. CASE handler'[t] = handler[t]
  <2>1. Updates(t, c)
    BY <1>1, <1>4 DEF Updates, WorksOn
  <2> QED BY <1>2, <1>4, <2>1
<1>5. CASE handler'[t] # handler[t]
  BY <1>2, <1>3, <1>5, HandlerSteps
<1> QED BY <1>4, <1>5

\* A (C) that would write an old status stays followed by another one.
LEMMA ReadsRightStays ==
  ASSUME Going
  PROVE  ReadsRight'
<1> SUFFICES ASSUME NEW t \in Tracks, NEW c \in TCE \ doubted', Updates(t, c)'
             PROVE  ReadNow(handler[t], c)' \/ IsToCome(c)'
  BY DEF ReadsRight
<1>1. ASSUME NEW u \in Tracks, LoadsWell(u, c) PROVE ReadNow(handler[t], c)'
  <2>0. /\ Loads(u, c) /\ ReadAlone(c, Head(chan[u]).tces)
        /\ Updates(t, c) => ReadNow(handler[t], c)
    BY <1>1 DEF LoadsWell
  <2>1. tiue' = tiue /\ RowsOf(c)' = RowsOf(c)
    BY <2>0, LoadsHas DEF database, RowsOf, HasRow
  <2>2. CASE t = u
    <3>1. /\ handler'[t].messages = StatusMessages(Head(chan[t]).tces)
          /\ Head(chan[t]).tces \in SUBSET TCE /\ c \in Head(chan[t]).tces
      BY <2>0, <2>2, LoadsHas DEF Command, Loads
    <3>2. {tiue'[i].status : i \in RowsOf(c)'} = {tiue[i].status : i \in RowsOf(c)}
      BY <2>1
    <3>3. CASE RowsOf(c) = {}
      BY <2>1, <3>3 DEF ReadNow
    <3>4. CASE RowsOf(c) # {}
      <4>1. /\ \E m \in handler'[t].messages : m.tce = c
            /\ \A m \in handler'[t].messages :
                 m.tce = c => m.status \in Dominant({tiue[i].status : i \in RowsOf(c)})
        BY <2>0, <2>2, <3>1, <3>4, AloneIsExact
      <4> QED BY <3>2, <4>1 DEF ReadNow
    <3> QED BY <3>3, <3>4
  <2>3. CASE t # u
    <3>1. handler'[t] = handler[t]
      BY <2>0, <2>3, LoadsHas
    <3>2. Updates(t, c)
      BY <3>1 DEF Updates, WorksOn
    <3> QED BY <2>0, <2>1, <3>1, <3>2, ReadNowStays
  <2> QED BY <2>2, <2>3
<1>2. CASE (~ \E u \in Tracks : Loads(u, c) \/ Loses(u, c)) /\ c \notin doubted
  <2>1. handler'[t] = handler[t] /\ Updates(t, c) /\ ~ CrashAndRestart
    BY <1>2, UpdatesBefore
  <2>2. ReadNow(handler[t], c) \/ IsToCome(c)
    BY <1>2, <2>1, GoingMeans DEF UpdatesInv, ReadsRight
  <2>3. CASE IsToCome(c)
    BY <1>2, <2>1, <2>3, IsToComeStays
  <2>4. CASE ReadNow(handler[t], c)
    <3>1. CASE SameStatus(c)
      BY <2>1, <2>4, <3>1, ReadNowStays DEF SameStatus
    <3>2. ASSUME NEW u \in Tracks, SaveTestCases(u) \/ UpdateTestCases(u)
          PROVE  ReadNow(handler[t], c)'
      <4>1. tiue' = tiue
        BY <3>2 DEF SaveTestCases, UpdateTestCases
      <4> QED BY <2>1, <2>4, <4>1, ReadNowStays DEF RowsOf, HasRow
    <3> QED BY <3>1, <3>2, StatusSteps
  <2> QED BY <2>2, <2>3, <2>4
<1> QED BY <1>1, <1>2, NotDoubted

\* A status that follows its TIEs does so as long as nothing of it changes.
LEMMA SameFollows ==
  ASSUME NEW c, SameStatus(c), Follows(c)
  PROVE  Follows(c)'
<1>1. {tiue'[i].status : i \in RowsOf(c)'} = {tiue[i].status : i \in RowsOf(c)}
  BY DEF SameStatus
<1>2. ASSUME NEW s PROVE StatusWithQueue(c, s)' = StatusWithQueue(c, s)
  BY DEF StatusWithQueue, SameStatus
<1>3. RowsOf(c)' = RowsOf(c) /\ tcue'[c] = tcue[c]
  BY DEF SameStatus
<1>4. CASE RowsOf(c) = {}
  BY <1>3, <1>4 DEF Follows
<1>5. CASE RowsOf(c) # {}
  <2>1. PICK s \in Dominant({tiue[i].status : i \in RowsOf(c)}) :
          tcue[c] = [status |-> StatusWithQueue(c, s),
                     finished |-> HasFinished(StatusWithQueue(c, s))]
    BY <1>5 DEF Follows
  <2>2. tcue'[c] = [status |-> StatusWithQueue(c, s)',
                    finished |-> HasFinished(StatusWithQueue(c, s)')]
    BY <1>2, <1>3, <2>1
  <2>3. s \in Dominant({tiue'[i].status : i \in RowsOf(c)'})
    BY <1>1, <2>1
  <2> QED BY <2>2, <2>3 DEF Follows
<1> QED BY <1>4, <1>5

\* (C) has the status follow, if it has read what it would read now.
LEMMA UpdateFollows ==
  ASSUME Going, NEW t \in Tracks, UpdateTestCases(t), NEW c \in TCE,
         ReadNow(handler[t], c)
  PROVE  Follows(c)'
<1> DEFINE h == handler[t]
<1>0. tcue' = TestCasesUpdated(h.messages) /\ tiQueue' = tiQueue /\ tiue' = tiue
  BY DEF UpdateTestCases
<1>1. /\ RowsOf(c)' = RowsOf(c)
      /\ {tiue'[i].status : i \in RowsOf(c)'} = {tiue[i].status : i \in RowsOf(c)}
  BY <1>0 DEF RowsOf, HasRow
<1>2. CASE RowsOf(c) = {}
  BY <1>1, <1>2 DEF Follows
<1>3. CASE RowsOf(c) # {}
  <2> DEFINE m == MessageFor(c, h.messages)
             due == StatusWithQueue(c, m.status)
  <2>1. \E n \in h.messages : n.tce = c
    BY <1>3 DEF ReadNow
  <2>2. m \in h.messages /\ m.tce = c
    BY <2>1, MessageForIsOne
  <2>3. m.status \in Dominant({tiue[i].status : i \in RowsOf(c)})
    BY <1>3, <2>2 DEF ReadNow
  <2>4. tcue'[c] = [status |-> due, finished |-> HasFinished(due)]
    BY <1>0, <2>1 DEF TestCasesUpdated
  <2> HIDE DEF m
  <2>5. PICK s : s = m.status
    OBVIOUS
  <2>6. StatusWithQueue(c, s)' = StatusWithQueue(c, s)
    BY <1>0 DEF StatusWithQueue
  <2>7. tcue'[c] = [status |-> StatusWithQueue(c, s)',
                    finished |-> HasFinished(StatusWithQueue(c, s)')]
    BY <2>4, <2>5, <2>6
  <2>8. s \in Dominant({tiue'[i].status : i \in RowsOf(c)'})
    BY <1>1, <2>3, <2>5
  <2> QED BY <2>7, <2>8 DEF Follows
<1> QED BY <1>2, <1>3

\* When a (C) ends that was due, the status follows, or another (C) is to come.
LEMMA UpdateLeaves ==
  ASSUME Going, NEW t \in Tracks, UpdateTestCases(t), NEW c \in TCE \ doubted',
         c \in handler[t].cmd.tces
  PROVE  Follows(c)' \/ Due(c)'
<1>1. WorksOn(t, "UpdateTestCaseStatus") /\ chan' = chan
  BY DEF UpdateTestCases
<1>2. Updates(t, c) /\ ~ CrashAndRestart
  <2>1. faults.crashes \in Nat /\ faults' = faults
    BY GoingMeans DEF TypeOK, UpdateTestCases, environment
  <2>2. CrashAndRestart => faults'.crashes = faults.crashes + 1
    BY GoingMeans DEF CrashAndRestart, TypeOK
  <2>3. ~ CrashAndRestart
    BY <2>1, <2>2
  <2> QED BY <1>1, <2>3 DEF Updates
<1>3. ASSUME NEW u \in Tracks, LoadsWell(u, c) PROVE Due(c)'
  BY <1>3, LoadsHas DEF LoadsWell, Due
<1>4. CASE (~ \E u \in Tracks : Loads(u, c) \/ Loses(u, c)) /\ c \notin doubted
  <2>1. CASE IsToCome(c)
    BY <1>2, <1>4, <2>1, IsToComeStays DEF Due
  <2>2. CASE ReadNow(handler[t], c)
    BY <2>2, UpdateFollows
  <2> QED BY <1>2, <1>4, <2>1, <2>2, GoingMeans DEF UpdatesInv, ReadsRight
<1> QED BY <1>3, <1>4, NotDoubted

\* A status that does not follow its TIEs has a (C) to come.
LEMMA StatusDueStays ==
  ASSUME Going
  PROVE  StatusDue'
<1> SUFFICES ASSUME NEW c \in TCE \ doubted'
             PROVE  Follows(c)' \/ Due(c)'
  BY DEF StatusDue
<1>1. ASSUME NEW t \in Tracks, LoadsWell(t, c) PROVE Due(c)'
  BY <1>1, LoadsHas DEF LoadsWell, Due
<1>2. CASE /\ ~ \E t \in Tracks : Loads(t, c) \/ Loses(t, c)
           /\ c \notin doubted /\ (CrashAndRestart => ~ Due(c))
  <2>1. CASE \E t \in Tracks : UpdateTestCases(t) /\ c \in handler[t].cmd.tces
    BY <2>1, UpdateLeaves
  <2>2. CASE /\ Due(c)
             /\ ~ \E t \in Tracks : UpdateTestCases(t) /\ c \in handler[t].cmd.tces
    BY <1>2, <2>2, DueStays
  <2>3. CASE /\ Follows(c)
             /\ ~ \E t \in Tracks : UpdateTestCases(t) /\ c \in handler[t].cmd.tces
    <3>1. ~ \E t \in Tracks : UpdateTestCases(t) /\ \E m \in handler[t].messages : m.tce = c
      BY <2>3, GoingMeans DEF UpdatesInv, HandlersRead
    <3>2. CASE SameStatus(c)
      BY <2>3, <3>2, SameFollows
    <3>3. ASSUME NEW t \in Tracks, SaveTestCases(t), c \in handler[t].tces
          PROVE  Follows(c)'
      BY <3>3, SaveKeepsStatus DEF Follows
    <3> QED BY <3>1, <3>2, <3>3, StatusSteps DEF Due
  <2> QED BY <1>2, <2>1, <2>2, <2>3, GoingMeans DEF UpdatesInv, StatusDue
<1> QED BY <1>1, <1>2, NotDoubted

-----------------------------------------------------------------------------
(* The listing of TCEs *)

\* Only a (C) ends a (C) with what it has read.
LEMMA OnlyUpdates ==
  ASSUME Going, NEW t \in Tracks, UpdateTestCases(t)
  PROVE  /\ UpdateAndList(t)
         /\ \A u \in Tracks : UpdateAndList(u) => u = t
<1>0. handler \in [Tracks -> Handler] /\ ListNext /\ faults.dbErrors \in Nat
  BY GoingMeans DEF TypeOK
<1>1. /\ handler[t].cmd.kind = "UpdateTestCaseStatus" /\ handler[t] # Idle
      /\ handler'[t] = Idle /\ faults' = faults
  BY <1>0, IdleIs DEF UpdateTestCases, WorksOn, Stop, Start, environment
<1>2. ASSUME NEW u \in Tracks, NEW h, Start(u, h) PROVE u = t
  BY <1>0, <1>1, <1>2 DEF Start
<1>3. ASSUME NEW u \in Tracks, UpdateTestCases(u) \/ SaveTestCases(u) \/ ListedAlready(u)
      PROVE  u = t /\ UpdateTestCases(u)
  <2>1. u = t
    BY <1>2, <1>3 DEF UpdateTestCases, SaveTestCases, ListedAlready, Stop
  <2> QED BY <1>1, <1>3, <2>1 DEF SaveTestCases, ListedAlready, WorksOn
<1>4. ASSUME NEW u \in Tracks, OtherCommand(u) PROVE FALSE
  <2>1. ~ (NothingOnQueue(u) \/ NothingWaiting(u) \/ ReportProblem(u) \/ TimedOut(u))
    BY <1>1 DEF NothingOnQueue, NothingWaiting, ReportProblem, TimedOut
  <2>2. CASE Starts(u) \/ Continues(u)
    <3>1. handler' = handler \/ \E h : Start(u, h)
      BY <2>2 DEF Starts, Continues, LoadTestCases, LoadQueue, LoadWaiting, LoadStatuses,
         LoadZombies, LoadScan, SentToWorker, RefusedByWorker,
         SendAllZombiesUnderExecution, SendZombieTestCasesOnQueue, SendForRow,
         SendAllZombiesOnQueue, SendZombiesTimedOut
    <3>2. u = t
      BY <1>1, <1>2, <3>1
    <3> QED BY <1>1, <2>2, <3>2, StartsHave, ContinuesHas DEF Scans
  <2>3. CASE \/ TestCasesAlreadySaved(u) \/ MoveToOngoing(u) \/ AlreadyMoved(u)
             \/ CommitSent(u) \/ EndScan(u) \/ \E i \in TIE : CannotBeSent(u, i)
    <3>1. u = t
      BY <1>2, <2>3 DEF TestCasesAlreadySaved, MoveToOngoing, AlreadyMoved, CommitSent,
         EndScan, CannotBeSent, Stop
    <3> QED BY <1>1, <2>3, <3>1 DEF TestCasesAlreadySaved, MoveToOngoing, AlreadyMoved,
            CommitSent, EndScan, CannotBeSent, WorksOn, Scans
  <2> QED BY <1>4, <2>1, <2>2, <2>3 DEF OtherCommand, Starts, Continues
<1>5. ASSUME Surroundings PROVE FALSE
  <2>1. ~ (\/ \E cs \in Informs : Inform(cs)
           \/ \E r \in Results : Reporter(r)
           \/ Worker \/ \E i \in TIE : TimePasses(i))
    BY <1>1 DEF Inform, Reporter, OpenResult, CommitResult, TriggerNext, Worker,
       WorkerReports, Response, TimePasses
  <2>2. DbError => faults'.dbErrors = faults.dbErrors + 1
    BY GoingMeans DEF DbError, TypeOK
  <2>3. ~ DbError
    BY <1>0, <1>1, <2>2
  <2>4. CrashAndRestart => faults'.crashes = faults.crashes + 1
    BY GoingMeans DEF CrashAndRestart, TypeOK
  <2>5. ~ CrashAndRestart
    BY <1>1, <2>4, GoingMeans DEF TypeOK
  <2> QED BY <1>5, <2>1, <2>3, <2>5
          DEF Surroundings, Fault, FailedLoad, RolledBack, ResultRolledBack
<1>6. \E u \in Tracks : UpdateAndList(u)
  BY <1>0, <1>1, <1>3, <1>4, <1>5 DEF ListNext, ListReader, TakeOver, UpdateTestCases,
     SaveTestCases, ListedAlready, WorksOn
<1> QED BY <1>3, <1>6 DEF UpdateAndList

\* A TCE without rows is taken over or left alone.
LEMMA WithoutRows ==
  ASSUME Going, NEW c \in TCE, RowsOf(c) = {}
  PROVE  tcue'[c] = tcue[c] \/ tcue'[c].status = INITIATED
<1>0. /\ \A i \in TIE : HasRow(i) => Parent[i] # c
      /\ tcue \in [TCE -> [status: Statuses \cup {NoRow}, finished: BOOLEAN]]
  BY GoingMeans DEF RowsOf, TypeOK
<1>1. ASSUME NEW t \in Tracks, SaveTestCases(t)
      PROVE  tcue'[c] = tcue[c] \/ tcue'[c].status = INITIATED
  BY <1>1, SaveKeepsStatus DEF SameStatus
<1>2. ASSUME NEW t \in Tracks, CommitSent(t) PROVE tcue'[c] = tcue[c]
  <2> DEFINE h == handler[t]
  <2>1. h \in Handler /\ \A i \in Batch(h) : HasRow(i)
    BY <1>2, GoingMeans DEF IInv, HandlerRows, AboutRows, CommitSent, WorksOn
  <2>2. \A i \in Batch(h) : i \in TIE /\ Parent[i] # c
    BY <1>0, <2>1 DEF Batch, Handler
  <2>3. h.acked \subseteq Batch(h) /\ h.nacked \subseteq Batch(h)
    BY DEF Batch
  <2>4. tcue' = TestCaseStatusOfSent(h)
    BY <1>2 DEF CommitSent
  <2>5. ~ \E i \in h.acked : IsHighest(i, Batch(h) \cap ChildrenOf({c}))
    BY <2>2, <2>3 DEF IsHighest, ChildrenOf
  <2>6. ~ \E i \in h.nacked : Parent[i] = c
    BY <2>2, <2>3
  <2> QED BY <2>4, <2>5, <2>6 DEF TestCaseStatusOfSent
<1>3. ASSUME NEW t \in Tracks, UpdateTestCases(t) PROVE tcue'[c] = tcue[c]
  <2>1. \A m \in handler[t].messages : m.tce # c
    BY GoingMeans DEF UpdatesInv, HandlersRead
  <2> QED BY <1>3, <2>1 DEF UpdateTestCases, TestCasesUpdated
<1>4. ASSUME NEW i \in TIE, Response(i) PROVE tcue'[c] = tcue[c]
  <2>1. Parent[i] # c
    BY <1>0, <1>4, GoingMeans DEF IInv, SentRows, Response
  <2> QED BY <1>0, <1>4, <2>1 DEF Response
<1>5. ASSUME \/ \E r \in Results : CommitResult(r)
             \/ \E i \in TIE : TimePasses(i)
             \/ \E t \in Tracks : MoveToOngoing(t) \/ TimedOut(t)
      PROVE  tcue' = tcue
  BY <1>5 DEF CommitResult, TimePasses, MoveToOngoing, TimedOut
<1>6. DatabaseStep \/ tcue' = tcue
  BY GoingMeans, OnlyDatabaseSteps DEF ListedAlready, database
<1> QED BY <1>1, <1>2, <1>3, <1>4, <1>5, <1>6 DEF DatabaseStep

\* INITIATED is no end status.
LEMMA InitiatedIsNoEnd == ~ HasEndStatus(INITIATED)
BY DEF HasEndStatus, INITIATED, CONTROLLED_INTERRUPTION,
   UNEXPECTED_INTERRUPTION_CAN_BE_RERUN

\* A TCE without rows never gets an end status.
LEMMA EndedHasRowsStays ==
  ASSUME Going
  PROVE  EndedHasRows'
<1> SUFFICES ASSUME NEW c \in TCE, RowsOf(c)' = {}, HasEndStatus(tcue'[c].status)
             PROVE  FALSE
  BY DEF EndedHasRows
<1>1. RowsOf(c) = {}
  BY GoingMeans
<1> QED BY <1>1, WithoutRows, InitiatedIsNoEnd, GoingMeans DEF UpdatesInv, EndedHasRows

\* Neither the TCE nor its row in the listing changes.
SameListing(c) ==
  /\ SameStatus(c) /\ tcListing'[c] = tcListing[c]
  /\ \A i \in ChildrenOf({c}) : tcPreview'[i] = tcPreview[i]

\* Then the two still agree.
LEMMA SameAgrees ==
  ASSUME NEW c \in TCE, SameListing(c), ListingAgrees(c)
  PROVE  ListingAgrees(c)'
<1>1. ASSUME NEW i \in ChildrenOf({c}) PROVE tiue'[i].status = tiue[i].status
  <2>1. i \in TIE /\ Parent[i] = c
    BY DEF ChildrenOf
  <2>2. RowsOf(c)' = RowsOf(c) /\ \A j \in RowsOf(c) : tiue'[j].status = tiue[j].status
    BY DEF SameListing, SameStatus
  <2> QED BY <2>1, <2>2 DEF RowsOf, HasRow
<1>2. /\ tcue'[c] = tcue[c] /\ tcListing'[c] = tcListing[c]
      /\ \A i \in ChildrenOf({c}) : tcPreview'[i] = tcPreview[i]
  BY DEF SameListing, SameStatus
<1>3. ASSUME HasEndStatus(tcue'[c].status)
      PROVE  /\ tcListing'[c] = [status |-> tcue'[c].status, finished |-> TRUE]
             /\ \A i \in ChildrenOf({c}) : tcPreview'[i] = tiue'[i].status
  BY <1>1, <1>2, <1>3 DEF ListingAgrees
<1> QED BY <1>3 DEF ListingAgrees, ChildrenOf

\* (C) leaves the listings of other TCEs alone.
LEMMA UpdateKeepsListing ==
  ASSUME Going, NEW t \in Tracks, UpdateAndList(t), NEW c \in TCE,
         ~ \E m \in handler[t].messages : m.tce = c
  PROVE  SameListing(c)
<1> DEFINE told == {m.tce : m \in handler[t].messages}
           after == TestCasesUpdated(handler[t].messages)
<1>0. /\ tcListing' = TestCaseListings(told, after)
      /\ tcPreview' = PreviewsOf(Ended(told, after)) /\ UpdateTestCases(t)
  BY DEF UpdateAndList, ListStatuses
<1>1. c \notin Ended(told, after)
  BY DEF Ended
<1> HIDE DEF told, after
<1>2. tcListing'[c] = tcListing[c]
  BY <1>0, <1>1 DEF TestCaseListings
<1>3. \A i \in ChildrenOf({c}) : tcPreview'[i] = tcPreview[i]
  BY <1>0, <1>1 DEF PreviewsOf, ChildrenOf
<1> QED BY <1>0, <1>2, <1>3, UpdateKeepsStatus DEF SameListing

\* (C) lists the TCEs that have ended, so that they agree with the listing then.
LEMMA UpdateAgrees ==
  ASSUME Going, NEW t \in Tracks, UpdateAndList(t), NEW c \in TCE,
         \E m \in handler[t].messages : m.tce = c
  PROVE  ListingAgrees(c)'
<1> DEFINE told == {m.tce : m \in handler[t].messages}
           after == TestCasesUpdated(handler[t].messages)
<1>0. /\ tcue' = after /\ tiue' = tiue
      /\ tcListing' = TestCaseListings(told, after)
      /\ tcPreview' = PreviewsOf(Ended(told, after))
  BY DEF UpdateAndList, UpdateTestCases, ListStatuses
<1>1. ASSUME HasEndStatus(after[c].status)
      PROVE  /\ tcListing'[c] = [status |-> after[c].status, finished |-> TRUE]
             /\ \A i \in ChildrenOf({c}) : tcPreview'[i] = tiue[i].status
  <2>1. c \in Ended(told, after)
    BY <1>1 DEF Ended
  <2> HIDE DEF told, after
  <2>2. tcListing'[c] = [status |-> after[c].status, finished |-> TRUE]
    BY <1>0, <2>1 DEF TestCaseListings
  <2>3. \A i \in ChildrenOf({c}) : tcPreview'[i] = tiue[i].status
    BY <1>0, <2>1 DEF PreviewsOf, ChildrenOf
  <2> QED BY <2>2, <2>3
<1> HIDE DEF told, after
<1> QED BY <1>0, <1>1 DEF ListingAgrees, ChildrenOf

\* A step that is no (C) leaves a TCE and its listing alone, or has no end status,
\* or a (C) is to come for it.
LEMMA OthersAgree ==
  ASSUME Going, ~ \E t \in Tracks : UpdateAndList(t), NEW c \in TCE, ListingAgrees(c)
  PROVE  ListingAgrees(c)' \/ IsToCome(c)'
<1>1. ASSUME NEW t \in Tracks, SaveTestCases(t), c \in handler[t].tces
      PROVE  ListingAgrees(c)'
  BY <1>1, SaveKeepsStatus, InitiatedIsNoEnd DEF ListingAgrees
<1>2. CASE SameStatus(c)
  <2>1. CASE UNCHANGED listings
    BY <1>2, <2>1, SameAgrees DEF SameListing, listings
  <2>2. ASSUME NEW t \in Tracks, TakeOver(t) PROVE ListingAgrees(c)'
    <3>1. CASE c \in handler[t].tces
      BY <1>1, <2>2, <3>1 DEF TakeOver
    <3>2. CASE c \notin handler[t].tces
      <4>1. tcListing'[c] = tcListing[c] /\ tcPreview' = tcPreview
        BY <2>2, <3>2 DEF TakeOver, ListNew
      <4> QED BY <1>2, <4>1, SameAgrees DEF SameListing
    <3> QED BY <3>1, <3>2
  <2> QED BY <2>1, <2>2, GoingMeans DEF ListNext, ListReader, ListedAlready, listings
<1> QED BY <1>1, <1>2, StatusSteps, OnlyUpdates

\* Whenever a TCE and its row in the listing do not agree, a (C) is to come.
LEMMA ListingDueStays ==
  ASSUME Going
  PROVE  ListingDue'
<1> SUFFICES ASSUME NEW c \in TCE \ doubted'
             PROVE  ListingAgrees(c)' \/ Due(c)'
  BY DEF ListingDue
<1>1. ASSUME NEW t \in Tracks, LoadsWell(t, c) PROVE Due(c)'
  BY <1>1, LoadsHas DEF LoadsWell, Due
<1>2. CASE /\ ~ \E t \in Tracks : Loads(t, c) \/ Loses(t, c)
           /\ c \notin doubted /\ (CrashAndRestart => ~ Due(c))
  <2>0. ListingAgrees(c) \/ Due(c)
    BY <1>2, GoingMeans DEF UpdatesInv, ListingDue
  <2>1. ASSUME NEW t \in Tracks, UpdateAndList(t), c \in handler[t].cmd.tces
        PROVE  ListingAgrees(c)' \/ Due(c)'
    <3>1. UpdateTestCases(t) /\ Updates(t, c)
      BY <2>1 DEF UpdateAndList, UpdateTestCases, Updates
    <3>2. ReadNow(handler[t], c) \/ IsToCome(c)
      BY <1>2, <3>1, GoingMeans DEF UpdatesInv, ReadsRight
    <3>3. ~ CrashAndRestart
      BY <1>2, <3>1 DEF Due
    <3>4. CASE IsToCome(c)
      BY <1>2, <3>3, <3>4, IsToComeStays DEF Due
    <3>5. CASE \E m \in handler[t].messages : m.tce = c
      BY <2>1, <3>5, UpdateAgrees
    <3>6. CASE RowsOf(c) = {}
      <4>1. RowsOf(c)' = {}
        BY <3>1, <3>6 DEF UpdateTestCases, RowsOf, HasRow
      <4>2. ~ HasEndStatus(tcue'[c].status)
        BY <4>1, EndedHasRowsStays DEF EndedHasRows
      <4> QED BY <4>2 DEF ListingAgrees
    <3> QED BY <3>2, <3>4, <3>5, <3>6 DEF ReadNow
  <2>2. CASE ~ \E t \in Tracks : UpdateTestCases(t) /\ c \in handler[t].cmd.tces
    <3>1. CASE Due(c)
      BY <1>2, <2>2, <3>1, DueStays
    <3>2. CASE ListingAgrees(c)
      <4>1. ASSUME NEW t \in Tracks, UpdateAndList(t) PROVE ListingAgrees(c)'
        <5>1. ~ \E m \in handler[t].messages : m.tce = c
          BY <2>2, <4>1, GoingMeans DEF UpdateAndList, UpdatesInv, HandlersRead
        <5> QED BY <3>2, <4>1, <5>1, UpdateKeepsListing, SameAgrees
      <4> QED BY <3>2, <4>1, OthersAgree DEF Due
    <3> QED BY <2>0, <3>1, <3>2
  <2> QED BY <2>1, <2>2, OnlyUpdates
<1> QED BY <1>1, <1>2, NotDoubted

-----------------------------------------------------------------------------
(* The listing of suites *)

\* A status of a row that is no time-out, and not ongoing, is an end status.
LEMMA TimeOutNumbers ==
  /\ \A s \in Statuses : s \notin TimeOuts /\ ~ IsOngoing(s) => HasEndStatus(s)
  /\ \A s : HasEndStatus(s) =>
       /\ s \in Int /\ INITIATED < s /\ NoRow < s
       /\ ~ IsOngoing(s) /\ s # NoRow /\ s # INITIATED
BY DEF TimeOuts, Statuses, NoRow, INITIATED, EXECUTING, CONTROLLED_INTERRUPTION,
   UNEXPECTED_INTERRUPTION_CAN_BE_RERUN, TIMEOUT_INTERRUPTION,
   TIMEOUT_INTERRUPTION_CAN_BE_RERUN, IsOngoing, HasEndStatus

\* The listing of a suite that (C) writes: as it was, or the status of one of its
\* TCEs that raises it.
LEMMA SuiteListingIs ==
  ASSUME NEW s, NEW told, NEW after
  PROVE  \/ SuiteListing(s, told, after) = tsListing[s]
         \/ \E c \in told \cap CasesOf(s) :
              /\ Raises(c, told, after)
              /\ SuiteListing(s, told, after) =
                   [status |-> after[c].status, finished |-> HasEndStatus(after[c].status)]
<1> DEFINE raising == {c \in told \cap CasesOf(s) : Raises(c, told, after)}
           last == {c \in raising : IsHighest(c, raising)}
<1>1. CASE last = {}
  BY <1>1 DEF SuiteListing
<1>2. CASE last # {}
  <2> DEFINE final == CHOOSE c \in last : TRUE
  <2>1. final \in raising
    BY <1>2
  <2>2. SuiteListing(s, told, after) =
          [status |-> after[final].status, finished |-> HasEndStatus(after[final].status)]
    BY <1>2 DEF SuiteListing
  <2> HIDE DEF final
  <2> QED BY <2>1, <2>2
<1> QED BY <1>1, <1>2

\* If a TCE raises it, the last one that does decides.
LEMMA OneRaises ==
  ASSUME NEW s, NEW told, NEW after \in [TCE -> [status: Statuses \cup {NoRow},
                                                 finished: BOOLEAN]],
         NEW c \in told \cap CasesOf(s), Raises(c, told, after)
  PROVE  \E d \in told \cap CasesOf(s) :
           /\ Raises(d, told, after)
           /\ SuiteListing(s, told, after) =
                [status |-> after[d].status, finished |-> HasEndStatus(after[d].status)]
<1> DEFINE raising == {d \in told \cap CasesOf(s) : Raises(d, told, after)}
           last == {d \in raising : IsHighest(d, raising)}
           Below(d) == TIMEOUT_INTERRUPTION - after[d].status
<1>1. raising \subseteq TCE /\ TCE \subseteq Nat /\ raising # {}
  BY ModelAssumption DEF CasesOf
<1>2. \A d \in raising : after[d].status \in Int /\ Below(d) \in Nat
  <2> SUFFICES ASSUME NEW d \in raising
               PROVE  after[d].status \in Int /\ Below(d) \in Nat
    OBVIOUS
  <2>1. after[d].status \in Statuses \cup {NoRow}
    BY <1>1
  <2> QED BY <2>1 DEF Statuses, NoRow, INITIATED, TIMEOUT_INTERRUPTION
<1>3. \E n \in {Below(d) : d \in raising} : \A x \in {Below(d) : d \in raising} : n =< x
  <2>1. {Below(d) : d \in raising} \subseteq Nat /\ {Below(d) : d \in raising} # {}
    BY <1>1, <1>2
  <2> QED BY <2>1, HasLowest
<1>4. PICK d \in raising : \A e \in raising : Below(d) =< Below(e)
  BY <1>3
<1>5. \A e \in raising : after[e].status =< after[d].status
  BY <1>2, <1>4 DEF TIMEOUT_INTERRUPTION
<1>6. ASSUME NEW e \in raising, d < e PROVE FALSE
  <2>1. SuiteOf[e] = s
    BY DEF CasesOf
  <2>2. after[d].status < after[e].status
    BY <1>6, <2>1 DEF Raises
  <2> QED BY <1>2, <1>5, <2>2
<1>7. d \in last
  <2>1. ASSUME NEW e \in raising PROVE e =< d
    <3>1. d \in Nat /\ e \in Nat
      BY <1>1
    <3>2. ~ d < e
      BY <1>6
    <3> QED BY <3>1, <3>2
  <2> QED BY <2>1 DEF IsHighest
<1> DEFINE final == CHOOSE e \in last : TRUE
<1>8. final \in raising
  BY <1>7
<1>9. SuiteListing(s, told, after) =
        [status |-> after[final].status, finished |-> HasEndStatus(after[final].status)]
  BY <1>7 DEF SuiteListing
<1> HIDE DEF final
<1> QED BY <1>8, <1>9

\* A TCE that raises the listing of its suite has ended, or has timed out.
LEMMA RaisingHasEnded ==
  ASSUME ListTypeOK, NEW s \in Suites, NEW told,
         NEW after \in [TCE -> [status: Statuses \cup {NoRow}, finished: BOOLEAN]],
         NEW c \in told \cap CasesOf(s), Raises(c, told, after)
  PROVE  HasEndStatus(after[c].status) \/ after[c].status \in TimeOuts
<1>1. c \in TCE /\ SuiteOf[c] = s
  BY DEF CasesOf
<1>2. ~ IsOngoing(after[c].status) /\ tsListing[s].status < after[c].status
  BY <1>1 DEF Raises, NothingLeft
<1>3. /\ after[c].status \in Statuses \cup {NoRow}
      /\ tsListing[s].status \in Statuses \cup {NoRow}
  BY <1>1 DEF ListTypeOK, ListingRow
<1>4. after[c].status # NoRow
  BY <1>2, <1>3 DEF Statuses, NoRow, INITIATED, TIMEOUT_INTERRUPTION
<1> QED BY <1>2, <1>3, <1>4, TimeOutNumbers

\* The TCEs whose status (C) has read.
ToldBy(t) == {m.tce : m \in handler[t].messages}

\* (C) lists the suites by what it has written.
LEMMA UpdateMeans ==
  ASSUME Going, NEW t \in Tracks, UpdateAndList(t)
  PROVE  /\ UpdateTestCases(t)
         /\ tcue' \in [TCE -> [status: Statuses \cup {NoRow}, finished: BOOLEAN]]
         /\ ToldBy(t) \subseteq TCE
         /\ tsListing' = [s \in Suites |-> SuiteListing(s, ToldBy(t), tcue')]
         /\ tcQueue' = tcQueue
<1>1. /\ UpdateTestCases(t) /\ tcue' = TestCasesUpdated(handler[t].messages)
      /\ tcQueue' = tcQueue
  BY DEF UpdateAndList, UpdateTestCases
<1>2. tcue' \in [TCE -> [status: Statuses \cup {NoRow}, finished: BOOLEAN]]
  BY GoingMeans DEF IInv, TypeOK
<1>3. tsListing' = [s \in Suites |->
                      SuiteListing(s, ToldBy(t), TestCasesUpdated(handler[t].messages))]
  BY DEF UpdateAndList, ListStatuses, ToldBy
<1>4. ToldBy(t) \subseteq TCE
  BY GoingMeans DEF ToldBy, Message
<1> QED BY <1>1, <1>2, <1>3, <1>4

\* A suite that is not listed as finished keeps its first status, or has timed out.
LEMMA ListedInTwoStepsStays ==
  ASSUME Going
  PROVE  ListedInTwoSteps'
<1>0. ListedInTwoSteps /\ ListTypeOK
  BY GoingMeans DEF UpdatesInv
<1>1. CASE UNCHANGED listings
  BY <1>0, <1>1 DEF ListedInTwoSteps, listings
<1>2. ASSUME NEW t \in Tracks, TakeOver(t) PROVE ListedInTwoSteps'
  <2>1. \A s \in Suites : tsListing'[s] = FirstListing \/ tsListing'[s] = tsListing[s]
    BY <1>2 DEF TakeOver, ListNew
  <2> QED BY <1>0, <2>1 DEF ListedInTwoSteps, FirstListing
<1>3. ASSUME NEW t \in Tracks, UpdateAndList(t) PROVE ListedInTwoSteps'
  <2> SUFFICES ASSUME NEW s \in Suites
               PROVE  IF tsListing'[s].finished THEN HasEndStatus(tsListing'[s].status)
                      ELSE tsListing'[s].status \in {NoRow, INITIATED} \cup TimeOuts
    BY DEF ListedInTwoSteps
  <2>1. tsListing'[s] = SuiteListing(s, ToldBy(t), tcue')
    BY <1>3, UpdateMeans
  <2>2. CASE tsListing'[s] = tsListing[s]
    BY <1>0, <2>2 DEF ListedInTwoSteps
  <2>3. ASSUME NEW c \in ToldBy(t) \cap CasesOf(s), Raises(c, ToldBy(t), tcue'),
               tsListing'[s] = [status |-> tcue'[c].status,
                                finished |-> HasEndStatus(tcue'[c].status)]
        PROVE  IF tsListing'[s].finished THEN HasEndStatus(tsListing'[s].status)
               ELSE tsListing'[s].status \in {NoRow, INITIATED} \cup TimeOuts
    <3>1. HasEndStatus(tcue'[c].status) \/ tcue'[c].status \in TimeOuts
      BY <1>0, <1>3, <2>3, UpdateMeans, RaisingHasEnded
    <3> QED BY <2>3, <3>1
  <2> QED BY <2>1, <2>2, <2>3, SuiteListingIs
<1> QED BY <1>1, <1>2, <1>3, GoingMeans DEF ListNext, ListReader, ListedAlready, listings

\* What is due for a TCE that is not doubted comes to an end with a (C) only.
LEMMA DueEnds ==
  ASSUME Going, NEW c \in TCE \ doubted', ~ Due(c)'
  PROVE  /\ c \notin doubted
         /\ ~ \E t \in Tracks : Loads(t, c) \/ Loses(t, c)
         /\ Due(c) => /\ ~ CrashAndRestart
                      /\ \E t \in Tracks : UpdateTestCases(t) /\ c \in handler[t].cmd.tces
<1>1. ASSUME NEW t \in Tracks, LoadsWell(t, c) PROVE FALSE
  BY <1>1, LoadsHas DEF LoadsWell, Due
<1> QED BY <1>1, NotDoubted, DueStays

\* A TCE that has ended after a step has not left the queue with it.
LEMMA NotQueuedBefore ==
  ASSUME Going, NEW c \in TCE, HasEndStatus(tcue'[c].status), c \notin tcQueue'
  PROVE  c \notin tcQueue
<1>1. ASSUME NEW t \in Tracks, SaveTestCases(t) PROVE c \notin tcQueue
  <2>1. c \notin handler[t].tces
    BY <1>1, SaveKeepsStatus, InitiatedIsNoEnd
  <2> QED BY <1>1, <2>1 DEF SaveTestCases, TestCasesClearedFromQueue
<1>2. ASSUME NEW t \in Tracks, OtherCommand(t) \/ UpdateTestCases(t)
      PROVE  tcQueue' = tcQueue
  BY <1>2 DEF OtherCommand, UpdateTestCases, LoadTestCases, TestCasesAlreadySaved,
     LoadQueue, NothingOnQueue, MoveToOngoing, AlreadyMoved, LoadWaiting,
     NothingWaiting, SentToWorker, RefusedByWorker, CannotBeSent, CommitSent,
     LoadStatuses, ReportProblem, TimedOut, LoadZombies, LoadScan,
     SendAllZombiesUnderExecution, SendZombieTestCasesOnQueue, SendForRow,
     SendAllZombiesOnQueue, SendZombiesTimedOut, EndScan, database
<1>3. ASSUME Worker \/ Fault PROVE tcQueue' = tcQueue
  BY <1>3 DEF Worker, Fault, WorkerReports, Response, FailedLoad, RolledBack,
     ResultRolledBack, CrashAndRestart, database
<1>4. ASSUME NEW r \in Results, Reporter(r) PROVE tcQueue' = tcQueue
  BY <1>4 DEF Reporter, OpenResult, CommitResult, TriggerNext, database
<1>5. ASSUME (\E cs \in Informs : Inform(cs)) \/ (\E i \in TIE : TimePasses(i))
      PROVE  tcQueue \subseteq tcQueue'
  BY <1>5 DEF Inform, TimePasses
<1>6. ASSUME NEW t \in Tracks, ListedAlready(t) PROVE tcQueue' = tcQueue
  BY <1>6 DEF ListedAlready, database
<1>7. Surroundings => tcQueue \subseteq tcQueue'
  BY <1>3, <1>4, <1>5 DEF Surroundings
<1>8. ASSUME NEW t \in Tracks, Reader(t) PROVE c \notin tcQueue
  BY <1>1, <1>2, <1>8 DEF Reader
<1> QED BY <1>6, <1>7, <1>8, GoingMeans DEF Next

\* A suite that has ended after a step that has not read one of its TCEs, and leaves
\* no (C) to come, had ended before.
LEMMA SuiteKept ==
  ASSUME Going, NEW s \in Suites, CasesOf(s) \cap doubted' = {}, HasEnded(s)',
         \A c \in CasesOf(s) : ~ Due(c)', tsListing'[s] = tsListing[s],
         \A t \in Tracks : UpdateTestCases(t) => ToldBy(t) \cap CasesOf(s) = {}
  PROVE  tsListing'[s].finished
<1>0. /\ CasesOf(s) \subseteq TCE /\ CasesOf(s) \cap tcQueue' = {}
      /\ \A c \in CasesOf(s) : HasEndStatus(tcue'[c].status) /\ c \notin doubted'
      /\ tsListing[s].status \notin TimeOuts
  BY DEF CasesOf, HasEnded
<1>1. ASSUME NEW c \in CasesOf(s) PROVE tcue'[c] = tcue[c] /\ c \notin tcQueue
  <2>1. CASE SameStatus(c)
    BY <1>0, <2>1, NotQueuedBefore DEF SameStatus
  <2>2. ASSUME NEW t \in Tracks, SaveTestCases(t), c \in handler[t].tces PROVE FALSE
    BY <1>0, <2>2, SaveKeepsStatus, InitiatedIsNoEnd
  <2>3. ASSUME NEW t \in Tracks, UpdateTestCases(t), \E m \in handler[t].messages : m.tce = c
        PROVE  FALSE
    BY <2>3 DEF ToldBy
  <2> QED BY <1>0, <2>1, <2>2, <2>3, StatusSteps DEF Due
<1>2. HasEnded(s) /\ CasesOf(s) \cap doubted = {}
  BY <1>0, <1>1, DueEnds DEF HasEnded
<1>3. ASSUME NEW c \in CasesOf(s), Due(c) PROVE FALSE
  <2>1. /\ c \in TCE \ doubted /\ ~ CrashAndRestart
        /\ ~ \E t \in Tracks : Loads(t, c) \/ Loses(t, c)
    BY <1>0, <1>3, DueEnds
  <2>2. PICK t \in Tracks : UpdateTestCases(t) /\ c \in handler[t].cmd.tces
    BY <1>0, <1>3, DueEnds
  <2>3. RowsOf(c) # {}
    BY <1>0, <1>1, <2>1, GoingMeans DEF UpdatesInv, EndedHasRows
  <2>4. ~ ReadNow(handler[t], c)
    BY <1>3, <2>2, <2>3 DEF ReadNow, ToldBy
  <2>5. Updates(t, c)
    BY <2>2 DEF UpdateTestCases, Updates
  <2>6. IsToCome(c)
    BY <2>1, <2>4, <2>5, GoingMeans DEF UpdatesInv, ReadsRight
  <2>7. IsToCome(c)'
    BY <2>1, <2>6, IsToComeStays
  <2> QED BY <1>3, <2>7 DEF Due
<1> QED BY <1>2, <1>3, GoingMeans DEF UpdatesInv, SuiteDue

\* (C): the lowest of its TCEs of a suite lists it as finished when all of them
\* have ended, if it has not been listed as that before.
LEMMA SuiteListed ==
  ASSUME Going, NEW t \in Tracks, UpdateAndList(t), NEW s \in Suites, HasEnded(s)',
         ToldBy(t) \cap CasesOf(s) # {}
  PROVE  tsListing'[s].finished
<1> DEFINE told == ToldBy(t)
<1>0. /\ CasesOf(s) \subseteq TCE /\ s # 0 /\ \A c \in CasesOf(s) : SuiteOf[c] = s
      /\ tsListing'[s] = SuiteListing(s, told, tcue')
      /\ CasesOf(s) \cap tcQueue = {} /\ tsListing'[s].status \notin TimeOuts
      /\ \A c \in CasesOf(s) : HasEndStatus(tcue'[c].status)
  BY UpdateMeans DEF CasesOf, Suites, SuitesOf, HasEnded
<1>1. ASSUME NEW c \in told \cap CasesOf(s), Raises(c, told, tcue')
      PROVE  tsListing'[s].finished
  <2>1. PICK d \in told \cap CasesOf(s) :
          tsListing'[s] = [status |-> tcue'[d].status,
                           finished |-> HasEndStatus(tcue'[d].status)]
    BY <1>0, <1>1, OneRaises, UpdateMeans
  <2> QED BY <1>0, <2>1
<1>2. CASE tsListing[s].finished
  BY <1>0, <1>1, <1>2, SuiteListingIs
<1>3. CASE tsListing[s].status \in TimeOuts
  BY <1>0, <1>1, <1>3, SuiteListingIs
<1>4. CASE tsListing[s].status \in {NoRow, INITIATED}
  <2>1. PICK c \in told \cap CasesOf(s) : \A d \in told \cap CasesOf(s) : c =< d
    <3>1. told \cap CasesOf(s) \subseteq Nat
      BY <1>0, ModelAssumption
    <3> QED BY <3>1, HasLowest
  <2>2. ASSUME NEW d \in told \cap CasesOf(s), d < c PROVE FALSE
    <3>1. c \in Nat /\ d \in Nat /\ c =< d
      BY <1>0, <2>1, ModelAssumption
    <3> QED BY <2>2, <3>1
  <2>3. tsListing[s].status < tcue'[c].status
    BY <1>0, <1>4, TimeOutNumbers
  <2>4. \A d \in CasesOf(s) : ~ IsOngoing(tcue'[d].status)
    BY <1>0, TimeOutNumbers
  <2>5. Raises(c, told, tcue')
    BY <1>0, <2>2, <2>3, <2>4 DEF Raises, NothingLeft
  <2> QED BY <1>1, <2>5
<1> QED BY <1>2, <1>3, <1>4, GoingMeans DEF UpdatesInv, ListedInTwoSteps

\* A suite whose TCEs have all ended is listed so, or a (C) for one of them is to come.
LEMMA SuiteDueStays ==
  ASSUME Going
  PROVE  SuiteDue'
<1> SUFFICES ASSUME NEW s \in Suites, CasesOf(s) \cap doubted' = {}, HasEnded(s)',
                    \A c \in CasesOf(s) : ~ Due(c)'
             PROVE  tsListing'[s].finished
  BY DEF SuiteDue, CasesOf, Suites, SuitesOf
<1>1. ASSUME NEW t \in Tracks, UpdateAndList(t), ToldBy(t) \cap CasesOf(s) # {}
      PROVE  tsListing'[s].finished
  BY <1>1, SuiteListed
<1>2. ASSUME NEW t \in Tracks, UpdateAndList(t), ToldBy(t) \cap CasesOf(s) = {}
      PROVE  tsListing'[s].finished
  <2>1. tsListing'[s] = tsListing[s]
    BY <1>2, UpdateMeans, SuiteListingIs
  <2>2. \A u \in Tracks : UpdateTestCases(u) => u = t
    BY <1>2, OnlyUpdates DEF UpdateAndList
  <2> QED BY <1>2, <2>1, <2>2, SuiteKept
<1>3. CASE ~ \E t \in Tracks : UpdateAndList(t)
  <2>1. \A t \in Tracks : ~ UpdateTestCases(t)
    BY <1>3, OnlyUpdates
  <2>2. ASSUME NEW t \in Tracks, TakeOver(t) PROVE tsListing'[s] = tsListing[s]
    <3>1. ASSUME NEW c \in handler[t].tces PROVE c \notin CasesOf(s)
      <4>1. c \in CasesOf(s) => HasEndStatus(tcue'[c].status) /\ c \in TCE
        BY DEF HasEnded, CasesOf
      <4> QED BY <2>2, <3>1, <4>1, SaveKeepsStatus, InitiatedIsNoEnd DEF TakeOver
    <3>2. handler[t].tces \subseteq TCE
      BY GoingMeans DEF Handler
    <3>3. s \notin SuitesOf(handler[t].tces)
      BY <3>1, <3>2 DEF SuitesOf, CasesOf
    <3> QED BY <2>2, <3>3 DEF TakeOver, ListNew
  <2>3. tsListing'[s] = tsListing[s]
    BY <1>3, <2>2, GoingMeans DEF ListNext, ListReader, ListedAlready, listings
  <2> QED BY <2>1, <2>3, SuiteKept
<1> QED BY <1>1, <1>2, <1>3
-----------------------------------------------------------------------------
(* The invariant, and what it says when nothing is under way *)

\* Nothing has ended at first, and nothing is doubted.
LEMMA UpdatesAtFirst ==
  ASSUME AuditInit
  PROVE  UpdatesInv
<1>1. /\ \A c \in TCE : tcue[c].status = NoRow
      /\ \A i \in TIE : tiue[i].status = NoRow
      /\ \A t \in Tracks : handler[t] = Idle
      /\ \A s \in Suites : tsListing[s] = [status |-> NoRow, finished |-> FALSE]
  BY DEF AuditInit, ListInit, Init
<1>2. /\ \A c \in TCE : RowsOf(c) = {} /\ ~ HasEndStatus(tcue[c].status)
      /\ \A t \in Tracks : handler[t].cmd.kind = "Idle" /\ handler[t].messages = {}
  BY <1>1, IdleIs, TimeOutNumbers DEF RowsOf, HasRow
<1>3. HandlersRead /\ ReadsRight
  BY <1>2 DEF HandlersRead, ReadsRight, Updates, WorksOn
<1>4. StatusDue /\ EndedHasRows /\ ListingDue
  BY <1>2 DEF StatusDue, Follows, EndedHasRows, ListingDue, ListingAgrees
<1>5. ListedInTwoSteps
  BY <1>1 DEF ListedInTwoSteps
<1>6. SuiteDue
  <2>1. ASSUME NEW s \in Suites PROVE ~ HasEnded(s)
    <3>1. PICK c \in TCE : SuiteOf[c] = s
      BY DEF Suites, SuitesOf
    <3> QED BY <1>2, <3>1 DEF HasEnded, CasesOf
  <2> QED BY <2>1 DEF SuiteDue
<1> QED BY <1>3, <1>4, <1>5, <1>6 DEF UpdatesInv

\* Nothing of it changes when nothing changes.
LEMMA UpdatesStutter ==
  ASSUME UpdatesInv, UNCHANGED auditVars
  PROVE  UpdatesInv'
<1>1. /\ tcue' = tcue /\ tiue' = tiue /\ tiQueue' = tiQueue /\ tcQueue' = tcQueue
      /\ chan' = chan /\ handler' = handler /\ tcListing' = tcListing
      /\ tcPreview' = tcPreview /\ tsListing' = tsListing /\ doubted' = doubted
  BY DEF auditVars, allVars, vars, database, listings
<1>2. HandlersRead' /\ EndedHasRows' /\ ListedInTwoSteps'
  BY <1>1 DEF UpdatesInv, HandlersRead, EndedHasRows, ListedInTwoSteps, RowsOf, HasRow
<1>3. ASSUME NEW c PROVE IsToCome(c)' = IsToCome(c) /\ Due(c)' = Due(c)
  BY <1>1 DEF IsToCome, Due, OwedBy, Sends, Updates, OnChannels, WorksOn, Batch,
     ParentsOf, WaitingToBeSent
<1>4. ASSUME NEW c \in TCE
      PROVE  Follows(c) => Follows(c)'
  <2>1. SameStatus(c)
    BY <1>1 DEF SameStatus, RowsOf, HasRow
  <2> QED BY <2>1, SameFollows
<1>5. StatusDue'
  BY <1>1, <1>3, <1>4 DEF UpdatesInv, StatusDue
<1>6. ReadsRight'
  <2>1. ASSUME NEW t \in Tracks, NEW c, ReadNow(handler[t], c)
        PROVE  ReadNow(handler[t], c)'
    BY <1>1, <2>1, ReadNowStays DEF RowsOf, HasRow
  <2>2. \A t \in Tracks : \A c : Updates(t, c)' = Updates(t, c)
    BY <1>1 DEF Updates, WorksOn
  <2> QED BY <1>1, <1>3, <2>1, <2>2 DEF UpdatesInv, ReadsRight
<1>7. ListingDue'
  <2>1. ASSUME NEW c \in TCE, ListingAgrees(c) PROVE ListingAgrees(c)'
    <3>1. SameListing(c)
      BY <1>1 DEF SameListing, SameStatus, RowsOf, HasRow
    <3> QED BY <2>1, <3>1, SameAgrees
  <2> QED BY <1>1, <1>3, <2>1 DEF UpdatesInv, ListingDue
<1>8. SuiteDue'
  <2>1. \A s \in Suites : HasEnded(s)' = HasEnded(s) /\ CasesOf(s)' = CasesOf(s)
    BY <1>1 DEF HasEnded, CasesOf
  <2> QED BY <1>1, <1>3, <2>1 DEF UpdatesInv, SuiteDue
<1> QED BY <1>2, <1>5, <1>6, <1>7, <1>8 DEF UpdatesInv

\* Whatever the tracks, and whatever fails: whenever the status of a TCE does not
\* follow its TIEs, the listing does not agree with it, or its suite is not listed
\* as finished although it has ended, a (C) for it is under way that has read what it
\* is going to write, or will read it, or is sent by a (B); unless one of the four
\* faults has happened to the TCE that StatusUpdates names, since a (C) last read it.
THEOREM UpdatesInvHolds == AuditSpec => []UpdatesInv
<1>1. AuditInit => ListInit /\ UpdatesInv
  BY UpdatesAtFirst DEF AuditInit
<1>2. ListIInv /\ UpdatesInv /\ [AuditNext]_auditVars => UpdatesInv'
  <2>1. ASSUME Going PROVE UpdatesInv'
    BY <2>1, HandlersReadStays, StatusDueStays, ReadsRightStays, EndedHasRowsStays,
       ListingDueStays, ListedInTwoStepsStays, SuiteDueStays DEF UpdatesInv
  <2> QED BY <2>1, UpdatesStutter DEF Going
<1>3. [AuditNext]_auditVars => [ListNext]_allVars
  BY DEF AuditNext, auditVars
<1>4. AuditSpec => []ListIInv
  BY <1>1, <1>3, ListInvariantHolds, PTL DEF AuditSpec, ListSpec
<1> QED BY <1>1, <1>2, <1>4, PTL DEF AuditSpec

\* Nothing is due when nothing is under way.
LEMMA NothingIsDue ==
  ASSUME Quiet
  PROVE  \A c \in TCE : ~ Due(c)
<1>1. \A t \in Tracks : chan[t] = <<>> /\ handler[t] = Idle
  BY DEF Quiet
<1>2. OnChannels(chan) = {}
  BY <1>1 DEF OnChannels
<1> QED BY <1>1, <1>2, IdleIs DEF Due, IsToCome, Sends, Updates, WorksOn

\* When the engine comes to rest, the status of a TCE that is not doubted is the one
\* that its TIEs call for, on however many tracks it was computed.
THEOREM StatusAtRestAlways == AuditSpec => []StatusAtRest
<1>1. UpdatesInv => StatusAtRest
  BY NothingIsDue DEF UpdatesInv, StatusDue, StatusAtRest
<1> QED BY <1>1, UpdatesInvHolds, PTL

\* When the engine comes to rest, a TCE that has ended and is not doubted is listed
\* with its status and the results of its TIEs.
THEOREM ListingAtRestAlways == AuditSpec => []ListingAtRest
<1>1. UpdatesInv => ListingAtRest
  BY NothingIsDue DEF UpdatesInv, ListingDue, ListingAtRest
<1> QED BY <1>1, UpdatesInvHolds, PTL

\* When the engine comes to rest, a suite whose TCEs have all ended and are not
\* doubted is listed as finished, also when several (C) on several tracks have ended
\* its TCEs.
THEOREM SuiteAtRestAlways == AuditSpec => []SuiteAtRest
<1>1. UpdatesInv => SuiteAtRest
  BY NothingIsDue DEF UpdatesInv, SuiteDue, SuiteAtRest, CasesOf
<1> QED BY <1>1, UpdatesInvHolds, PTL

=============================================================================
