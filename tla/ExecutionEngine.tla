-------------------------- MODULE ExecutionEngine --------------------------
(***************************************************************************)
(* The TestInstruction execution engine: how a TestCaseExecution (TCE) is  *)
(* taken from its queue, how its TestInstructionExecutions (TIE) are moved *)
(* from their queue to the table of ongoing executions, sent to a Worker   *)
(* and ended by the Worker's report, and how the status of the TCE follows.*)
(*                                                                         *)
(* The actors are the command-channel readers, one per execution track,    *)
(* each of which runs one command at a time, and the goroutines that handle*)
(* the Worker's reports.  They share only the database.  A handler that    *)
(* reads in one statement and writes in a later one is two actions here,   *)
(* as no row is locked in between; its writes are one action, the commit.  *)
(* The command that a handler sends after its commit is sent by the same   *)
(* action: a crash between the two leaves what a crash after the send does.*)
(*                                                                         *)
(* Not in this module: the tables that only the user interface reads       *)
(* (listings, previews, logs), the broadcast of status changes, and the    *)
(* hand-over of messages that belong to another instance.                  *)
(***************************************************************************)
EXTENDS ExecutionStatus, Sequences, FiniteSets

CONSTANTS
  TCE,           \* TestCaseExecutions; numbers, ordered as their uuids are
  TIE,           \* TestInstructionExecutions; numbers, ordered as their uuids
  Parent,        \* [TIE -> TCE]: the TCE a TIE belongs to
  Order,         \* [TIE -> Nat]: 'TestInstructionExecutionOrder'
  Version,       \* [TCE -> Nat]: 'TestCaseExecutionVersion'
  Tracks,        \* execution tracks, 0 among them
  TrackOf,       \* [TCE \cup TIE -> Tracks]: 'CalculateExecutionTrackNumber'
  SameCounter,   \* <<i, j>>: 'UniqueCounter' of i's row in the queue equals
                 \* that of j's row in the table of ongoing executions
  ReExecutable,  \* TIEs whose row says 'TestInstructionCanBeReExecuted'
  Informs,       \* the lists of TCEs that clients inform the server about
  ReportStatuses,\* statuses a Worker may report as a final result
  MaxReports,    \* bound: final results a Worker sends for one TIE
  MaxResponses,  \* bound: process responses a Worker sends for one TIE
  MayExpire,     \* bound: TIEs whose expected end may be passed
  MayBeUnsendable, \* bound: TIEs whose data may be missing when they are sent
  MaxNacks,      \* bound: refusals to execute by Workers
  MaxLostAnswers,\* bound: answers of Workers that the engine does not get
  MaxDbErrors,   \* bound: transactions that fail
  MaxCrashes     \* bound: crashes, each followed by a restart

ASSUME ModelAssumption ==
  /\ TCE \subseteq Nat /\ TIE \subseteq Nat /\ TCE \cap TIE = {}
  /\ IsFiniteSet(TCE) /\ IsFiniteSet(TIE)
  /\ Parent \in [TIE -> TCE]
  /\ Order \in [TIE -> Nat]
  /\ Version \in [TCE -> Nat]
  /\ 0 \in Tracks
  /\ TrackOf \in [TCE \cup TIE -> Tracks]
  /\ SameCounter \subseteq TIE \X TIE
  /\ ReExecutable \subseteq TIE
  /\ Informs \subseteq Seq(TCE) \ {<<>>}
  /\ ReportStatuses \subseteq Statuses
  /\ MayExpire \subseteq TIE /\ MayBeUnsendable \subseteq TIE
  /\ {MaxReports, MaxResponses, MaxNacks, MaxLostAnswers, MaxDbErrors, MaxCrashes}
       \subseteq Nat

VARIABLES
  (* the database *)
  tcQueue,   \* 'TestCaseExecutionQueue': the TCEs that have a row
  tcue,      \* 'TestCasesUnderExecution': TCE -> status and finished flag
  tiQueue,   \* 'TestInstructionExecutionQueue': the TIEs that have a row
  tiue,      \* 'TestInstructionsUnderExecution': TIE -> status and expected end
  (* the running process *)
  chan,      \* the command channel of each track
  handler,   \* the command each track's reader is working on
  result,    \* the goroutines that handle final results
  (* clients, Workers and what may go wrong *)
  pending,   \* lists of TCEs not yet queued by a client
  sent,      \* TIE -> how often a Worker accepted it
  responded, \* TIE -> process responses its Worker has sent
  faults     \* how much of each bound has been used

database    == <<tcQueue, tcue, tiQueue, tiue>>
environment == <<pending, sent, responded, faults>>
vars        == <<database, chan, handler, result, environment>>

-----------------------------------------------------------------------------
(* Commands, handlers and channels *)

\* A final result is one of the Worker's reports, or the one (number 0) the
\* engine makes itself when it cannot send the TIE.
Results == TIE \X (0 .. MaxReports)
NoReply == <<>>

\* (A) is CheckQueue, (B) CheckWaitingToBeSent, (C) UpdateTestCaseStatus.
Kinds == {"ProcessTestCases", "CheckQueue", "CheckWaitingToBeSent",
          "UpdateTestCaseStatus", "ProblemWhenSending", "TimedOut",
          "ZombiesUnderExecution", "ZombieTestCasesOnQueue", "ZombiesOnQueue",
          "ZombiesTimedOut"}

\* tces: the command's list of TCEs; last: the last one of that list;
\* ties: the TIE a command is about; reply: the goroutine that waits for it
Command == [kind: Kinds, tces: SUBSET TCE, last: SUBSET TCE, ties: SUBSET TIE,
            reply: Results \cup {NoReply}]

ForTCEs(kind, cs, last) == [kind |-> kind, tces |-> cs, last |-> last,
                            ties |-> {}, reply |-> NoReply]
ForTCE(kind, c)   == ForTCEs(kind, {c}, {c})
ForTIE(kind, i)   == [ForTCEs(kind, {}, {}) EXCEPT !.ties = {i}]
Scan(kind)        == ForTCEs(kind, {}, {})
WithReply(cmd, r) == [cmd EXCEPT !.reply = r]

Message == [tce: TCE, status: Statuses]

\* The command in work and what its handler has read: tces and ties, the rows
\* still to work on; acked, nacked, the Worker's answers; messages, new statuses of TCEs;
\* track, the channel a scan sends to.
Idle == [cmd |-> Scan("Idle"), tces |-> {}, ties |-> {}, acked |-> {},
         nacked |-> {}, messages |-> {}, track |-> 0]

WorksOn(t, kind) == handler[t].cmd.kind = kind
Working(cmd)     == [Idle EXCEPT !.cmd = cmd]

IsLowest(c, S)  == c \in S /\ \A d \in S : c =< d
IsHighest(c, S) == c \in S /\ \A d \in S : d =< c

\* The next command of track t is one of this kind, and its reader is free.
Ready(t, kind) ==
  /\ handler[t] = Idle
  /\ chan[t] # <<>>
  /\ Head(chan[t]).kind = kind

Popped(t) == [chan EXCEPT ![t] = Tail(@)]
Put(channels, t, cmd) == [channels EXCEPT ![t] = Append(@, cmd)]

\* The command goes to the track of the lowest of the TCEs cs.
SendByLowest(channels, cs, cmd) ==
  \E c \in cs : IsLowest(c, cs) /\ chan' = Put(channels, TrackOf[c], cmd)

Start(t, h) == handler' = [handler EXCEPT ![t] = h]
Stop(t)     == Start(t, Idle)

-----------------------------------------------------------------------------
(* Rows *)

HasRow(i)     == tiue[i].status # NoRow
RowsOf(c)     == {i \in TIE : Parent[i] = c /\ HasRow(i)}
ChildrenOf(S) == {i \in TIE : Parent[i] \in S}
ParentsOf(S)  == {Parent[i] : i \in S}

\* A goroutine with an open transaction holds the row of its TIE.
Locked(i) == \E r \in Results : r[1] = i /\ result[r].phase = "open"

-----------------------------------------------------------------------------
(* TestCaseExecutions are taken from their queue *)

\* A client has put TCEs in the queue and informs the server about them.
Inform(cs) ==
  /\ cs \in pending
  /\ pending' = pending \ {cs}
  /\ LET listed == {cs[k] : k \in DOMAIN cs}
     IN /\ tcQueue' = tcQueue \cup listed
        /\ SendByLowest(chan, listed,
                        ForTCEs("ProcessTestCases", listed, {cs[Len(cs)]}))
  /\ UNCHANGED <<tcue, tiQueue, tiue, handler, result, sent, responded, faults>>

\* The rows of the command's TCEs that are still in the queue.
TestCaseExecutionQueueRows(cmd) == cmd.tces \cap tcQueue

LoadTestCases(t) ==
  /\ Ready(t, "ProcessTestCases")
  /\ LET cmd  == Head(chan[t])
         rows == TestCaseExecutionQueueRows(cmd)
     IN \/ rows = {} /\ UNCHANGED handler
        \/ rows # {} /\ Start(t, [Working(cmd) EXCEPT !.tces = rows])
  /\ chan' = Popped(t)
  /\ UNCHANGED <<database, result, environment>>

TestCasesOnOngoing(cs) ==
  [c \in TCE |-> IF c \in cs THEN [status |-> INITIATED, finished |-> FALSE]
                             ELSE tcue[c]]

TestInstructionsToQueue(cs) == tiQueue \cup ChildrenOf(cs)
TestCasesClearedFromQueue(cs) == tcQueue \ cs

CheckQueueFor(cmd) == ForTCEs("CheckQueue", cmd.tces, cmd.last)

\* Mutant: an earlier take-over of the same TCEs goes unnoticed.
SaveTestCasesAgain(t) ==
  /\ WorksOn(t, "ProcessTestCases")
  /\ tcue' = TestCasesOnOngoing(handler[t].tces)
  /\ tiQueue' = TestInstructionsToQueue(handler[t].tces)
  /\ tcQueue' = TestCasesClearedFromQueue(handler[t].tces)
  /\ SendByLowest(chan, handler[t].cmd.tces, CheckQueueFor(handler[t].cmd))
  /\ Stop(t)
  /\ UNCHANGED <<tiue, result, environment>>

\* Every TCE of the list that is on the queue becomes ongoing, its TIEs are
\* queued, and (A) follows for the whole list.
SaveTestCases(t) ==
  /\ WorksOn(t, "ProcessTestCases")
  /\ LET cmd  == handler[t].cmd
         rows == handler[t].tces
     IN /\ \A c \in rows : tcue[c].status = NoRow
        /\ tcue' = TestCasesOnOngoing(rows)
        /\ tiQueue' = TestInstructionsToQueue(rows)
        /\ tcQueue' = TestCasesClearedFromQueue(rows)
        /\ SendByLowest(chan, cmd.tces, CheckQueueFor(cmd))
  /\ Stop(t)
  /\ UNCHANGED <<tiue, result, environment>>

\* A row that another track has inserted since: the transaction is rolled back.
TestCasesAlreadySaved(t) ==
  /\ WorksOn(t, "ProcessTestCases")
  /\ \E c \in handler[t].tces : tcue[c].status # NoRow
  /\ Stop(t)
  /\ UNCHANGED <<database, chan, result, environment>>

-----------------------------------------------------------------------------
(* (A): TestInstructionExecutions are taken from their queue *)

\* The guard on 'UniqueCounter' is ANDed to the last TCE of the list only, in
\* the query and in its subquery alike.
Guarding(cmd) ==
  {j \in TIE : /\ HasRow(j) /\ Parent[j] \in cmd.tces
               /\ Parent[j] \in cmd.last => IsOngoing(tiue[j].status)}

OnQueue(cmd) ==
  {i \in tiQueue : /\ Parent[i] \in cmd.tces
                   /\ Parent[i] \in cmd.last =>
                        \A j \in Guarding(cmd) : <<i, j>> \notin SameCounter}

\* Mutant: the query does not order the rows.
AnyOfEachTestCase(rows) ==
  {S \in SUBSET rows :
     /\ ParentsOf(S) = ParentsOf(rows)
     /\ \A i, j \in S : Parent[i] = Parent[j] => i = j}

\* One row of each TCE, of the lowest order it has on the queue.  Among rows of
\* the same order the time they were queued decides, which is not kept here.
FirstOfEachTestCase(rows) ==
  {S \in SUBSET rows :
     /\ ParentsOf(S) = ParentsOf(rows)
     /\ \A i \in S : \A j \in rows :
          Parent[i] = Parent[j] => /\ Order[i] =< Order[j]
                                   /\ j \in S => j = i}

LoadQueue(t) ==
  /\ Ready(t, "CheckQueue")
  /\ LET cmd  == Head(chan[t])
         rows == OnQueue(cmd)
     IN /\ rows # {}
        /\ \E S \in FirstOfEachTestCase(rows) :
             Start(t, [Working(cmd) EXCEPT !.ties = S])
  /\ chan' = Popped(t)
  /\ UNCHANGED <<database, result, environment>>

\* Mutant: (C) is sent for the last TCE of the list only.
UpdateStatusForLast(cmd, cs) == ForTCEs("UpdateTestCaseStatus", cmd.last, cmd.last)

UpdateStatusFor(cmd, cs) == ForTCEs("UpdateTestCaseStatus", cs, cmd.last)

NothingOnQueue(t) ==
  /\ Ready(t, "CheckQueue")
  /\ LET cmd == Head(chan[t])
     IN /\ OnQueue(cmd) = {}
        /\ SendByLowest(Popped(t), cmd.tces, UpdateStatusFor(cmd, cmd.tces))
  /\ UNCHANGED <<database, handler, result, environment>>

TestInstructionsUnderExecution(rows) ==
  [i \in TIE |-> IF i \in rows THEN [status |-> INITIATED, end |-> "null"]
                               ELSE tiue[i]]

\* Mutant: the rows are copied but not deleted.
QueueKept(rows) == tiQueue

QueueCleared(rows) == tiQueue \ rows

SendWaitingFor(cmd) == ForTCEs("CheckWaitingToBeSent", cmd.tces, cmd.last)

MoveToOngoing(t) ==
  /\ WorksOn(t, "CheckQueue")
  /\ LET cmd  == handler[t].cmd
         rows == handler[t].ties
     IN /\ \A i \in rows : ~ HasRow(i)
        /\ tiue' = TestInstructionsUnderExecution(rows)
        /\ tiQueue' = QueueCleared(rows)
        /\ SendByLowest(chan, cmd.tces, SendWaitingFor(cmd))
  /\ Stop(t)
  /\ UNCHANGED <<tcQueue, tcue, result, environment>>

\* Another track has moved one of the rows since: rolled back.
AlreadyMoved(t) ==
  /\ WorksOn(t, "CheckQueue")
  /\ \E i \in handler[t].ties : HasRow(i)
  /\ Stop(t)
  /\ UNCHANGED <<database, chan, result, environment>>

-----------------------------------------------------------------------------
(* (B): TestInstructionExecutions are sent to their Workers *)

\* Mutant: the query has lost its condition on the TCE.
WaitingOfAnyTestCase(cmd) ==
  {i \in TIE : tiue[i].status = INITIATED}

WaitingToBeSent(cmd) ==
  {i \in TIE : Parent[i] \in cmd.tces /\ tiue[i].status = INITIATED}

LoadWaiting(t) ==
  /\ Ready(t, "CheckWaitingToBeSent")
  /\ LET cmd == Head(chan[t])
     IN /\ WaitingToBeSent(cmd) # {}
        /\ Start(t, [Working(cmd) EXCEPT !.ties = WaitingToBeSent(cmd)])
  /\ chan' = Popped(t)
  /\ UNCHANGED <<database, result, environment>>

NothingWaiting(t) ==
  /\ Ready(t, "CheckWaitingToBeSent")
  /\ LET cmd == Head(chan[t])
     IN /\ WaitingToBeSent(cmd) = {}
        /\ SendByLowest(Popped(t), cmd.tces, CheckQueueFor(cmd))
  /\ UNCHANGED <<database, handler, result, environment>>

\* Up to ten attempts are made to give a TIE to its Worker, until one succeeds.  A
\* Worker may accept the TIE in any of them and its answer be lost: so many are left
\* that may be lost.
Unheard == MaxLostAnswers - faults.lost

\* The rows are sent in ascending order; the Worker takes this one.
SentToWorker(t, i) ==
  /\ WorksOn(t, "CheckWaitingToBeSent")
  /\ IsLowest(i, handler[t].ties)
  /\ \E n \in 0 .. Unheard :
       /\ sent' = [sent EXCEPT ![i] = @ + n + 1]
       /\ faults' = [faults EXCEPT !.lost = @ + n]
  /\ Start(t, [handler[t] EXCEPT !.ties = @ \ {i}, !.acked = @ \cup {i}])
  /\ UNCHANGED <<database, chan, result, pending, responded>>

\* In the end the Worker refuses it, or the last attempt fails.
RefusedByWorker(t, i) ==
  /\ WorksOn(t, "CheckWaitingToBeSent")
  /\ IsLowest(i, handler[t].ties)
  /\ faults.nacks < MaxNacks
  /\ \E n \in 0 .. Unheard :
       /\ sent' = [sent EXCEPT ![i] = @ + n]
       /\ faults' = [faults EXCEPT !.nacks = @ + 1, !.lost = @ + n]
  /\ Start(t, [handler[t] EXCEPT !.ties = @ \ {i}, !.nacked = @ \cup {i}])
  /\ UNCHANGED <<database, chan, result, pending, responded>>

Batch(h) == h.ties \cup h.acked \cup h.nacked

\* Data the row refers to cannot be loaded: everything is rolled back, and the
\* engine reports an interruption of the first TIE of the batch, whichever TIE
\* it was that could not be sent.
CannotBeSent(t, i) ==
  /\ WorksOn(t, "CheckWaitingToBeSent")
  /\ IsLowest(i, handler[t].ties) /\ i \in MayBeUnsendable
  /\ \E first \in Batch(handler[t]) :
       /\ IsLowest(first, Batch(handler[t]))
       /\ first \notin faults.unsendable
       /\ faults' = [faults EXCEPT !.unsendable = @ \cup {first}]
       /\ SendByLowest(chan, handler[t].cmd.tces,
                       ForTIE("ProblemWhenSending", first))
  /\ Stop(t)
  /\ UNCHANGED <<database, result, pending, sent, responded>>

\* Mutant: the UPDATE has lost its condition on the status.
StatusOfLastSentAlways(h, last) ==
  [tiue EXCEPT ![last] =
     IF last \in h.acked THEN [status |-> EXECUTING, end |-> "future"]
                         ELSE [status |-> INITIATED, end |-> "past"]]

\* The UPDATE text is started anew for every TIE of the batch, so that only the
\* last one of it is executed.  A refused TIE stays INITIATED; the refusal has
\* no expected duration, which makes its expected end 1970-01-01.
StatusOfLastSent(h, last) ==
  IF tiue[last].status # INITIATED THEN tiue
  ELSE [tiue EXCEPT ![last] =
          IF last \in h.acked THEN [status |-> EXECUTING, end |-> "future"]
                              ELSE [status |-> INITIATED, end |-> "past"]]

\* The statements for the TCEs are all executed, the last one of a TCE decides.
TestCaseStatusOfSent(h) ==
  [c \in TCE |->
     IF \E i \in h.acked : IsHighest(i, Batch(h) \cap ChildrenOf({c}))
     THEN [tcue[c] EXCEPT !.status = EXECUTING]
     ELSE IF \E i \in h.nacked : Parent[i] = c
          THEN [tcue[c] EXCEPT !.status = UNEXPECTED_INTERRUPTION_CAN_BE_RERUN]
          ELSE tcue[c]]

CommitSent(t) ==
  /\ WorksOn(t, "CheckWaitingToBeSent")
  /\ LET h == handler[t]
     IN /\ h.ties = {}
        /\ \E last \in Batch(h) :
             /\ IsHighest(last, Batch(h))
             /\ ~ Locked(last)
             /\ tiue' = StatusOfLastSent(h, last)
        /\ tcue' = TestCaseStatusOfSent(h)
        /\ SendByLowest(chan, h.cmd.tces,
                        UpdateStatusFor(h.cmd, ParentsOf(Batch(h))))
  /\ Stop(t)
  /\ UNCHANGED <<tcQueue, tiQueue, result, environment>>

-----------------------------------------------------------------------------
(* (C): the status of TestCaseExecutions follows that of their TIEs *)

\* The rows come TCE by TCE, lowest first.  A row of another TCE opens a new
\* message only if its version differs too, or if every TCE since the last such
\* change had a single row: after a second row of a TCE the rule "same TCE"
\* stays in force, and the rows of c are counted to the message of an earlier
\* TCE.
CountedToEarlier(c, listed) ==
  \E q \in listed :
    /\ q < c
    /\ \E i, j \in RowsOf(q) : i # j
    /\ \A p \in listed : q =< p /\ p =< c => Version[p] = Version[q]

\* The TCEs whose rows the message of c stands for.
CountedTo(c, listed) ==
  {d \in listed :
     /\ c =< d
     /\ \A p \in listed : c < p /\ p =< d => CountedToEarlier(p, listed)}

StatusMessages(cs) ==
  LET listed == {c \in cs : RowsOf(c) # {}}
      StatusesFor(c) ==
        {tiue[i].status : i \in UNION {RowsOf(d) : d \in CountedTo(c, listed)}}
  IN UNION {{[tce |-> c, status |-> s] : s \in Dominant(StatusesFor(c))} :
              c \in {d \in listed : ~ CountedToEarlier(d, listed)}}

LoadStatuses(t) ==
  /\ Ready(t, "UpdateTestCaseStatus")
  /\ LET cmd == Head(chan[t])
     IN Start(t, [Working(cmd) EXCEPT !.messages = StatusMessages(cmd.tces)])
  /\ chan' = Popped(t)
  /\ UNCHANGED <<database, result, environment>>

MessageFor(c, messages) == CHOOSE m \in messages : m.tce = c

\* Ended well, but there are more TIEs on the queue: still executing.
StatusWithQueue(c, s) ==
  IF EndedOk(s) /\ \E i \in tiQueue : Parent[i] = c THEN EXECUTING ELSE s

\* Mutant: only a TCE that ended well counts as finished.
TestCasesUpdatedFinishedIfOk(messages) ==
  [c \in TCE |->
     IF \E m \in messages : m.tce = c
     THEN LET s == StatusWithQueue(c, MessageFor(c, messages).status)
          IN [status |-> s, finished |-> EndedOk(s)]
     ELSE tcue[c]]

TestCasesUpdated(messages) ==
  [c \in TCE |->
     IF \E m \in messages : m.tce = c
     THEN LET s == StatusWithQueue(c, MessageFor(c, messages).status)
          IN [status |-> s, finished |-> HasFinished(s)]
     ELSE tcue[c]]

\* The goroutine that waits for the outcome of the command, if one does, goes
\* on to this phase.
Answered(cmd, phase) ==
  IF cmd.reply = NoReply THEN result
  ELSE [result EXCEPT ![cmd.reply].phase = phase]

UpdateTestCases(t) ==
  /\ WorksOn(t, "UpdateTestCaseStatus")
  /\ tcue' = TestCasesUpdated(handler[t].messages)
  /\ result' = Answered(handler[t].cmd, "replied")
  /\ Stop(t)
  /\ UNCHANGED <<tcQueue, tiQueue, tiue, chan, environment>>

-----------------------------------------------------------------------------
(* Reports from the Workers *)

Phases == {"none", "received", "open", "waiting", "replied", "done"}

AsPhase(r, phase) == [result EXCEPT ![r].phase = phase]

\* A Worker that has accepted a TIE reports how it ended, more than once if the
\* report is sent again.  A goroutine of its own handles each report; one whose
\* status is not a final one it refuses.
WorkerReports(i, k) ==
  /\ k > 0 /\ sent[i] > 0
  /\ result[<<i, k>>].phase = "none"
  /\ k > 1 => result[<<i, k - 1>>].phase # "none"
  /\ \E s \in ReportStatuses :
       result' = [result EXCEPT ![<<i, k>>] =
                    [phase |-> IF IsFinal(s) THEN "received" ELSE "done",
                     status |-> s, more |-> FALSE]]
  /\ UNCHANGED <<database, chan, handler, environment>>

\* The engine's own report that it could not send a TIE is handled like one.
ReportProblem(t) ==
  /\ Ready(t, "ProblemWhenSending")
  /\ result' = [r \in Results |->
                  IF r[1] \in Head(chan[t]).ties /\ r[2] = 0
                  THEN [phase |-> "received", more |-> FALSE,
                        status |-> UNEXPECTED_INTERRUPTION_CAN_BE_RERUN]
                  ELSE result[r]]
  /\ chan' = Popped(t)
  /\ UNCHANGED <<database, handler, environment>>

\* The TIEs of i's TCE that have not ended well, as a transaction sees them
\* that has set i's own status to s.
SiblingsNotOk(i, s) ==
  {j \in RowsOf(Parent[i]) : ~ EndedOk(IF j = i THEN s ELSE tiue[j].status)}

\* Mutant: the TCE goes on whenever nothing of it is ongoing.
ContinueWhenAllEnded(i, s) ==
  \A j \in SiblingsNotOk(i, s) : IsFinal(IF j = i THEN s ELSE tiue[j].status)

\* Mutant: that all TIEs so far ended well does not count.
ContinueWhenOngoing(i, s) ==
  \E j \in SiblingsNotOk(i, s) : j # i /\ ~ IsFinal(tiue[j].status)

\* Is the TCE to go on?  Yes when all its TIEs so far ended well, and also when
\* one of them is not final yet.
ContinueAfter(i, s) ==
  \/ SiblingsNotOk(i, s) = {}
  \/ \E j \in SiblingsNotOk(i, s) : j # i /\ ~ IsFinal(tiue[j].status)

\* The row of the TIE is locked and updated, and its siblings are read.
OpenResult(r) ==
  /\ result[r].phase = "received"
  /\ ~ Locked(r[1])
  /\ result' = [result EXCEPT ![r].phase = "open",
                              ![r].more =
                                ContinueAfter(r[1], result[r].status)]
  /\ UNCHANGED <<database, chan, handler, environment>>

\* 'Status <> 11 OR Status <> 12' excludes no row: every status is overwritten.
StatusOfReport(i, s) == [tiue EXCEPT ![i].status = s]

\* After the commit: (C) on the track of the TIE, whose outcome is waited for.
CommitResult(r) ==
  /\ result[r].phase = "open"
  /\ tiue' = StatusOfReport(r[1], result[r].status)
  /\ chan' = Put(chan, TrackOf[r[1]],
                 WithReply(ForTCE("UpdateTestCaseStatus", Parent[r[1]]), r))
  /\ result' = AsPhase(r, "waiting")
  /\ UNCHANGED <<tcQueue, tcue, tiQueue, handler, environment>>

\* Mutant: (B) follows whatever the transaction has decided.
TriggerNextAlways(r) ==
  /\ result[r].phase = "replied"
  /\ chan' = Put(chan, TrackOf[r[1]],
                 ForTCE("CheckWaitingToBeSent", Parent[r[1]]))
  /\ result' = AsPhase(r, "done")
  /\ UNCHANGED <<database, handler, environment>>

\* (C) has succeeded: (B) follows if the TCE is to go on.
TriggerNext(r) ==
  /\ result[r].phase = "replied"
  /\ \/ /\ result[r].more
        /\ chan' = Put(chan, TrackOf[r[1]],
                       ForTCE("CheckWaitingToBeSent", Parent[r[1]]))
     \/ /\ ~ result[r].more
        /\ UNCHANGED chan
  /\ result' = AsPhase(r, "done")
  /\ UNCHANGED <<database, handler, environment>>

\* Mutant: the UPDATE has lost its condition on the status.
StatusOfResponseAlways(i) ==
  [tiue EXCEPT ![i] = [status |-> EXECUTING, end |-> "future"]]

\* The Worker's Connector has begun to execute the TIE.
StatusOfResponse(i) ==
  IF tiue[i].status # INITIATED THEN tiue
  ELSE [tiue EXCEPT ![i] = [status |-> EXECUTING, end |-> "future"]]

Response(i) ==
  /\ sent[i] > 0 /\ responded[i] < MaxResponses
  /\ ~ Locked(i)
  /\ responded' = [responded EXCEPT ![i] = @ + 1]
  /\ tiue' = StatusOfResponse(i)
  /\ tcue' = [tcue EXCEPT ![Parent[i]].status = EXECUTING]
  /\ chan' = Put(chan, TrackOf[i], ForTCE("UpdateTestCaseStatus", Parent[i]))
  /\ UNCHANGED <<tcQueue, tiQueue, handler, result, pending, sent, faults>>

-----------------------------------------------------------------------------
(* Timeouts *)

TimePasses(i) ==
  /\ i \in MayExpire /\ tiue[i].end = "future"
  /\ tiue' = [tiue EXCEPT ![i].end = "past"]
  /\ UNCHANGED <<tcQueue, tcue, tiQueue, chan, handler, result, environment>>

\* Mutant: the status that can be rerun is taken to follow the other one.
StatusOfTimedOutOffByOne(i) ==
  [tiue EXCEPT ![i].status = IF i \in ReExecutable THEN TIMEOUT_INTERRUPTION + 1
                                                   ELSE TIMEOUT_INTERRUPTION]

\* As in 'StatusOfReport', the condition on the status excludes no row.
StatusOfTimedOut(i) ==
  [tiue EXCEPT ![i].status = IF i \in ReExecutable
                             THEN TIMEOUT_INTERRUPTION_CAN_BE_RERUN
                             ELSE TIMEOUT_INTERRUPTION]

TimedOut(t) ==
  /\ Ready(t, "TimedOut")
  /\ \E i \in Head(chan[t]).ties :
       /\ ~ Locked(i)
       /\ tiue' = StatusOfTimedOut(i)
       /\ chan' = Put(Popped(t), TrackOf[Parent[i]],
                      ForTCE("UpdateTestCaseStatus", Parent[i]))
  /\ UNCHANGED <<tcQueue, tcue, tiQueue, handler, result, environment>>

-----------------------------------------------------------------------------
(* Scans, at start-up, for what a stopped process has left behind *)

\* A scan reads rows and then sends one command for each of them, all to the
\* track of the lowest TCE.
LoadScan(t, kind, cs, is) ==
  /\ Ready(t, kind)
  /\ LET found == cs \cup ParentsOf(is)
     IN \E track \in Tracks :
          /\ \A c \in found : IsLowest(c, found) => track = TrackOf[c]
          /\ found = {} => track = 0
          /\ Start(t, [Working(Head(chan[t])) EXCEPT
                         !.tces = cs, !.ties = is, !.track = track])
  /\ chan' = Popped(t)
  /\ UNCHANGED <<database, result, environment>>

\* Sent or not, a TIE that may be executed again and has no expected end.
ZombiesUnderExecution ==
  {i \in ReExecutable : HasRow(i) /\ tiue[i].end = "null"}

\* The rows of TCEs that have no ongoing row, or only rows with status 4.
ZombiesOnQueue ==
  {i \in tiQueue : \A j \in RowsOf(Parent[i]) :
                     tiue[j].status = CONTROLLED_INTERRUPTION_CAN_BE_RERUN}

\* Mutant: the expected end is not looked at.
ZombiesOngoing == {i \in TIE : IsOngoing(tiue[i].status)}

\* Not finished, and the expected end has passed.
ZombiesTimedOut ==
  {i \in TIE : IsOngoing(tiue[i].status) /\ tiue[i].end = "past"}

LoadZombies(t) ==
  \/ LoadScan(t, "ZombiesUnderExecution", {}, ZombiesUnderExecution)
  \/ LoadScan(t, "ZombieTestCasesOnQueue", tcQueue, {})
  \/ LoadScan(t, "ZombiesOnQueue", {}, ZombiesOnQueue)
  \/ LoadScan(t, "ZombiesTimedOut", {}, ZombiesTimedOut)

\* One command for each TCE that was found.
SendZombieTestCasesOnQueue(t) ==
  /\ WorksOn(t, "ZombieTestCasesOnQueue")
  /\ \E c \in handler[t].tces :
       /\ chan' = Put(chan, handler[t].track, ForTCE("ProcessTestCases", c))
       /\ Start(t, [handler[t] EXCEPT !.tces = @ \ {c}])
  /\ UNCHANGED <<database, result, environment>>

\* One command for each row: a TCE with several of them gets as many.  ('SELECT
\* DISTINCT' does not help: 'SentTimeStamp' is selected too, and rows of one TCE
\* are moved one at a time.)
SendForRow(t, kind, cmdKind) ==
  /\ WorksOn(t, kind)
  /\ \E i \in handler[t].ties :
       /\ chan' = Put(chan, handler[t].track, ForTCE(cmdKind, Parent[i]))
       /\ Start(t, [handler[t] EXCEPT !.ties = @ \ {i}])
  /\ UNCHANGED <<database, result, environment>>

SendAllZombiesUnderExecution(t) ==
  SendForRow(t, "ZombiesUnderExecution", "CheckWaitingToBeSent")

SendAllZombiesOnQueue(t) == SendForRow(t, "ZombiesOnQueue", "CheckQueue")

SendZombiesTimedOut(t) ==
  /\ WorksOn(t, "ZombiesTimedOut")
  /\ \E i \in handler[t].ties :
       /\ chan' = Put(chan, TrackOf[i], ForTIE("TimedOut", i))
       /\ Start(t, [handler[t] EXCEPT !.ties = @ \ {i}])
  /\ UNCHANGED <<database, result, environment>>

\* Mutant: the second scan is the last.
NextScanStopsEarly(channels, t, kind) ==
  IF kind = "ZombiesUnderExecution"
  THEN Put(channels, t, Scan("ZombieTestCasesOnQueue"))
  ELSE channels

\* The first scan is followed by the second and that by the third, also when it
\* has found nothing, on the track that ran it.
NextScan(channels, t, kind) ==
  IF kind = "ZombiesUnderExecution"
  THEN Put(channels, t, Scan("ZombieTestCasesOnQueue"))
  ELSE IF kind = "ZombieTestCasesOnQueue"
       THEN Put(channels, t, Scan("ZombiesOnQueue"))
       ELSE channels

Scans == {"ZombiesUnderExecution", "ZombieTestCasesOnQueue",
          "ZombiesOnQueue", "ZombiesTimedOut"}

EndScan(t) ==
  /\ handler[t].cmd.kind \in Scans
  /\ handler[t].tces = {} /\ handler[t].ties = {}
  /\ chan' = NextScan(chan, t, handler[t].cmd.kind)
  /\ Stop(t)
  /\ UNCHANGED <<database, result, environment>>

-----------------------------------------------------------------------------
(* Failures *)

DbError == /\ faults.dbErrors < MaxDbErrors
           /\ faults' = [faults EXCEPT !.dbErrors = @ + 1]

\* A command whose first read fails is over.  A scan is still followed up, and
\* a goroutine that waits for the command ends.
FailedLoad(t) ==
  /\ handler[t] = Idle /\ chan[t] # <<>>
  /\ Head(chan[t]).kind # "ProblemWhenSending"
  /\ DbError
  /\ chan' = NextScan(Popped(t), t, Head(chan[t]).kind)
  /\ result' = Answered(Head(chan[t]), "done")
  /\ UNCHANGED <<database, handler, pending, sent, responded>>

\* Mutant: what was done before the failure is committed.
HalfCommitted(t) ==
  /\ handler[t] # Idle /\ handler[t].cmd.kind \notin Scans
  /\ DbError
  /\ tiue' = IF WorksOn(t, "CheckQueue")
             THEN TestInstructionsUnderExecution(handler[t].ties) ELSE tiue
  /\ result' = Answered(handler[t].cmd, "done")
  /\ Stop(t)
  /\ UNCHANGED <<tcQueue, tcue, tiQueue, chan, pending, sent, responded>>

\* A later statement of the transaction fails: it is rolled back, and what the
\* Workers were sent within it is not undone.
RolledBack(t) ==
  /\ handler[t] # Idle /\ handler[t].cmd.kind \notin Scans
  /\ DbError
  /\ result' = Answered(handler[t].cmd, "done")
  /\ Stop(t)
  /\ UNCHANGED <<database, chan, pending, sent, responded>>

ResultRolledBack(r) ==
  /\ result[r].phase \in {"received", "open"}
  /\ DbError
  /\ result' = AsPhase(r, "done")
  /\ UNCHANGED <<database, chan, handler, pending, sent, responded>>

\* What was on the channels and in the goroutines is lost; the start-up puts
\* the scans on track 0.
CrashAndRestart ==
  /\ faults.crashes < MaxCrashes
  /\ faults' = [faults EXCEPT !.crashes = @ + 1]
  /\ chan' = [t \in Tracks |->
                IF t = 0 THEN <<Scan("ZombiesUnderExecution"),
                                Scan("ZombiesTimedOut")>>
                ELSE <<>>]
  /\ handler' = [t \in Tracks |-> Idle]
  /\ result' = [r \in Results |->
                  IF result[r].phase = "none" THEN result[r]
                  ELSE [result[r] EXCEPT !.phase = "done"]]
  /\ UNCHANGED <<database, pending, sent, responded>>

-----------------------------------------------------------------------------
(* The specification *)

\* An empty database, and the engine has started and found nothing to do.
Init ==
  /\ tcQueue = {} /\ tiQueue = {}
  /\ tcue = [c \in TCE |-> [status |-> NoRow, finished |-> FALSE]]
  /\ tiue = [i \in TIE |-> [status |-> NoRow, end |-> "null"]]
  /\ chan = [t \in Tracks |-> <<>>]
  /\ handler = [t \in Tracks |-> Idle]
  /\ result = [r \in Results |->
                 [phase |-> "none", status |-> NoRow, more |-> FALSE]]
  /\ pending = Informs
  /\ sent = [i \in TIE |-> 0]
  /\ responded = [i \in TIE |-> 0]
  /\ faults = [nacks |-> 0, lost |-> 0, dbErrors |-> 0, crashes |-> 0, unsendable |-> {}]

\* The command-channel reader of one track.  (Two of its steps, which write more
\* tables than these, are named apart.)
OtherCommand(t) ==
  \/ LoadTestCases(t) \/ TestCasesAlreadySaved(t)
  \/ LoadQueue(t) \/ NothingOnQueue(t) \/ MoveToOngoing(t) \/ AlreadyMoved(t)
  \/ LoadWaiting(t) \/ NothingWaiting(t) \/ CommitSent(t)
  \/ \E i \in TIE : \/ SentToWorker(t, i)
                    \/ RefusedByWorker(t, i)
                    \/ CannotBeSent(t, i)
  \/ LoadStatuses(t)
  \/ ReportProblem(t) \/ TimedOut(t)
  \/ LoadZombies(t) \/ SendAllZombiesUnderExecution(t)
  \/ SendZombieTestCasesOnQueue(t) \/ SendAllZombiesOnQueue(t)
  \/ SendZombiesTimedOut(t) \/ EndScan(t)

Reader(t) == SaveTestCases(t) \/ UpdateTestCases(t) \/ OtherCommand(t)

\* The goroutine of one final result.
Reporter(r) == OpenResult(r) \/ CommitResult(r) \/ TriggerNext(r)

Worker == \/ \E i \in TIE, k \in 1 .. MaxReports : WorkerReports(i, k)
          \/ \E i \in TIE : Response(i)

Fault == \/ \E t \in Tracks : FailedLoad(t) \/ RolledBack(t)
         \/ \E r \in Results : ResultRolledBack(r)
         \/ CrashAndRestart

Surroundings ==
  \/ \E cs \in Informs : Inform(cs)
  \/ \E r \in Results : Reporter(r)
  \/ Worker
  \/ \E i \in TIE : TimePasses(i)
  \/ Fault

Next == (\E t \in Tracks : Reader(t)) \/ Surroundings

\* Go schedules every goroutine again and again, and a Worker that has taken a
\* TIE reports how it ended.  Nothing is assumed of clients, of process
\* responses, of time or of faults.
Fairness ==
  /\ \A t \in Tracks : WF_vars(Reader(t))
  /\ \A r \in Results : WF_vars(Reporter(r))
  /\ \A i \in TIE : WF_vars(MaxReports > 0 /\ WorkerReports(i, 1))

SafeSpec == Init /\ [][Next]_vars

Spec == SafeSpec /\ Fairness

-----------------------------------------------------------------------------
(* Properties that hold whatever fails *)

Handler == [cmd: [kind: Kinds \cup {"Idle"}, tces: SUBSET TCE,
                  last: SUBSET TCE, ties: SUBSET TIE,
                  reply: Results \cup {NoReply}],
            tces: SUBSET TCE, ties: SUBSET TIE, acked: SUBSET TIE,
            nacked: SUBSET TIE, messages: SUBSET Message, track: Tracks]

\* Every variable holds a value of its type.
TypeOK ==
  /\ tcQueue \subseteq TCE
  /\ tcue \in [TCE -> [status: Statuses \cup {NoRow}, finished: BOOLEAN]]
  /\ tiQueue \subseteq TIE
  /\ tiue \in [TIE -> [status: Statuses \cup {NoRow},
                       end: {"null", "future", "past"}]]
  /\ chan \in [Tracks -> Seq(Command)]
  /\ handler \in [Tracks -> Handler]
  /\ result \in [Results -> [phase: Phases, status: Statuses \cup {NoRow},
                             more: BOOLEAN]]
  /\ pending \subseteq Informs
  /\ sent \in [TIE -> Nat]
  /\ responded \in [TIE -> Nat]
  /\ faults \in [nacks: Nat, lost: Nat, dbErrors: Nat, crashes: Nat,
                 unsendable: SUBSET TIE]

\* A TIE is never lost and never doubled on its way: while its TCE is ongoing it
\* has a row in exactly one of the queue and the table of ongoing executions,
\* and before that in neither.  The code moves it in three transactions of
\* different commands that may run on different tracks and be rolled back.
OnePlace ==
  \A i \in TIE :
    IF tcue[Parent[i]].status = NoRow THEN i \notin tiQueue /\ ~ HasRow(i)
    ELSE i \in tiQueue <=> ~ HasRow(i)

\* A TIE is not started before those of lower order in its TCE have been: even
\* when two tracks read the queue of one TCE at the same time.
StartedInOrder ==
  \A i, j \in TIE :
    Parent[i] = Parent[j] /\ Order[j] < Order[i] /\ HasRow(i) => HasRow(j)

\* A final status may be overwritten by another final one, but a late answer
\* to the sending or a late process response never makes the TIE ongoing again.
FinalStays ==
  [][\A i \in TIE : IsFinal(tiue[i].status) => IsFinal(tiue'[i].status)]_vars

\* Why a TIE may end.
Accounted(i) ==
  sent[i] > 0 \/ i \in faults.unsendable \/ tiue[i].end = "past"

\* A TIE ends only after a Worker has taken it, after the engine has reported
\* that it could not send it, or because its expected end has passed.
EndsForAReason == \A i \in TIE : IsFinal(tiue[i].status) => Accounted(i)

-----------------------------------------------------------------------------
(* Why these hold *)

\* The commands on some channels.
OnChannels(channels) ==
  UNION {{channels[t][k] : k \in DOMAIN channels[t]} : t \in Tracks}

\* A command about a TIE is about one that has a row and may end.
CommandRows ==
  \A cmd \in OnChannels(chan) : \A i \in cmd.ties : HasRow(i) /\ Accounted(i)

\* What a handler has read: TIEs of TCEs that are ongoing, TIEs that have a row,
\* TIEs that may end, new statuses of TCEs that are ongoing.
AboutRows(h) ==
  /\ h.cmd.kind = "CheckQueue" =>
       \A i \in h.ties : tcue[Parent[i]].status # NoRow
  /\ h.cmd.kind = "CheckWaitingToBeSent" => \A i \in Batch(h) : HasRow(i)
  /\ h.cmd.kind = "ZombiesTimedOut" =>
       \A i \in h.ties : HasRow(i) /\ Accounted(i)
  /\ \A i \in h.acked : sent[i] > 0
  /\ \A m \in h.messages : tcue[m.tce].status # NoRow

HandlerRows == \A t \in Tracks : AboutRows(handler[t])

\* A Worker has only TIEs that have a row.
SentRows == \A i \in TIE : sent[i] > 0 => HasRow(i)

\* A final result that is not written yet is about a TIE that has a row and may
\* end, and its status is a final one.
ResultRows ==
  \A r \in Results : result[r].phase \in {"received", "open"} =>
    HasRow(r[1]) /\ Accounted(r[1]) /\ IsFinal(result[r].status)

\* The safety properties above are not inductive: for all they say, a command, a
\* handler or a goroutine may be about a TIE that has no row, and would then
\* invent one.  The inductive invariant adds that whatever is under way is about
\* rows that exist.
IInv == /\ TypeOK /\ OnePlace /\ EndsForAReason
        /\ CommandRows /\ HandlerRows /\ SentRows /\ ResultRows

-----------------------------------------------------------------------------
(* Properties of runs in which nothing fails *)

\* The state of a TIE as a user sees it.
Progress(i) ==
  IF ~ HasRow(i) THEN "waiting"
  ELSE IF IsOngoing(tiue[i].status) THEN "running"
       ELSE IF EndedOk(tiue[i].status) THEN "passed" ELSE "failed"

Serial == INSTANCE SerialExecution WITH
            accepted <- {c \in TCE : tcue[c].status # NoRow},
            state    <- [i \in TIE |-> Progress(i)]

\* The engine implements SerialExecution: TIEs of one TCE are executed one after
\* the other, in order, and the first that does not end well is the last,
\* although commands for one TCE are in work on several tracks at a time and a
\* decision to go on is carried out long after the rows it rests on were read.
ExecutesSerially == Serial!Spec

\* No TIE is given to a Worker twice, although most of the TIEs of a batch still
\* look as if they were waiting after they have been sent.
SentOnce == \A i \in TIE : sent[i] =< 1

\* Every TIE of a TCE the server was informed about ends, unless another one of
\* its TCE has not ended well: the chain of commands (C), (B), (A), (B), which
\* runs over several tracks, never breaks off.
AllEnd ==
  \A i \in TIE :
    Parent[i] \in tcQueue ~>
      \/ IsFinal(tiue[i].status)
      \/ \E j \in RowsOf(Parent[i]) : IsFinal(tiue[j].status)
                                      /\ ~ EndedOk(tiue[j].status)

\* Nothing is under way in the engine.
Quiet ==
  /\ \A t \in Tracks : chan[t] = <<>> /\ handler[t] = Idle
  /\ \A r \in Results : result[r].phase \in {"none", "done"}

\* Nothing is under way, and nothing has been lost by a crash.
Settled == Quiet /\ faults.crashes = 0

\* The status and the finished flag of c are those its own TIEs call for.
Follows(c) ==
  RowsOf(c) # {} =>
    \E s \in Dominant({tiue[i].status : i \in RowsOf(c)}) :
      LET due == StatusWithQueue(c, s)
      IN tcue[c] = [status |-> due, finished |-> HasFinished(due)]

\* When the engine has settled, the status of every TCE follows its TIEs.  Several
\* commands compute it, from reads that may be older than what they overwrite.
StatusFollows == Settled => \A c \in TCE : Follows(c)

\* One (C) that covers several TCEs finds for each of them that has rows a
\* status that one of its own rows has.
EachGetsItsOwnStatus ==
  [][\A t \in Tracks :
       handler[t] = Idle /\ handler'[t].cmd.kind = "UpdateTestCaseStatus" =>
         \A c \in handler'[t].cmd.tces : RowsOf(c) # {} =>
           \E m \in handler'[t].messages :
             m.tce = c /\ m.status \in {tiue[i].status : i \in RowsOf(c)}]_vars

\* When the engine comes to rest, no TIE that a Worker has taken still looks as
\* if it were waiting to be sent.
SentIsExecuting ==
  Quiet => \A i \in TIE : sent[i] > 0 => tiue[i].status # INITIATED

-----------------------------------------------------------------------------
(* Properties of runs with a crash *)

\* A TCE the server was informed about is begun, whenever the process stops and
\* whichever tables its rows were in by then: the start-up scans find it.
AcceptedIsSent ==
  \A c \in TCE : c \in tcQueue ~> \E i \in ChildrenOf({c}) : sent[i] > 0

\* When the engine comes to rest, no TCE whose TIEs so far have all ended well
\* still has TIEs on the queue.
NothingStuck ==
  Quiet => \A i \in tiQueue :
    RowsOf(Parent[i]) = {} \/ \E j \in RowsOf(Parent[i]) : ~ EndedOk(tiue[j].status)

\* A TIE that has been ended by its timeout keeps that status.
TimeOutStays ==
  [][\A i \in TIE :
       tiue[i].status \in {TIMEOUT_INTERRUPTION, TIMEOUT_INTERRUPTION_CAN_BE_RERUN}
         => tiue'[i].status = tiue[i].status]_vars

=============================================================================
