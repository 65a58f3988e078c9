----------------------- MODULE ExecutionEngine_proofs -----------------------
(***************************************************************************)
(* Theorems about ExecutionEngine, for every value of its constants: every *)
(* number of TCEs, TIEs, tracks, faults, reports and crashes.  First that  *)
(* its variables have their types; then the safety properties that hold    *)
(* whatever fails: OnePlace, EndsForAReason and FinalStays, from the       *)
(* inductive invariant IInv, and StartedInOrder.                           *)
(*                                                                         *)
(* StartedInOrder is not inductive: between (A)'s read of the queue and    *)
(* its commit other tracks move TIEs too.  The invariant that is adds that *)
(* all earlier TIEs of what a handler has read have a row already: they    *)
(* were not on the queue, and rows stay.                                   *)
(***************************************************************************)
EXTENDS ExecutionEngine, TLAPS

-----------------------------------------------------------------------------
(* Commands and channels *)

\* The statuses that a row may have do not include the mark of an absent row.
LEMMA StatusNumbers ==
  /\ Statuses \subseteq Nat
  /\ NoRow \notin Statuses
  /\ {INITIATED, EXECUTING, UNEXPECTED_INTERRUPTION_CAN_BE_RERUN,
      TIMEOUT_INTERRUPTION_CAN_BE_RERUN, TIMEOUT_INTERRUPTION} \subseteq Statuses
BY DEF Statuses, NoRow, INITIATED, EXECUTING,
       UNEXPECTED_INTERRUPTION_CAN_BE_RERUN,
       TIMEOUT_INTERRUPTION_CAN_BE_RERUN, TIMEOUT_INTERRUPTION

\* The commands that the handlers put on the channels are commands.
LEMMA CommandsAreCommands ==
  ASSUME NEW kind \in Kinds
  PROVE  /\ \A cs, last \in SUBSET TCE : ForTCEs(kind, cs, last) \in Command
         /\ \A c \in TCE : ForTCE(kind, c) \in Command
         /\ \A i \in TIE : ForTIE(kind, i) \in Command
         /\ Scan(kind) \in Command
         /\ \A c \in TCE, r \in Results : WithReply(ForTCE(kind, c), r) \in Command
BY DEF ForTCEs, ForTCE, ForTIE, Scan, WithReply, Command, NoReply

\* Putting a command on a channel keeps the channels well-formed.
LEMMA PutType ==
  ASSUME NEW channels \in [Tracks -> Seq(Command)], NEW t \in Tracks,
         NEW cmd \in Command
  PROVE  Put(channels, t, cmd) \in [Tracks -> Seq(Command)]
BY DEF Put

\* So does taking one from it, and what is taken is a command.
LEMMA PoppedType ==
  ASSUME TypeOK, NEW t \in Tracks, chan[t] # <<>>
  PROVE  /\ Popped(t) \in [Tracks -> Seq(Command)]
         /\ Head(chan[t]) \in Command
BY DEF TypeOK, Popped

\* So does sending a command to the track of the lowest TCE.
LEMMA SendByLowestType ==
  ASSUME NEW channels \in [Tracks -> Seq(Command)], NEW cs \in SUBSET TCE,
         NEW cmd \in Command, SendByLowest(channels, cs, cmd)
  PROVE  chan' \in [Tracks -> Seq(Command)]
<1>1. PICK c \in cs : chan' = Put(channels, TrackOf[c], cmd)
  BY DEF SendByLowest
<1>2. TrackOf[c] \in Tracks
  BY ModelAssumption
<1> QED BY <1>1, <1>2, PutType

\* A command that a handler has taken over makes a well-typed handler.
LEMMA HandlerTypes ==
  /\ 0 \in Tracks
  /\ Idle \in Handler
  /\ \A cmd \in Command : Working(cmd) \in Handler
<1>1. 0 \in Tracks
  BY ModelAssumption
<1>2. Scan("Idle") \in [kind: Kinds \cup {"Idle"}, tces: SUBSET TCE,
                        last: SUBSET TCE, ties: SUBSET TIE,
                        reply: Results \cup {NoReply}]
  BY DEF Scan, ForTCEs, NoReply
<1>3. Idle \in Handler
  BY <1>1, <1>2 DEF Idle, Handler
<1>4. ASSUME NEW cmd \in Command PROVE Working(cmd) \in Handler
  BY <1>1, <1>4 DEF Working, Idle, Handler, Command
<1> QED BY <1>1, <1>3, <1>4

-----------------------------------------------------------------------------
(* Every step keeps the types *)

\* A step of a reader that only starts, changes or ends its work.
LEMMA StartType ==
  ASSUME TypeOK, NEW t \in Tracks, NEW h \in Handler, Start(t, h)
  PROVE  handler' \in [Tracks -> Handler]
BY DEF TypeOK, Start

\* A step of a reader that ends its work.
LEMMA StopType ==
  ASSUME TypeOK, NEW t \in Tracks, Stop(t)
  PROVE  handler' \in [Tracks -> Handler]
BY HandlerTypes, StartType DEF Stop

\* The answer to a waiting goroutine keeps the goroutines well-typed.
LEMMA AnsweredType ==
  ASSUME TypeOK, NEW cmd, cmd.reply \in Results \cup {NoReply},
         NEW phase \in Phases
  PROVE  Answered(cmd, phase) \in [Results -> [phase: Phases,
                                      status: Statuses \cup {NoRow}, more: BOOLEAN]]
BY DEF TypeOK, Answered

\* TypeOK without the channels and handlers.
RowsTyped ==
  /\ tcQueue \subseteq TCE
  /\ tcue \in [TCE -> [status: Statuses \cup {NoRow}, finished: BOOLEAN]]
  /\ tiQueue \subseteq TIE
  /\ tiue \in [TIE -> [status: Statuses \cup {NoRow},
                       end: {"null", "future", "past"}]]
  /\ result \in [Results -> [phase: Phases, status: Statuses \cup {NoRow},
                             more: BOOLEAN]]
  /\ pending \subseteq Informs
  /\ sent \in [TIE -> Nat]
  /\ responded \in [TIE -> Nat]
  /\ faults \in [nacks: Nat, lost: Nat, dbErrors: Nat, crashes: Nat,
                 unsendable: SUBSET TIE]

\* The types of the variables, one by one.
LEMMA TypeParts ==
  TypeOK <=> RowsTyped /\ chan \in [Tracks -> Seq(Command)]
                       /\ handler \in [Tracks -> Handler]
BY DEF TypeOK, RowsTyped

\* Every step of taking over TCEs keeps the types.
LEMMA ProcessTestCasesType ==
  ASSUME TypeOK, NEW t \in Tracks,
         LoadTestCases(t) \/ SaveTestCases(t) \/ TestCasesAlreadySaved(t)
  PROVE  TypeOK'
<1>1. CASE LoadTestCases(t)
  <2>1. chan' \in [Tracks -> Seq(Command)] /\ Head(chan[t]) \in Command
    BY <1>1, PoppedType DEF LoadTestCases, Ready
  <2>2. handler' \in [Tracks -> Handler]
    <3> DEFINE h == [Working(Head(chan[t])) EXCEPT
                       !.tces = TestCaseExecutionQueueRows(Head(chan[t]))]
    <3>1. h \in Handler
      BY <2>1, HandlerTypes DEF Handler, TypeOK, TestCaseExecutionQueueRows, Command
    <3>2. handler' = handler \/ Start(t, h)
      BY <1>1 DEF LoadTestCases
    <3> QED BY <3>1, <3>2, StartType DEF TypeOK
  <2>3. RowsTyped'
    BY <1>1, TypeParts DEF LoadTestCases, RowsTyped, database, environment
  <2> QED BY <2>1, <2>2, <2>3, TypeParts DEF TypeOK, RowsTyped
<1>2. CASE SaveTestCases(t)
  <2> DEFINE cmd == handler[t].cmd
  <2>0. /\ handler[t] \in Handler /\ cmd.tces \in SUBSET TCE
        /\ cmd.last \in SUBSET TCE
    BY DEF TypeOK, Handler
  <2>1. chan' \in [Tracks -> Seq(Command)]
    <3>1. CheckQueueFor(cmd) \in Command
      BY <2>0, CommandsAreCommands DEF CheckQueueFor, Kinds
    <3>2. SendByLowest(chan, cmd.tces, CheckQueueFor(cmd))
      BY <1>2 DEF SaveTestCases
    <3> QED BY <2>0, <3>1, <3>2, SendByLowestType DEF TypeOK
  <2>2. handler' \in [Tracks -> Handler]
    BY <1>2, StopType DEF SaveTestCases
  <2>3. RowsTyped'
    BY <1>2, <2>0, StatusNumbers DEF SaveTestCases, TypeOK, RowsTyped, environment,
       TestCasesOnOngoing, TestInstructionsToQueue, ChildrenOf,
       TestCasesClearedFromQueue
  <2> QED BY <2>1, <2>2, <2>3, TypeParts DEF TypeOK, RowsTyped
<1>3. CASE TestCasesAlreadySaved(t)
  BY <1>3, StopType DEF TestCasesAlreadySaved, TypeOK, database, environment
<1> QED BY <1>1, <1>2, <1>3

\* Every step of (A) keeps the types.
LEMMA CheckQueueType ==
  ASSUME TypeOK, NEW t \in Tracks,
         \/ LoadQueue(t) \/ NothingOnQueue(t)
         \/ MoveToOngoing(t) \/ AlreadyMoved(t)
  PROVE  TypeOK'
<1>1. CASE LoadQueue(t)
  <2>1. chan' \in [Tracks -> Seq(Command)] /\ Head(chan[t]) \in Command
    BY <1>1, PoppedType DEF LoadQueue, Ready
  <2>2. handler' \in [Tracks -> Handler]
    <3>1. PICK S \in FirstOfEachTestCase(OnQueue(Head(chan[t]))) :
            Start(t, [Working(Head(chan[t])) EXCEPT !.ties = S])
      BY <1>1 DEF LoadQueue
    <3>2. S \in SUBSET TIE
      BY DEF FirstOfEachTestCase, OnQueue, TypeOK
    <3>3. [Working(Head(chan[t])) EXCEPT !.ties = S] \in Handler
      BY <2>1, <3>2, HandlerTypes DEF Handler
    <3> QED BY <3>1, <3>3, StartType
  <2>3. RowsTyped'
    BY <1>1, TypeParts DEF LoadQueue, RowsTyped, database, environment
  <2> QED BY <2>1, <2>2, <2>3, TypeParts DEF TypeOK, RowsTyped
<1>2. CASE NothingOnQueue(t)
  <2> DEFINE cmd == Head(chan[t])
  <2>1. Popped(t) \in [Tracks -> Seq(Command)] /\ cmd \in Command
    BY <1>2, PoppedType DEF NothingOnQueue, Ready
  <2>2. UpdateStatusFor(cmd, cmd.tces) \in Command /\ cmd.tces \in SUBSET TCE
    BY <2>1, CommandsAreCommands DEF UpdateStatusFor, Kinds, Command
  <2>3. SendByLowest(Popped(t), cmd.tces, UpdateStatusFor(cmd, cmd.tces))
    BY <1>2 DEF NothingOnQueue
  <2>4. chan' \in [Tracks -> Seq(Command)]
    BY <2>1, <2>2, <2>3, SendByLowestType
  <2> QED BY <1>2, <2>4 DEF NothingOnQueue, TypeOK, database, environment
<1>3. CASE MoveToOngoing(t)
  <2> DEFINE cmd == handler[t].cmd
  <2>0. /\ handler[t] \in Handler /\ cmd.tces \in SUBSET TCE
        /\ cmd.last \in SUBSET TCE
    BY DEF TypeOK, Handler
  <2>1. chan' \in [Tracks -> Seq(Command)]
    <3>1. SendWaitingFor(cmd) \in Command
      BY <2>0, CommandsAreCommands DEF SendWaitingFor, Kinds
    <3>2. SendByLowest(chan, cmd.tces, SendWaitingFor(cmd))
      BY <1>3 DEF MoveToOngoing
    <3> QED BY <2>0, <3>1, <3>2, SendByLowestType DEF TypeOK
  <2>2. handler' \in [Tracks -> Handler]
    BY <1>3, StopType DEF MoveToOngoing
  <2>3. RowsTyped'
    BY <1>3, <2>0, StatusNumbers DEF MoveToOngoing, TypeOK, RowsTyped,
       environment, TestInstructionsUnderExecution, QueueCleared
  <2> QED BY <2>1, <2>2, <2>3, TypeParts DEF TypeOK, RowsTyped
<1>4. CASE AlreadyMoved(t)
  BY <1>4, StopType DEF AlreadyMoved, TypeOK, database, environment
<1> QED BY <1>1, <1>2, <1>3, <1>4

\* What the attempts to give a TIE to its Worker leave.
LEMMA AttemptsMean ==
  ASSUME TypeOK, NEW t \in Tracks, NEW i \in TIE,
         SentToWorker(t, i) \/ RefusedByWorker(t, i)
  PROVE  /\ sent' \in [TIE -> Nat]
         /\ \A j \in TIE : sent[j] =< sent'[j] /\ (j # i => sent'[j] = sent[j])
         /\ SentToWorker(t, i) => sent'[i] > 0
         /\ faults' \in [nacks: Nat, lost: Nat, dbErrors: Nat, crashes: Nat,
                         unsendable: SUBSET TIE]
         /\ faults'.unsendable = faults.unsendable /\ faults'.crashes = faults.crashes
         /\ MaxLostAnswers = 0 =>
              /\ SentToWorker(t, i) => sent' = [sent EXCEPT ![i] = @ + 1]
              /\ RefusedByWorker(t, i) => sent' = sent
<1>0. /\ sent \in [TIE -> Nat] /\ MaxLostAnswers \in Nat
      /\ faults \in [nacks: Nat, lost: Nat, dbErrors: Nat, crashes: Nat,
                     unsendable: SUBSET TIE]
  BY ModelAssumption DEF TypeOK
<1>1. ASSUME SentToWorker(t, i)
      PROVE  /\ \A j \in TIE : sent'[j] \in Nat /\ sent[j] =< sent'[j]
                               /\ (j # i => sent'[j] = sent[j])
             /\ sent' \in [TIE -> Nat] /\ sent'[i] > 0
             /\ faults' \in [nacks: Nat, lost: Nat, dbErrors: Nat, crashes: Nat,
                              unsendable: SUBSET TIE]
             /\ faults'.unsendable = faults.unsendable
             /\ faults'.crashes = faults.crashes
             /\ MaxLostAnswers = 0 => sent' = [sent EXCEPT ![i] = @ + 1]
  <2>1. PICK n \in 0 .. Unheard : /\ sent' = [sent EXCEPT ![i] = @ + n + 1]
                                  /\ faults' = [faults EXCEPT !.lost = @ + n]
    BY <1>1 DEF SentToWorker
  <2>2. n \in Nat /\ n =< MaxLostAnswers - faults.lost
    BY <1>0, <2>1 DEF Unheard
  <2>3. sent[i] \in Nat /\ sent[i] + n + 1 \in Nat /\ faults.lost + n \in Nat
    BY <1>0, <2>2
  <2>4. sent'[i] = sent[i] + n + 1 /\ \A j \in TIE : j # i => sent'[j] = sent[j]
    BY <1>0, <2>1
  <2>5. sent' \in [TIE -> Nat]
    BY <1>0, <2>1, <2>3
  <2>6. /\ faults' \in [nacks: Nat, lost: Nat, dbErrors: Nat, crashes: Nat,
                         unsendable: SUBSET TIE]
        /\ faults'.unsendable = faults.unsendable
        /\ faults'.crashes = faults.crashes
    BY <1>0, <2>1, <2>3
  <2>7. MaxLostAnswers = 0 => n = 0
    BY <1>0, <2>2
  <2>8. ASSUME n = 0 PROVE sent' = [sent EXCEPT ![i] = @ + 1]
    <3>1. sent[i] + n + 1 = sent[i] + 1
      BY <2>3, <2>8
    <3>2. sent' = [sent EXCEPT ![i] = sent[i] + n + 1]
      BY <2>1
    <3> QED BY <3>1, <3>2
  <2> QED BY <1>0, <2>2, <2>3, <2>4, <2>5, <2>6, <2>7, <2>8
<1>2. ASSUME RefusedByWorker(t, i)
      PROVE  /\ \A j \in TIE : sent'[j] \in Nat /\ sent[j] =< sent'[j]
                               /\ (j # i => sent'[j] = sent[j])
             /\ sent' \in [TIE -> Nat]
             /\ faults' \in [nacks: Nat, lost: Nat, dbErrors: Nat, crashes: Nat,
                              unsendable: SUBSET TIE]
             /\ faults'.unsendable = faults.unsendable
             /\ faults'.crashes = faults.crashes
             /\ MaxLostAnswers = 0 => sent' = sent
  <2>1. PICK n \in 0 .. Unheard :
          /\ sent' = [sent EXCEPT ![i] = @ + n]
          /\ faults' = [faults EXCEPT !.nacks = @ + 1, !.lost = @ + n]
    BY <1>2 DEF RefusedByWorker
  <2>2. n \in Nat /\ n =< MaxLostAnswers - faults.lost
    BY <1>0, <2>1 DEF Unheard
  <2>3. sent[i] \in Nat /\ sent[i] + n \in Nat /\ faults.lost + n \in Nat
        /\ faults.nacks + 1 \in Nat
    BY <1>0, <2>2
  <2>4. sent'[i] = sent[i] + n /\ \A j \in TIE : j # i => sent'[j] = sent[j]
    BY <1>0, <2>1
  <2>5. sent' \in [TIE -> Nat]
    BY <1>0, <2>1, <2>3
  <2>6. /\ faults' \in [nacks: Nat, lost: Nat, dbErrors: Nat, crashes: Nat,
                         unsendable: SUBSET TIE]
        /\ faults'.unsendable = faults.unsendable
        /\ faults'.crashes = faults.crashes
    BY <1>0, <2>1, <2>3
  <2>7. MaxLostAnswers = 0 => n = 0
    BY <1>0, <2>2
  <2>8. n = 0 => sent' = sent
    BY <1>0, <2>4, <2>5
  <2> QED BY <1>0, <2>2, <2>3, <2>4, <2>5, <2>6, <2>7, <2>8
<1> QED BY <1>1, <1>2

\* Every step of (B) keeps the types.
LEMMA SendingType ==
  ASSUME TypeOK, NEW t \in Tracks,
         \/ LoadWaiting(t) \/ NothingWaiting(t) \/ CommitSent(t)
         \/ \E i \in TIE : \/ SentToWorker(t, i) \/ RefusedByWorker(t, i)
                           \/ CannotBeSent(t, i)
  PROVE  TypeOK'
<1> DEFINE h == handler[t]
<1>0. /\ h \in Handler /\ h.cmd.tces \in SUBSET TCE /\ h.cmd.last \in SUBSET TCE
      /\ Batch(h) \in SUBSET TIE
  BY DEF TypeOK, Handler, Batch
<1>1. CASE LoadWaiting(t)
  <2>1. chan' \in [Tracks -> Seq(Command)] /\ Head(chan[t]) \in Command
    BY <1>1, PoppedType DEF LoadWaiting, Ready
  <2>2. [Working(Head(chan[t])) EXCEPT !.ties = WaitingToBeSent(Head(chan[t]))]
          \in Handler
    BY <2>1, HandlerTypes DEF Handler, WaitingToBeSent
  <2>3. handler' \in [Tracks -> Handler]
    BY <1>1, <2>2, StartType DEF LoadWaiting
  <2> QED BY <1>1, <2>1, <2>3 DEF LoadWaiting, TypeOK, database, environment
<1>2. CASE NothingWaiting(t)
  <2> DEFINE cmd == Head(chan[t])
  <2>1. Popped(t) \in [Tracks -> Seq(Command)] /\ cmd \in Command
    BY <1>2, PoppedType DEF NothingWaiting, Ready
  <2>2. CheckQueueFor(cmd) \in Command /\ cmd.tces \in SUBSET TCE
    BY <2>1, CommandsAreCommands DEF CheckQueueFor, Kinds, Command
  <2>3. SendByLowest(Popped(t), cmd.tces, CheckQueueFor(cmd))
    BY <1>2 DEF NothingWaiting
  <2>4. chan' \in [Tracks -> Seq(Command)]
    BY <2>1, <2>2, <2>3, SendByLowestType
  <2> QED BY <1>2, <2>4 DEF NothingWaiting, TypeOK, database, environment
<1>3. CASE CommitSent(t)
  <2>1. PICK last \in Batch(h) : tiue' = StatusOfLastSent(h, last)
    BY <1>3 DEF CommitSent
  <2>2. ParentsOf(Batch(h)) \in SUBSET TCE
    BY ZenonT(30), <1>0, ModelAssumption DEF ParentsOf
  <2>3. UpdateStatusFor(h.cmd, ParentsOf(Batch(h))) \in Command
    BY <1>0, <2>2, CommandsAreCommands DEF UpdateStatusFor, Kinds
  <2>4. chan' \in [Tracks -> Seq(Command)]
    BY <1>0, <1>3, <2>3, SendByLowestType DEF CommitSent, TypeOK
  <2>5. handler' \in [Tracks -> Handler]
    BY <1>3, StopType DEF CommitSent
  <2>6. tiue' \in [TIE -> [status: Statuses \cup {NoRow},
                          end: {"null", "future", "past"}]]
    BY <1>0, <2>1, StatusNumbers DEF StatusOfLastSent, TypeOK
  <2>7. tcue' \in [TCE -> [status: Statuses \cup {NoRow}, finished: BOOLEAN]]
    <3>1. \A c \in TCE : tcue[c] \in [status: Statuses \cup {NoRow},
                                      finished: BOOLEAN]
      BY DEF TypeOK
    <3>2. ASSUME NEW c \in TCE, NEW s \in Statuses
          PROVE  [tcue[c] EXCEPT !.status = s]
                   \in [status: Statuses \cup {NoRow}, finished: BOOLEAN]
      BY <3>1
    <3> DEFINE AckedLast(c) ==
                 \E i \in h.acked : IsHighest(i, Batch(h) \cap ChildrenOf({c}))
               Nacked(c) == \E i \in h.nacked : Parent[i] = c
    <3>3. tcue' = [c \in TCE |->
                     IF AckedLast(c) THEN [tcue[c] EXCEPT !.status = EXECUTING]
                     ELSE IF Nacked(c)
                          THEN [tcue[c] EXCEPT
                                  !.status = UNEXPECTED_INTERRUPTION_CAN_BE_RERUN]
                          ELSE tcue[c]]
      BY <1>3 DEF CommitSent, TestCaseStatusOfSent
    <3> HIDE DEF AckedLast, Nacked
    <3> QED BY <3>1, <3>2, <3>3, StatusNumbers
  <2> QED BY <1>3, <2>4, <2>5, <2>6, <2>7 DEF CommitSent, TypeOK, environment
<1>4. ASSUME NEW i \in TIE, SentToWorker(t, i) PROVE TypeOK'
  <2>1. [h EXCEPT !.ties = @ \ {i}, !.acked = @ \cup {i}] \in Handler
    BY <1>0 DEF Handler
  <2>2. handler' \in [Tracks -> Handler]
    BY <1>4, <2>1, StartType DEF SentToWorker
  <2>3. UNCHANGED <<tcQueue, tcue, tiQueue, tiue, chan, result, pending, responded>>
    BY <1>4 DEF SentToWorker, database
  <2> QED BY <1>4, <2>2, <2>3, AttemptsMean DEF TypeOK
<1>5. ASSUME NEW i \in TIE, RefusedByWorker(t, i) PROVE TypeOK'
  <2>1. [h EXCEPT !.ties = @ \ {i}, !.nacked = @ \cup {i}] \in Handler
    BY <1>0 DEF Handler
  <2>2. handler' \in [Tracks -> Handler]
    BY <1>5, <2>1, StartType DEF RefusedByWorker
  <2>3. UNCHANGED <<tcQueue, tcue, tiQueue, tiue, chan, result, pending, responded>>
    BY <1>5 DEF RefusedByWorker, database
  <2> QED BY <1>5, <2>2, <2>3, AttemptsMean DEF TypeOK
<1>6. ASSUME NEW i \in TIE, CannotBeSent(t, i) PROVE TypeOK'
  <2>1. PICK first \in Batch(h) :
          /\ faults' = [faults EXCEPT !.unsendable = @ \cup {first}]
          /\ SendByLowest(chan, h.cmd.tces, ForTIE("ProblemWhenSending", first))
    BY <1>6 DEF CannotBeSent
  <2>2. ForTIE("ProblemWhenSending", first) \in Command
    BY <1>0, CommandsAreCommands DEF Kinds
  <2>3. chan' \in [Tracks -> Seq(Command)]
    BY <1>0, <2>1, <2>2, SendByLowestType DEF TypeOK
  <2>4. handler' \in [Tracks -> Handler]
    BY <1>6, StopType DEF CannotBeSent
  <2>5. faults' \in [nacks: Nat, lost: Nat, dbErrors: Nat, crashes: Nat,
                    unsendable: SUBSET TIE]
    BY <1>0, <2>1 DEF TypeOK
  <2> QED BY <1>6, <2>3, <2>4, <2>5 DEF CannotBeSent, TypeOK, database
<1> QED BY <1>1, <1>2, <1>3, <1>4, <1>5, <1>6

\* The messages of (C) are for TCEs that have rows, and carry a status of a row.
LEMMA MessagesAreForRows ==
  ASSUME TypeOK, NEW cs \in SUBSET TCE, NEW m \in StatusMessages(cs)
  PROVE  /\ m \in Message
         /\ RowsOf(m.tce) # {}
<1> DEFINE listed == {c \in cs : RowsOf(c) # {}}
           StatusesFor(c) ==
             {tiue[i].status : i \in UNION {RowsOf(d) : d \in CountedTo(c, listed)}}
           MessagesOf(c) == {[tce |-> c, status |-> s] : s \in Dominant(StatusesFor(c))}
           Opened == {d \in listed : ~ CountedToEarlier(d, listed)}
<1>1. m \in UNION {MessagesOf(c) : c \in Opened}
  BY Zenon DEF StatusMessages
<1>2. PICK c \in listed : m \in MessagesOf(c)
  BY <1>1
<1>3. PICK s \in Dominant(StatusesFor(c)) : m = [tce |-> c, status |-> s]
  BY <1>2
<1>4. s \in StatusesFor(c)
  BY <1>3 DEF Dominant
<1>5. s \in Statuses
  <2>1. PICK i \in UNION {RowsOf(d) : d \in CountedTo(c, listed)} : s = tiue[i].status
    BY <1>4
  <2>2. i \in TIE /\ tiue[i].status # NoRow
    BY <2>1 DEF RowsOf, HasRow
  <2> QED BY <2>1, <2>2 DEF TypeOK
<1> QED BY <1>2, <1>3, <1>5 DEF Message

\* The message that is looked up for a TCE is one of the messages.
LEMMA MessageForIsOne ==
  ASSUME NEW c, NEW messages, \E m \in messages : m.tce = c
  PROVE  MessageFor(c, messages) \in messages /\ MessageFor(c, messages).tce = c
BY Zenon DEF MessageFor

\* A TCE gets a status, never the mark of an absent row.
LEMMA TestCasesUpdatedType ==
  ASSUME TypeOK, NEW messages \in SUBSET Message
  PROVE  /\ TestCasesUpdated(messages)
              \in [TCE -> [status: Statuses \cup {NoRow}, finished: BOOLEAN]]
         /\ \A c \in TCE : TestCasesUpdated(messages)[c].status = NoRow
                            => tcue[c].status = NoRow
<1> DEFINE Due(c) == StatusWithQueue(c, MessageFor(c, messages).status)
<1>1. ASSUME NEW c \in TCE, \E m \in messages : m.tce = c
      PROVE  Due(c) \in Statuses
  BY <1>1, MessageForIsOne, StatusNumbers DEF Message, StatusWithQueue
<1>2. \A c \in TCE : tcue[c] \in [status: Statuses \cup {NoRow}, finished: BOOLEAN]
  BY DEF TypeOK
<1>3. \A c \in TCE : HasFinished(Due(c)) \in BOOLEAN
  BY DEF HasFinished, IsOngoing
<1>4. TestCasesUpdated(messages) =
        [c \in TCE |-> IF \E m \in messages : m.tce = c
                       THEN [status |-> Due(c), finished |-> HasFinished(Due(c))]
                       ELSE tcue[c]]
  BY DEF TestCasesUpdated
<1> HIDE DEF Due
<1> QED BY <1>1, <1>2, <1>3, <1>4, StatusNumbers

\* Every step of (C) keeps the types.
LEMMA UpdateStatusType ==
  ASSUME TypeOK, NEW t \in Tracks, LoadStatuses(t) \/ UpdateTestCases(t)
  PROVE  TypeOK'
<1>1. CASE LoadStatuses(t)
  <2>1. chan' \in [Tracks -> Seq(Command)] /\ Head(chan[t]) \in Command
    BY <1>1, PoppedType DEF LoadStatuses, Ready
  <2>2. StatusMessages(Head(chan[t]).tces) \in SUBSET Message
    BY <2>1, MessagesAreForRows DEF Command
  <2>3. [Working(Head(chan[t])) EXCEPT
           !.messages = StatusMessages(Head(chan[t]).tces)] \in Handler
    BY <2>1, <2>2, HandlerTypes DEF Handler
  <2>4. handler' \in [Tracks -> Handler]
    BY <1>1, <2>3, StartType DEF LoadStatuses
  <2> QED BY <1>1, <2>1, <2>4 DEF LoadStatuses, TypeOK, database, environment
<1>2. CASE UpdateTestCases(t)
  <2>1. handler[t] \in Handler
    BY DEF TypeOK
  <2>2. tcue' \in [TCE -> [status: Statuses \cup {NoRow}, finished: BOOLEAN]]
    BY <1>2, <2>1, TestCasesUpdatedType DEF UpdateTestCases, Handler
  <2>3. result' \in [Results -> [phase: Phases, status: Statuses \cup {NoRow},
                                more: BOOLEAN]]
    BY <1>2, <2>1, AnsweredType DEF UpdateTestCases, Handler, Phases
  <2>4. handler' \in [Tracks -> Handler]
    BY <1>2, StopType DEF UpdateTestCases
  <2>5. UNCHANGED <<tcQueue, tiQueue, tiue, chan, pending, sent, responded, faults>>
    BY <1>2 DEF UpdateTestCases, environment
  <2> QED BY <2>2, <2>3, <2>4, <2>5 DEF TypeOK
<1> QED BY <1>1, <1>2

\* A goroutine's record with another phase is a goroutine's record.
LEMMA PhaseType ==
  ASSUME TypeOK, NEW r \in Results, NEW phase \in Phases
  PROVE  AsPhase(r, phase) \in [Results -> [phase: Phases,
                                   status: Statuses \cup {NoRow}, more: BOOLEAN]]
BY DEF TypeOK, AsPhase

\* Every step about a Worker's report keeps the types.
LEMMA ReportType ==
  ASSUME TypeOK,
         \/ \E i \in TIE, k \in 1 .. MaxReports : WorkerReports(i, k)
         \/ \E r \in Results : Reporter(r)
         \/ \E i \in TIE : Response(i)
         \/ \E t \in Tracks : ReportProblem(t)
  PROVE  TypeOK'
<1> DEFINE ResultType == [Results -> [phase: Phases,
                                      status: Statuses \cup {NoRow}, more: BOOLEAN]]
<1>0. result \in ResultType
  BY DEF TypeOK
<1>1. ASSUME NEW i \in TIE, NEW k \in 1 .. MaxReports, WorkerReports(i, k)
      PROVE  TypeOK'
  <2>1. PICK s \in ReportStatuses :
          result' = [result EXCEPT ![<<i, k>>] =
                       [phase |-> IF IsFinal(s) THEN "received" ELSE "done",
                        status |-> s, more |-> FALSE]]
    BY <1>1 DEF WorkerReports
  <2>2. result' \in ResultType
    BY <1>0, <2>1, ModelAssumption DEF Phases
  <2>3. UNCHANGED <<tcQueue, tcue, tiQueue, tiue, chan, handler, pending, sent,
                    responded, faults>>
    BY <1>1 DEF WorkerReports, database, environment
  <2> QED BY <2>2, <2>3 DEF TypeOK
<1>2. ASSUME NEW r \in Results, OpenResult(r) PROVE TypeOK'
  <2>1. ContinueAfter(r[1], result[r].status) \in BOOLEAN
    BY DEF ContinueAfter
  <2>2. result' = [result EXCEPT ![r].phase = "open",
                     ![r].more = ContinueAfter(r[1], result[r].status)]
    BY <1>2 DEF OpenResult
  <2>3. result' \in ResultType
    <3>1. \A more \in BOOLEAN :
            [result EXCEPT ![r].phase = "open", ![r].more = more] \in ResultType
      BY <1>0 DEF Phases
    <3> QED BY <2>1, <2>2, <3>1
  <2>4. UNCHANGED <<tcQueue, tcue, tiQueue, tiue, chan, handler, pending, sent,
                    responded, faults>>
    BY <1>2 DEF OpenResult, database, environment
  <2> QED BY <2>3, <2>4 DEF TypeOK
<1>3. ASSUME NEW r \in Results, CommitResult(r) PROVE TypeOK'
  <2>0. r[1] \in TIE /\ TrackOf[r[1]] \in Tracks /\ Parent[r[1]] \in TCE
    BY ModelAssumption DEF Results
  <2>1. result' \in ResultType
    BY <1>3, PhaseType DEF CommitResult, Phases
  <2>2. chan' \in [Tracks -> Seq(Command)]
    BY <1>3, <2>0, CommandsAreCommands, PutType DEF CommitResult, Kinds, TypeOK
  <2>3. tiue' \in [TIE -> [status: Statuses \cup {NoRow},
                          end: {"null", "future", "past"}]]
    <3>1. tiue' = [tiue EXCEPT ![r[1]].status = result[r].status]
      BY <1>3 DEF CommitResult, StatusOfReport
    <3>2. result[r].status \in Statuses \cup {NoRow}
      BY <1>0
    <3>3. tiue \in [TIE -> [status: Statuses \cup {NoRow},
                            end: {"null", "future", "past"}]]
      BY DEF TypeOK
    <3> QED BY <2>0, <3>1, <3>2, <3>3
  <2>4. UNCHANGED <<tcQueue, tcue, tiQueue, handler, pending, sent, responded,
                    faults>>
    BY <1>3 DEF CommitResult, environment
  <2> QED BY <2>1, <2>2, <2>3, <2>4 DEF TypeOK
<1>4. ASSUME NEW r \in Results, TriggerNext(r) PROVE TypeOK'
  <2>0. TrackOf[r[1]] \in Tracks /\ Parent[r[1]] \in TCE
    BY ModelAssumption DEF Results
  <2>1. result' \in ResultType
    BY <1>4, PhaseType DEF TriggerNext, Phases
  <2>2. chan' \in [Tracks -> Seq(Command)]
    <3>1. ForTCE("CheckWaitingToBeSent", Parent[r[1]]) \in Command
      BY <2>0, CommandsAreCommands DEF Kinds
    <3>2. chan \in [Tracks -> Seq(Command)]
      BY DEF TypeOK
    <3>3. \/ chan' = Put(chan, TrackOf[r[1]],
                         ForTCE("CheckWaitingToBeSent", Parent[r[1]]))
          \/ chan' = chan
      BY <1>4 DEF TriggerNext
    <3> QED BY <2>0, <3>1, <3>2, <3>3, PutType
  <2>3. UNCHANGED <<tcQueue, tcue, tiQueue, tiue, handler, pending, sent,
                    responded, faults>>
    BY <1>4 DEF TriggerNext, database, environment
  <2> QED BY <2>1, <2>2, <2>3 DEF TypeOK
<1>5. ASSUME NEW i \in TIE, Response(i) PROVE TypeOK'
  <2>0. TrackOf[i] \in Tracks /\ Parent[i] \in TCE
    BY ModelAssumption
  <2>1. chan' \in [Tracks -> Seq(Command)]
    BY <1>5, <2>0, CommandsAreCommands, PutType DEF Response, Kinds, TypeOK
  <2>2. tiue' \in [TIE -> [status: Statuses \cup {NoRow},
                          end: {"null", "future", "past"}]]
    <3>1. tiue' = StatusOfResponse(i)
      BY <1>5 DEF Response
    <3> QED BY <3>1, StatusNumbers DEF TypeOK, StatusOfResponse
  <2>3. tcue' \in [TCE -> [status: Statuses \cup {NoRow}, finished: BOOLEAN]]
    <3>1. tcue' = [tcue EXCEPT ![Parent[i]].status = EXECUTING]
      BY <1>5 DEF Response
    <3>2. EXECUTING \in Statuses \cup {NoRow}
      BY StatusNumbers
    <3>3. tcue \in [TCE -> [status: Statuses \cup {NoRow}, finished: BOOLEAN]]
      BY DEF TypeOK
    <3> QED BY <2>0, <3>1, <3>2, <3>3
  <2>4. responded' \in [TIE -> Nat]
    <3>1. responded' = [responded EXCEPT ![i] = @ + 1]
      BY <1>5 DEF Response
    <3> QED BY <3>1 DEF TypeOK
  <2>5. UNCHANGED <<tcQueue, tiQueue, handler, result, pending, sent, faults>>
    BY <1>5 DEF Response
  <2> QED BY <2>1, <2>2, <2>3, <2>4, <2>5 DEF TypeOK
<1>6. ASSUME NEW t \in Tracks, ReportProblem(t) PROVE TypeOK'
  <2>1. chan' \in [Tracks -> Seq(Command)]
    BY <1>6, PoppedType DEF ReportProblem, Ready
  <2>2. result' \in ResultType
    BY <1>0, <1>6, StatusNumbers DEF ReportProblem, Phases
  <2>3. UNCHANGED <<tcQueue, tcue, tiQueue, tiue, handler, pending, sent,
                    responded, faults>>
    BY <1>6 DEF ReportProblem, database, environment
  <2> QED BY <2>1, <2>2, <2>3 DEF TypeOK
<1> QED BY <1>1, <1>2, <1>3, <1>4, <1>5, <1>6 DEF Reporter

\* Every step of a timeout or of a start-up scan keeps the types.
LEMMA ScanType ==
  ASSUME TypeOK, NEW t \in Tracks,
         \/ TimedOut(t) \/ LoadZombies(t)
         \/ SendAllZombiesUnderExecution(t) \/ SendZombieTestCasesOnQueue(t)
         \/ SendAllZombiesOnQueue(t) \/ SendZombiesTimedOut(t) \/ EndScan(t)
  PROVE  TypeOK'
<1>0. handler[t] \in Handler
  BY DEF TypeOK
<1>1. CASE TimedOut(t)
  <2>1. PICK i \in Head(chan[t]).ties :
          /\ tiue' = StatusOfTimedOut(i)
          /\ chan' = Put(Popped(t), TrackOf[Parent[i]],
                         ForTCE("UpdateTestCaseStatus", Parent[i]))
    BY <1>1 DEF TimedOut
  <2>2. Popped(t) \in [Tracks -> Seq(Command)] /\ Head(chan[t]) \in Command
    BY <1>1, PoppedType DEF TimedOut, Ready
  <2>3. i \in TIE /\ Parent[i] \in TCE /\ TrackOf[Parent[i]] \in Tracks
    BY <2>2, ModelAssumption DEF Command
  <2>4. chan' \in [Tracks -> Seq(Command)]
    BY <2>1, <2>2, <2>3, CommandsAreCommands, PutType DEF Kinds
  <2>5. tiue' \in [TIE -> [status: Statuses \cup {NoRow},
                          end: {"null", "future", "past"}]]
    <3>1. tiue' = [tiue EXCEPT ![i].status =
                     IF i \in ReExecutable THEN TIMEOUT_INTERRUPTION_CAN_BE_RERUN
                                           ELSE TIMEOUT_INTERRUPTION]
      BY <2>1 DEF StatusOfTimedOut
    <3>2. \A s \in Statuses : [tiue EXCEPT ![i].status = s]
            \in [TIE -> [status: Statuses \cup {NoRow},
                        end: {"null", "future", "past"}]]
      BY ZenonT(30), <2>3 DEF TypeOK
    <3> QED BY <3>1, <3>2, StatusNumbers
  <2>6. UNCHANGED <<tcQueue, tcue, tiQueue, handler, result, pending, sent,
                    responded, faults>>
    BY <1>1 DEF TimedOut, environment
  <2> QED BY <2>4, <2>5, <2>6 DEF TypeOK
<1>2. ASSUME NEW kind \in Kinds, NEW cs \in SUBSET TCE, NEW is \in SUBSET TIE,
             LoadScan(t, kind, cs, is)
      PROVE  TypeOK'
  <2>1. chan' \in [Tracks -> Seq(Command)] /\ Head(chan[t]) \in Command
    BY <1>2, PoppedType DEF LoadScan, Ready
  <2>2. PICK track \in Tracks :
          Start(t, [Working(Head(chan[t])) EXCEPT
                      !.tces = cs, !.ties = is, !.track = track])
    BY <1>2 DEF LoadScan
  <2>3. [Working(Head(chan[t])) EXCEPT !.tces = cs, !.ties = is, !.track = track]
          \in Handler
    BY <2>1, HandlerTypes DEF Handler
  <2>4. handler' \in [Tracks -> Handler]
    BY <2>2, <2>3, StartType
  <2>5. UNCHANGED <<tcQueue, tcue, tiQueue, tiue, result, pending, sent,
                    responded, faults>>
    BY <1>2 DEF LoadScan, database, environment
  <2> QED BY <2>1, <2>4, <2>5 DEF TypeOK
<1>3. CASE LoadZombies(t)
  <2>1. ZombiesUnderExecution \in SUBSET TIE
    BY ModelAssumption DEF ZombiesUnderExecution
  <2>2. tcQueue \in SUBSET TCE
    BY DEF TypeOK
  <2>3. ZombiesOnQueue \in SUBSET TIE
    BY DEF ZombiesOnQueue, TypeOK
  <2>4. ZombiesTimedOut \in SUBSET TIE
    BY DEF ZombiesTimedOut
  <2> QED BY <1>2, <1>3, <2>1, <2>2, <2>3, <2>4 DEF LoadZombies, Kinds
<1>4. CASE SendZombieTestCasesOnQueue(t)
  <2>1. PICK c \in handler[t].tces :
          /\ chan' = Put(chan, handler[t].track, ForTCE("ProcessTestCases", c))
          /\ Start(t, [handler[t] EXCEPT !.tces = @ \ {c}])
    BY <1>4 DEF SendZombieTestCasesOnQueue
  <2>2. c \in TCE /\ handler[t].track \in Tracks
    BY <1>0, <2>1 DEF Handler
  <2>3. chan' \in [Tracks -> Seq(Command)]
    BY <2>1, <2>2, CommandsAreCommands, PutType DEF Kinds, TypeOK
  <2>4. [handler[t] EXCEPT !.tces = @ \ {c}] \in Handler
    BY <1>0 DEF Handler
  <2>5. handler' \in [Tracks -> Handler]
    BY <2>1, <2>4, StartType
  <2>6. UNCHANGED <<tcQueue, tcue, tiQueue, tiue, result, pending, sent,
                    responded, faults>>
    BY <1>4 DEF SendZombieTestCasesOnQueue, database, environment
  <2> QED BY <2>3, <2>5, <2>6 DEF TypeOK
<1>5. ASSUME NEW i \in handler[t].ties, NEW track \in Tracks, NEW cmd \in Command,
             chan' = Put(chan, track, cmd),
             Start(t, [handler[t] EXCEPT !.ties = @ \ {i}]),
             UNCHANGED <<database, result, environment>>
      PROVE  TypeOK'
  <2>1. chan' \in [Tracks -> Seq(Command)]
    BY <1>5, PutType DEF TypeOK
  <2>2. [handler[t] EXCEPT !.ties = @ \ {i}] \in Handler
    BY <1>0 DEF Handler
  <2>3. handler' \in [Tracks -> Handler]
    BY <1>5, <2>2, StartType
  <2>4. UNCHANGED <<tcQueue, tcue, tiQueue, tiue, result, pending, sent,
                    responded, faults>>
    BY <1>5 DEF database, environment
  <2> QED BY <2>1, <2>3, <2>4 DEF TypeOK
<1>6. ASSUME NEW kind, NEW cmdKind \in Kinds, SendForRow(t, kind, cmdKind)
      PROVE  TypeOK'
  <2>1. PICK i \in handler[t].ties :
          /\ chan' = Put(chan, handler[t].track, ForTCE(cmdKind, Parent[i]))
          /\ Start(t, [handler[t] EXCEPT !.ties = @ \ {i}])
    BY <1>6 DEF SendForRow
  <2>2. Parent[i] \in TCE /\ handler[t].track \in Tracks
    BY <1>0, ModelAssumption DEF Handler
  <2>3. ForTCE(cmdKind, Parent[i]) \in Command
    BY <2>2, CommandsAreCommands
  <2> QED BY <1>5, <1>6, <2>1, <2>2, <2>3 DEF SendForRow
<1>7. CASE SendZombiesTimedOut(t)
  <2>1. PICK i \in handler[t].ties :
          /\ chan' = Put(chan, TrackOf[i], ForTIE("TimedOut", i))
          /\ Start(t, [handler[t] EXCEPT !.ties = @ \ {i}])
    BY <1>7 DEF SendZombiesTimedOut
  <2>2. i \in TIE /\ TrackOf[i] \in Tracks
    BY <1>0, ModelAssumption DEF Handler
  <2>3. ForTIE("TimedOut", i) \in Command
    BY <2>2, CommandsAreCommands DEF Kinds
  <2> QED BY <1>5, <1>7, <2>1, <2>2, <2>3 DEF SendZombiesTimedOut
<1>8. CASE EndScan(t)
  <2>1. NextScan(chan, t, handler[t].cmd.kind) \in [Tracks -> Seq(Command)]
    BY CommandsAreCommands, PutType DEF NextScan, Kinds, TypeOK
  <2>2. handler' \in [Tracks -> Handler]
    BY <1>8, StopType DEF EndScan
  <2> QED BY <1>8, <2>1, <2>2 DEF EndScan, TypeOK, database, environment
<1> QED BY <1>1, <1>3, <1>4, <1>6, <1>7, <1>8
        DEF SendAllZombiesUnderExecution, SendAllZombiesOnQueue, Kinds

\* A fault, the passing of time and a client's message keep the types.
LEMMA EnvironmentType ==
  ASSUME TypeOK,
         \/ \E cs \in Informs : Inform(cs)
         \/ \E i \in TIE : TimePasses(i)
         \/ Fault
  PROVE  TypeOK'
<1> DEFINE ResultType == [Results -> [phase: Phases,
                                      status: Statuses \cup {NoRow}, more: BOOLEAN]]
           FaultType == [nacks: Nat, lost: Nat, dbErrors: Nat, crashes: Nat,
                         unsendable: SUBSET TIE]
<1>0. result \in ResultType /\ faults \in FaultType
  BY DEF TypeOK
<1>1. ASSUME NEW cs \in Informs, Inform(cs) PROVE TypeOK'
  <2> DEFINE listed == {cs[k] : k \in DOMAIN cs}
             cmd == ForTCEs("ProcessTestCases", listed, {cs[Len(cs)]})
  <2>1. cs \in Seq(TCE) /\ cs # <<>>
    BY ModelAssumption
  <2>2. listed \in SUBSET TCE /\ {cs[Len(cs)]} \in SUBSET TCE
    BY <2>1
  <2>3. cmd \in Command
    BY <2>2, CommandsAreCommands DEF Kinds
  <2>4. chan' \in [Tracks -> Seq(Command)]
    BY <1>1, <2>2, <2>3, SendByLowestType DEF Inform, TypeOK
  <2>5. tcQueue' \subseteq TCE /\ pending' \subseteq Informs
    BY <1>1, <2>2 DEF Inform, TypeOK
  <2>6. UNCHANGED <<tcue, tiQueue, tiue, handler, result, sent, responded, faults>>
    BY <1>1 DEF Inform
  <2> QED BY <2>4, <2>5, <2>6 DEF TypeOK
<1>2. ASSUME NEW i \in TIE, TimePasses(i) PROVE TypeOK'
  <2>1. tiue' \in [TIE -> [status: Statuses \cup {NoRow},
                          end: {"null", "future", "past"}]]
    BY ZenonT(30), <1>2 DEF TimePasses, TypeOK
  <2> QED BY <1>2, <2>1 DEF TimePasses, TypeOK, environment
<1>3. ASSUME DbError PROVE faults' \in FaultType
  <2>1. faults' = [faults EXCEPT !.dbErrors = @ + 1]
    BY <1>3 DEF DbError
  <2> QED BY <1>0, <2>1
<1>4. ASSUME NEW t \in Tracks, FailedLoad(t) PROVE TypeOK'
  <2>1. Popped(t) \in [Tracks -> Seq(Command)] /\ Head(chan[t]) \in Command
    BY <1>4, PoppedType DEF FailedLoad
  <2>2. chan' \in [Tracks -> Seq(Command)]
    BY <1>4, <2>1, CommandsAreCommands, PutType DEF FailedLoad, NextScan, Kinds
  <2>3. result' \in ResultType
    BY <1>4, <2>1, AnsweredType DEF FailedLoad, Command, Phases
  <2>4. faults' \in FaultType
    BY <1>3, <1>4 DEF FailedLoad
  <2>5. UNCHANGED <<tcQueue, tcue, tiQueue, tiue, handler, pending, sent, responded>>
    BY <1>4 DEF FailedLoad, database
  <2> QED BY <2>2, <2>3, <2>4, <2>5 DEF TypeOK
<1>5. ASSUME NEW t \in Tracks, RolledBack(t) PROVE TypeOK'
  <2>1. handler[t] \in Handler
    BY DEF TypeOK
  <2>2. result' \in ResultType
    BY <1>5, <2>1, AnsweredType DEF RolledBack, Handler, Phases
  <2>3. faults' \in FaultType
    BY <1>3, <1>5 DEF RolledBack
  <2>4. handler' \in [Tracks -> Handler]
    BY <1>5, StopType DEF RolledBack
  <2>5. UNCHANGED <<tcQueue, tcue, tiQueue, tiue, chan, pending, sent, responded>>
    BY <1>5 DEF RolledBack, database
  <2> QED BY <2>2, <2>3, <2>4, <2>5 DEF TypeOK
<1>6. ASSUME NEW r \in Results, ResultRolledBack(r) PROVE TypeOK'
  <2>1. result' \in ResultType
    BY <1>6, PhaseType DEF ResultRolledBack, Phases
  <2>2. faults' \in FaultType
    BY <1>3, <1>6 DEF ResultRolledBack
  <2>3. UNCHANGED <<tcQueue, tcue, tiQueue, tiue, chan, handler, pending, sent,
                    responded>>
    BY <1>6 DEF ResultRolledBack, database
  <2> QED BY <2>1, <2>2, <2>3 DEF TypeOK
<1>7. CASE CrashAndRestart
  <2>1. faults' \in FaultType
    <3>1. faults' = [faults EXCEPT !.crashes = @ + 1]
      BY <1>7 DEF CrashAndRestart
    <3> QED BY <1>0, <3>1
  <2>2. chan' \in [Tracks -> Seq(Command)]
    <3>1. /\ Scan("ZombiesUnderExecution") \in Command
          /\ Scan("ZombiesTimedOut") \in Command
      BY CommandsAreCommands DEF Kinds
    <3> QED BY <1>7, <3>1 DEF CrashAndRestart
  <2>3. handler' \in [Tracks -> Handler]
    BY <1>7, HandlerTypes DEF CrashAndRestart
  <2>4. result' \in ResultType
    <3>1. \A r \in Results : [result[r] EXCEPT !.phase = "done"]
            \in [phase: Phases, status: Statuses \cup {NoRow}, more: BOOLEAN]
      BY <1>0 DEF Phases
    <3> QED BY <1>0, <1>7, <3>1 DEF CrashAndRestart
  <2>5. UNCHANGED <<tcQueue, tcue, tiQueue, tiue, pending, sent, responded>>
    BY <1>7 DEF CrashAndRestart, database
  <2> QED BY <2>1, <2>2, <2>3, <2>4, <2>5 DEF TypeOK
<1> QED BY <1>1, <1>2, <1>4, <1>5, <1>6, <1>7 DEF Fault

\* Initially every variable holds a value of its type.
LEMMA TypeAtFirst == Init => TypeOK
<1> SUFFICES ASSUME Init PROVE TypeOK
  OBVIOUS
<1>1. handler \in [Tracks -> Handler]
  BY HandlerTypes DEF Init
<1> QED BY <1>1, StatusNumbers DEF Init, TypeOK, Phases

\* Every step leaves every variable with a value of its type.
LEMMA TypeStep ==
  ASSUME TypeOK, Next
  PROVE  TypeOK'
<1>1. ASSUME NEW t \in Tracks, Reader(t) PROVE TypeOK'
  BY <1>1, ProcessTestCasesType, CheckQueueType, SendingType, UpdateStatusType,
     ReportType, ScanType DEF Reader, OtherCommand
<1>2. CASE Worker
  BY <1>2, ReportType DEF Worker
<1> QED BY <1>1, <1>2, ReportType, EnvironmentType DEF Next, Surroundings

\* Type correctness: every variable keeps a value of its type, for every number
\* of TCEs, TIEs and tracks and whatever fails.
THEOREM TypeCorrect == SafeSpec => []TypeOK
<1>1. TypeOK /\ UNCHANGED vars => TypeOK'
  BY DEF vars, database, environment, TypeOK
<1> QED BY <1>1, TypeAtFirst, TypeStep, PTL DEF SafeSpec

-----------------------------------------------------------------------------
(* The commands on the channels *)

\* Putting a command on a channel adds that command to those on the channels.
LEMMA PutCommands ==
  ASSUME NEW channels \in [Tracks -> Seq(Command)], NEW t \in Tracks,
         NEW cmd \in Command
  PROVE  OnChannels(Put(channels, t, cmd)) \subseteq OnChannels(channels) \cup {cmd}
<1> SUFFICES ASSUME NEW u \in Tracks, NEW k \in DOMAIN Put(channels, t, cmd)[u]
             PROVE  Put(channels, t, cmd)[u][k] \in OnChannels(channels) \cup {cmd}
  BY DEF OnChannels
<1>1. CASE u # t
  BY <1>1 DEF Put, OnChannels
<1>2. CASE u = t
  <2>1. Put(channels, t, cmd)[u] = Append(channels[t], cmd) /\ channels[t] \in Seq(Command)
    BY <1>2 DEF Put
  <2>2. k \in 1 .. Len(channels[t]) + 1
    BY <2>1
  <2>3. CASE k = Len(channels[t]) + 1
    BY <2>1, <2>3
  <2>4. CASE k # Len(channels[t]) + 1
    <3>1. k \in DOMAIN channels[t] /\ Put(channels, t, cmd)[u][k] = channels[t][k]
      BY <2>1, <2>2, <2>4
    <3> QED BY <3>1 DEF OnChannels
  <2> QED BY <2>3, <2>4
<1> QED BY <1>1, <1>2

\* So does sending it by the lowest TCE.
LEMMA SendByLowestCommands ==
  ASSUME NEW channels \in [Tracks -> Seq(Command)], NEW cs \in SUBSET TCE,
         NEW cmd \in Command, SendByLowest(channels, cs, cmd)
  PROVE  OnChannels(chan') \subseteq OnChannels(channels) \cup {cmd}
<1>1. PICK c \in cs : chan' = Put(channels, TrackOf[c], cmd)
  BY DEF SendByLowest
<1>2. TrackOf[c] \in Tracks
  BY ModelAssumption
<1> QED BY <1>1, <1>2, PutCommands

\* Taking a command from a channel leaves others, and it was one of them.
LEMMA PoppedCommands ==
  ASSUME TypeOK, NEW t \in Tracks, chan[t] # <<>>
  PROVE  /\ OnChannels(Popped(t)) \subseteq OnChannels(chan)
         /\ Head(chan[t]) \in OnChannels(chan)
<1>0. chan \in [Tracks -> Seq(Command)]
  BY DEF TypeOK
<1>1. ASSUME NEW u \in Tracks, NEW k \in DOMAIN Popped(t)[u]
      PROVE  Popped(t)[u][k] \in OnChannels(chan)
  <2>1. CASE u # t
    BY <1>0, <2>1 DEF Popped, OnChannels
  <2>2. CASE u = t
    <3>1. Popped(t)[u] = Tail(chan[t]) /\ chan[t] \in Seq(Command)
      BY <1>0, <2>2 DEF Popped
    <3>2. k + 1 \in DOMAIN chan[t] /\ Popped(t)[u][k] = chan[t][k + 1]
      BY <1>1, <3>1
    <3> QED BY <3>2 DEF OnChannels
  <2> QED BY <2>1, <2>2
<1>2. 1 \in DOMAIN chan[t] /\ Head(chan[t]) = chan[t][1]
  BY <1>0
<1> QED BY <1>1, <1>2 DEF OnChannels

\* Only two kinds of commands are about a TIE; the others carry none.
LEMMA PlainCommands ==
  /\ \A kind, cs, last : ForTCEs(kind, cs, last).ties = {}
  /\ \A kind, c : ForTCE(kind, c).ties = {}
  /\ \A kind : Scan(kind).ties = {}
  /\ \A kind, c, r : WithReply(ForTCE(kind, c), r).ties = {}
  /\ \A kind, i : ForTIE(kind, i).ties = {i}
BY DEF ForTCEs, ForTCE, Scan, WithReply, ForTIE

\* A command that a step puts on a channel is about no TIE, about the first one
\* of a batch that cannot be sent, or about one that a scan has found overdue.
LEMMA NewCommands ==
  ASSUME TypeOK, Next, NEW cmd \in OnChannels(chan')
  PROVE  \/ cmd \in OnChannels(chan)
         \/ cmd.ties = {}
         \/ \E t \in Tracks, i \in TIE :
              /\ CannotBeSent(t, i)
              /\ \E first \in Batch(handler[t]) :
                   cmd.ties = {first} /\ first \in faults'.unsendable
         \/ \E t \in Tracks :
              /\ SendZombiesTimedOut(t)
              /\ \E i \in handler[t].ties : cmd.ties = {i}
<1> DEFINE Old == cmd \in OnChannels(chan)
           Plain == cmd.ties = {}
<1>0. chan \in [Tracks -> Seq(Command)] /\ handler \in [Tracks -> Handler]
  BY DEF TypeOK
<1>1. ASSUME chan' = chan PROVE Old
  BY <1>1
<1>2. ASSUME NEW t \in Tracks, chan[t] # <<>>, chan' = Popped(t) PROVE Old
  BY <1>2, PoppedCommands
<1>3. ASSUME NEW channels \in [Tracks -> Seq(Command)], NEW cs \in SUBSET TCE,
             NEW c \in Command, SendByLowest(channels, cs, c), c.ties = {},
             OnChannels(channels) \subseteq OnChannels(chan)
      PROVE  Old \/ Plain
  BY <1>3, SendByLowestCommands
<1>4. ASSUME NEW channels \in [Tracks -> Seq(Command)], NEW t \in Tracks,
             NEW c \in Command, chan' = Put(channels, t, c), c.ties = {},
             OnChannels(channels) \subseteq OnChannels(chan)
      PROVE  Old \/ Plain
  BY <1>4, PutCommands
<1>5. ASSUME NEW t \in Tracks, NEW cs \in SUBSET TCE, NEW last \in SUBSET TCE,
             NEW kind \in Kinds, NEW to \in SUBSET TCE,
             \/ SendByLowest(chan, to, ForTCEs(kind, cs, last))
             \/ /\ chan[t] # <<>>
                /\ SendByLowest(Popped(t), to, ForTCEs(kind, cs, last))
      PROVE  Old \/ Plain
  <2>1. ForTCEs(kind, cs, last) \in Command /\ ForTCEs(kind, cs, last).ties = {}
    BY CommandsAreCommands, PlainCommands
  <2> QED BY <1>0, <1>3, <1>5, <2>1, PoppedCommands, PoppedType
<1>6. ASSUME NEW t \in Tracks, NEW c \in TCE, NEW kind \in Kinds,
             chan' = Put(chan, t, ForTCE(kind, c))
      PROVE  Old \/ Plain
  <2>1. ForTCE(kind, c) \in Command /\ ForTCE(kind, c).ties = {}
    BY CommandsAreCommands, PlainCommands
  <2> QED BY <1>0, <1>4, <1>6, <2>1
<1>7. \A t \in Tracks : /\ handler[t].cmd.tces \in SUBSET TCE
                        /\ handler[t].cmd.last \in SUBSET TCE
                        /\ handler[t].tces \in SUBSET TCE
                        /\ handler[t].ties \in SUBSET TIE
                        /\ handler[t].track \in Tracks
                        /\ Batch(handler[t]) \in SUBSET TIE
  BY <1>0 DEF Handler, Batch
<1>8. \A t \in Tracks : chan[t] # <<>> =>
        /\ Head(chan[t]).tces \in SUBSET TCE
        /\ Head(chan[t]).last \in SUBSET TCE
        /\ Head(chan[t]).ties \in SUBSET TIE
  BY PoppedType DEF Command
<1>9. ASSUME NEW cs \in Informs, Inform(cs) PROVE Old \/ Plain
  <2> DEFINE listed == {cs[k] : k \in DOMAIN cs}
  <2>1. cs \in Seq(TCE) /\ cs # <<>>
    BY ModelAssumption
  <2>2. listed \in SUBSET TCE /\ {cs[Len(cs)]} \in SUBSET TCE
    BY <2>1
  <2>3. SendByLowest(chan, listed,
                     ForTCEs("ProcessTestCases", listed, {cs[Len(cs)]}))
    BY <1>9 DEF Inform
  <2>4. 0 \in Tracks
    BY ModelAssumption
  <2> HIDE DEF listed
  <2> QED BY <1>5, <2>2, <2>3, <2>4 DEF Kinds
<1>10. ASSUME NEW t \in Tracks,
              \/ SaveTestCases(t) \/ NothingOnQueue(t) \/ MoveToOngoing(t)
              \/ NothingWaiting(t) \/ CommitSent(t)
       PROVE  Old \/ Plain
  <2>1. CASE SaveTestCases(t)
    BY <1>5, <1>7, <2>1 DEF SaveTestCases, CheckQueueFor, Kinds
  <2>2. CASE NothingOnQueue(t)
    BY <1>5, <1>8, <2>2 DEF NothingOnQueue, UpdateStatusFor, Ready, Kinds
  <2>3. CASE MoveToOngoing(t)
    BY <1>5, <1>7, <2>3 DEF MoveToOngoing, SendWaitingFor, Kinds
  <2>4. CASE NothingWaiting(t)
    BY <1>5, <1>8, <2>4 DEF NothingWaiting, CheckQueueFor, Ready, Kinds
  <2>5. CASE CommitSent(t)
    <3>1. ParentsOf(Batch(handler[t])) \in SUBSET TCE
      <4>1. Batch(handler[t]) \in SUBSET TIE
        BY <1>7
      <4> QED BY <4>1, ModelAssumption DEF ParentsOf
    <3>2. SendByLowest(chan, handler[t].cmd.tces,
                       ForTCEs("UpdateTestCaseStatus", ParentsOf(Batch(handler[t])),
                               handler[t].cmd.last))
      BY <2>5 DEF CommitSent, UpdateStatusFor
    <3> QED BY <1>5, <1>7, <3>1, <3>2 DEF Kinds
  <2> QED BY <1>10, <2>1, <2>2, <2>3, <2>4, <2>5
<1>11. ASSUME NEW t \in Tracks, NEW i \in TIE, CannotBeSent(t, i)
       PROVE  Old \/ \E first \in Batch(handler[t]) :
                       cmd.ties = {first} /\ first \in faults'.unsendable
  <2>1. PICK first \in Batch(handler[t]) :
          /\ faults' = [faults EXCEPT !.unsendable = @ \cup {first}]
          /\ SendByLowest(chan, handler[t].cmd.tces,
                          ForTIE("ProblemWhenSending", first))
    BY <1>11 DEF CannotBeSent
  <2>2. first \in TIE /\ ForTIE("ProblemWhenSending", first) \in Command
    BY <1>7, CommandsAreCommands DEF Kinds
  <2>3. Old \/ cmd = ForTIE("ProblemWhenSending", first)
    BY <1>0, <1>7, <2>1, <2>2, SendByLowestCommands
  <2>4. first \in faults'.unsendable
    BY <2>1 DEF TypeOK
  <2> QED BY <2>3, <2>4, PlainCommands
<1>12. ASSUME NEW t \in Tracks, SendZombiesTimedOut(t)
       PROVE  Old \/ \E i \in handler[t].ties : cmd.ties = {i}
  <2>1. PICK i \in handler[t].ties :
          chan' = Put(chan, TrackOf[i], ForTIE("TimedOut", i))
    BY <1>12 DEF SendZombiesTimedOut
  <2>2. /\ i \in TIE /\ TrackOf[i] \in Tracks
        /\ ForTIE("TimedOut", i) \in Command
    BY <1>7, CommandsAreCommands, ModelAssumption DEF Kinds
  <2>3. Old \/ cmd = ForTIE("TimedOut", i)
    BY <1>0, <2>1, <2>2, PutCommands
  <2> QED BY <2>3, PlainCommands
<1>13. ASSUME NEW t \in Tracks, TimedOut(t) PROVE Old \/ Plain
  <2>1. PICK i \in Head(chan[t]).ties :
          chan' = Put(Popped(t), TrackOf[Parent[i]],
                      ForTCE("UpdateTestCaseStatus", Parent[i]))
    BY <1>13 DEF TimedOut
  <2>2. /\ chan[t] # <<>> /\ i \in TIE
        /\ Parent[i] \in TCE /\ TrackOf[Parent[i]] \in Tracks
    BY <1>8, <1>13, ModelAssumption DEF TimedOut, Ready
  <2>3. /\ ForTCE("UpdateTestCaseStatus", Parent[i]) \in Command
        /\ ForTCE("UpdateTestCaseStatus", Parent[i]).ties = {}
    BY <2>2, CommandsAreCommands, PlainCommands DEF Kinds
  <2> QED BY <1>4, <2>1, <2>2, <2>3, PoppedType, PoppedCommands
<1>14. ASSUME NEW t \in Tracks, SendZombieTestCasesOnQueue(t) PROVE Old \/ Plain
  BY <1>6, <1>7, <1>14 DEF SendZombieTestCasesOnQueue, Kinds
<1>15. ASSUME NEW t \in Tracks, NEW kind, NEW cmdKind \in Kinds,
              SendForRow(t, kind, cmdKind)
       PROVE  Old \/ Plain
  <2>1. PICK i \in handler[t].ties :
          chan' = Put(chan, handler[t].track, ForTCE(cmdKind, Parent[i]))
    BY <1>15 DEF SendForRow
  <2>2. Parent[i] \in TCE
    BY <1>7, ModelAssumption
  <2> QED BY <1>6, <1>7, <2>1, <2>2
<1>16. ASSUME NEW channels \in [Tracks -> Seq(Command)], NEW t \in Tracks, NEW kind,
              OnChannels(channels) \subseteq OnChannels(chan),
              chan' = NextScan(channels, t, kind)
       PROVE  Old \/ Plain
  <2>1. \A k \in Kinds : Scan(k) \in Command /\ Scan(k).ties = {}
    BY CommandsAreCommands, PlainCommands
  <2> QED BY <1>4, <1>16, <2>1 DEF NextScan, Kinds
<1>17. ASSUME NEW r \in Results, Reporter(r) PROVE Old \/ Plain
  <2>0. TrackOf[r[1]] \in Tracks /\ Parent[r[1]] \in TCE
    BY ModelAssumption DEF Results
  <2>1. CASE OpenResult(r)
    BY <1>1, <2>1 DEF OpenResult
  <2>2. CASE CommitResult(r)
    <3>1. /\ WithReply(ForTCE("UpdateTestCaseStatus", Parent[r[1]]), r) \in Command
          /\ WithReply(ForTCE("UpdateTestCaseStatus", Parent[r[1]]), r).ties = {}
      BY <2>0, CommandsAreCommands, PlainCommands DEF Kinds
    <3> QED BY <1>0, <1>4, <2>0, <2>2, <3>1 DEF CommitResult
  <2>3. CASE TriggerNext(r)
    BY <1>1, <1>6, <2>0, <2>3 DEF TriggerNext, Kinds
  <2> QED BY <1>17, <2>1, <2>2, <2>3 DEF Reporter
<1>18. ASSUME Worker PROVE Old \/ Plain
  <2>1. ASSUME NEW i \in TIE, NEW k \in 1 .. MaxReports, WorkerReports(i, k)
        PROVE  Old
    BY <1>1, <2>1 DEF WorkerReports
  <2>2. ASSUME NEW i \in TIE, Response(i) PROVE Old \/ Plain
    BY <1>6, <2>2, ModelAssumption DEF Response, Kinds
  <2> QED BY <1>18, <2>1, <2>2 DEF Worker
<1>19. ASSUME Fault PROVE Old \/ Plain
  <2>1. ASSUME NEW t \in Tracks, FailedLoad(t) PROVE Old \/ Plain
    BY <1>16, <2>1, PoppedType, PoppedCommands DEF FailedLoad
  <2>2. ASSUME NEW t \in Tracks, RolledBack(t) PROVE Old
    BY <1>1, <2>2 DEF RolledBack
  <2>3. ASSUME NEW r \in Results, ResultRolledBack(r) PROVE Old
    BY <1>1, <2>3 DEF ResultRolledBack
  <2>4. CASE CrashAndRestart
    <3>1. PICK t \in Tracks : \E k \in DOMAIN chan'[t] : cmd = chan'[t][k]
      BY DEF OnChannels
    <3>2. cmd \in {Scan("ZombiesUnderExecution"), Scan("ZombiesTimedOut")}
      BY <2>4, <3>1 DEF CrashAndRestart
    <3> QED BY <3>2, PlainCommands
  <2> QED BY <1>19, <2>1, <2>2, <2>3, <2>4 DEF Fault
<1>20. ASSUME NEW t \in Tracks,
              \/ LoadTestCases(t) \/ LoadQueue(t) \/ LoadWaiting(t)
              \/ LoadStatuses(t) \/ ReportProblem(t) \/ LoadZombies(t)
       PROVE  Old
  BY <1>2, <1>20 DEF LoadTestCases, LoadQueue, LoadWaiting, LoadStatuses,
     ReportProblem, LoadZombies, LoadScan, Ready
<1>21. ASSUME NEW t \in Tracks,
              \/ TestCasesAlreadySaved(t) \/ AlreadyMoved(t) \/ UpdateTestCases(t)
              \/ \E i \in TIE : SentToWorker(t, i) \/ RefusedByWorker(t, i)
       PROVE  Old
  BY <1>1, <1>21 DEF TestCasesAlreadySaved, AlreadyMoved, UpdateTestCases,
     SentToWorker, RefusedByWorker
<1>22. ASSUME NEW t \in Tracks,
              \/ SendAllZombiesUnderExecution(t) \/ SendAllZombiesOnQueue(t)
              \/ EndScan(t)
       PROVE  Old \/ Plain
  BY <1>0, <1>15, <1>16, <1>22 DEF SendAllZombiesUnderExecution,
     SendAllZombiesOnQueue, EndScan, Kinds
<1>23. ASSUME NEW i \in TIE, TimePasses(i) PROVE Old
  BY <1>1, <1>23 DEF TimePasses
<1> HIDE DEF Old, Plain
<1>24. ASSUME NEW t \in Tracks, Reader(t)
       PROVE  \/ Old \/ Plain
              \/ \E i \in TIE :
                   /\ CannotBeSent(t, i)
                   /\ \E first \in Batch(handler[t]) :
                        cmd.ties = {first} /\ first \in faults'.unsendable
              \/ /\ SendZombiesTimedOut(t)
                 /\ \E i \in handler[t].ties : cmd.ties = {i}
  BY <1>10, <1>11, <1>12, <1>13, <1>14, <1>20, <1>21, <1>22, <1>24 DEF Reader, OtherCommand
<1> QED BY <1>9, <1>17, <1>18, <1>19, <1>23, <1>24 DEF Next, Surroundings, Old, Plain

-----------------------------------------------------------------------------
(* What no step takes back *)

\* A row stays, a TCE stays ongoing, a Worker keeps what it was given, the reason
\* why a TIE may end stays, and a final status is followed by a final one only.
Kept ==
  /\ \A i \in TIE : HasRow(i) => HasRow(i)'
  /\ \A c \in TCE : tcue[c].status # NoRow => tcue'[c].status # NoRow
  /\ \A i \in TIE : sent[i] > 0 => sent'[i] > 0
  /\ \A i \in TIE : HasRow(i) /\ Accounted(i) => Accounted(i)'
  /\ \A i \in TIE : IsFinal(tiue[i].status) => IsFinal(tiue'[i].status)

\* A Worker keeps what it was given, and a problem that was reported stays so.
LEMMA EnvironmentKept ==
  ASSUME TypeOK, Next
  PROVE  /\ \A i \in TIE : sent[i] > 0 => sent'[i] > 0
         /\ faults.unsendable \subseteq faults'.unsendable
         /\ \/ sent' = sent
            \/ \E t \in Tracks, i \in TIE : SentToWorker(t, i) \/ RefusedByWorker(t, i)
<1> DEFINE Goal == /\ \A i \in TIE : sent[i] > 0 => sent'[i] > 0
                   /\ faults.unsendable \subseteq faults'.unsendable
                   /\ \/ sent' = sent
                      \/ \E t \in Tracks, i \in TIE :
                           SentToWorker(t, i) \/ RefusedByWorker(t, i)
<1>0. /\ sent \in [TIE -> Nat]
      /\ faults \in [nacks: Nat, lost: Nat, dbErrors: Nat, crashes: Nat,
                     unsendable: SUBSET TIE]
  BY DEF TypeOK
<1>1. ASSUME sent' = sent, faults' = faults PROVE Goal
  BY <1>1
<1>2. ASSUME NEW t \in Tracks, NEW i \in TIE,
             SentToWorker(t, i) \/ RefusedByWorker(t, i)
      PROVE  Goal
  <2>1. /\ \A j \in TIE : sent'[j] \in Nat /\ sent[j] =< sent'[j]
        /\ faults'.unsendable = faults.unsendable
    BY <1>2, AttemptsMean
  <2> QED BY <1>0, <1>2, <2>1
<1>3. ASSUME NEW t \in Tracks, NEW i \in TIE, CannotBeSent(t, i) PROVE Goal
  <2>1. PICK first \in Batch(handler[t]) :
          faults' = [faults EXCEPT !.unsendable = @ \cup {first}]
    BY <1>3 DEF CannotBeSent
  <2>2. sent' = sent
    BY <1>3 DEF CannotBeSent
  <2> QED BY <1>0, <2>1, <2>2
<1>4. ASSUME Fault PROVE Goal
  <2>1. ASSUME DbError PROVE faults'.unsendable = faults.unsendable
    BY <1>0, <2>1 DEF DbError
  <2>2. ASSUME CrashAndRestart PROVE faults'.unsendable = faults.unsendable
    BY <1>0, <2>2 DEF CrashAndRestart
  <2>3. faults'.unsendable = faults.unsendable /\ sent' = sent
    BY <1>4, <2>1, <2>2 DEF Fault, FailedLoad, RolledBack, ResultRolledBack,
       CrashAndRestart
  <2> QED BY <2>3
<1>5. ASSUME NEW t \in Tracks, Reader(t) PROVE Goal
  <2>1. \/ sent' = sent /\ faults' = faults
        \/ \E i \in TIE : SentToWorker(t, i) \/ RefusedByWorker(t, i)
                          \/ CannotBeSent(t, i)
    BY <1>5 DEF Reader, OtherCommand, LoadTestCases, SaveTestCases, TestCasesAlreadySaved,
       LoadQueue, NothingOnQueue, MoveToOngoing, AlreadyMoved, LoadWaiting,
       NothingWaiting, CommitSent, LoadStatuses, UpdateTestCases, ReportProblem,
       TimedOut, LoadZombies, LoadScan, SendAllZombiesUnderExecution,
       SendZombieTestCasesOnQueue, SendForRow, SendAllZombiesOnQueue,
       SendZombiesTimedOut, EndScan, environment
  <2> HIDE DEF Goal
  <2> QED BY <1>1, <1>2, <1>3, <2>1
<1>6. \/ \E t \in Tracks : Reader(t)
      \/ Fault
      \/ sent' = sent /\ faults' = faults
  BY DEF Next, Surroundings, Inform, Reporter, OpenResult, CommitResult, TriggerNext, Worker,
     WorkerReports, Response, TimePasses, environment
<1> HIDE DEF Goal
<1>7. Goal
  BY <1>1, <1>4, <1>5, <1>6
<1> QED BY <1>7 DEF Goal

\* The steps that change the tables of TIEs and of ongoing TCEs.
DatabaseStep ==
  \/ \E t \in Tracks : \/ SaveTestCases(t) \/ MoveToOngoing(t) \/ CommitSent(t)
                       \/ UpdateTestCases(t) \/ TimedOut(t)
  \/ \E r \in Results : CommitResult(r)
  \/ \E i \in TIE : Response(i) \/ TimePasses(i)

\* No other step changes them.
LEMMA OnlyDatabaseSteps ==
  ASSUME Next
  PROVE  DatabaseStep \/ UNCHANGED <<tcue, tiQueue, tiue>>
<1>1. ASSUME NEW t \in Tracks, Reader(t)
      PROVE  DatabaseStep \/ UNCHANGED <<tcue, tiQueue, tiue>>
  BY <1>1 DEF Reader, OtherCommand, DatabaseStep, LoadTestCases, TestCasesAlreadySaved,
     LoadQueue, NothingOnQueue, AlreadyMoved, LoadWaiting, NothingWaiting,
     SentToWorker, RefusedByWorker, CannotBeSent, LoadStatuses, ReportProblem,
     LoadZombies, LoadScan, SendAllZombiesUnderExecution,
     SendZombieTestCasesOnQueue, SendForRow, SendAllZombiesOnQueue,
     SendZombiesTimedOut, EndScan, database
<1>2. CASE Worker \/ Fault
  BY <1>2 DEF Worker, Fault, WorkerReports, FailedLoad, RolledBack,
     ResultRolledBack, CrashAndRestart, DatabaseStep, database
<1>3. ASSUME NEW r \in Results, Reporter(r)
      PROVE  DatabaseStep \/ UNCHANGED <<tcue, tiQueue, tiue>>
  BY <1>3 DEF Reporter, DatabaseStep, OpenResult, TriggerNext, database
<1> QED BY <1>1, <1>2, <1>3 DEF Next, Surroundings, DatabaseStep, Inform

-----------------------------------------------------------------------------
(* The steps that change the tables *)

\* What the rows of a TIE and of a TCE can be.
LEMMA RowTypes ==
  ASSUME TypeOK
  PROVE  /\ \A i \in TIE : tiue[i] \in [status: Statuses \cup {NoRow},
                                      end: {"null", "future", "past"}]
         /\ \A c \in TCE : tcue[c] \in [status: Statuses \cup {NoRow},
                                      finished: BOOLEAN]
         /\ \A r \in Results : /\ result[r].status \in Statuses \cup {NoRow}
                               /\ r[1] \in TIE
         /\ \A t \in Tracks : handler[t] \in Handler
         /\ \A i \in TIE : Parent[i] \in TCE
         /\ ~ IsFinal(NoRow) /\ ~ IsFinal(INITIATED) /\ ~ IsFinal(EXECUTING)
<1>1. /\ \A i \in TIE : tiue[i] \in [status: Statuses \cup {NoRow},
                                     end: {"null", "future", "past"}]
      /\ \A c \in TCE : tcue[c] \in [status: Statuses \cup {NoRow},
                                     finished: BOOLEAN]
  BY DEF TypeOK
<1>2. \A r \in Results : result[r].status \in Statuses \cup {NoRow}
  BY DEF TypeOK
<1>3. \A r \in Results : r[1] \in TIE
  BY DEF Results
<1>4. \A t \in Tracks : handler[t] \in Handler
  BY DEF TypeOK
<1>5. \A i \in TIE : Parent[i] \in TCE
  BY ModelAssumption
<1>6. ~ IsFinal(NoRow) /\ ~ IsFinal(INITIATED) /\ ~ IsFinal(EXECUTING)
  BY DEF IsFinal, NoRow, INITIATED, EXECUTING, CONTROLLED_INTERRUPTION
<1> QED BY <1>1, <1>2, <1>3, <1>4, <1>5, <1>6

\* What a database step has to achieve.
TablesRight == Kept /\ OnePlace' /\ EndsForAReason'

\* It is enough that a step invents and removes no row, and that a TIE which
\* becomes final may end.
LEMMA RowsUpdated ==
  ASSUME TypeOK, Next, OnePlace, EndsForAReason, tiQueue' = tiQueue,
         \A c \in TCE : tcue'[c].status = NoRow <=> tcue[c].status = NoRow,
         \A i \in TIE : HasRow(i)' <=> HasRow(i),
         \A i \in TIE : HasRow(i) /\ Accounted(i) => Accounted(i)',
         \A i \in TIE : IsFinal(tiue[i].status) => IsFinal(tiue'[i].status),
         \A i \in TIE : IsFinal(tiue'[i].status) =>
                          IsFinal(tiue[i].status) \/ Accounted(i)'
  PROVE  TablesRight
<1>1. \A i \in TIE : sent[i] > 0 => sent'[i] > 0
  BY EnvironmentKept
<1>2. Kept
  BY <1>1 DEF Kept
<1>3. OnePlace'
  BY RowTypes DEF OnePlace
<1>4. EndsForAReason'
  BY RowTypes DEF EndsForAReason, HasRow
<1> QED BY <1>2, <1>3, <1>4 DEF TablesRight

\* A TIE that may end still may when its expected end is not taken back.
LEMMA AccountedStays ==
  ASSUME TypeOK, Next, NEW i \in TIE, Accounted(i),
         \/ tiue[i].end = "past" => tiue'[i].end = "past"
         \/ sent[i] > 0
  PROVE  Accounted(i)'
BY EnvironmentKept DEF Accounted

\* Taking over TCEs puts their TIEs, which had no place, on the queue.
LEMMA SaveTestCasesRight ==
  ASSUME IInv, Next, NEW t \in Tracks, SaveTestCases(t)
  PROVE  TablesRight
<1> DEFINE rows == handler[t].tces
<1>0. TypeOK /\ OnePlace /\ EndsForAReason
  BY DEF IInv
<1>1. /\ \A c \in rows : tcue[c].status = NoRow
      /\ tcue' = TestCasesOnOngoing(rows)
      /\ tiQueue' = tiQueue \cup ChildrenOf(rows)
      /\ tiue' = tiue
  BY DEF SaveTestCases, TestInstructionsToQueue
<1>2. \A c \in TCE : IF c \in rows THEN tcue'[c].status = INITIATED
                                   ELSE tcue'[c] = tcue[c]
  BY <1>1 DEF TestCasesOnOngoing
<1>3. Kept
  BY <1>0, <1>1, <1>2, EnvironmentKept, AccountedStays, StatusNumbers
     DEF Kept, HasRow
<1>4. OnePlace'
  <2>1. ASSUME NEW i \in TIE
        PROVE  IF tcue'[Parent[i]].status = NoRow
               THEN i \notin tiQueue' /\ ~ HasRow(i)'
               ELSE i \in tiQueue' <=> ~ HasRow(i)'
    BY <1>0, <1>1, <1>2, RowTypes, StatusNumbers DEF OnePlace, ChildrenOf, HasRow
  <2> QED BY <2>1 DEF OnePlace
<1>5. EndsForAReason'
  BY <1>0, <1>1, AccountedStays DEF EndsForAReason
<1> QED BY <1>3, <1>4, <1>5 DEF TablesRight

\* Moving TIEs from the queue gives a row to those that had none.
LEMMA MoveToOngoingRight ==
  ASSUME IInv, Next, NEW t \in Tracks, MoveToOngoing(t)
  PROVE  TablesRight
<1> DEFINE rows == handler[t].ties
<1>0. TypeOK /\ OnePlace /\ EndsForAReason
  BY DEF IInv
<1>1. /\ \A i \in rows : ~ HasRow(i)
      /\ tiue' = TestInstructionsUnderExecution(rows)
      /\ tiQueue' = tiQueue \ rows
      /\ tcue' = tcue
  BY DEF MoveToOngoing, QueueCleared
<1>2. \A i \in TIE : tiue'[i] = IF i \in rows THEN [status |-> INITIATED, end |-> "null"]
                                             ELSE tiue[i]
  BY <1>1 DEF TestInstructionsUnderExecution
<1>3. \A i \in rows : tcue[Parent[i]].status # NoRow
  BY DEF IInv, HandlerRows, AboutRows, MoveToOngoing, WorksOn
<1>4. INITIATED # NoRow /\ ~ IsFinal(INITIATED) /\ ~ IsFinal(NoRow)
  BY <1>0, RowTypes, StatusNumbers
<1>5. Kept
  <2>1. \A i \in TIE : HasRow(i) => HasRow(i)'
    BY <1>1, <1>2 DEF HasRow
  <2>2. \A i \in TIE : HasRow(i) /\ Accounted(i) => Accounted(i)'
    BY <1>0, <1>1, <1>2, AccountedStays
  <2>3. \A i \in TIE : IsFinal(tiue[i].status) => IsFinal(tiue'[i].status)
    BY <1>1, <1>2, <1>4 DEF HasRow
  <2> QED BY <1>0, <1>1, <2>1, <2>2, <2>3, EnvironmentKept DEF Kept
<1>6. OnePlace'
  <2>1. ASSUME NEW i \in TIE
        PROVE  IF tcue'[Parent[i]].status = NoRow
               THEN i \notin tiQueue' /\ ~ HasRow(i)'
               ELSE i \in tiQueue' <=> ~ HasRow(i)'
    BY <1>0, <1>1, <1>2, <1>3, <1>4 DEF OnePlace, HasRow
  <2> QED BY <2>1 DEF OnePlace
<1>7. EndsForAReason'
  <2>1. \A i \in TIE : IsFinal(tiue'[i].status) => HasRow(i) /\ Accounted(i)
    BY <1>0, <1>1, <1>2, <1>4 DEF EndsForAReason, HasRow
  <2> QED BY <1>5, <2>1 DEF EndsForAReason, Kept
<1> QED BY <1>5, <1>6, <1>7 DEF TablesRight

\* Writing what the Workers answered touches only rows that are INITIATED.
LEMMA CommitSentRight ==
  ASSUME IInv, Next, NEW t \in Tracks, CommitSent(t)
  PROVE  TablesRight
<1> DEFINE h == handler[t]
<1>0. TypeOK /\ OnePlace /\ EndsForAReason /\ h \in Handler
  BY RowTypes DEF IInv
<1>1. PICK last \in Batch(h) : tiue' = StatusOfLastSent(h, last)
  BY DEF CommitSent
<1>2. /\ last \in TIE
      /\ \A i \in Batch(h) : i \in TIE /\ HasRow(i)
      /\ \A i \in h.acked : sent[i] > 0
      /\ h.acked \subseteq Batch(h) /\ h.nacked \subseteq Batch(h)
  BY <1>0 DEF IInv, HandlerRows, AboutRows, CommitSent, WorksOn, Handler, Batch
<1>3. ASSUME NEW i \in TIE
      PROVE  \/ tiue'[i] = tiue[i]
             \/ /\ tiue[i].status = INITIATED /\ i \in h.acked
                /\ tiue'[i] = [status |-> EXECUTING, end |-> "future"]
             \/ /\ tiue[i].status = INITIATED
                /\ tiue'[i] = [status |-> INITIATED, end |-> "past"]
  BY <1>0, <1>1, <1>2 DEF StatusOfLastSent, TypeOK
<1>4. tcue' = TestCaseStatusOfSent(h) /\ tiQueue' = tiQueue
  BY DEF CommitSent
<1>5. \A c \in TCE : tcue'[c].status = NoRow <=> tcue[c].status = NoRow
  <2> SUFFICES ASSUME NEW c \in TCE
               PROVE  tcue'[c].status = NoRow <=> tcue[c].status = NoRow
    OBVIOUS
  <2>1. ASSUME NEW i \in Batch(h), Parent[i] = c PROVE tcue[c].status # NoRow
    BY <1>0, <1>2, <2>1 DEF OnePlace
  <2>2. ASSUME NEW s \in Statuses PROVE [tcue[c] EXCEPT !.status = s].status = s
    <3>1. tcue[c] \in [status: Statuses \cup {NoRow}, finished: BOOLEAN]
      BY <1>0, RowTypes
    <3> QED BY <3>1, Zenon
  <2>3. \/ tcue'[c] = tcue[c]
        \/ tcue'[c].status # NoRow /\ \E i \in Batch(h) : Parent[i] = c
    <3> DEFINE AckedLast == \E i \in h.acked :
                              IsHighest(i, Batch(h) \cap ChildrenOf({c}))
               Nacked == \E i \in h.nacked : Parent[i] = c
    <3>1. tcue'[c] = IF AckedLast THEN [tcue[c] EXCEPT !.status = EXECUTING]
                     ELSE IF Nacked
                          THEN [tcue[c] EXCEPT
                                  !.status = UNEXPECTED_INTERRUPTION_CAN_BE_RERUN]
                          ELSE tcue[c]
      BY <1>4 DEF TestCaseStatusOfSent
    <3>2. AckedLast => \E i \in Batch(h) : Parent[i] = c
      BY <1>2 DEF IsHighest, ChildrenOf
    <3>3. Nacked => \E i \in Batch(h) : Parent[i] = c
      BY <1>2
    <3> HIDE DEF AckedLast, Nacked
    <3> QED BY <2>2, <3>1, <3>2, <3>3, StatusNumbers
  <2> QED BY <2>1, <2>3
<1>6. \A i \in TIE : HasRow(i)' <=> HasRow(i)
  BY <1>3, StatusNumbers DEF HasRow
<1>7. \A i \in TIE : HasRow(i) /\ Accounted(i) => Accounted(i)'
  BY <1>0, <1>2, <1>3, AccountedStays
<1>8. \A i \in TIE : IsFinal(tiue'[i].status) <=> IsFinal(tiue[i].status)
  BY <1>0, <1>3, RowTypes
<1> QED BY <1>0, <1>4, <1>5, <1>6, <1>7, <1>8, RowsUpdated

\* (C) changes the status of ongoing TCEs only.
LEMMA UpdateTestCasesRight ==
  ASSUME IInv, Next, NEW t \in Tracks, UpdateTestCases(t)
  PROVE  TablesRight
<1>0. TypeOK /\ OnePlace /\ EndsForAReason /\ handler[t] \in Handler
  BY RowTypes DEF IInv
<1>1. /\ tcue' = TestCasesUpdated(handler[t].messages)
      /\ tiQueue' = tiQueue /\ tiue' = tiue
  BY DEF UpdateTestCases
<1>2. \A m \in handler[t].messages : tcue[m.tce].status # NoRow
  BY DEF IInv, HandlerRows, AboutRows
<1>3. \A c \in TCE : tcue'[c].status = NoRow <=> tcue[c].status = NoRow
  <2>1. handler[t].messages \in SUBSET Message
    BY <1>0 DEF Handler
  <2>2. \A c \in TCE : tcue'[c].status = NoRow => tcue[c].status = NoRow
    BY <1>0, <1>1, <2>1, TestCasesUpdatedType
  <2>3. \A c \in TCE : tcue[c].status = NoRow => tcue'[c] = tcue[c]
    BY <1>1, <1>2 DEF TestCasesUpdated
  <2> QED BY <2>2, <2>3
<1>4. \A i \in TIE : HasRow(i) /\ Accounted(i) => Accounted(i)'
  BY <1>0, <1>1, AccountedStays
<1> QED BY <1>0, <1>1, <1>3, <1>4, RowsUpdated DEF HasRow

\* A final result is written to a row that exists, of a TIE that may end.
LEMMA CommitResultRight ==
  ASSUME IInv, Next, NEW r \in Results, CommitResult(r)
  PROVE  TablesRight
<1> DEFINE s == result[r].status
<1>0. TypeOK /\ OnePlace /\ EndsForAReason
  BY DEF IInv
<1>1. /\ tiue' = [tiue EXCEPT ![r[1]].status = s]
      /\ tiQueue' = tiQueue /\ tcue' = tcue
  BY DEF CommitResult, StatusOfReport
<1>2. r[1] \in TIE /\ HasRow(r[1]) /\ Accounted(r[1]) /\ IsFinal(s)
  BY <1>0, RowTypes DEF IInv, ResultRows, CommitResult
<1>3. s # NoRow
  BY <1>0, <1>2, RowTypes
<1>4. \A i \in TIE : /\ tiue'[i].end = tiue[i].end
                     /\ tiue'[i].status = IF i = r[1] THEN s ELSE tiue[i].status
  BY <1>0, <1>1, <1>2, RowTypes DEF TypeOK
<1> HIDE DEF s
<1>5. \A i \in TIE : HasRow(i)' <=> HasRow(i)
  BY <1>2, <1>3, <1>4 DEF HasRow
<1>6. \A i \in TIE : Accounted(i) => Accounted(i)'
  BY <1>0, <1>4, AccountedStays
<1>7. /\ \A i \in TIE : IsFinal(tiue[i].status) => IsFinal(tiue'[i].status)
      /\ \A i \in TIE : IsFinal(tiue'[i].status) =>
                         IsFinal(tiue[i].status) \/ Accounted(i)'
  BY <1>2, <1>4, <1>6
<1> QED BY <1>0, <1>1, <1>5, <1>6, <1>7, RowsUpdated

\* A process response makes an INITIATED TIE an executing one, and the TCE of a
\* TIE that a Worker has is ongoing.
LEMMA ResponseRight ==
  ASSUME IInv, Next, NEW i \in TIE, Response(i)
  PROVE  TablesRight
<1>0. TypeOK /\ OnePlace /\ EndsForAReason
  BY DEF IInv
<1>1. /\ tiue' = StatusOfResponse(i)
      /\ tcue' = [tcue EXCEPT ![Parent[i]].status = EXECUTING]
      /\ tiQueue' = tiQueue /\ sent[i] > 0
  BY DEF Response
<1>2. HasRow(i) /\ tcue[Parent[i]].status # NoRow
  BY <1>0, <1>1 DEF IInv, SentRows, OnePlace
<1>3. \A j \in TIE : \/ tiue'[j] = tiue[j]
                     \/ /\ j = i /\ tiue[j].status = INITIATED
                        /\ tiue'[j] = [status |-> EXECUTING, end |-> "future"]
  BY <1>0, <1>1 DEF StatusOfResponse, TypeOK
<1>4. \A c \in TCE : tcue'[c].status =
                       IF c = Parent[i] THEN EXECUTING ELSE tcue[c].status
  BY <1>0, <1>1, RowTypes DEF TypeOK
<1>5. \A c \in TCE : tcue'[c].status = NoRow <=> tcue[c].status = NoRow
  BY <1>2, <1>4, StatusNumbers
<1>6. \A j \in TIE : HasRow(j)' <=> HasRow(j)
  BY <1>3, StatusNumbers DEF HasRow
<1>7. \A j \in TIE : Accounted(j) => Accounted(j)'
  BY <1>0, <1>1, <1>3, AccountedStays
<1>8. \A j \in TIE : IsFinal(tiue'[j].status) <=> IsFinal(tiue[j].status)
  BY <1>0, <1>3, RowTypes
<1> QED BY <1>0, <1>1, <1>5, <1>6, <1>7, <1>8, RowsUpdated

\* The expected end of a TIE passes.
LEMMA TimePassesRight ==
  ASSUME IInv, Next, NEW i \in TIE, TimePasses(i)
  PROVE  TablesRight
<1>0. TypeOK /\ OnePlace /\ EndsForAReason
  BY DEF IInv
<1>1. /\ tiue' = [tiue EXCEPT ![i].end = "past"]
      /\ tiQueue' = tiQueue /\ tcue' = tcue
  BY DEF TimePasses
<1>2. \A j \in TIE : /\ tiue'[j].end = IF j = i THEN "past" ELSE tiue[j].end
                     /\ tiue'[j].status = tiue[j].status
  BY <1>0, <1>1, RowTypes DEF TypeOK
<1>3. \A j \in TIE : Accounted(j) => Accounted(j)'
  BY <1>0, <1>2, AccountedStays
<1> QED BY <1>0, <1>1, <1>2, <1>3, RowsUpdated DEF HasRow

\* A timeout is written to a row that exists, of a TIE that may end.
LEMMA TimedOutRight ==
  ASSUME IInv, Next, NEW t \in Tracks, TimedOut(t)
  PROVE  TablesRight
<1>0. TypeOK /\ OnePlace /\ EndsForAReason
  BY DEF IInv
<1>1. PICK i \in Head(chan[t]).ties : tiue' = StatusOfTimedOut(i)
  BY DEF TimedOut
<1>2. tiQueue' = tiQueue /\ tcue' = tcue /\ chan[t] # <<>>
  BY DEF TimedOut, Ready
<1>3. i \in TIE /\ HasRow(i) /\ Accounted(i)
  <2>1. Head(chan[t]) \in Command /\ Head(chan[t]) \in OnChannels(chan)
    BY <1>0, <1>2, PoppedType, PoppedCommands
  <2> QED BY <1>1, <2>1 DEF IInv, CommandRows, Command
<1>4. PICK s \in Statuses : IsFinal(s) /\ tiue' = [tiue EXCEPT ![i].status = s]
  <2> DEFINE s == IF i \in ReExecutable THEN TIMEOUT_INTERRUPTION_CAN_BE_RERUN
                                        ELSE TIMEOUT_INTERRUPTION
  <2>1. s \in Statuses /\ IsFinal(s)
    BY DEF Statuses, IsFinal, INITIATED, TIMEOUT_INTERRUPTION_CAN_BE_RERUN,
       TIMEOUT_INTERRUPTION, CONTROLLED_INTERRUPTION
  <2>2. tiue' = [tiue EXCEPT ![i].status = s]
    BY <1>1 DEF StatusOfTimedOut
  <2> HIDE DEF s
  <2> QED BY <2>1, <2>2
<1>5. \A j \in TIE : /\ tiue'[j].end = tiue[j].end
                     /\ tiue'[j].status = IF j = i THEN s ELSE tiue[j].status
  BY <1>0, <1>3, <1>4, RowTypes DEF TypeOK
<1>6. \A j \in TIE : HasRow(j)' <=> HasRow(j)
  BY <1>3, <1>5, StatusNumbers DEF HasRow
<1>7. \A j \in TIE : Accounted(j) => Accounted(j)'
  BY <1>0, <1>5, AccountedStays
<1>8. /\ \A j \in TIE : IsFinal(tiue[j].status) => IsFinal(tiue'[j].status)
      /\ \A j \in TIE : IsFinal(tiue'[j].status) =>
                         IsFinal(tiue[j].status) \/ Accounted(j)'
  BY <1>3, <1>4, <1>5, <1>7
<1> QED BY <1>0, <1>2, <1>6, <1>7, <1>8, RowsUpdated

\* No step takes a row back, misplaces a TIE or ends one without a reason.
LEMMA TablesStayRight ==
  ASSUME IInv, Next
  PROVE  TablesRight
<1>1. CASE DatabaseStep
  BY <1>1, SaveTestCasesRight, MoveToOngoingRight, CommitSentRight,
     UpdateTestCasesRight, CommitResultRight, ResponseRight, TimePassesRight,
     TimedOutRight DEF DatabaseStep
<1>2. CASE UNCHANGED <<tcue, tiQueue, tiue>>
  <2>1. TypeOK /\ OnePlace /\ EndsForAReason
    BY DEF IInv
  <2>2. \A i \in TIE : Accounted(i) => Accounted(i)'
    BY <1>2, <2>1, AccountedStays
  <2> QED BY <1>2, <2>1, <2>2, RowsUpdated DEF HasRow
<1> QED BY <1>1, <1>2, OnlyDatabaseSteps

-----------------------------------------------------------------------------
(* What is under way stays about rows that exist *)

\* Commands stay about rows.
LEMMA CommandRowsStay ==
  ASSUME IInv, Next
  PROVE  CommandRows'
<1>0. TypeOK /\ Kept
  BY TablesStayRight DEF IInv, TablesRight
<1> SUFFICES ASSUME NEW cmd \in OnChannels(chan'), NEW i \in cmd.ties
             PROVE  HasRow(i)' /\ Accounted(i)'
  BY DEF CommandRows, OnChannels
<1>1. CASE cmd \in OnChannels(chan)
  <2>1. i \in TIE
    <3>1. cmd \in Command
      BY <1>0, <1>1 DEF OnChannels, TypeOK
    <3> QED BY <3>1 DEF Command
  <2> QED BY <1>0, <1>1, <2>1 DEF IInv, CommandRows, Kept
<1>2. ASSUME NEW t \in Tracks, NEW j \in TIE, CannotBeSent(t, j),
             NEW first \in Batch(handler[t]), cmd.ties = {first},
             first \in faults'.unsendable
      PROVE  HasRow(i)' /\ Accounted(i)'
  <2>1. i = first /\ i \in TIE
    BY <1>0, <1>2, RowTypes DEF Handler, Batch
  <2>2. HasRow(i)
    BY <1>2, <2>1 DEF IInv, HandlerRows, AboutRows, CannotBeSent, WorksOn
  <2> QED BY <1>0, <1>2, <2>1, <2>2 DEF Kept, Accounted
<1>3. ASSUME NEW t \in Tracks, SendZombiesTimedOut(t), NEW j \in handler[t].ties,
             cmd.ties = {j}
      PROVE  HasRow(i)' /\ Accounted(i)'
  <2>1. i = j /\ i \in TIE
    BY <1>0, <1>3, RowTypes DEF Handler
  <2>2. HasRow(i) /\ Accounted(i)
    BY <1>3, <2>1 DEF IInv, HandlerRows, AboutRows, SendZombiesTimedOut, WorksOn
  <2> QED BY <1>0, <2>1, <2>2 DEF Kept
<1> QED BY <1>0, <1>1, <1>2, <1>3, NewCommands

\* Workers still have only TIEs with a row.
LEMMA SentRowsStay ==
  ASSUME IInv, Next
  PROVE  SentRows'
<1>0. TypeOK /\ Kept
  BY TablesStayRight DEF IInv, TablesRight
<1>1. CASE sent' = sent
  BY <1>0, <1>1 DEF IInv, SentRows, Kept
<1>2. ASSUME NEW t \in Tracks, NEW i \in TIE,
             SentToWorker(t, i) \/ RefusedByWorker(t, i)
      PROVE  SentRows'
  <2>1. i \in Batch(handler[t]) /\ WorksOn(t, "CheckWaitingToBeSent")
    BY <1>2 DEF SentToWorker, RefusedByWorker, IsLowest, Batch
  <2>2. HasRow(i)
    BY <2>1 DEF IInv, HandlerRows, AboutRows, WorksOn
  <2>3. \A j \in TIE : sent'[j] > 0 => j = i \/ sent[j] > 0
    BY <1>0, <1>2, AttemptsMean
  <2> QED BY <1>0, <2>2, <2>3 DEF IInv, SentRows, Kept
<1> QED BY <1>0, <1>1, <1>2, EnvironmentKept

\* A final result that is not written yet was under way before, comes from a
\* Worker that has the TIE, or is the engine's own.
LEMMA NewResults ==
  ASSUME TypeOK, Next, NEW r \in Results, result'[r].phase \in {"received", "open"}
  PROVE  \/ /\ result[r].phase \in {"received", "open"}
            /\ result'[r].status = result[r].status
         \/ sent[r[1]] > 0 /\ IsFinal(result'[r].status)
         \/ /\ \E t \in Tracks : ReportProblem(t) /\ r[1] \in Head(chan[t]).ties
            /\ IsFinal(result'[r].status)
<1> DEFINE Old == /\ result[r].phase \in {"received", "open"}
                  /\ result'[r].status = result[r].status
           FromWorker == sent[r[1]] > 0 /\ IsFinal(result'[r].status)
           FromEngine(t) == /\ ReportProblem(t) /\ r[1] \in Head(chan[t]).ties
                            /\ IsFinal(result'[r].status)
<1>0. result \in [Results -> [phase: Phases, status: Statuses \cup {NoRow},
                             more: BOOLEAN]]
  BY DEF TypeOK
<1>1. ASSUME result' = result PROVE Old
  BY <1>1
<1>2. ASSUME NEW q \in Results, NEW phase \in {"waiting", "replied", "done"},
             result' = [result EXCEPT ![q].phase = phase]
      PROVE  Old
  BY <1>0, <1>2
<1>3. ASSUME NEW cmd, cmd.reply \in Results \cup {NoReply},
             NEW phase \in {"replied", "done"}, result' = Answered(cmd, phase)
      PROVE  Old
  BY <1>1, <1>2, <1>3 DEF Answered
<1>4. ASSUME NEW i \in TIE, NEW k \in 1 .. MaxReports, WorkerReports(i, k)
      PROVE  Old \/ FromWorker
  <2>1. PICK s \in ReportStatuses :
          result' = [result EXCEPT ![<<i, k>>] =
                       [phase |-> IF IsFinal(s) THEN "received" ELSE "done",
                        status |-> s, more |-> FALSE]]
    BY <1>4 DEF WorkerReports
  <2>2. sent[i] > 0
    BY <1>4 DEF WorkerReports
  <2>3. CASE r = <<i, k>>
    <3>1. result'[r] = [phase |-> IF IsFinal(s) THEN "received" ELSE "done",
                        status |-> s, more |-> FALSE]
      BY <1>0, <2>1, <2>3
    <3>2. IsFinal(s)
      BY <3>1
    <3> QED BY <2>2, <2>3, <3>1, <3>2
  <2>4. CASE r # <<i, k>>
    BY <1>0, <2>1, <2>4
  <2> QED BY <2>3, <2>4
<1>5. ASSUME NEW q \in Results, Reporter(q) PROVE Old
  <2>1. CASE OpenResult(q)
    <3>1. PICK more \in BOOLEAN :
            result' = [result EXCEPT ![q].phase = "open", ![q].more = more]
      BY <2>1 DEF OpenResult, ContinueAfter
    <3>2. result[q].phase = "received"
      BY <2>1 DEF OpenResult
    <3> QED BY <1>0, <3>1, <3>2
  <2>2. CASE CommitResult(q)
    BY <1>2, <2>2 DEF CommitResult, AsPhase
  <2>3. CASE TriggerNext(q)
    BY <1>2, <2>3 DEF TriggerNext, AsPhase
  <2> QED BY <1>5, <2>1, <2>2, <2>3 DEF Reporter
<1>6. ASSUME NEW t \in Tracks, ReportProblem(t) PROVE Old \/ FromEngine(t)
  <2>1. result'[r] = IF r[1] \in Head(chan[t]).ties /\ r[2] = 0
                     THEN [phase |-> "received", more |-> FALSE,
                           status |-> UNEXPECTED_INTERRUPTION_CAN_BE_RERUN]
                     ELSE result[r]
    BY <1>6 DEF ReportProblem
  <2>2. IsFinal(UNEXPECTED_INTERRUPTION_CAN_BE_RERUN)
    BY DEF IsFinal, UNEXPECTED_INTERRUPTION_CAN_BE_RERUN, CONTROLLED_INTERRUPTION
  <2> QED BY <1>6, <2>1, <2>2
<1>7. ASSUME NEW t \in Tracks, UpdateTestCases(t) \/ RolledBack(t) PROVE Old
  <2>1. handler[t].cmd.reply \in Results \cup {NoReply}
    BY DEF TypeOK, Handler
  <2> QED BY <1>3, <1>7, <2>1 DEF UpdateTestCases, RolledBack
<1>8. ASSUME NEW t \in Tracks, FailedLoad(t) PROVE Old
  <2>1. Head(chan[t]).reply \in Results \cup {NoReply}
    BY <1>8, PoppedType DEF FailedLoad, Command
  <2> QED BY <1>3, <1>8, <2>1 DEF FailedLoad
<1>9. ASSUME NEW q \in Results, ResultRolledBack(q) PROVE Old
  BY <1>2, <1>9 DEF ResultRolledBack, AsPhase
<1>10. ASSUME CrashAndRestart PROVE Old
  <2>1. result'[r] = IF result[r].phase = "none" THEN result[r]
                     ELSE [result[r] EXCEPT !.phase = "done"]
    BY <1>10 DEF CrashAndRestart
  <2>2. ASSUME result[r].phase # "none" PROVE result'[r].phase = "done"
    BY <1>0, <2>1, <2>2
  <2> QED BY <2>1, <2>2
<1> HIDE DEF Old, FromWorker, FromEngine
<1>11. ASSUME NEW t \in Tracks, Reader(t) PROVE Old \/ FromEngine(t)
  <2>1. \/ result' = result \/ UpdateTestCases(t) \/ ReportProblem(t)
    BY <1>11 DEF Reader, OtherCommand, LoadTestCases, SaveTestCases, TestCasesAlreadySaved,
       LoadQueue, NothingOnQueue, MoveToOngoing, AlreadyMoved, LoadWaiting,
       NothingWaiting, CommitSent, SentToWorker, RefusedByWorker, CannotBeSent,
       LoadStatuses, TimedOut, LoadZombies, LoadScan,
       SendAllZombiesUnderExecution, SendZombieTestCasesOnQueue,
       SendForRow, SendAllZombiesOnQueue, SendZombiesTimedOut, EndScan
  <2> QED BY <1>1, <1>6, <1>7, <2>1
<1>12. Old \/ FromWorker \/ \E t \in Tracks : FromEngine(t)
  <2>1. ASSUME \/ \E cs \in Informs : Inform(cs)
               \/ \E i \in TIE : Response(i) \/ TimePasses(i)
        PROVE  result' = result
    BY <2>1 DEF Inform, Response, TimePasses, environment
  <2> QED BY <1>1, <1>4, <1>5, <1>7, <1>8, <1>9, <1>10, <1>11, <2>1
          DEF Next, Surroundings, Worker, Fault
<1> QED BY <1>12 DEF Old, FromWorker, FromEngine

\* Final results stay about rows.
LEMMA ResultRowsStay ==
  ASSUME IInv, Next
  PROVE  ResultRows'
<1>0. TypeOK /\ Kept
  BY TablesStayRight DEF IInv, TablesRight
<1> SUFFICES ASSUME NEW r \in Results, result'[r].phase \in {"received", "open"}
             PROVE  HasRow(r[1])' /\ Accounted(r[1])' /\ IsFinal(result'[r].status)
  BY DEF ResultRows
<1>1. r[1] \in TIE
  BY <1>0, RowTypes
<1>2. CASE /\ result[r].phase \in {"received", "open"}
           /\ result'[r].status = result[r].status
  BY <1>0, <1>1, <1>2 DEF IInv, ResultRows, Kept
<1>3. CASE sent[r[1]] > 0 /\ IsFinal(result'[r].status)
  BY <1>0, <1>1, <1>3 DEF IInv, SentRows, Kept, Accounted
<1>4. ASSUME NEW t \in Tracks, ReportProblem(t), r[1] \in Head(chan[t]).ties
      PROVE  HasRow(r[1])' /\ Accounted(r[1])'
  <2>1. Head(chan[t]) \in OnChannels(chan)
    BY <1>0, <1>4, PoppedCommands DEF ReportProblem, Ready
  <2> QED BY <1>0, <1>1, <1>4, <2>1 DEF IInv, CommandRows, Kept
<1> QED BY <1>0, <1>2, <1>3, <1>4, NewResults

\* What a handler has read stays so after a step that leaves it alone.
LEMMA AboutRowsStays ==
  ASSUME TypeOK, Kept, NEW t \in Tracks, NEW h \in Handler, handler'[t] = h,
         AboutRows(h)
  PROVE  AboutRows(handler[t])'
<1>1. /\ h.ties \in SUBSET TIE /\ Batch(h) \in SUBSET TIE
      /\ h.acked \in SUBSET TIE /\ h.messages \in SUBSET Message
  BY DEF Handler, Batch
<1>2. /\ \A i \in TIE : Parent[i] \in TCE
      /\ \A m \in Message : m.tce \in TCE
  BY ModelAssumption DEF Message
<1>3. h.cmd.kind = "CheckQueue" =>
        \A i \in h.ties : tcue'[Parent[i]].status # NoRow
  BY <1>1, <1>2 DEF AboutRows, Kept
<1>4. h.cmd.kind = "CheckWaitingToBeSent" => \A i \in Batch(h) : HasRow(i)'
  BY <1>1 DEF AboutRows, Kept
<1>5. h.cmd.kind = "ZombiesTimedOut" =>
        \A i \in h.ties : HasRow(i)' /\ Accounted(i)'
  BY <1>1 DEF AboutRows, Kept
<1>6. \A i \in h.acked : sent'[i] > 0
  BY <1>1 DEF AboutRows, Kept
<1>7. \A m \in h.messages : tcue'[m.tce].status # NoRow
  BY <1>1, <1>2 DEF AboutRows, Kept
<1> QED BY <1>3, <1>4, <1>5, <1>6, <1>7 DEF AboutRows, Batch

\* A handler that has read nothing that the invariant speaks of.
LEMMA NothingRead ==
  ASSUME NEW h,
         h.cmd.kind \notin {"CheckQueue", "CheckWaitingToBeSent", "ZombiesTimedOut"},
         h.acked = {}, h.messages = {}
  PROVE  AboutRows(h)
BY DEF AboutRows

\* The first read of a handler: it finds rows that exist.
LEMMA LoadsAreAboutRows ==
  ASSUME IInv, NEW t \in Tracks,
         \/ LoadTestCases(t) \/ LoadQueue(t) \/ LoadWaiting(t)
         \/ LoadStatuses(t) \/ LoadZombies(t)
  PROVE  AboutRows(handler[t]) => AboutRows(handler'[t])
<1>0. TypeOK /\ OnePlace /\ handler \in [Tracks -> Handler]
  BY DEF IInv, TypeOK
<1>1. CASE LoadTestCases(t)
  <2>1. \/ handler' = handler
        \/ handler' = [handler EXCEPT ![t] =
             [Working(Head(chan[t])) EXCEPT !.tces =
                TestCaseExecutionQueueRows(Head(chan[t]))]]
    BY <1>1 DEF LoadTestCases, Start
  <2>2. Head(chan[t]).kind = "ProcessTestCases"
    BY <1>1 DEF LoadTestCases, Ready
  <2>3. CASE handler' = handler
    BY <2>3
  <2>4. CASE handler' = [handler EXCEPT ![t] =
             [Working(Head(chan[t])) EXCEPT !.tces =
                TestCaseExecutionQueueRows(Head(chan[t]))]]
    BY <1>0, <2>2, <2>4, NothingRead DEF Working, Idle
  <2> QED BY <2>1, <2>3, <2>4
<1>2. CASE LoadQueue(t)
  <2>1. PICK S \in FirstOfEachTestCase(OnQueue(Head(chan[t]))) :
          handler' = [handler EXCEPT ![t] =
                        [Working(Head(chan[t])) EXCEPT !.ties = S]]
    BY <1>2 DEF LoadQueue, Start
  <2>2. Head(chan[t]).kind = "CheckQueue"
    BY <1>2 DEF LoadQueue, Ready
  <2>3. S \subseteq tiQueue
    BY DEF FirstOfEachTestCase, OnQueue
  <2>4. \A i \in S : tcue[Parent[i]].status # NoRow
    BY <1>0, <2>3 DEF OnePlace, TypeOK
  <2>5. /\ handler'[t].cmd.kind = "CheckQueue" /\ handler'[t].ties = S
        /\ handler'[t].acked = {} /\ handler'[t].messages = {}
    BY <1>0, <2>1, <2>2 DEF Working, Idle
  <2> QED BY <2>4, <2>5 DEF AboutRows
<1>3. CASE LoadWaiting(t)
  <2> DEFINE S == WaitingToBeSent(Head(chan[t]))
  <2>1. handler' = [handler EXCEPT ![t] =
                      [Working(Head(chan[t])) EXCEPT !.ties = S]]
    BY <1>3 DEF LoadWaiting, Start
  <2>2. Head(chan[t]).kind = "CheckWaitingToBeSent"
    BY <1>3 DEF LoadWaiting, Ready
  <2>3. \A i \in S : HasRow(i)
    BY StatusNumbers DEF WaitingToBeSent, HasRow
  <2> HIDE DEF S
  <2>4. /\ handler'[t].cmd.kind = "CheckWaitingToBeSent" /\ handler'[t].ties = S
        /\ handler'[t].acked = {} /\ handler'[t].nacked = {}
        /\ handler'[t].messages = {}
    BY <1>0, <2>1, <2>2 DEF Working, Idle
  <2> QED BY <2>3, <2>4 DEF AboutRows, Batch
<1>4. CASE LoadStatuses(t)
  <2> DEFINE M == StatusMessages(Head(chan[t]).tces)
  <2>1. handler' = [handler EXCEPT ![t] =
                      [Working(Head(chan[t])) EXCEPT !.messages = M]]
    BY <1>4 DEF LoadStatuses, Start
  <2>2. Head(chan[t]).kind = "UpdateTestCaseStatus" /\ Head(chan[t]).tces \in SUBSET TCE
    BY <1>0, <1>4, PoppedType DEF LoadStatuses, Ready, Command
  <2>3. \A m \in M : tcue[m.tce].status # NoRow
    BY <1>0, <2>2, MessagesAreForRows DEF OnePlace, RowsOf
  <2> HIDE DEF M
  <2>4. /\ handler'[t].cmd.kind = "UpdateTestCaseStatus"
        /\ handler'[t].acked = {} /\ handler'[t].messages = M
    BY <1>0, <2>1, <2>2 DEF Working, Idle
  <2> QED BY <2>3, <2>4 DEF AboutRows
<1>5. CASE LoadZombies(t)
  <2>1. ASSUME NEW kind \in Scans, NEW cs, NEW is, LoadScan(t, kind, cs, is)
        PROVE  /\ handler'[t].cmd.kind = kind /\ handler'[t].ties = is
               /\ handler'[t].acked = {} /\ handler'[t].messages = {}
    <3>1. PICK track \in Tracks :
            handler' = [handler EXCEPT ![t] =
                          [Working(Head(chan[t])) EXCEPT
                             !.tces = cs, !.ties = is, !.track = track]]
      BY <2>1 DEF LoadScan, Start
    <3>2. Head(chan[t]).kind = kind
      BY <2>1 DEF LoadScan, Ready
    <3> QED BY <1>0, <3>1, <3>2 DEF Working, Idle
  <2>2. \A i \in ZombiesTimedOut : HasRow(i) /\ Accounted(i)
    BY DEF ZombiesTimedOut, Accounted, HasRow, IsOngoing, INITIATED, EXECUTING, NoRow
  <2>3. CASE LoadScan(t, "ZombiesTimedOut", {}, ZombiesTimedOut)
    BY <2>1, <2>2, <2>3 DEF Scans, AboutRows
  <2>4. ASSUME NEW kind \in Scans \ {"ZombiesTimedOut"}, NEW cs, NEW is,
               LoadScan(t, kind, cs, is)
        PROVE  AboutRows(handler'[t])
    BY <2>1, <2>4, NothingRead DEF Scans
  <2> QED BY <1>5, <2>3, <2>4 DEF LoadZombies, Scans
<1> QED BY <1>1, <1>2, <1>3, <1>4, <1>5

\* A handler that goes on working knows of no more rows than before, except that
\* a Worker has taken one of them.
LEMMA WorkIsAboutRows ==
  ASSUME TypeOK, NEW t \in Tracks, AboutRows(handler[t]),
         \/ \E i \in TIE : RefusedByWorker(t, i)
         \/ SendAllZombiesUnderExecution(t) \/ SendZombieTestCasesOnQueue(t)
         \/ SendAllZombiesOnQueue(t) \/ SendZombiesTimedOut(t)
  PROVE  AboutRows(handler'[t])
<1>0. handler \in [Tracks -> Handler] /\ handler[t] \in Handler
  BY DEF TypeOK
<1>1. ASSUME NEW i \in TIE, RefusedByWorker(t, i) PROVE AboutRows(handler'[t])
  <2>1. /\ handler' = [handler EXCEPT ![t] =
             [handler[t] EXCEPT !.ties = @ \ {i}, !.nacked = @ \cup {i}]]
        /\ handler[t].cmd.kind = "CheckWaitingToBeSent" /\ i \in handler[t].ties
    BY <1>1 DEF RefusedByWorker, Start, WorksOn, IsLowest
  <2>2. /\ handler'[t].cmd = handler[t].cmd
        /\ handler'[t].ties = handler[t].ties \ {i}
        /\ handler'[t].nacked = handler[t].nacked \cup {i}
        /\ handler'[t].acked = handler[t].acked
        /\ handler'[t].messages = handler[t].messages
    BY <1>0, <2>1 DEF Handler
  <2>3. Batch(handler'[t]) = Batch(handler[t])
    BY <2>1, <2>2 DEF Batch
  <2> QED BY <2>1, <2>2, <2>3 DEF AboutRows
<1>2. ASSUME SendZombieTestCasesOnQueue(t) PROVE AboutRows(handler'[t])
  <2>1. PICK c \in TCE :
          handler' = [handler EXCEPT ![t] = [handler[t] EXCEPT !.tces = @ \ {c}]]
    BY <1>0, <1>2 DEF SendZombieTestCasesOnQueue, Start, Handler
  <2>2. /\ handler'[t].cmd = handler[t].cmd
        /\ handler'[t].ties = handler[t].ties
        /\ handler'[t].nacked = handler[t].nacked
        /\ handler'[t].acked = handler[t].acked
        /\ handler'[t].messages = handler[t].messages
    BY <1>0, <2>1 DEF Handler
  <2> QED BY <2>2 DEF AboutRows, Batch
<1>3. ASSUME \/ SendAllZombiesUnderExecution(t) \/ SendAllZombiesOnQueue(t)
             \/ SendZombiesTimedOut(t)
      PROVE  AboutRows(handler'[t])
  <2>1. PICK i \in TIE :
          handler' = [handler EXCEPT ![t] = [handler[t] EXCEPT !.ties = @ \ {i}]]
    BY <1>0, <1>3 DEF SendAllZombiesUnderExecution, SendAllZombiesOnQueue,
       SendForRow, SendZombiesTimedOut, Start, Handler
  <2>2. /\ handler'[t].cmd = handler[t].cmd
        /\ handler'[t].ties = handler[t].ties \ {i}
        /\ handler'[t].nacked = handler[t].nacked
        /\ handler'[t].acked = handler[t].acked
        /\ handler'[t].messages = handler[t].messages
    BY <1>0, <2>1 DEF Handler
  <2> QED BY <2>2 DEF AboutRows, Batch
<1> QED BY <1>1, <1>2, <1>3

\* A Worker takes a TIE, which it then has.
LEMMA SentToWorkerIsAboutRows ==
  ASSUME IInv, Next, NEW t \in Tracks, NEW i \in TIE, SentToWorker(t, i)
  PROVE  AboutRows(handler[t])'
<1>0. TypeOK /\ Kept /\ handler[t] \in Handler /\ sent \in [TIE -> Nat]
  BY TablesStayRight DEF IInv, TablesRight, TypeOK
<1>1. /\ handler' = [handler EXCEPT ![t] =
           [handler[t] EXCEPT !.ties = @ \ {i}, !.acked = @ \cup {i}]]
      /\ handler[t].cmd.kind = "CheckWaitingToBeSent" /\ i \in handler[t].ties
  BY DEF SentToWorker, Start, WorksOn, IsLowest
<1>2. handler \in [Tracks -> Handler]
  BY <1>0 DEF TypeOK
<1>3. /\ handler'[t].cmd = handler[t].cmd
      /\ handler'[t].ties = handler[t].ties \ {i}
      /\ handler'[t].nacked = handler[t].nacked
      /\ handler'[t].acked = handler[t].acked \cup {i}
      /\ handler'[t].messages = handler[t].messages
  BY <1>1, <1>2 DEF Handler
<1>4. Batch(handler[t])' = Batch(handler[t]) /\ Batch(handler[t]) \in SUBSET TIE
  BY <1>0, <1>1, <1>3 DEF Batch, Handler
<1>5. AboutRows(handler[t])
  BY DEF IInv, HandlerRows
<1>6. \A j \in Batch(handler[t]) : HasRow(j)'
  BY <1>0, <1>1, <1>4, <1>5 DEF AboutRows, Kept
<1>7. \A j \in handler'[t].acked : sent'[j] > 0
  <2>1. sent'[i] > 0
    BY <1>0, AttemptsMean
  <2>2. \A j \in handler[t].acked : j \in TIE /\ sent[j] > 0
    BY <1>0, <1>5 DEF AboutRows, Handler
  <2> QED BY <1>0, <1>3, <2>1, <2>2 DEF Kept
<1>8. \A m \in handler'[t].messages : tcue'[m.tce].status # NoRow
  <2>1. \A m \in handler[t].messages : m.tce \in TCE /\ tcue[m.tce].status # NoRow
    BY <1>0, <1>5 DEF AboutRows, Handler, Message
  <2> QED BY <1>0, <1>3, <2>1 DEF Kept
<1> QED BY <1>1, <1>3, <1>4, <1>6, <1>7, <1>8 DEF AboutRows

\* A step of a reader leaves its handler with nothing but rows that exist.
LEMMA ReaderIsAboutRows ==
  ASSUME IInv, NEW t \in Tracks, Reader(t)
  PROVE  \/ AboutRows(handler'[t])
         \/ \E i \in TIE : SentToWorker(t, i)
<1>0. TypeOK /\ handler \in [Tracks -> Handler] /\ AboutRows(handler[t])
  BY DEF IInv, TypeOK, HandlerRows
<1>1. AboutRows(Idle)
  BY NothingRead DEF Idle, Scan, ForTCEs
<1>2. ASSUME handler' = handler \/ handler' = [handler EXCEPT ![t] = Idle]
      PROVE  AboutRows(handler'[t])
  BY <1>0, <1>1, <1>2
<1>3. ASSUME \/ SaveTestCases(t) \/ TestCasesAlreadySaved(t) \/ NothingOnQueue(t)
             \/ MoveToOngoing(t) \/ AlreadyMoved(t) \/ NothingWaiting(t)
             \/ CommitSent(t) \/ UpdateTestCases(t) \/ ReportProblem(t)
             \/ TimedOut(t) \/ EndScan(t) \/ \E i \in TIE : CannotBeSent(t, i)
      PROVE  handler' = handler \/ handler' = [handler EXCEPT ![t] = Idle]
  BY <1>3 DEF SaveTestCases, TestCasesAlreadySaved, NothingOnQueue, MoveToOngoing,
     AlreadyMoved, NothingWaiting, CommitSent, UpdateTestCases, ReportProblem,
     TimedOut, EndScan, CannotBeSent, Stop, Start
<1> QED BY <1>0, <1>2, <1>3, LoadsAreAboutRows, WorkIsAboutRows DEF Reader, OtherCommand

\* Only its own reader, or a crash, changes what a track's handler is doing.
LEMMA NewHandlers ==
  ASSUME TypeOK, Next, NEW t \in Tracks
  PROVE  \/ handler'[t] = handler[t] \/ handler'[t] = Idle
         \/ Reader(t)
<1>0. handler \in [Tracks -> Handler]
  BY DEF TypeOK
<1>1. ASSUME NEW u \in Tracks, NEW h, Start(u, h), u # t
      PROVE  handler'[t] = handler[t]
  BY <1>0, <1>1 DEF Start
<1>2. ASSUME NEW u \in Tracks, Reader(u), u # t
      PROVE  handler'[t] = handler[t]
  <2>1. handler' = handler \/ \E h : Start(u, h)
    BY <1>2 DEF Reader, OtherCommand, LoadTestCases, SaveTestCases, TestCasesAlreadySaved,
       LoadQueue, NothingOnQueue, MoveToOngoing, AlreadyMoved, LoadWaiting,
       NothingWaiting, CommitSent, SentToWorker, RefusedByWorker, CannotBeSent,
       LoadStatuses, UpdateTestCases, ReportProblem, TimedOut, LoadZombies,
       LoadScan, SendAllZombiesUnderExecution, SendZombieTestCasesOnQueue,
       SendForRow, SendAllZombiesOnQueue, SendZombiesTimedOut, EndScan, Stop
  <2> QED BY <1>1, <1>2, <2>1
<1>3. ASSUME Fault PROVE handler'[t] = handler[t] \/ handler'[t] = Idle
  <2>1. ASSUME NEW u \in Tracks, FailedLoad(u) \/ RolledBack(u)
        PROVE  handler' = handler \/ handler' = [handler EXCEPT ![u] = Idle]
    BY <2>1 DEF FailedLoad, RolledBack, Stop, Start
  <2>2. ASSUME NEW r \in Results, ResultRolledBack(r) PROVE handler' = handler
    BY <2>2 DEF ResultRolledBack
  <2>3. CASE CrashAndRestart
    BY <2>3 DEF CrashAndRestart
  <2> QED BY <1>0, <1>3, <2>1, <2>2, <2>3 DEF Fault
<1>4. ASSUME \/ \E cs \in Informs : Inform(cs)
             \/ \E r \in Results : Reporter(r)
             \/ Worker \/ \E i \in TIE : TimePasses(i)
      PROVE  handler' = handler
  BY <1>4 DEF Inform, Reporter, OpenResult, CommitResult, TriggerNext, Worker,
     WorkerReports, Response, TimePasses
<1> QED BY <1>2, <1>3, <1>4 DEF Next, Surroundings

\* Handlers stay about rows.
LEMMA HandlerRowsStay ==
  ASSUME IInv, Next
  PROVE  HandlerRows'
<1>0. TypeOK /\ TypeOK' /\ Kept
  BY TablesStayRight, TypeStep DEF IInv, TablesRight
<1> SUFFICES ASSUME NEW t \in Tracks PROVE AboutRows(handler[t])'
  BY DEF HandlerRows
<1>1. handler'[t] \in Handler
  BY <1>0 DEF TypeOK
<1>2. CASE AboutRows(handler'[t])
  BY <1>0, <1>1, <1>2, AboutRowsStays
<1>3. ASSUME NEW i \in TIE, SentToWorker(t, i) PROVE AboutRows(handler[t])'
  BY <1>3, SentToWorkerIsAboutRows
<1>4. AboutRows(handler[t])
  BY DEF IInv, HandlerRows
<1>5. AboutRows(Idle)
  BY NothingRead DEF Idle, Scan, ForTCEs
<1> QED BY <1>0, <1>2, <1>3, <1>4, <1>5, NewHandlers, ReaderIsAboutRows

-----------------------------------------------------------------------------
(* The theorems *)

\* Every step keeps the inductive invariant.
LEMMA InvariantStays ==
  ASSUME IInv, Next
  PROVE  IInv'
<1>1. TypeOK /\ OnePlace' /\ EndsForAReason'
  BY TablesStayRight DEF IInv, TablesRight
<1> QED BY <1>1, TypeStep, CommandRowsStay, HandlerRowsStay, SentRowsStay,
           ResultRowsStay DEF IInv

\* Initially nothing has a row and nothing is under way.
LEMMA InvariantAtFirst == Init => IInv
<1> SUFFICES ASSUME Init PROVE IInv
  OBVIOUS
<1>1. TypeOK
  BY TypeAtFirst
<1>2. OnePlace /\ EndsForAReason
  BY <1>1, RowTypes DEF Init, OnePlace, EndsForAReason, HasRow
<1>3. OnChannels(chan) = {}
  BY DEF Init, OnChannels
<1>4. HandlerRows
  BY NothingRead DEF Init, HandlerRows, Idle, Scan, ForTCEs
<1> QED BY <1>1, <1>2, <1>3, <1>4 DEF Init, IInv, CommandRows, SentRows, ResultRows

\* So does a step that changes nothing.
LEMMA InvariantStutters ==
  ASSUME IInv, UNCHANGED vars
  PROVE  IInv'
<1>1. /\ tcQueue' = tcQueue /\ tcue' = tcue /\ tiQueue' = tiQueue
      /\ tiue' = tiue /\ chan' = chan /\ handler' = handler
      /\ result' = result /\ pending' = pending /\ sent' = sent
      /\ responded' = responded /\ faults' = faults
  BY DEF vars, database, environment
<1>2. TypeOK' /\ OnePlace' /\ EndsForAReason' /\ SentRows'
  BY <1>1 DEF IInv, TypeOK, OnePlace, EndsForAReason, SentRows, Accounted, HasRow
<1>3. CommandRows' /\ ResultRows'
  BY <1>1 DEF IInv, CommandRows, ResultRows, OnChannels, Accounted, HasRow
<1>4. HandlerRows'
  BY <1>1 DEF IInv, HandlerRows, AboutRows, Accounted, HasRow, Batch
<1> QED BY <1>2, <1>3, <1>4 DEF IInv

\* What is under way in the engine, on the channels, in the handlers, at the
\* Workers and in the goroutines of the results, is always about rows that
\* exist; and OnePlace and EndsForAReason hold.
THEOREM InvariantHolds == SafeSpec => []IInv
<1>1. IInv /\ [Next]_vars => IInv'
  BY InvariantStays, InvariantStutters
<1> QED BY <1>1, InvariantAtFirst, PTL DEF SafeSpec

\* While its TCE is ongoing a TIE has a row in exactly one of the queue and the
\* table of ongoing executions, and before that in neither, whichever tracks
\* work on the TCE and wherever their transactions are cut off.
THEOREM OnePlaceAlways == SafeSpec => []OnePlace
<1>1. IInv => OnePlace
  BY DEF IInv
<1> QED BY <1>1, InvariantHolds, PTL

\* A TIE ends only after a Worker has taken it, after the engine has reported
\* that it could not send it, or because its expected end has passed.
THEOREM EndsForAReasonAlways == SafeSpec => []EndsForAReason
<1>1. IInv => EndsForAReason
  BY DEF IInv
<1> QED BY <1>1, InvariantHolds, PTL

\* A TIE that has ended never becomes ongoing again, however late a Worker's
\* process response or the answer to the sending is written.
THEOREM FinalStaysAlways == SafeSpec => FinalStays
<1>1. IInv /\ [Next]_vars =>
        [\A i \in TIE : IsFinal(tiue[i].status) => IsFinal(tiue'[i].status)]_vars
  BY TablesStayRight DEF TablesRight, Kept
<1> QED BY <1>1, InvariantHolds, PTL DEF SafeSpec, FinalStays

-----------------------------------------------------------------------------
(* TIEs are started in the order of the model of their TCE *)

\* The guard of (A)'s query on 'UniqueCounter' does not tell the TIEs of one TCE
\* apart: it lets all of them pass or none.
CounterIsOfTestCase ==
  \A i, k, j \in TIE :
    Parent[i] = Parent[k] => (<<i, j>> \in SameCounter <=> <<k, j>> \in SameCounter)

Before(j, i) == Parent[j] = Parent[i] /\ Order[j] < Order[i]

\* What (A) has read from the queue is next in its TCE.
ReadInOrder ==
  \A t \in Tracks : handler[t].cmd.kind = "CheckQueue" =>
    \A i \in handler[t].ties, j \in TIE : Before(j, i) => HasRow(j)

-----------------------------------------------------------------------------
(* Rows appear only when (A) commits *)

\* Every other step that writes the table updates a row that exists.
LEMMA OnlyMovesAddRows ==
  ASSUME IInv, Next, NEW i \in TIE, HasRow(i)', ~ HasRow(i)
  PROVE  \E t \in Tracks : MoveToOngoing(t) /\ i \in handler[t].ties
<1>0. TypeOK /\ tiue \in [TIE -> [status: Statuses \cup {NoRow},
                                  end: {"null", "future", "past"}]]
  BY DEF IInv, TypeOK
<1>1. ASSUME tiue'[i] = tiue[i] PROVE FALSE
  BY <1>1 DEF HasRow
<1>2. ASSUME NEW t \in Tracks, CommitSent(t) PROVE FALSE
  <2>1. PICK last : tiue' = StatusOfLastSent(handler[t], last)
    BY <1>2 DEF CommitSent
  <2>2. tiue[i].status # INITIATED
    BY StatusNumbers DEF HasRow
  <2>3. tiue'[i] = tiue[i]
    BY <1>0, <2>1, <2>2 DEF StatusOfLastSent
  <2> QED BY <1>1, <2>3
<1>3. ASSUME NEW t \in Tracks, TimedOut(t) PROVE FALSE
  <2>1. PICK k \in Head(chan[t]).ties : tiue' = StatusOfTimedOut(k)
    BY <1>3 DEF TimedOut
  <2>2. chan[t] # <<>> /\ chan[t] \in Seq(Command)
    BY <1>0, <1>3 DEF TimedOut, Ready, TypeOK
  <2>3. Head(chan[t]) \in OnChannels(chan)
    BY <2>2 DEF OnChannels
  <2>4. HasRow(k)
    BY <2>1, <2>3 DEF IInv, CommandRows
  <2>5. k # i
    BY <2>4
  <2> QED BY <1>0, <1>1, <2>1, <2>5 DEF StatusOfTimedOut
<1>4. ASSUME NEW r \in Results, CommitResult(r) PROVE FALSE
  <2>1. tiue' = StatusOfReport(r[1], result[r].status) /\ r[1] # i
    BY <1>4 DEF CommitResult, IInv, ResultRows
  <2> QED BY <1>0, <1>1, <2>1 DEF StatusOfReport
<1>5. ASSUME NEW k \in TIE, Response(k) PROVE FALSE
  <2>1. tiue' = StatusOfResponse(k) /\ k # i
    BY <1>5 DEF Response, IInv, SentRows
  <2> QED BY <1>0, <1>1, <2>1 DEF StatusOfResponse
<1>6. ASSUME NEW k \in TIE, TimePasses(k) PROVE FALSE
  <2>1. tiue' = [tiue EXCEPT ![k].end = "past"]
    BY <1>6 DEF TimePasses
  <2>2. tiue'[i].status = tiue[i].status
    BY <1>0, <2>1
  <2> QED BY <2>2 DEF HasRow
<1>7. ASSUME NEW t \in Tracks, SaveTestCases(t) \/ UpdateTestCases(t) PROVE FALSE
  BY <1>1, <1>7 DEF SaveTestCases, UpdateTestCases
<1>8. ASSUME NEW t \in Tracks, MoveToOngoing(t) PROVE i \in handler[t].ties
  BY <1>1, <1>8 DEF MoveToOngoing, TestInstructionsUnderExecution
<1>9. DatabaseStep
  BY <1>1, OnlyDatabaseSteps
<1> QED BY <1>2, <1>3, <1>4, <1>5, <1>6, <1>7, <1>8, <1>9 DEF DatabaseStep

-----------------------------------------------------------------------------
(* What (A) reads *)

\* Of the rows of a TCE that its query returns, (A) takes the first, and the
\* query returns all rows of the TCE or none.
LEMMA QueueIsReadInOrder ==
  ASSUME CounterIsOfTestCase, IInv, NEW cmd, NEW S \in FirstOfEachTestCase(OnQueue(cmd)),
         NEW i \in S, NEW j \in TIE, Before(j, i)
  PROVE  HasRow(j)
<1>1. /\ i \in OnQueue(cmd)
      /\ \A k \in OnQueue(cmd) : Parent[i] = Parent[k] => Order[i] =< Order[k]
  BY DEF FirstOfEachTestCase
<1>2. i \in tiQueue /\ i \in TIE
  BY <1>1 DEF OnQueue, IInv, TypeOK
<1>3. Order[i] \in Nat /\ Order[j] \in Nat
  BY <1>2, ModelAssumption
<1>4. j \notin OnQueue(cmd)
  BY <1>1, <1>3 DEF Before
<1>5. j \notin tiQueue
  <2>1. Guarding(cmd) \subseteq TIE
    BY DEF Guarding
  <2>2. \A k \in Guarding(cmd) : <<i, k>> \in SameCounter <=> <<j, k>> \in SameCounter
    BY <1>2, <2>1 DEF CounterIsOfTestCase, Before
  <2> QED BY <1>1, <1>4, <2>2 DEF OnQueue, Before
<1>6. tcue[Parent[j]].status # NoRow
  BY <1>2 DEF IInv, OnePlace, Before
<1> QED BY <1>5, <1>6 DEF IInv, OnePlace

\* A handler is one that has just read the queue, the one it was, or none of (A).
LEMMA OnlyLoadReadsQueue ==
  ASSUME TypeOK, NEW t \in Tracks, Reader(t), handler'[t].cmd.kind = "CheckQueue"
  PROVE  LoadQueue(t) \/ handler'[t] = handler[t]
<1>0. handler \in [Tracks -> Handler] /\ handler[t] \in Handler
  BY DEF TypeOK
<1>1. Idle.cmd.kind = "Idle"
  BY DEF Idle, Scan, ForTCEs
<1>2. ASSUME handler' = handler \/ handler' = [handler EXCEPT ![t] = Idle]
      PROVE  handler'[t] = handler[t]
  BY <1>0, <1>1, <1>2
<1>3. ASSUME \/ SaveTestCases(t) \/ TestCasesAlreadySaved(t) \/ NothingOnQueue(t)
             \/ MoveToOngoing(t) \/ AlreadyMoved(t) \/ NothingWaiting(t)
             \/ CommitSent(t) \/ UpdateTestCases(t) \/ ReportProblem(t)
             \/ TimedOut(t) \/ EndScan(t) \/ \E i \in TIE : CannotBeSent(t, i)
      PROVE  handler'[t] = handler[t]
  <2>1. handler' = handler \/ handler' = [handler EXCEPT ![t] = Idle]
    BY <1>3 DEF SaveTestCases, TestCasesAlreadySaved, NothingOnQueue, MoveToOngoing,
       AlreadyMoved, NothingWaiting, CommitSent, UpdateTestCases, ReportProblem,
       TimedOut, EndScan, CannotBeSent, Stop, Start
  <2> QED BY <1>2, <2>1
  \* A step that goes on working keeps the command, which is not (A).
<1>4. ASSUME NEW h, handler' = [handler EXCEPT ![t] = h], h.cmd = handler[t].cmd
      PROVE  handler[t].cmd.kind = "CheckQueue"
  BY <1>0, <1>4
<1>5. ASSUME NEW i \in TIE, SentToWorker(t, i) \/ RefusedByWorker(t, i) PROVE FALSE
  <2>1. \E h : handler' = [handler EXCEPT ![t] = h] /\ h.cmd = handler[t].cmd
    <3>1. CASE SentToWorker(t, i)
      <4> DEFINE h == [handler[t] EXCEPT !.ties = @ \ {i}, !.acked = @ \cup {i}]
      <4>1. handler' = [handler EXCEPT ![t] = h] /\ h.cmd = handler[t].cmd
        BY <1>0, <3>1 DEF SentToWorker, Start, Handler
      <4> QED BY <4>1
    <3>2. CASE RefusedByWorker(t, i)
      <4> DEFINE h == [handler[t] EXCEPT !.ties = @ \ {i}, !.nacked = @ \cup {i}]
      <4>1. handler' = [handler EXCEPT ![t] = h] /\ h.cmd = handler[t].cmd
        BY <1>0, <3>2 DEF RefusedByWorker, Start, Handler
      <4> QED BY <4>1
    <3> QED BY <1>5, <3>1, <3>2
  <2> QED BY <1>4, <1>5, <2>1 DEF SentToWorker, RefusedByWorker, WorksOn
<1>6. ASSUME \/ SendAllZombiesUnderExecution(t) \/ SendZombieTestCasesOnQueue(t)
             \/ SendAllZombiesOnQueue(t) \/ SendZombiesTimedOut(t)
      PROVE  FALSE
  <2>1. \E h : handler' = [handler EXCEPT ![t] = h] /\ h.cmd = handler[t].cmd
    <3>1. ASSUME NEW i PROVE /\ [handler[t] EXCEPT !.ties = @ \ {i}].cmd = handler[t].cmd
                             /\ [handler[t] EXCEPT !.tces = @ \ {i}].cmd = handler[t].cmd
      BY <1>0 DEF Handler
    <3>2. \E i : \/ handler' = [handler EXCEPT ![t] = [handler[t] EXCEPT !.ties = @ \ {i}]]
                 \/ handler' = [handler EXCEPT ![t] = [handler[t] EXCEPT !.tces = @ \ {i}]]
      BY <1>6 DEF SendAllZombiesUnderExecution, SendZombieTestCasesOnQueue,
         SendForRow, SendAllZombiesOnQueue, SendZombiesTimedOut, Start
    <3> QED BY <3>1, <3>2
  <2> QED BY <1>4, <1>6, <2>1 DEF SendAllZombiesUnderExecution,
          SendZombieTestCasesOnQueue, SendForRow, SendAllZombiesOnQueue,
          SendZombiesTimedOut, WorksOn
<1>7. ASSUME NEW h, handler' = [handler EXCEPT ![t] = h]
      PROVE  h.cmd.kind = "CheckQueue"
  BY <1>0, <1>7
<1>8. Working(Head(chan[t])).cmd = Head(chan[t])
  BY DEF Working, Idle
<1>9. ASSUME LoadTestCases(t) \/ LoadWaiting(t) \/ LoadStatuses(t)
      PROVE  handler'[t] = handler[t]
  <2>1. \/ handler' = handler
        \/ \E h : handler' = [handler EXCEPT ![t] = h] /\ h.cmd = Head(chan[t])
    <3>1. ASSUME NEW x
          PROVE  /\ [Working(Head(chan[t])) EXCEPT !.tces = x].cmd = Head(chan[t])
                 /\ [Working(Head(chan[t])) EXCEPT !.ties = x].cmd = Head(chan[t])
                 /\ [Working(Head(chan[t])) EXCEPT !.messages = x].cmd = Head(chan[t])
      BY DEF Working, Idle
    <3> QED BY <1>9, <3>1 DEF LoadTestCases, LoadWaiting, LoadStatuses, Start
  <2> QED BY <1>7, <1>9, <2>1 DEF LoadTestCases, LoadWaiting, LoadStatuses, Ready
<1>10. ASSUME NEW kind \in Scans, NEW cs, NEW is, LoadScan(t, kind, cs, is) PROVE FALSE
  <2>1. \E h : handler' = [handler EXCEPT ![t] = h] /\ h.cmd = Head(chan[t])
    <3>1. ASSUME NEW x
          PROVE  [Working(Head(chan[t])) EXCEPT
                    !.tces = cs, !.ties = is, !.track = x].cmd = Head(chan[t])
      BY DEF Working, Idle
    <3> QED BY <1>10, <3>1 DEF LoadScan, Start
  <2> QED BY <1>7, <1>10, <2>1 DEF LoadScan, Ready, Scans
<1>11. ASSUME LoadZombies(t) PROVE FALSE
  BY <1>10, <1>11 DEF LoadZombies, Scans
<1> QED BY <1>3, <1>5, <1>6, <1>9, <1>11 DEF Reader, OtherCommand

-----------------------------------------------------------------------------
(* What (A) has read stays next *)

\* What was next stays next, as rows stay.
LEMMA ReadInOrderStays ==
  ASSUME CounterIsOfTestCase, IInv, Next, ReadInOrder
  PROVE  ReadInOrder'
<1> SUFFICES ASSUME NEW t \in Tracks, handler'[t].cmd.kind = "CheckQueue",
                    NEW i \in handler'[t].ties, NEW j \in TIE, Before(j, i)
             PROVE  HasRow(j)'
  BY DEF ReadInOrder, Before
<1>1. TypeOK /\ Kept
  BY TablesStayRight DEF IInv, TablesRight
<1>2. CASE handler'[t] = handler[t]
  BY <1>1, <1>2 DEF ReadInOrder, Kept
<1>3. CASE LoadQueue(t)
  <2>1. PICK S \in FirstOfEachTestCase(OnQueue(Head(chan[t]))) :
          handler' = [handler EXCEPT ![t] = [Working(Head(chan[t])) EXCEPT !.ties = S]]
    BY <1>3 DEF LoadQueue, Start
  <2>2. handler'[t].ties = S
    BY <1>1, <2>1 DEF TypeOK, Working, Idle
  <2> QED BY <1>1, <2>2, QueueIsReadInOrder DEF Kept
<1>4. Idle.cmd.kind = "Idle"
  BY DEF Idle, Scan, ForTCEs
<1> QED BY <1>1, <1>2, <1>3, <1>4, NewHandlers, OnlyLoadReadsQueue

\* If the guard on 'UniqueCounter' does not tell the TIEs of a TCE apart, a TIE
\* is started after all of lower order in its TCE, also when two tracks read the
\* queue of one TCE at the same time and whatever is rolled back or lost.
THEOREM StartedInOrderAlways ==
  ASSUME CounterIsOfTestCase
  PROVE  SafeSpec => []StartedInOrder
<1> DEFINE Inv == IInv /\ ReadInOrder /\ StartedInOrder
<1>1. Init => Inv
  <2> SUFFICES ASSUME Init PROVE Inv
    OBVIOUS
  <2>1. ReadInOrder
    BY DEF Init, ReadInOrder, Idle, Scan, ForTCEs
  <2>2. StartedInOrder
    BY DEF Init, StartedInOrder, HasRow
  <2> QED BY <2>1, <2>2, InvariantAtFirst
<1>2. Inv /\ [Next]_vars => Inv'
  <2>1. ASSUME Inv, Next PROVE Inv'
    <3>1. IInv' /\ ReadInOrder'
      BY <2>1, InvariantStays, ReadInOrderStays
    <3>2. Kept
      BY <2>1, TablesStayRight DEF TablesRight
    <3>3. ASSUME NEW i \in TIE, NEW j \in TIE, Before(j, i), HasRow(i)'
          PROVE  HasRow(j)'
      <4>1. CASE HasRow(i)
        BY <2>1, <3>2, <3>3, <4>1 DEF StartedInOrder, Before, Kept
      <4>2. CASE ~ HasRow(i)
        <5>1. PICK t \in Tracks : MoveToOngoing(t) /\ i \in handler[t].ties
          BY <2>1, <3>3, <4>2, OnlyMovesAddRows
        <5>2. HasRow(j)
          BY <2>1, <3>3, <5>1 DEF ReadInOrder, MoveToOngoing, WorksOn
        <5> QED BY <3>2, <5>2 DEF Kept
      <4> QED BY <4>1, <4>2
    <3>4. StartedInOrder'
      BY <3>3 DEF StartedInOrder, Before
    <3> QED BY <3>1, <3>4
  <2>2. ASSUME Inv, UNCHANGED vars PROVE Inv'
    <3>1. IInv'
      BY <2>2, InvariantStutters
    <3>2. ReadInOrder' /\ StartedInOrder'
      BY <2>2 DEF vars, database, ReadInOrder, StartedInOrder, Before, HasRow
    <3> QED BY <3>1, <3>2
  <2> QED BY <2>1, <2>2
<1>3. Inv => StartedInOrder
  OBVIOUS
<1> QED BY <1>1, <1>2, <1>3, PTL DEF SafeSpec

=============================================================================
