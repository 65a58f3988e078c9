--------------------------- MODULE StatusBroadcast --------------------------
(***************************************************************************)
(* How user interfaces learn of the status of executions.  A handler that  *)
(* has committed puts a message on the broadcast channel if the report     *)
(* level of the execution asks for it; the notifier stamps every entry of  *)
(* a message with the time of this broadcast and of the previous one about *)
(* the same TestCaseExecution (TCE), and publishes it.  Publishing may     *)
(* fail, a published message may be lost, and the server may restart.  The *)
(* client compares the stamps to see whether it has received everything.   *)
(*                                                                         *)
(* The wire is that of 'pg_notify', the branch of the notifier without     *)
(* PubSub: what arrives does so in order and once.  The PubSub branch gives*)
(* neither, and nothing is said of it here.                                *)
(***************************************************************************)
EXTENDS ExecutionStatus, Sequences, FiniteSets, Functions

CONSTANTS
  TCE,            \* TestCaseExecutions
  Level,          \* [TCE -> Levels]: 'ExecutionStatusReportLevel'
  Batches,        \* the TCEs whose TIEs one (B) has sent, in its order
  TceStatuses,    \* statuses a (C) may find for a TCE
  ResultStatuses, \* statuses a final result may have
  ChannelSize,    \* 'BroadcastEngineChannelSize'
  MaxReports,     \* bound: changes of status
  MaxLosses,      \* bound: messages lost after they were published
  MaxFailures,    \* bound: messages that cannot be published
  MaxRestarts     \* bound: restarts of the server

Levels == {"NO_STATUS_REPORTING_FOR_EXECUTION",
           "REPORT_ALL_STATUS_CHANGES_ON_EXECUTIONS",
           "REPORT_ONLY_ALL_END_STATUS_CHANGES_ON_EXECUTIONS",
           "REPORT_ONLY_ALL_STATUS_CHANGES_ON_TESTCASE_EXECUTIONS",
           "REPORT_ONLY_ALL_END_STATUS_CHANGES_ON_TESTCASE_EXECUTIONS"}

ASSUME BroadcastAssumption ==
  /\ TCE \subseteq Nat
  /\ Level \in [TCE -> Levels]
  /\ Batches \subseteq Seq(TCE) \ {<<>>}
  /\ TceStatuses \subseteq Statuses /\ ResultStatuses \subseteq Statuses
  /\ ChannelSize \in Nat \ {0}
  /\ {MaxReports, MaxLosses, MaxFailures, MaxRestarts} \subseteq Nat

VARIABLES
  channel,   \* 'BroadcastEngineMessageChannel'
  withheld,  \* changes of status that were committed and not reported
  clock,     \* the time of the last broadcast
  stamps,    \* 'previousBroadcastTimeStampPerTestCaseExecutionMap'
  wire,      \* messages that are published and not yet received
  received,  \* client: TCE -> the stamp of the last entry it has received
  gaps,      \* client: the TCEs whose last message did not follow on
  lost,      \* what was broadcast, or would have been, and lost: [tce, broadcast]
  used       \* how much of each bound has been used

vars == <<channel, withheld, clock, stamps, wire, received, gaps, lost, used>>

-----------------------------------------------------------------------------
(* What is reported *)

\* A change of status: of a TCE, or of a TIE of it.
Entry(about, c, s) == [about |-> about, tce |-> c, status |-> s]

AboutTestCaseExecution(c, s)        == Entry("TCE", c, s)
AboutTestInstructionExecution(c, s) == Entry("TIE", c, s)

\* The statuses that 'shouldMessageBeBroadcasted' lists as end statuses.
ListedAsEnd(s) ==
  s \notin {EXECUTING, TIMEOUT_INTERRUPTION, TIMEOUT_INTERRUPTION_CAN_BE_RERUN}

ShouldMessageBeBroadcasted(e) ==
  CASE Level[e.tce] = "REPORT_ALL_STATUS_CHANGES_ON_EXECUTIONS" -> TRUE
    [] Level[e.tce] = "REPORT_ONLY_ALL_END_STATUS_CHANGES_ON_EXECUTIONS" ->
         ListedAsEnd(e.status)
    [] Level[e.tce] = "REPORT_ONLY_ALL_STATUS_CHANGES_ON_TESTCASE_EXECUTIONS" ->
         e.about = "TCE"
    [] Level[e.tce] = "REPORT_ONLY_ALL_END_STATUS_CHANGES_ON_TESTCASE_EXECUTIONS" ->
         e.about = "TCE" /\ ListedAsEnd(e.status)
    [] OTHER -> FALSE

\* Mutant: a message without entries is sent.
ReportEvenNothing(offered, kept) ==
  /\ used.reports < MaxReports /\ Len(channel) < ChannelSize
  /\ used' = [used EXCEPT !.reports = @ + 1]
  /\ channel' = Append(channel, kept)
  /\ withheld' = withheld \cup (Range(offered) \ Range(kept))
  /\ UNCHANGED <<clock, stamps, wire, received, gaps, lost>>

\* The handler offers entries and reports those that 'kept' holds, in one
\* message; a full channel makes it wait.
Report(offered, kept) ==
  /\ used.reports < MaxReports
  /\ used' = [used EXCEPT !.reports = @ + 1]
  /\ \/ kept = <<>> /\ UNCHANGED channel
     \/ /\ kept # <<>>
        /\ Len(channel) < ChannelSize
        /\ channel' = Append(channel, kept)
  /\ withheld' = withheld \cup (Range(offered) \ Range(kept))
  /\ UNCHANGED <<clock, stamps, wire, received, gaps, lost>>

\* The numbers of S in ascending order.
Ascending(S) ==
  {f \in [1 .. Cardinality(S) -> S] : \A j, k \in DOMAIN f : j < k => f[j] < f[k]}

\* (C): each TCE for itself.
ReportTestCaseStatuses(batch) ==
  \E s \in TceStatuses :
    LET entries == [k \in DOMAIN batch |-> AboutTestCaseExecution(batch[k], s)]
        asked   == {k \in DOMAIN batch : ShouldMessageBeBroadcasted(entries[k])}
    IN \E place \in Ascending(asked) :
         Report(entries, [k \in DOMAIN place |-> entries[place[k]]])

\* (B): whether the message is sent is decided anew with each TIE of the batch,
\* so that the last one decides for all.
ReportSent(batch) ==
  \E taken \in SUBSET DOMAIN batch :
    LET entries == [k \in DOMAIN batch |->
                      AboutTestInstructionExecution(batch[k],
                        IF k \in taken THEN EXECUTING
                        ELSE UNEXPECTED_INTERRUPTION_CAN_BE_RERUN)]
    IN Report(entries, IF ShouldMessageBeBroadcasted(entries[Len(batch)])
                       THEN entries ELSE <<>>)

\* A final result is about one TIE.
ReportResult(c) ==
  \E s \in ResultStatuses :
    LET entry == AboutTestInstructionExecution(c, s)
    IN Report(<<entry>>, IF ShouldMessageBeBroadcasted(entry) THEN <<entry>> ELSE <<>>)

-----------------------------------------------------------------------------
(* The notifier *)

About(message) == {message[k].tce : k \in DOMAIN message}

\* The map 'known', in which 'now' is written for each TCE of S.
Written(known, S, now) ==
  [c \in DOMAIN known \cup S |-> IF c \in S THEN now ELSE known[c]]

\* The k-th entry is the first of its message about its TCE.
IsFirst(message, k) == \A j \in 1 .. k - 1 : message[j].tce # message[k].tce

\* What is lost with a message that was, or would have been, stamped 'now'.
LostWith(message, now) == {[tce |-> c, broadcast |-> now] : c \in About(message)}

\* Mutant: the previous broadcast is the last one, about whichever TCE.
StampedAfterLast(message, known, now) ==
  [stamps  |-> Written(known, About(message), now),
   entries |-> [k \in DOMAIN message |->
                  [tce |-> message[k].tce, broadcast |-> now, previous |-> clock]]]

\* Entries are stamped in turn; for a TCE that is not in the map, and for the
\* later entries of one message about one TCE, the previous broadcast is this
\* one.
Stamped(message, known, now) ==
  [stamps  |-> Written(known, About(message), now),
   entries |-> [k \in DOMAIN message |->
     LET c == message[k].tce
     IN [tce |-> c, broadcast |-> now,
         previous |-> IF c \in DOMAIN known /\ IsFirst(message, k) THEN known[c]
                      ELSE now]]]

Publish ==
  /\ channel # <<>>
  /\ clock' = clock + 1
  /\ LET done == Stamped(Head(channel), stamps, clock')
     IN /\ stamps' = done.stamps
        /\ wire' = Append(wire, done.entries)
  /\ channel' = Tail(channel)
  /\ UNCHANGED <<withheld, received, gaps, lost, used>>

\* Mutant: the map is written only when the message could be published.
StampsOfFailed(message, now) == stamps

StampsWhatever(message, now) == Stamped(message, stamps, now).stamps

\* The message cannot be published; it is not tried again.
PublishFails ==
  /\ channel # <<>>
  /\ used.failures < MaxFailures
  /\ used' = [used EXCEPT !.failures = @ + 1]
  /\ clock' = clock + 1
  /\ stamps' = StampsWhatever(Head(channel), clock')
  /\ lost' = lost \cup LostWith(Head(channel), clock')
  /\ channel' = Tail(channel)
  /\ UNCHANGED <<withheld, wire, received, gaps>>

-----------------------------------------------------------------------------
(* The wire and the client *)

\* When a message was broadcast: its entries have the same stamp.
StampOf(message) == message[1].broadcast

Lose(k) ==
  /\ k \in DOMAIN wire
  /\ used.losses < MaxLosses
  /\ used' = [used EXCEPT !.losses = @ + 1]
  /\ lost' = lost \cup LostWith(wire[k], StampOf(wire[k]))
  /\ wire' = [n \in 1 .. Len(wire) - 1 |-> IF n < k THEN wire[n] ELSE wire[n + 1]]
  /\ UNCHANGED <<channel, withheld, clock, stamps, received, gaps>>

\* What the client has when it has heard what the first n entries say.
Heard(message, n, have) ==
  Written(have, {message[k].tce : k \in 1 .. n}, StampOf(message))

\* An entry follows on what the client has: it has nothing and the entry says
\* that there is nothing, or it has what the entry says was broadcast before.
FollowsOn(e, have) ==
  IF e.tce \in DOMAIN have THEN e.previous = have[e.tce]
  ELSE e.previous = e.broadcast

\* Entries are looked at in turn.
Receive ==
  /\ wire # <<>>
  /\ LET message == Head(wire)
     IN /\ received' = Heard(message, Len(message), received)
        /\ gaps' = {message[k].tce : k \in
                     {n \in DOMAIN message :
                        ~ FollowsOn(message[n], Heard(message, n - 1, received))}}
  /\ wire' = Tail(wire)
  /\ UNCHANGED <<channel, withheld, clock, stamps, lost, used>>

\* The channel and the map are in memory.  Time goes on, so that what comes
\* later has a later stamp than what was lost.
Restart ==
  /\ used.restarts < MaxRestarts
  /\ used' = [used EXCEPT !.restarts = @ + 1]
  /\ clock' = clock + 1
  /\ lost' = lost \cup UNION {LostWith(channel[k], clock') : k \in DOMAIN channel}
  /\ channel' = <<>> /\ stamps' = <<>>
  /\ UNCHANGED <<withheld, wire, received, gaps>>

-----------------------------------------------------------------------------
Init ==
  /\ channel = <<>> /\ withheld = {}
  /\ clock = 0 /\ stamps = <<>> /\ wire = <<>>
  /\ received = <<>> /\ gaps = {} /\ lost = {}
  /\ used = [reports |-> 0, losses |-> 0, failures |-> 0, restarts |-> 0]

Next ==
  \/ \E batch \in Batches : ReportTestCaseStatuses(batch) \/ ReportSent(batch)
  \/ \E c \in TCE : ReportResult(c)
  \/ Publish \/ PublishFails
  \/ \E k \in DOMAIN wire : Lose(k)
  \/ Receive
  \/ Restart

Spec == Init /\ [][Next]_vars

-----------------------------------------------------------------------------
(* Properties *)

Messages == Seq([about : {"TCE", "TIE"}, tce : TCE, status : Statuses]) \ {<<>>}
Broadcasts ==
  Seq([tce : TCE, broadcast : 1 .. clock, previous : 1 .. clock]) \ {<<>>}

\* Every variable holds a value of its type; nobody has a stamp that the notifier
\* has not given, and no message is empty.
TypeOK ==
  /\ channel \in Seq(Messages) /\ Len(channel) =< ChannelSize
  /\ withheld \subseteq [about : {"TCE", "TIE"}, tce : TCE, status : Statuses]
  /\ clock \in Nat
  /\ DOMAIN stamps \subseteq TCE /\ stamps \in [DOMAIN stamps -> 1 .. clock]
  /\ wire \in Seq(Broadcasts)
  /\ DOMAIN received \subseteq TCE /\ received \in [DOMAIN received -> 1 .. clock]
  /\ gaps \subseteq TCE /\ lost \subseteq [tce : TCE, broadcast : 1 .. clock]
  /\ used \in [reports : Nat, losses : Nat, failures : Nat, restarts : Nat]

-----------------------------------------------------------------------------
(* Why the stamps show what is lost *)

\* The stamps of what was broadcast about c, or would have been: on the wire,
\* lost, or the last that the client has heard.
OnWire(c)   == {StampOf(wire[k]) : k \in {n \in DOMAIN wire : c \in About(wire[n])}}
LostOf(c)   == {l.broadcast : l \in {m \in lost : m.tce = c}}
HeardOf(c)  == {received[d] : d \in {c} \cap DOMAIN received}
StampsOf(c) == OnWire(c) \cup LostOf(c) \cup HeardOf(c)

\* Messages are on the wire in the order of their stamps, and what the client has
\* heard of a TCE was broadcast before what it will hear.
WireOrdered ==
  /\ \A k \in DOMAIN wire : \A n \in DOMAIN wire[k] :
       wire[k][n].broadcast = StampOf(wire[k])
  /\ \A j, k \in DOMAIN wire : j < k => StampOf(wire[j]) < StampOf(wire[k])
  /\ \A c \in DOMAIN received : \A b \in OnWire(c) : received[c] < b

\* The map has the last stamp of each TCE in it; a TCE that is not in it has had
\* none since the server was started.
StampsRight ==
  \A c \in TCE :
    IF c \in DOMAIN stamps
    THEN stamps[c] \in StampsOf(c) /\ \A b \in StampsOf(c) : b =< stamps[c]
    ELSE used.restarts = 0 => StampsOf(c) = {}

\* The first entry about a TCE in a message names the stamp before its own,
\* whatever has become of that broadcast; its own stamp says that there is none
\* before it.  The later entries name their own.
NamesPrevious(message, n) ==
  LET e == message[n] IN
    /\ ~ IsFirst(message, n) => e.previous = e.broadcast
    /\ e.previous # e.broadcast =>
         /\ e.previous < e.broadcast /\ e.previous \in StampsOf(e.tce)
         /\ \A b \in StampsOf(e.tce) : b =< e.previous \/ b >= e.broadcast
    /\ IsFirst(message, n) /\ e.previous = e.broadcast /\ used.restarts = 0 =>
         \A b \in StampsOf(e.tce) : b >= e.broadcast

PreviousRight ==
  \A k \in DOMAIN wire : \A n \in DOMAIN wire[k] : NamesPrevious(wire[k], n)

IInv == TypeOK /\ WireOrdered /\ StampsRight /\ PreviousRight

-----------------------------------------------------------------------------
(* What the client can tell *)

\* In a step: the TCEs the client hears of.
News == {c \in DOMAIN received' : c \in DOMAIN received => received'[c] # received[c]}

\* In such a step: something about c was lost since the client last heard of it.
Missed(c) ==
  \E l \in lost :
    /\ l.tce = c /\ l.broadcast < received'[c]
    /\ c \in DOMAIN received => l.broadcast > received[c]

\* When something about a TCE was lost, the next message about it does not
\* follow on what the client has, whatever was broadcast about other TCEs in
\* between and however many messages were lost; a client that had heard of the
\* TCE sees it across a restart of the server, too.
LossShows ==
  [][\A c \in News :
       (c \in DOMAIN received \/ used.restarts = 0) /\ Missed(c) => c \in gaps']_vars

\* The same for a client to whom the message is the first about the TCE, after
\* a restart.
FirstLossShows == [][\A c \in News : Missed(c) => c \in gaps']_vars

\* As long as the server is not restarted, a message that does not follow on
\* means that something was lost.
GapMeansLoss ==
  [][\A c \in News : c \in gaps' /\ used.restarts = 0 => Missed(c)]_vars

\* The level of a TCE asks for the changes into end statuses, as the comments
\* beside the list have it.
AsksForEnds(e) ==
  \/ Level[e.tce] = "REPORT_ALL_STATUS_CHANGES_ON_EXECUTIONS"
  \/ Level[e.tce] = "REPORT_ONLY_ALL_END_STATUS_CHANGES_ON_EXECUTIONS"
  \/ /\ Level[e.tce] # "NO_STATUS_REPORTING_FOR_EXECUTION"
     /\ e.about = "TCE"

\* A change into an end status is reported if the level asks for end statuses.
EndsAreReported ==
  \A e \in withheld : IsFinal(e.status) => ~ AsksForEnds(e)

\* Nothing is reported of an execution whose level is not to report at all.
SilenceIsKept ==
  \A k \in DOMAIN channel : \A c \in About(channel[k]) :
    Level[c] # "NO_STATUS_REPORTING_FOR_EXECUTION"

=============================================================================
