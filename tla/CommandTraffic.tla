--------------------------- MODULE CommandTraffic ---------------------------
(***************************************************************************)
(* The commands of the execution engine on channels of limited size.       *)
(*                                                                         *)
(* Each execution track has one channel and one reader, which handles a    *)
(* command to its end before it takes the next.  Handlers send commands    *)
(* themselves, on the goroutine of the reader and often to its own channel *)
(* (testInstructionExecutionEngine_commandChannelReader.go and the         *)
(* handlers); gRPC calls and the handling of results, responses and new    *)
(* TestCaseExecutions send from goroutines of their own.  A send to a full *)
(* channel waits.                                                          *)
(*                                                                         *)
(* What the commands do to the database is module ExecutionEngine's; here  *)
(* a TestCaseExecution (TCE) has one TestInstructionExecution (TIE), and   *)
(* only how far that has come is kept.  Failing database calls, which only *)
(* make commands fewer, are left out.                                      *)
(***************************************************************************)
EXTENDS Naturals, FiniteSets, Sequences, SequencesExt, FiniteSetsExt

CONSTANTS
  TCE,           \* numbers: their order is that of the uuids
  Tracks,        \* 0 .. number of channels - 1
  TrackOfTce,    \* the track computed from the uuid of a TCE,
  TrackOfTie,    \*   and that from the uuid of its TIE
  ChannelSize,   \* ExecutionEngineChannelSize
  LeftBehind,    \* what a stopped process may have left: [TCE -> Stages],
                 \*   how far the TIE of each TCE had come
  Overdue,       \* TCEs whose TIE has passed its expected end
  Unsendable,    \* TCEs whose TIE lacks data that its Worker needs
  Calling        \* TCEs that gRPC calls come for

\* How far the TIE of a TCE has come.
Stages == {"unknown", "onTestCaseQueue", "onQueue", "ongoing", "sent", "ended"}

ASSUME ConstantsAssumption ==
  /\ TCE \subseteq Nat /\ IsFiniteSet(TCE)
  /\ 0 \in Tracks /\ Tracks \subseteq Nat
  /\ TrackOfTce \in [TCE -> Tracks] /\ TrackOfTie \in [TCE -> Tracks]
  /\ ChannelSize \in Nat \ {0} /\ LeftBehind \subseteq [TCE -> Stages]
  /\ Overdue \subseteq TCE /\ Unsendable \subseteq TCE /\ Calling \subseteq TCE

VARIABLES
  chan,      \* per track: the commands on its channel
  sending,   \* per track: what the handler of its reader still has to send
  routine,   \* per goroutine: what it still has to do
  stage,     \* per TCE: how far its TIE has come
  called     \* the calls that Workers have made

vars == <<chan, sending, routine, stage, called>>

-----------------------------------------------------------------------------
(* Commands and the goroutines that send them *)

Scans == {"ZombiesUnderExecution", "ZombieTestCasesOnQueue", "ZombiesOnQueue",
          "ZombiesTimedOut", "ReCreateTimers"}

Command == [kind: Scans] \cup
           [kind: {"ProcessTestCases", "CheckQueue", "CheckWaitingToBeSent",
                   "UpdateTestCaseStatus", "UpdateAndReply", "TimedOut",
                   "Response", "Result"}, tce: TCE]

Scan(kind) == [kind |-> kind]
For(kind, c) == [kind |-> kind, tce |-> c]

Send(track, cmd) == [to |-> track, cmd |-> cmd]
Await == [await |-> TRUE]

\* The function that starts the engine, the gRPC calls, and the goroutines the
\* handlers start.
Starter == <<"start", 0>>
Routines == {Starter} \cup
  ({"respond", "report", "new", "response", "result"} \X TCE)

Waits(r) == routine[r] # <<>> /\ Head(routine[r]) = Await

-----------------------------------------------------------------------------
(* Channels *)

\* Mutant: a channel that holds one command less is full.
RoomForOneLess(t) == Len(chan[t]) < ChannelSize - 1

Room(t) == Len(chan[t]) < ChannelSize

\* A handler, on the goroutine of its reader.
HandlerSends(t) ==
  /\ sending[t] # <<>>
  /\ LET s == Head(sending[t])
     IN Room(s.to) /\ chan' = [chan EXCEPT ![s.to] = Append(@, s.cmd)]
  /\ sending' = [sending EXCEPT ![t] = Tail(@)]
  /\ UNCHANGED <<routine, stage, called>>

RoutineSends(r) ==
  /\ routine[r] # <<>> /\ ~ Waits(r)
  /\ LET s == Head(routine[r])
     IN Room(s.to) /\ chan' = [chan EXCEPT ![s.to] = Append(@, s.cmd)]
  /\ routine' = [routine EXCEPT ![r] = Tail(@)]
  /\ UNCHANGED <<sending, stage, called>>

-----------------------------------------------------------------------------
(* Handlers.  A reader that has nothing left to send takes a command. *)

Takes(t, kind) ==
  /\ sending[t] = <<>> /\ chan[t] # <<>> /\ Head(chan[t]).kind = kind
  /\ chan' = [chan EXCEPT ![t] = Tail(@)]

ToSend(t, sends) == sending' = [sending EXCEPT ![t] = sends]
Becomes(c, s) == stage' = [stage EXCEPT ![c] = s]

\* (A second goroutine for the same TIE goes on when the first has ended.)
Begin(name, c, todo) == routine' = [routine EXCEPT ![<<name, c>>] = @ \o todo]

\* The TCE leaves its queue; a goroutine tells (A).
ProcessTestCases(t) ==
  /\ Takes(t, "ProcessTestCases")
  /\ LET c == Head(chan[t]).tce
     IN IF stage[c] = "onTestCaseQueue"
        THEN /\ Becomes(c, "onQueue")
             /\ Begin("new", c, <<Send(TrackOfTce[c], For("CheckQueue", c))>>)
        ELSE UNCHANGED <<routine, stage>>
  /\ UNCHANGED <<sending, called>>

\* (A)
CheckQueue(t) ==
  /\ Takes(t, "CheckQueue")
  /\ LET c == Head(chan[t]).tce
         onQueue == stage[c] = "onQueue"
         next == IF onQueue THEN "CheckWaitingToBeSent"
                            ELSE "UpdateTestCaseStatus"
     IN /\ stage' = IF onQueue THEN [stage EXCEPT ![c] = "ongoing"] ELSE stage
        /\ ToSend(t, <<Send(TrackOfTce[c], For(next, c))>>)
  /\ UNCHANGED <<routine, called>>

\* (B): after a problem nothing is committed, and its result ends the TIE.
CheckWaitingToBeSent(t) ==
  /\ Takes(t, "CheckWaitingToBeSent")
  /\ LET c == Head(chan[t]).tce
         sends == stage[c] = "ongoing" /\ c \notin Unsendable
         next == IF stage[c] # "ongoing" THEN "CheckQueue"
                 ELSE IF sends THEN "UpdateTestCaseStatus" ELSE "Result"
     IN /\ stage' = IF sends THEN [stage EXCEPT ![c] = "sent"] ELSE stage
        /\ ToSend(t, <<Send(TrackOfTce[c], For(next, c))>>)
  /\ UNCHANGED <<routine, called>>

\* (C): the goroutine that waits for it gets its answer.
UpdateTestCaseStatus(t) ==
  /\ Takes(t, "UpdateTestCaseStatus")
  /\ UNCHANGED <<sending, routine, stage, called>>

UpdateAndReply(t) ==
  /\ Takes(t, "UpdateAndReply")
  /\ LET r == <<"result", Head(chan[t]).tce>>
     IN Waits(r) /\ routine' = [routine EXCEPT ![r] = Tail(@)]
  /\ UNCHANGED <<sending, stage, called>>

\* Mutant: the goroutine does not wait for the answer.
ToldWithoutWaiting(c) ==
  LET track == TrackOfTie[c]
  IN <<Send(track, For("UpdateAndReply", c)),
       Send(track, For("CheckWaitingToBeSent", c))>>

\* The goroutine of a result tells (C), waits for it, and then tells (B).
ToldAfterResult(c) ==
  LET track == TrackOfTie[c]
  IN <<Send(track, For("UpdateAndReply", c)), Await,
       Send(track, For("CheckWaitingToBeSent", c))>>

Result(t) ==
  /\ Takes(t, "Result")
  /\ LET c == Head(chan[t]).tce
     IN Becomes(c, "ended") /\ Begin("result", c, ToldAfterResult(c))
  /\ UNCHANGED <<sending, called>>

Response(t) ==
  /\ Takes(t, "Response")
  /\ LET c == Head(chan[t]).tce
     IN Begin("response", c,
              <<Send(TrackOfTie[c], For("UpdateTestCaseStatus", c))>>)
  /\ UNCHANGED <<sending, stage, called>>

TimedOut(t) ==
  /\ Takes(t, "TimedOut")
  /\ LET c == Head(chan[t]).tce
     IN /\ Becomes(c, "ended")
        /\ ToSend(t, <<Send(TrackOfTce[c], For("UpdateTestCaseStatus", c))>>)
  /\ UNCHANGED <<routine, called>>

-----------------------------------------------------------------------------
(* Scans at start-up *)

\* Mutant: tracks are counted from one.
ForEachFromOne(rows, kind) ==
  LET track == TrackOfTce[Min(Range(rows))] + 1
  IN [n \in DOMAIN rows |-> Send(track, For(kind, rows[n]))]

\* A scan sends a command for each row it finds, to the track of the lowest TCE
\* of all of them.
ForEach(rows, kind) ==
  LET track == TrackOfTce[Min(Range(rows))]
  IN [n \in DOMAIN rows |-> Send(track, For(kind, rows[n]))]

At(s) == {c \in TCE : stage[c] = s}

\* Rows come sorted by time stamps that are none of the model's.
Rows(found) == SetToSeqs(found)

ThenScan(t, kind) == <<Send(t, Scan(kind))>>

ZombiesUnderExecution(t) ==
  /\ Takes(t, "ZombiesUnderExecution")
  /\ \E rows \in Rows(At("ongoing")) :
       ToSend(t, ForEach(rows, "CheckWaitingToBeSent")
                   \o ThenScan(t, "ZombieTestCasesOnQueue"))
  /\ UNCHANGED <<routine, stage, called>>

ZombieTestCasesOnQueue(t) ==
  /\ Takes(t, "ZombieTestCasesOnQueue")
  /\ \E rows \in Rows(At("onTestCaseQueue")) :
       ToSend(t, ForEach(rows, "ProcessTestCases")
                   \o ThenScan(t, "ZombiesOnQueue"))
  /\ UNCHANGED <<routine, stage, called>>

ZombiesOnQueue(t) ==
  /\ Takes(t, "ZombiesOnQueue")
  /\ \E rows \in Rows(At("onQueue")) : ToSend(t, ForEach(rows, "CheckQueue"))
  /\ UNCHANGED <<routine, stage, called>>

\* Each of these goes to the track of its own TIE.
ZombiesTimedOut(t) ==
  /\ Takes(t, "ZombiesTimedOut")
  /\ \E rows \in Rows(At("sent") \cap Overdue) :
       ToSend(t, [n \in DOMAIN rows |->
                    Send(TrackOfTie[rows[n]], For("TimedOut", rows[n]))])
  /\ UNCHANGED <<routine, stage, called>>

\* Sends to the timeout engine only.
ReCreateTimers(t) ==
  /\ Takes(t, "ReCreateTimers")
  /\ UNCHANGED <<sending, routine, stage, called>>

-----------------------------------------------------------------------------
(* gRPC calls: served from when the engine has been started *)

Serving == routine[Starter] = <<>>

\* Mutant: the call does not save the TCE, which stays new.
InformUnsaved(c) ==
  /\ Serving /\ c \in Calling /\ stage[c] = "unknown"
  /\ Begin("new", c, <<Send(TrackOfTce[c], For("CheckQueue", c))>>)
  /\ UNCHANGED <<chan, sending, stage, called>>

\* A new TCE is saved by the call itself.
Inform(c) ==
  /\ Serving /\ c \in Calling /\ stage[c] = "unknown"
  /\ Becomes(c, "onQueue")
  /\ Begin("new", c, <<Send(TrackOfTce[c], For("CheckQueue", c))>>)
  /\ UNCHANGED <<chan, sending, called>>

\* The Worker that has the TIE, once each: that it executes, and its result.
WorkerCalls(name, c, kind) ==
  /\ Serving /\ c \in Calling /\ stage[c] = "sent"
  /\ <<name, c>> \notin called
  /\ called' = called \cup {<<name, c>>}
  /\ Begin(name, c, <<Send(TrackOfTie[c], For(kind, c))>>)
  /\ UNCHANGED <<chan, sending, stage>>

-----------------------------------------------------------------------------
Init ==
  /\ chan = [t \in Tracks |-> <<>>]
  /\ sending = [t \in Tracks |-> <<>>]
  /\ routine = [r \in Routines |->
       IF r = Starter THEN <<Send(0, Scan("ZombiesUnderExecution")),
                             Send(0, Scan("ZombiesTimedOut")),
                             Send(0, Scan("ReCreateTimers"))>>
                      ELSE <<>>]
  /\ stage \in LeftBehind
  /\ called = {}

Reader(t) ==
  \/ HandlerSends(t)
  \/ ProcessTestCases(t) \/ CheckQueue(t) \/ CheckWaitingToBeSent(t)
  \/ UpdateTestCaseStatus(t) \/ UpdateAndReply(t)
  \/ Result(t) \/ Response(t) \/ TimedOut(t)
  \/ ZombiesUnderExecution(t) \/ ZombieTestCasesOnQueue(t) \/ ZombiesOnQueue(t)
  \/ ZombiesTimedOut(t) \/ ReCreateTimers(t)

Calls == \E c \in TCE : \/ Inform(c)
                        \/ WorkerCalls("respond", c, "Response")
                        \/ WorkerCalls("report", c, "Result")

Next == \/ \E t \in Tracks : Reader(t)
        \/ \E r \in Routines : RoutineSends(r)
        \/ Calls

\* Readers go on, and so do goroutines as a whole; calls need not come.
Fairness == /\ \A t \in Tracks : WF_vars(Reader(t))
            /\ WF_vars(\E r \in Routines : RoutineSends(r))

Spec == Init /\ [][Next]_vars /\ Fairness

-----------------------------------------------------------------------------
(* How much there can be to do *)

\* A scan and those after it, each of which may find every TCE.
Following(kind) ==
  CASE kind = "ZombiesUnderExecution" ->
         {kind, "ZombieTestCasesOnQueue", "ZombiesOnQueue"}
    [] kind = "ZombieTestCasesOnQueue" -> {kind, "ZombiesOnQueue"}
    [] kind \in {"ZombiesOnQueue", "ZombiesTimedOut"} -> {kind}
    [] OTHER -> {}

\* What a command may become, one thing after the other: itself, and what its scans
\* find.  A command that is answered is not counted, but the goroutine's next one.
Becoming(cmd) ==
  IF cmd = Await \/ cmd.kind = "UpdateAndReply" THEN {}
  ELSE {<<"itself", 0>>} \cup (Following(cmd.kind) \X TCE)

\* Where commands are.
Lines == ({"channel", "handler"} \X Tracks) \cup ({"routine"} \X Routines)

CommandIn(s) == IF s = Await THEN s ELSE s.cmd

Line == [q \in Lines |->
  CASE q[1] = "channel" -> chan[q[2]]
    [] q[1] = "handler" -> [n \in DOMAIN sending[q[2]] |-> CommandIn(sending[q[2]][n])]
    [] q[1] = "routine" -> [n \in DOMAIN routine[q[2]] |-> CommandIn(routine[q[2]][n])]]

Work(line) ==
  UNION {UNION {{q} \X {n} \X Becoming(line[q][n]) : n \in DOMAIN line[q]} : q \in Lines}

\* The calls that are still to come.
StillToCome == ({"new"} \X At("unknown")) \cup (({"respond", "report"} \X TCE) \ called)

-----------------------------------------------------------------------------
(* Properties *)

Sends == [to: Tracks, cmd: Command]

\* Every variable has its type, and no channel holds more than it was made for.
TypeOK ==
  /\ chan \in [Tracks -> Seq(Command)]
  /\ \A t \in Tracks : Len(chan[t]) =< ChannelSize
  /\ sending \in [Tracks -> Seq(Sends)]
  /\ routine \in [Routines -> Seq(Sends \cup {Await})]
  /\ stage \in [TCE -> Stages]
  /\ called \subseteq {"respond", "report"} \X TCE

\* The places on the channels of commands that (C) answers to the goroutine of c.
AnswersTo(c) ==
  UNION {{<<t, n>> : n \in {k \in DOMAIN chan[t] :
                             chan[t][k] = For("UpdateAndReply", c)}} : t \in Tracks}

\* A goroutine waits for an answer exactly when there is a (C) on a channel that will
\* give it, and there is only one: no reader stops at an answer that nobody takes,
\* and no goroutine waits for one that does not come.
AnswersAreAwaited ==
  \A c \in TCE : /\ Waits(<<"result", c>>) <=> AnswersTo(c) # {}
                 /\ \A p, q \in AnswersTo(c) : p = q

\* Commands make commands, but all of them together never more than the scans of
\* the start-up and the calls of clients and Workers can bring.
WorkIsBounded ==
  Cardinality(Work(Line) \cup StillToCome) =< 7 * Cardinality(TCE) + 3

\* What a stopped process has left behind under execution is sent again:
\* 'TestInstructions that, of some reason, are stuck in UnderExecution will be
\* resent', or, if it cannot be sent, reported.
StuckAreResent ==
  \A c \in TCE : stage[c] = "ongoing" ~> stage[c] \in {"sent", "ended"}

\* No command is left on a channel, no handler or goroutine waits for ever:
\* readers that send to each other, to themselves, and goroutines that wait for
\* an answer of (C) do not end up waiting for one another.
AllIsHandled ==
  <>[](/\ \A t \in Tracks : chan[t] = <<>> /\ sending[t] = <<>>
       /\ \A r \in Routines : routine[r] = <<>>)
=============================================================================
