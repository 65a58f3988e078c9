--------------------------- MODULE TimeOutTimers ----------------------------
(***************************************************************************)
(* One track of the timeout engine: the list of the TestInstructionExecu-  *)
(* tions (TIEs) that a time-out is set for, ordered by time-out; the timer *)
(* of the first of them, a goroutine that can be cancelled; the reader that*)
(* handles one command of the track's channel at a time; and the calls by  *)
(* which the execution engine sends these commands.                        *)
(*                                                                         *)
(* The handlers are modelled as they are written.  In this version of the  *)
(* code the reader's calls of the handlers that add and remove are taken   *)
(* out ("Refactoring - removed for now"): the lists stay empty, and module *)
(* IdleShutdown shows what that leads to.                                  *)
(***************************************************************************)
EXTENDS Integers, Sequences, FiniteSets, Functions

CONSTANTS
  TIE,
  None,         \* no key of the list
  Temporary,    \* time-out while a Connector has not answered
  Durations,    \* time-outs Connectors may ask for
  Margin,       \* 'extractTimerMarginalBeforeTimeOut'
  ChannelSize,  \* 'timeOutChannelSize'
  MaxTime,      \* bound: the last moment
  MaxCalls      \* bound: calls of the Worker about one TIE

ASSUME TimersAssumption ==
  /\ None \notin TIE
  /\ {Temporary, Margin, ChannelSize, MaxTime, MaxCalls} \cup Durations \subseteq Nat

VARIABLES
  list,      \* 'timeOutMap': TIE -> its neighbours, time-out and timer
  first,     \* 'nextUpcomingObjectMapKeyWithTimeOut'
  timedOut,  \* 'timedOutMap'
  timers,    \* the timers that were started, in this order
  channel,   \* commands for the reader
  reader,    \* "reads", has "cancelled" a timer, "waits" for it or is "crashed"
  awaited,   \* the timer it waits for
  now,
  phase,     \* of each TIE, what the execution engine has done about it
  calls,     \* how often the Worker was called about each TIE
  reported   \* what the execution engine was told: [tie, at]

theList == <<list, first, timedOut>>
theReader == <<reader, awaited>>
vars == <<theList, timers, channel, theReader, now, phase, calls, reported>>

-----------------------------------------------------------------------------
(* The execution engine.  It sends commands in the order of what happens to *)
(* a TIE; commands about different TIEs mix.                                *)

\* A crash of the reader is a crash of the server.
ServerRuns == reader # "crashed"

Send(command) ==
  /\ ServerRuns /\ Len(channel) < ChannelSize
  /\ channel' = Append(channel, command)
  /\ UNCHANGED <<theList, timers, theReader, now, reported>>

AddCommand(i, due)    == [do |-> "add", tie |-> i, due |-> due]
RemoveCommand(i, why) == [do |-> "remove", tie |-> i, why |-> why]

Becomes(i, p) == phase' = [phase EXCEPT ![i] = p]

\* A temporary time-out is set before a Worker is called ...
CallWorker(i) ==
  /\ phase[i] = "waits" /\ calls[i] < MaxCalls
  /\ Send(AddCommand(i, now + Temporary))
  /\ Becomes(i, "called")
  /\ calls' = [calls EXCEPT ![i] = @ + 1]

\* ... and removed if the Worker does not take the TIE, which is to be sent
\* again later.
WorkerRefuses(i) ==
  /\ phase[i] = "called"
  /\ Send(RemoveCommand(i, "refused"))
  /\ Becomes(i, "waits")
  /\ UNCHANGED calls

\* A Connector answers with its own time-out.
ConnectorAnswers(i) ==
  /\ phase[i] = "called"
  /\ Send(RemoveCommand(i, "answer"))
  /\ Becomes(i, "answered")
  /\ UNCHANGED calls

SetTimeOutTimer(i) ==
  /\ phase[i] = "answered"
  /\ \E d \in Durations : Send(AddCommand(i, now + d))
  /\ Becomes(i, "timed")
  /\ UNCHANGED calls

\* A result from a Worker or from a time-out has been stored.
ResultIsStored(i) ==
  /\ phase[i] \in {"called", "timed"}
  /\ Send(RemoveCommand(i, "result"))
  /\ Becomes(i, "over")
  /\ UNCHANGED calls

-----------------------------------------------------------------------------
(* Timers *)

NoTimer == 0

Timer(i, due, reports) ==
  [of |-> i, due |-> due + Margin, reports |-> reports,
   state |-> "new", cancelled |-> FALSE]

SetState(t, s) == ServerRuns /\ timers' = [timers EXCEPT ![t].state = s]

\* The goroutine puts the timer into the entry it was started for, if that is
\* still there ('of' is None otherwise).
StartTimer(t) ==
  /\ timers[t].state = "new"
  /\ SetState(t, "runs")
  /\ list' = [i \in DOMAIN list |->
                IF i = timers[t].of THEN [list[i] EXCEPT !.timer = t] ELSE list[i]]
  /\ UNCHANGED <<first, timedOut, channel, theReader, now, phase, calls, reported>>

Fire(t) ==
  /\ timers[t].state = "runs" /\ now >= timers[t].due
  /\ SetState(t, "fired")
  /\ reported' = reported \cup {[tie |-> timers[t].reports, at |-> now]}
  /\ UNCHANGED <<theList, channel, theReader, now, phase, calls>>

SendRemoval(t) ==
  /\ timers[t].state = "fired" /\ Len(channel) < ChannelSize
  /\ SetState(t, "done")
  /\ channel' = Append(channel, RemoveCommand(timers[t].reports, "timeout"))
  /\ UNCHANGED <<theList, theReader, now, phase, calls, reported>>

\* A cancelled timer waits until someone takes the message that it is closed.
Close(t) ==
  /\ timers[t].state = "runs" /\ timers[t].cancelled
  /\ SetState(t, "closed")
  /\ UNCHANGED <<theList, channel, theReader, now, phase, calls, reported>>

Tick ==
  /\ ServerRuns /\ now < MaxTime
  /\ now' = now + 1
  /\ UNCHANGED <<theList, timers, channel, theReader, phase, calls, reported>>

-----------------------------------------------------------------------------
(* The reader: adding *)

Entry(previous, next, due) ==
  [previous |-> previous, next |-> next, due |-> due, timer |-> NoTimer]

With(i, entry) ==
  [x \in DOMAIN list \cup {i} |-> IF x = i THEN entry ELSE list[x]]

\* Where the walk from the first entry on along 'next' ends that goes on until
\* it is at one of these.
FirstOf(stops) ==
  {x \in stops :
     \E n \in 1 .. Cardinality(DOMAIN list) : \E walk \in [1 .. n -> DOMAIN list] :
       /\ walk[1] = first /\ walk[n] = x
       /\ \A k \in 1 .. n - 1 :
            walk[k] \notin stops /\ walk[k + 1] = list[walk[k]].next}

IsLast(x) == list[x].next = x

\* Mutant: the walk goes on over entries with a later time-out.
PlaceAtEnd(due) == FirstOf({x \in DOMAIN list : IsLast(x)})

\* The entry to insert before, or the last one.
PlaceFor(due) == FirstOf({x \in DOMAIN list : due < list[x].due \/ IsLast(x)})

Cancelled(t) == [timers EXCEPT ![t].cancelled = TRUE]

\* The new entry is first; the timer of the one that was first is cancelled,
\* without waiting for it.  If that timer's goroutine has not run yet, there is
\* nothing to cancel and the server crashes.
InsertFirst(i, due, x) ==
  /\ list' = [With(i, Entry(i, x, due)) EXCEPT ![x].previous = i]
  /\ first' = i
  /\ IF list[x].timer = NoTimer THEN reader' = "crashed" /\ UNCHANGED timers
     ELSE /\ timers' = Append(Cancelled(list[x].timer), Timer(i, due, i))
          /\ UNCHANGED reader

InsertBefore(i, due, x) ==
  LET p == list[x].previous
  IN /\ list' = [With(i, Entry(p, x, due)) EXCEPT ![p].next = i, ![x].previous = i]
     /\ UNCHANGED <<first, timers, reader>>

InsertLast(i, due, x) ==
  /\ list' = [With(i, Entry(x, i, due)) EXCEPT ![x].next = i]
  /\ UNCHANGED <<first, timers, reader>>

AddTimeOut(i, due) ==
  /\ IF i \in DOMAIN list THEN UNCHANGED <<list, first, timers, reader>>
     ELSE IF DOMAIN list = {}
     THEN /\ list' = With(i, Entry(i, i, due)) /\ first' = i
          /\ timers' = Append(timers, Timer(i, due, i))
          /\ UNCHANGED reader
     ELSE \E x \in PlaceFor(due) :
             IF due >= list[x].due THEN InsertLast(i, due, x)
             ELSE IF list[x].previous = x THEN InsertFirst(i, due, x)
             ELSE InsertBefore(i, due, x)
  /\ channel' = Tail(channel)
  /\ UNCHANGED timedOut

-----------------------------------------------------------------------------
(* The reader: removing *)

Without(i) == [x \in DOMAIN list \ {i} |-> list[x]]

\* A goroutine that starts late finds its entry gone.
Orphaned(i, ts) ==
  [t \in DOMAIN ts |-> IF ts[t].of = i THEN [ts[t] EXCEPT !.of = None] ELSE ts[t]]

\* Mutant: the next entry is not told that it is the first one.
UnlinkFirstOnly(i, ts) ==
  LET n == list[i].next
  IN /\ list' = Without(i) /\ first' = n
     /\ timers' = Append(Orphaned(i, ts), Timer(n, list[n].due, i))

\* The next entry is the first one now, and gets a timer; it is started with
\* the command that removes i, which is what it will report.
UnlinkFirst(i, ts) ==
  LET n == list[i].next
  IN /\ list' = [Without(i) EXCEPT ![n].previous = n] /\ first' = n
     /\ timers' = Append(Orphaned(i, ts), Timer(n, list[n].due, i))

Unlink(i, ts) ==
  LET p == list[i].previous
      n == list[i].next
  IN IF DOMAIN list = {i}
     THEN list' = Without(i) /\ first' = None /\ timers' = Orphaned(i, ts)
     ELSE IF p = i THEN UnlinkFirst(i, ts)
     ELSE /\ list' = IF n = i THEN [Without(i) EXCEPT ![p].next = p]
                     ELSE [Without(i) EXCEPT ![p].next = n, ![n].previous = p]
          /\ timers' = Orphaned(i, ts)
          /\ UNCHANGED first

\* Mutant: the timer of any entry is cancelled.
CancelsAny(i, why) == why \in {"result", "answer"}

\* Only the first entry has its timer cancelled; the reader waits until it is
\* closed.
Cancels(i, why) == why \in {"result", "answer"} /\ list[i].previous = i

RemoveTimeOut(i, why) ==
  IF i \notin DOMAIN list \/ (why = "timeout" /\ i \in timedOut)
  THEN /\ channel' = Tail(channel)
       /\ UNCHANGED <<theList, timers, reader>>
  ELSE IF Cancels(i, why)
  THEN /\ IF list[i].timer = NoTimer THEN reader' = "crashed" /\ UNCHANGED timers
          ELSE reader' = "cancelled" /\ timers' = Cancelled(list[i].timer)
       /\ UNCHANGED <<theList, channel>>
  ELSE /\ timedOut' = timedOut \cup (IF why = "timeout" THEN {i} ELSE {})
       /\ Unlink(i, timers)
       /\ channel' = Tail(channel)
       /\ UNCHANGED reader

Read ==
  /\ reader = "reads" /\ channel # <<>>
  /\ LET command == Head(channel)
     IN IF command.do = "add" THEN AddTimeOut(command.tie, command.due)
        ELSE RemoveTimeOut(command.tie, command.why)
  /\ UNCHANGED <<awaited, now, phase, calls, reported>>

\* The entry is asked again for its timer, to wait for.
Await ==
  /\ reader = "cancelled"
  /\ reader' = "waits"
  /\ awaited' = list[Head(channel).tie].timer
  /\ UNCHANGED <<theList, timers, channel, now, phase, calls, reported>>

\* The timer is closed, and the reader goes on removing.
TimerHasBeenClosed ==
  /\ reader = "waits" /\ timers[awaited].state = "closed"
  /\ Unlink(Head(channel).tie, [timers EXCEPT ![awaited].state = "done"])
  /\ reader' = "reads" /\ awaited' = NoTimer
  /\ channel' = Tail(channel)
  /\ UNCHANGED <<timedOut, now, phase, calls, reported>>

-----------------------------------------------------------------------------
Init ==
  /\ list = <<>> /\ first = None /\ timedOut = {}
  /\ timers = <<>> /\ channel = <<>>
  /\ reader = "reads" /\ awaited = NoTimer
  /\ now = 0 /\ reported = {}
  /\ phase = [i \in TIE |-> "waits"] /\ calls = [i \in TIE |-> 0]

Engine(i) ==
  \/ CallWorker(i) \/ WorkerRefuses(i)
  \/ ConnectorAnswers(i) \/ SetTimeOutTimer(i)
  \/ ResultIsStored(i)

Goroutine(t) == StartTimer(t) \/ Fire(t) \/ SendRemoval(t) \/ Close(t)

Next ==
  \/ \E i \in TIE : Engine(i)
  \/ \E t \in DOMAIN timers : Goroutine(t)
  \/ Read \/ Await \/ TimerHasBeenClosed
  \/ Tick

Spec == Init /\ [][Next]_vars

-----------------------------------------------------------------------------
(* Properties *)

Entries  == [previous : TIE, next : TIE, due : Nat, timer : Nat]
Timers   == [of : TIE \cup {None}, due : Nat, reports : TIE,
             state : {"new", "runs", "fired", "done", "closed"}, cancelled : BOOLEAN]
Commands == [do : {"add"}, tie : TIE, due : Nat] \cup
            [do : {"remove"}, tie : TIE, why : {"refused", "answer", "result", "timeout"}]
Phases   == {"waits", "called", "answered", "timed", "over"}

\* Every variable holds a value of its type; the neighbours of an entry are
\* entries, and a timer that is in the list was started.
TypeOK ==
  /\ DOMAIN list \subseteq TIE /\ IsFiniteSet(DOMAIN list)
  /\ list \in [DOMAIN list -> Entries]
  /\ first \in TIE \cup {None} /\ timedOut \subseteq TIE
  /\ \A i \in DOMAIN list :
       /\ {list[i].previous, list[i].next} \subseteq DOMAIN list
       /\ list[i].timer # NoTimer =>
            list[i].timer \in DOMAIN timers /\ timers[list[i].timer].state # "new"
  /\ timers \in Seq(Timers)
  /\ channel \in Seq(Commands) /\ Len(channel) =< ChannelSize
  /\ reader \in {"reads", "cancelled", "waits", "crashed"} /\ awaited \in Nat
  /\ now \in 0 .. MaxTime
  /\ phase \in [TIE -> Phases] /\ calls \in [TIE -> 0 .. MaxCalls]
  /\ reported \subseteq [tie : TIE, at : 0 .. MaxTime]

\* The entries of a list, one after the other in the order of their time-outs;
\* each knows its neighbours, and the ones at the ends know it.
IsChain(chain, l, f) ==
  LET n == Cardinality(DOMAIN l)
  IN /\ chain[1] = f
     /\ \A k \in 1 .. n :
          /\ l[chain[k]].previous = chain[IF k = 1 THEN k ELSE k - 1]
          /\ l[chain[k]].next = chain[IF k = n THEN k ELSE k + 1]
          /\ k < n => l[chain[k]].due =< l[chain[k + 1]].due

\* Whatever was added, removed and timed out, in whatever order: the list has
\* one chain, from the first entry to the last one, in the order of the
\* time-outs; every entry is on it once and knows the ones before and after it.
ListIsOrdered ==
  IF DOMAIN list = {} THEN first = None
  ELSE \E chain \in Bijection(1 .. Cardinality(DOMAIN list), DOMAIN list) :
         IsChain(chain, list, first)

\* While the reader is busy cancelling, the command it handles stays the first
\* in the channel, the entry to remove stays the first of the list, and that
\* entry has a timer.
Cancelling ==
  /\ reader \in {"cancelled", "waits"} =>
       /\ channel # <<>> /\ Head(channel).do = "remove"
       /\ Head(channel).tie \in DOMAIN list /\ Head(channel).tie = first
       /\ list[first].timer # NoTimer
  /\ reader = "waits" => awaited \in DOMAIN timers

\* What every step keeps.
IInv == TypeOK /\ ListIsOrdered /\ Cancelling

\* What a TIE is reported for has passed its time-out, if it still has one.
TimeOutIsDue ==
  [][\A r \in reported' \ reported :
       r.tie \in DOMAIN list => list[r.tie].due + Margin =< now]_vars

\* The reader does not wait for a timer that will not close any more.
ReaderGoesOn ==
  reader = "waits" => timers[awaited].state \notin {"fired", "done"}

\* No sequence of commands crashes the server.
NoCrash == reader # "crashed"

=============================================================================
