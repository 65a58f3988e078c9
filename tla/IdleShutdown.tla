---------------------------- MODULE IdleShutdown ----------------------------
(***************************************************************************)
(* How the server ends itself when no gRPC call has come for a while.  The *)
(* main loop asks every track of the timeout engine how long it is until   *)
(* its next time-out.  If that is long enough, or no time-out is ahead, it *)
(* stores when a job outside is to start it again, and exits; what the     *)
(* TestInstructionExecutions (TIEs) under way need is then only in the     *)
(* database.                                                               *)
(*                                                                         *)
(* The main loop is translated as it stands.  The timeout engine is the one*)
(* of this commit, whose reader has the calls that add and remove a timer  *)
(* commented out: the list of every track stays empty, whatever it is told.*)
(***************************************************************************)
EXTENDS Integers, FiniteSetsExt, Functions

CONSTANTS
  TIE, Track,
  Durations,    \* time-outs of TIEs
  MinutesToShutDown,  \* 'MinutesToShutDownWithOutAnyGrpcTraffic'
  MaxMinutesLeft,     \* 'MaxMinutesLeftUntilNextTimeOutTimer'
  MinutesBefore,      \* - 'NumberOfMinutesBeforeNextTimeOutTimerToStart'
  MaxTime,      \* bound: the last minute
  MaxCalls      \* bound: calls the main loop has not yet heard of

VARIABLES
  server,   \* "runs", "asks" the tracks, or is "down"
  now,
  waiting,  \* since when the main loop has heard of no call
  calls,    \* calls it has not yet heard of
  due,      \* TIEs under way: TIE -> time-out ('ExpectedExecutionEndTimeStamp')
  timers,   \* Track -> when the timers in its list fire
  answers,  \* Track -> minutes until its next time-out, or Never
  wakeUp    \* the stored stamp: when the server is to be started, or Never

vars == <<server, now, waiting, calls, due, timers, answers, wakeUp>>

Never == -1

-----------------------------------------------------------------------------
(* Calls *)

\* Every call is told to the main loop.
CallIsTold == server # "down" /\ calls < MaxCalls /\ calls' = calls + 1

\* A Connector has answered that it executes TIE i, and how long it takes.  The
\* reader of the track adds no timer for it.
Answered(i) ==
  /\ i \notin DOMAIN due /\ CallIsTold
  /\ \E d \in Durations : due' = [j \in DOMAIN due \cup {i} |->
                                    IF j = i THEN now + d ELSE due[j]]
  /\ UNCHANGED <<server, now, waiting, timers, answers, wakeUp>>

\* A final result.
Finished(i) ==
  /\ i \in DOMAIN due /\ CallIsTold
  /\ due' = Restrict(due, DOMAIN due \ {i})
  /\ UNCHANGED <<server, now, waiting, timers, answers, wakeUp>>

HearCall ==
  /\ server = "runs" /\ calls > 0
  /\ calls' = calls - 1
  /\ waiting' = now
  /\ UNCHANGED <<server, now, due, timers, answers, wakeUp>>

-----------------------------------------------------------------------------
(* The main loop *)

\* Both may be ready, a call and the end of the wait: either is taken.
NoTraffic ==
  /\ server = "runs" /\ now - waiting >= MinutesToShutDown
  /\ server' = "asks"
  /\ UNCHANGED <<now, waiting, calls, due, timers, answers, wakeUp>>

\* 'processTimeUntilNextTimeOutTimerToFires'
TimeUntilNextTimeOut(t) ==
  IF timers[t] = {} THEN Never ELSE Max({0, Min(timers[t]) - now})

Answer(t) ==
  /\ server = "asks" /\ t \notin DOMAIN answers
  /\ answers' = [u \in DOMAIN answers \cup {t} |->
                   IF u = t THEN TimeUntilNextTimeOut(t) ELSE answers[u]]
  /\ UNCHANGED <<server, now, waiting, calls, due, timers, wakeUp>>

\* All tracks have answered.  In the cloud the server ends; 'waiting' starts
\* anew otherwise.
Decide ==
  /\ server = "asks" /\ DOMAIN answers = Track
  /\ LET durations == Range(answers) \ {Never}
     IN IF durations = {} \/ Min(durations) > MaxMinutesLeft
        THEN /\ server' = "down"
             /\ wakeUp' = IF durations = {} THEN wakeUp
                          ELSE now + Min(durations) - MinutesBefore
             /\ UNCHANGED waiting
        ELSE server' = "runs" /\ waiting' = now /\ UNCHANGED wakeUp
  /\ answers' = <<>>
  /\ UNCHANGED <<now, calls, due, timers>>

-----------------------------------------------------------------------------
\* Questions and answers take no minutes.
Minute ==
  /\ server = "runs" /\ now < MaxTime
  /\ now' = now + 1
  /\ UNCHANGED <<server, waiting, calls, due, timers, answers, wakeUp>>

Init ==
  /\ server = "runs" /\ now = 0 /\ waiting = 0 /\ calls = 0
  /\ due = <<>> /\ timers = [t \in Track |-> {}] /\ answers = <<>>
  /\ wakeUp = Never

Next ==
  \/ \E i \in TIE : Answered(i) \/ Finished(i)
  \/ HearCall \/ NoTraffic
  \/ \E t \in Track : Answer(t)
  \/ Decide \/ Minute

Spec == Init /\ [][Next]_vars

-----------------------------------------------------------------------------
(* Properties *)

\* A server that goes down and has heard of every call will be woken up before the
\* time-out of each TIE that is under way.
KnownAreWokenFor ==
  [][server' = "down" /\ server # "down" /\ calls = 0 =>
       \A i \in DOMAIN due : wakeUp' # Never /\ wakeUp' =< due[i]]_vars

=============================================================================
