----------------------- MODULE SerialExecution_proofs -----------------------
(***************************************************************************)
(* Proof that the engine implements SerialExecution and gives no TIE to a  *)
(* Worker twice, as long as its process does not stop: from the invariant  *)
(* Driven, which is inductive together with IInv and ReadInOrder.          *)
(***************************************************************************)
EXTENDS ExecutionEngine_proofs, SerialDrivers

-----------------------------------------------------------------------------
(* Where the commands on the channels are *)

\* The places of a thing are those of the commands that carry it.
LEMMA SlotsAre ==
  ASSUME NEW channels, NEW what, NEW x, NEW p
  PROVE  p \in Slots(channels, what, x) <=>
           \E t \in Tracks : \E k \in DOMAIN channels[t] :
             p = <<t, k>> /\ Carries(channels[t][k], what, x)
BY DEF Slots

\* It has a place if some command on the channels carries it.
LEMMA SlotsHold ==
  ASSUME NEW channels, NEW what, NEW x
  PROVE  Slots(channels, what, x) # {} <=>
           \E cmd \in OnChannels(channels) : Carries(cmd, what, x)
<1>1. \A cmd : cmd \in OnChannels(channels) <=>
                 \E t \in Tracks : \E k \in DOMAIN channels[t] : cmd = channels[t][k]
  BY DEF OnChannels
<1>2. ASSUME NEW p \in Slots(channels, what, x)
      PROVE  \E cmd \in OnChannels(channels) : Carries(cmd, what, x)
  BY <1>1, <1>2, SlotsAre
<1>3. ASSUME NEW cmd \in OnChannels(channels), Carries(cmd, what, x)
      PROVE  \E p : p \in Slots(channels, what, x)
  <2>1. PICK t \in Tracks : \E k \in DOMAIN channels[t] : cmd = channels[t][k]
    BY <1>1
  <2>2. PICK k \in DOMAIN channels[t] : cmd = channels[t][k]
    BY <2>1
  <2>3. <<t, k>> \in Slots(channels, what, x)
    BY <1>3, <2>2, SlotsAre
  <2> QED BY <2>3
<1>4. ASSUME Slots(channels, what, x) # {}
      PROVE  \E p : p \in Slots(channels, what, x)
  BY <1>4
<1>5. ASSUME NEW p \in Slots(channels, what, x) PROVE Slots(channels, what, x) # {}
  BY <1>5
<1> QED BY <1>2, <1>3, <1>4, <1>5

\* A command that is put on a channel takes one more place.
LEMMA PutSlots ==
  ASSUME NEW channels \in [Tracks -> Seq(Command)], NEW t \in Tracks,
         NEW cmd \in Command, NEW what, NEW x,
         AtMostOne(Slots(channels, what, x)),
         Carries(cmd, what, x) => Slots(channels, what, x) = {}
  PROVE  /\ AtMostOne(Slots(Put(channels, t, cmd), what, x))
         /\ Slots(Put(channels, t, cmd), what, x) # {} =>
              Slots(channels, what, x) # {} \/ Carries(cmd, what, x)
<1> DEFINE new == Put(channels, t, cmd)
<1>1. /\ new[t] = Append(channels[t], cmd)
      /\ \A u \in Tracks : u # t => new[u] = channels[u]
      /\ \A u \in Tracks : channels[u] \in Seq(Command)
  BY DEF Put
<1>2. ASSUME NEW u \in Tracks, NEW k \in DOMAIN new[u]
      PROVE  \/ k \in DOMAIN channels[u] /\ new[u][k] = channels[u][k]
             \/ u = t /\ k = Len(channels[t]) + 1 /\ new[u][k] = cmd
  <2>1. CASE u # t
    BY <1>1, <1>2, <2>1
  <2>2. CASE u = t
    <3>1. k \in 1 .. Len(channels[t]) + 1
      BY <1>1, <1>2, <2>2
    <3>2. CASE k = Len(channels[t]) + 1
      BY <1>1, <2>2, <3>2
    <3>3. CASE k # Len(channels[t]) + 1
      BY <1>1, <2>2, <3>1, <3>3
    <3> QED BY <3>2, <3>3
  <2> QED BY <2>1, <2>2
<1> HIDE DEF new
<1>3. ASSUME NEW p \in Slots(new, what, x)
      PROVE  \/ p \in Slots(channels, what, x)
             \/ p = <<t, Len(channels[t]) + 1>> /\ Carries(cmd, what, x)
  <2>0. PICK u \in Tracks : \E k \in DOMAIN new[u] :
          p = <<u, k>> /\ Carries(new[u][k], what, x)
    BY <1>3, SlotsAre
  <2>1. PICK k \in DOMAIN new[u] : p = <<u, k>> /\ Carries(new[u][k], what, x)
    BY <2>0
  <2> QED BY <1>2, <2>1, SlotsAre
<1>4. AtMostOne(Slots(new, what, x))
  BY <1>3 DEF AtMostOne
<1>5. Slots(new, what, x) # {} =>
        Slots(channels, what, x) # {} \/ Carries(cmd, what, x)
  BY <1>3
<1> QED BY <1>4, <1>5 DEF new

\* Taking a command from a channel moves the others up, and leaves no place for
\* what that command alone held.
LEMMA PoppedSlots ==
  ASSUME TypeOK, NEW t \in Tracks, chan[t] # <<>>, NEW what, NEW x,
         AtMostOne(Slots(chan, what, x))
  PROVE  /\ AtMostOne(Slots(Popped(t), what, x))
         /\ Slots(Popped(t), what, x) # {} => Slots(chan, what, x) # {}
         /\ Carries(Head(chan[t]), what, x) =>
              Slots(chan, what, x) # {} /\ Slots(Popped(t), what, x) = {}
<1> DEFINE new == Popped(t)
<1>0. /\ chan \in [Tracks -> Seq(Command)] /\ chan[t] \in Seq(Command)
      /\ new[t] = Tail(chan[t])
      /\ \A u \in Tracks : u # t => new[u] = chan[u]
  BY DEF TypeOK, Popped
<1>1. 1 \in DOMAIN chan[t] /\ Head(chan[t]) = chan[t][1]
  BY <1>0
<1>2. ASSUME NEW k \in DOMAIN new[t]
      PROVE  k + 1 \in DOMAIN chan[t] /\ new[t][k] = chan[t][k + 1] /\ k \in Nat \ {0}
  BY <1>0, <1>2
<1> HIDE DEF new
<1>3. ASSUME NEW p \in Slots(new, what, x)
      PROVE  \/ p \in Slots(chan, what, x) /\ \E u \in Tracks : \E k : p = <<u, k>> /\ u # t
             \/ \E k \in Nat \ {0} : p = <<t, k>> /\ <<t, k + 1>> \in Slots(chan, what, x)
  <2>0. PICK u \in Tracks : \E k \in DOMAIN new[u] :
          p = <<u, k>> /\ Carries(new[u][k], what, x)
    BY <1>3, SlotsAre
  <2>1. PICK k \in DOMAIN new[u] : p = <<u, k>> /\ Carries(new[u][k], what, x)
    BY <2>0
  <2>2. CASE u # t
    <3>1. p \in Slots(chan, what, x)
      BY <1>0, <2>1, <2>2, SlotsAre
    <3> QED BY <2>1, <2>2, <3>1
  <2>3. CASE u = t
    <3>1. k + 1 \in DOMAIN chan[t] /\ new[t][k] = chan[t][k + 1] /\ k \in Nat \ {0}
      BY <1>2, <2>3
    <3>2. <<t, k + 1>> \in Slots(chan, what, x)
      BY <2>1, <2>3, <3>1, SlotsAre
    <3> QED BY <2>1, <2>3, <3>1, <3>2
  <2> QED BY <2>2, <2>3
<1>4. ASSUME NEW p \in Slots(new, what, x), NEW q \in Slots(new, what, x)
      PROVE  p = q
  <2> DEFINE Stays(s) == /\ s \in Slots(chan, what, x)
                         /\ \E u \in Tracks : \E k : s = <<u, k>> /\ u # t
             MovesUp(s) == \E k \in Nat \ {0} :
                             s = <<t, k>> /\ <<t, k + 1>> \in Slots(chan, what, x)
  <2>1. (Stays(p) \/ MovesUp(p)) /\ (Stays(q) \/ MovesUp(q))
    BY <1>3, <1>4
  <2>2. CASE Stays(p) /\ Stays(q)
    BY <2>2 DEF AtMostOne
  <2>3. CASE MovesUp(p) /\ MovesUp(q)
    BY <2>3 DEF AtMostOne
  <2>4. CASE \/ Stays(p) /\ MovesUp(q)
             \/ Stays(q) /\ MovesUp(p)
    BY <2>4 DEF AtMostOne
  <2> QED BY <2>1, <2>2, <2>3, <2>4
<1>5. Slots(new, what, x) # {} => Slots(chan, what, x) # {}
  BY <1>3
<1>6. ASSUME Carries(Head(chan[t]), what, x)
      PROVE  Slots(chan, what, x) # {} /\ Slots(new, what, x) = {}
  <2>1. <<t, 1>> \in Slots(chan, what, x)
    <3>1. \E k \in DOMAIN chan[t] : <<t, 1>> = <<t, k>> /\ Carries(chan[t][k], what, x)
      BY <1>1, <1>6
    <3> QED BY <3>1, SlotsAre
  <2>2. ASSUME NEW p \in Slots(new, what, x) PROVE FALSE
    <3>1. CASE \E u \in Tracks : \E k : p = <<u, k>> /\ u # t /\ p \in Slots(chan, what, x)
      BY <2>1, <3>1 DEF AtMostOne
    <3>2. CASE \E k \in Nat \ {0} : <<t, k + 1>> \in Slots(chan, what, x)
      BY <2>1, <3>2 DEF AtMostOne
    <3> QED BY <1>3, <2>2, <3>1, <3>2
  <2> QED BY <2>1, <2>2
<1> QED BY <1>4, <1>5, <1>6 DEF AtMostOne, new

-----------------------------------------------------------------------------
(* How a turn or an answer moves through the engine *)

Thing(what, x) == (what = "turn" /\ x \in TCE) \/ (what = "reply" /\ x \in Results)

\* A free reader holds nothing.
LEMMA IdleBearsNothing ==
  ASSUME NEW what, NEW x, Thing(what, x)
  PROVE  ~ Bears(Idle, what, x)
BY DEF Bears, Thing, Idle, Scan, ForTCEs, NoReply, Results

\* The readers that hold something after one of them has got other work.
LEMMA ReadersAfter ==
  ASSUME TypeOK, NEW t \in Tracks, NEW h, handler' = [handler EXCEPT ![t] = h],
         NEW what, NEW x
  PROVE  \A u : u \in AtReaders(what, x)' <=>
                  \/ u = t /\ Bears(h, what, x)
                  \/ u # t /\ u \in AtReaders(what, x)
<1>1. handler'[t] = h /\ \A u \in Tracks : u # t => handler'[u] = handler[u]
  BY DEF TypeOK
<1> QED BY <1>1 DEF AtReaders

\* A reader takes a command from its channel: what the command carried is now with
\* the reader, or lost.
LEMMA TakenOver ==
  ASSUME TypeOK, NEW t \in Tracks, chan[t] # <<>>, handler[t] = Idle,
         chan' = Popped(t), NEW h, handler' = [handler EXCEPT ![t] = h],
         NEW what, NEW x, Single(what, x),
         Bears(h, what, x) => Carries(Head(chan[t]), what, x)
  PROVE  Single(what, x)' /\ (InEngine(what, x)' => InEngine(what, x))
<1> DEFINE S == Slots(chan, what, x)
           R == AtReaders(what, x)
<1>1. AtMostOne(S) /\ AtMostOne(R) /\ (S = {} \/ R = {})
  BY DEF Single
<1>2. /\ AtMostOne(S') /\ (S' # {} => S # {})
      /\ Carries(Head(chan[t]), what, x) => S # {} /\ S' = {}
  BY <1>1, PoppedSlots
<1>3. \A u : u \in R' <=> (u = t /\ Bears(h, what, x)) \/ (u # t /\ u \in R)
  BY ReadersAfter
<1> HIDE DEF S, R
<1>4. CASE Bears(h, what, x)
  <2>1. S # {} /\ S' = {} /\ R = {}
    BY <1>1, <1>2, <1>4
  <2>2. AtMostOne(R')
    BY <1>3, <2>1 DEF AtMostOne
  <2> QED BY <1>2, <2>1, <2>2 DEF Single, InEngine, S, R
<1>5. CASE ~ Bears(h, what, x)
  <2>1. R' \subseteq R
    BY <1>3, <1>5
  <2>2. AtMostOne(R') /\ (S' = {} \/ R' = {}) /\ (S' # {} \/ R' # {} => S # {} \/ R # {})
    BY <1>1, <1>2, <2>1 DEF AtMostOne
  <2> QED BY <1>2, <2>2 DEF Single, InEngine, S, R
<1> QED BY <1>4, <1>5

\* A command is answered by another one, without any work.
LEMMA Relayed ==
  ASSUME TypeOK, NEW t \in Tracks, chan[t] # <<>>, handler' = handler,
         NEW u \in Tracks, NEW cmd \in Command, chan' = Put(Popped(t), u, cmd),
         NEW what, NEW x, Single(what, x),
         Carries(cmd, what, x) => Carries(Head(chan[t]), what, x)
  PROVE  Single(what, x)' /\ (InEngine(what, x)' => InEngine(what, x))
<1> DEFINE S == Slots(chan, what, x)
           P == Slots(Popped(t), what, x)
           R == AtReaders(what, x)
<1>1. AtMostOne(S) /\ AtMostOne(R) /\ (S = {} \/ R = {}) /\ R' = R
  BY DEF Single, AtReaders
<1>2. /\ AtMostOne(P) /\ (P # {} => S # {})
      /\ Carries(Head(chan[t]), what, x) => S # {} /\ P = {}
  BY <1>1, PoppedSlots
<1>3. Popped(t) \in [Tracks -> Seq(Command)]
  BY PoppedType
<1>4. AtMostOne(S') /\ (S' # {} => P # {} \/ Carries(cmd, what, x))
  BY <1>2, <1>3, PutSlots
<1> HIDE DEF S, P, R
<1>5. (S' # {} => S # {}) /\ (S' = {} \/ R = {})
  BY <1>1, <1>2, <1>4
<1> QED BY <1>1, <1>4, <1>5 DEF Single, InEngine, S, R

\* A reader ends its work and sends a command.
LEMMA Finished ==
  ASSUME TypeOK, NEW t \in Tracks, handler' = [handler EXCEPT ![t] = Idle],
         NEW u \in Tracks, NEW cmd \in Command, chan' = Put(chan, u, cmd),
         NEW what, NEW x, Thing(what, x), Single(what, x),
         Carries(cmd, what, x) => Bears(handler[t], what, x)
  PROVE  Single(what, x)' /\ (InEngine(what, x)' => InEngine(what, x))
<1> DEFINE S == Slots(chan, what, x)
           R == AtReaders(what, x)
<1>1. AtMostOne(S) /\ AtMostOne(R) /\ (S = {} \/ R = {})
  BY DEF Single
<1>2. \A v : v \in R' <=> v # t /\ v \in R
  BY ReadersAfter, IdleBearsNothing
<1>3. Bears(handler[t], what, x) => t \in R
  BY DEF AtReaders
<1>4. chan \in [Tracks -> Seq(Command)]
  BY DEF TypeOK
<1>5. AtMostOne(S') /\ (S' # {} => S # {} \/ Carries(cmd, what, x))
  BY <1>1, <1>3, <1>4, PutSlots
<1> HIDE DEF S, R
<1>6. R' \subseteq R /\ (Carries(cmd, what, x) => R' = {} /\ R # {})
  BY <1>1, <1>2, <1>3 DEF AtMostOne
<1>7. AtMostOne(R') /\ (S' = {} \/ R' = {}) /\ (S' # {} \/ R' # {} => S # {} \/ R # {})
  BY <1>1, <1>5, <1>6 DEF AtMostOne
<1> QED BY <1>5, <1>7 DEF Single, InEngine, S, R

\* A reader goes on, or gives up, with no more than it had.
LEMMA WorkedOn ==
  ASSUME TypeOK, NEW t \in Tracks, NEW h, handler' = [handler EXCEPT ![t] = h],
         chan' = chan, NEW what, NEW x, Single(what, x),
         Bears(h, what, x) => Bears(handler[t], what, x)
  PROVE  Single(what, x)' /\ (InEngine(what, x)' => InEngine(what, x))
<1> DEFINE S == Slots(chan, what, x)
           R == AtReaders(what, x)
<1>1. AtMostOne(S) /\ AtMostOne(R) /\ (S = {} \/ R = {}) /\ S' = S
  BY DEF Single, Slots
<1>2. R' \subseteq R
  <2>1. \A u : u \in R' <=> (u = t /\ Bears(h, what, x)) \/ (u # t /\ u \in R)
    BY ReadersAfter
  <2> QED BY <2>1 DEF AtReaders
<1> HIDE DEF S, R
<1>3. AtMostOne(R') /\ (S' = {} \/ R' = {}) /\ (S' # {} \/ R' # {} => S # {} \/ R # {})
  BY <1>1, <1>2 DEF AtMostOne
<1> QED BY <1>1, <1>3 DEF Single, InEngine, S, R

\* A command comes from outside.
LEMMA Entered ==
  ASSUME TypeOK, handler' = handler,
         NEW u \in Tracks, NEW cmd \in Command, chan' = Put(chan, u, cmd),
         NEW what, NEW x, Single(what, x),
         Carries(cmd, what, x) => ~ InEngine(what, x)
  PROVE  /\ Single(what, x)'
         /\ InEngine(what, x)' => InEngine(what, x) \/ Carries(cmd, what, x)
<1> DEFINE S == Slots(chan, what, x)
           R == AtReaders(what, x)
<1>1. /\ AtMostOne(S) /\ AtMostOne(R) /\ (S = {} \/ R = {}) /\ R' = R
      /\ Carries(cmd, what, x) => S = {} /\ R = {}
  BY DEF Single, AtReaders, InEngine
<1>2. chan \in [Tracks -> Seq(Command)]
  BY DEF TypeOK
<1>3. AtMostOne(S') /\ (S' # {} => S # {} \/ Carries(cmd, what, x))
  BY <1>1, <1>2, PutSlots
<1> HIDE DEF S, R
<1>4. S' = {} \/ R' = {}
  BY <1>1, <1>3
<1> QED BY <1>1, <1>3, <1>4 DEF Single, InEngine, S, R

-----------------------------------------------------------------------------
(* Nothing passes a turn or an answer to two places *)

\* The steps of a track while no scan runs, the failing ones among them.
UsualReader(t) ==
  \/ LoadTestCases(t) \/ SaveTestCases(t) \/ TestCasesAlreadySaved(t)
  \/ LoadQueue(t) \/ NothingOnQueue(t) \/ MoveToOngoing(t) \/ AlreadyMoved(t)
  \/ LoadWaiting(t) \/ NothingWaiting(t) \/ CommitSent(t)
  \/ \E i \in TIE : SentToWorker(t, i) \/ RefusedByWorker(t, i)
  \/ LoadStatuses(t) \/ UpdateTestCases(t)
  \/ FailedLoad(t) \/ RolledBack(t)

\* The steps of clients, Workers and goroutines.
UsualElse ==
  \/ \E cs \in Informs : Inform(cs)
  \/ \E r \in Results : Reporter(r) \/ ResultRolledBack(r)
  \/ \E i \in TIE : WorkerReports(i, 1) \/ Response(i) \/ TimePasses(i)

\* While nothing has stopped there are no other steps: no command is a scan's.
LEMMA UsualSteps ==
  ASSUME Undisturbed, TypeOK, NoScans, Next
  PROVE  (\E t \in Tracks : UsualReader(t)) \/ UsualElse
<1>1. ASSUME NEW t \in Tracks, chan[t] # <<>>
      PROVE  Head(chan[t]).kind \in Driving \cup {"UpdateTestCaseStatus"}
  BY <1>1, PoppedCommands DEF NoScans
<1>2. ASSUME NEW t \in Tracks, Reader(t) PROVE UsualReader(t)
  <2>1. ~ ReportProblem(t) /\ ~ TimedOut(t)
    BY <1>1 DEF ReportProblem, TimedOut, Ready, Driving
  <2>2. ~ LoadZombies(t)
    BY <1>1 DEF LoadZombies, LoadScan, Ready, Driving
  <2>3. /\ ~ SendAllZombiesUnderExecution(t) /\ ~ SendZombieTestCasesOnQueue(t)
        /\ ~ SendAllZombiesOnQueue(t) /\ ~ SendZombiesTimedOut(t) /\ ~ EndScan(t)
    BY DEF NoScans, SendAllZombiesUnderExecution, SendZombieTestCasesOnQueue,
       SendAllZombiesOnQueue, SendZombiesTimedOut, SendForRow, EndScan, WorksOn,
       Scans, Driving
  <2>4. \A i \in TIE : ~ CannotBeSent(t, i)
    BY DEF CannotBeSent, Undisturbed
  <2> QED BY <1>2, <2>1, <2>2, <2>3, <2>4 DEF Reader, OtherCommand, UsualReader
<1>3. ASSUME Fault
      PROVE  \/ \E t \in Tracks : FailedLoad(t) \/ RolledBack(t)
             \/ \E r \in Results : ResultRolledBack(r)
  <2>1. faults.crashes \in Nat
    BY DEF TypeOK
  <2>2. ~ CrashAndRestart
    BY <2>1 DEF CrashAndRestart, Undisturbed
  <2> QED BY <1>3, <2>2 DEF Fault
<1>4. ASSUME Worker
      PROVE  \E i \in TIE : WorkerReports(i, 1) \/ Response(i)
  BY <1>4 DEF Worker, Undisturbed
<1> QED BY <1>2, <1>3, <1>4 DEF Next, Surroundings, UsualReader, UsualElse

\* What the commands that are put on the channels carry.
LEMMA NewCarries ==
  ASSUME NEW what, NEW x, Thing(what, x), NEW kind
  PROVE  /\ \A cs, last : Carries(ForTCEs(kind, cs, last), what, x)
                            => what = "turn" /\ kind \in Driving /\ x \in cs
         /\ \A c : Carries(ForTCE(kind, c), what, x)
                     => what = "turn" /\ kind \in Driving /\ x = c
         /\ \A c, r : Carries(WithReply(ForTCE(kind, c), r), what, x)
                        => \/ what = "turn" /\ kind \in Driving /\ x = c
                           \/ what = "reply" /\ x = r
BY DEF Thing, Carries, ForTCE, ForTCEs, WithReply, NoReply, Results

\* A command is sent to some track.
LEMMA SendByLowestIsPut ==
  ASSUME NEW channels, NEW cs \in SUBSET TCE, NEW cmd,
         SendByLowest(channels, cs, cmd)
  PROVE  \E u \in Tracks : chan' = Put(channels, u, cmd)
BY ModelAssumption DEF SendByLowest

\* What a handler bears after it has read its rows the command carried.
LEMMA LoadedBears ==
  ASSUME NEW h, NEW what, NEW x, Bears(h, what, x),
         h.cmd.kind = "CheckWaitingToBeSent" => ParentsOf(h.ties) \subseteq h.cmd.tces
  PROVE  Carries(h.cmd, what, x)
BY DEF Bears, Carries, Driving

\* No step of a track passes anything on twice.
LEMMA ReaderPassesOn ==
  ASSUME TypeOK, NoScans, NEW t \in Tracks, UsualReader(t),
         NEW what, NEW x, Thing(what, x), Single(what, x)
  PROVE  Single(what, x)' /\ (InEngine(what, x)' => InEngine(what, x))
<1> DEFINE Goal == Single(what, x)' /\ (InEngine(what, x)' => InEngine(what, x))
           h == handler[t]
           cmd == Head(chan[t])
<1>0. /\ handler \in [Tracks -> Handler] /\ h \in Handler
      /\ chan \in [Tracks -> Seq(Command)]
      /\ h.cmd.tces \in SUBSET TCE /\ Batch(h) \in SUBSET TIE
      /\ handler = [handler EXCEPT ![t] = handler[t]]
  BY DEF TypeOK, Handler, Batch
<1>1. ASSUME chan[t] # <<>> PROVE cmd \in Command /\ cmd.tces \in SUBSET TCE
  BY <1>1, PoppedType DEF Command
<1>2. ASSUME handler[t] = Idle, chan[t] # <<>>, chan' = Popped(t),
             NEW g, handler' = [handler EXCEPT ![t] = g],
             g = Idle \/ (g.cmd = cmd /\ (cmd.kind = "CheckWaitingToBeSent" =>
                                            ParentsOf(g.ties) \subseteq cmd.tces))
      PROVE  Goal
  <2>1. Bears(g, what, x) => Carries(cmd, what, x)
    BY <1>2, IdleBearsNothing, LoadedBears
  <2> QED BY <1>2, <2>1, TakenOver
<1>3. ASSUME chan[t] # <<>>, handler' = handler, NEW cs \in SUBSET TCE,
             NEW new \in Command, SendByLowest(Popped(t), cs, new),
             Carries(new, what, x) => Carries(cmd, what, x)
      PROVE  Goal
  <2>1. PICK u \in Tracks : chan' = Put(Popped(t), u, new)
    BY <1>3, SendByLowestIsPut
  <2> QED BY <1>3, <2>1, Relayed
<1>4. ASSUME Stop(t), NEW cs \in SUBSET TCE,
             NEW new \in Command, SendByLowest(chan, cs, new),
             Carries(new, what, x) => Bears(h, what, x)
      PROVE  Goal
  <2>1. PICK u \in Tracks : chan' = Put(chan, u, new)
    BY <1>4, SendByLowestIsPut
  <2> QED BY <1>4, <2>1, Finished DEF Stop, Start
<1>5. ASSUME chan' = chan, Stop(t) PROVE Goal
  BY <1>5, IdleBearsNothing, WorkedOn DEF Stop, Start
<1>6. ASSUME chan' = chan, NEW g, Start(t, g), g.cmd = h.cmd, g.ties \subseteq h.ties
      PROVE  Goal
  <2>1. Bears(g, what, x) => Bears(h, what, x)
    BY <1>6 DEF Bears, ParentsOf
  <2> QED BY <1>6, <2>1, WorkedOn DEF Start
<1>7. Working(cmd).cmd = cmd
  BY DEF Working, Idle
<1> HIDE DEF Goal
<1>11. ASSUME LoadTestCases(t) PROVE Goal
  <2> DEFINE g == [Working(cmd) EXCEPT !.tces = TestCaseExecutionQueueRows(cmd)]
  <2>1. handler' = handler \/ handler' = [handler EXCEPT ![t] = g]
    BY <1>11 DEF LoadTestCases, Start
  <2>2. /\ g.cmd = cmd /\ cmd.kind = "ProcessTestCases"
        /\ chan[t] # <<>> /\ handler[t] = Idle /\ chan' = Popped(t)
    BY <1>11 DEF LoadTestCases, Ready, Working, Idle
  <2> HIDE DEF g
  <2>3. CASE handler' = handler
    BY <1>0, <1>2, <2>2, <2>3
  <2>4. CASE handler' = [handler EXCEPT ![t] = g]
    BY <1>2, <2>2, <2>4
  <2> QED BY <2>1, <2>3, <2>4
<1>12. ASSUME LoadQueue(t) PROVE Goal
  <2>1. PICK S : handler' = [handler EXCEPT ![t] = [Working(cmd) EXCEPT !.ties = S]]
    BY <1>12 DEF LoadQueue, Start
  <2> DEFINE g == [Working(cmd) EXCEPT !.ties = S]
  <2>2. /\ g.cmd = cmd /\ cmd.kind = "CheckQueue"
        /\ chan[t] # <<>> /\ handler[t] = Idle /\ chan' = Popped(t)
    BY <1>12 DEF LoadQueue, Ready, Working, Idle
  <2> HIDE DEF g
  <2> QED BY <1>2, <2>1, <2>2 DEF g
<1>13. ASSUME LoadWaiting(t) PROVE Goal
  <2> DEFINE g == [Working(cmd) EXCEPT !.ties = WaitingToBeSent(cmd)]
  <2>1. handler' = [handler EXCEPT ![t] = g]
    BY <1>13 DEF LoadWaiting, Start
  <2>2. /\ g.cmd = cmd /\ g.ties = WaitingToBeSent(cmd)
        /\ chan[t] # <<>> /\ handler[t] = Idle /\ chan' = Popped(t)
    BY <1>13 DEF LoadWaiting, Ready, Working, Idle
  <2>3. ParentsOf(g.ties) \subseteq cmd.tces
    BY <2>2 DEF ParentsOf, WaitingToBeSent
  <2> HIDE DEF g
  <2> QED BY <1>2, <2>1, <2>2, <2>3
<1>14. ASSUME LoadStatuses(t) PROVE Goal
  <2> DEFINE g == [Working(cmd) EXCEPT !.messages = StatusMessages(cmd.tces)]
  <2>1. handler' = [handler EXCEPT ![t] = g]
    BY <1>14 DEF LoadStatuses, Start
  <2>2. /\ g.cmd = cmd /\ cmd.kind = "UpdateTestCaseStatus"
        /\ chan[t] # <<>> /\ handler[t] = Idle /\ chan' = Popped(t)
    BY <1>14 DEF LoadStatuses, Ready, Working, Idle
  <2> HIDE DEF g
  <2> QED BY <1>2, <2>1, <2>2
<1>15. ASSUME FailedLoad(t) PROVE Goal
  <2>1. chan[t] # <<>> /\ handler[t] = Idle /\ handler' = handler
    BY <1>15 DEF FailedLoad
  <2>2. cmd.kind \in Driving \cup {"UpdateTestCaseStatus"}
    BY <2>1, PoppedCommands DEF NoScans
  <2>3. chan' = Popped(t)
    BY <1>15, <2>2 DEF FailedLoad, NextScan, Driving
  <2> QED BY <1>0, <1>2, <2>1, <2>3
<1>16. ASSUME NothingOnQueue(t) \/ NothingWaiting(t) PROVE Goal
  <2>1. PICK kind \in {"CheckQueue", "UpdateTestCaseStatus"} :
          /\ chan[t] # <<>> /\ handler' = handler
          /\ SendByLowest(Popped(t), cmd.tces, ForTCEs(kind, cmd.tces, cmd.last))
          /\ kind = "CheckQueue" => cmd.kind = "CheckWaitingToBeSent"
    BY <1>16 DEF NothingOnQueue, NothingWaiting, Ready, CheckQueueFor, UpdateStatusFor
  <2>2. cmd.tces \in SUBSET TCE /\ cmd.last \in SUBSET TCE
    BY <1>1, <2>1 DEF Command
  <2>3. ForTCEs(kind, cmd.tces, cmd.last) \in Command
    BY <2>2, CommandsAreCommands DEF Kinds
  <2>4. ASSUME Carries(ForTCEs(kind, cmd.tces, cmd.last), what, x)
        PROVE  Carries(cmd, what, x)
    <3>1. what = "turn" /\ kind \in Driving /\ x \in cmd.tces
      BY <2>4, NewCarries
    <3> QED BY <2>1, <3>1 DEF Driving, Carries
  <2> QED BY <1>3, <2>1, <2>2, <2>3, <2>4
<1>17. ASSUME SaveTestCases(t) \/ MoveToOngoing(t) PROVE Goal
  <2>1. PICK kind \in {"CheckQueue", "CheckWaitingToBeSent"} :
          /\ Stop(t) /\ h.cmd.kind \in {"ProcessTestCases", "CheckQueue"}
          /\ SendByLowest(chan, h.cmd.tces, ForTCEs(kind, h.cmd.tces, h.cmd.last))
    BY <1>17 DEF SaveTestCases, MoveToOngoing, WorksOn, CheckQueueFor, SendWaitingFor
  <2>2. h.cmd.last \in SUBSET TCE
    BY <1>0 DEF Handler
  <2>3. ForTCEs(kind, h.cmd.tces, h.cmd.last) \in Command
    BY <1>0, <2>2, CommandsAreCommands DEF Kinds
  <2>4. ASSUME Carries(ForTCEs(kind, h.cmd.tces, h.cmd.last), what, x)
        PROVE  Bears(h, what, x)
    <3>1. what = "turn" /\ kind \in Driving /\ x \in h.cmd.tces
      BY <2>4, NewCarries
    <3> QED BY <2>1, <3>1 DEF Bears
  <2> QED BY <1>0, <1>4, <2>1, <2>3, <2>4
<1>18. ASSUME CommitSent(t) PROVE Goal
  <2> DEFINE cs == ParentsOf(Batch(h))
  <2>1. Stop(t) /\ SendByLowest(chan, h.cmd.tces, UpdateStatusFor(h.cmd, cs))
    BY <1>18 DEF CommitSent
  <2>2. cs \in SUBSET TCE /\ h.cmd.last \in SUBSET TCE
    <3>1. \A i \in Batch(h) : Parent[i] \in TCE
      BY <1>0, ModelAssumption
    <3> QED BY <1>0, <3>1 DEF Handler, ParentsOf
  <2> HIDE DEF cs
  <2>3. UpdateStatusFor(h.cmd, cs) \in Command
    BY <2>2, CommandsAreCommands DEF Kinds, UpdateStatusFor
  <2>4. ~ Carries(UpdateStatusFor(h.cmd, cs), what, x)
    BY SMTT(30), NewCarries DEF UpdateStatusFor, Driving
  <2> QED BY <1>0, <1>4, <2>1, <2>3, <2>4
<1>19. ASSUME \/ TestCasesAlreadySaved(t) \/ AlreadyMoved(t) \/ UpdateTestCases(t)
              \/ RolledBack(t)
       PROVE  Goal
  BY <1>5, <1>19 DEF TestCasesAlreadySaved, AlreadyMoved, UpdateTestCases, RolledBack
<1>20. ASSUME NEW i \in TIE, SentToWorker(t, i) PROVE Goal
  <2> DEFINE g == [h EXCEPT !.ties = @ \ {i}, !.acked = @ \cup {i}]
  <2>1. Start(t, g) /\ chan' = chan
    BY <1>20 DEF SentToWorker
  <2>2. g.cmd = h.cmd /\ g.ties \subseteq h.ties
    BY <1>0 DEF Handler
  <2> HIDE DEF g
  <2> QED BY <1>6, <2>1, <2>2
<1>21. ASSUME NEW i \in TIE, RefusedByWorker(t, i) PROVE Goal
  <2> DEFINE g == [h EXCEPT !.ties = @ \ {i}, !.nacked = @ \cup {i}]
  <2>1. Start(t, g) /\ chan' = chan
    BY <1>21 DEF RefusedByWorker
  <2>2. g.cmd = h.cmd /\ g.ties \subseteq h.ties
    BY <1>0 DEF Handler
  <2> HIDE DEF g
  <2> QED BY <1>6, <2>1, <2>2
<1>22. Goal
  BY <1>11, <1>12, <1>13, <1>14, <1>15, <1>16, <1>17, <1>18, <1>19, <1>20, <1>21
     DEF UsualReader
<1> QED BY <1>22 DEF Goal

\* A turn enters the engine with a client's list or after a result, an answer is
\* asked for when a result has been written.
Enters(what, x) ==
  \/ what = "turn" /\ \E cs \in Informs : Inform(cs) /\ \E k \in DOMAIN cs : cs[k] = x
  \/ what = "turn" /\ \E r \in Results :
       TriggerNext(r) /\ result[r].more /\ x = Parent[r[1]]
  \/ what = "reply" /\ x \in Results /\ CommitResult(x)

\* No step of clients, Workers and goroutines passes anything on twice, if what
\* enters is not in the engine yet.
LEMMA ElsePassesOn ==
  ASSUME TypeOK, UsualElse, NEW what, NEW x, Thing(what, x), Single(what, x),
         Enters(what, x) => ~ InEngine(what, x)
  PROVE  /\ Single(what, x)'
         /\ InEngine(what, x)' => InEngine(what, x) \/ Enters(what, x)
<1> DEFINE Goal == /\ Single(what, x)'
                   /\ InEngine(what, x)' => InEngine(what, x) \/ Enters(what, x)
<1>0. /\ handler = [handler EXCEPT ![0] = handler[0]] /\ 0 \in Tracks
      /\ \A i \in TIE : Parent[i] \in TCE /\ TrackOf[i] \in Tracks
      /\ \A r \in Results : r[1] \in TIE
  BY ModelAssumption DEF TypeOK, Results
<1>1. ASSUME handler' = handler, NEW u \in Tracks, NEW cmd \in Command,
             chan' = Put(chan, u, cmd), Carries(cmd, what, x) => Enters(what, x)
      PROVE  Goal
  <2>1. /\ Single(what, x)'
        /\ InEngine(what, x)' => InEngine(what, x) \/ Carries(cmd, what, x)
    BY <1>1, Entered
  <2> QED BY <1>1, <2>1
<1>2. ASSUME handler' = handler, chan' = chan PROVE Goal
  BY <1>0, <1>2, WorkedOn
<1> HIDE DEF Goal
<1>3. ASSUME NEW cs \in Informs, Inform(cs) PROVE Goal
  <2> DEFINE listed == {cs[k] : k \in DOMAIN cs}
             cmd == ForTCEs("ProcessTestCases", listed, {cs[Len(cs)]})
  <2>1. handler' = handler /\ SendByLowest(chan, listed, cmd)
    BY <1>3 DEF Inform
  <2>2. cs \in Seq(TCE) /\ cs # <<>>
    BY ModelAssumption
  <2>3. listed \in SUBSET TCE /\ {cs[Len(cs)]} \in SUBSET TCE
    BY <2>2
  <2>4. cmd \in Command
    BY <2>3, CommandsAreCommands DEF Kinds
  <2>5. ASSUME Carries(cmd, what, x) PROVE Enters(what, x)
    <3>1. what = "turn" /\ "ProcessTestCases" \in Driving /\ x \in listed
      BY <2>5, NewCarries
    <3> QED BY <1>3, <3>1 DEF Enters
  <2> HIDE DEF listed, cmd
  <2>6. PICK u \in Tracks : chan' = Put(chan, u, cmd)
    BY <2>1, <2>3, SendByLowestIsPut
  <2> QED BY <1>1, <2>1, <2>4, <2>5, <2>6
<1>4. ASSUME NEW r \in Results, TriggerNext(r), result[r].more PROVE Goal
  <2> DEFINE cmd == ForTCE("CheckWaitingToBeSent", Parent[r[1]])
  <2>1. handler' = handler /\ chan' = Put(chan, TrackOf[r[1]], cmd)
    BY <1>4 DEF TriggerNext
  <2>2. cmd \in Command
    BY <1>0, CommandsAreCommands DEF Kinds
  <2>3. ASSUME Carries(cmd, what, x) PROVE Enters(what, x)
    <3>1. what = "turn" /\ "CheckWaitingToBeSent" \in Driving /\ x = Parent[r[1]]
      BY <2>3, NewCarries
    <3> QED BY <1>4, <3>1 DEF Enters
  <2> HIDE DEF cmd
  <2> QED BY <1>0, <1>1, <2>1, <2>2, <2>3
<1>5. ASSUME NEW r \in Results, CommitResult(r) PROVE Goal
  <2> DEFINE cmd == WithReply(ForTCE("UpdateTestCaseStatus", Parent[r[1]]), r)
  <2>1. handler' = handler /\ chan' = Put(chan, TrackOf[r[1]], cmd)
    BY <1>5 DEF CommitResult
  <2>2. cmd \in Command
    BY <1>0, CommandsAreCommands DEF Kinds
  <2>3. ASSUME Carries(cmd, what, x) PROVE Enters(what, x)
    <3>1. \/ what = "turn" /\ "UpdateTestCaseStatus" \in Driving /\ x = Parent[r[1]]
          \/ what = "reply" /\ x = r
      BY <2>3, NewCarries
    <3> QED BY <1>5, <3>1 DEF Enters, Driving
  <2> HIDE DEF cmd
  <2> QED BY <1>0, <1>1, <2>1, <2>2, <2>3
<1>6. ASSUME NEW i \in TIE, Response(i) PROVE Goal
  <2> DEFINE cmd == ForTCE("UpdateTestCaseStatus", Parent[i])
  <2>1. handler' = handler /\ chan' = Put(chan, TrackOf[i], cmd)
    BY <1>6 DEF Response
  <2>2. cmd \in Command
    BY <1>0, CommandsAreCommands DEF Kinds
  <2>3. ASSUME Carries(cmd, what, x) PROVE FALSE
    <3>1. what = "turn" /\ "UpdateTestCaseStatus" \in Driving /\ x = Parent[i]
      BY <2>3, NewCarries
    <3> QED BY <3>1 DEF Driving
  <2> HIDE DEF cmd
  <2> QED BY <1>0, <1>1, <2>1, <2>2, <2>3
<1>7. ASSUME \/ \E r \in Results : OpenResult(r) \/ ResultRolledBack(r)
             \/ \E r \in Results : TriggerNext(r) /\ ~ result[r].more
             \/ \E i \in TIE : WorkerReports(i, 1) \/ TimePasses(i)
      PROVE  Goal
  BY <1>2, <1>7 DEF OpenResult, ResultRolledBack, TriggerNext, WorkerReports, TimePasses
<1>8. Goal
  BY <1>3, <1>4, <1>5, <1>6, <1>7 DEF UsualElse, Reporter
<1> QED BY <1>8 DEF Goal

-----------------------------------------------------------------------------
(* What happens to goroutines and rows *)

\* How the goroutine of one result moves on.
ResultStep(r) ==
  \/ result'[r] = result[r]
  \/ /\ result'[r].phase = "done"
     /\ result[r].phase # "none" \/ (r[2] = 1 /\ sent[r[1]] > 0)
  \/ /\ result[r].phase = "none" /\ result'[r].phase = "received"
     /\ r[2] = 1 /\ sent[r[1]] > 0
  \/ OpenResult(r) \/ CommitResult(r)
  \/ /\ result[r].phase = "waiting"
     /\ result'[r] = [result[r] EXCEPT !.phase = "replied"]

\* Only who waits is answered, so that none is answered again.
LEMMA ResultSteps ==
  ASSUME TypeOK, OneAnswer, NEW r \in Results,
         (\E t \in Tracks : UsualReader(t)) \/ UsualElse
  PROVE  ResultStep(r)
<1>0. result \in [Results -> [phase: Phases, status: Statuses \cup {NoRow},
                              more: BOOLEAN]]
  BY DEF TypeOK
<1>1. ASSUME NEW cmd, cmd.reply = r => result[r].phase = "waiting",
             NEW phase \in {"replied", "done"}, result' = Answered(cmd, phase)
      PROVE  ResultStep(r)
  <2>1. CASE cmd.reply = r
    <3>1. r # NoReply
      BY DEF NoReply, Results
    <3>2. result'[r] = [result[r] EXCEPT !.phase = phase] /\ result[r].phase = "waiting"
      BY <1>0, <1>1, <2>1, <3>1 DEF Answered
    <3>3. result'[r].phase = phase
      BY <1>0, <3>2
    <3> QED BY <1>1, <3>2, <3>3 DEF ResultStep
  <2>2. CASE cmd.reply # r
    BY <1>0, <1>1, <2>2 DEF Answered, ResultStep
  <2> QED BY <2>1, <2>2
<1>2. ASSUME NEW t \in Tracks, UpdateTestCases(t) \/ RolledBack(t) \/ FailedLoad(t)
      PROVE  ResultStep(r)
  <2>1. ASSUME handler[t].cmd.reply = r PROVE result[r].phase = "waiting"
    <3>1. t \in AtReaders("reply", r)
      BY <2>1 DEF AtReaders, Bears
    <3> QED BY <3>1 DEF OneAnswer, InEngine
  <2>2. ASSUME chan[t] # <<>>, Head(chan[t]).reply = r PROVE result[r].phase = "waiting"
    <3>1. Carries(Head(chan[t]), "reply", r) /\ Head(chan[t]) \in OnChannels(chan)
      BY <2>2, PoppedCommands DEF Carries
    <3>2. Slots(chan, "reply", r) # {}
      BY <3>1, SlotsHold
    <3> QED BY <3>2 DEF OneAnswer, InEngine
  <2>3. CASE UpdateTestCases(t) \/ RolledBack(t)
    BY <1>1, <2>1, <2>3 DEF UpdateTestCases, RolledBack
  <2>4. CASE FailedLoad(t)
    BY <1>1, <2>2, <2>4 DEF FailedLoad
  <2> QED BY <1>2, <2>3, <2>4
<1>3. ASSUME NEW t \in Tracks, UsualReader(t),
             ~ UpdateTestCases(t), ~ RolledBack(t), ~ FailedLoad(t)
      PROVE  result' = result
  BY <1>3 DEF UsualReader, LoadTestCases, SaveTestCases, TestCasesAlreadySaved,
     LoadQueue, NothingOnQueue, MoveToOngoing, AlreadyMoved, LoadWaiting,
     NothingWaiting, CommitSent, SentToWorker, RefusedByWorker, LoadStatuses
<1>4. ASSUME NEW q \in Results, OpenResult(q) PROVE ResultStep(r)
  BY <1>0, <1>4 DEF OpenResult, ResultStep
<1>5. ASSUME NEW q \in Results, CommitResult(q) PROVE ResultStep(r)
  BY <1>0, <1>5 DEF CommitResult, AsPhase, ResultStep
<1>6. ASSUME NEW q \in Results, TriggerNext(q) \/ ResultRolledBack(q)
      PROVE  ResultStep(r)
  <2>1. result' = [result EXCEPT ![q].phase = "done"] /\ result[q].phase # "none"
    BY <1>6 DEF TriggerNext, ResultRolledBack, AsPhase
  <2> QED BY <1>0, <2>1 DEF ResultStep
<1>7. ASSUME NEW i \in TIE, WorkerReports(i, 1) PROVE ResultStep(r)
  <2>1. PICK s \in ReportStatuses :
          result' = [result EXCEPT ![<<i, 1>>] =
                      [phase |-> IF IsFinal(s) THEN "received" ELSE "done",
                       status |-> s, more |-> FALSE]]
    BY <1>7 DEF WorkerReports
  <2>2. sent[i] > 0 /\ result[<<i, 1>>].phase = "none"
    BY <1>7 DEF WorkerReports
  <2>3. CASE r = <<i, 1>>
    <3>1. result'[r].phase \in {"received", "done"}
      BY <1>0, <2>1, <2>3
    <3> QED BY <2>2, <2>3, <3>1 DEF ResultStep
  <2>4. CASE r # <<i, 1>>
    BY <1>0, <2>1, <2>4 DEF ResultStep
  <2> QED BY <2>3, <2>4
<1>8. ASSUME result' = result PROVE ResultStep(r)
  BY <1>8 DEF ResultStep
<1>9. ASSUME \/ \E cs \in Informs : Inform(cs)
             \/ \E i \in TIE : Response(i) \/ TimePasses(i)
      PROVE  result' = result
  BY <1>9 DEF Inform, Response, TimePasses
<1> QED BY <1>2, <1>3, <1>4, <1>5, <1>6, <1>7, <1>8, <1>9
        DEF UsualElse, Reporter

\* A row as a TCE's next move depends on it: nothing has changed but that a TIE
\* which a Worker has is known to execute.
SameRow(i) ==
  /\ sent'[i] = sent[i]
  /\ \/ tiue'[i].status = tiue[i].status
     \/ /\ tiue[i].status = INITIATED /\ sent[i] > 0
        /\ tiue'[i].status = EXECUTING

\* What a row that is the same keeps.
LEMMA SameRowKeeps ==
  ASSUME NEW i \in TIE, SameRow(i), TypeOK
  PROVE  /\ HasRow(i)' <=> HasRow(i)
         /\ EndedOk(tiue[i].status)' <=> EndedOk(tiue[i].status)
         /\ IsOngoing(tiue[i].status)' <=> IsOngoing(tiue[i].status)
         /\ Unsent(i)' <=> Unsent(i)
         /\ Progress(i)' = Progress(i)
<1>0. sent[i] \in Nat
  BY DEF TypeOK
<1>1. /\ HasRow(i)' <=> HasRow(i)
      /\ EndedOk(tiue'[i].status) <=> EndedOk(tiue[i].status)
      /\ IsOngoing(tiue'[i].status) <=> IsOngoing(tiue[i].status)
  BY DEF SameRow, HasRow, EndedOk, IsOngoing, INITIATED, EXECUTING, NoRow,
     FINISHED_OK, FINISHED_OK_CAN_BE_RERUN
<1>2. Unsent(i)' <=> Unsent(i)
  BY <1>0 DEF SameRow, Unsent, INITIATED, EXECUTING
<1> QED BY <1>1, <1>2 DEF Progress

\* The steps of a track that write no result and move or give out no TIE leave all
\* rows the same.
LEMMA ReaderKeepsRows ==
  ASSUME IInv, NEW t \in Tracks, UsualReader(t), NEW i \in TIE,
         \/ UNCHANGED <<tiue, sent>> \/ CommitSent(t)
  PROVE  SameRow(i)
<1>0. tiue \in [TIE -> [status: Statuses \cup {NoRow}, end: {"null", "future", "past"}]]
  BY DEF IInv, TypeOK
<1>1. CASE CommitSent(t)
  <2>1. PICK last \in Batch(handler[t]) : tiue' = StatusOfLastSent(handler[t], last)
    BY <1>1 DEF CommitSent
  <2>2. sent' = sent
    BY <1>1 DEF CommitSent, environment
  <2>3. last \in handler[t].acked => sent[last] > 0
    BY DEF IInv, HandlerRows, AboutRows
  <2>4. CASE i = last
    <3>1. CASE tiue[i].status # INITIATED
      BY <2>1, <2>2, <2>4, <3>1 DEF StatusOfLastSent, SameRow
    <3>2. CASE tiue[i].status = INITIATED /\ i \in handler[t].acked
      BY <1>0, <2>1, <2>2, <2>3, <2>4, <3>2 DEF StatusOfLastSent, SameRow
    <3>3. CASE tiue[i].status = INITIATED /\ i \notin handler[t].acked
      BY <1>0, <2>1, <2>2, <2>4, <3>3 DEF StatusOfLastSent, SameRow
    <3> QED BY <3>1, <3>2, <3>3
  <2>5. CASE i # last
    BY <1>0, <2>1, <2>2, <2>5 DEF StatusOfLastSent, SameRow
  <2> QED BY <2>4, <2>5
<1> QED BY <1>1 DEF SameRow

\* Of the other steps only the commit of a result changes the status of a row.
LEMMA ElseKeepsRows ==
  ASSUME IInv, UsualElse, NEW i \in TIE,
         \A r \in Results : CommitResult(r) => r[1] # i
  PROVE  SameRow(i)
<1>0. /\ tiue \in [TIE -> [status: Statuses \cup {NoRow}, end: {"null", "future", "past"}]]
  BY DEF IInv, TypeOK
<1>1. ASSUME NEW k \in TIE, Response(k) PROVE SameRow(i)
  <2>1. /\ tiue' = StatusOfResponse(k) /\ sent[k] > 0 /\ sent' = sent
    BY <1>1 DEF Response
  <2>2. CASE i = k
    BY <1>0, <2>1, <2>2 DEF StatusOfResponse, SameRow
  <2>3. CASE i # k
    BY <1>0, <2>1, <2>3 DEF StatusOfResponse, SameRow
  <2> QED BY <2>2, <2>3
<1>2. ASSUME NEW k \in TIE, TimePasses(k) PROVE SameRow(i)
  BY <1>0, <1>2 DEF TimePasses, SameRow, environment
<1>3. ASSUME NEW r \in Results, CommitResult(r) PROVE SameRow(i)
  BY <1>0, <1>3 DEF CommitResult, StatusOfReport, SameRow, environment
<1>4. ASSUME \/ \E cs \in Informs : Inform(cs)
             \/ \E r \in Results : OpenResult(r) \/ TriggerNext(r) \/ ResultRolledBack(r)
             \/ \E k \in TIE : WorkerReports(k, 1)
      PROVE  SameRow(i)
  BY <1>4 DEF Inform, OpenResult, TriggerNext, ResultRolledBack, WorkerReports,
     database, environment, SameRow
<1> QED BY <1>1, <1>2, <1>3, <1>4 DEF UsualElse, Reporter

-----------------------------------------------------------------------------
(* The invariant: who may move a TCE *)

\* A Worker whose answers arrive takes a TIE once or not at all.
LEMMA TakenOnce ==
  ASSUME Undisturbed, TypeOK, NEW t \in Tracks, NEW i \in TIE
  PROVE  /\ SentToWorker(t, i) => sent' = [sent EXCEPT ![i] = @ + 1]
         /\ RefusedByWorker(t, i) => sent' = sent
BY AttemptsMean DEF Undisturbed

\* What the lemmas of the inductive step assume.
Now == Undisturbed /\ IInv /\ Driven /\ Next

\* What follows at once.
LEMMA NowMeans ==
  ASSUME Now
  PROVE  /\ TypeOK /\ TypeOK' /\ OneDriver /\ OneAnswer /\ NoScans
         /\ (\E t \in Tracks : UsualReader(t)) \/ UsualElse
         /\ \A r \in Results : /\ ResultStep(r)
                               /\ r[1] \in TIE /\ (r[2] = 1 => r = <<r[1], 1>>)
         /\ \A i \in TIE : Parent[i] \in TCE /\ sent[i] \in Nat /\ <<i, 1>> \in Results
<1>1. TypeOK /\ TypeOK' /\ OneDriver /\ OneAnswer /\ NoScans
  BY TypeStep DEF Now, IInv, Driven
<1>2. (\E t \in Tracks : UsualReader(t)) \/ UsualElse
  BY <1>1, UsualSteps DEF Now
<1>3. \A r \in Results : ResultStep(r)
  BY <1>1, <1>2, ResultSteps
<1>4. \A i \in TIE : Parent[i] \in TCE /\ sent[i] \in Nat
  BY <1>1, ModelAssumption DEF TypeOK
<1>5. \A i \in TIE : <<i, 1>> \in Results
  BY DEF Results, Now, Undisturbed
<1>6. \A r \in Results : r[1] \in TIE /\ (r[2] = 1 => r = <<r[1], 1>>)
  BY DEF Results
<1> QED BY <1>1, <1>2, <1>3, <1>4, <1>5, <1>6

\* A row changes, other than by being known to execute, only through the one that
\* has the turn of its TCE.
LEMMA OnlyTheTurnMoves ==
  ASSUME Now, NEW i \in TIE, ~ SameRow(i)
  PROVE  \/ \E t \in Tracks : /\ \/ MoveToOngoing(t) /\ i \in handler[t].ties
                                 \/ SentToWorker(t, i) /\ i \in handler[t].ties
                              /\ Bears(handler[t], "turn", Parent[i])
         \/ CommitResult(<<i, 1>>) /\ i \in Out(Parent[i])
<1>0. /\ IInv /\ TypeOK
      /\ tiue \in [TIE -> [status: Statuses \cup {NoRow}, end: {"null", "future", "past"}]]
      /\ sent \in [TIE -> Nat]
  BY DEF Now, IInv, TypeOK
<1>1. ASSUME NEW t \in Tracks, MoveToOngoing(t)
      PROVE  i \in handler[t].ties /\ Bears(handler[t], "turn", Parent[i])
  <2>1. /\ tiue' = TestInstructionsUnderExecution(handler[t].ties) /\ sent' = sent
        /\ handler[t].cmd.kind = "CheckQueue"
    BY <1>1 DEF MoveToOngoing, environment, WorksOn
  <2>2. i \in handler[t].ties
    BY <1>0, <2>1 DEF TestInstructionsUnderExecution, SameRow
  <2>3. Parent[i] \in handler[t].cmd.tces
    BY <2>1, <2>2 DEF Now, Driven, HandlersRight
  <2> QED BY <2>1, <2>2, <2>3 DEF Bears
<1>2. ASSUME NEW t \in Tracks, NEW k \in TIE, SentToWorker(t, k)
      PROVE  i = k /\ i \in handler[t].ties /\ Bears(handler[t], "turn", Parent[i])
  <2>1. /\ tiue' = tiue /\ sent' = [sent EXCEPT ![k] = @ + 1]
        /\ handler[t].cmd.kind = "CheckWaitingToBeSent" /\ k \in handler[t].ties
    BY <1>0, <1>2, TakenOnce DEF SentToWorker, database, WorksOn, IsLowest, Now
  <2>2. i = k
    BY <1>0, <2>1 DEF SameRow
  <2> QED BY <2>1, <2>2 DEF Bears, ParentsOf
<1>3. ASSUME NEW t \in Tracks, UsualReader(t)
      PROVE  MoveToOngoing(t) \/ \E k \in TIE : SentToWorker(t, k)
  <2>1. \/ UNCHANGED <<tiue, sent>> \/ CommitSent(t) \/ MoveToOngoing(t)
        \/ \E k \in TIE : SentToWorker(t, k)
    <3>1. ASSUME NEW k \in TIE, RefusedByWorker(t, k) PROVE UNCHANGED <<tiue, sent>>
      BY <1>0, <3>1, TakenOnce DEF RefusedByWorker, database, Now
    <3> QED
      BY <1>3, <3>1 DEF UsualReader, LoadTestCases, SaveTestCases, TestCasesAlreadySaved,
         LoadQueue, NothingOnQueue, AlreadyMoved, LoadWaiting, NothingWaiting,
         LoadStatuses, UpdateTestCases, FailedLoad, RolledBack, database, environment
  <2> QED BY <1>0, <1>3, <2>1, ReaderKeepsRows
<1>4. ASSUME UsualElse PROVE CommitResult(<<i, 1>>) /\ i \in Out(Parent[i])
  <2>1. PICK r \in Results : CommitResult(r) /\ r[1] = i
    BY <1>0, <1>4, ElseKeepsRows
  <2>2. result[r].phase = "open"
    BY <2>1 DEF CommitResult
  <2>3. r[2] = 1 /\ sent[r[1]] > 0
    BY <2>2 DEF Now, Driven, ReportsRight
  <2>4. r = <<i, 1>>
    BY <2>1, <2>3, NowMeans
  <2> QED BY <2>1, <2>2, <2>3, <2>4 DEF Out, ChildrenOf
<1> QED BY <1>1, <1>2, <1>3, <1>4, NowMeans

\* Who has the turn: a client, the engine or a Worker.
LEMMA TurnIsTaken ==
  ASSUME Now, NEW i \in TIE, ~ SameRow(i)
  PROVE  /\ ~ Listed(Parent[i]) /\ Slots(chan, "turn", Parent[i]) = {}
         /\ \A j \in Out(Parent[i]) : j = i /\ CommitResult(<<i, 1>>)
         /\ \A u \in Tracks : Bears(handler[u], "turn", Parent[i]) =>
              /\ i \in handler[u].ties
              /\ MoveToOngoing(u) \/ SentToWorker(u, i)
<1> DEFINE c == Parent[i]
<1>0. /\ c \in TCE
      /\ Single("turn", c) /\ AtMostOne(Out(c))
      /\ Listed(c) => Out(c) = {} /\ ~ InEngine("turn", c)
      /\ Out(c) # {} => ~ InEngine("turn", c)
      /\ \A u \in Tracks : Bears(handler[u], "turn", c) <=> u \in AtReaders("turn", c)
  BY NowMeans DEF OneDriver, AtReaders
<1> HIDE DEF c
<1>1. ASSUME NEW t \in Tracks, Bears(handler[t], "turn", c),
             i \in handler[t].ties, MoveToOngoing(t) \/ SentToWorker(t, i)
      PROVE  /\ ~ Listed(c) /\ Slots(chan, "turn", c) = {}
             /\ Out(c) = {}
             /\ \A u \in Tracks : Bears(handler[u], "turn", c) => u = t
  <2>1. t \in AtReaders("turn", c)
    BY <1>0, <1>1
  <2> QED BY <1>0, <2>1 DEF Single, InEngine, AtMostOne
<1>2. ASSUME CommitResult(<<i, 1>>), i \in Out(c)
      PROVE  /\ ~ Listed(c) /\ Slots(chan, "turn", c) = {}
             /\ \A j \in Out(c) : j = i
             /\ \A u \in Tracks : ~ Bears(handler[u], "turn", c)
  BY <1>0, <1>2 DEF InEngine, AtMostOne
<1>3. \/ \E t \in Tracks : /\ MoveToOngoing(t) \/ SentToWorker(t, i)
                           /\ i \in handler[t].ties /\ Bears(handler[t], "turn", c)
      \/ CommitResult(<<i, 1>>) /\ i \in Out(c)
  BY OnlyTheTurnMoves DEF c
<1>4. CASE CommitResult(<<i, 1>>) /\ i \in Out(c)
  BY <1>2, <1>4 DEF c
<1>5. ASSUME NEW t \in Tracks, MoveToOngoing(t) \/ SentToWorker(t, i),
             i \in handler[t].ties, Bears(handler[t], "turn", c)
      PROVE  /\ ~ Listed(c) /\ Slots(chan, "turn", c) = {}
             /\ \A j \in Out(c) : j = i /\ CommitResult(<<i, 1>>)
             /\ \A u \in Tracks : Bears(handler[u], "turn", c) =>
                  /\ i \in handler[u].ties
                  /\ MoveToOngoing(u) \/ SentToWorker(u, i)
  BY <1>1, <1>5
<1> QED BY <1>3, <1>4, <1>5 DEF c

\* A TIE counts as out at a Worker from the moment it is sent until its result has
\* been handled.
LEMMA OutAfter ==
  ASSUME Now, NEW c \in TCE
  PROVE  /\ sent' = sent => Out(c)' \subseteq Out(c)
         /\ \A t \in Tracks, i \in TIE :
              SentToWorker(t, i) => Out(c)' \subseteq Out(c) \cup {i}
<1>1. ASSUME NEW i \in TIE, result'[<<i, 1>>].phase # "done"
      PROVE  result[<<i, 1>>].phase # "done"
  <2>1. ResultStep(<<i, 1>>)
    BY NowMeans
  <2> QED BY <1>1, <2>1 DEF ResultStep, OpenResult, CommitResult
<1>2. ASSUME sent' = sent PROVE Out(c)' \subseteq Out(c)
  BY <1>1, <1>2 DEF Out, ChildrenOf
<1>3. ASSUME NEW t \in Tracks, NEW i \in TIE, SentToWorker(t, i)
      PROVE  Out(c)' \subseteq Out(c) \cup {i}
  <2>1. sent' = [sent EXCEPT ![i] = @ + 1] /\ sent \in [TIE -> Nat]
    BY <1>3, NowMeans, TakenOnce DEF TypeOK, Now
  <2>2. \A j \in TIE : j # i => sent'[j] = sent[j]
    BY <2>1
  <2> QED BY <1>1, <2>2 DEF Out, ChildrenOf
<1> QED BY <1>2, <1>3

\* A client that has informed the server about a TCE does not do so again.
LEMMA ListedAfter ==
  ASSUME Now, NEW c \in TCE, Listed(c)'
  PROVE  /\ Listed(c)
         /\ \A cs \in Informs : Inform(cs) => \A k \in DOMAIN cs : cs[k] # c
<1>1. PICK ds \in pending' : \E k \in DOMAIN ds : ds[k] = c
  BY DEF Listed
<1>2. ASSUME NEW cs \in Informs, Inform(cs)
      PROVE  ds \in pending /\ \A k \in DOMAIN cs : cs[k] # c
  <2>1. ds \in pending /\ ds # cs /\ ds \in Informs
    BY <1>1, <1>2, NowMeans DEF Inform, TypeOK
  <2> QED BY <1>1, <2>1 DEF Now, Undisturbed
<1>3. ASSUME NEW t \in Tracks, UsualReader(t) PROVE pending' = pending
  BY <1>3 DEF UsualReader, LoadTestCases, SaveTestCases, TestCasesAlreadySaved,
     LoadQueue, NothingOnQueue, MoveToOngoing, AlreadyMoved, LoadWaiting,
     NothingWaiting, CommitSent, SentToWorker, RefusedByWorker, LoadStatuses,
     UpdateTestCases, FailedLoad, RolledBack, environment
<1>4. ASSUME UsualElse PROVE pending' = pending \/ \E cs \in Informs : Inform(cs)
  BY <1>4 DEF UsualElse, Reporter, OpenResult, CommitResult, TriggerNext,
     ResultRolledBack, WorkerReports, Response, TimePasses, environment
<1>5. ds \in pending
  BY <1>1, <1>2, <1>3, <1>4, NowMeans
<1> QED BY <1>1, <1>2, <1>5 DEF Listed

\* Nobody else may move a TCE that somebody may.
LEMMA OneDriverStays ==
  ASSUME Now
  PROVE  OneDriver'
<1> SUFFICES ASSUME NEW c \in TCE
             PROVE  /\ Single("turn", c)' /\ AtMostOne(Out(c))'
                    /\ Listed(c)' => Out(c)' = {} /\ ~ InEngine("turn", c)'
                    /\ Out(c)' # {} => ~ InEngine("turn", c)'
  BY DEF OneDriver
<1> DEFINE Goal == /\ Single("turn", c)' /\ AtMostOne(Out(c)')
                   /\ Listed(c)' => Out(c)' = {} /\ ~ InEngine("turn", c)'
                   /\ Out(c)' # {} => ~ InEngine("turn", c)'
<1>0. /\ TypeOK /\ NoScans /\ Thing("turn", c)
      /\ Single("turn", c) /\ AtMostOne(Out(c))
      /\ Listed(c) => Out(c) = {} /\ ~ InEngine("turn", c)
      /\ Out(c) # {} => ~ InEngine("turn", c)
      /\ Listed(c)' => Listed(c)
  BY NowMeans, ListedAfter DEF OneDriver, Thing
<1>1. ASSUME Out(c)' \subseteq Out(c), Single("turn", c)',
             InEngine("turn", c)' => InEngine("turn", c)
      PROVE  Goal
  <2>1. AtMostOne(Out(c)') /\ (Out(c)' # {} => Out(c) # {})
    BY <1>0, <1>1 DEF AtMostOne
  <2> QED BY <1>0, <1>1, <2>1
<1>2. ASSUME NEW t \in Tracks, UsualReader(t), sent' = sent PROVE Goal
  <2>1. Single("turn", c)' /\ (InEngine("turn", c)' => InEngine("turn", c))
    BY <1>0, <1>2, ReaderPassesOn
  <2> QED BY <1>1, <1>2, <2>1, OutAfter
<1>3. ASSUME NEW t \in Tracks, NEW i \in TIE, SentToWorker(t, i) PROVE Goal
  <2> DEFINE h == [handler[t] EXCEPT !.ties = @ \ {i}, !.acked = @ \cup {i}]
  <2>1. /\ handler' = [handler EXCEPT ![t] = h] /\ chan' = chan
        /\ handler[t].cmd.kind = "CheckWaitingToBeSent" /\ i \in handler[t].ties
    BY <1>3 DEF SentToWorker, Start, WorksOn, IsLowest
  <2>2. h.cmd = handler[t].cmd /\ h.ties = handler[t].ties \ {i}
    BY <1>0 DEF TypeOK, Handler
  <2> HIDE DEF h
  <2>3. UsualReader(t)
    BY <1>3 DEF UsualReader
  <2>4. Single("turn", c)' /\ (InEngine("turn", c)' => InEngine("turn", c))
    BY <1>0, <2>3, ReaderPassesOn
  <2>5. CASE Parent[i] # c
    <3>1. Out(c)' \subseteq Out(c)
      BY <1>3, <2>5, OutAfter DEF Out, ChildrenOf
    <3> QED BY <1>1, <2>4, <3>1
  <2>6. CASE Parent[i] = c
    <3>1. Bears(handler[t], "turn", c) /\ t \in AtReaders("turn", c)
      BY <2>1, <2>6 DEF Bears, ParentsOf, AtReaders
    <3>2. /\ Out(c) = {} /\ ~ Listed(c) /\ Slots(chan, "turn", c) = {}
          /\ AtReaders("turn", c) = {t}
      BY <1>0, <3>1 DEF InEngine, Single, AtMostOne
    <3>3. Out(c)' \subseteq {i}
      BY <1>3, <3>2, OutAfter
    \* No other TIE of the TCE is left to send.
    <3>4. ~ Bears(h, "turn", c)
      <4>1. ASSUME NEW j \in h.ties, Parent[j] = c PROVE FALSE
        <5>1. i \in TIE /\ j \in TIE /\ j \in handler[t].ties /\ j # i
          BY <1>0, <2>1, <2>2, <4>1 DEF TypeOK, Handler
        <5>2. tiue[i].status = INITIATED /\ tiue[j].status = INITIATED
          BY <2>1, <5>1 DEF Now, Driven, HandlersRight, Unsent
        <5>3. /\ HasRow(i) /\ ~ EndedOk(tiue[i].status)
              /\ HasRow(j) /\ ~ EndedOk(tiue[j].status)
          BY <5>2 DEF HasRow, EndedOk, INITIATED, NoRow, FINISHED_OK,
             FINISHED_OK_CAN_BE_RERUN
        <5> QED BY <2>6, <4>1, <5>1, <5>3 DEF Now, Driven, OneUnfinished
      <4> QED BY <2>1, <2>2, <4>1 DEF Bears, ParentsOf
    <3>5. AtReaders("turn", c)' = {}
      BY <1>0, <2>1, <3>2, <3>4, ReadersAfter
    <3>6. Slots(chan, "turn", c)' = {}
      BY <2>1, <3>2 DEF Slots
    <3>7. ~ InEngine("turn", c)' /\ AtMostOne(Out(c)')
      BY <3>3, <3>5, <3>6 DEF InEngine, AtMostOne
    <3> QED BY <1>0, <2>4, <3>2, <3>7
  <2> QED BY <2>5, <2>6
<1>4. ASSUME NEW cs \in Informs, Inform(cs), NEW k \in DOMAIN cs, cs[k] = c
      PROVE  Listed(c) /\ ~ Listed(c)'
  BY <1>4, ListedAfter DEF Inform, Listed
<1>5. ASSUME NEW r \in Results, TriggerNext(r), c = Parent[r[1]]
      PROVE  r[1] \in Out(c) /\ r[1] \notin Out(c)'
  <2>1. /\ result[r].phase = "replied" /\ result' = AsPhase(r, "done")
    BY <1>5 DEF TriggerNext
  <2>2. r[2] = 1 /\ sent[r[1]] > 0
    BY <2>1 DEF Now, Driven, ReportsRight
  <2>3. r = <<r[1], 1>> /\ r[1] \in TIE
    BY <2>2, NowMeans
  <2>4. result'[r].phase = "done"
    BY <1>0, <2>1 DEF AsPhase, TypeOK
  <2> QED BY <1>5, <2>1, <2>2, <2>3, <2>4 DEF Out, ChildrenOf
<1>6. ASSUME UsualElse PROVE Goal
  <2>1. Out(c)' \subseteq Out(c)
    <3>1. sent' = sent
      BY <1>6 DEF UsualElse, Reporter, Inform, OpenResult, CommitResult, TriggerNext,
         ResultRolledBack, WorkerReports, Response, TimePasses, environment
    <3> QED BY <3>1, OutAfter
  <2>2. ASSUME Enters("turn", c)
        PROVE  ~ InEngine("turn", c) /\ Out(c)' = {} /\ ~ Listed(c)'
    <3>1. CASE \E cs \in Informs : Inform(cs) /\ \E k \in DOMAIN cs : cs[k] = c
      BY <1>0, <1>4, <2>1, <3>1
    <3>2. CASE \E r \in Results : TriggerNext(r) /\ c = Parent[r[1]]
      <4>1. PICK r \in Results : r[1] \in Out(c) /\ r[1] \notin Out(c)'
        BY <1>5, <3>2
      <4>2. Out(c)' = {}
        BY <1>0, <2>1, <4>1 DEF AtMostOne
      <4> QED BY <1>0, <4>1, <4>2
    <3> QED BY <2>2, <3>1, <3>2 DEF Enters
  <2>3. /\ Single("turn", c)'
        /\ InEngine("turn", c)' => InEngine("turn", c) \/ Enters("turn", c)
    BY <1>0, <1>6, <2>2, ElsePassesOn
  <2>4. CASE Enters("turn", c)
    BY <2>2, <2>3, <2>4 DEF AtMostOne
  <2>5. CASE ~ Enters("turn", c)
    BY <1>1, <2>1, <2>3, <2>5
  <2> QED BY <2>4, <2>5
<1>7. ASSUME NEW t \in Tracks, UsualReader(t)
      PROVE  sent' = sent \/ \E i \in TIE : SentToWorker(t, i)
  <2>1. ASSUME NEW i \in TIE, RefusedByWorker(t, i) PROVE sent' = sent
    BY <2>1, NowMeans, TakenOnce DEF Now
  <2> QED
    BY <1>7, <2>1 DEF UsualReader, LoadTestCases, SaveTestCases, TestCasesAlreadySaved,
       LoadQueue, NothingOnQueue, MoveToOngoing, AlreadyMoved, LoadWaiting,
       NothingWaiting, CommitSent, LoadStatuses, UpdateTestCases, FailedLoad,
       RolledBack, environment
<1>8. Goal
  BY <1>2, <1>3, <1>6, <1>7, NowMeans
<1> QED BY <1>8 DEF AtMostOne

\* A goroutine that is waiting is waited for by one command, and none asks for an
\* answer that nobody waits for.
LEMMA OneAnswerStays ==
  ASSUME Now
  PROVE  OneAnswer'
<1> SUFFICES ASSUME NEW r \in Results
             PROVE  /\ Single("reply", r)'
                    /\ InEngine("reply", r)' => result'[r].phase = "waiting"
  BY DEF OneAnswer
<1>0. /\ TypeOK /\ NoScans /\ Thing("reply", r) /\ Single("reply", r)
      /\ InEngine("reply", r) => result[r].phase = "waiting"
      /\ result \in [Results -> [phase: Phases, status: Statuses \cup {NoRow},
                                 more: BOOLEAN]]
      /\ r # NoReply
  BY SMTT(30), NowMeans DEF OneAnswer, Thing, TypeOK, NoReply, Results
<1>1. ASSUME NEW t \in Tracks, UsualReader(t)
      PROVE  /\ Single("reply", r)'
             /\ InEngine("reply", r)' => result'[r].phase = "waiting"
  <2>1. Single("reply", r)' /\ (InEngine("reply", r)' => InEngine("reply", r))
    BY <1>0, <1>1, ReaderPassesOn
  <2>2. ASSUME Stop(t), chan' = chan, handler[t].cmd.reply = r PROVE ~ InEngine("reply", r)'
    <3>1. t \in AtReaders("reply", r)
      BY <2>2 DEF AtReaders, Bears
    <3>2. Slots(chan, "reply", r) = {} /\ AtReaders("reply", r) = {t}
      BY <1>0, <3>1 DEF Single, AtMostOne
    <3>3. AtReaders("reply", r)' = {}
      <4>1. handler' = [handler EXCEPT ![t] = Idle]
        BY <2>2 DEF Stop, Start
      <4>2. \A u : u \in AtReaders("reply", r)' <=>
                    \/ u = t /\ Bears(Idle, "reply", r)
                    \/ u # t /\ u \in AtReaders("reply", r)
        BY <1>0, <4>1, ReadersAfter
      <4> QED BY <1>0, <3>2, <4>2, IdleBearsNothing
    <3> QED BY <2>2, <3>2, <3>3 DEF InEngine, Slots
  <2>3. ASSUME FailedLoad(t), Head(chan[t]).reply = r PROVE ~ InEngine("reply", r)'
    <3>1. chan[t] # <<>> /\ handler' = handler
      BY <2>3 DEF FailedLoad
    <3>2. Head(chan[t]).kind \in Driving \cup {"UpdateTestCaseStatus"}
      BY <1>0, <3>1, PoppedCommands DEF NoScans
    <3>3. chan' = Popped(t)
      BY <2>3, <3>2 DEF FailedLoad, NextScan, Driving
    <3>4. Carries(Head(chan[t]), "reply", r)
      BY <2>3 DEF Carries
    <3>5. Slots(chan, "reply", r) # {} /\ Slots(Popped(t), "reply", r) = {}
      BY <1>0, <3>1, <3>4, PoppedSlots DEF Single
    <3>6. Slots(chan, "reply", r)' = {}
      BY <3>3, <3>5
    <3>7. AtReaders("reply", r)' = {}
      BY <1>0, <3>1, <3>5 DEF Single, AtReaders
    <3> QED BY <3>6, <3>7 DEF InEngine
  <2>4. ASSUME NEW cmd, NEW phase, result' = Answered(cmd, phase), cmd.reply # r
        PROVE  result'[r] = result[r]
    BY <1>0, <2>4 DEF Answered
  <2>5. \/ result'[r] = result[r]
        \/ Stop(t) /\ chan' = chan /\ handler[t].cmd.reply = r
        \/ FailedLoad(t) /\ Head(chan[t]).reply = r
    <3>1. CASE UpdateTestCases(t) \/ RolledBack(t)
      BY <2>4, <3>1 DEF UpdateTestCases, RolledBack
    <3>2. CASE FailedLoad(t)
      BY <2>4, <3>2 DEF FailedLoad
    <3>3. CASE ~ UpdateTestCases(t) /\ ~ RolledBack(t) /\ ~ FailedLoad(t)
      BY <1>1, <3>3 DEF UsualReader, LoadTestCases, SaveTestCases, TestCasesAlreadySaved,
         LoadQueue, NothingOnQueue, MoveToOngoing, AlreadyMoved, LoadWaiting,
         NothingWaiting, CommitSent, SentToWorker, RefusedByWorker, LoadStatuses
    <3> QED BY <3>1, <3>2, <3>3
  <2> QED BY <1>0, <2>1, <2>2, <2>3, <2>5
<1>2. ASSUME UsualElse
      PROVE  /\ Single("reply", r)'
             /\ InEngine("reply", r)' => result'[r].phase = "waiting"
  <2>1. ASSUME Enters("reply", r)
        PROVE  ~ InEngine("reply", r) /\ result'[r].phase = "waiting"
    <3>1. CommitResult(r)
      BY <2>1 DEF Enters
    <3> QED BY <1>0, <3>1 DEF CommitResult, AsPhase
  <2>2. /\ Single("reply", r)'
        /\ InEngine("reply", r)' => InEngine("reply", r) \/ Enters("reply", r)
    BY <1>0, <1>2, <2>1, ElsePassesOn
  <2>3. ASSUME result[r].phase = "waiting" PROVE result'[r].phase = "waiting"
    <3>1. ASSUME NEW q \in Results, NEW phase, result' = AsPhase(q, phase),
                 result[q].phase # "waiting"
          PROVE  result'[r].phase = "waiting"
      BY <1>0, <2>3, <3>1 DEF AsPhase
    <3>2. ASSUME NEW q \in Results, Reporter(q) \/ ResultRolledBack(q)
          PROVE  result'[r].phase = "waiting"
      <4>1. CASE OpenResult(q)
        <5>1. result[q].phase = "received" /\ q # r
          BY <2>3, <4>1 DEF OpenResult
        <5>2. result'[r] = result[r]
          BY <1>0, <4>1, <5>1 DEF OpenResult
        <5> QED BY <2>3, <5>2
      <4>2. CASE CommitResult(q) \/ TriggerNext(q) \/ ResultRolledBack(q)
        BY <3>1, <4>2 DEF CommitResult, TriggerNext, ResultRolledBack
      <4> QED BY <3>2, <4>1, <4>2 DEF Reporter
    <3>3. ASSUME NEW i \in TIE, WorkerReports(i, 1) PROVE result'[r].phase = "waiting"
      <4>1. result[<<i, 1>>].phase = "none" /\ <<i, 1>> \in Results
        BY <3>3, NowMeans DEF WorkerReports
      <4>2. \E x : result' = [result EXCEPT ![<<i, 1>>] = x]
        BY <3>3 DEF WorkerReports
      <4> QED BY <1>0, <2>3, <4>1, <4>2
    <3>4. ASSUME \/ \E cs \in Informs : Inform(cs)
                 \/ \E i \in TIE : Response(i) \/ TimePasses(i)
          PROVE  result' = result
      BY <3>4 DEF Inform, Response, TimePasses
    <3> QED BY <1>2, <2>3, <3>2, <3>3, <3>4 DEF UsualElse
  <2> QED BY <1>0, <2>1, <2>2, <2>3
<1> QED BY <1>1, <1>2, NowMeans

-----------------------------------------------------------------------------
(* The invariant: what holds of the rows of who has the turn *)

\* The rows of a TCE are the same when each of its TIEs' is.
LEMMA RowsStay ==
  ASSUME Now, NEW c \in TCE, \A i \in TIE : Parent[i] = c => SameRow(i)
  PROVE  /\ AllOk(c) => AllOk(c)'
         /\ (\A i \in RowsOf(c) : EndedOk(tiue[i].status) \/ Unsent(i)) =>
              (\A i \in RowsOf(c) : EndedOk(tiue[i].status) \/ Unsent(i))'
<1>1. \A i \in TIE : Parent[i] = c =>
        /\ HasRow(i)' <=> HasRow(i)
        /\ EndedOk(tiue'[i].status) <=> EndedOk(tiue[i].status)
        /\ Unsent(i)' <=> Unsent(i)
  BY NowMeans, SameRowKeeps
<1>2. \A i : i \in RowsOf(c)' <=> i \in RowsOf(c)
  BY <1>1 DEF RowsOf
<1> QED BY <1>1, <1>2 DEF AllOk, RowsOf

\* A step of which a row of a TCE tells nothing.
LEMMA NothingMoved ==
  ASSUME Now, NEW c \in TCE, UNCHANGED <<tiue, sent>>
  PROVE  \A i \in TIE : Parent[i] = c => SameRow(i)
BY DEF SameRow

\* Where the commands on the channels come from.
Sends(cmd) ==
  \/ \E t \in Tracks : SaveTestCases(t) /\ cmd = CheckQueueFor(handler[t].cmd)
  \/ \E t \in Tracks : MoveToOngoing(t) /\ cmd = SendWaitingFor(handler[t].cmd)
  \/ \E t \in Tracks : NothingWaiting(t) /\ cmd = CheckQueueFor(Head(chan[t]))
  \/ \E cs \in Informs :
       /\ Inform(cs)
       /\ cmd = ForTCEs("ProcessTestCases", {cs[k] : k \in DOMAIN cs}, {cs[Len(cs)]})
  \/ \E r \in Results :
       /\ TriggerNext(r) /\ result[r].more
       /\ cmd = ForTCE("CheckWaitingToBeSent", Parent[r[1]])
  \/ cmd.kind = "UpdateTestCaseStatus"

\* The fields of the commands that are sent.
LEMMA FieldsOfCommands ==
  /\ \A kind, cs, last : /\ ForTCEs(kind, cs, last).kind = kind
                         /\ ForTCEs(kind, cs, last).tces = cs
  /\ \A kind, c : ForTCE(kind, c).kind = kind /\ ForTCE(kind, c).tces = {c}
  /\ \A kind, c, r : WithReply(ForTCE(kind, c), r).kind = kind
BY DEF ForTCEs, ForTCE, WithReply

\* No other command gets on a channel.
LEMMA CommandsAreSent ==
  ASSUME Now, NEW cmd \in OnChannels(chan')
  PROVE  cmd \in OnChannels(chan) \/ Sends(cmd)
<1> DEFINE Goal == cmd \in OnChannels(chan) \/ Sends(cmd)
<1>0. /\ chan \in [Tracks -> Seq(Command)]
      /\ \A t \in Tracks : handler[t] \in Handler
      /\ \A r \in Results : r[1] \in TIE /\ Parent[r[1]] \in TCE /\ TrackOf[r[1]] \in Tracks
      /\ \A i \in TIE : Parent[i] \in TCE /\ TrackOf[i] \in Tracks
  BY NowMeans, ModelAssumption DEF TypeOK
<1>1. ASSUME NEW t \in Tracks, chan[t] # <<>>
      PROVE  /\ Popped(t) \in [Tracks -> Seq(Command)]
             /\ OnChannels(Popped(t)) \subseteq OnChannels(chan)
             /\ Head(chan[t]) \in Command
  BY <1>1, NowMeans, PoppedType, PoppedCommands
<1>2. ASSUME NEW u \in Tracks, NEW new \in Command, chan' = Put(chan, u, new), Sends(new)
      PROVE  Goal
  <2>1. OnChannels(chan') \subseteq OnChannels(chan) \cup {new}
    BY <1>0, <1>2, PutCommands
  <2> QED BY <1>2, <2>1
<1>3. ASSUME NEW cs \in SUBSET TCE, NEW new \in Command, SendByLowest(chan, cs, new),
             Sends(new)
      PROVE  Goal
  <2>1. PICK u \in Tracks : chan' = Put(chan, u, new)
    BY <1>3, SendByLowestIsPut
  <2> QED BY <1>2, <1>3, <2>1
<1>4. ASSUME NEW t \in Tracks, chan[t] # <<>>, NEW cs \in SUBSET TCE,
             NEW new \in Command, SendByLowest(Popped(t), cs, new), Sends(new)
      PROVE  Goal
  <2>1. OnChannels(chan') \subseteq OnChannels(Popped(t)) \cup {new}
    BY <1>1, <1>4, SendByLowestCommands
  <2> QED BY <1>1, <1>4, <2>1
<1>5. ASSUME NEW t \in Tracks, chan[t] # <<>>, chan' = Popped(t) PROVE Goal
  BY <1>1, <1>5
<1>6. ASSUME chan' = chan PROVE Goal
  BY <1>6
<1> HIDE DEF Goal
<1>11. ASSUME NEW t \in Tracks, SaveTestCases(t) PROVE Goal
  <2>1. SendByLowest(chan, handler[t].cmd.tces, CheckQueueFor(handler[t].cmd))
    BY <1>11 DEF SaveTestCases
  <2>2. handler[t].cmd.tces \in SUBSET TCE /\ handler[t].cmd.last \in SUBSET TCE
    BY <1>0 DEF Handler
  <2>3. CheckQueueFor(handler[t].cmd) \in Command
    BY <2>2, CommandsAreCommands DEF Kinds, CheckQueueFor
  <2> QED BY <1>3, <1>11, <2>1, <2>2, <2>3 DEF Sends
<1>12. ASSUME NEW t \in Tracks, MoveToOngoing(t) PROVE Goal
  <2>1. SendByLowest(chan, handler[t].cmd.tces, SendWaitingFor(handler[t].cmd))
    BY <1>12 DEF MoveToOngoing
  <2>2. handler[t].cmd.tces \in SUBSET TCE /\ handler[t].cmd.last \in SUBSET TCE
    BY <1>0 DEF Handler
  <2>3. SendWaitingFor(handler[t].cmd) \in Command
    BY <2>2, CommandsAreCommands DEF Kinds, SendWaitingFor
  <2> QED BY <1>3, <1>12, <2>1, <2>2, <2>3 DEF Sends
<1>13. ASSUME NEW t \in Tracks, NothingWaiting(t) \/ NothingOnQueue(t) PROVE Goal
  <2> DEFINE head == Head(chan[t])
  <2>1. PICK new \in {CheckQueueFor(head), UpdateStatusFor(head, head.tces)} :
          /\ chan[t] # <<>> /\ SendByLowest(Popped(t), head.tces, new)
          /\ \/ new = CheckQueueFor(head) /\ NothingWaiting(t)
             \/ new = UpdateStatusFor(head, head.tces)
    BY <1>13 DEF NothingWaiting, NothingOnQueue, Ready
  <2>2. head.tces \in SUBSET TCE /\ head.last \in SUBSET TCE
    BY <1>1, <2>1 DEF Command
  <2>3. new \in Command
    BY <2>2, CommandsAreCommands DEF Kinds, CheckQueueFor, UpdateStatusFor
  <2>4. Sends(new)
    BY <2>1, FieldsOfCommands DEF Sends, UpdateStatusFor
  <2> QED BY <1>4, <2>1, <2>2, <2>3, <2>4
<1>14. ASSUME NEW t \in Tracks, CommitSent(t) PROVE Goal
  <2> DEFINE new == UpdateStatusFor(handler[t].cmd, ParentsOf(Batch(handler[t])))
  <2>1. SendByLowest(chan, handler[t].cmd.tces, new)
    BY <1>14 DEF CommitSent
  <2>2. /\ handler[t].cmd.tces \in SUBSET TCE /\ handler[t].cmd.last \in SUBSET TCE
        /\ \A i \in Batch(handler[t]) : i \in TIE
    BY <1>0 DEF Handler, Batch
  <2>3. ParentsOf(Batch(handler[t])) \in SUBSET TCE
    BY <1>0, <2>2 DEF ParentsOf
  <2>4. new \in Command
    BY <2>2, <2>3, CommandsAreCommands DEF Kinds, UpdateStatusFor
  <2>5. Sends(new)
    BY FieldsOfCommands DEF Sends, UpdateStatusFor
  <2> HIDE DEF new
  <2> QED BY <1>3, <2>1, <2>2, <2>4, <2>5
<1>15. ASSUME NEW t \in Tracks,
              \/ LoadTestCases(t) \/ LoadQueue(t) \/ LoadWaiting(t) \/ LoadStatuses(t)
       PROVE  Goal
  BY <1>5, <1>15 DEF LoadTestCases, LoadQueue, LoadWaiting, LoadStatuses, Ready
<1>16. ASSUME NEW t \in Tracks, FailedLoad(t) PROVE Goal
  <2>1. chan[t] # <<>> /\ chan' = NextScan(Popped(t), t, Head(chan[t]).kind)
    BY <1>16 DEF FailedLoad
  <2>2. Head(chan[t]).kind \in Driving \cup {"UpdateTestCaseStatus"}
    BY <2>1, NowMeans, PoppedCommands DEF NoScans
  <2>3. chan' = Popped(t)
    BY <2>1, <2>2 DEF NextScan, Driving
  <2> QED BY <1>5, <2>1, <2>3
<1>17. ASSUME NEW cs \in Informs, Inform(cs) PROVE Goal
  <2> DEFINE listed == {cs[k] : k \in DOMAIN cs}
             new == ForTCEs("ProcessTestCases", listed, {cs[Len(cs)]})
  <2>1. SendByLowest(chan, listed, new)
    BY <1>17 DEF Inform
  <2>2. cs \in Seq(TCE) /\ cs # <<>>
    BY ModelAssumption
  <2>3. listed \in SUBSET TCE /\ {cs[Len(cs)]} \in SUBSET TCE
    BY <2>2
  <2>4. new \in Command
    BY <2>3, CommandsAreCommands DEF Kinds
  <2>5. Sends(new)
    BY <1>17 DEF Sends
  <2> HIDE DEF listed, new
  <2> QED BY <1>3, <2>1, <2>3, <2>4, <2>5
<1>18. ASSUME NEW r \in Results, Reporter(r) PROVE Goal
  <2>1. CASE OpenResult(r) \/ (TriggerNext(r) /\ ~ result[r].more)
    BY <1>6, <2>1 DEF OpenResult, TriggerNext
  <2>2. CASE TriggerNext(r) /\ result[r].more
    <3> DEFINE new == ForTCE("CheckWaitingToBeSent", Parent[r[1]])
    <3>1. chan' = Put(chan, TrackOf[r[1]], new)
      BY <2>2 DEF TriggerNext
    <3>2. new \in Command
      BY <1>0, CommandsAreCommands DEF Kinds
    <3>3. Sends(new)
      BY <2>2 DEF Sends
    <3> HIDE DEF new
    <3> QED BY <1>0, <1>2, <3>1, <3>2, <3>3
  <2>3. CASE CommitResult(r)
    <3> DEFINE new == WithReply(ForTCE("UpdateTestCaseStatus", Parent[r[1]]), r)
    <3>1. chan' = Put(chan, TrackOf[r[1]], new)
      BY <2>3 DEF CommitResult
    <3>2. new \in Command
      BY <1>0, CommandsAreCommands DEF Kinds
    <3>3. Sends(new)
      BY FieldsOfCommands DEF Sends
    <3> HIDE DEF new
    <3> QED BY <1>0, <1>2, <3>1, <3>2, <3>3
  <2> QED BY <1>18, <2>1, <2>2, <2>3 DEF Reporter
<1>19. ASSUME NEW i \in TIE, Response(i) PROVE Goal
  <2> DEFINE new == ForTCE("UpdateTestCaseStatus", Parent[i])
  <2>1. chan' = Put(chan, TrackOf[i], new)
    BY <1>19 DEF Response
  <2>2. new \in Command
    BY <1>0, CommandsAreCommands DEF Kinds
  <2>3. Sends(new)
    BY FieldsOfCommands DEF Sends
  <2> HIDE DEF new
  <2> QED BY <1>0, <1>2, <2>1, <2>2, <2>3
<1>20. ASSUME NEW t \in Tracks,
              \/ TestCasesAlreadySaved(t) \/ AlreadyMoved(t) \/ UpdateTestCases(t)
              \/ RolledBack(t) \/ \E i \in TIE : SentToWorker(t, i) \/ RefusedByWorker(t, i)
       PROVE  Goal
  BY <1>6, <1>20 DEF TestCasesAlreadySaved, AlreadyMoved, UpdateTestCases, RolledBack,
     SentToWorker, RefusedByWorker
<1>21. ASSUME \/ \E r \in Results : ResultRolledBack(r)
              \/ \E i \in TIE : WorkerReports(i, 1) \/ TimePasses(i)
       PROVE  Goal
  BY <1>6, <1>21 DEF ResultRolledBack, WorkerReports, TimePasses
<1>22. ASSUME NEW t \in Tracks, UsualReader(t) PROVE Goal
  BY <1>11, <1>12, <1>13, <1>14, <1>15, <1>16, <1>20, <1>22 DEF UsualReader
<1>23. ASSUME UsualElse PROVE Goal
  BY <1>17, <1>18, <1>19, <1>21, <1>23 DEF UsualElse
<1>24. Goal
  BY <1>22, <1>23, NowMeans
<1> QED BY <1>24 DEF Goal

\* Whatever command may move a TCE finds its rows as it needs them.
LEMMA CommandsRightStay ==
  ASSUME Now
  PROVE  CommandsRight'
<1> SUFFICES ASSUME NEW cmd \in OnChannels(chan'), NEW c \in cmd.tces,
                    cmd.kind \in Driving
             PROVE  /\ cmd.kind \in {"ProcessTestCases", "CheckQueue"} => AllOk(c)'
                    /\ cmd.kind = "CheckWaitingToBeSent" =>
                         (\A i \in RowsOf(c) : EndedOk(tiue[i].status) \/ Unsent(i))'
  BY DEF CommandsRight, Driving
<1> DEFINE Waiting == \A i \in RowsOf(c) : EndedOk(tiue[i].status) \/ Unsent(i)
           Goal == /\ cmd.kind \in {"ProcessTestCases", "CheckQueue"} => AllOk(c)'
                   /\ cmd.kind = "CheckWaitingToBeSent" => Waiting'
<1>0. c \in TCE
  <2>1. cmd \in Command
    BY NowMeans DEF TypeOK, OnChannels
  <2> QED BY <2>1 DEF Command
<1>1. ASSUME \A i \in TIE : Parent[i] = c => SameRow(i)
      PROVE  (AllOk(c) => AllOk(c)') /\ (Waiting => Waiting')
  BY <1>0, <1>1, RowsStay
<1>2. ASSUME UNCHANGED <<tiue, sent>>, AllOk(c) PROVE AllOk(c)' /\ Waiting'
  <2>1. Waiting
    BY <1>2 DEF AllOk
  <2> HIDE DEF Waiting
  <2> QED BY <1>0, <1>1, <1>2, <2>1, NothingMoved
<1>3. ASSUME cmd \in OnChannels(chan) PROVE Goal
  <2>1. Slots(chan, "turn", c) # {}
    BY <1>3, SlotsHold DEF Carries
  <2>2. \A i \in TIE : Parent[i] = c => SameRow(i)
    BY <2>1, TurnIsTaken
  <2>3. /\ cmd.kind \in {"ProcessTestCases", "CheckQueue"} => AllOk(c)
        /\ cmd.kind = "CheckWaitingToBeSent" => Waiting
    BY <1>3 DEF Now, Driven, CommandsRight
  <2> HIDE DEF Waiting
  <2> QED BY <1>1, <2>2, <2>3
<1>4. ASSUME NEW t \in Tracks, SaveTestCases(t), cmd = CheckQueueFor(handler[t].cmd)
      PROVE  Goal
  <2>1. c \in handler[t].cmd.tces
    BY <1>4, FieldsOfCommands DEF CheckQueueFor
  <2>2. AllOk(c)
    BY <1>4, <2>1 DEF SaveTestCases, WorksOn, Now, Driven, HandlersRight
  <2>3. UNCHANGED <<tiue, sent>>
    BY <1>4 DEF SaveTestCases, environment
  <2> QED BY <1>2, <2>2, <2>3
<1>5. ASSUME NEW t \in Tracks, NothingWaiting(t), cmd = CheckQueueFor(Head(chan[t]))
      PROVE  Goal
  <2>1. c \in Head(chan[t]).tces
    BY <1>5, FieldsOfCommands DEF CheckQueueFor
  <2>2. /\ chan[t] # <<>> /\ Head(chan[t]).kind = "CheckWaitingToBeSent"
        /\ WaitingToBeSent(Head(chan[t])) = {}
        /\ UNCHANGED <<tiue, sent>>
    BY <1>5 DEF NothingWaiting, Ready, database, environment
  <2>3. Head(chan[t]) \in OnChannels(chan)
    BY <2>2, NowMeans, PoppedCommands
  <2>4. Waiting
    BY <2>1, <2>2, <2>3 DEF Now, Driven, CommandsRight
  <2>5. AllOk(c)
    BY <2>1, <2>2, <2>4 DEF AllOk, Unsent, WaitingToBeSent, RowsOf
  <2> QED BY <1>2, <2>2, <2>5
<1>6. ASSUME NEW cs \in Informs, Inform(cs),
             cmd = ForTCEs("ProcessTestCases", {cs[k] : k \in DOMAIN cs}, {cs[Len(cs)]})
      PROVE  Goal
  <2>1. PICK k \in DOMAIN cs : cs[k] = c
    BY <1>6, FieldsOfCommands
  <2>2. Listed(c)
    BY <1>6, <2>1 DEF Inform, Listed
  <2>3. AllOk(c) /\ UNCHANGED <<tiue, sent>>
    BY <1>0, <1>6, <2>2 DEF Now, Driven, ListedRight, Inform
  <2> QED BY <1>2, <2>3
<1>7. ASSUME NEW r \in Results, TriggerNext(r), result[r].more,
             cmd = ForTCE("CheckWaitingToBeSent", Parent[r[1]])
      PROVE  Goal
  <2>1. c = Parent[r[1]]
    BY <1>7, FieldsOfCommands
  <2>2. result[r].phase = "replied" /\ UNCHANGED <<tiue, sent>>
    BY <1>7 DEF TriggerNext, database, environment
  <2>3. r[2] = 1
    BY <2>2 DEF Now, Driven, ReportsRight
  <2>4. r = <<r[1], 1>> /\ r[1] \in TIE
    BY <2>3, NowMeans
  <2>5. AllOk(c)
    BY <1>7, <2>1, <2>2, <2>4 DEF Now, Driven, ReportsRight
  <2> QED BY <1>2, <2>2, <2>5
<1>8. ASSUME NEW t \in Tracks, MoveToOngoing(t), cmd = SendWaitingFor(handler[t].cmd)
      PROVE  Goal
  <2>1. c \in handler[t].cmd.tces /\ cmd.kind = "CheckWaitingToBeSent"
    BY <1>8, FieldsOfCommands DEF SendWaitingFor
  <2>2. /\ handler[t].cmd.kind = "CheckQueue"
        /\ \A i \in handler[t].ties : ~ HasRow(i)
        /\ tiue' = TestInstructionsUnderExecution(handler[t].ties) /\ sent' = sent
    BY <1>8 DEF MoveToOngoing, WorksOn, environment
  <2>3. AllOk(c)
    BY <2>1, <2>2 DEF Now, Driven, HandlersRight
  <2>4. ASSUME NEW i \in RowsOf(c)' PROVE EndedOk(tiue'[i].status) \/ Unsent(i)'
    <3>1. i \in TIE /\ Parent[i] = c /\ HasRow(i)'
      BY <2>4 DEF RowsOf
    <3>2. CASE i \in handler[t].ties
      <4>1. tiue'[i].status = INITIATED
        BY <2>2, <3>1, <3>2 DEF TestInstructionsUnderExecution
      <4>2. sent[i] = 0
        <5>1. sent[i] \in Nat /\ ~ (sent[i] > 0)
          BY <2>2, <3>1, <3>2, NowMeans DEF Now, IInv, SentRows
        <5> QED BY <5>1
      <4> QED BY <2>2, <4>1, <4>2 DEF Unsent
    <3>3. CASE i \notin handler[t].ties
      <4>1. tiue'[i] = tiue[i]
        BY <2>2, <3>1, <3>3 DEF TestInstructionsUnderExecution
      <4>2. HasRow(i)
        BY <3>1, <4>1 DEF HasRow
      <4> QED BY <2>3, <3>1, <4>1, <4>2 DEF AllOk, RowsOf
    <3> QED BY <3>2, <3>3
  <2> QED BY <2>1, <2>4
<1>9. cmd \in OnChannels(chan) \/ Sends(cmd)
  BY CommandsAreSent
<1> HIDE DEF Goal, Waiting
<1>10. Goal
  BY <1>3, <1>4, <1>5, <1>6, <1>7, <1>8, <1>9 DEF Sends, Driving
<1> QED BY <1>10 DEF Goal, Waiting

\* What the readers do with what they are working on.
LEMMA HandlersAfter ==
  ASSUME Now, NEW t \in Tracks
  PROVE  \/ handler'[t] = handler[t] \/ handler'[t] = Idle
         \/ LoadTestCases(t) \/ LoadQueue(t) \/ LoadWaiting(t) \/ LoadStatuses(t)
         \/ \E i \in TIE : SentToWorker(t, i) \/ RefusedByWorker(t, i)
<1> DEFINE Goal == \/ handler'[t] = handler[t] \/ handler'[t] = Idle
                   \/ LoadTestCases(t) \/ LoadQueue(t) \/ LoadWaiting(t)
                   \/ LoadStatuses(t)
                   \/ \E i \in TIE : SentToWorker(t, i) \/ RefusedByWorker(t, i)
<1>0. handler \in [Tracks -> Handler]
  BY NowMeans DEF TypeOK
<1>1. ASSUME NEW u \in Tracks, UsualReader(u) PROVE Goal
  <2>1. handler' = handler \/ \E h : handler' = [handler EXCEPT ![u] = h]
    BY <1>1 DEF UsualReader, LoadTestCases, SaveTestCases, TestCasesAlreadySaved,
       LoadQueue, NothingOnQueue, MoveToOngoing, AlreadyMoved, LoadWaiting,
       NothingWaiting, CommitSent, SentToWorker, RefusedByWorker, LoadStatuses,
       UpdateTestCases, FailedLoad, RolledBack, Stop, Start
  <2>2. CASE u # t
    BY <1>0, <2>1, <2>2
  <2>3. CASE u = t
    <3>1. ASSUME \/ SaveTestCases(t) \/ TestCasesAlreadySaved(t) \/ NothingOnQueue(t)
                 \/ MoveToOngoing(t) \/ AlreadyMoved(t) \/ NothingWaiting(t)
                 \/ CommitSent(t) \/ UpdateTestCases(t) \/ FailedLoad(t) \/ RolledBack(t)
          PROVE  handler' = handler \/ handler' = [handler EXCEPT ![t] = Idle]
      BY <3>1 DEF SaveTestCases, TestCasesAlreadySaved, NothingOnQueue, MoveToOngoing,
         AlreadyMoved, NothingWaiting, CommitSent, UpdateTestCases, FailedLoad,
         RolledBack, Stop, Start
    <3> QED BY <1>0, <1>1, <2>3, <3>1 DEF UsualReader
  <2> QED BY <2>2, <2>3
<1>2. ASSUME UsualElse PROVE handler' = handler
  BY <1>2 DEF UsualElse, Inform, Reporter, OpenResult, CommitResult, TriggerNext,
     ResultRolledBack, WorkerReports, Response, TimePasses
<1> HIDE DEF Goal
<1>3. ASSUME handler' = handler PROVE Goal
  BY <1>3 DEF Goal
<1>4. Goal
  BY <1>1, <1>2, <1>3, NowMeans
<1> QED BY <1>4 DEF Goal

\* What a handler knows of its TCEs.
HandlerRight(h) ==
  /\ h.cmd.kind \in {"ProcessTestCases", "CheckQueue"} =>
       \A c \in h.cmd.tces : AllOk(c)
  /\ h.cmd.kind = "CheckQueue" => \A i \in h.ties :
       /\ Parent[i] \in h.cmd.tces
       /\ \A j \in h.ties : Parent[j] = Parent[i] => j = i
  /\ h.cmd.kind = "CheckWaitingToBeSent" => \A i \in h.ties : Unsent(i)

\* A handler that has just read finds the rows as it needs them.
LEMMA LoadsAreRight ==
  ASSUME Now, NEW t \in Tracks,
         \/ LoadTestCases(t) \/ LoadQueue(t) \/ LoadWaiting(t) \/ LoadStatuses(t)
  PROVE  HandlerRight(handler[t])' \/ handler'[t] = handler[t]
<1> DEFINE cmd == Head(chan[t])
<1>0. /\ handler \in [Tracks -> Handler]
      /\ cmd \in OnChannels(chan) /\ cmd \in Command /\ cmd.tces \in SUBSET TCE
      /\ UNCHANGED <<tiue, sent>>
  <2>1. chan[t] # <<>> /\ UNCHANGED <<tiue, sent>>
    BY DEF LoadTestCases, LoadQueue, LoadWaiting, LoadStatuses, Ready, database, environment
  <2> QED BY <2>1, NowMeans, PoppedCommands, PoppedType DEF TypeOK, Command
<1>1. ASSUME NEW c \in cmd.tces, AllOk(c) PROVE AllOk(c)'
  BY <1>0, <1>1, RowsStay, NothingMoved
<1>2. CASE LoadTestCases(t)
  <2> DEFINE h == [Working(cmd) EXCEPT !.tces = TestCaseExecutionQueueRows(cmd)]
  <2>1. handler' = handler \/ handler' = [handler EXCEPT ![t] = h]
    BY <1>2 DEF LoadTestCases, Start
  <2>2. h.cmd = cmd /\ cmd.kind = "ProcessTestCases"
    BY <1>2 DEF LoadTestCases, Ready, Working, Idle
  <2> HIDE DEF h
  <2>3. \A c \in cmd.tces : AllOk(c)'
    BY <1>0, <1>1, <2>2 DEF Now, Driven, CommandsRight
  <2> QED BY <1>0, <2>1, <2>2, <2>3 DEF HandlerRight
<1>3. CASE LoadQueue(t)
  <2>1. PICK S \in FirstOfEachTestCase(OnQueue(cmd)) :
          handler' = [handler EXCEPT ![t] = [Working(cmd) EXCEPT !.ties = S]]
    BY <1>3 DEF LoadQueue, Start
  <2>2. /\ handler'[t].cmd = cmd /\ handler'[t].ties = S
        /\ cmd.kind = "CheckQueue"
    BY <1>0, <1>3, <2>1 DEF LoadQueue, Ready, Working, Idle
  <2>3. \A c \in cmd.tces : AllOk(c)'
    BY <1>0, <1>1, <2>2 DEF Now, Driven, CommandsRight
  <2>4. \A i \in S : /\ Parent[i] \in cmd.tces
                     /\ \A j \in S : Parent[j] = Parent[i] => j = i
    BY DEF FirstOfEachTestCase, OnQueue
  <2> QED BY <2>2, <2>3, <2>4 DEF HandlerRight
<1>4. CASE LoadWaiting(t)
  <2> DEFINE S == WaitingToBeSent(cmd)
  <2>1. handler' = [handler EXCEPT ![t] = [Working(cmd) EXCEPT !.ties = S]]
    BY <1>4 DEF LoadWaiting, Start
  <2>2. cmd.kind = "CheckWaitingToBeSent"
    BY <1>4 DEF LoadWaiting, Ready
  <2>3. \A i \in S : Unsent(i)
    <3> SUFFICES ASSUME NEW i \in S PROVE Unsent(i)
      OBVIOUS
    <3>1. i \in TIE /\ Parent[i] \in cmd.tces /\ tiue[i].status = INITIATED
      BY DEF WaitingToBeSent
    <3>2. i \in RowsOf(Parent[i]) /\ ~ EndedOk(tiue[i].status)
      BY <3>1 DEF RowsOf, HasRow, EndedOk, INITIATED, NoRow, FINISHED_OK,
         FINISHED_OK_CAN_BE_RERUN
    <3> HIDE DEF cmd, S
    <3> QED BY <1>0, <2>2, <3>1, <3>2 DEF Now, Driven, CommandsRight
  <2> HIDE DEF S
  <2>4. handler'[t].cmd = cmd /\ handler'[t].ties = S
    BY <1>0, <2>1 DEF Working, Idle
  <2>5. \A i \in S : Unsent(i)'
    BY <1>0, <2>3 DEF Unsent
  <2> QED BY <2>2, <2>4, <2>5 DEF HandlerRight
<1>5. CASE LoadStatuses(t)
  <2> DEFINE M == StatusMessages(cmd.tces)
  <2>1. handler' = [handler EXCEPT ![t] = [Working(cmd) EXCEPT !.messages = M]]
    BY <1>5 DEF LoadStatuses, Start
  <2>2. cmd.kind = "UpdateTestCaseStatus"
    BY <1>5 DEF LoadStatuses, Ready
  <2> HIDE DEF M
  <2>3. handler'[t].cmd = cmd
    BY <1>0, <2>1 DEF Working, Idle
  <2> QED BY <2>2, <2>3 DEF HandlerRight
<1> QED BY <1>2, <1>3, <1>4, <1>5

\* Handlers find the rows of the TCEs whose turn they have as they have read them,
\* however long ago that was.
LEMMA HandlersRightStay ==
  ASSUME Now
  PROVE  HandlersRight'
<1> SUFFICES ASSUME NEW t \in Tracks PROVE HandlerRight(handler[t])'
  BY DEF HandlersRight, HandlerRight
<1>0. /\ handler \in [Tracks -> Handler] /\ handler[t] \in Handler
      /\ HandlerRight(handler[t])
      /\ handler[t].cmd.tces \in SUBSET TCE /\ handler[t].ties \in SUBSET TIE
  BY NowMeans DEF TypeOK, Now, Driven, HandlersRight, HandlerRight, Handler
<1>1. Idle.cmd.kind = "Idle"
  BY DEF Idle, Scan, ForTCEs
<1>2. CASE handler'[t] = Idle
  BY <1>1, <1>2 DEF HandlerRight
<1>3. CASE handler'[t] = handler[t]
  <2> DEFINE h == handler[t]
  <2>1. ASSUME NEW i \in TIE, Bears(h, "turn", Parent[i]), ~ SameRow(i) PROVE FALSE
    <3>1. /\ i \in h.ties
          /\ MoveToOngoing(t) \/ SentToWorker(t, i)
      BY <2>1, TurnIsTaken
    <3>2. CASE MoveToOngoing(t)
      <4>1. handler' = [handler EXCEPT ![t] = Idle] /\ h.cmd.kind = "CheckQueue"
        BY <3>2 DEF MoveToOngoing, Stop, Start, WorksOn
      <4> QED BY <1>0, <1>1, <1>3, <4>1
    <3>3. CASE SentToWorker(t, i)
      <4>1. handler' = [handler EXCEPT ![t] =
                          [h EXCEPT !.ties = @ \ {i}, !.acked = @ \cup {i}]]
        BY <3>3 DEF SentToWorker, Start
      <4>2. handler'[t].ties = h.ties \ {i}
        BY <1>0, <4>1 DEF Handler
      <4> QED BY <1>3, <3>1, <4>2
    <3> QED BY <3>1, <3>2, <3>3
  <2>2. ASSUME h.cmd.kind \in {"ProcessTestCases", "CheckQueue"}, NEW c \in h.cmd.tces
        PROVE  AllOk(c)'
    <3>1. Bears(h, "turn", c)
      BY <2>2 DEF Bears
    <3>2. \A i \in TIE : Parent[i] = c => SameRow(i)
      BY <2>1, <3>1
    <3>3. AllOk(c) /\ c \in TCE
      BY <1>0, <2>2 DEF HandlerRight
    <3> QED BY <3>2, <3>3, RowsStay
  <2>3. ASSUME h.cmd.kind = "CheckWaitingToBeSent", NEW i \in h.ties PROVE Unsent(i)'
    <3>1. Bears(h, "turn", Parent[i]) /\ i \in TIE
      BY <1>0, <2>3 DEF Bears, ParentsOf
    <3>2. SameRow(i)
      BY <2>1, <3>1
    <3>3. Unsent(i)
      BY <1>0, <2>3 DEF HandlerRight
    <3> QED BY <3>1, <3>2, <3>3, SameRowKeeps, NowMeans
  <2> QED BY <1>0, <1>3, <2>2, <2>3 DEF HandlerRight
<1>4. ASSUME NEW i \in TIE, SentToWorker(t, i) \/ RefusedByWorker(t, i)
      PROVE  HandlerRight(handler[t])'
  <2> DEFINE h == handler[t]
  <2>1. /\ h.cmd.kind = "CheckWaitingToBeSent"
        /\ tiue' = tiue /\ (sent' = sent \/ sent' = [sent EXCEPT ![i] = @ + 1])
    BY <1>4, NowMeans, TakenOnce DEF SentToWorker, RefusedByWorker, WorksOn, database, Now
  <2>2. handler'[t].cmd = h.cmd /\ handler'[t].ties = h.ties \ {i}
    <3>1. CASE SentToWorker(t, i)
      <4>1. handler' = [handler EXCEPT ![t] =
                          [h EXCEPT !.ties = @ \ {i}, !.acked = @ \cup {i}]]
        BY <3>1 DEF SentToWorker, Start
      <4> QED BY <1>0, <4>1 DEF Handler
    <3>2. CASE RefusedByWorker(t, i)
      <4>1. handler' = [handler EXCEPT ![t] =
                          [h EXCEPT !.ties = @ \ {i}, !.nacked = @ \cup {i}]]
        BY <3>2 DEF RefusedByWorker, Start
      <4> QED BY <1>0, <4>1 DEF Handler
    <3> QED BY <1>4, <3>1, <3>2
  <2>3. ASSUME NEW j \in handler'[t].ties PROVE Unsent(j)'
    <3>1. j \in TIE /\ j # i /\ Unsent(j)
      BY <1>0, <2>1, <2>2, <2>3 DEF HandlerRight
    <3>2. sent'[j] = sent[j]
      BY <2>1, <3>1, NowMeans DEF TypeOK
    <3> QED BY <2>1, <3>1, <3>2 DEF Unsent
  <2> QED BY <2>1, <2>2, <2>3 DEF HandlerRight
<1> QED BY <1>2, <1>3, <1>4, HandlersAfter, LoadsAreRight

\* No scan is started.
LEMMA NoScansStays ==
  ASSUME Now
  PROVE  NoScans'
<1>1. ASSUME NEW cmd \in OnChannels(chan')
      PROVE  cmd.kind \in Driving \cup {"UpdateTestCaseStatus"}
  <2>1. CASE cmd \in OnChannels(chan)
    BY <2>1, NowMeans DEF NoScans
  <2>2. CASE Sends(cmd)
    <3>1. \A head : /\ CheckQueueFor(head).kind \in Driving
                    /\ SendWaitingFor(head).kind \in Driving
      BY FieldsOfCommands DEF CheckQueueFor, SendWaitingFor, Driving
    <3>2. \A cs, last : ForTCEs("ProcessTestCases", cs, last).kind \in Driving
      BY FieldsOfCommands DEF Driving
    <3>3. \A c : ForTCE("CheckWaitingToBeSent", c).kind \in Driving
      BY FieldsOfCommands DEF Driving
    <3> QED BY <2>2, <3>1, <3>2, <3>3 DEF Sends
  <2>3. cmd \in OnChannels(chan) \/ Sends(cmd)
    BY <1>1, CommandsAreSent
  <2> QED BY <2>1, <2>2, <2>3
<1>2. ASSUME NEW t \in Tracks
      PROVE  handler'[t].cmd.kind \in Driving \cup {"UpdateTestCaseStatus", "Idle"}
  <2> DEFINE Goal == handler'[t].cmd.kind \in Driving \cup {"UpdateTestCaseStatus", "Idle"}
  <2>0. /\ handler \in [Tracks -> Handler] /\ handler[t] \in Handler
        /\ handler[t].cmd.kind \in Driving \cup {"UpdateTestCaseStatus", "Idle"}
    BY NowMeans DEF TypeOK, NoScans
  <2>1. CASE handler'[t] = Idle
    BY <2>1 DEF Idle, Scan, ForTCEs
  <2>2. CASE handler'[t] = handler[t]
    BY <2>0, <2>2
  <2>3. ASSUME NEW h, handler' = [handler EXCEPT ![t] = h], h.cmd = Head(chan[t]),
               Head(chan[t]).kind \in Driving \cup {"UpdateTestCaseStatus"}
        PROVE  Goal
    <3>1. handler'[t] = h
      BY <2>0, <2>3
    <3> QED BY <2>3, <3>1
  <2>4. CASE \/ LoadTestCases(t) \/ LoadQueue(t) \/ LoadWaiting(t) \/ LoadStatuses(t)
    <3> DEFINE cmd == Head(chan[t])
    <3>1. cmd.kind \in Driving \cup {"UpdateTestCaseStatus"}
      BY <2>4 DEF LoadTestCases, LoadQueue, LoadWaiting, LoadStatuses, Ready, Driving
    <3>2. \A S : /\ [Working(cmd) EXCEPT !.tces = S].cmd = cmd
                 /\ [Working(cmd) EXCEPT !.ties = S].cmd = cmd
                 /\ [Working(cmd) EXCEPT !.messages = S].cmd = cmd
      BY DEF Working, Idle
    <3> HIDE DEF cmd, Goal
    <3>3. CASE LoadTestCases(t)
      BY <2>2, <2>3, <3>1, <3>2, <3>3 DEF LoadTestCases, Start, cmd, Goal
    <3>4. CASE LoadQueue(t)
      BY <2>3, <3>1, <3>2, <3>4 DEF LoadQueue, Start, cmd, Goal
    <3>5. CASE LoadWaiting(t)
      BY <2>3, <3>1, <3>2, <3>5 DEF LoadWaiting, Start, cmd, Goal
    <3>6. CASE LoadStatuses(t)
      BY <2>3, <3>1, <3>2, <3>6 DEF LoadStatuses, Start, cmd, Goal
    <3> QED BY <2>4, <3>3, <3>4, <3>5, <3>6
  <2>5. ASSUME NEW i \in TIE, SentToWorker(t, i) \/ RefusedByWorker(t, i)
        PROVE  Goal
    <3>1. \E h : handler' = [handler EXCEPT ![t] = h] /\ h.cmd = handler[t].cmd
      <4>1. CASE SentToWorker(t, i)
        <5>1. [handler[t] EXCEPT !.ties = @ \ {i}, !.acked = @ \cup {i}].cmd = handler[t].cmd
          BY <2>0 DEF Handler
        <5> QED BY <4>1, <5>1 DEF SentToWorker, Start
      <4>2. CASE RefusedByWorker(t, i)
        <5>1. [handler[t] EXCEPT !.ties = @ \ {i}, !.nacked = @ \cup {i}].cmd = handler[t].cmd
          BY <2>0 DEF Handler
        <5> QED BY <4>2, <5>1 DEF RefusedByWorker, Start
      <4> QED BY <2>5, <4>1, <4>2
    <3> QED BY <2>0, <3>1
  <2> QED BY <2>1, <2>2, <2>4, <2>5, HandlersAfter
<1> QED BY <1>1, <1>2 DEF NoScans

\* The rows of a TCE do not change while a client has it.
LEMMA ListedRightStays ==
  ASSUME Now
  PROVE  ListedRight'
<1> SUFFICES ASSUME NEW c \in TCE, Listed(c)' PROVE AllOk(c)'
  BY DEF ListedRight
<1>1. Listed(c) /\ AllOk(c)
  BY ListedAfter DEF Now, Driven, ListedRight
<1>2. \A i \in TIE : Parent[i] = c => SameRow(i)
  BY <1>1, TurnIsTaken
<1> QED BY <1>1, <1>2, RowsStay

\* A TIE that a Worker has, and whose result is not written, is ongoing.
LEMMA OutIsOngoing ==
  ASSUME Now, NEW i \in TIE, result[<<i, 1>>].phase \in {"received", "open"}
  PROVE  /\ sent[i] > 0 /\ IsOngoing(tiue[i].status)
         /\ HasRow(i) /\ ~ EndedOk(tiue[i].status)
<1>1. <<i, 1>> \in Results /\ <<i, 1>>[1] = i
  BY NowMeans
<1>2. sent[i] > 0
  BY <1>1 DEF Now, Driven, ReportsRight
<1>3. IsOngoing(tiue[i].status)
  BY <1>2 DEF Now, Driven, ReportsRight
<1> QED BY <1>2, <1>3 DEF IsOngoing, HasRow, EndedOk, INITIATED, EXECUTING, NoRow,
        FINISHED_OK, FINISHED_OK_CAN_BE_RERUN

\* A TIE that begins or ends is the only one of its TCE that has not ended well.
LEMMA MovedIsOnlyUnfinished ==
  ASSUME Now, NEW i \in TIE, NEW j \in TIE, Parent[i] = Parent[j], ~ SameRow(i),
         HasRow(j)', ~ EndedOk(tiue'[j].status),
         HasRow(i)', ~ EndedOk(tiue'[i].status)
  PROVE  i = j
<1>0. /\ tiue \in [TIE -> [status: Statuses \cup {NoRow}, end: {"null", "future", "past"}]]
      /\ OneUnfinished /\ HandlersRight
  BY NowMeans DEF TypeOK, Now, Driven
<1>1. ASSUME NEW t \in Tracks, MoveToOngoing(t), i \in handler[t].ties PROVE i = j
  <2>1. /\ handler[t].cmd.kind = "CheckQueue"
        /\ tiue' = TestInstructionsUnderExecution(handler[t].ties)
    BY <1>1 DEF MoveToOngoing, WorksOn
  <2>2. AllOk(Parent[i])
    BY <1>0, <1>1, <2>1 DEF HandlersRight
  <2>3. CASE j \in handler[t].ties
    BY <1>0, <1>1, <2>1, <2>3 DEF HandlersRight
  <2>4. CASE j \notin handler[t].ties
    <3>1. tiue'[j] = tiue[j]
      BY <2>1, <2>4 DEF TestInstructionsUnderExecution
    <3> QED BY <2>2, <3>1 DEF AllOk, RowsOf, HasRow
  <2> QED BY <2>3, <2>4
<1>2. ASSUME NEW t \in Tracks, SentToWorker(t, i) PROVE i = j
  <2>1. tiue' = tiue
    BY <1>2 DEF SentToWorker, database
  <2> QED BY <1>0, <2>1 DEF OneUnfinished, HasRow
<1>3. ASSUME CommitResult(<<i, 1>>) PROVE i = j
  <2>1. /\ tiue' = [tiue EXCEPT ![i].status = result[<<i, 1>>].status]
        /\ result[<<i, 1>>].phase = "open"
    BY <1>3 DEF CommitResult, StatusOfReport
  <2>2. HasRow(i) /\ ~ EndedOk(tiue[i].status)
    BY <2>1, OutIsOngoing
  <2>3. ASSUME i # j PROVE tiue'[j] = tiue[j]
    BY <1>0, <2>1, <2>3
  <2> QED BY <1>0, <2>2, <2>3 DEF OneUnfinished, HasRow
<1> QED BY <1>1, <1>2, <1>3, OnlyTheTurnMoves

\* No second TIE of a TCE is unfinished.
LEMMA OneUnfinishedStays ==
  ASSUME Now
  PROVE  OneUnfinished'
<1> SUFFICES ASSUME NEW i \in TIE, NEW j \in TIE, Parent[i] = Parent[j],
                    HasRow(i)', HasRow(j)',
                    ~ EndedOk(tiue'[i].status), ~ EndedOk(tiue'[j].status)
             PROVE  i = j
  BY DEF OneUnfinished
<1>1. CASE SameRow(i) /\ SameRow(j)
  <2>1. /\ HasRow(i) /\ ~ EndedOk(tiue[i].status)
        /\ HasRow(j) /\ ~ EndedOk(tiue[j].status)
    BY <1>1, NowMeans, SameRowKeeps
  <2> QED BY <2>1 DEF Now, Driven, OneUnfinished
<1>2. CASE ~ SameRow(i)
  BY <1>2, MovedIsOnlyUnfinished
<1>3. CASE ~ SameRow(j)
  BY <1>3, MovedIsOnlyUnfinished
<1> QED BY <1>1, <1>2, <1>3

\* What a goroutine of a final result knows.
ReportRight(i) ==
  LET res == result[<<i, 1>>] IN
    /\ sent[i] > 0 /\ res.phase \in {"none", "received", "open"} =>
         IsOngoing(tiue[i].status)
    /\ res.phase = "open" /\ res.more => EndedOk(res.status)
    /\ res.phase \in {"waiting", "replied"} /\ res.more => AllOk(Parent[i])

\* A TIE is ongoing until its result is written.
LEMMA OngoingUntilWritten ==
  ASSUME Now, NEW i \in TIE, sent'[i] > 0,
         result'[<<i, 1>>].phase \in {"none", "received", "open"}
  PROVE  IsOngoing(tiue'[i].status)
<1>0. /\ <<i, 1>> \in Results /\ TypeOK /\ sent \in [TIE -> Nat]
      /\ result[<<i, 1>>] \in [phase: Phases, status: Statuses \cup {NoRow},
                               more: BOOLEAN]
      /\ tiue \in [TIE -> [status: Statuses \cup {NoRow}, end: {"null", "future", "past"}]]
  BY NowMeans DEF TypeOK
<1>1. ~ CommitResult(<<i, 1>>)
  BY <1>0 DEF CommitResult, AsPhase, TypeOK
<1>2. result[<<i, 1>>].phase \in {"none", "received", "open"}
  <2>1. ResultStep(<<i, 1>>)
    BY <1>0, NowMeans
  <2>2. result[<<i, 1>>].phase = "waiting" =>
          [result[<<i, 1>>] EXCEPT !.phase = "replied"].phase = "replied"
    BY <1>0
  <2> QED BY <1>1, <2>1, <2>2 DEF ResultStep, OpenResult
<1>3. sent[i] > 0 => IsOngoing(tiue[i].status)
  BY <1>2 DEF Now, Driven, ReportsRight
<1>4. CASE SameRow(i)
  BY <1>0, <1>3, <1>4, SameRowKeeps DEF SameRow
<1>5. ASSUME NEW t \in Tracks, MoveToOngoing(t), i \in handler[t].ties PROVE FALSE
  BY <1>5 DEF MoveToOngoing, environment, Now, IInv, SentRows
<1>6. ASSUME NEW t \in Tracks, SentToWorker(t, i), i \in handler[t].ties
      PROVE  IsOngoing(tiue'[i].status)
  BY <1>6 DEF SentToWorker, WorksOn, database, Now, Driven, HandlersRight, Unsent, IsOngoing
<1> QED BY <1>1, <1>4, <1>5, <1>6, OnlyTheTurnMoves

\* A result that lets its TCE go on is one of a TIE that has ended well.
LEMMA OpenToGoOn ==
  ASSUME Now, NEW i \in TIE, result'[<<i, 1>>].phase = "open", result'[<<i, 1>>].more
  PROVE  EndedOk(result'[<<i, 1>>].status)
<1> DEFINE r == <<i, 1>>
<1>0. /\ r \in Results /\ r[1] = i
      /\ result \in [Results -> [phase: Phases, status: Statuses \cup {NoRow},
                                 more: BOOLEAN]]
  BY NowMeans DEF TypeOK
<1>1. CASE result'[r] = result[r]
  BY <1>0, <1>1 DEF Now, Driven, ReportsRight
<1>2. CASE OpenResult(r)
  <2> DEFINE s == result[r].status
  <2>1. /\ result[r].phase = "received"
        /\ result'[r].more = ContinueAfter(i, s) /\ result'[r].status = s
    BY <1>0, <1>2 DEF OpenResult
  <2>2. HasRow(i) /\ ~ EndedOk(tiue[i].status)
    BY <2>1, OutIsOngoing
  <2>3. SUFFICES ASSUME ~ EndedOk(s) PROVE FALSE
    BY <2>1
  <2>4. i \in SiblingsNotOk(i, s)
    BY <2>2, <2>3 DEF SiblingsNotOk, RowsOf
  <2>5. PICK j \in SiblingsNotOk(i, s) : j # i
    BY <2>1, <2>4 DEF ContinueAfter
  <2>6. j \in TIE /\ Parent[j] = Parent[i] /\ HasRow(j) /\ ~ EndedOk(tiue[j].status)
    BY <2>5 DEF SiblingsNotOk, RowsOf
  <2> QED BY <2>2, <2>5, <2>6 DEF Now, Driven, OneUnfinished
<1>3. CASE CommitResult(r)
  BY <1>0, <1>3 DEF CommitResult, AsPhase
<1>4. result[r].phase = "waiting" => [result[r] EXCEPT !.phase = "replied"].phase = "replied"
  BY <1>0
<1>5. ResultStep(r)
  BY <1>0, NowMeans
<1> QED BY <1>1, <1>2, <1>3, <1>4, <1>5 DEF ResultStep

\* When its result is written, all rows of the TCE have ended well, and they stay
\* as they are until the TCE goes on.
LEMMA WrittenToGoOn ==
  ASSUME Now, NEW i \in TIE, result'[<<i, 1>>].phase \in {"waiting", "replied"},
         result'[<<i, 1>>].more
  PROVE  AllOk(Parent[i])'
<1> DEFINE r == <<i, 1>>
           c == Parent[i]
<1>0. /\ r \in Results /\ r[1] = i /\ r[2] = 1 /\ c \in TCE
      /\ result \in [Results -> [phase: Phases, status: Statuses \cup {NoRow},
                                 more: BOOLEAN]]
      /\ tiue \in [TIE -> [status: Statuses \cup {NoRow}, end: {"null", "future", "past"}]]
  BY NowMeans DEF TypeOK
<1>1. ASSUME result[r].phase \in {"waiting", "replied"}, result[r].more PROVE AllOk(c)'
  <2>1. AllOk(c) /\ sent[i] > 0
    BY <1>0, <1>1 DEF Now, Driven, ReportsRight
  <2>2. i \in Out(c) /\ ~ CommitResult(r)
    BY <1>1, <2>1 DEF Out, ChildrenOf, CommitResult
  <2>3. \A k \in TIE : Parent[k] = c => SameRow(k)
    BY <2>2, TurnIsTaken
  <2> QED BY <1>0, <2>1, <2>3, RowsStay
<1>2. CASE CommitResult(r)
  <2>1. /\ result[r].phase = "open" /\ result'[r].more = result[r].more
        /\ tiue' = [tiue EXCEPT ![i].status = result[r].status]
    BY <1>0, <1>2 DEF CommitResult, AsPhase, StatusOfReport
  <2>2. EndedOk(result[r].status)
    BY <1>0, <2>1 DEF Now, Driven, ReportsRight
  <2>3. HasRow(i) /\ ~ EndedOk(tiue[i].status)
    BY <2>1, OutIsOngoing
  <2>4. ASSUME NEW j \in TIE, Parent[j] = c, HasRow(j)' PROVE EndedOk(tiue'[j].status)
    <3>1. CASE j = i
      BY <1>0, <2>1, <2>2, <3>1
    <3>2. CASE j # i
      <4>1. tiue'[j] = tiue[j]
        BY <1>0, <2>1, <3>2
      <4> QED BY <2>3, <2>4, <3>2, <4>1 DEF Now, Driven, OneUnfinished, HasRow
    <3> QED BY <3>1, <3>2
  <2> QED BY <2>4 DEF AllOk, RowsOf
<1>3. CASE result[r].phase = "waiting" /\ result'[r] = [result[r] EXCEPT !.phase = "replied"]
  <2>1. result[r] \in [phase: Phases, status: Statuses \cup {NoRow}, more: BOOLEAN]
    BY <1>0
  <2> HIDE DEF r
  <2>2. result'[r].more = result[r].more
    BY <1>3, <2>1
  <2>3. result[r].phase = "waiting" /\ result[r].more
    BY <1>3, <2>2 DEF r
  <2> QED BY <1>1, <2>3
<1>4. CASE OpenResult(r)
  BY <1>0, <1>4 DEF OpenResult
<1>5. ResultStep(r)
  BY <1>0, NowMeans
<1> QED BY <1>1, <1>2, <1>3, <1>4, <1>5 DEF ResultStep

\* The goroutines of results stay right about the rows.
LEMMA ReportsRightStay ==
  ASSUME Now
  PROVE  ReportsRight'
<1>1. ASSUME NEW r \in Results, result'[r].phase # "none"
      PROVE  r[2] = 1 /\ sent'[r[1]] > 0
  <2>1. ResultStep(r) /\ r[1] \in TIE
    BY NowMeans
  <2>2. result[r].phase # "none" => r[2] = 1 /\ sent[r[1]] > 0
    BY DEF Now, Driven, ReportsRight
  <2>3. r[2] = 1 /\ sent[r[1]] > 0
    BY <1>1, <2>1, <2>2 DEF ResultStep, OpenResult, CommitResult
  <2> QED BY <2>1, <2>3, EnvironmentKept, NowMeans DEF Now
<1>2. ASSUME NEW i \in TIE PROVE ReportRight(i)'
  BY OngoingUntilWritten, OpenToGoOn, WrittenToGoOn DEF ReportRight
<1> QED BY <1>1, <1>2 DEF ReportsRight, ReportRight

\* No TIE is sent that has been sent before.
LEMMA SentOnceStays ==
  ASSUME Now
  PROVE  SentOnce'
<1> SUFFICES ASSUME NEW i \in TIE PROVE sent'[i] =< 1
  BY DEF SentOnce
<1>0. sent \in [TIE -> Nat] /\ sent[i] =< 1 /\ TypeOK /\ Next
  BY NowMeans DEF TypeOK, Now, Driven, SentOnce
<1>1. ASSUME NEW t \in Tracks, NEW k \in TIE, SentToWorker(t, k) PROVE sent'[i] =< 1
  <2>1. sent' = [sent EXCEPT ![k] = @ + 1] /\ sent[k] = 0
    <3>1. sent' = [sent EXCEPT ![k] = @ + 1]
      BY <1>1, NowMeans, TakenOnce DEF Now
    <3> QED
      BY <1>1, <3>1 DEF SentToWorker, IsLowest, WorksOn, Now, Driven, HandlersRight, Unsent
  <2> QED BY <1>0, <2>1
<1>2. ASSUME NEW t \in Tracks, NEW k \in TIE, RefusedByWorker(t, k) PROVE sent'[i] =< 1
  BY <1>0, <1>2, TakenOnce DEF Now
<1> QED BY <1>0, <1>1, <1>2, EnvironmentKept

\* Driven is inductive, together with IInv.
LEMMA DrivenStays ==
  ASSUME Undisturbed, IInv, Driven, Next
  PROVE  Driven'
<1>1. Now
  BY DEF Now
<1> QED BY <1>1, OneDriverStays, OneAnswerStays, NoScansStays, ListedRightStays,
        CommandsRightStay, HandlersRightStay, OneUnfinishedStays, ReportsRightStay,
        SentOnceStays DEF Driven

\* At first nothing is under way, so that nobody has the turn of any TCE.
LEMMA DrivenAtFirst ==
  ASSUME Undisturbed
  PROVE  Init => Driven
<1> SUFFICES ASSUME Init PROVE Driven
  OBVIOUS
<1>1. TypeOK /\ OnChannels(chan) = {} /\ handler = [t \in Tracks |-> Idle]
  BY TypeAtFirst DEF Init, OnChannels
<1>2. ASSUME NEW what, NEW x, Thing(what, x) PROVE Single(what, x) /\ ~ InEngine(what, x)
  <2>1. Slots(chan, what, x) = {}
    BY <1>1, SlotsHold
  <2>2. AtReaders(what, x) = {}
    BY <1>1, <1>2, IdleBearsNothing DEF AtReaders
  <2> QED BY <2>1, <2>2 DEF Single, InEngine, AtMostOne
<1>3. \A c \in TCE : Out(c) = {} /\ RowsOf(c) = {}
  BY DEF Init, Out, ChildrenOf, RowsOf, HasRow
<1>4. OneDriver
  BY <1>2, <1>3 DEF OneDriver, AtMostOne, Thing
<1>5. OneAnswer
  BY <1>2 DEF OneAnswer, Thing
<1>6. NoScans /\ HandlersRight
  BY <1>1 DEF NoScans, HandlersRight, Idle, Scan, ForTCEs
<1>7. ListedRight /\ CommandsRight
  BY <1>1, <1>3 DEF ListedRight, CommandsRight, AllOk
<1>8. OneUnfinished /\ SentOnce
  BY DEF Init, OneUnfinished, SentOnce, HasRow
<1>9. ReportsRight
  <2>1. \A i \in TIE : <<i, 1>> \in Results
    BY DEF Results, Undisturbed
  <2>2. /\ \A r \in Results : result[r].phase = "none"
        /\ \A i \in TIE : sent[i] = 0
    BY DEF Init
  <2> QED BY <2>1, <2>2 DEF ReportsRight
<1> QED BY <1>4, <1>5, <1>6, <1>7, <1>8, <1>9 DEF Driven

\* A step that changes nothing leaves the turns where they are.
LEMMA DrivenStutters ==
  ASSUME Driven, UNCHANGED vars
  PROVE  Driven'
<1>1. /\ tiue' = tiue /\ chan' = chan /\ handler' = handler
      /\ result' = result /\ pending' = pending /\ sent' = sent
  BY DEF vars, database, environment
<1>2. \A what, x : /\ Slots(chan, what, x)' = Slots(chan, what, x)
                   /\ AtReaders(what, x)' = AtReaders(what, x)
  BY <1>1 DEF Slots, AtReaders
<1>3. \A c \in TCE : /\ Out(c)' = Out(c) /\ RowsOf(c)' = RowsOf(c)
                     /\ Listed(c)' = Listed(c)
  BY <1>1 DEF Out, RowsOf, HasRow, Listed
<1>4. OneDriver' /\ OneAnswer'
  BY <1>1, <1>2, <1>3 DEF Driven, OneDriver, OneAnswer, Single, InEngine
<1>5. NoScans' /\ OneUnfinished' /\ SentOnce'
  BY <1>1 DEF Driven, NoScans, OnChannels, OneUnfinished, SentOnce, HasRow
<1>6. ListedRight' /\ CommandsRight' /\ HandlersRight' /\ ReportsRight'
  BY <1>1 DEF Driven, ListedRight, CommandsRight, HandlersRight, ReportsRight,
     OnChannels, Listed, AllOk, RowsOf, HasRow, Unsent
<1> QED BY <1>4, <1>5, <1>6 DEF Driven

\* As long as the process does not stop, at most one list, command, handler or
\* TIE at a Worker may make a TCE's next move, and whichever it is finds the
\* rows of the TCE as it needs them, however long ago it has read them.
THEOREM DrivenAlways ==
  ASSUME Undisturbed
  PROVE  SafeSpec => []Driven
<1>1. IInv /\ Driven /\ [Next]_vars => Driven'
  BY DrivenStays, DrivenStutters
<1> QED BY <1>1, InvariantHolds, DrivenAtFirst, PTL DEF SafeSpec

\* No TIE is given to a Worker twice, although most of the TIEs of a batch still
\* look as if they were waiting after they have been sent: Workers may refuse,
\* transactions fail and expected ends pass meanwhile.
THEOREM SentOnceAlways ==
  ASSUME Undisturbed
  PROVE  SafeSpec => []SentOnce
<1>1. Driven => SentOnce
  BY DEF Driven
<1> QED BY <1>1, DrivenAlways, PTL

-----------------------------------------------------------------------------
(* The engine implements SerialExecution *)

\* A TCE is accepted by SaveTestCases and by nothing else.
LEMMA OnlySavedAreAccepted ==
  ASSUME IInv, Next, NEW c \in TCE, \A t \in Tracks : ~ SaveTestCases(t)
  PROVE  tcue'[c].status # NoRow <=> tcue[c].status # NoRow
<1>0. /\ TypeOK /\ OnePlace
      /\ tcue[c].status # NoRow => tcue'[c].status # NoRow
      /\ tcue \in [TCE -> [status: Statuses \cup {NoRow}, finished: BOOLEAN]]
  BY TablesStayRight DEF IInv, TablesRight, Kept, TypeOK
<1>1. SUFFICES ASSUME tcue[c].status = NoRow PROVE tcue'[c].status = NoRow
  BY <1>0
<1>2. \A i \in TIE : Parent[i] = c => ~ HasRow(i)
  BY <1>0, <1>1 DEF OnePlace
<1>3. ASSUME NEW t \in Tracks, CommitSent(t) PROVE tcue'[c] = tcue[c]
  <2> DEFINE h == handler[t]
  <2>1. tcue' = TestCaseStatusOfSent(h) /\ h.cmd.kind = "CheckWaitingToBeSent"
    BY <1>3 DEF CommitSent, WorksOn
  <2>2. h \in Handler
    BY <1>0, RowTypes
  <2>3. \A i \in Batch(h) : i \in TIE /\ HasRow(i)
    BY <2>1, <2>2 DEF Handler, Batch, IInv, HandlerRows, AboutRows
  <2>4. \A i \in Batch(h) : Parent[i] # c
    BY <1>2, <2>3
  <2>5. h.acked \subseteq Batch(h) /\ h.nacked \subseteq Batch(h)
    BY DEF Batch
  <2> HIDE DEF h
  <2> QED BY <2>1, <2>4, <2>5 DEF TestCaseStatusOfSent, IsHighest, ChildrenOf
<1>4. ASSUME NEW i \in TIE, Response(i) PROVE tcue'[c] = tcue[c]
  <2>1. tcue' = [tcue EXCEPT ![Parent[i]].status = EXECUTING] /\ HasRow(i)
    BY <1>4 DEF Response, IInv, SentRows
  <2>2. Parent[i] # c
    BY <1>2, <2>1
  <2> QED BY <1>0, <2>1, <2>2
<1>5. ASSUME NEW t \in Tracks, UpdateTestCases(t) PROVE tcue'[c] = tcue[c]
  BY <1>1, <1>5 DEF UpdateTestCases, TestCasesUpdated, IInv, HandlerRows, AboutRows
<1>6. CASE UNCHANGED tcue
  BY <1>1, <1>6
<1>7. \/ UNCHANGED tcue
      \/ \E t \in Tracks : CommitSent(t) \/ UpdateTestCases(t)
      \/ \E i \in TIE : Response(i)
  BY OnlyDatabaseSteps DEF DatabaseStep, MoveToOngoing, TimedOut, CommitResult, TimePasses
<1> QED BY <1>1, <1>3, <1>4, <1>5, <1>6, <1>7

\* The promise as the tables keep it.
Accepted == {c \in TCE : tcue[c].status # NoRow}
States   == [i \in TIE |-> Progress(i)]

\* What moves the tables without a trace in the promise.
LEMMA PromiseKept ==
  ASSUME Accepted' = Accepted, \A i \in TIE : Progress(i)' = Progress(i)
  PROVE  UNCHANGED Serial!promise
<1>1. States' = States
  BY DEF States
<1> QED BY <1>1 DEF Serial!promise, Accepted, States

\* Take-over of TCEs.
LEMMA SaveAccepts ==
  ASSUME Now, NEW t \in Tracks, SaveTestCases(t)
  PROVE  [Serial!Next]_Serial!promise
<1>0. handler[t].tces \in SUBSET TCE
  <2>1. handler[t] \in Handler
    BY NowMeans, RowTypes
  <2> QED BY <2>1 DEF Handler
<1> PICK rows \in SUBSET TCE : rows = handler[t].tces
  BY <1>0
<1>1. /\ \A c \in rows : tcue[c].status = NoRow
      /\ tcue' = TestCasesOnOngoing(rows) /\ tiue' = tiue /\ sent' = sent
  BY DEF SaveTestCases, environment
<1>3. \A i \in TIE : Progress(i)' = Progress(i)
  BY <1>1 DEF Progress, HasRow
<1>4. Accepted' = Accepted \cup rows /\ rows \cap Accepted = {}
  <2>1. \A c \in TCE : tcue'[c].status # NoRow <=> tcue[c].status # NoRow \/ c \in rows
    BY <1>1 DEF TestCasesOnOngoing, INITIATED, NoRow
  <2> QED BY <1>1, <2>1 DEF Accepted
<1>5. CASE rows = {}
  BY <1>3, <1>4, <1>5, PromiseKept
<1>6. CASE rows # {}
  <2>1. States' = States
    BY <1>3 DEF States
  <2>2. Serial!Accept(rows)
    BY <1>4, <1>6, <2>1 DEF Serial!Accept, Accepted, States
  <2>3. Serial!Next
    BY <2>2 DEF Serial!Next
  <2> QED BY <2>3
<1> QED BY <1>5, <1>6

\* A TIE that has ended well has passed, and one that has not is not running.
LEMMA ProgressOf ==
  ASSUME NEW i \in TIE
  PROVE  /\ Progress(i) = "waiting" <=> ~ HasRow(i)
         /\ HasRow(i) /\ EndedOk(tiue[i].status) => Progress(i) = "passed"
         /\ IsOngoing(tiue[i].status) => Progress(i) = "running"
         /\ HasRow(i) /\ IsFinal(tiue[i].status) => Progress(i) \in {"passed", "failed"}
BY DEF Progress, HasRow, IsOngoing, EndedOk, IsFinal, NoRow, INITIATED, EXECUTING,
   CONTROLLED_INTERRUPTION, FINISHED_OK, FINISHED_OK_CAN_BE_RERUN

\* (A) begins TIEs whose turn it is.
LEMMA MoveBegins ==
  ASSUME Now, ReadInOrder, NEW t \in Tracks, MoveToOngoing(t)
  PROVE  [Serial!Next]_Serial!promise
<1>0. handler[t].ties \in SUBSET TIE
  <2>1. handler[t] \in Handler
    BY NowMeans, RowTypes
  <2> QED BY <2>1 DEF Handler
<1> PICK S \in SUBSET TIE : S = handler[t].ties
  BY <1>0
<1>1. /\ handler[t].cmd.kind = "CheckQueue" /\ \A i \in S : ~ HasRow(i)
      /\ tiue' = TestInstructionsUnderExecution(S) /\ tcue' = tcue
  BY DEF MoveToOngoing, WorksOn
<1>2. \A i \in S : /\ Parent[i] \in TCE /\ AllOk(Parent[i])
                   /\ tcue[Parent[i]].status # NoRow
                   /\ \A j \in S : Parent[j] = Parent[i] => j = i
                   /\ \A j \in TIE : Before(j, i) => HasRow(j)
  BY <1>1, NowMeans DEF Now, Driven, HandlersRight, IInv, HandlerRows, AboutRows, ReadInOrder
<1>3. ASSUME NEW i \in S, NEW j \in TIE, Parent[j] = Parent[i], HasRow(j)
      PROVE  Progress(j) = "passed"
  BY <1>2, <1>3, ProgressOf DEF AllOk, RowsOf
<1>4. Accepted' = Accepted
  BY <1>1 DEF Accepted
<1>5. \A i \in TIE : Progress(i)' = IF i \in S THEN "running" ELSE Progress(i)
  <2>1. ASSUME NEW i \in S PROVE Progress(i)' = "running"
    <3>1. tiue'[i].status = INITIATED
      BY <1>1 DEF TestInstructionsUnderExecution
    <3> QED BY <3>1 DEF Progress, HasRow, IsOngoing, INITIATED, NoRow
  <2>2. ASSUME NEW i \in TIE, i \notin S PROVE Progress(i)' = Progress(i)
    <3>1. tiue'[i] = tiue[i]
      BY <1>1, <2>2 DEF TestInstructionsUnderExecution
    <3> QED BY <3>1 DEF Progress, HasRow
  <2> QED BY <2>1, <2>2
<1>6. CASE S = {}
  BY <1>4, <1>5, <1>6, PromiseKept
<1>7. CASE S # {}
  <2>1. ASSUME NEW i \in S
        PROVE  Serial!Turn(i) /\ S \cap Serial!Siblings(i) = {}
    <3>1. States[i] = "waiting" /\ Parent[i] \in Accepted
      BY <1>1, <1>2, <2>1, ProgressOf DEF States, Accepted
    <3>2. ASSUME NEW j \in Serial!Siblings(i)
          PROVE  /\ States[j] \notin {"running", "failed"}
                 /\ Order[j] < Order[i] => States[j] = "passed"
      <4>1. j \in TIE /\ Parent[j] = Parent[i]
        BY <3>2 DEF Serial!Siblings
      <4>2. CASE HasRow(j)
        BY <1>3, <2>1, <4>1, <4>2 DEF States
      <4>3. CASE ~ HasRow(j)
        <5>1. Progress(j) = "waiting" /\ ~ (Order[j] < Order[i])
          BY <1>2, <2>1, <4>1, <4>3, ProgressOf DEF Before
        <5> QED BY <4>1, <5>1 DEF States
      <4> QED BY <4>2, <4>3
    <3>3. S \cap Serial!Siblings(i) = {}
      BY <1>2, <2>1 DEF Serial!Siblings
    <3> QED BY <3>1, <3>2, <3>3 DEF Serial!Turn, Accepted, States
  <2>2. States' = [i \in TIE |-> IF i \in S THEN "running" ELSE States[i]]
    BY <1>5 DEF States
  <2>3. Serial!Begin(S)
    BY <1>4, <1>7, <2>1, <2>2 DEF Serial!Begin, Accepted, States
  <2>4. Serial!Next
    BY <2>3 DEF Serial!Next
  <2> QED BY <2>4
<1> QED BY <1>6, <1>7

\* The commit of a result ends a running TIE.
LEMMA CommitEnds ==
  ASSUME Now, NEW r \in Results, CommitResult(r)
  PROVE  [Serial!Next]_Serial!promise
<1>0. /\ r[1] \in TIE
      /\ tiue \in [TIE -> [status: Statuses \cup {NoRow}, end: {"null", "future", "past"}]]
  BY NowMeans DEF TypeOK
<1> PICK i \in TIE : i = r[1]
  BY <1>0
<1>1. /\ tiue' = [tiue EXCEPT ![i].status = result[r].status] /\ tcue' = tcue
      /\ result[r].phase = "open"
  BY DEF CommitResult, StatusOfReport
<1>2. r = <<i, 1>>
  <2>1. r[2] = 1
    BY <1>1 DEF Now, Driven, ReportsRight
  <2> QED BY <2>1, NowMeans
<1>3. IsOngoing(tiue[i].status) /\ IsFinal(result[r].status)
  BY <1>1, <1>2, OutIsOngoing DEF Now, IInv, ResultRows
<1>4. Accepted' = Accepted
  BY <1>1 DEF Accepted
<1>5. PICK outcome \in {"passed", "failed"} : Progress(i)' = outcome
  <2>1. tiue'[i].status = result[r].status
    BY <1>0, <1>1
  <2>2. IsFinal(tiue'[i].status) /\ HasRow(i)'
    BY <1>3, <2>1 DEF HasRow, IsFinal, NoRow, CONTROLLED_INTERRUPTION
  <2>3. Progress(i)' \in {"passed", "failed"}
    BY <2>2, ProgressOf DEF Progress, IsOngoing, IsFinal, INITIATED, EXECUTING,
       CONTROLLED_INTERRUPTION
  <2> QED BY <2>3
<1>6. ASSUME NEW j \in TIE, j # i PROVE Progress(j)' = Progress(j)
  <2>1. tiue'[j] = tiue[j]
    BY <1>0, <1>1, <1>6
  <2> QED BY <2>1 DEF Progress, HasRow
<1>7. States[i] = "running" /\ States' = [States EXCEPT ![i] = outcome]
  BY <1>3, <1>5, <1>6, ProgressOf DEF States
<1>8. Serial!End(i)
  BY <1>4, <1>7 DEF Serial!End, Accepted, States
<1>9. Serial!Next
  BY <1>8 DEF Serial!Next
<1> QED BY <1>9

\* Every step of the engine is one of the promise or none.
LEMMA StepsArePromised ==
  ASSUME Undisturbed, IInv, Driven, ReadInOrder, Next
  PROVE  [Serial!Next]_Serial!promise
<1>0. Now
  BY DEF Now
<1>1. ASSUME NEW t \in Tracks, SaveTestCases(t) PROVE [Serial!Next]_Serial!promise
  BY <1>0, <1>1, SaveAccepts
<1>2. ASSUME NEW t \in Tracks, MoveToOngoing(t) PROVE [Serial!Next]_Serial!promise
  BY <1>0, <1>2, MoveBegins
<1>3. ASSUME NEW r \in Results, CommitResult(r) PROVE [Serial!Next]_Serial!promise
  BY <1>0, <1>3, CommitEnds
<1>4. ASSUME \A t \in Tracks : ~ SaveTestCases(t) /\ ~ MoveToOngoing(t),
             \A r \in Results : ~ CommitResult(r)
      PROVE  UNCHANGED Serial!promise
  <2>1. Accepted' = Accepted
    BY <1>4, OnlySavedAreAccepted DEF Accepted
  <2>2. ASSUME NEW i \in TIE PROVE Progress(i)' = Progress(i)
    <3>1. CASE SameRow(i)
      BY <1>0, <3>1, SameRowKeeps, NowMeans
    <3>2. CASE ~ SameRow(i)
      <4>1. \E t \in Tracks : SentToWorker(t, i)
        BY <1>0, <1>4, <3>2, OnlyTheTurnMoves, NowMeans
      <4> QED BY <4>1 DEF SentToWorker, database, Progress, HasRow
    <3> QED BY <3>1, <3>2
  <2> QED BY <2>1, <2>2, PromiseKept
<1> QED BY <1>1, <1>2, <1>3, <1>4

\* The engine executes the TIEs of a TCE one at a time and in their order, each at
\* most once, and the first that does not end well is the last: SerialExecution is
\* implemented by the tracks, goroutines and transactions together, as long as
\* the process does not stop and the guard on 'UniqueCounter' does not tell the
\* TIEs of one TCE apart.
THEOREM ExecutionIsSerial ==
  ASSUME Undisturbed, CounterIsOfTestCase
  PROVE  SafeSpec => ExecutesSerially
<1> DEFINE Inv == IInv /\ Driven /\ ReadInOrder
<1>1. Init => Inv
  BY InvariantAtFirst, DrivenAtFirst DEF Init, ReadInOrder, Idle, Scan, ForTCEs
<1>2. Inv /\ [Next]_vars => Inv'
  <2>1. ASSUME Inv, Next PROVE Inv'
    BY <2>1, InvariantStays, DrivenStays, ReadInOrderStays
  <2>2. ASSUME Inv, UNCHANGED vars PROVE Inv'
    <3>1. ReadInOrder'
      BY <2>2 DEF vars, database, ReadInOrder, Before, HasRow
    <3> QED BY <2>2, <3>1, InvariantStutters, DrivenStutters
  <2> QED BY <2>1, <2>2
<1>3. Init => Serial!Init
  BY DEF Init, Serial!Init, Progress, HasRow
<1>4. Inv /\ [Next]_vars => [Serial!Next]_Serial!promise
  <2>1. ASSUME Inv, Next PROVE [Serial!Next]_Serial!promise
    BY <2>1, StepsArePromised
  <2>2. ASSUME UNCHANGED vars PROVE UNCHANGED Serial!promise
    BY <2>2 DEF vars, database, Serial!promise, Progress, HasRow
  <2> QED BY <2>1, <2>2
<1> HIDE DEF Inv
<1> QED BY <1>1, <1>2, <1>3, <1>4, PTL DEF SafeSpec, ExecutesSerially, Serial!Spec

=============================================================================
