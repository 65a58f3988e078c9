----------------------- MODULE CommandTraffic_proofs ------------------------
(***************************************************************************)
(* What CommandTraffic's run shows of two tracks and three TCEs, proved    *)
(* for any number of both and any size of the channels.                    *)
(*                                                                         *)
(* Two facts make up the argument that nobody waits for ever.  A goroutine *)
(* waits for an answer of (C) exactly while its question is on a channel,  *)
(* so no reader stops at a question (AnswersCorrect).  And what there can  *)
(* be to do never grows: every piece of work after a step comes from one   *)
(* before it, no two from the same (WorkAfter), so that the cardinality of *)
(* the work at the start bounds it (WorkBounded).  Channels that hold all  *)
(* of it never fill, and no send waits (NobodyWaits).                      *)
(***************************************************************************)
EXTENDS CommandTraffic, FiniteSetTheorems, WellFoundedInduction, TLAPS

-----------------------------------------------------------------------------
(* Commands and rows *)

\* The kinds of the commands that name a TCE.
TceKinds == {"ProcessTestCases", "CheckQueue", "CheckWaitingToBeSent",
             "UpdateTestCaseStatus", "UpdateAndReply", "TimedOut", "Response", "Result"}

\* Commands are commands, and what is sent can be told from waiting.
LEMMA CommandsAre ==
  /\ \A kind \in Scans : Scan(kind) \in Command /\ Scan(kind).kind = kind
  /\ \A kind \in TceKinds, c \in TCE :
       For(kind, c) \in Command /\ For(kind, c).kind = kind /\ For(kind, c).tce = c
  /\ \A cmd \in Command :
       \/ cmd.kind \in Scans /\ cmd = Scan(cmd.kind)
       \/ cmd.kind \in TceKinds /\ cmd.tce \in TCE /\ cmd = For(cmd.kind, cmd.tce)
  /\ Scans \cap TceKinds = {}
BY DEF Scan, For, Command, Scans, TceKinds

\* What is sent is told from waiting, and is what it was made of.
LEMMA AwaitIsNoSend ==
  /\ Await \notin Sends
  /\ \A t, cmd : Await # Send(t, cmd)
  /\ \A t \in Tracks, cmd \in Command : Send(t, cmd) \in Sends
  /\ \A s \in Sends : s = Send(s.to, s.cmd) /\ s.to \in Tracks /\ s.cmd \in Command
  /\ \A t, cmd : Send(t, cmd).to = t /\ Send(t, cmd).cmd = cmd
<1>1. DOMAIN Await = {"await"} /\ "await" # "to"
  BY DEF Await
<1>2. \A t, cmd : DOMAIN Send(t, cmd) = {"to", "cmd"}
  BY DEF Send
<1>3. \A s \in Sends : s = Send(s.to, s.cmd) /\ s.to \in Tracks /\ s.cmd \in Command
  BY DEF Sends, Send
<1>4. /\ \A t \in Tracks, cmd \in Command : Send(t, cmd) \in Sends
      /\ \A t, cmd : Send(t, cmd).to = t /\ Send(t, cmd).cmd = cmd
  BY DEF Sends, Send
<1>5. \A t, cmd : Await # Send(t, cmd)
  BY <1>1, <1>2
<1> QED BY <1>3, <1>4, <1>5

\* A set of numbers that is not empty has a lowest member.
LEMMA LowestIs ==
  ASSUME NEW S, S \subseteq Nat, S # {}
  PROVE  Min(S) \in S
<1>1. PICK n \in S : \A x \in S : <<x, n>> \notin OpToRel(<, Nat)
  BY NatLessThanWellFounded, WFMin
<1>2. ASSUME NEW x \in S PROVE n =< x
  <2>1. x \in Nat /\ n \in Nat
    OBVIOUS
  <2>2. x < n => <<x, n>> \in OpToRel(<, Nat)
    BY <2>1 DEF OpToRel
  <2>3. ~ (x < n)
    BY <1>1, <2>2, Zenon
  <2> QED BY <2>1, <2>3
<1> QED BY <1>2 DEF Min

\* The rows that a scan finds are some TCEs, each once.
LEMMA RowsAre ==
  ASSUME NEW found \in SUBSET TCE, NEW rows \in Rows(found)
  PROVE  /\ rows \in Seq(TCE) /\ \A n \in DOMAIN rows : rows[n] \in found
         /\ \A n, k \in DOMAIN rows : rows[n] = rows[k] => n = k
<1>1. IsFiniteSet(found) /\ Cardinality(found) \in Nat
  BY ConstantsAssumption, FS_Subset, FS_CardinalityType
<1>2. /\ rows \in [1 .. Cardinality(found) -> found]
      /\ \A i, j \in 1 .. Cardinality(found) : i # j => rows[i] # rows[j]
  BY DEF Rows, SetToSeqs
<1> QED BY <1>1, <1>2

\* The commands for them.
LEMMA ForEachIs ==
  ASSUME NEW rows \in Seq(TCE), NEW kind \in TceKinds
  PROVE  /\ ForEach(rows, kind) \in Seq(Sends)
         /\ DOMAIN ForEach(rows, kind) = DOMAIN rows
         /\ \A n \in DOMAIN rows : ForEach(rows, kind)[n].cmd = For(kind, rows[n])
<1> DEFINE track == TrackOfTce[Min(Range(rows))]
           sends == [n \in DOMAIN rows |-> Send(track, For(kind, rows[n]))]
<1>1. ForEach(rows, kind) = sends
  BY DEF ForEach
<1>2. ASSUME NEW n \in DOMAIN rows PROVE track \in Tracks
  <2>1. Range(rows) \subseteq TCE /\ Range(rows) # {}
    BY DEF Range
  <2>2. Min(Range(rows)) \in TCE
    BY <2>1, LowestIs, ConstantsAssumption
  <2> QED BY <2>2, ConstantsAssumption
<1>3. \A n \in DOMAIN rows : sends[n] \in Sends /\ sends[n].cmd = For(kind, rows[n])
  BY <1>2, CommandsAre, AwaitIsNoSend
<1>4. sends \in [1 .. Len(rows) -> Sends] /\ Len(rows) \in Nat
  BY <1>3
<1> QED BY <1>1, <1>3, <1>4

-----------------------------------------------------------------------------
(* What the steps do *)

\* The kinds that nobody waits for an answer of.
PlainKinds == TceKinds \ {"UpdateAndReply"}

\* A reader that has nothing left to send takes a command and has this to send.
Handles(t, sends) ==
  /\ sending[t] = <<>> /\ chan[t] # <<>>
  /\ chan' = [chan EXCEPT ![t] = Tail(@)]
  /\ sending' = [sending EXCEPT ![t] = sends]

\* Nothing, or one command.
AtMostOne(sends) ==
  \/ sends = <<>>
  \/ \E track \in Tracks, kind \in PlainKinds, c \in TCE :
       sends = <<Send(track, For(kind, c))>>

\* One command for each row, and perhaps the next scan.
OfScan(cmd, sends) ==
  \E rows \in Seq(TCE), kind \in PlainKinds :
    /\ \A n, k \in DOMAIN rows : rows[n] = rows[k] => n = k
    /\ cmd.kind \in Scans /\ cmd.kind \in Following(cmd.kind)
    /\ Len(sends) \in {Len(rows), Len(rows) + 1}
    /\ \A n \in DOMAIN rows : sends[n].cmd = For(kind, rows[n])
    /\ Len(sends) = Len(rows) + 1 =>
         \E next \in Scans : /\ sends[Len(rows) + 1].cmd = Scan(next)
                             /\ Following(next) \subseteq Following(cmd.kind) \ {cmd.kind}

\* What a goroutine has to do.
Todo(name, c, todo) ==
  \/ /\ name # "result"
     /\ \E track \in Tracks, kind \in PlainKinds : todo = <<Send(track, For(kind, c))>>
  \/ name = "result" /\ todo = ToldAfterResult(c)

\* The command that a reader takes is about a TCE, unless it is a scan.
LEMMA TakenIs ==
  ASSUME TypeOK, NEW t \in Tracks, NEW kind \in TceKinds \cup Scans, Takes(t, kind)
  PROVE  /\ chan[t] \in Seq(Command) /\ chan[t] # <<>> /\ sending[t] = <<>>
         /\ Head(chan[t]) \in Command /\ Head(chan[t]).kind = kind
         /\ kind \in TceKinds => Head(chan[t]).tce \in TCE
         /\ chan' = [chan EXCEPT ![t] = Tail(@)]
         /\ sending' = sending => Handles(t, <<>>)
         /\ \A sends : ToSend(t, sends) => Handles(t, sends)
<1>1. /\ chan[t] \in Seq(Command) /\ chan[t] # <<>> /\ sending[t] = <<>>
      /\ Head(chan[t]).kind = kind /\ chan' = [chan EXCEPT ![t] = Tail(@)]
  BY DEF Takes, TypeOK
<1>2. Head(chan[t]) \in Command
  BY <1>1
<1>3. kind \in TceKinds => Head(chan[t]).tce \in TCE
  BY <1>1, <1>2, CommandsAre
<1>4. sending' = sending => Handles(t, <<>>)
  BY <1>1 DEF Handles, TypeOK
<1>5. \A sends : ToSend(t, sends) => Handles(t, sends)
  BY <1>1 DEF Handles, ToSend
<1> QED BY <1>1, <1>2, <1>3, <1>4, <1>5

\* The handlers of commands that send at most one command themselves.
LEMMA SingleHandlers ==
  ASSUME TypeOK, NEW t \in Tracks,
         \/ CheckQueue(t) \/ CheckWaitingToBeSent(t) \/ UpdateTestCaseStatus(t)
         \/ TimedOut(t) \/ ReCreateTimers(t)
  PROVE  /\ Head(chan[t]).kind # "UpdateAndReply"
         /\ routine' = routine /\ called' = called
         /\ \E sends \in Seq(Sends) : Handles(t, sends) /\ AtMostOne(sends)
<1>0. <<>> \in Seq(Sends) /\ AtMostOne(<<>>)
  BY DEF AtMostOne
<1>6. ASSUME NEW track \in Tracks, NEW kind \in PlainKinds, NEW c \in TCE
      PROVE  LET sends == <<Send(track, For(kind, c))>>
             IN sends \in Seq(Sends) /\ AtMostOne(sends)
  <2>1. Send(track, For(kind, c)) \in Sends
    BY CommandsAre, AwaitIsNoSend DEF PlainKinds
  <2> QED BY <2>1 DEF AtMostOne
<1>1. CASE CheckQueue(t)
  <2>1. Takes(t, "CheckQueue") /\ called' = called /\ routine' = routine
    BY <1>1 DEF CheckQueue
  <2> DEFINE c == Head(chan[t]).tce
  <2>2. /\ c \in TCE /\ Head(chan[t]).kind = "CheckQueue"
        /\ \A sends : ToSend(t, sends) => Handles(t, sends)
    BY <2>1, TakenIs DEF TceKinds
  <2>3. PICK next \in {"CheckWaitingToBeSent", "UpdateTestCaseStatus"} :
          ToSend(t, <<Send(TrackOfTce[c], For(next, c))>>)
    BY <1>1 DEF CheckQueue
  <2>4. TrackOfTce[c] \in Tracks /\ next \in PlainKinds
    BY <2>2, ConstantsAssumption DEF PlainKinds, TceKinds
  <2> HIDE DEF c
  <2> QED BY <1>6, <2>1, <2>2, <2>3, <2>4
<1>2. CASE CheckWaitingToBeSent(t)
  <2>1. Takes(t, "CheckWaitingToBeSent") /\ called' = called /\ routine' = routine
    BY <1>2 DEF CheckWaitingToBeSent
  <2> DEFINE c == Head(chan[t]).tce
  <2>2. /\ c \in TCE /\ Head(chan[t]).kind = "CheckWaitingToBeSent"
        /\ \A sends : ToSend(t, sends) => Handles(t, sends)
    BY <2>1, TakenIs DEF TceKinds
  <2>3. PICK next \in {"CheckQueue", "UpdateTestCaseStatus", "Result"} :
          ToSend(t, <<Send(TrackOfTce[c], For(next, c))>>)
    BY <1>2 DEF CheckWaitingToBeSent
  <2>4. TrackOfTce[c] \in Tracks /\ next \in PlainKinds
    BY <2>2, ConstantsAssumption DEF PlainKinds, TceKinds
  <2> HIDE DEF c
  <2> QED BY <1>6, <2>1, <2>2, <2>3, <2>4
<1>3. CASE UpdateTestCaseStatus(t)
  <2>1. /\ Takes(t, "UpdateTestCaseStatus") /\ called' = called /\ routine' = routine
        /\ sending' = sending
    BY <1>3 DEF UpdateTestCaseStatus
  <2>2. Head(chan[t]).kind = "UpdateTestCaseStatus" /\ Handles(t, <<>>)
    BY <2>1, TakenIs DEF TceKinds
  <2> QED BY <1>0, <2>1, <2>2
<1>4. CASE TimedOut(t)
  <2>1. Takes(t, "TimedOut") /\ called' = called /\ routine' = routine
    BY <1>4 DEF TimedOut
  <2> DEFINE c == Head(chan[t]).tce
  <2>2. /\ c \in TCE /\ Head(chan[t]).kind = "TimedOut"
        /\ \A sends : ToSend(t, sends) => Handles(t, sends)
    BY <2>1, TakenIs DEF TceKinds
  <2>3. ToSend(t, <<Send(TrackOfTce[c], For("UpdateTestCaseStatus", c))>>)
    BY <1>4 DEF TimedOut
  <2>4. TrackOfTce[c] \in Tracks /\ "UpdateTestCaseStatus" \in PlainKinds
    BY <2>2, ConstantsAssumption DEF PlainKinds, TceKinds
  <2> HIDE DEF c
  <2> QED BY <1>6, <2>1, <2>2, <2>3, <2>4
<1>5. CASE ReCreateTimers(t)
  <2>1. /\ Takes(t, "ReCreateTimers") /\ called' = called /\ routine' = routine
        /\ sending' = sending
    BY <1>5 DEF ReCreateTimers
  <2>2. Head(chan[t]).kind = "ReCreateTimers" /\ Handles(t, <<>>)
    BY <2>1, TakenIs DEF Scans
  <2> QED BY <1>0, <2>1, <2>2
<1> QED BY <1>1, <1>2, <1>3, <1>4, <1>5

\* The handlers of scans that send a command for each row.
LEMMA ScanHandlers ==
  ASSUME TypeOK, NEW t \in Tracks,
         \/ ZombiesUnderExecution(t) \/ ZombieTestCasesOnQueue(t) \/ ZombiesOnQueue(t)
         \/ ZombiesTimedOut(t)
  PROVE  /\ Head(chan[t]).kind # "UpdateAndReply"
         /\ routine' = routine /\ called' = called
         /\ \E sends \in Seq(Sends) : Handles(t, sends) /\ OfScan(Head(chan[t]), sends)
<1> DEFINE cmd == Head(chan[t])
<1>1. ASSUME NEW found \in SUBSET TCE, NEW rows \in Rows(found), NEW kind \in PlainKinds,
             NEW sends, sends \in Seq(Sends), Len(sends) = Len(rows),
             \A n \in DOMAIN rows : sends[n].cmd = For(kind, rows[n]),
             NEW next \in Scans, cmd.kind \in Scans, cmd.kind \in Following(cmd.kind)
      PROVE  /\ OfScan(cmd, sends)
             /\ Following(next) \subseteq Following(cmd.kind) \ {cmd.kind} =>
                  /\ sends \o ThenScan(t, next) \in Seq(Sends)
                  /\ OfScan(cmd, sends \o ThenScan(t, next))
  <2>1. /\ rows \in Seq(TCE) /\ \A n, k \in DOMAIN rows : rows[n] = rows[k] => n = k
    BY RowsAre
  <2>2. OfScan(cmd, sends)
    BY <1>1, <2>1 DEF OfScan
  <2> DEFINE last == Send(t, Scan(next))
             more == Append(sends, last)
  <2>3. sends \o ThenScan(t, next) = more /\ last \in Sends /\ last.cmd = Scan(next)
    BY <1>1, CommandsAre, AwaitIsNoSend DEF ThenScan
  <2> HIDE DEF last
  <2>4. /\ more \in Seq(Sends) /\ Len(more) = Len(rows) + 1
        /\ more[Len(rows) + 1] = last
        /\ \A n \in DOMAIN rows : more[n] = sends[n]
    BY <1>1, <2>1, <2>3
  <2> HIDE DEF more
  <2>5. ASSUME Following(next) \subseteq Following(cmd.kind) \ {cmd.kind}
        PROVE  OfScan(cmd, more)
    <3>1. \A n \in DOMAIN rows : more[n].cmd = For(kind, rows[n])
      BY <1>1, <2>4
    <3>2. more[Len(rows) + 1].cmd = Scan(next)
      BY <2>3, <2>4
    <3> QED BY <1>1, <2>1, <2>4, <2>5, <3>1, <3>2 DEF OfScan
  <2> QED BY <2>2, <2>3, <2>4, <2>5
<1>2. At("ongoing") \in SUBSET TCE /\ At("onTestCaseQueue") \in SUBSET TCE
      /\ At("onQueue") \in SUBSET TCE /\ At("sent") \cap Overdue \in SUBSET TCE
  BY DEF At
<1>3. Scans \cap TceKinds = {} /\ "UpdateAndReply" \in TceKinds
  BY CommandsAre DEF TceKinds
<1>4. ASSUME NEW found \in SUBSET TCE, NEW rows \in Rows(found), NEW kind \in PlainKinds
      PROVE  LET sends == ForEach(rows, kind)
             IN /\ sends \in Seq(Sends) /\ Len(sends) = Len(rows)
                /\ \A n \in DOMAIN rows : sends[n].cmd = For(kind, rows[n])
  <2>1. rows \in Seq(TCE)
    BY RowsAre
  <2> QED BY <2>1, ForEachIs DEF PlainKinds
<1>5. CASE ZombiesUnderExecution(t)
  <2>1. Takes(t, "ZombiesUnderExecution") /\ called' = called /\ routine' = routine
    BY <1>5 DEF ZombiesUnderExecution
  <2>2. PICK rows \in Rows(At("ongoing")) :
          ToSend(t, ForEach(rows, "CheckWaitingToBeSent")
                      \o ThenScan(t, "ZombieTestCasesOnQueue"))
    BY <1>5 DEF ZombiesUnderExecution
  <2>3. cmd.kind = "ZombiesUnderExecution" /\ \A sends : ToSend(t, sends) => Handles(t, sends)
    BY <2>1, TakenIs DEF Scans
  <2>4. /\ cmd.kind \in Scans /\ cmd.kind \in Following(cmd.kind)
        /\ "CheckWaitingToBeSent" \in PlainKinds /\ "ZombieTestCasesOnQueue" \in Scans
        /\ Following("ZombieTestCasesOnQueue") \subseteq Following(cmd.kind) \ {cmd.kind}
    BY <2>3 DEF Following, PlainKinds, TceKinds, Scans
  <2> DEFINE sends == ForEach(rows, "CheckWaitingToBeSent")
  <2>5. /\ sends \in Seq(Sends) /\ Len(sends) = Len(rows)
        /\ \A n \in DOMAIN rows : sends[n].cmd = For("CheckWaitingToBeSent", rows[n])
    BY <1>2, <1>4, <2>4
  <2> HIDE DEF cmd, sends
  <2>6. /\ sends \o ThenScan(t, "ZombieTestCasesOnQueue") \in Seq(Sends)
        /\ OfScan(cmd, sends \o ThenScan(t, "ZombieTestCasesOnQueue"))
    BY <1>1, <1>2, <2>4, <2>5
  <2>7. Handles(t, sends \o ThenScan(t, "ZombieTestCasesOnQueue"))
    BY <2>2, <2>3 DEF sends
  <2> QED BY <1>3, <2>1, <2>4, <2>6, <2>7 DEF cmd
<1>6. CASE ZombieTestCasesOnQueue(t)
  <2>1. Takes(t, "ZombieTestCasesOnQueue") /\ called' = called /\ routine' = routine
    BY <1>6 DEF ZombieTestCasesOnQueue
  <2>2. PICK rows \in Rows(At("onTestCaseQueue")) :
          ToSend(t, ForEach(rows, "ProcessTestCases") \o ThenScan(t, "ZombiesOnQueue"))
    BY <1>6 DEF ZombieTestCasesOnQueue
  <2>3. cmd.kind = "ZombieTestCasesOnQueue" /\ \A sends : ToSend(t, sends) => Handles(t, sends)
    BY <2>1, TakenIs DEF Scans
  <2>4. /\ cmd.kind \in Scans /\ cmd.kind \in Following(cmd.kind)
        /\ "ProcessTestCases" \in PlainKinds /\ "ZombiesOnQueue" \in Scans
        /\ Following("ZombiesOnQueue") \subseteq Following(cmd.kind) \ {cmd.kind}
    BY <2>3 DEF Following, PlainKinds, TceKinds, Scans
  <2> DEFINE sends == ForEach(rows, "ProcessTestCases")
  <2>5. /\ sends \in Seq(Sends) /\ Len(sends) = Len(rows)
        /\ \A n \in DOMAIN rows : sends[n].cmd = For("ProcessTestCases", rows[n])
    BY <1>2, <1>4, <2>4
  <2> HIDE DEF cmd, sends
  <2>6. /\ sends \o ThenScan(t, "ZombiesOnQueue") \in Seq(Sends)
        /\ OfScan(cmd, sends \o ThenScan(t, "ZombiesOnQueue"))
    BY <1>1, <1>2, <2>4, <2>5
  <2>7. Handles(t, sends \o ThenScan(t, "ZombiesOnQueue"))
    BY <2>2, <2>3 DEF sends
  <2> QED BY <1>3, <2>1, <2>4, <2>6, <2>7 DEF cmd
<1>7. CASE ZombiesOnQueue(t)
  <2>1. Takes(t, "ZombiesOnQueue") /\ called' = called /\ routine' = routine
    BY <1>7 DEF ZombiesOnQueue
  <2>2. PICK rows \in Rows(At("onQueue")) : ToSend(t, ForEach(rows, "CheckQueue"))
    BY <1>7 DEF ZombiesOnQueue
  <2>3. cmd.kind = "ZombiesOnQueue" /\ \A sends : ToSend(t, sends) => Handles(t, sends)
    BY <2>1, TakenIs DEF Scans
  <2>4. /\ cmd.kind \in Scans /\ cmd.kind \in Following(cmd.kind)
        /\ "CheckQueue" \in PlainKinds
    BY <2>3 DEF Following, PlainKinds, TceKinds, Scans
  <2> HIDE DEF cmd
  <2> QED BY <1>1, <1>2, <1>3, <1>4, <2>1, <2>2, <2>3, <2>4 DEF cmd
<1>8. CASE ZombiesTimedOut(t)
  <2>1. Takes(t, "ZombiesTimedOut") /\ called' = called /\ routine' = routine
    BY <1>8 DEF ZombiesTimedOut
  <2>2. PICK rows \in Rows(At("sent") \cap Overdue) :
          ToSend(t, [n \in DOMAIN rows |->
                       Send(TrackOfTie[rows[n]], For("TimedOut", rows[n]))])
    BY <1>8 DEF ZombiesTimedOut
  <2> DEFINE sends == [n \in DOMAIN rows |->
                         Send(TrackOfTie[rows[n]], For("TimedOut", rows[n]))]
  <2>3. cmd.kind = "ZombiesTimedOut" /\ Handles(t, sends)
    BY <2>1, <2>2, TakenIs DEF Scans
  <2>4. /\ cmd.kind \in Scans /\ cmd.kind \in Following(cmd.kind)
        /\ "TimedOut" \in PlainKinds /\ "TimedOut" \in TceKinds
    BY <2>3 DEF Following, PlainKinds, TceKinds, Scans
  <2>5. rows \in Seq(TCE)
    BY <1>2, RowsAre
  <2>6. ASSUME NEW n \in DOMAIN rows
        PROVE  sends[n] \in Sends /\ sends[n].cmd = For("TimedOut", rows[n])
    <3>1. rows[n] \in TCE /\ TrackOfTie[rows[n]] \in Tracks
      BY <2>5, ConstantsAssumption
    <3>2. sends[n] = Send(TrackOfTie[rows[n]], For("TimedOut", rows[n]))
      OBVIOUS
    <3> HIDE DEF sends
    <3> QED BY <2>4, <3>1, <3>2, CommandsAre, AwaitIsNoSend
  <2>7. sends \in [1 .. Len(rows) -> Sends] /\ Len(rows) \in Nat
    BY <2>5, <2>6
  <2>8. sends \in Seq(Sends) /\ Len(sends) = Len(rows)
    BY <2>7
  <2> HIDE DEF cmd, sends
  <2>9. OfScan(cmd, sends)
    BY <1>1, <1>2, <2>4, <2>6, <2>8
  <2> QED BY <1>3, <2>1, <2>3, <2>4, <2>8, <2>9 DEF cmd
<1> QED BY <1>5, <1>6, <1>7, <1>8

\* The names of goroutines other than the one that starts the engine.
Names == {"respond", "report", "new", "response", "result"}

\* A goroutine begins: with one command to send, or as that of a result.
Begins == \E name \in Names, c \in TCE, todo \in Seq(Sends \cup {Await}) :
            Todo(name, c, todo) /\ Begin(name, c, todo)

\* A goroutine with one command.
LEMMA OneTodo ==
  ASSUME NEW name \in Names \ {"result"}, NEW c \in TCE, NEW track \in Tracks,
         NEW kind \in PlainKinds, Begin(name, c, <<Send(track, For(kind, c))>>)
  PROVE  Begins
<1> DEFINE todo == <<Send(track, For(kind, c))>>
<1>1. Send(track, For(kind, c)) \in Sends
  BY CommandsAre, AwaitIsNoSend DEF PlainKinds
<1>2. todo \in Seq(Sends \cup {Await}) /\ Todo(name, c, todo)
  BY <1>1 DEF Todo
<1> QED BY <1>2 DEF Begins

\* The goroutine of a result.
LEMMA ResultTodo ==
  ASSUME NEW c \in TCE
  PROVE  /\ ToldAfterResult(c) \in Seq(Sends \cup {Await})
         /\ Begin("result", c, ToldAfterResult(c)) => Begins
<1> DEFINE first == Send(TrackOfTie[c], For("UpdateAndReply", c))
           last == Send(TrackOfTie[c], For("CheckWaitingToBeSent", c))
<1>1. first \in Sends /\ last \in Sends
  BY CommandsAre, AwaitIsNoSend, ConstantsAssumption DEF TceKinds
<1>2. ToldAfterResult(c) = <<first, Await, last>>
  BY DEF ToldAfterResult
<1> HIDE DEF first, last
<1>3. ToldAfterResult(c) \in Seq(Sends \cup {Await})
  BY <1>1, <1>2
<1>4. Todo("result", c, ToldAfterResult(c)) /\ "result" \in Names
  BY DEF Todo, Names
<1> QED BY <1>3, <1>4 DEF Begins

\* The handlers that have a goroutine go on.
LEMMA BeginningHandlers ==
  ASSUME TypeOK, NEW t \in Tracks, ProcessTestCases(t) \/ Result(t) \/ Response(t)
  PROVE  /\ Head(chan[t]) \in Command /\ Head(chan[t]).kind \in PlainKinds
         /\ Handles(t, <<>>) /\ called' = called
         /\ routine' = routine \/ Begins
<1> DEFINE c == Head(chan[t]).tce
<1>1. CASE ProcessTestCases(t)
  <2>1. /\ Takes(t, "ProcessTestCases") /\ called' = called /\ sending' = sending
        /\ \/ routine' = routine
           \/ Begin("new", c, <<Send(TrackOfTce[c], For("CheckQueue", c))>>)
    BY <1>1 DEF ProcessTestCases
  <2>2. /\ c \in TCE /\ Head(chan[t]).kind = "ProcessTestCases" /\ Handles(t, <<>>)
        /\ Head(chan[t]) \in Command
    BY <2>1, TakenIs DEF TceKinds
  <2> HIDE DEF c
  <2>3. TrackOfTce[c] \in Tracks
    BY <2>2, ConstantsAssumption
  <2> QED BY <2>1, <2>2, <2>3, OneTodo DEF PlainKinds, TceKinds, Names
<1>2. CASE Result(t)
  <2>1. /\ Takes(t, "Result") /\ called' = called /\ sending' = sending
        /\ Begin("result", c, ToldAfterResult(c))
    BY <1>2 DEF Result
  <2>2. /\ c \in TCE /\ Head(chan[t]).kind = "Result" /\ Handles(t, <<>>)
        /\ Head(chan[t]) \in Command
    BY <2>1, TakenIs DEF TceKinds
  <2> HIDE DEF c
  <2> QED BY <2>1, <2>2, ResultTodo DEF PlainKinds, TceKinds
<1>3. CASE Response(t)
  <2>1. /\ Takes(t, "Response") /\ called' = called /\ sending' = sending
        /\ Begin("response", c, <<Send(TrackOfTie[c], For("UpdateTestCaseStatus", c))>>)
    BY <1>3 DEF Response
  <2>2. /\ c \in TCE /\ Head(chan[t]).kind = "Response" /\ Handles(t, <<>>)
        /\ Head(chan[t]) \in Command
    BY <2>1, TakenIs DEF TceKinds
  <2> HIDE DEF c
  <2>3. TrackOfTie[c] \in Tracks
    BY <2>2, ConstantsAssumption
  <2> QED BY <2>1, <2>2, <2>3, OneTodo DEF PlainKinds, TceKinds, Names
<1> QED BY <1>1, <1>2, <1>3

\* (C) for a goroutine that waits.
LEMMA AnsweringHandler ==
  ASSUME TypeOK, NEW t \in Tracks, UpdateAndReply(t)
  PROVE  /\ Handles(t, <<>>) /\ called' = called
         /\ \E c \in TCE : /\ Head(chan[t]) = For("UpdateAndReply", c)
                           /\ Waits(<<"result", c>>)
                           /\ routine' = [routine EXCEPT ![<<"result", c>>] = Tail(@)]
<1>1. /\ Takes(t, "UpdateAndReply") /\ called' = called /\ sending' = sending
      /\ LET r == <<"result", Head(chan[t]).tce>>
         IN Waits(r) /\ routine' = [routine EXCEPT ![r] = Tail(@)]
  BY DEF UpdateAndReply
<1>2. /\ Head(chan[t]) \in Command /\ Head(chan[t]).kind = "UpdateAndReply"
      /\ Head(chan[t]).tce \in TCE /\ Handles(t, <<>>)
  BY <1>1, TakenIs DEF TceKinds
<1>3. Head(chan[t]) = For("UpdateAndReply", Head(chan[t]).tce)
  BY <1>2, CommandsAre DEF Scans
<1> QED BY <1>1, <1>2, <1>3

\* A call of a client or of a Worker, which does not come again.
LEMMA CallsAre ==
  ASSUME TypeOK, Calls
  PROVE  /\ chan' = chan /\ sending' = sending /\ Begins
         /\ \E c \in TCE :
              \/ /\ stage[c] = "unknown" /\ stage' = [stage EXCEPT ![c] = "onQueue"]
                 /\ called' = called
              \/ \E name \in {"respond", "report"} :
                   /\ <<name, c>> \notin called /\ called' = called \cup {<<name, c>>}
                   /\ stage' = stage
<1>1. ASSUME NEW c \in TCE PROVE TrackOfTce[c] \in Tracks /\ TrackOfTie[c] \in Tracks
  BY ConstantsAssumption
<1>2. ASSUME NEW c \in TCE, Inform(c) PROVE Begins
  <2>1. Begin("new", c, <<Send(TrackOfTce[c], For("CheckQueue", c))>>)
    BY <1>2 DEF Inform
  <2> QED BY <1>1, <2>1, OneTodo DEF PlainKinds, TceKinds, Names
<1>3. ASSUME NEW c \in TCE, NEW name \in {"respond", "report"},
             NEW kind \in {"Response", "Result"}, WorkerCalls(name, c, kind)
      PROVE  Begins
  <2>1. Begin(name, c, <<Send(TrackOfTie[c], For(kind, c))>>)
    BY <1>3 DEF WorkerCalls
  <2> QED BY <1>1, <2>1, OneTodo DEF PlainKinds, TceKinds, Names
<1>4. PICK c \in TCE : \/ Inform(c)
                       \/ \E name \in {"respond", "report"}, kind \in {"Response", "Result"} :
                            WorkerCalls(name, c, kind)
  BY DEF Calls
<1>5. CASE Inform(c)
  BY <1>2, <1>5 DEF Inform, Becomes
<1>6. ASSUME NEW name \in {"respond", "report"}, NEW kind \in {"Response", "Result"},
             WorkerCalls(name, c, kind)
      PROVE  /\ chan' = chan /\ sending' = sending /\ Begins /\ stage' = stage
             /\ <<name, c>> \notin called /\ called' = called \cup {<<name, c>>}
  BY <1>3, <1>6 DEF WorkerCalls
<1> QED BY <1>4, <1>5, <1>6

\* No TCE becomes unknown again.
LEMMA StageAfter ==
  ASSUME TypeOK, Next
  PROVE  /\ stage' \in [TCE -> Stages]
         /\ \A c \in TCE : stage'[c] = "unknown" => stage[c] = "unknown"
<1>0. stage \in [TCE -> Stages]
  BY DEF TypeOK
<1>1. \/ stage' = stage
      \/ \E c : \E s \in {"onQueue", "ongoing", "sent", "ended"} :
           stage' = [stage EXCEPT ![c] = s]
  BY DEF Next, Reader, Calls, HandlerSends, RoutineSends, ProcessTestCases, CheckQueue,
     CheckWaitingToBeSent, UpdateTestCaseStatus, UpdateAndReply, Result, Response, TimedOut,
     ZombiesUnderExecution, ZombieTestCasesOnQueue, ZombiesOnQueue, ZombiesTimedOut,
     ReCreateTimers, Inform, WorkerCalls, Becomes
<1> QED BY <1>0, <1>1 DEF Stages

\* What a reader does without a goroutine, and what it has then to send.
Sending(t, sends) ==
  /\ Handles(t, sends) /\ Head(chan[t]).kind # "UpdateAndReply"
  /\ AtMostOne(sends) \/ OfScan(Head(chan[t]), sends)
  /\ routine' = routine /\ called' = called

\* A handler that sends nothing itself and begins a goroutine.
Beginning(t) ==
  /\ Handles(t, <<>>) /\ Head(chan[t]) \in Command /\ Head(chan[t]).kind \in PlainKinds
  /\ Begins /\ called' = called

\* All steps.
LEMMA StepsAre ==
  ASSUME TypeOK, Next
  PROVE  \/ \E t \in Tracks : HandlerSends(t)
         \/ \E r \in Routines : RoutineSends(r)
         \/ \E t \in Tracks, sends \in Seq(Sends) : Sending(t, sends)
         \/ \E t \in Tracks : Beginning(t)
         \/ \E t \in Tracks : UpdateAndReply(t)
         \/ Calls
<1>1. ASSUME NEW t \in Tracks,
             \/ CheckQueue(t) \/ CheckWaitingToBeSent(t) \/ UpdateTestCaseStatus(t)
             \/ TimedOut(t) \/ ReCreateTimers(t)
      PROVE  \E sends \in Seq(Sends) : Sending(t, sends)
  BY <1>1, SingleHandlers DEF Sending
<1>2. ASSUME NEW t \in Tracks,
             \/ ZombiesUnderExecution(t) \/ ZombieTestCasesOnQueue(t) \/ ZombiesOnQueue(t)
             \/ ZombiesTimedOut(t)
      PROVE  \E sends \in Seq(Sends) : Sending(t, sends)
  BY <1>2, ScanHandlers DEF Sending
<1>3. ASSUME NEW t \in Tracks, ProcessTestCases(t) \/ Result(t) \/ Response(t)
      PROVE  Beginning(t) \/ \E sends \in Seq(Sends) : Sending(t, sends)
  <2>1. /\ Head(chan[t]) \in Command /\ Head(chan[t]).kind \in PlainKinds
        /\ Handles(t, <<>>) /\ called' = called
        /\ routine' = routine \/ Begins
    BY <1>3, BeginningHandlers
  <2>2. <<>> \in Seq(Sends) /\ AtMostOne(<<>>) /\ Head(chan[t]).kind # "UpdateAndReply"
    BY <2>1 DEF AtMostOne, PlainKinds
  <2> QED BY <2>1, <2>2 DEF Sending, Beginning
<1> QED BY <1>1, <1>2, <1>3 DEF Next, Reader

\* A command that is put on a channel.
LEMMA HandlerPuts ==
  ASSUME TypeOK, NEW t \in Tracks, HandlerSends(t)
  PROVE  /\ sending[t] \in Seq(Sends) /\ sending[t] # <<>> /\ Head(sending[t]) \in Sends
         /\ Room(Head(sending[t]).to)
         /\ chan' = [chan EXCEPT ![Head(sending[t]).to] = Append(@, Head(sending[t]).cmd)]
         /\ sending' = [sending EXCEPT ![t] = Tail(@)]
         /\ routine' = routine /\ stage' = stage /\ called' = called
BY DEF HandlerSends, TypeOK

\* A goroutine that sends puts the first of what it has to do on a channel with room.
LEMMA RoutinePuts ==
  ASSUME TypeOK, NEW r \in Routines, RoutineSends(r)
  PROVE  /\ routine[r] \in Seq(Sends \cup {Await}) /\ routine[r] # <<>>
         /\ Head(routine[r]) \in Sends /\ Room(Head(routine[r]).to)
         /\ chan' = [chan EXCEPT ![Head(routine[r]).to] = Append(@, Head(routine[r]).cmd)]
         /\ routine' = [routine EXCEPT ![r] = Tail(@)]
         /\ sending' = sending /\ stage' = stage /\ called' = called
<1>1. routine[r] \in Seq(Sends \cup {Await}) /\ routine[r] # <<>> /\ Head(routine[r]) # Await
  BY DEF RoutineSends, Waits, TypeOK
<1>2. Head(routine[r]) \in Sends
  BY <1>1
<1> QED BY <1>1, <1>2 DEF RoutineSends

\* The goroutine that begins.
LEMMA BeginsIs ==
  ASSUME TypeOK, Begins
  PROVE  \E name \in Names, c \in TCE, todo \in Seq(Sends \cup {Await}) :
           /\ Todo(name, c, todo) /\ <<name, c>> \in Routines
           /\ routine' = [routine EXCEPT ![<<name, c>>] = @ \o todo]
BY ZenonT(30) DEF Begins, Begin, Routines, Names

-----------------------------------------------------------------------------
(* Types *)

\* Channels keep their type when a command is put on one that has room, and when
\* one is taken.
LEMMA ChannelTypes ==
  /\ \A chans, t, cmd :
       /\ chans \in [Tracks -> Seq(Command)] /\ t \in Tracks /\ cmd \in Command
       /\ \A u \in Tracks : Len(chans[u]) =< ChannelSize
       /\ Len(chans[t]) < ChannelSize
       => LET after == [chans EXCEPT ![t] = Append(@, cmd)]
          IN /\ after \in [Tracks -> Seq(Command)]
             /\ \A u \in Tracks : Len(after[u]) =< ChannelSize
  /\ \A chans, t :
       /\ chans \in [Tracks -> Seq(Command)] /\ t \in Tracks /\ chans[t] # <<>>
       /\ \A u \in Tracks : Len(chans[u]) =< ChannelSize
       => LET after == [chans EXCEPT ![t] = Tail(@)]
          IN /\ after \in [Tracks -> Seq(Command)]
             /\ \A u \in Tracks : Len(after[u]) =< ChannelSize
<1>0. ChannelSize \in Nat
  BY ConstantsAssumption
<1>1. ASSUME NEW chans \in [Tracks -> Seq(Command)], NEW t \in Tracks, NEW cmd \in Command,
             \A u \in Tracks : Len(chans[u]) =< ChannelSize, Len(chans[t]) < ChannelSize
      PROVE  LET after == [chans EXCEPT ![t] = Append(@, cmd)]
             IN /\ after \in [Tracks -> Seq(Command)]
                /\ \A u \in Tracks : Len(after[u]) =< ChannelSize
  <2>1. Append(chans[t], cmd) \in Seq(Command) /\ Len(Append(chans[t], cmd)) =< ChannelSize
    BY <1>0, <1>1
  <2> QED BY <1>1, <2>1
<1>2. ASSUME NEW chans \in [Tracks -> Seq(Command)], NEW t \in Tracks, chans[t] # <<>>,
             \A u \in Tracks : Len(chans[u]) =< ChannelSize
      PROVE  LET after == [chans EXCEPT ![t] = Tail(@)]
             IN /\ after \in [Tracks -> Seq(Command)]
                /\ \A u \in Tracks : Len(after[u]) =< ChannelSize
  <2>1. Tail(chans[t]) \in Seq(Command) /\ Len(Tail(chans[t])) =< ChannelSize
    <3>1. Len(Tail(chans[t])) = Len(chans[t]) - 1 /\ Len(chans[t]) =< ChannelSize
      BY <1>2
    <3> QED BY <1>0, <1>2, <3>1
  <2> QED BY <1>2, <2>1
<1> QED BY <1>1, <1>2

\* Each step keeps the types.
LEMMA TypeStays ==
  ASSUME TypeOK, [Next]_vars
  PROVE  TypeOK'
<1>0. /\ chan \in [Tracks -> Seq(Command)]
      /\ \A t \in Tracks : Len(chan[t]) =< ChannelSize
      /\ sending \in [Tracks -> Seq(Sends)]
      /\ routine \in [Routines -> Seq(Sends \cup {Await})]
      /\ stage \in [TCE -> Stages]
      /\ called \subseteq {"respond", "report"} \X TCE
  BY DEF TypeOK
<1> DEFINE ChanOK == /\ chan' \in [Tracks -> Seq(Command)]
                     /\ \A t \in Tracks : Len(chan'[t]) =< ChannelSize
<1>1. ASSUME Next PROVE stage' \in [TCE -> Stages]
  BY <1>1, StageAfter
<1>2. ASSUME NEW t \in Tracks, NEW sends \in Seq(Sends), Handles(t, sends)
      PROVE  ChanOK /\ sending' \in [Tracks -> Seq(Sends)]
  <2>1. ChanOK
    BY <1>0, <1>2, ChannelTypes DEF Handles
  <2>2. sending' \in [Tracks -> Seq(Sends)]
    BY <1>0, <1>2 DEF Handles
  <2> QED BY <2>1, <2>2
<1>3. ASSUME Begins PROVE routine' \in [Routines -> Seq(Sends \cup {Await})]
  <2>1. PICK name \in Names, c \in TCE, todo \in Seq(Sends \cup {Await}) :
          /\ <<name, c>> \in Routines
          /\ routine' = [routine EXCEPT ![<<name, c>>] = @ \o todo]
    BY <1>3, BeginsIs
  <2>2. routine[<<name, c>>] \o todo \in Seq(Sends \cup {Await})
    BY <1>0, <2>1
  <2> QED BY <1>0, <2>1, <2>2
<1>4. ASSUME NEW s \in Sends, Room(s.to),
             chan' = [chan EXCEPT ![s.to] = Append(@, s.cmd)]
      PROVE  ChanOK
  <2>1. s.to \in Tracks /\ s.cmd \in Command
    BY AwaitIsNoSend
  <2> QED BY <1>0, <1>4, <2>1, ChannelTypes DEF Room
<1> HIDE DEF ChanOK
<1>5. ASSUME NEW t \in Tracks, HandlerSends(t)
      PROVE  ChanOK /\ sending' \in [Tracks -> Seq(Sends)] /\ routine' = routine /\ called' = called
  <2>1. Tail(sending[t]) \in Seq(Sends)
    BY <1>5, HandlerPuts
  <2> QED BY <1>0, <1>4, <1>5, <2>1, HandlerPuts
<1>6. ASSUME NEW r \in Routines, RoutineSends(r)
      PROVE  /\ ChanOK /\ routine' \in [Routines -> Seq(Sends \cup {Await})]
             /\ sending' = sending /\ called' = called
  <2>1. Tail(routine[r]) \in Seq(Sends \cup {Await})
    BY <1>6, RoutinePuts
  <2>2. routine' \in [Routines -> Seq(Sends \cup {Await})]
    <3>1. routine' = [routine EXCEPT ![r] = Tail(@)]
      BY <1>6, RoutinePuts
    <3> QED BY <1>0, <2>1, <3>1
  <2> DEFINE s == Head(routine[r])
  <2>3. /\ s \in Sends /\ Room(s.to) /\ chan' = [chan EXCEPT ![s.to] = Append(@, s.cmd)]
        /\ sending' = sending /\ called' = called
    BY <1>6, RoutinePuts
  <2> HIDE DEF s
  <2>4. ChanOK
    BY <1>4, <2>3
  <2> QED BY <2>2, <2>3, <2>4
<1>7. ASSUME NEW t \in Tracks, UpdateAndReply(t)
      PROVE  routine' \in [Routines -> Seq(Sends \cup {Await})] /\ called' = called
  <2>1. PICK c \in TCE : /\ Waits(<<"result", c>>)
                         /\ routine' = [routine EXCEPT ![<<"result", c>>] = Tail(@)]
    BY <1>7, AnsweringHandler
  <2>2. /\ <<"result", c>> \in Routines
        /\ Tail(routine[<<"result", c>>]) \in Seq(Sends \cup {Await})
    BY <1>0, <2>1 DEF Waits, Routines
  <2> QED BY <1>0, <1>7, <2>1, <2>2, AnsweringHandler
<1>8. ASSUME Calls
      PROVE  chan' = chan /\ sending' = sending /\ called' \subseteq {"respond", "report"} \X TCE
  <2>1. ASSUME NEW name \in {"respond", "report"}, NEW c \in TCE,
               called' = called \cup {<<name, c>>}
        PROVE  called' \subseteq {"respond", "report"} \X TCE
    BY <1>0, <2>1
  <2> QED BY <1>0, <1>8, <2>1, CallsAre
<1>9. <<>> \in Seq(Sends)
  OBVIOUS
<1>10. CASE Next
  <2>1. CASE \E t \in Tracks : HandlerSends(t)
    BY <1>0, <1>1, <1>5, <1>10, <2>1 DEF TypeOK, ChanOK
  <2>2. CASE \E r \in Routines : RoutineSends(r)
    BY <1>0, <1>1, <1>6, <1>10, <2>2 DEF TypeOK, ChanOK
  <2>3. CASE \E t \in Tracks, sends \in Seq(Sends) : Sending(t, sends)
    BY <1>0, <1>1, <1>2, <1>10, <2>3 DEF TypeOK, ChanOK, Sending
  <2>4. CASE \E t \in Tracks : Beginning(t)
    BY <1>0, <1>1, <1>2, <1>3, <1>9, <1>10, <2>4 DEF TypeOK, ChanOK, Beginning
  <2>5. CASE \E t \in Tracks : UpdateAndReply(t)
    BY <1>0, <1>1, <1>2, <1>7, <1>9, <1>10, <2>5, AnsweringHandler DEF TypeOK, ChanOK
  <2>6. CASE Calls
    BY <1>0, <1>1, <1>3, <1>8, <1>10, <2>6, CallsAre DEF TypeOK
  <2> QED BY <1>10, <2>1, <2>2, <2>3, <2>4, <2>5, <2>6, StepsAre
<1>11. CASE UNCHANGED vars
  BY <1>0, <1>11 DEF vars, TypeOK
<1> QED BY <1>10, <1>11

\* The commands of the start-up.
LEMMA TypeAtFirst == Init => TypeOK
<1>1. ASSUME Init PROVE TypeOK
  <2>1. \A kind \in Scans : Send(0, Scan(kind)) \in Sends
    BY CommandsAre, AwaitIsNoSend, ConstantsAssumption
  <2> DEFINE first == <<Send(0, Scan("ZombiesUnderExecution")), Send(0, Scan("ZombiesTimedOut")),
                        Send(0, Scan("ReCreateTimers"))>>
  <2>2. first \in Seq(Sends \cup {Await})
    BY <2>1 DEF Scans
  <2>3. routine = [r \in Routines |-> IF r = Starter THEN first ELSE <<>>]
    BY <1>1 DEF Init
  <2> HIDE DEF first
  <2>4. routine \in [Routines -> Seq(Sends \cup {Await})]
    BY <2>2, <2>3
  <2>5. stage \in [TCE -> Stages]
    BY <1>1, ConstantsAssumption DEF Init
  <2>6. ChannelSize \in Nat
    BY ConstantsAssumption
  <2> QED BY SMTT(30), <1>1, <2>4, <2>5, <2>6 DEF Init, TypeOK
<1> QED BY <1>1

\* Every variable has its type, and no channel holds more than it was made for.
THEOREM TypeCorrect == Spec => []TypeOK
BY TypeAtFirst, TypeStays, PTL DEF Spec

-----------------------------------------------------------------------------
(* Answers *)

\* A command that (C) answers, and the sending of it.
Answered(cmd) == cmd.kind = "UpdateAndReply"
Asks(c) == Send(TrackOfTie[c], For("UpdateAndReply", c))

\* In what a goroutine has to do, waiting comes right after asking, and nothing else.
WellPlaced(r, todo) ==
  \A n \in DOMAIN todo :
    /\ todo[n] = Await =>
         r[1] = "result" /\ (n = 1 \/ todo[n - 1] = Asks(r[2]))
    /\ todo[n] # Await /\ Answered(todo[n].cmd) =>
         /\ r[1] = "result" /\ todo[n] = Asks(r[2])
         /\ n + 1 \in DOMAIN todo /\ todo[n + 1] = Await

\* Nothing here is to be answered.
NoneAnswered(sends) == \A n \in DOMAIN sends : ~ Answered(sends[n].cmd)

\* No handler asks for an answer, goroutines wait after they have asked, and those that
\* wait are those that will be answered.
AnswerInv ==
  /\ \A t \in Tracks : NoneAnswered(sending[t])
  /\ \A r \in Routines : WellPlaced(r, routine[r])
  /\ AnswersAreAwaited

\* The first thing is done.
LEMMA PlacedAfterFirst ==
  ASSUME NEW r, NEW todo \in Seq(Sends \cup {Await}), todo # <<>>, WellPlaced(r, todo)
  PROVE  WellPlaced(r, Tail(todo))
<1> DEFINE rest == Tail(todo)
<1>1. /\ Len(rest) = Len(todo) - 1 /\ rest \in Seq(Sends \cup {Await})
      /\ \A n \in 1 .. Len(todo) - 1 : rest[n] = todo[n + 1]
  OBVIOUS
<1> HIDE DEF rest
<1>2. ASSUME NEW n \in DOMAIN rest, rest[n] = Await
      PROVE  r[1] = "result" /\ (n = 1 \/ rest[n - 1] = Asks(r[2]))
  <2>1. n \in 1 .. Len(todo) - 1 /\ n + 1 \in DOMAIN todo /\ todo[n + 1] = Await
    BY <1>1, <1>2
  <2>2. r[1] = "result" /\ (n + 1 = 1 \/ todo[n + 1 - 1] = Asks(r[2]))
    BY <2>1 DEF WellPlaced
  <2>3. todo[n] = Asks(r[2])
    BY <2>1, <2>2
  <2>4. n = 1 \/ rest[n - 1] = todo[n]
    BY <1>1, <2>1
  <2> QED BY <2>2, <2>3, <2>4
<1>3. ASSUME NEW n \in DOMAIN rest, rest[n] # Await, Answered(rest[n].cmd)
      PROVE  /\ r[1] = "result" /\ rest[n] = Asks(r[2])
             /\ n + 1 \in DOMAIN rest /\ rest[n + 1] = Await
  <2>1. n \in 1 .. Len(todo) - 1 /\ n + 1 \in DOMAIN todo /\ todo[n + 1] = rest[n]
    BY <1>1, <1>3
  <2>2. /\ r[1] = "result" /\ todo[n + 1] = Asks(r[2])
        /\ n + 1 + 1 \in DOMAIN todo /\ todo[n + 1 + 1] = Await
    BY <1>3, <2>1 DEF WellPlaced
  <2> QED BY <1>1, <2>1, <2>2
<1> QED BY <1>2, <1>3 DEF WellPlaced, rest

\* More is to do.
LEMMA PlacedWithMore ==
  ASSUME NEW r, NEW todo \in Seq(Sends \cup {Await}), NEW more \in Seq(Sends \cup {Await}),
         WellPlaced(r, todo), WellPlaced(r, more), more # <<>>, Head(more) # Await
  PROVE  WellPlaced(r, todo \o more)
<1> DEFINE all == todo \o more
           k == Len(todo)
<1>1. /\ k \in Nat /\ DOMAIN all = 1 .. k + Len(more)
      /\ \A n \in DOMAIN todo : all[n] = todo[n]
      /\ \A n \in DOMAIN more : all[k + n] = more[n]
      /\ DOMAIN todo = 1 .. k /\ DOMAIN more = 1 .. Len(more) /\ Len(more) \in Nat
  OBVIOUS
<1>2. \A n \in DOMAIN all : n \in 1 .. k \/ \E m \in 1 .. Len(more) : n = k + m
  <2>1. ASSUME NEW n \in DOMAIN all, n \notin 1 .. k
        PROVE  n - k \in 1 .. Len(more) /\ n = k + (n - k)
    BY <1>1, <2>1
  <2> QED BY <2>1
<1> HIDE DEF all, k
<1>3. ASSUME NEW n \in DOMAIN all, all[n] = Await
      PROVE  r[1] = "result" /\ (n = 1 \/ all[n - 1] = Asks(r[2]))
  <2>1. CASE n \in 1 .. k
    <3>1. r[1] = "result" /\ (n = 1 \/ todo[n - 1] = Asks(r[2]))
      BY <1>1, <1>3, <2>1 DEF WellPlaced
    <3> QED BY <1>1, <2>1, <3>1
  <2>2. ASSUME NEW m \in 1 .. Len(more), n = k + m
        PROVE  r[1] = "result" /\ (n = 1 \/ all[n - 1] = Asks(r[2]))
    <3>1. r[1] = "result" /\ (m = 1 \/ more[m - 1] = Asks(r[2])) /\ more[m] = Await
      BY <1>1, <1>3, <2>2 DEF WellPlaced
    <3>2. m # 1
      BY <3>1
    <3>3. m - 1 \in DOMAIN more /\ n - 1 = k + (m - 1)
      BY <1>1, <2>2, <3>2
    <3>4. all[n - 1] = more[m - 1]
      BY <1>1, <3>3
    <3> QED BY <3>1, <3>2, <3>4
  <2> QED BY <1>2, <2>1, <2>2
<1>4. ASSUME NEW n \in DOMAIN all, all[n] # Await, Answered(all[n].cmd)
      PROVE  /\ r[1] = "result" /\ all[n] = Asks(r[2])
             /\ n + 1 \in DOMAIN all /\ all[n + 1] = Await
  <2>1. CASE n \in 1 .. k
    <3>1. /\ r[1] = "result" /\ todo[n] = Asks(r[2])
          /\ n + 1 \in DOMAIN todo /\ todo[n + 1] = Await
      BY <1>1, <1>4, <2>1 DEF WellPlaced
    <3> QED BY <1>1, <2>1, <3>1
  <2>2. ASSUME NEW m \in 1 .. Len(more), n = k + m
        PROVE  /\ r[1] = "result" /\ all[n] = Asks(r[2])
               /\ n + 1 \in DOMAIN all /\ all[n + 1] = Await
    <3>1. /\ r[1] = "result" /\ more[m] = Asks(r[2])
          /\ m + 1 \in DOMAIN more /\ more[m + 1] = Await
      BY <1>1, <1>4, <2>2 DEF WellPlaced
    <3>2. n + 1 = k + (m + 1) /\ n + 1 \in 1 .. k + Len(more)
      BY <1>1, <2>2, <3>1
    <3> QED BY <1>1, <2>2, <3>1, <3>2
  <2> QED BY <1>2, <2>1, <2>2
<1> QED BY <1>3, <1>4 DEF WellPlaced, all

\* What a goroutine begins with.
LEMMA TodoIsPlaced ==
  ASSUME NEW name \in Names, NEW c \in TCE, NEW todo, Todo(name, c, todo)
  PROVE  WellPlaced(<<name, c>>, todo) /\ todo # <<>> /\ Head(todo) # Await
<1>1. ASSUME NEW track \in Tracks, NEW kind \in PlainKinds, todo = <<Send(track, For(kind, c))>>
      PROVE  WellPlaced(<<name, c>>, todo) /\ todo # <<>> /\ Head(todo) # Await
  <2>1. /\ todo[1] = Send(track, For(kind, c)) /\ DOMAIN todo = {1} /\ Head(todo) = todo[1]
        /\ todo # <<>>
    BY <1>1
  <2>2. todo[1] # Await /\ todo[1].cmd.kind = kind
    BY <2>1, AwaitIsNoSend, CommandsAre DEF PlainKinds
  <2>3. ~ Answered(todo[1].cmd)
    BY <2>2 DEF Answered, PlainKinds
  <2>4. \A n \in DOMAIN todo : todo[n] # Await /\ ~ Answered(todo[n].cmd)
    BY <2>1, <2>2, <2>3
  <2>5. WellPlaced(<<name, c>>, todo)
    BY <2>4, Zenon DEF WellPlaced
  <2> QED BY <2>1, <2>2, <2>5
<1>2. CASE name = "result" /\ todo = ToldAfterResult(c)
  <2> DEFINE last == Send(TrackOfTie[c], For("CheckWaitingToBeSent", c))
  <2>1. todo = <<Asks(c), Await, last>>
    BY <1>2 DEF ToldAfterResult, Asks
  <2>2. Asks(c) # Await /\ last # Await /\ ~ Answered(last.cmd)
    <3>1. last.cmd.kind = "CheckWaitingToBeSent"
      BY AwaitIsNoSend, CommandsAre DEF TceKinds
    <3> QED BY <3>1, AwaitIsNoSend DEF Asks, Answered
  <2> HIDE DEF last
  <2>3. /\ DOMAIN todo = 1 .. 3 /\ todo[1] = Asks(c) /\ todo[2] = Await /\ todo[3] = last
        /\ todo # <<>> /\ Head(todo) = Asks(c)
    BY <2>1
  <2>4. <<name, c>>[1] = "result" /\ <<name, c>>[2] = c
    BY <1>2
  <2>5. ASSUME NEW n \in DOMAIN todo, todo[n] = Await
        PROVE  n = 2 /\ todo[n - 1] = Asks(c)
    BY <2>2, <2>3, <2>5
  <2>6. ASSUME NEW n \in DOMAIN todo, todo[n] # Await, Answered(todo[n].cmd)
        PROVE  n = 1
    BY <2>2, <2>3, <2>6
  <2> QED BY <2>2, <2>3, <2>4, <2>5, <2>6 DEF WellPlaced
<1> QED BY <1>1, <1>2 DEF Todo

\* What a handler sends.
LEMMA SendsUnanswered ==
  ASSUME NEW t \in Tracks, NEW sends \in Seq(Sends), Sending(t, sends)
  PROVE  NoneAnswered(sends)
<1>1. ASSUME NEW kind \in PlainKinds, NEW c \in TCE PROVE ~ Answered(For(kind, c))
  BY CommandsAre DEF Answered, PlainKinds
<1>2. CASE AtMostOne(sends)
  BY <1>1, <1>2, AwaitIsNoSend DEF NoneAnswered, AtMostOne
<1>3. CASE OfScan(Head(chan[t]), sends)
  <2>1. PICK rows \in Seq(TCE), kind \in PlainKinds :
          /\ Len(sends) \in {Len(rows), Len(rows) + 1}
          /\ \A n \in DOMAIN rows : sends[n].cmd = For(kind, rows[n])
          /\ Len(sends) = Len(rows) + 1 =>
               \E next \in Scans : sends[Len(rows) + 1].cmd = Scan(next)
    BY <1>3 DEF OfScan
  <2>2. ASSUME NEW n \in DOMAIN sends PROVE ~ Answered(sends[n].cmd)
    <3>1. n \in DOMAIN rows \/ (n = Len(rows) + 1 /\ Len(sends) = Len(rows) + 1)
      BY <2>1
    <3>2. CASE n \in DOMAIN rows
      <4>1. rows[n] \in TCE
        BY <3>2
      <4> QED BY <1>1, <2>1, <3>2, <4>1
    <3>3. CASE n = Len(rows) + 1 /\ Len(sends) = Len(rows) + 1
      <4>1. PICK next \in Scans : sends[n].cmd = Scan(next)
        BY <2>1, <3>3
      <4> QED BY <4>1, CommandsAre DEF Answered, Scans
    <3> QED BY <3>1, <3>2, <3>3
  <2> QED BY <2>2 DEF NoneAnswered
<1> QED BY <1>2, <1>3 DEF Sending

\* The places of answers, and what happens to them when a command is put on a channel
\* and when one is taken from it.
LEMMA PlacesAre ==
  ASSUME NEW c, NEW p
  PROVE  p \in AnswersTo(c) <=>
           \E t \in Tracks : \E n \in DOMAIN chan[t] :
             p = <<t, n>> /\ chan[t][n] = For("UpdateAndReply", c)
BY DEF AnswersTo

\* A command at the end of a channel adds its place when it is to be answered.
LEMMA PlacesAfterPut ==
  ASSUME TypeOK, NEW t \in Tracks, NEW cmd \in Command, NEW c,
         chan' = [chan EXCEPT ![t] = Append(@, cmd)]
  PROVE  AnswersTo(c)' = AnswersTo(c) \cup
           (IF cmd = For("UpdateAndReply", c) THEN {<<t, Len(chan[t]) + 1>>} ELSE {})
<1> DEFINE ask == For("UpdateAndReply", c)
<1>1. /\ chan[t] \in Seq(Command) /\ chan'[t] = Append(chan[t], cmd)
      /\ \A u \in Tracks : u # t => chan'[u] = chan[u]
  BY DEF TypeOK
<1>2. /\ DOMAIN chan'[t] = DOMAIN chan[t] \cup {Len(chan[t]) + 1}
      /\ chan'[t][Len(chan[t]) + 1] = cmd /\ Len(chan[t]) + 1 \notin DOMAIN chan[t]
      /\ \A n \in DOMAIN chan[t] : chan'[t][n] = chan[t][n]
  BY <1>1
<1>3. \A p : p \in AnswersTo(c)' <=>
        \E u \in Tracks : \E n \in DOMAIN chan'[u] : p = <<u, n>> /\ chan'[u][n] = ask
  BY DEF AnswersTo
<1>4. \A p : p \in AnswersTo(c) <=>
        \E u \in Tracks : \E n \in DOMAIN chan[u] : p = <<u, n>> /\ chan[u][n] = ask
  BY PlacesAre
<1> HIDE DEF ask
<1> SUFFICES ASSUME NEW p
    PROVE  p \in AnswersTo(c)' <=>
             (p \in AnswersTo(c) \/ (cmd = ask /\ p = <<t, Len(chan[t]) + 1>>))
  BY DEF ask
<1>5. ASSUME p \in AnswersTo(c)'
      PROVE  p \in AnswersTo(c) \/ (cmd = ask /\ p = <<t, Len(chan[t]) + 1>>)
  <2>1. PICK u \in Tracks : \E n \in DOMAIN chan'[u] : p = <<u, n>> /\ chan'[u][n] = ask
    BY <1>3, <1>5
  <2>2. PICK n \in DOMAIN chan'[u] : p = <<u, n>> /\ chan'[u][n] = ask
    BY <2>1
  <2>3. CASE u # t
    BY <1>1, <1>4, <2>2, <2>3
  <2>4. CASE u = t /\ n \in DOMAIN chan[t]
    BY <1>2, <1>4, <2>2, <2>4
  <2>5. CASE u = t /\ n = Len(chan[t]) + 1
    BY <1>2, <2>2, <2>5
  <2> QED BY <1>2, <2>2, <2>3, <2>4, <2>5
<1>6. ASSUME p \in AnswersTo(c) PROVE p \in AnswersTo(c)'
  <2>1. PICK u \in Tracks : \E n \in DOMAIN chan[u] : p = <<u, n>> /\ chan[u][n] = ask
    BY <1>4, <1>6
  <2> QED BY <1>1, <1>2, <1>3, <2>1
<1>7. ASSUME cmd = ask, p = <<t, Len(chan[t]) + 1>> PROVE p \in AnswersTo(c)'
  BY <1>2, <1>3, <1>7
<1> QED BY <1>5, <1>6, <1>7

\* A command taken from a channel leaves no place if it was the one to be answered, and
\* otherwise as many as before.
LEMMA PlacesAfterTake ==
  ASSUME TypeOK, NEW t \in Tracks, chan[t] # <<>>, chan' = [chan EXCEPT ![t] = Tail(@)],
         NEW c, \A p, q \in AnswersTo(c) : p = q
  PROVE  /\ \A p, q \in AnswersTo(c)' : p = q
         /\ Head(chan[t]) = For("UpdateAndReply", c) => AnswersTo(c)' = {}
         /\ Head(chan[t]) # For("UpdateAndReply", c) =>
              (AnswersTo(c)' = {} <=> AnswersTo(c) = {})
<1> DEFINE ask == For("UpdateAndReply", c)
<1>1. /\ chan[t] \in Seq(Command) /\ chan'[t] = Tail(chan[t])
      /\ \A u \in Tracks : u # t => chan'[u] = chan[u]
  BY DEF TypeOK
<1>2. /\ \A n \in DOMAIN chan'[t] : /\ n \in Nat /\ n # 0 /\ n + 1 \in DOMAIN chan[t]
                                    /\ chan'[t][n] = chan[t][n + 1]
      /\ \A n \in DOMAIN chan[t] : n = 1 \/ n - 1 \in DOMAIN chan'[t]
      /\ \A n \in DOMAIN chan[t] : n \in Nat
      /\ 1 \in DOMAIN chan[t] /\ Head(chan[t]) = chan[t][1]
  <2> DEFINE q == chan[t]
  <2>1. q \in Seq(Command) /\ q # <<>> /\ chan'[t] = Tail(q)
    BY <1>1
  <2> HIDE DEF q
  <2>2. /\ Len(q) \in Nat /\ Len(q) # 0 /\ DOMAIN q = 1 .. Len(q) /\ Head(q) = q[1]
        /\ DOMAIN Tail(q) = 1 .. Len(q) - 1
        /\ \A n \in 1 .. Len(q) - 1 : Tail(q)[n] = q[n + 1]
    BY <2>1
  <2> DEFINE rest == chan'[t]
  <2>3. rest = Tail(q)
    BY <2>1
  <2> HIDE DEF rest
  <2>4. /\ \A n \in DOMAIN rest : n \in Nat /\ n # 0 /\ n + 1 \in DOMAIN q /\ rest[n] = q[n + 1]
        /\ \A n \in DOMAIN q : n = 1 \/ n - 1 \in DOMAIN rest
        /\ \A n \in DOMAIN q : n \in Nat
        /\ 1 \in DOMAIN q
    BY <2>2, <2>3
  <2> QED BY <2>2, <2>4 DEF q, rest
<1>3. \A p : p \in AnswersTo(c)' <=>
        \E u \in Tracks : \E n \in DOMAIN chan'[u] : p = <<u, n>> /\ chan'[u][n] = ask
  BY DEF AnswersTo
<1>4. \A p : p \in AnswersTo(c) <=>
        \E u \in Tracks : \E n \in DOMAIN chan[u] : p = <<u, n>> /\ chan[u][n] = ask
  BY PlacesAre
<1> HIDE DEF ask
\* Each place has moved one forward on the channel.
<1>5. ASSUME NEW p \in AnswersTo(c)'
      PROVE  \E u \in Tracks, n \in Nat :
               /\ p = <<u, n>> /\ n # 0
               /\ IF u = t THEN <<t, n + 1>> \in AnswersTo(c) ELSE p \in AnswersTo(c)
  <2>1. PICK u \in Tracks : \E n \in DOMAIN chan'[u] : p = <<u, n>> /\ chan'[u][n] = ask
    BY <1>3
  <2>2. PICK n \in DOMAIN chan'[u] : p = <<u, n>> /\ chan'[u][n] = ask
    BY <2>1
  <2>3. CASE u = t
    BY <1>2, <1>4, <2>2, <2>3
  <2>4. CASE u # t
    <3>1. chan'[u] = chan[u] /\ chan[u] \in Seq(Command)
      BY <1>1, <2>4 DEF TypeOK
    <3>2. n \in DOMAIN chan[u] /\ chan[u][n] = ask
      BY <2>2, <3>1
    <3>3. n \in Nat /\ n # 0 /\ p \in AnswersTo(c)
      BY <1>4, <2>2, <3>1, <3>2
    <3> QED BY <2>2, <2>4, <3>3
  <2> QED BY <2>3, <2>4
<1>6. ASSUME NEW p \in AnswersTo(c)', NEW q \in AnswersTo(c)' PROVE p = q
  <2>1. PICK u \in Tracks, n \in Nat :
          /\ p = <<u, n>> /\ IF u = t THEN <<t, n + 1>> \in AnswersTo(c) ELSE p \in AnswersTo(c)
    BY <1>5
  <2>2. PICK v \in Tracks, m \in Nat :
          /\ q = <<v, m>> /\ IF v = t THEN <<t, m + 1>> \in AnswersTo(c) ELSE q \in AnswersTo(c)
    BY <1>5
  <2>3. CASE u = t /\ v = t
    <3>1. <<t, n + 1>> = <<t, m + 1>>
      BY <2>1, <2>2, <2>3
    <3>2. n + 1 = m + 1
      BY <3>1
    <3> QED BY <2>1, <2>2, <2>3, <3>2
  <2>4. CASE u = t /\ v # t
    <3>1. <<t, n + 1>> = <<v, m>>
      BY <2>1, <2>2, <2>4
    <3> QED BY <2>4, <3>1
  <2>5. CASE u # t /\ v = t
    <3>1. <<t, m + 1>> = <<u, n>>
      BY <2>1, <2>2, <2>5
    <3> QED BY <2>5, <3>1
  <2>6. CASE u # t /\ v # t
    BY <2>1, <2>2, <2>6
  <2> QED BY <2>3, <2>4, <2>5, <2>6
<1>7. ASSUME Head(chan[t]) = ask, NEW p \in AnswersTo(c)' PROVE FALSE
  <2>1. <<t, 1>> \in AnswersTo(c)
    BY <1>2, <1>4, <1>7
  <2>2. PICK u \in Tracks, n \in Nat :
          /\ p = <<u, n>> /\ n # 0
          /\ IF u = t THEN <<t, n + 1>> \in AnswersTo(c) ELSE p \in AnswersTo(c)
    BY <1>5
  <2>3. CASE u = t
    <3>1. <<t, n + 1>> = <<t, 1>>
      BY <2>1, <2>2, <2>3
    <3> QED BY <2>2, <3>1
  <2>4. CASE u # t
    <3>1. <<u, n>> = <<t, 1>>
      BY <2>1, <2>2, <2>4
    <3> QED BY <2>4, <3>1
  <2> QED BY <2>3, <2>4
<1>8. ASSUME Head(chan[t]) # ask, NEW p \in AnswersTo(c) PROVE AnswersTo(c)' # {}
  <2>1. PICK u \in Tracks : \E n \in DOMAIN chan[u] : p = <<u, n>> /\ chan[u][n] = ask
    BY <1>4
  <2>2. PICK n \in DOMAIN chan[u] : p = <<u, n>> /\ chan[u][n] = ask
    BY <2>1
  <2>3. CASE u # t
    BY <1>1, <1>3, <2>2, <2>3
  <2>4. CASE u = t
    <3>1. n - 1 \in DOMAIN chan'[t] /\ n \in Nat
      BY <1>2, <1>8, <2>2, <2>4
    <3>2. n - 1 + 1 = n
      BY <3>1
    <3>3. chan'[t][n - 1] = ask
      BY <1>2, <2>2, <2>4, <3>1, <3>2
    <3> QED BY <1>3, <3>1, <3>3
  <2> QED BY <2>3, <2>4
<1>9. AnswersTo(c)' # {} => AnswersTo(c) # {}
  BY <1>5
<1> QED BY <1>6, <1>7, <1>8, <1>9 DEF ask

\* Answers and those that wait for them, in one state.
AwaitedBy(c) == /\ Waits(<<"result", c>>) <=> AnswersTo(c) # {}
                /\ \A p, q \in AnswersTo(c) : p = q

\* A command that asks for no answer is put on a channel.
LEMMA PutOther ==
  ASSUME TypeOK, NEW s \in Sends, ~ Answered(s.cmd), NEW c,
         chan' = [chan EXCEPT ![s.to] = Append(@, s.cmd)]
  PROVE  AnswersTo(c)' = AnswersTo(c)
<1>1. s.to \in Tracks /\ s.cmd \in Command
  BY AwaitIsNoSend
<1>2. s.cmd # For("UpdateAndReply", c)
  BY DEF Answered, For
<1> QED BY <1>1, <1>2, PlacesAfterPut

\* A goroutine begins, at the end of what it has to do.
LEMMA BeginsWaitsAsBefore ==
  ASSUME TypeOK, Begins, \A r \in Routines : WellPlaced(r, routine[r])
  PROVE  /\ \A r \in Routines : WellPlaced(r, routine'[r])
         /\ \A c \in TCE : Waits(<<"result", c>>)' = Waits(<<"result", c>>)
<1>1. PICK name \in Names, c \in TCE, todo \in Seq(Sends \cup {Await}) :
        /\ Todo(name, c, todo) /\ <<name, c>> \in Routines
        /\ routine' = [routine EXCEPT ![<<name, c>>] = @ \o todo]
  BY BeginsIs
<1> DEFINE r == <<name, c>>
           before == routine[r]
<1>2. WellPlaced(r, todo) /\ todo # <<>> /\ Head(todo) # Await
  BY <1>1, TodoIsPlaced
<1>3. /\ r \in Routines /\ before \in Seq(Sends \cup {Await})
      /\ routine' = [routine EXCEPT ![r] = before \o todo]
      /\ WellPlaced(r, before)
  BY <1>1 DEF TypeOK
<1>4. routine'[r] = before \o todo /\ \A x \in Routines : x # r => routine'[x] = routine[x]
  BY <1>3 DEF TypeOK
<1> HIDE DEF r, before
<1>5. WellPlaced(r, before \o todo)
  BY <1>2, <1>3, PlacedWithMore
<1>6. /\ before \o todo # <<>>
      /\ Head(before \o todo) = IF before = <<>> THEN Head(todo) ELSE Head(before)
  BY <1>2, <1>3
<1>7. Waits(r)' = Waits(r)
  <2>1. Waits(r)' <=> routine'[r] # <<>> /\ Head(routine'[r]) = Await
    BY DEF Waits
  <2>2. Waits(r) <=> before # <<>> /\ Head(before) = Await
    BY DEF Waits, before
  <2> QED BY <1>2, <1>4, <1>6, <2>1, <2>2 DEF Waits
<1>8. ASSUME NEW x \in Routines, x # r PROVE Waits(x)' = Waits(x)
  BY <1>4, <1>8 DEF Waits
<1>9. \A x \in Routines : Waits(x)' = Waits(x)
  BY <1>7, <1>8
<1>10. \A d \in TCE : <<"result", d>> \in Routines
  BY DEF Routines
<1>11. \A x \in Routines : WellPlaced(x, routine'[x])
  BY <1>3, <1>4, <1>5
<1> QED BY <1>9, <1>10, <1>11

\* A goroutine sends what it has to send first.
LEMMA AnswersAfterRoutine ==
  ASSUME TypeOK, AnswerInv, NEW r \in Routines, RoutineSends(r)
  PROVE  AnswerInv'
<1> DEFINE todo == routine[r]
           s == Head(todo)
<1>1. /\ todo \in Seq(Sends \cup {Await}) /\ todo # <<>> /\ s \in Sends
      /\ chan' = [chan EXCEPT ![s.to] = Append(@, s.cmd)]
      /\ routine' = [routine EXCEPT ![r] = Tail(todo)]
      /\ sending' = sending
  BY RoutinePuts
<1>2. /\ WellPlaced(r, todo) /\ ~ Waits(r)
      /\ routine'[r] = Tail(todo) /\ \A x \in Routines : x # r => routine'[x] = routine[x]
  BY <1>1 DEF AnswerInv, TypeOK, RoutineSends
<1>3. Waits(r)' <=> routine'[r] # <<>> /\ Head(routine'[r]) = Await
  BY DEF Waits
<1>4. \A x \in Routines : x # r => Waits(x)' = Waits(x)
  BY <1>2 DEF Waits
<1> HIDE DEF todo
<1>5. /\ todo[1] = s /\ 1 \in DOMAIN todo
      /\ Tail(todo) # <<>> <=> 1 + 1 \in DOMAIN todo
      /\ Tail(todo) # <<>> => Head(Tail(todo)) = todo[1 + 1]
  <2>1. /\ Len(Tail(todo)) = Len(todo) - 1 /\ Len(todo) \in Nat /\ Len(todo) # 0
        /\ \A n \in 1 .. Len(todo) - 1 : Tail(todo)[n] = todo[n + 1]
        /\ Tail(todo) \in Seq(Sends \cup {Await})
    BY <1>1
  <2>2. Tail(todo) # <<>> => Head(Tail(todo)) = Tail(todo)[1]
    BY <2>1
  <2>0. \A q \in Seq(Sends \cup {Await}) : q # <<>> <=> Len(q) # 0
    OBVIOUS
  <2>3. Tail(todo) # <<>> <=> Len(todo) - 1 # 0
    BY <2>0, <2>1
  <2> QED BY <1>1, <2>1, <2>2, <2>3
<1> HIDE DEF s
<1>6. s # Await /\ s.to \in Tracks /\ s.cmd \in Command
  BY <1>1, AwaitIsNoSend
<1>7. \A t \in Tracks : NoneAnswered(sending'[t])
  BY <1>1 DEF AnswerInv
<1>8. \A x \in Routines : WellPlaced(x, routine'[x])
  <2>1. WellPlaced(r, Tail(todo))
    BY <1>1, <1>2, PlacedAfterFirst
  <2> QED BY <1>2, <2>1 DEF AnswerInv
<1>9. ASSUME NEW c \in TCE PROVE AwaitedBy(c)'
  <2>0. AwaitedBy(c) /\ <<"result", c>> \in Routines
    BY DEF AnswerInv, AnswersAreAwaited, AwaitedBy, Routines
  <2>1. CASE ~ Answered(s.cmd)
    <3>1. AnswersTo(c)' = AnswersTo(c)
      BY <1>1, <2>1, PutOther
    <3>2. Waits(<<"result", c>>)' <=> Waits(<<"result", c>>)
      <4>1. CASE <<"result", c>> # r
        BY <1>4, <2>0, <4>1
      <4>2. CASE <<"result", c>> = r
        <5>1. ~ Waits(r)'
          <6>1. ASSUME Waits(r)' PROVE FALSE
            <7>1. 1 + 1 \in DOMAIN todo /\ todo[1 + 1] = Await
              BY <1>2, <1>3, <1>5, <6>1
            <7>2. todo[1 + 1 - 1] = Asks(r[2])
              BY <1>2, <7>1 DEF WellPlaced
            <7>3. s = Asks(r[2])
              BY <1>5, <7>2
            <7>4. s.cmd = For("UpdateAndReply", r[2])
              BY <7>3, AwaitIsNoSend DEF Asks
            <7> QED BY <2>1, <7>4 DEF Answered, For
          <6> QED BY <6>1
        <5> QED BY <1>2, <4>2, <5>1
      <4> QED BY <4>1, <4>2
    <3> QED BY <2>0, <3>1, <3>2 DEF AwaitedBy
  <2>2. CASE Answered(s.cmd)
    <3>1. /\ r[1] = "result" /\ s = Asks(r[2])
          /\ 1 + 1 \in DOMAIN todo /\ todo[1 + 1] = Await
      <4>1. todo[1] # Await /\ Answered(todo[1].cmd)
        BY <1>5, <1>6, <2>2
      <4> QED BY <1>2, <1>5, <4>1 DEF WellPlaced
    <3>2. PICK d \in TCE : r = <<"result", d>>
      <4>1. r = Starter \/ \E name \in Names, d \in TCE : r = <<name, d>>
        BY DEF Routines, Names
      <4> QED BY <3>1, <4>1 DEF Starter
    <3>3. s = Asks(d) /\ s.cmd = For("UpdateAndReply", d)
      <4>1. r[2] = d
        BY <3>2
      <4> QED BY <3>1, <4>1, AwaitIsNoSend DEF Asks
    <3>4. AnswersTo(c)' = AnswersTo(c) \cup
            (IF s.cmd = For("UpdateAndReply", c) THEN {<<s.to, Len(chan[s.to]) + 1>>} ELSE {})
      BY <1>1, <1>6, PlacesAfterPut
    <3>5. CASE c = d
      <4>1. Waits(<<"result", c>>)'
        BY <1>2, <1>3, <1>5, <3>1, <3>2, <3>5
      <4>2. AnswersTo(c) = {}
        BY <1>2, <2>0, <3>2, <3>5 DEF AwaitedBy
      <4>3. AnswersTo(c)' = {<<s.to, Len(chan[s.to]) + 1>>}
        BY <3>3, <3>4, <3>5, <4>2
      <4> QED BY <4>1, <4>3 DEF AwaitedBy
    <3>6. CASE c # d
      <4>1. For("UpdateAndReply", c) # For("UpdateAndReply", d)
        BY <3>6, CommandsAre DEF TceKinds
      <4>2. AnswersTo(c)' = AnswersTo(c)
        BY <3>3, <3>4, <4>1
      <4>3. <<"result", c>> # r
        BY <3>2, <3>6
      <4>4. Waits(<<"result", c>>)' = Waits(<<"result", c>>)
        BY <1>4, <2>0, <4>3
      <4> QED BY <2>0, <4>2, <4>4 DEF AwaitedBy
    <3> QED BY <3>5, <3>6
  <2> QED BY <2>1, <2>2
<1> QED BY <1>7, <1>8, <1>9 DEF AnswerInv, AnswersAreAwaited, AwaitedBy

\* A reader takes a command that asks for no answer.
LEMMA TakesOther ==
  ASSUME TypeOK, AnswerInv, NEW t \in Tracks, NEW sends, Handles(t, sends),
         ~ Answered(Head(chan[t])), NEW c \in TCE,
         Waits(<<"result", c>>)' = Waits(<<"result", c>>)
  PROVE  AwaitedBy(c)'
<1>1. Head(chan[t]) # For("UpdateAndReply", c)
  BY DEF Answered, For
<1>2. AwaitedBy(c)
  BY DEF AnswerInv, AnswersAreAwaited, AwaitedBy
<1>3. chan[t] # <<>> /\ chan' = [chan EXCEPT ![t] = Tail(@)]
  BY DEF Handles
<1>4. /\ \A p, q \in AnswersTo(c)' : p = q
      /\ AnswersTo(c)' = {} <=> AnswersTo(c) = {}
  BY <1>1, <1>2, <1>3, PlacesAfterTake DEF AwaitedBy
<1> QED BY <1>2, <1>4 DEF AwaitedBy

\* A reader gives the answer, to the one that waits.
LEMMA AnswersAfterReply ==
  ASSUME TypeOK, AnswerInv, NEW t \in Tracks, UpdateAndReply(t)
  PROVE  AnswerInv'
<1>1. PICK d \in TCE :
        /\ Head(chan[t]) = For("UpdateAndReply", d) /\ Waits(<<"result", d>>)
        /\ routine' = [routine EXCEPT ![<<"result", d>>] = Tail(@)]
  BY AnsweringHandler
<1>2. /\ sending' = [sending EXCEPT ![t] = <<>>]
      /\ chan[t] # <<>> /\ chan' = [chan EXCEPT ![t] = Tail(@)]
  BY AnsweringHandler DEF Handles
<1> DEFINE r == <<"result", d>>
           todo == routine[r]
<1>3. /\ r \in Routines /\ todo \in Seq(Sends \cup {Await}) /\ todo # <<>>
      /\ Head(todo) = Await /\ WellPlaced(r, todo) /\ routine'[r] = Tail(todo)
      /\ \A x \in Routines : x # r => routine'[x] = routine[x]
  <2>1. r \in Routines
    BY DEF Routines
  <2> QED BY <1>1, <2>1 DEF AnswerInv, TypeOK, Waits
<1> HIDE DEF todo
<1>4. /\ todo[1] = Await /\ 1 \in DOMAIN todo
      /\ Tail(todo) # <<>> => 1 + 1 \in DOMAIN todo /\ Head(Tail(todo)) = todo[1 + 1]
  <2>0. \A q \in Seq(Sends \cup {Await}) : q # <<>> => Len(q) # 0 /\ Head(q) = q[1]
    OBVIOUS
  <2>1. /\ Len(Tail(todo)) = Len(todo) - 1 /\ Len(todo) \in Nat /\ Len(todo) # 0
        /\ \A n \in 1 .. Len(todo) - 1 : Tail(todo)[n] = todo[n + 1]
        /\ Tail(todo) \in Seq(Sends \cup {Await}) /\ DOMAIN todo = 1 .. Len(todo)
    BY <1>3
  <2>2. Tail(todo) # <<>> => Head(Tail(todo)) = Tail(todo)[1] /\ Len(todo) - 1 # 0
    BY <2>0, <2>1
  <2> QED BY <1>3, <2>0, <2>1, <2>2
<1>5. ~ Waits(r)'
  <2>1. ASSUME Waits(r)' PROVE FALSE
    <3>1. 1 + 1 \in DOMAIN todo /\ todo[1 + 1] = Await
      BY <1>3, <1>4, <2>1 DEF Waits
    <3>2. todo[1 + 1 - 1] = Asks(r[2])
      BY <1>3, <3>1 DEF WellPlaced
    <3> QED BY <1>4, <3>2, AwaitIsNoSend DEF Asks
  <2> QED BY <2>1
<1>6. \A u \in Tracks : NoneAnswered(sending'[u])
  BY <1>2 DEF AnswerInv, TypeOK, NoneAnswered
<1>7. \A x \in Routines : WellPlaced(x, routine'[x])
  <2>1. WellPlaced(r, Tail(todo))
    BY <1>3, PlacedAfterFirst
  <2> QED BY <1>3, <2>1 DEF AnswerInv
<1>8. ASSUME NEW c \in TCE PROVE AwaitedBy(c)'
  <2>0. AwaitedBy(c) /\ <<"result", c>> \in Routines
    BY DEF AnswerInv, AnswersAreAwaited, AwaitedBy, Routines
  <2>1. CASE c = d
    <3>1. AnswersTo(c)' = {}
      <4>1. \A p, q \in AnswersTo(c) : p = q
        BY <2>0 DEF AwaitedBy
      <4>2. Head(chan[t]) = For("UpdateAndReply", c)
        BY <1>1, <2>1
      <4> QED BY <1>2, <4>1, <4>2, PlacesAfterTake
    <3> QED BY <1>5, <2>1, <3>1 DEF AwaitedBy
  <2>2. CASE c # d
    <3>1. Head(chan[t]) # For("UpdateAndReply", c)
      BY <1>1, <2>2, CommandsAre DEF TceKinds
    <3>2. /\ \A p, q \in AnswersTo(c)' : p = q
          /\ AnswersTo(c)' = {} <=> AnswersTo(c) = {}
      BY <1>2, <2>0, <3>1, PlacesAfterTake DEF AwaitedBy
    <3>3. Waits(<<"result", c>>)' = Waits(<<"result", c>>)
      BY <1>3, <2>0, <2>2 DEF Waits
    <3> QED BY <2>0, <3>2, <3>3 DEF AwaitedBy
  <2> QED BY <2>1, <2>2
<1> QED BY <1>6, <1>7, <1>8 DEF AnswerInv, AnswersAreAwaited, AwaitedBy

\* Each step keeps the invariant.
LEMMA AnswersStay ==
  ASSUME TypeOK, AnswerInv, [Next]_vars
  PROVE  AnswerInv'
<1>1. ASSUME NEW t \in Tracks, HandlerSends(t) PROVE AnswerInv'
  <2> DEFINE s == Head(sending[t])
  <2>1. /\ s \in Sends /\ chan' = [chan EXCEPT ![s.to] = Append(@, s.cmd)]
        /\ sending[t] \in Seq(Sends) /\ sending[t] # <<>>
        /\ sending' = [sending EXCEPT ![t] = Tail(@)] /\ routine' = routine
    BY <1>1, HandlerPuts
  <2>2. NoneAnswered(sending[t])
    BY DEF AnswerInv
  <2>3. ~ Answered(s.cmd) /\ NoneAnswered(Tail(sending[t]))
    <3>1. /\ 1 \in DOMAIN sending[t] /\ s = sending[t][1]
          /\ \A n \in DOMAIN Tail(sending[t]) :
               n + 1 \in DOMAIN sending[t] /\ Tail(sending[t])[n] = sending[t][n + 1]
      BY <2>1
    <3> QED BY <2>2, <3>1 DEF NoneAnswered
  <2> HIDE DEF s
  <2>4. \A u \in Tracks : NoneAnswered(sending'[u])
    BY <2>1, <2>3 DEF AnswerInv, TypeOK
  <2>5. ASSUME NEW c \in TCE PROVE AwaitedBy(c)'
    <3>1. AnswersTo(c)' = AnswersTo(c)
      BY <2>1, <2>3, PutOther
    <3>2. Waits(<<"result", c>>)' = Waits(<<"result", c>>)
      BY <2>1 DEF Waits
    <3> QED BY <3>1, <3>2 DEF AnswerInv, AnswersAreAwaited, AwaitedBy
  <2> QED BY <2>1, <2>4, <2>5 DEF AnswerInv, AnswersAreAwaited, AwaitedBy
<1>2. ASSUME NEW r \in Routines, RoutineSends(r) PROVE AnswerInv'
  BY <1>2, AnswersAfterRoutine
<1>3. ASSUME NEW t \in Tracks, NEW sends \in Seq(Sends), Sending(t, sends) PROVE AnswerInv'
  <2>1. Handles(t, sends) /\ ~ Answered(Head(chan[t])) /\ routine' = routine
    BY <1>3 DEF Sending, Answered
  <2>2. \A u \in Tracks : NoneAnswered(sending'[u])
    <3>1. NoneAnswered(sends) /\ sending' = [sending EXCEPT ![t] = sends]
      BY <1>3, <2>1, SendsUnanswered DEF Handles
    <3> QED BY <3>1 DEF AnswerInv, TypeOK
  <2>3. ASSUME NEW c \in TCE PROVE AwaitedBy(c)'
    <3>1. Waits(<<"result", c>>)' = Waits(<<"result", c>>)
      BY <2>1 DEF Waits
    <3> QED BY <2>1, <3>1, TakesOther
  <2> QED BY <2>1, <2>2, <2>3 DEF AnswerInv, AnswersAreAwaited, AwaitedBy
<1>4. ASSUME NEW t \in Tracks, Beginning(t) PROVE AnswerInv'
  <2>1. Handles(t, <<>>) /\ ~ Answered(Head(chan[t])) /\ Begins
    BY <1>4 DEF Beginning, Answered, PlainKinds
  <2>2. \A u \in Tracks : NoneAnswered(sending'[u])
    BY <2>1 DEF Handles, AnswerInv, TypeOK, NoneAnswered
  <2>3. /\ \A r \in Routines : WellPlaced(r, routine'[r])
        /\ \A c \in TCE : Waits(<<"result", c>>)' = Waits(<<"result", c>>)
    BY <2>1, BeginsWaitsAsBefore DEF AnswerInv
  <2>4. \A c \in TCE : AwaitedBy(c)'
    BY <2>1, <2>3, TakesOther
  <2> QED BY <2>2, <2>3, <2>4 DEF AnswerInv, AnswersAreAwaited, AwaitedBy
<1>5. ASSUME NEW t \in Tracks, UpdateAndReply(t) PROVE AnswerInv'
  BY <1>5, AnswersAfterReply
<1>6. CASE Calls
  <2>1. chan' = chan /\ sending' = sending /\ Begins
    BY <1>6, CallsAre
  <2>2. /\ \A r \in Routines : WellPlaced(r, routine'[r])
        /\ \A c \in TCE : Waits(<<"result", c>>)' = Waits(<<"result", c>>)
    BY <2>1, BeginsWaitsAsBefore DEF AnswerInv
  <2>3. \A c : AnswersTo(c)' = AnswersTo(c)
    BY <2>1 DEF AnswersTo
  <2> QED BY <2>1, <2>2, <2>3 DEF AnswerInv, AnswersAreAwaited
<1>7. CASE UNCHANGED vars
  <2>1. \A c : AnswersTo(c)' = AnswersTo(c) /\ Waits(c)' = Waits(c)
    BY <1>7 DEF vars, AnswersTo, Waits
  <2> QED BY <1>7, <2>1 DEF vars, AnswerInv, AnswersAreAwaited
<1> QED BY <1>1, <1>2, <1>3, <1>4, <1>5, <1>6, <1>7, StepsAre

\* Nobody asks and nobody waits at the start.
LEMMA AnswersAtFirst == Init => AnswerInv
<1>1. ASSUME Init PROVE AnswerInv
  <2>1. \A t \in Tracks : chan[t] = <<>> /\ sending[t] = <<>>
    BY <1>1 DEF Init
  <2>2. \A r \in Routines : r # Starter => routine[r] = <<>>
    BY <1>1 DEF Init
  <2> DEFINE first == <<Send(0, Scan("ZombiesUnderExecution")), Send(0, Scan("ZombiesTimedOut")),
                        Send(0, Scan("ReCreateTimers"))>>
  <2>3. routine[Starter] = first
    BY <1>1 DEF Init, Routines
  <2>4. WellPlaced(Starter, first)
    <3>1. \A kind \in Scans : /\ Send(0, Scan(kind)) # Await
                              /\ ~ Answered(Send(0, Scan(kind)).cmd)
      BY CommandsAre, AwaitIsNoSend DEF Answered, Scans
    <3>2. \A n \in DOMAIN first : \E kind \in Scans : first[n] = Send(0, Scan(kind))
      BY DEF Scans
    <3> HIDE DEF first
    <3> QED BY <3>1, <3>2 DEF WellPlaced
  <2>5. \A r \in Routines : WellPlaced(r, routine[r])
    <3>1. \A r : WellPlaced(r, <<>>)
      BY DEF WellPlaced
    <3> HIDE DEF first
    <3> QED BY <2>2, <2>3, <2>4, <3>1
  <2>6. \A c : AnswersTo(c) = {}
    BY <2>1 DEF AnswersTo
  <2>7. \A c \in TCE : ~ Waits(<<"result", c>>)
    BY <2>2 DEF Waits, Starter, Routines
  <2> QED BY <2>1, <2>5, <2>6, <2>7 DEF AnswerInv, AnswersAreAwaited, NoneAnswered
<1> QED BY <1>1

\* A goroutine waits for an answer exactly when one (C) on a channel will give it: no
\* reader stops at an answer nobody takes, no goroutine waits for one that does not come.
THEOREM AnswersCorrect == Spec => []AnswersAreAwaited
<1>1. AnswerInv => AnswersAreAwaited
  BY DEF AnswerInv
<1> QED BY <1>1, AnswersAtFirst, AnswersStay, TypeCorrect, PTL DEF Spec

-----------------------------------------------------------------------------
(* How much there is to do *)

\* What is counted as work: commands, and waiting, which is none.
Things == Command \cup {Await}

\* A piece of work is a line, a place on it, and what the command there may become.
LEMMA WorkIs ==
  ASSUME NEW line, NEW x
  PROVE  x \in Work(line) <=>
           \E q \in Lines : \E n \in DOMAIN line[q] : \E b \in Becoming(line[q][n]) :
             x = <<q, n, b>>
BY DEF Work

\* Whatever a command on a line may become is work.
LEMMA InWork ==
  ASSUME NEW line, NEW q \in Lines, NEW n \in DOMAIN line[q], NEW b \in Becoming(line[q][n])
  PROVE  <<q, n, b>> \in Work(line)
BY WorkIs

\* The work of the commands that are the first of their lines and go.
Released(line, gone) == {x \in Work(line) : x[2] = 1 /\ gone[x[1]] = 1}

\* A line has become this one: without its first command, or with it, and with new
\* ones at the end.
Follows(before, after, gone, new) ==
  /\ gone =< Len(before)
  /\ Len(after) = Len(before) - gone + Len(new)
  /\ \A n \in 1 .. Len(before) - gone : after[n] = before[n + gone]
  /\ \A k \in 1 .. Len(new) : after[Len(before) - gone + k] = new[k]

\* Every line loses its first command or none, and gets the new ones at its end.
BecomeLines(before, after, gone, new) ==
  \A q \in Lines : Follows(before[q], after[q], gone[q], new[q])

\* When the work of new commands comes from that of those that go, or from calls that
\* need not come any more, then all that is to be done comes from what was to be done.
LEMMA WorkAfter ==
  ASSUME NEW L \in [Lines -> Seq(Things)], NEW M \in [Lines -> Seq(Things)],
         NEW new \in [Lines -> Seq(Things)], NEW gone \in [Lines -> {0, 1}],
         BecomeLines(L, M, gone, new),
         NEW C, NEW D \in SUBSET C, \A q, n, b : <<q, n, b>> \notin C,
         NEW from \in [Work(new) -> Released(L, gone) \cup (C \ D)],
         \A x, y \in Work(new) : from[x] = from[y] => x = y
  PROVE  \E f : f \in Injection(Work(M) \cup D, Work(L) \cup C)
<1> DEFINE Kept(q) == Len(L[q]) - gone[q]
           Stays(x) == x[2] =< Kept(x[1])
           Old(x) == <<x[1], x[2] + gone[x[1]], x[3]>>
           New(x) == <<x[1], x[2] - Kept(x[1]), x[3]>>
           f == [x \in Work(M) \cup D |->
                   IF x \in D THEN x ELSE IF Stays(x) THEN Old(x) ELSE from[New(x)]]
           IsAt(x, q, n, b) ==
             /\ x = <<q, n, b>>
             /\ \/ /\ n =< Kept(q) /\ n # 0
                   /\ <<q, n + gone[q], b>> \in Work(L) \ Released(L, gone)
                \/ /\ ~ (n =< Kept(q))
                   /\ <<q, n - Kept(q), b>> \in Work(new)
<1>0. \A line \in Seq(Things) : DOMAIN line = 1 .. Len(line) /\ Len(line) \in Nat
  OBVIOUS
<1>1. ASSUME NEW q \in Lines
      PROVE  /\ Kept(q) \in Nat /\ gone[q] \in {0, 1} /\ Len(L[q]) \in Nat
             /\ DOMAIN L[q] = 1 .. Len(L[q]) /\ DOMAIN new[q] = 1 .. Len(new[q])
             /\ DOMAIN M[q] = 1 .. Kept(q) + Len(new[q]) /\ Len(new[q]) \in Nat
             /\ \A n \in 1 .. Kept(q) : M[q][n] = L[q][n + gone[q]]
             /\ \A k \in 1 .. Len(new[q]) : M[q][Kept(q) + k] = new[q][k]
             /\ Kept(q) = Len(L[q]) - gone[q]
  <2>1. L[q] \in Seq(Things) /\ M[q] \in Seq(Things) /\ new[q] \in Seq(Things)
    OBVIOUS
  <2>2. /\ gone[q] \in {0, 1} /\ gone[q] =< Len(L[q])
        /\ Len(M[q]) = Len(L[q]) - gone[q] + Len(new[q])
        /\ \A n \in 1 .. Kept(q) : M[q][n] = L[q][n + gone[q]]
        /\ \A k \in 1 .. Len(new[q]) : M[q][Kept(q) + k] = new[q][k]
    BY DEF BecomeLines, Follows
  <2>3. /\ DOMAIN L[q] = 1 .. Len(L[q]) /\ DOMAIN new[q] = 1 .. Len(new[q])
        /\ DOMAIN M[q] = 1 .. Len(M[q]) /\ Len(new[q]) \in Nat /\ Len(L[q]) \in Nat
    BY <1>0, <2>1
  <2>4. Kept(q) \in Nat /\ Len(M[q]) = Kept(q) + Len(new[q])
    BY <2>2, <2>3
  <2> QED BY <2>2, <2>3, <2>4
<1> HIDE DEF f, Kept, IsAt
<1>2. ASSUME NEW x \in Work(M) PROVE \E q \in Lines, n \in Nat : \E b : IsAt(x, q, n, b)
  <2>1. PICK q \in Lines : \E n \in DOMAIN M[q] : \E b \in Becoming(M[q][n]) : x = <<q, n, b>>
    BY WorkIs
  <2>2. PICK n \in DOMAIN M[q] : \E b \in Becoming(M[q][n]) : x = <<q, n, b>>
    BY <2>1
  <2>3. PICK b \in Becoming(M[q][n]) : x = <<q, n, b>>
    BY <2>2
  <2>4. n \in Nat /\ n # 0 /\ n \in 1 .. Kept(q) + Len(new[q])
    BY <1>1
  <2>5. CASE n =< Kept(q)
    <3>0. /\ Kept(q) \in Nat /\ gone[q] \in {0, 1} /\ Len(L[q]) \in Nat
          /\ Kept(q) = Len(L[q]) - gone[q]
      BY <1>1
    <3>1. n \in 1 .. Kept(q) /\ n + gone[q] \in 1 .. Len(L[q])
      BY <2>4, <2>5, <3>0
    <3>2. n + gone[q] \in DOMAIN L[q] /\ b \in Becoming(L[q][n + gone[q]])
      <4>1. M[q][n] = L[q][n + gone[q]]
        BY <1>1, <3>1
      <4> QED BY <1>1, <3>1, <4>1
    <3>3. <<q, n + gone[q], b>> \in Work(L)
      BY <3>2, InWork
    <3>4. n + gone[q] # 1 \/ gone[q] # 1
      BY <1>1, <2>4
    <3>5. <<q, n + gone[q], b>> \notin Released(L, gone)
      BY <3>4 DEF Released
    <3> QED BY <2>3, <2>4, <2>5, <3>3, <3>5 DEF IsAt
  <2>6. CASE ~ (n =< Kept(q))
    <3> DEFINE k == n - Kept(q)
    <3>1. k \in 1 .. Len(new[q]) /\ n = Kept(q) + k
      BY <1>1, <2>4, <2>6
    <3> HIDE DEF k
    <3>2. M[q][n] = new[q][k] /\ k \in DOMAIN new[q]
      BY <1>1, <3>1
    <3>3. <<q, k, b>> \in Work(new)
      BY <3>2, InWork
    <3> QED BY <2>3, <2>4, <2>6, <3>3 DEF IsAt, k
  <2> QED BY <2>5, <2>6
<1>3. ASSUME NEW x \in Work(M)
      PROVE  /\ x \notin D
             /\ Stays(x) => f[x] = Old(x) /\ Old(x) \in Work(L) \ Released(L, gone)
             /\ ~ Stays(x) => /\ f[x] = from[New(x)] /\ New(x) \in Work(new)
                              /\ f[x] \in Released(L, gone) \cup (C \ D)
  <2>0. PICK q \in Lines, n \in Nat : \E b : IsAt(x, q, n, b)
    BY <1>2
  <2>1. PICK b : IsAt(x, q, n, b)
    BY <2>0
  <2>2. x[1] = q /\ x[2] = n /\ x[3] = b /\ x \notin D
    BY <2>1 DEF IsAt
  <2>3. Stays(x) => Old(x) \in Work(L) \ Released(L, gone)
    BY <2>1, <2>2 DEF IsAt
  <2>4. ~ Stays(x) => New(x) \in Work(new)
    BY <2>1, <2>2 DEF IsAt
  <2>5. f[x] = IF Stays(x) THEN Old(x) ELSE from[New(x)]
    BY <2>2 DEF f
  <2> HIDE DEF Stays, Old, New
  <2> QED BY <2>2, <2>3, <2>4, <2>5
<1>4. \A x \in D : f[x] = x
  BY DEF f
<1>5. Released(L, gone) \subseteq Work(L) /\ Work(L) \cap C = {}
  <2>1. \A x \in Work(L) : x \notin C
    BY WorkIs
  <2> QED BY <2>1 DEF Released
<1> HIDE DEF Stays, Old, New
<1>6. ASSUME NEW x \in Work(M), NEW y \in Work(M), f[x] = f[y]
      PROVE  x = y
  <2>1. PICK q \in Lines, n \in Nat : \E b : IsAt(x, q, n, b)
    BY <1>2
  <2>2. PICK r \in Lines, m \in Nat : \E a : IsAt(y, r, m, a)
    BY <1>2
  <2>3. PICK b, a : x = <<q, n, b>> /\ y = <<r, m, a>>
    BY <2>1, <2>2 DEF IsAt
  <2>4. CASE Stays(x) /\ Stays(y)
    <3>1. Old(x) = Old(y)
      BY <1>3, <1>6, <2>4
    <3>2. <<q, n + gone[q], b>> = <<r, m + gone[r], a>>
      BY <2>3, <3>1 DEF Old
    <3>3. q = r /\ b = a /\ n + gone[q] = m + gone[q]
      BY <3>2
    <3>4. gone[q] \in {0, 1}
      BY <1>1
    <3>5. n = m
      BY <3>3, <3>4
    <3> QED BY <2>3, <3>3, <3>5
  <2>5. CASE ~ Stays(x) /\ ~ Stays(y)
    <3>1. New(x) = New(y)
      <4>1. from[New(x)] = from[New(y)] /\ New(x) \in Work(new) /\ New(y) \in Work(new)
        BY <1>3, <1>6, <2>5
      <4> QED BY <4>1
    <3>2. <<q, n - Kept(q), b>> = <<r, m - Kept(r), a>>
      BY <2>3, <3>1 DEF New
    <3>3. q = r /\ b = a /\ n - Kept(q) = m - Kept(q)
      BY <3>2
    <3>4. n = m
      BY <1>1, <3>3
    <3> QED BY <2>3, <3>3, <3>4
  <2>6. CASE Stays(x) /\ ~ Stays(y)
    <3>1. f[x] \in Work(L) \ Released(L, gone) /\ f[y] \in Released(L, gone) \cup (C \ D)
      BY <1>3, <2>6
    <3> QED BY <1>5, <1>6, <3>1
  <2>7. CASE ~ Stays(x) /\ Stays(y)
    <3>1. f[y] \in Work(L) \ Released(L, gone) /\ f[x] \in Released(L, gone) \cup (C \ D)
      BY <1>3, <2>7
    <3> QED BY <1>5, <1>6, <3>1
  <2> QED BY <2>4, <2>5, <2>6, <2>7
<1>7. ASSUME NEW x \in Work(M), NEW y \in D PROVE f[x] # f[y]
  BY <1>3, <1>4, <1>5
<1>8. \A x \in Work(M) \cup D : f[x] \in Work(L) \cup C
  BY <1>3, <1>4, <1>5
<1>9. f \in [Work(M) \cup D -> Work(L) \cup C]
  BY <1>8 DEF f
<1>10. \A x, y \in Work(M) \cup D : f[x] = f[y] => x = y
  BY <1>4, <1>6, <1>7
<1>11. f \in Injection(Work(M) \cup D, Work(L) \cup C)
  BY <1>9, <1>10 DEF Injection, IsInjective
<1> QED BY <1>11

\* Lines that stay, lose their first, or get something at their end.
LEMMA FollowingLines ==
  /\ \A a \in Seq(Things) : Follows(a, a, 0, <<>>)
  /\ \A a \in Seq(Things) : a # <<>> => Follows(a, Tail(a), 1, <<>>)
  /\ \A a, e \in Seq(Things) : Follows(a, a \o e, 0, e)
  /\ \A a \in Seq(Things), x \in Things : Follows(a, Append(a, x), 0, <<x>>)
<1>1. ASSUME NEW a \in Seq(Things) PROVE Follows(a, a, 0, <<>>)
  <2>1. Len(a) \in Nat /\ Len(<<>>) = 0
    OBVIOUS
  <2> QED BY <2>1 DEF Follows
<1>2. ASSUME NEW a \in Seq(Things), a # <<>> PROVE Follows(a, Tail(a), 1, <<>>)
  <2>1. /\ Len(a) \in Nat /\ Len(a) # 0 /\ Len(Tail(a)) = Len(a) - 1 /\ Len(<<>>) = 0
        /\ \A n \in 1 .. Len(a) - 1 : Tail(a)[n] = a[n + 1]
    BY <1>2
  <2> QED BY <2>1 DEF Follows
<1>3. ASSUME NEW a \in Seq(Things), NEW e \in Seq(Things) PROVE Follows(a, a \o e, 0, e)
  <2>1. /\ Len(a) \in Nat /\ Len(e) \in Nat /\ Len(a \o e) = Len(a) + Len(e)
        /\ \A n \in 1 .. Len(a) : (a \o e)[n] = a[n]
        /\ \A k \in 1 .. Len(e) : (a \o e)[Len(a) + k] = e[k]
    OBVIOUS
  <2> QED BY <2>1 DEF Follows
<1>4. ASSUME NEW a \in Seq(Things), NEW x \in Things PROVE Follows(a, Append(a, x), 0, <<x>>)
  <2>1. Append(a, x) = a \o <<x>> /\ <<x>> \in Seq(Things)
    OBVIOUS
  <2> QED BY <1>3, <2>1
<1> QED BY <1>1, <1>2, <1>3, <1>4

\* The commands of what a handler or a goroutine has to do.
Commands(list) == [n \in DOMAIN list |-> CommandIn(list[n])]

\* Waiting is no command, and what is sent has one in it.
LEMMA AwaitIsNoCommand ==
  /\ Await \notin Command
  /\ \A s \in Sends : CommandIn(s) = s.cmd /\ s.cmd \in Command
  /\ CommandIn(Await) = Await
  /\ \A s \in Sends \cup {Await} : CommandIn(s) \in Things
<1>1. DOMAIN Await = {"await"} /\ "await" # "kind"
  BY DEF Await
<1>2. \A cmd \in Command : "kind" \in DOMAIN cmd
  BY CommandsAre DEF Scan, For
<1>3. \A s \in Sends : s # Await /\ s.cmd \in Command
  BY AwaitIsNoSend
<1> QED BY <1>1, <1>2, <1>3 DEF CommandIn, Things

\* The commands of a list follow the list: its head, its tail, and what is added.
LEMMA CommandsOf ==
  /\ \A list \in Seq(Sends \cup {Await}) : Commands(list) \in Seq(Things)
  /\ \A list \in Seq(Sends \cup {Await}) :
       /\ Len(Commands(list)) = Len(list)
       /\ list # <<>> => /\ Commands(list) # <<>> /\ Commands(list)[1] = CommandIn(Head(list))
                         /\ Commands(Tail(list)) = Tail(Commands(list))
  /\ \A list, more \in Seq(Sends \cup {Await}) :
       Commands(list \o more) = Commands(list) \o Commands(more)
  /\ Commands(<<>>) = <<>>
<1>1. ASSUME NEW list \in Seq(Sends \cup {Await})
      PROVE  Commands(list) \in Seq(Things) /\ Len(Commands(list)) = Len(list)
  <2>1. DOMAIN list = 1 .. Len(list) /\ Len(list) \in Nat
    OBVIOUS
  <2>2. \A n \in 1 .. Len(list) : CommandIn(list[n]) \in Things
    <3>1. \A n \in 1 .. Len(list) : list[n] \in Sends \cup {Await}
      OBVIOUS
    <3> QED BY <3>1, AwaitIsNoCommand
  <2>3. Commands(list) = [n \in 1 .. Len(list) |-> CommandIn(list[n])]
    BY <2>1 DEF Commands
  <2>4. Commands(list) \in [1 .. Len(list) -> Things]
    BY <2>2, <2>3
  <2> QED BY <2>1, <2>4
<1>2. ASSUME NEW list \in Seq(Sends \cup {Await}), list # <<>>
      PROVE  /\ Commands(list) # <<>> /\ Commands(list)[1] = CommandIn(Head(list))
             /\ Commands(Tail(list)) = Tail(Commands(list))
  <2> DEFINE rest == Tail(list)
             all == Commands(list)
  <2>1. /\ Len(list) \in Nat /\ Len(list) # 0 /\ DOMAIN list = 1 .. Len(list)
        /\ rest \in Seq(Sends \cup {Await}) /\ Len(rest) = Len(list) - 1
        /\ Head(list) = list[1] /\ \A n \in 1 .. Len(list) - 1 : rest[n] = list[n + 1]
    BY <1>2
  <2>2. /\ all \in Seq(Things) /\ Len(all) = Len(list)
        /\ Commands(rest) \in Seq(Things) /\ Len(Commands(rest)) = Len(list) - 1
    BY <1>1, <2>1
  <2>3. /\ \A n \in 1 .. Len(list) : all[n] = CommandIn(list[n])
        /\ \A n \in 1 .. Len(list) - 1 : Commands(rest)[n] = CommandIn(rest[n])
    <3>1. DOMAIN rest = 1 .. Len(list) - 1
      BY <2>1
    <3> QED BY <2>1, <3>1 DEF Commands
  <2> HIDE DEF rest, all
  <2>4. /\ all # <<>> /\ Len(Tail(all)) = Len(list) - 1 /\ Tail(all) \in Seq(Things)
        /\ \A n \in 1 .. Len(list) - 1 : Tail(all)[n] = all[n + 1]
    BY <2>1, <2>2
  <2>5. \A n \in 1 .. Len(list) - 1 : Commands(rest)[n] = Tail(all)[n]
    BY <2>1, <2>3, <2>4
  <2>6. \A a, b \in Seq(Things) :
          Len(a) = Len(b) /\ (\A n \in 1 .. Len(a) : a[n] = b[n]) => a = b
    OBVIOUS
  <2>7. Commands(rest) = Tail(all)
    BY <2>2, <2>4, <2>5, <2>6
  <2> QED BY <2>1, <2>3, <2>4, <2>7 DEF rest, all
<1>3. ASSUME NEW list \in Seq(Sends \cup {Await}), NEW more \in Seq(Sends \cup {Await})
      PROVE  Commands(list \o more) = Commands(list) \o Commands(more)
  <2> DEFINE both == list \o more
             k == Len(list)
  <2>1. /\ both \in Seq(Sends \cup {Await}) /\ Len(both) = k + Len(more)
        /\ k \in Nat /\ Len(more) \in Nat
        /\ DOMAIN list = 1 .. k /\ DOMAIN more = 1 .. Len(more) /\ DOMAIN both = 1 .. k + Len(more)
        /\ \A n \in 1 .. k : both[n] = list[n]
        /\ \A n \in 1 .. Len(more) : both[k + n] = more[n]
    OBVIOUS
  <2>2. /\ \A n \in 1 .. k + Len(more) : Commands(both)[n] = CommandIn(both[n])
        /\ \A n \in 1 .. k : Commands(list)[n] = CommandIn(list[n])
        /\ \A n \in 1 .. Len(more) : Commands(more)[n] = CommandIn(more[n])
    BY <2>1 DEF Commands
  <2>3. /\ Commands(both) \in Seq(Things) /\ Len(Commands(both)) = k + Len(more)
        /\ Commands(list) \in Seq(Things) /\ Len(Commands(list)) = k
        /\ Commands(more) \in Seq(Things) /\ Len(Commands(more)) = Len(more)
    BY <1>1, <2>1
  <2> HIDE DEF both, k
  <2>4. \A a, b \in Seq(Things) :
          /\ a \o b \in Seq(Things) /\ Len(a \o b) = Len(a) + Len(b)
          /\ \A n \in 1 .. Len(a) : (a \o b)[n] = a[n]
          /\ \A n \in 1 .. Len(b) : (a \o b)[Len(a) + n] = b[n]
    OBVIOUS
  <2> DEFINE cat == Commands(list) \o Commands(more)
  <2>5. /\ cat \in Seq(Things) /\ Len(cat) = k + Len(more)
        /\ \A n \in 1 .. k : cat[n] = Commands(list)[n]
        /\ \A n \in 1 .. Len(more) : cat[k + n] = Commands(more)[n]
    BY <2>3, <2>4
  <2> HIDE DEF cat
  <2>6. ASSUME NEW n \in 1 .. k + Len(more) PROVE Commands(both)[n] = cat[n]
    <3>1. CASE n \in 1 .. k
      BY <2>1, <2>2, <2>5, <3>1
    <3>2. CASE n \notin 1 .. k
      <4> DEFINE m == n - k
      <4>1. m \in 1 .. Len(more) /\ n = k + m
        BY <2>1, <3>2
      <4> HIDE DEF m
      <4> QED BY <2>1, <2>2, <2>5, <4>1
    <3> QED BY <3>1, <3>2
  <2>7. \A a, b \in Seq(Things) :
          Len(a) = Len(b) /\ (\A n \in 1 .. Len(a) : a[n] = b[n]) => a = b
    BY SMTT(30)
  <2>8. Commands(both) = cat
    BY <2>3, <2>5, <2>6, <2>7
  <2> QED BY <2>8 DEF both, cat
<1>4. Commands(<<>>) = <<>>
  <2>1. DOMAIN <<>> = {} /\ <<>> \in Seq(Sends \cup {Await})
    OBVIOUS
  <2>2. Commands(<<>>) \in Seq(Things) /\ Len(Commands(<<>>)) = 0
    BY <1>1, <2>1
  <2> QED BY <2>2
<1> QED BY <1>1, <1>2, <1>3, <1>4

\* The lines of some channels, handlers and goroutines.
LineOf(chans, sends, todos) ==
  [q \in Lines |-> CASE q[1] = "channel" -> chans[q[2]]
                     [] q[1] = "handler" -> Commands(sends[q[2]])
                     [] q[1] = "routine" -> Commands(todos[q[2]])]

\* The lines are the channels, what handlers have to send, and what goroutines have to do.
LEMMA LinesAre ==
  /\ Line = LineOf(chan, sending, routine)
  /\ \A t \in Tracks : /\ <<"channel", t>> \in Lines /\ Line[<<"channel", t>>] = chan[t]
                       /\ <<"handler", t>> \in Lines
                       /\ Line[<<"handler", t>>] = Commands(sending[t])
  /\ \A r \in Routines : /\ <<"routine", r>> \in Lines
                         /\ Line[<<"routine", r>>] = Commands(routine[r])
  /\ \A q \in Lines : \/ \E t \in Tracks : q \in {<<"channel", t>>, <<"handler", t>>}
                      \/ \E r \in Routines : q = <<"routine", r>>
<1>1. Line = LineOf(chan, sending, routine)
  BY DEF Line, LineOf, Commands
<1>2. \A q \in Lines : \/ \E t \in Tracks : q \in {<<"channel", t>>, <<"handler", t>>}
                       \/ \E r \in Routines : q = <<"routine", r>>
  BY DEF Lines
<1>3. /\ \A t \in Tracks : <<"channel", t>> \in Lines /\ <<"handler", t>> \in Lines
      /\ \A r \in Routines : <<"routine", r>> \in Lines
  BY DEF Lines
<1>4. /\ \A t \in Tracks : /\ Line[<<"channel", t>>] = chan[t]
                           /\ Line[<<"handler", t>>] = Commands(sending[t])
      /\ \A r \in Routines : Line[<<"routine", r>>] = Commands(routine[r])
  BY <1>1, <1>3 DEF LineOf
<1> QED BY <1>1, <1>2, <1>3, <1>4

\* The same after a step.
LEMMA LinesAfter ==
  /\ \A t \in Tracks : /\ Line'[<<"channel", t>>] = chan'[t]
                       /\ Line'[<<"handler", t>>] = Commands(sending'[t])
  /\ \A r \in Routines : Line'[<<"routine", r>>] = Commands(routine'[r])
<1>1. Line' = LineOf(chan', sending', routine')
  BY DEF Line, LineOf, Commands
<1>2. /\ \A t \in Tracks : <<"channel", t>> \in Lines /\ <<"handler", t>> \in Lines
      /\ \A r \in Routines : <<"routine", r>> \in Lines
  BY DEF Lines
<1> QED BY <1>1, <1>2 DEF LineOf

\* A line changes only with its channel, handler or goroutine.
LEMMA LinesKept ==
  /\ \A t \in Tracks :
       /\ chan'[t] = chan[t] => Line'[<<"channel", t>>] = Line[<<"channel", t>>]
       /\ sending'[t] = sending[t] => Line'[<<"handler", t>>] = Line[<<"handler", t>>]
  /\ \A r \in Routines :
       routine'[r] = routine[r] => Line'[<<"routine", r>>] = Line[<<"routine", r>>]
<1>1. ASSUME NEW t \in Tracks
      PROVE  /\ chan'[t] = chan[t] => Line'[<<"channel", t>>] = Line[<<"channel", t>>]
             /\ sending'[t] = sending[t] => Line'[<<"handler", t>>] = Line[<<"handler", t>>]
  <2>1. /\ Line[<<"channel", t>>] = chan[t] /\ Line[<<"handler", t>>] = Commands(sending[t])
    BY LinesAre
  <2>2. /\ Line'[<<"channel", t>>] = chan'[t] /\ Line'[<<"handler", t>>] = Commands(sending'[t])
    BY LinesAfter
  <2> QED BY <2>1, <2>2
<1>2. ASSUME NEW r \in Routines
      PROVE  routine'[r] = routine[r] => Line'[<<"routine", r>>] = Line[<<"routine", r>>]
  <2>1. Line[<<"routine", r>>] = Commands(routine[r])
    BY LinesAre
  <2>2. Line'[<<"routine", r>>] = Commands(routine'[r])
    BY LinesAfter
  <2> QED BY <2>1, <2>2
<1> QED BY <1>1, <1>2

\* All lines but some.
LEMMA OtherLines ==
  ASSUME NEW some,
         \A t \in Tracks : <<"channel", t>> \notin some =>
                             Line'[<<"channel", t>>] = Line[<<"channel", t>>],
         \A t \in Tracks : <<"handler", t>> \notin some =>
                             Line'[<<"handler", t>>] = Line[<<"handler", t>>],
         \A r \in Routines : <<"routine", r>> \notin some =>
                               Line'[<<"routine", r>>] = Line[<<"routine", r>>]
  PROVE  \A q \in Lines \ some : Line'[q] = Line[q]
<1>1. \A q \in Lines : \/ \E t \in Tracks : q \in {<<"channel", t>>, <<"handler", t>>}
                       \/ \E r \in Routines : q = <<"routine", r>>
  BY LinesAre
<1> QED BY <1>1

\* Lines are sequences of commands and waiting.
LEMMA LineTypes ==
  /\ TypeOK => Line \in [Lines -> Seq(Things)]
  /\ TypeOK' => Line' \in [Lines -> Seq(Things)]
<1>1. ASSUME NEW list \in Seq(Sends) PROVE list \in Seq(Sends \cup {Await})
  OBVIOUS
<1>2. Seq(Command) \subseteq Seq(Things)
  BY DEF Things
<1>3. ASSUME TypeOK, NEW q \in Lines PROVE Line[q] \in Seq(Things)
  <2>1. ASSUME NEW t \in Tracks, q = <<"channel", t>> PROVE Line[q] \in Seq(Things)
    BY <1>2, <1>3, <2>1, LinesAre DEF TypeOK
  <2>2. ASSUME NEW t \in Tracks, q = <<"handler", t>> PROVE Line[q] \in Seq(Things)
    <3>1. sending[t] \in Seq(Sends \cup {Await})
      BY <1>1, <1>3 DEF TypeOK
    <3> QED BY <2>2, <3>1, LinesAre, CommandsOf
  <2>3. ASSUME NEW r \in Routines, q = <<"routine", r>> PROVE Line[q] \in Seq(Things)
    <3>1. routine[r] \in Seq(Sends \cup {Await})
      BY <1>3 DEF TypeOK
    <3> QED BY <2>3, <3>1, LinesAre, CommandsOf
  <2> QED BY <2>1, <2>2, <2>3, LinesAre
<1>4. ASSUME TypeOK', NEW q \in Lines PROVE Line'[q] \in Seq(Things)
  <2>1. ASSUME NEW t \in Tracks, q = <<"channel", t>> PROVE Line'[q] \in Seq(Things)
    BY <1>2, <1>4, <2>1, LinesAfter DEF TypeOK
  <2>2. ASSUME NEW t \in Tracks, q = <<"handler", t>> PROVE Line'[q] \in Seq(Things)
    <3>1. sending'[t] \in Seq(Sends \cup {Await})
      BY <1>1, <1>4 DEF TypeOK
    <3> QED BY <2>2, <3>1, LinesAfter, CommandsOf
  <2>3. ASSUME NEW r \in Routines, q = <<"routine", r>> PROVE Line'[q] \in Seq(Things)
    <3>1. routine'[r] \in Seq(Sends \cup {Await})
      BY <1>4 DEF TypeOK
    <3> QED BY <2>3, <3>1, LinesAfter, CommandsOf
  <2> QED BY <2>1, <2>2, <2>3, LinesAre
<1>5. Line = [q \in Lines |-> Line[q]] /\ Line' = [q \in Lines |-> Line'[q]]
  <2>1. ASSUME NEW a, NEW b, NEW c
        PROVE  LineOf(a, b, c) = [q \in Lines |-> LineOf(a, b, c)[q]]
    <3> DEFINE E(q) == CASE q[1] = "channel" -> a[q[2]]
                         [] q[1] = "handler" -> Commands(b[q[2]])
                         [] q[1] = "routine" -> Commands(c[q[2]])
    <3>1. LineOf(a, b, c) = [q \in Lines |-> E(q)]
      BY DEF LineOf
    <3> HIDE DEF E
    <3> QED BY <3>1
  <2>2. Line = LineOf(chan, sending, routine) /\ Line' = LineOf(chan', sending', routine')
    BY DEF Line, LineOf, Commands
  <2> HIDE DEF Line
  <2> QED BY <2>1, <2>2
<1> QED BY <1>3, <1>4, <1>5

\* What commands become.
Itself == <<"itself", 0>>
Outcomes == {Itself} \cup (Scans \X TCE)

\* What each kind of command may become.
LEMMA BecomingIs ==
  /\ Becoming(Await) = {}
  /\ \A cmd \in Command : Answered(cmd) => Becoming(cmd) = {}
  /\ \A cmd \in Command :
       ~ Answered(cmd) => Becoming(cmd) = {Itself} \cup (Following(cmd.kind) \X TCE)
  /\ \A kind \in PlainKinds, c \in TCE : Becoming(For(kind, c)) = {Itself}
  /\ \A x \in Things : Becoming(x) \subseteq Outcomes
  /\ \A kind : Following(kind) \subseteq Scans
<1>1. Becoming(Await) = {} /\ \A cmd \in Command : Answered(cmd) => Becoming(cmd) = {}
  BY DEF Becoming, Answered
<1>2. \A cmd \in Command :
        ~ Answered(cmd) => Becoming(cmd) = {Itself} \cup (Following(cmd.kind) \X TCE)
  BY AwaitIsNoCommand DEF Becoming, Answered, Itself
<1>3. \A kind : Following(kind) \subseteq Scans
  BY DEF Following, Scans
<1>4. ASSUME NEW kind \in PlainKinds, NEW c \in TCE PROVE Becoming(For(kind, c)) = {Itself}
  <2>1. For(kind, c) \in Command /\ For(kind, c).kind = kind
    BY CommandsAre DEF PlainKinds
  <2>2. Following(kind) = {} /\ kind # "UpdateAndReply"
    BY DEF Following, PlainKinds, TceKinds
  <2>3. ~ Answered(For(kind, c))
    BY <2>1, <2>2 DEF Answered
  <2>4. {} \X TCE = {}
    OBVIOUS
  <2> QED BY <1>2, <2>1, <2>2, <2>3, <2>4
<1>5. ASSUME NEW x \in Things PROVE Becoming(x) \subseteq Outcomes
  <2>1. CASE x = Await \/ (x \in Command /\ Answered(x))
    BY <1>1, <2>1
  <2>2. CASE x \in Command /\ ~ Answered(x)
    <3>1. Becoming(x) = {Itself} \cup (Following(x.kind) \X TCE) /\ Following(x.kind) \subseteq Scans
      BY <1>2, <1>3, <2>2
    <3> QED BY <3>1 DEF Outcomes
  <2> QED BY <2>1, <2>2 DEF Things
<1> QED BY <1>1, <1>2, <1>3, <1>4, <1>5

\* The invariant.
WorkInv ==
  /\ IsFiniteSet(Work(Line) \cup StillToCome)
  /\ WorkIsBounded

\* No call comes that need not come any more.
LEMMA CallsToCome ==
  ASSUME TypeOK, Next
  PROVE  called \subseteq called' => StillToCome' \subseteq StillToCome
<1>1. At("unknown")' \subseteq At("unknown")
  <2>1. \A c \in TCE : stage'[c] = "unknown" => stage[c] = "unknown"
    BY StageAfter
  <2> QED BY <2>1 DEF At
<1> QED BY <1>1 DEF StillToCome

\* What is the first of these lines, or a call that need not come any more.
Sources(firsts) ==
  {x \in Work(Line) : x[2] = 1 /\ x[1] \in firsts} \cup (StillToCome \ StillToCome')

\* What is added comes from what is taken, each piece of work from another.
Accounts(h, added, sources) ==
  \A k \in DOMAIN added : \A b \in Becoming(added[k]) :
    /\ h[<<k, b>>] \in sources
    /\ \A j \in DOMAIN added : \A a \in Becoming(added[j]) :
         h[<<k, b>>] = h[<<j, a>>] => k = j /\ b = a

\* Some lines lose their first command, and one line gets more.
Adds(firsts, x, added) ==
  \A q \in Lines : Follows(Line[q], Line'[q], IF q \in firsts THEN 1 ELSE 0,
                           IF q = x THEN added ELSE <<>>)

\* A step that takes the first of some lines and adds something to one line: when what
\* is added is no more work than what is taken, there is not more to do than before.
LEMMA WorkStays ==
  ASSUME TypeOK, TypeOK', WorkInv, StillToCome' \subseteq StillToCome,
         NEW firsts \in SUBSET Lines, NEW x \in Lines, NEW added \in Seq(Things),
         Adds(firsts, x, added), NEW h, Accounts(h, added, Sources(firsts))
  PROVE  WorkInv'
<1> DEFINE gone == [q \in Lines |-> IF q \in firsts THEN 1 ELSE 0]
           new == [q \in Lines |-> IF q = x THEN added ELSE <<>>]
           from == [y \in Work(new) |-> h[<<y[2], y[3]>>]]
<1>1. Line \in [Lines -> Seq(Things)] /\ Line' \in [Lines -> Seq(Things)]
  BY LineTypes
<1>2. gone \in [Lines -> {0, 1}] /\ new \in [Lines -> Seq(Things)]
  <2>1. <<>> \in Seq(Things)
    OBVIOUS
  <2> QED BY <2>1
<1>3. BecomeLines(Line, Line', gone, new)
  BY DEF BecomeLines, Adds
<1>4. ASSUME NEW y \in Work(new)
      PROVE  \E k \in DOMAIN added : \E b \in Becoming(added[k]) : y = <<x, k, b>>
  <2>1. PICK q \in Lines : \E n \in DOMAIN new[q] : \E b \in Becoming(new[q][n]) : y = <<q, n, b>>
    BY WorkIs
  <2>2. DOMAIN <<>> = {}
    OBVIOUS
  <2>3. q = x
    BY <2>1, <2>2
  <2> QED BY <2>1, <2>3
<1>5. \A y \in Work(Line) : y[1] \in Lines
  BY WorkIs
<1>6. Released(Line, gone) = {y \in Work(Line) : y[2] = 1 /\ y[1] \in firsts}
  BY <1>5 DEF Released
<1>7. ASSUME NEW y \in Work(new) PROVE from[y] \in Sources(firsts)
  <2>1. PICK k \in DOMAIN added : \E b \in Becoming(added[k]) : y = <<x, k, b>>
    BY <1>4
  <2>2. PICK b \in Becoming(added[k]) : y = <<x, k, b>>
    BY <2>1
  <2>3. from[y] = h[<<k, b>>]
    BY <2>2
  <2> HIDE DEF from, new
  <2> QED BY <2>3 DEF Accounts
<1>8. ASSUME NEW y \in Work(new), NEW z \in Work(new), from[y] = from[z] PROVE y = z
  <2>1. PICK k \in DOMAIN added : \E b \in Becoming(added[k]) : y = <<x, k, b>>
    BY <1>4
  <2>2. PICK b \in Becoming(added[k]) : y = <<x, k, b>>
    BY <2>1
  <2>3. PICK j \in DOMAIN added : \E a \in Becoming(added[j]) : z = <<x, j, a>>
    BY <1>4
  <2>4. PICK a \in Becoming(added[j]) : z = <<x, j, a>>
    BY <2>3
  <2>5. h[<<k, b>>] = h[<<j, a>>]
    BY <1>8, <2>2, <2>4
  <2> HIDE DEF from, new
  <2>6. k = j /\ b = a
    BY <2>5 DEF Accounts
  <2> QED BY <2>2, <2>4, <2>6
<1> HIDE DEF gone, new
<1>9. from \in [Work(new) -> Released(Line, gone) \cup (StillToCome \ StillToCome')]
  BY <1>6, <1>7 DEF Sources
<1>10. \A q, n, b : <<q, n, b>> \notin StillToCome
  <2>1. StillToCome \subseteq Names \X TCE
    BY DEF StillToCome, At, Names
  <2>2. \A q, n, b : <<q, n, b>> \notin Names \X TCE
    OBVIOUS
  <2> QED BY <2>1, <2>2
<1> HIDE DEF from
<1>11. \E f : f \in Injection(Work(Line') \cup StillToCome', Work(Line) \cup StillToCome)
  BY <1>1, <1>2, <1>3, <1>8, <1>9, <1>10, WorkAfter
<1>12. PICK f : f \in Injection(Work(Line') \cup StillToCome', Work(Line) \cup StillToCome)
  BY <1>11
<1>13. IsFiniteSet(Work(Line) \cup StillToCome)
  BY DEF WorkInv
<1>14. /\ IsFiniteSet(Work(Line') \cup StillToCome')
       /\ Cardinality(Work(Line') \cup StillToCome') =< Cardinality(Work(Line) \cup StillToCome)
  BY <1>12, <1>13, FS_Injection
<1>15. /\ Cardinality(Work(Line') \cup StillToCome') \in Nat
       /\ Cardinality(Work(Line) \cup StillToCome) \in Nat /\ Cardinality(TCE) \in Nat
  BY <1>13, <1>14, ConstantsAssumption, FS_CardinalityType
<1>16. (Work(Line) \cup StillToCome)' = Work(Line') \cup StillToCome'
  BY DEF Work
<1> QED BY <1>14, <1>15, <1>16 DEF WorkInv, WorkIsBounded

\* A handler or a goroutine puts its next command on a channel.
LEMMA WorkAfterPut ==
  ASSUME TypeOK, TypeOK', WorkInv, Next, called' = called,
         NEW p \in Lines, NEW x \in Lines, p # x, NEW cmd \in Command,
         Line[p] # <<>>, Line[p][1] = cmd, Line'[p] = Tail(Line[p]),
         Line'[x] = Append(Line[x], cmd), \A q \in Lines \ {p, x} : Line'[q] = Line[q]
  PROVE  WorkInv'
<1> DEFINE added == <<cmd>>
           h == [y \in {1} \X Outcomes |-> <<p, 1, y[2]>>]
<1>1. StillToCome' \subseteq StillToCome
  BY CallsToCome
<1>2. cmd \in Things /\ added \in Seq(Things) /\ DOMAIN added = {1} /\ added[1] = cmd
  BY DEF Things
<1>3. \A q \in Lines : Line[q] \in Seq(Things)
  BY LineTypes
<1>4. Adds({p}, x, added)
  <2>1. Follows(Line[p], Line'[p], 1, <<>>)
    BY <1>3, FollowingLines
  <2>2. Follows(Line[x], Line'[x], 0, added)
    BY <1>2, <1>3, FollowingLines
  <2>3. \A q \in Lines \ {p, x} : Follows(Line[q], Line'[q], 0, <<>>)
    BY <1>3, FollowingLines
  <2> HIDE DEF added
  <2> QED BY <2>1, <2>2, <2>3 DEF Adds
<1>5. Becoming(cmd) \subseteq Outcomes
  BY <1>2, BecomingIs
<1>6. ASSUME NEW b \in Becoming(cmd)
      PROVE  h[<<1, b>>] = <<p, 1, b>> /\ <<p, 1, b>> \in Sources({p})
  <2>1. h[<<1, b>>] = <<p, 1, b>>
    BY <1>5
  <2>2. 1 \in DOMAIN Line[p]
    <3>1. \A list \in Seq(Things) : list # <<>> => 1 \in DOMAIN list
      OBVIOUS
    <3> QED BY <1>3, <3>1
  <2>3. <<p, 1, b>> \in Work(Line)
    BY <2>2, InWork
  <2> QED BY <2>1, <2>3 DEF Sources
<1> HIDE DEF h, added
<1>7. Accounts(h, added, Sources({p}))
  <2>1. ASSUME NEW k \in DOMAIN added, NEW b \in Becoming(added[k])
        PROVE  k = 1 /\ h[<<k, b>>] = <<p, 1, b>> /\ h[<<k, b>>] \in Sources({p})
    BY <1>2, <1>6
  <2>2. ASSUME NEW k \in DOMAIN added, NEW b \in Becoming(added[k]),
               NEW j \in DOMAIN added, NEW a \in Becoming(added[j]),
               h[<<k, b>>] = h[<<j, a>>]
        PROVE  k = j /\ b = a
    <3>1. k = 1 /\ j = 1 /\ <<p, 1, b>> = <<p, 1, a>>
      BY <2>1, <2>2
    <3> QED BY <3>1
  <2> QED BY <2>1, <2>2 DEF Accounts
<1> QED BY <1>1, <1>2, <1>4, <1>7, WorkStays

\* No two pieces of work come from the same.
LEMMA AccountsApart ==
  ASSUME NEW h, NEW added, NEW sources, Accounts(h, added, sources)
  PROVE  \A k \in DOMAIN added : \A b \in Becoming(added[k]) :
           \A i \in DOMAIN added : \A d \in Becoming(added[i]) :
             h[<<k, b>>] = h[<<i, d>>] => k = i /\ b = d
BY Zenon DEF Accounts

\* A reader takes a command, and something is added to another line.
LEMMA WorkAfterTake ==
  ASSUME TypeOK, TypeOK', WorkInv, Next, called' = called, NEW t \in Tracks,
         NEW x \in Lines, x # <<"channel", t>>, NEW added \in Seq(Things),
         chan[t] # <<>>, Line'[<<"channel", t>>] = Tail(chan[t]),
         Line'[x] = Line[x] \o added,
         \A q \in Lines \ {<<"channel", t>>, x} : Line'[q] = Line[q],
         NEW h, Accounts(h, added, Becoming(Head(chan[t])))
  PROVE  WorkInv'
<1> DEFINE p == <<"channel", t>>
           g == [y \in (DOMAIN added) \X Outcomes |-> <<p, 1, h[y]>>]
<1>0. \A k \in DOMAIN added : \A b \in Becoming(added[k]) :
        \A i \in DOMAIN added : \A d \in Becoming(added[i]) :
          h[<<k, b>>] = h[<<i, d>>] => k = i /\ b = d
  BY AccountsApart
<1>1. StillToCome' \subseteq StillToCome
  BY CallsToCome
<1>2. \A q \in Lines : Line[q] \in Seq(Things)
  BY LineTypes
<1>3. p \in Lines /\ Line[p] = chan[t]
  BY LinesAre
<1>4. Adds({p}, x, added)
  <2>1. Follows(Line[p], Line'[p], 1, <<>>)
    BY <1>2, <1>3, FollowingLines
  <2>2. Follows(Line[x], Line'[x], 0, added)
    BY <1>2, FollowingLines
  <2>3. \A q \in Lines \ {p, x} : Follows(Line[q], Line'[q], 0, <<>>)
    BY <1>2, FollowingLines
  <2> HIDE DEF p
  <2> QED BY <2>1, <2>2, <2>3 DEF p, Adds
<1>5. 1 \in DOMAIN chan[t] /\ chan[t][1] = Head(chan[t])
  <2>1. \A list \in Seq(Command) : list # <<>> => 1 \in DOMAIN list /\ Head(list) = list[1]
    OBVIOUS
  <2> QED BY <2>1 DEF TypeOK
<1>6. ASSUME NEW k \in DOMAIN added, NEW b \in Becoming(added[k])
      PROVE  g[<<k, b>>] = <<p, 1, h[<<k, b>>]>> /\ g[<<k, b>>] \in Sources({p})
  <2>1. added[k] \in Things
    OBVIOUS
  <2>2. b \in Outcomes
    BY <2>1, BecomingIs
  <2>3. g[<<k, b>>] = <<p, 1, h[<<k, b>>]>>
    BY <2>2
  <2>4. h[<<k, b>>] \in Becoming(Line[p][1])
    BY <1>3, <1>5 DEF Accounts
  <2> HIDE DEF g, p
  <2>5. <<p, 1, h[<<k, b>>]>> \in Work(Line)
    <3>1. 1 \in DOMAIN Line[p]
      BY <1>3, <1>5
    <3> QED BY <1>3, <2>4, <3>1, InWork
  <2> QED BY <2>3, <2>5 DEF Sources
<1> HIDE DEF g, p
<1>7. ASSUME NEW k \in DOMAIN added, NEW b \in Becoming(added[k]),
             NEW j \in DOMAIN added, NEW a \in Becoming(added[j]),
             g[<<k, b>>] = g[<<j, a>>]
      PROVE  k = j /\ b = a
  <2>1. <<p, 1, h[<<k, b>>]>> = <<p, 1, h[<<j, a>>]>>
    BY <1>6, <1>7
  <2>2. h[<<k, b>>] = h[<<j, a>>]
    BY <2>1
  <2>3. \A i \in DOMAIN added : \A d \in Becoming(added[i]) :
          h[<<k, b>>] = h[<<i, d>>] => k = i /\ b = d
    BY <1>0
  <2> QED BY <2>2, <2>3
<1>8. {p} \in SUBSET Lines /\ Accounts(g, added, Sources({p}))
  BY <1>3, <1>6, <1>7 DEF Accounts
<1> QED BY <1>1, <1>4, <1>8, WorkStays

\* What a goroutine begins with is one command's work.
LEMMA TodoWork ==
  ASSUME NEW name \in Names, NEW c \in TCE, NEW todo \in Seq(Sends \cup {Await}),
         Todo(name, c, todo)
  PROVE  \E m : \A k \in DOMAIN Commands(todo) : \A b \in Becoming(Commands(todo)[k]) :
           k = m /\ b = Itself
<1>1. ASSUME NEW track \in Tracks, NEW kind \in PlainKinds, todo = <<Send(track, For(kind, c))>>
      PROVE  \A k \in DOMAIN Commands(todo) : \A b \in Becoming(Commands(todo)[k]) :
               k = 1 /\ b = Itself
  <2> DEFINE s == Send(track, For(kind, c))
  <2>1. s \in Sends /\ s.cmd = For(kind, c)
    BY CommandsAre, AwaitIsNoSend DEF PlainKinds
  <2> HIDE DEF s
  <2>2. DOMAIN todo = {1} /\ todo[1] = s
    BY <1>1 DEF s
  <2>3. DOMAIN Commands(todo) = {1} /\ Commands(todo)[1] = For(kind, c)
    BY <2>1, <2>2, AwaitIsNoCommand DEF Commands
  <2> QED BY <2>3, BecomingIs
<1>2. ASSUME todo = ToldAfterResult(c)
      PROVE  \A k \in DOMAIN Commands(todo) : \A b \in Becoming(Commands(todo)[k]) :
               k = 3 /\ b = Itself
  <2> DEFINE first == Send(TrackOfTie[c], For("UpdateAndReply", c))
             last == Send(TrackOfTie[c], For("CheckWaitingToBeSent", c))
  <2>1. /\ first \in Sends /\ first.cmd = For("UpdateAndReply", c)
        /\ last \in Sends /\ last.cmd = For("CheckWaitingToBeSent", c)
    <3>1. TrackOfTie[c] \in Tracks
      BY ConstantsAssumption
    <3>2. For("UpdateAndReply", c) \in Command /\ For("CheckWaitingToBeSent", c) \in Command
      BY CommandsAre DEF TceKinds
    <3> QED BY <3>1, <3>2, AwaitIsNoSend
  <2>2. todo = <<first, Await, last>>
    BY <1>2 DEF ToldAfterResult
  <2> HIDE DEF first, last
  <2>3. DOMAIN todo = 1 .. 3 /\ todo[1] = first /\ todo[2] = Await /\ todo[3] = last
    BY <2>2
  <2>4. /\ DOMAIN Commands(todo) = {1, 2, 3}
        /\ Commands(todo)[1] = For("UpdateAndReply", c) /\ Commands(todo)[2] = Await
        /\ Commands(todo)[3] = For("CheckWaitingToBeSent", c)
    BY <2>1, <2>3, AwaitIsNoCommand DEF Commands
  <2>5. /\ Becoming(For("UpdateAndReply", c)) = {} /\ Becoming(Await) = {}
        /\ Becoming(For("CheckWaitingToBeSent", c)) = {Itself}
    <3>1. For("UpdateAndReply", c) \in Command /\ Answered(For("UpdateAndReply", c))
      BY CommandsAre DEF Answered, TceKinds
    <3>2. "CheckWaitingToBeSent" \in PlainKinds
      BY DEF PlainKinds, TceKinds
    <3> QED BY <3>1, <3>2, BecomingIs
  <2> QED BY <2>4, <2>5
<1> QED BY <1>1, <1>2 DEF Todo

\* One piece of work comes from any one.
LEMMA OneAccounts ==
  ASSUME NEW added, NEW source, NEW v \in source,
         NEW m, \A k \in DOMAIN added : \A b \in Becoming(added[k]) : k = m /\ b = Itself
  PROVE  Accounts([y \in (DOMAIN added) \X {Itself} |-> v], added, source)
<1> DEFINE h == [y \in (DOMAIN added) \X {Itself} |-> v]
<1>1. ASSUME NEW k \in DOMAIN added, NEW b \in Becoming(added[k]) PROVE h[<<k, b>>] = v
  OBVIOUS
<1>2. ASSUME NEW k \in DOMAIN added, NEW b \in Becoming(added[k]),
             NEW j \in DOMAIN added, NEW a \in Becoming(added[j])
      PROVE  k = j /\ b = a
  OBVIOUS
<1> HIDE DEF h
<1>3. Accounts(h, added, source)
  BY <1>1, <1>2 DEF Accounts
<1> QED BY <1>3 DEF h

\* The work of a scan is that of what it finds and of the scans that follow it.
LEMMA ScanAccounts ==
  ASSUME NEW cmd \in Command, ~ Answered(cmd), NEW sends \in Seq(Sends), OfScan(cmd, sends)
  PROVE  \E h : Accounts(h, Commands(sends), Becoming(cmd))
<1>1. PICK rows \in Seq(TCE), kind \in PlainKinds :
        /\ \A n, k \in DOMAIN rows : rows[n] = rows[k] => n = k
        /\ cmd.kind \in Scans /\ cmd.kind \in Following(cmd.kind)
        /\ Len(sends) \in {Len(rows), Len(rows) + 1}
        /\ \A n \in DOMAIN rows : sends[n].cmd = For(kind, rows[n])
        /\ Len(sends) = Len(rows) + 1 =>
             \E next \in Scans : /\ sends[Len(rows) + 1].cmd = Scan(next)
                                 /\ Following(next) \subseteq Following(cmd.kind) \ {cmd.kind}
  BY DEF OfScan
<1> DEFINE added == Commands(sends)
           N == Len(rows)
           h == [y \in (DOMAIN added) \X Outcomes |->
                   IF y[1] \in DOMAIN rows THEN <<cmd.kind, rows[y[1]]>> ELSE y[2]]
<1>2. /\ DOMAIN rows = 1 .. N /\ N \in Nat /\ DOMAIN sends = 1 .. Len(sends)
      /\ \A n \in DOMAIN rows : rows[n] \in TCE
      /\ DOMAIN added = DOMAIN sends /\ \A n \in DOMAIN sends : added[n] = sends[n].cmd
  <2>1. \A n \in DOMAIN sends : sends[n] \in Sends /\ CommandIn(sends[n]) = sends[n].cmd
    BY AwaitIsNoCommand
  <2> QED BY <2>1 DEF Commands
<1>3. Becoming(cmd) = {Itself} \cup (Following(cmd.kind) \X TCE)
  BY BecomingIs
<1> HIDE DEF added, N
<1>4. ASSUME NEW k \in DOMAIN added, NEW b \in Becoming(added[k])
      PROVE  /\ k \in DOMAIN rows => b = Itself
             /\ k \notin DOMAIN rows =>
                  /\ k = N + 1
                  /\ b = Itself \/ b \in (Following(cmd.kind) \ {cmd.kind}) \X TCE
             /\ b \in Outcomes
  <2>1. CASE k \in DOMAIN rows
    <3>1. added[k] = For(kind, rows[k]) /\ rows[k] \in TCE
      BY <1>1, <1>2, <2>1
    <3> QED BY <2>1, <3>1, BecomingIs DEF Outcomes
  <2>2. CASE k \notin DOMAIN rows
    <3>0. Len(sends) \in {N, N + 1}
      BY <1>1 DEF N
    <3>7. k \in 1 .. Len(sends) /\ k \notin 1 .. N /\ N \in Nat
      BY <1>2, <2>2
    <3>1. k = N + 1 /\ Len(sends) = N + 1
      BY <3>0, <3>7
    <3>2. PICK next \in Scans : /\ added[k] = Scan(next)
                                /\ Following(next) \subseteq Following(cmd.kind) \ {cmd.kind}
      BY <1>1, <1>2, <3>1 DEF N
    <3>3. /\ Scan(next) \in Command /\ Scan(next).kind = next /\ ~ Answered(Scan(next))
          /\ next # "UpdateAndReply"
      BY CommandsAre DEF Answered, Scans
    <3>4. Becoming(added[k]) = {Itself} \cup (Following(next) \X TCE)
      BY <3>2, <3>3, BecomingIs
    <3>5. b = Itself \/ b \in (Following(cmd.kind) \ {cmd.kind}) \X TCE
      BY <3>2, <3>4
    <3>6. Following(cmd.kind) \subseteq Scans
      BY BecomingIs
    <3> QED BY <2>2, <3>1, <3>5, <3>6 DEF Outcomes
  <2> QED BY <2>1, <2>2
<1>5. ASSUME NEW k \in DOMAIN added, NEW b \in Becoming(added[k])
      PROVE  /\ k \in DOMAIN rows => h[<<k, b>>] = <<cmd.kind, rows[k]>>
             /\ k \notin DOMAIN rows => h[<<k, b>>] = b
  BY <1>4
<1> HIDE DEF h
<1>6. ASSUME NEW k \in DOMAIN added, NEW b \in Becoming(added[k])
      PROVE  h[<<k, b>>] \in Becoming(cmd)
  <2>1. CASE k \in DOMAIN rows
    <3>1. h[<<k, b>>] = <<cmd.kind, rows[k]>> /\ rows[k] \in TCE /\ cmd.kind \in Following(cmd.kind)
      BY <1>1, <1>2, <1>5, <2>1
    <3>2. <<cmd.kind, rows[k]>> \in Following(cmd.kind) \X TCE
      BY <3>1
    <3> QED BY <1>3, <3>1, <3>2
  <2>2. CASE k \notin DOMAIN rows
    BY <1>3, <1>4, <1>5, <2>2
  <2> QED BY <2>1, <2>2
<1>7. \A c : <<cmd.kind, c>> # Itself
  BY <1>1 DEF Itself, Scans
<1>8. ASSUME NEW k \in DOMAIN added, NEW b \in Becoming(added[k]),
             NEW j \in DOMAIN added, NEW a \in Becoming(added[j]), h[<<k, b>>] = h[<<j, a>>]
      PROVE  k = j /\ b = a
  <2>1. CASE k \in DOMAIN rows /\ j \in DOMAIN rows
    <3>1. <<cmd.kind, rows[k]>> = <<cmd.kind, rows[j]>> /\ b = Itself /\ a = Itself
      BY <1>4, <1>5, <1>8, <2>1
    <3>2. rows[k] = rows[j]
      BY <3>1
    <3> QED BY <1>1, <2>1, <3>1, <3>2
  <2>2. CASE k \notin DOMAIN rows /\ j \notin DOMAIN rows
    BY <1>4, <1>5, <1>8, <2>2
  <2>3. CASE k \in DOMAIN rows /\ j \notin DOMAIN rows
    <3>1. a = <<cmd.kind, rows[k]>>
      BY <1>5, <1>8, <2>3
    <3>2. a = Itself \/ a \in (Following(cmd.kind) \ {cmd.kind}) \X TCE
      BY <1>4, <2>3
    <3> QED BY <1>7, <3>1, <3>2
  <2>4. CASE k \notin DOMAIN rows /\ j \in DOMAIN rows
    <3>1. b = <<cmd.kind, rows[j]>>
      BY <1>5, <1>8, <2>4
    <3>2. b = Itself \/ b \in (Following(cmd.kind) \ {cmd.kind}) \X TCE
      BY <1>4, <2>4
    <3> QED BY <1>7, <3>1, <3>2
  <2> QED BY <2>1, <2>2, <2>3, <2>4
<1>9. Accounts(h, added, Becoming(cmd))
  BY <1>6, <1>8 DEF Accounts
<1> QED BY <1>9 DEF added

\* Each step leaves no more to do than there was.
LEMMA WorkAfterNext ==
  ASSUME TypeOK, TypeOK', WorkInv, Next
  PROVE  WorkInv'
<1>0. /\ chan \in [Tracks -> Seq(Command)] /\ sending \in [Tracks -> Seq(Sends)]
      /\ routine \in [Routines -> Seq(Sends \cup {Await})]
      /\ \A list \in Seq(Sends) : list \in Seq(Sends \cup {Await})
  BY DEF TypeOK
\* What is on a channel when a command has been put there, or taken.
<1>1. ASSUME NEW u \in Tracks, NEW cmd \in Command,
             chan' = [chan EXCEPT ![u] = Append(@, cmd)]
      PROVE  /\ Line'[<<"channel", u>>] = Append(Line[<<"channel", u>>], cmd)
             /\ \A t \in Tracks : t # u => Line'[<<"channel", t>>] = Line[<<"channel", t>>]
  BY ZenonT(30), <1>0, <1>1, LinesAre, LinesAfter
<1>2. ASSUME NEW u \in Tracks, NEW sends, Handles(u, sends)
      PROVE  /\ Line'[<<"channel", u>>] = Tail(chan[u])
             /\ \A t \in Tracks : t # u => Line'[<<"channel", t>>] = Line[<<"channel", t>>]
             /\ Line[<<"handler", u>>] = <<>> /\ Line'[<<"handler", u>>] = Commands(sends)
             /\ \A t \in Tracks : t # u => Line'[<<"handler", t>>] = Line[<<"handler", t>>]
             /\ chan[u] # <<>> /\ Head(chan[u]) \in Command
  <2>1. /\ chan'[u] = Tail(chan[u]) /\ \A t \in Tracks : t # u => chan'[t] = chan[t]
        /\ sending[u] = <<>> /\ sending'[u] = sends
        /\ \A t \in Tracks : t # u => sending'[t] = sending[t]
    BY <1>0, <1>2 DEF Handles
  <2>2. chan[u] # <<>> /\ Head(chan[u]) \in Command
    BY <1>0, <1>2 DEF Handles
  <2>3. Line[<<"handler", u>>] = <<>> /\ Line'[<<"handler", u>>] = Commands(sends)
    <3>1. Line[<<"handler", u>>] = Commands(sending[u])
      BY LinesAre
    <3>2. Line'[<<"handler", u>>] = Commands(sending'[u])
      BY LinesAfter
    <3>3. Commands(<<>>) = <<>>
      BY CommandsOf
    <3> QED BY <2>1, <3>1, <3>2, <3>3
  <2>4. Line'[<<"channel", u>>] = Tail(chan[u])
    BY <2>1, LinesAfter
  <2> QED BY <2>1, <2>2, <2>3, <2>4, LinesKept
<1>3. routine' = routine => \A r \in Routines : Line'[<<"routine", r>>] = Line[<<"routine", r>>]
  BY LinesKept
<1>4. sending' = sending => \A t \in Tracks : Line'[<<"handler", t>>] = Line[<<"handler", t>>]
  BY LinesKept
<1>5. ASSUME NEW t \in Tracks, HandlerSends(t) PROVE WorkInv'
  <2> DEFINE s == Head(sending[t])
             p == <<"handler", t>>
             x == <<"channel", s.to>>
  <2>1. /\ sending[t] \in Seq(Sends) /\ sending[t] # <<>> /\ s \in Sends
        /\ chan' = [chan EXCEPT ![s.to] = Append(@, s.cmd)]
        /\ sending' = [sending EXCEPT ![t] = Tail(@)] /\ routine' = routine /\ called' = called
    BY <1>5, HandlerPuts
  <2>2. s.to \in Tracks /\ s.cmd \in Command /\ CommandIn(s) = s.cmd
    BY <2>1, AwaitIsNoSend, AwaitIsNoCommand
  <2>3. /\ Line[p] # <<>> /\ Line[p][1] = s.cmd /\ Line'[p] = Tail(Line[p])
        /\ p \in Lines /\ x \in Lines /\ p # x
    <3>1. /\ Commands(sending[t]) # <<>> /\ Commands(sending[t])[1] = CommandIn(Head(sending[t]))
          /\ Commands(Tail(sending[t])) = Tail(Commands(sending[t]))
      BY <1>0, <2>1, CommandsOf
    <3>2. sending'[t] = Tail(sending[t])
      BY <1>0, <2>1
    <3> QED BY <2>2, <3>1, <3>2, LinesAre, LinesAfter
  <2>4. \A u \in Tracks : u # t => Line'[<<"handler", u>>] = Line[<<"handler", u>>]
    BY ZenonT(30), <1>0, <2>1, LinesAre, LinesAfter
  <2> HIDE DEF s
  <2>5. /\ Line'[x] = Append(Line[x], s.cmd)
        /\ \A u \in Tracks : u # s.to => Line'[<<"channel", u>>] = Line[<<"channel", u>>]
    BY <1>1, <2>1, <2>2
  <2>6. \A q \in Lines \ {p, x} : Line'[q] = Line[q]
    BY <1>3, <2>1, <2>4, <2>5, LinesAre
  <2> HIDE DEF p, x
  <2> QED BY <2>1, <2>2, <2>3, <2>5, <2>6, WorkAfterPut
<1>6. ASSUME NEW r \in Routines, RoutineSends(r) PROVE WorkInv'
  <2> DEFINE s == Head(routine[r])
             p == <<"routine", r>>
             x == <<"channel", s.to>>
  <2>1. /\ routine[r] \in Seq(Sends \cup {Await}) /\ routine[r] # <<>> /\ s \in Sends
        /\ chan' = [chan EXCEPT ![s.to] = Append(@, s.cmd)]
        /\ routine' = [routine EXCEPT ![r] = Tail(@)] /\ sending' = sending /\ called' = called
    BY <1>6, RoutinePuts
  <2>2. s.to \in Tracks /\ s.cmd \in Command /\ CommandIn(s) = s.cmd
    BY <2>1, AwaitIsNoSend, AwaitIsNoCommand
  <2>3. /\ Line[p] # <<>> /\ Line[p][1] = s.cmd /\ Line'[p] = Tail(Line[p])
        /\ p \in Lines /\ x \in Lines /\ p # x
    <3>1. /\ Commands(routine[r]) # <<>> /\ Commands(routine[r])[1] = CommandIn(Head(routine[r]))
          /\ Commands(Tail(routine[r])) = Tail(Commands(routine[r]))
      BY <2>1, CommandsOf
    <3>2. routine'[r] = Tail(routine[r])
      BY <1>0, <2>1
    <3> QED BY <2>2, <3>1, <3>2, LinesAre, LinesAfter
  <2>4. \A u \in Routines : u # r => Line'[<<"routine", u>>] = Line[<<"routine", u>>]
    BY <1>0, <2>1, LinesAre, LinesAfter
  <2> HIDE DEF s
  <2>5. /\ Line'[x] = Append(Line[x], s.cmd)
        /\ \A u \in Tracks : u # s.to => Line'[<<"channel", u>>] = Line[<<"channel", u>>]
    BY <1>1, <2>1, <2>2
  <2>6. \A q \in Lines \ {p, x} : Line'[q] = Line[q]
    BY <1>4, <2>1, <2>4, <2>5, LinesAre
  <2> HIDE DEF p, x
  <2> QED BY <2>1, <2>2, <2>3, <2>5, <2>6, WorkAfterPut
<1>7. ASSUME NEW t \in Tracks, NEW sends \in Seq(Sends), Sending(t, sends) PROVE WorkInv'
  <2> DEFINE x == <<"handler", t>>
             added == Commands(sends)
             cmd == Head(chan[t])
  <2>1. Handles(t, sends) /\ routine' = routine /\ called' = called
    BY <1>7 DEF Sending
  <2>2. cmd \in Command /\ ~ Answered(cmd)
    BY <1>2, <1>7, <2>1 DEF Sending, Answered
  <2>3. \E h : Accounts(h, added, Becoming(cmd))
    <3>1. Itself \in Becoming(cmd)
      BY <2>2, BecomingIs
    <3>2. CASE AtMostOne(sends)
      <4>1. \A k \in DOMAIN added : \A b \in Becoming(added[k]) : k = 1 /\ b = Itself
        <5>1. CASE sends = <<>>
          <6>1. DOMAIN added = {}
            BY <5>1, CommandsOf
          <6> QED BY <6>1
        <5>2. ASSUME NEW track \in Tracks, NEW kind \in PlainKinds, NEW c \in TCE,
                     sends = <<Send(track, For(kind, c))>>
              PROVE  \A k \in DOMAIN added : \A b \in Becoming(added[k]) : k = 1 /\ b = Itself
          <6> DEFINE s == Send(track, For(kind, c))
          <6>1. s \in Sends /\ s.cmd = For(kind, c)
            BY CommandsAre, AwaitIsNoSend DEF PlainKinds
          <6> HIDE DEF s
          <6>2. DOMAIN sends = {1} /\ sends[1] = s
            BY <5>2 DEF s
          <6>3. DOMAIN added = {1} /\ added[1] = For(kind, c)
            BY <6>1, <6>2, AwaitIsNoCommand DEF Commands
          <6> QED BY <6>3, BecomingIs
        <5> QED BY <3>2, <5>1, <5>2 DEF AtMostOne
      <4> HIDE DEF added, cmd
      <4> QED BY <3>1, <4>1, OneAccounts
    <3>3. CASE OfScan(cmd, sends)
      BY <2>2, <3>3, ScanAccounts
    <3> QED BY <1>7, <3>2, <3>3 DEF Sending
  <2>4. /\ added \in Seq(Things) /\ x \in Lines /\ x # <<"channel", t>>
        /\ Line[x] = <<>> /\ Line'[x] = added
    BY <1>0, <1>2, <2>1, CommandsOf, LinesAre
  <2>5. <<>> \o added = added
    BY <2>4
  <2>6. \A q \in Lines \ {<<"channel", t>>, x} : Line'[q] = Line[q]
    BY <1>2, <1>3, <2>1, OtherLines
  <2>7. chan[t] # <<>> /\ Line'[<<"channel", t>>] = Tail(chan[t])
    BY <1>2, <2>1
  <2>8. PICK h : Accounts(h, added, Becoming(Head(chan[t])))
    BY <2>3
  <2> HIDE DEF x, added, cmd
  <2>9. Line'[x] = Line[x] \o added
    BY <2>4, <2>5
  <2> QED BY <2>1, <2>4, <2>6, <2>7, <2>8, <2>9, WorkAfterTake
<1>8. ASSUME Begins
      PROVE  \E r, added, m :
               /\ r \in Routines /\ added \in Seq(Things)
               /\ Line'[<<"routine", r>>] = Line[<<"routine", r>>] \o added
               /\ \A u \in Routines : u # r => Line'[<<"routine", u>>] = Line[<<"routine", u>>]
               /\ \A k \in DOMAIN added : \A b \in Becoming(added[k]) : k = m /\ b = Itself
  <2>1. PICK name \in Names, c \in TCE, todo \in Seq(Sends \cup {Await}) :
          /\ Todo(name, c, todo) /\ <<name, c>> \in Routines
          /\ routine' = [routine EXCEPT ![<<name, c>>] = @ \o todo]
    BY <1>8, BeginsIs
  <2> DEFINE r == <<name, c>>
             added == Commands(todo)
  <2>2. /\ r \in Routines /\ routine'[r] = routine[r] \o todo
        /\ \A u \in Routines : u # r => routine'[u] = routine[u]
    BY <1>0, <2>1
  <2> HIDE DEF r
  <2>3. added \in Seq(Things) /\ Commands(routine[r] \o todo) = Commands(routine[r]) \o added
    BY <1>0, <2>2, CommandsOf
  <2>4. PICK m : \A k \in DOMAIN added : \A b \in Becoming(added[k]) : k = m /\ b = Itself
    BY <2>1, TodoWork
  <2> HIDE DEF added
  <2>5. Line'[<<"routine", r>>] = Line[<<"routine", r>>] \o added
    <3>1. Line[<<"routine", r>>] = Commands(routine[r])
      BY <2>2, LinesAre
    <3>2. Line'[<<"routine", r>>] = Commands(routine[r] \o todo)
      BY <2>2, LinesAfter
    <3> QED BY <2>3, <3>1, <3>2
  <2>6. \A u \in Routines : u # r => Line'[<<"routine", u>>] = Line[<<"routine", u>>]
    BY <2>2, LinesKept
  <2> QED BY ZenonT(30), <2>2, <2>3, <2>4, <2>5, <2>6
<1>9. ASSUME NEW t \in Tracks, Beginning(t) PROVE WorkInv'
  <2>1. Handles(t, <<>>) /\ Head(chan[t]).kind \in PlainKinds /\ Begins /\ called' = called
    BY <1>9 DEF Beginning
  <2>2. PICK r, added, m :
          /\ r \in Routines /\ added \in Seq(Things)
          /\ Line'[<<"routine", r>>] = Line[<<"routine", r>>] \o added
          /\ \A u \in Routines : u # r => Line'[<<"routine", u>>] = Line[<<"routine", u>>]
          /\ \A k \in DOMAIN added : \A b \in Becoming(added[k]) : k = m /\ b = Itself
    BY <1>8, <2>1
  <2> DEFINE x == <<"routine", r>>
             h == [y \in (DOMAIN added) \X {Itself} |-> Itself]
  <2>3. Itself \in Becoming(Head(chan[t]))
    BY <1>2, <2>1, BecomingIs DEF Answered, PlainKinds
  <2>4. Accounts(h, added, Becoming(Head(chan[t])))
    BY <2>2, <2>3, OneAccounts
  <2>5. x \in Lines /\ x # <<"channel", t>> /\ added \in Seq(Things)
    BY <2>2, LinesAre
  <2>12. \A u \in Tracks : Line'[<<"handler", u>>] = Line[<<"handler", u>>]
    BY <1>2, <2>1, CommandsOf
  <2>6. \A q \in Lines \ {<<"channel", t>>, x} : Line'[q] = Line[q]
    BY ZenonT(30), <1>2, <2>1, <2>2, <2>12, OtherLines
  <2>7. chan[t] # <<>> /\ Line'[<<"channel", t>>] = Tail(chan[t])
    BY <1>2, <2>1
  <2>8. Line'[x] = Line[x] \o added
    BY <2>2
  <2> HIDE DEF x, h
  <2> QED BY <2>1, <2>4, <2>5, <2>6, <2>7, <2>8, WorkAfterTake
<1>10. ASSUME NEW t \in Tracks, UpdateAndReply(t) PROVE WorkInv'
  <2>1. PICK c \in TCE :
          /\ Waits(<<"result", c>>)
          /\ routine' = [routine EXCEPT ![<<"result", c>>] = Tail(@)]
    BY <1>10, AnsweringHandler
  <2>2. Handles(t, <<>>) /\ called' = called
    BY <1>10, AnsweringHandler
  <2> DEFINE r == <<"result", c>>
             p == <<"channel", t>>
             x == <<"routine", r>>
  <2>3. /\ r \in Routines /\ routine[r] \in Seq(Sends \cup {Await}) /\ routine[r] # <<>>
        /\ routine'[r] = Tail(routine[r])
        /\ \A u \in Routines : u # r => routine'[u] = routine[u]
    <3>1. r \in Routines
      BY DEF Routines
    <3> QED BY <1>0, <2>1, <3>1 DEF Waits
  <2> HIDE DEF r
  <2>4. Line[x] # <<>> /\ Line'[x] = Tail(Line[x]) /\ x \in Lines /\ p \in Lines /\ x # p
    <3>1. /\ Commands(routine[r]) # <<>>
          /\ Commands(Tail(routine[r])) = Tail(Commands(routine[r]))
      BY <2>3, CommandsOf
    <3>2. Line[x] = Commands(routine[r]) /\ x \in Lines /\ p \in Lines
      BY <2>3, LinesAre
    <3>3. Line'[x] = Commands(Tail(routine[r]))
      BY <2>3, LinesAfter
    <3> QED BY <3>1, <3>2, <3>3
  <2>5. Line[p] # <<>> /\ Line'[p] = Tail(Line[p])
    <3>1. chan[t] # <<>> /\ Line'[p] = Tail(chan[t])
      BY <1>2, <2>2
    <3>2. Line[p] = chan[t]
      BY LinesAre
    <3> QED BY <3>1, <3>2
  <2>6. \A u \in Routines : u # r => Line'[<<"routine", u>>] = Line[<<"routine", u>>]
    BY <2>3, LinesKept
  <2>12. \A u \in Tracks : Line'[<<"handler", u>>] = Line[<<"handler", u>>]
    BY <1>2, <2>2, CommandsOf
  <2>7. \A q \in Lines \ {p, x} : Line'[q] = Line[q]
    BY ZenonT(30), <1>2, <2>2, <2>6, <2>12, OtherLines
  <2> HIDE DEF p, x
  <2>8. \A q \in Lines : Line[q] \in Seq(Things)
    BY LineTypes
  <2>9. Adds({p, x}, p, <<>>)
    <3>1. Follows(Line[p], Line'[p], 1, <<>>) /\ Follows(Line[x], Line'[x], 1, <<>>)
      BY <2>4, <2>5, <2>8, FollowingLines
    <3>2. \A q \in Lines \ {p, x} : Follows(Line[q], Line'[q], 0, <<>>)
      BY <2>7, <2>8, FollowingLines
    <3> QED BY <3>1, <3>2 DEF Adds
  <2>10. Accounts(0, <<>>, Sources({p, x}))
    <3>1. DOMAIN <<>> = {}
      OBVIOUS
    <3> QED BY <3>1 DEF Accounts
  <2>11. StillToCome' \subseteq StillToCome /\ <<>> \in Seq(Things) /\ {p, x} \in SUBSET Lines
    BY <2>2, <2>4, CallsToCome
  <2> QED BY <2>4, <2>9, <2>10, <2>11, WorkStays
<1>11. CASE Calls
  <2>1. /\ chan' = chan /\ sending' = sending /\ Begins
        /\ \E c \in TCE :
             \/ /\ stage[c] = "unknown" /\ stage' = [stage EXCEPT ![c] = "onQueue"]
                /\ called' = called
             \/ \E name \in {"respond", "report"} :
                  /\ <<name, c>> \notin called /\ called' = called \cup {<<name, c>>}
                  /\ stage' = stage
    BY <1>11, CallsAre
  <2>2. StillToCome' \subseteq StillToCome
    BY <2>1, CallsToCome
  <2>3. \E v : v \in StillToCome \ StillToCome'
    <3>1. PICK c \in TCE :
             \/ /\ stage[c] = "unknown" /\ stage' = [stage EXCEPT ![c] = "onQueue"]
                /\ called' = called
             \/ \E name \in {"respond", "report"} :
                  /\ <<name, c>> \notin called /\ called' = called \cup {<<name, c>>}
                  /\ stage' = stage
      BY <2>1
    <3>2. CASE stage[c] = "unknown" /\ stage' = [stage EXCEPT ![c] = "onQueue"]
      <4>1. stage'[c] = "onQueue"
        BY <3>2 DEF TypeOK
      <4>2. c \in At("unknown") /\ c \notin At("unknown")'
        BY <3>2, <4>1 DEF At
      <4>3. <<"new", c>> \in StillToCome /\ <<"new", c>> \notin StillToCome'
        BY <4>2 DEF StillToCome
      <4> QED BY <4>3
    <3>3. ASSUME NEW name \in {"respond", "report"}, <<name, c>> \notin called,
                 called' = called \cup {<<name, c>>}
          PROVE  \E v : v \in StillToCome \ StillToCome'
      <4>1. <<name, c>> \in StillToCome /\ <<name, c>> \notin StillToCome'
        BY <3>3 DEF StillToCome
      <4> QED BY <4>1
    <3> QED BY <3>1, <3>2, <3>3
  <2>4. PICK v : v \in StillToCome \ StillToCome'
    BY <2>3
  <2>5. PICK r, added, m :
          /\ r \in Routines /\ added \in Seq(Things)
          /\ Line'[<<"routine", r>>] = Line[<<"routine", r>>] \o added
          /\ \A u \in Routines : u # r => Line'[<<"routine", u>>] = Line[<<"routine", u>>]
          /\ \A k \in DOMAIN added : \A b \in Becoming(added[k]) : k = m /\ b = Itself
    BY <1>8, <2>1
  <2> DEFINE x == <<"routine", r>>
             h == [y \in (DOMAIN added) \X {Itself} |-> v]
  <2>6. v \in Sources({})
    BY <2>4 DEF Sources
  <2>7. Accounts(h, added, Sources({}))
    BY <2>5, <2>6, OneAccounts
  <2>8. x \in Lines /\ Line'[x] = Line[x] \o added
    BY <2>5, LinesAre
  <2>9. \A q \in Lines \ {x} : Line'[q] = Line[q]
    <3>1. \A t \in Tracks : Line'[<<"channel", t>>] = Line[<<"channel", t>>]
      BY <2>1, LinesAre, LinesAfter
    <3> QED BY <1>4, <2>1, <2>5, <3>1, LinesAre
  <2> HIDE DEF x, h
  <2>10. /\ \A q \in Lines : Line[q] \in Seq(Things)
         /\ added \in Seq(Things)
    BY <2>5, LineTypes
  <2>11. Adds({}, x, added)
    BY <2>8, <2>9, <2>10, FollowingLines DEF Adds
  <2> QED BY <2>2, <2>7, <2>8, <2>10, <2>11, WorkStays
<1> QED BY <1>5, <1>6, <1>7, <1>9, <1>10, <1>11, StepsAre

\* Seven names name at most seven things.
LEMMA SevenAtMost ==
  ASSUME NEW a, NEW b, NEW c, NEW d, NEW e, NEW f, NEW g
  PROVE  /\ IsFiniteSet({a, b, c, d, e, f, g})
         /\ Cardinality({a, b, c, d, e, f, g}) =< 7
<1> DEFINE AtMost(S, n) == IsFiniteSet(S) /\ Cardinality(S) \in Nat /\ Cardinality(S) =< n
<1>1. AtMost({a}, 1)
  BY FS_Singleton
<1>2. ASSUME NEW S, NEW x, NEW n \in Nat, AtMost(S, n) PROVE AtMost(S \cup {x}, n + 1)
  <2>1. /\ IsFiniteSet(S \cup {x})
        /\ Cardinality(S \cup {x}) = IF x \in S THEN Cardinality(S) ELSE Cardinality(S) + 1
    BY <1>2, FS_AddElement
  <2>2. Cardinality(S) \in Nat /\ Cardinality(S) =< n
    BY <1>2
  <2> QED BY <2>1, <2>2
<1> HIDE DEF AtMost
<1>3. AtMost({a} \cup {b}, 1 + 1)
  BY <1>2, <1>1
<1>4. AtMost({a} \cup {b} \cup {c}, 2 + 1)
  <2>1. 1 + 1 = 2
    OBVIOUS
  <2> QED BY <1>2, <1>3, <2>1
<1>5. AtMost({a} \cup {b} \cup {c} \cup {d}, 3 + 1)
  <2>1. 2 + 1 = 3
    OBVIOUS
  <2> QED BY <1>2, <1>4, <2>1
<1>6. AtMost({a} \cup {b} \cup {c} \cup {d} \cup {e}, 4 + 1)
  <2>1. 3 + 1 = 4
    OBVIOUS
  <2> QED BY <1>2, <1>5, <2>1
<1>7. AtMost({a} \cup {b} \cup {c} \cup {d} \cup {e} \cup {f}, 5 + 1)
  <2>1. 4 + 1 = 5
    OBVIOUS
  <2> QED BY <1>2, <1>6, <2>1
<1>8. AtMost({a} \cup {b} \cup {c} \cup {d} \cup {e} \cup {f} \cup {g}, 6 + 1)
  <2>1. 5 + 1 = 6
    OBVIOUS
  <2> QED BY <1>2, <1>7, <2>1
<1>9. {a} \cup {b} \cup {c} \cup {d} \cup {e} \cup {f} \cup {g} = {a, b, c, d, e, f, g}
  OBVIOUS
<1> QED BY <1>8, <1>9 DEF AtMost

\* At the start: three scans, what they and those that follow them find, and the calls.
Tags == {"ZombiesUnderExecution", "ZombieTestCasesOnQueue", "ZombiesOnQueue",
         "ZombiesTimedOut", "new", "respond", "report"}
AtTheStart == ({"itself"} \X (1 .. 3)) \cup (Tags \X TCE)

\* The work of the start is at most three and seven for each TCE.
LEMMA StartIs == /\ IsFiniteSet(AtTheStart)
                 /\ Cardinality(AtTheStart) =< 7 * Cardinality(TCE) + 3
<1> DEFINE N == Cardinality(TCE)
           S == {"itself"} \X (1 .. 3)
           T == Tags \X TCE
<1>1. IsFiniteSet(TCE) /\ N \in Nat
  BY ConstantsAssumption, FS_CardinalityType
<1>2. IsFiniteSet(S) /\ Cardinality(S) = 3
  <2>1. IsFiniteSet(1 .. 3) /\ Cardinality(1 .. 3) = 3
    <3>1. 1 \in Int /\ 3 \in Int /\ ~ (1 > 3) /\ 3 - 1 + 1 = 3
      OBVIOUS
    <3> QED BY <3>1, FS_Interval
  <2>2. IsFiniteSet({"itself"}) /\ Cardinality({"itself"}) = 1
    BY FS_Singleton
  <2>3. IsFiniteSet(S) /\ Cardinality(S) = 1 * 3
    BY <2>1, <2>2, FS_Product
  <2> QED BY <2>3
<1>3. IsFiniteSet(T) /\ Cardinality(T) =< 7 * N
  <2>1. IsFiniteSet(Tags) /\ Cardinality(Tags) =< 7 /\ Cardinality(Tags) \in Nat
    BY SevenAtMost, FS_CardinalityType DEF Tags
  <2>2. IsFiniteSet(T) /\ Cardinality(T) = Cardinality(Tags) * N
    BY <1>1, <2>1, FS_Product
  <2>3. \A m, n \in Nat : m =< 7 => m * n =< 7 * n
    <3>1. ASSUME NEW m \in Nat, NEW n \in Nat, m =< 7 PROVE m * n =< 7 * n
      <4>1. m \in {0, 1, 2, 3, 4, 5, 6, 7}
        BY <3>1
      <4> QED BY <4>1
    <3> QED BY <3>1
  <2> HIDE DEF N, T
  <2> QED BY <1>1, <2>1, <2>2, <2>3
<1>4. /\ IsFiniteSet(S \cup T)
      /\ Cardinality(S \cup T) = Cardinality(S) + Cardinality(T) - Cardinality(S \cap T)
  BY <1>2, <1>3, FS_Union
<1>5. IsFiniteSet(S \cap T)
  <2>1. S \cap T \in SUBSET S
    OBVIOUS
  <2> QED BY <1>2, <2>1, FS_Subset
<1>6. Cardinality(S \cap T) \in Nat /\ Cardinality(T) \in Nat
  BY <1>3, <1>5, FS_CardinalityType
<1>7. AtTheStart = S \cup T
  BY DEF AtTheStart
<1> HIDE DEF S, T, N
<1>8. Cardinality(S \cup T) =< 7 * N + 3
  BY <1>1, <1>2, <1>3, <1>4, <1>6
<1> QED BY <1>4, <1>7, <1>8 DEF N

\* At the start, the work that there is and the calls to come have such names.
LEMMA WorkAtFirst == Init => WorkInv
<1>1. ASSUME Init PROVE WorkInv
  <2> DEFINE r == <<"routine", Starter>>
             first == <<Send(0, Scan("ZombiesUnderExecution")), Send(0, Scan("ZombiesTimedOut")),
                        Send(0, Scan("ReCreateTimers"))>>
             kinds == <<"ZombiesUnderExecution", "ZombiesTimedOut", "ReCreateTimers">>
             open == Work(Line) \cup StillToCome
             f == [x \in open |->
                     IF x \in StillToCome THEN x
                     ELSE IF x[3] = Itself THEN <<"itself", x[2]>> ELSE x[3]]
  <2>1. \A t \in Tracks : chan[t] = <<>> /\ sending[t] = <<>>
    BY <1>1 DEF Init
  <2>2. routine[Starter] = first /\ \A x \in Routines : x # Starter => routine[x] = <<>>
    BY <1>1 DEF Init, Routines
  <2>3. \A n \in 1 .. 3 : /\ kinds[n] \in Scans /\ first[n] = Send(0, Scan(kinds[n]))
                          /\ first[n] \in Sends /\ CommandIn(first[n]) = Scan(kinds[n])
    <3>1. ASSUME NEW n \in 1 .. 3 PROVE kinds[n] \in Scans /\ first[n] = Send(0, Scan(kinds[n]))
      BY DEF Scans
    <3>2. ASSUME NEW kind \in Scans
          PROVE  Send(0, Scan(kind)) \in Sends /\ CommandIn(Send(0, Scan(kind))) = Scan(kind)
      <4>1. Scan(kind) \in Command
        BY CommandsAre
      <4> QED BY <4>1, AwaitIsNoSend, AwaitIsNoCommand, ConstantsAssumption
    <3> HIDE DEF kinds, first
    <3> QED BY <3>1, <3>2
  <2>4. DOMAIN first = 1 .. 3
    OBVIOUS
  <2> HIDE DEF first
  <2>5. /\ Line[r] = Commands(first) /\ r \in Lines
        /\ \A q \in Lines : q # r => Line[q] = <<>>
    <3>1. Starter \in Routines
      BY DEF Routines
    <3>2. Commands(<<>>) = <<>>
      BY CommandsOf
    <3>3. ASSUME NEW t \in Tracks
          PROVE  Line[<<"channel", t>>] = <<>> /\ Line[<<"handler", t>>] = <<>>
      <4>1. Line[<<"channel", t>>] = chan[t] /\ Line[<<"handler", t>>] = Commands(sending[t])
        BY LinesAre
      <4> QED BY <2>1, <3>2, <4>1
    <3>4. ASSUME NEW x \in Routines
          PROVE  Line[<<"routine", x>>] = Commands(routine[x]) /\ <<"routine", x>> \in Lines
      BY LinesAre
    <3>5. ASSUME NEW q \in Lines, q # r PROVE Line[q] = <<>>
      <4>1. CASE \E t \in Tracks : q \in {<<"channel", t>>, <<"handler", t>>}
        BY <3>3, <4>1
      <4>2. CASE \E x \in Routines : q = <<"routine", x>>
        BY <2>2, <3>2, <3>4, <3>5, <4>2
      <4> QED BY <4>1, <4>2, LinesAre
    <3> QED BY <2>2, <3>1, <3>4, <3>5
  <2>6. DOMAIN Commands(first) = 1 .. 3 /\ \A n \in 1 .. 3 : Commands(first)[n] = Scan(kinds[n])
    BY <2>3, <2>4 DEF Commands
  <2>7. \A n \in 1 .. 3 : Becoming(Scan(kinds[n])) = {Itself} \cup (Following(kinds[n]) \X TCE)
    <3>1. \A kind \in Scans : /\ Scan(kind) \in Command /\ Scan(kind).kind = kind
                              /\ ~ Answered(Scan(kind))
      BY CommandsAre DEF Answered, Scans
    <3> HIDE DEF kinds
    <3> QED BY <2>3, <3>1, BecomingIs
  <2>8. ASSUME NEW x \in Work(Line)
        PROVE  \E n, b :
                 /\ n \in 1 .. 3 /\ x = <<r, n, b>>
                 /\ b \in {Itself} \cup (Following(kinds[n]) \X TCE)
    <3>1. PICK q \in Lines : \E n \in DOMAIN Line[q] : \E b \in Becoming(Line[q][n]) : x = <<q, n, b>>
      BY WorkIs
    <3>2. DOMAIN <<>> = {}
      OBVIOUS
    <3>3. q = r
      BY <2>5, <3>1, <3>2
    <3> HIDE DEF r, kinds
    <3> QED BY <2>5, <2>6, <2>7, <3>1, <3>3
  <2>9. StillToCome \subseteq {"new", "respond", "report"} \X TCE
    BY DEF StillToCome, At
  <2>10. \A x \in Work(Line) : x \notin StillToCome
    <3>1. \A q, n, b : <<q, n, b>> \notin {"new", "respond", "report"} \X TCE
      OBVIOUS
    <3> QED BY <2>8, <2>9, <3>1
  <2>11. /\ \A n \in 1 .. 3 : Following(kinds[n]) \subseteq Tags \ {"new", "respond", "report"}
         /\ \A n, m \in 1 .. 3 : n # m => Following(kinds[n]) \cap Following(kinds[m]) = {}
    <3>1. /\ Following(kinds[1]) = {"ZombiesUnderExecution", "ZombieTestCasesOnQueue", "ZombiesOnQueue"}
          /\ Following(kinds[2]) = {"ZombiesTimedOut"}
          /\ Following(kinds[3]) = {}
      BY DEF Following
    <3>2. \A n \in 1 .. 3 : n = 1 \/ n = 2 \/ n = 3
      OBVIOUS
    <3> HIDE DEF kinds
    <3> QED BY <3>1, <3>2 DEF Tags
  <2> HIDE DEF r, kinds
  <2>12. \A n : \A b \in Tags \X TCE : <<"itself", n>> # b /\ Itself # b
    BY DEF Tags, Itself
  <2>13. ASSUME NEW x \in Work(Line)
         PROVE  \E n, b :
                  /\ n \in 1 .. 3
                  /\ x = <<r, n, b>>
                  /\ \/ b = Itself /\ f[x] = <<"itself", n>>
                     \/ b # Itself /\ f[x] = b /\ b \in Following(kinds[n]) \X TCE
    <3>1. PICK n, b :
            /\ n \in 1 .. 3 /\ x = <<r, n, b>>
            /\ b \in {Itself} \cup (Following(kinds[n]) \X TCE)
      BY <2>8
    <3>2. f[x] = IF b = Itself THEN <<"itself", n>> ELSE b
      BY <2>10, <3>1
    <3> HIDE DEF f
    <3> QED BY <3>1, <3>2
  <2>14. \A x \in StillToCome : f[x] = x
    OBVIOUS
  <2>15. \A x \in open : f[x] \in AtTheStart
    <3>1. ASSUME NEW x \in Work(Line) PROVE f[x] \in AtTheStart
      <4> HIDE DEF f
      <4> QED BY SMTT(30), <2>11, <2>13 DEF AtTheStart
    <3>2. \A x \in StillToCome : x \in AtTheStart
      BY <2>9 DEF AtTheStart, Tags
    <3> HIDE DEF f
    <3> QED BY <2>14, <3>1, <3>2
  <2>16. f \in [open -> AtTheStart]
    BY <2>15
  <2> HIDE DEF f
  <2>17. ASSUME NEW x \in Work(Line), NEW y \in Work(Line), f[x] = f[y] PROVE x = y
    <3>1. PICK n, b :
                  /\ n \in 1 .. 3
                  /\ x = <<r, n, b>>
                  /\ \/ b = Itself /\ f[x] = <<"itself", n>>
                     \/ b # Itself /\ f[x] = b /\ b \in Following(kinds[n]) \X TCE
      BY <2>13
    <3>2. PICK m, a :
                  /\ m \in 1 .. 3
                  /\ y = <<r, m, a>>
                  /\ \/ a = Itself /\ f[y] = <<"itself", m>>
                     \/ a # Itself /\ f[y] = a /\ a \in Following(kinds[m]) \X TCE
      BY <2>13
    <3>3. CASE b = Itself /\ a = Itself
      <4>1. <<"itself", n>> = <<"itself", m>>
        BY <2>17, <3>1, <3>2, <3>3
      <4> QED BY <3>1, <3>2, <3>3, <4>1
    <3>4. CASE b # Itself /\ a # Itself
      <4>1. b = a /\ b \in Following(kinds[n]) \X TCE /\ b \in Following(kinds[m]) \X TCE
        BY <2>17, <3>1, <3>2, <3>4
      <4>2. n = m
        BY <2>11, <3>1, <3>2, <4>1
      <4> QED BY <3>1, <3>2, <4>1, <4>2
    <3>5. CASE b = Itself /\ a # Itself
      <4>1. a = <<"itself", n>> /\ a \in Tags \X TCE
        BY <2>11, <2>17, <3>1, <3>2, <3>5
      <4> QED BY <2>12, <4>1
    <3>6. CASE b # Itself /\ a = Itself
      <4>1. b = <<"itself", m>> /\ b \in Tags \X TCE
        BY <2>11, <2>17, <3>1, <3>2, <3>6
      <4> QED BY <2>12, <4>1
    <3> QED BY <3>3, <3>4, <3>5, <3>6
  <2>18. ASSUME NEW x \in Work(Line), NEW y \in StillToCome PROVE f[x] # f[y]
    <3>1. PICK n, b :
                  /\ n \in 1 .. 3
                  /\ x = <<r, n, b>>
                  /\ \/ b = Itself /\ f[x] = <<"itself", n>>
                     \/ b # Itself /\ f[x] = b /\ b \in Following(kinds[n]) \X TCE
      BY <2>13
    <3>2. f[y] = y /\ y \in {"new", "respond", "report"} \X TCE /\ y \in Tags \X TCE
      BY <2>9, <2>14 DEF Tags
    <3>3. CASE f[x] = <<"itself", n>>
      BY <2>12, <3>2, <3>3
    <3>4. CASE f[x] \in Following(kinds[n]) \X TCE
      <4>1. Following(kinds[n]) \cap {"new", "respond", "report"} = {}
        BY <2>11, <3>1
      <4> QED BY <3>2, <3>4, <4>1
    <3> QED BY <3>1, <3>3, <3>4
  <2>19. \A x, y \in open : f[x] = f[y] => x = y
    BY <2>14, <2>17, <2>18
  <2>20. f \in Injection(open, AtTheStart)
    BY <2>16, <2>19 DEF Injection, IsInjective
  <2>21. IsFiniteSet(open) /\ Cardinality(open) =< Cardinality(AtTheStart)
    BY <2>20, StartIs, FS_Injection
  <2>22. /\ Cardinality(open) \in Nat /\ Cardinality(AtTheStart) \in Nat
         /\ Cardinality(TCE) \in Nat /\ Cardinality(AtTheStart) =< 7 * Cardinality(TCE) + 3
    BY <2>21, StartIs, ConstantsAssumption, FS_CardinalityType
  <2>23. Cardinality(open) =< 7 * Cardinality(TCE) + 3
    <3> HIDE DEF open
    <3> QED BY <2>21, <2>22
  <2> QED BY <2>21, <2>23 DEF WorkInv, WorkIsBounded
<1> QED BY <1>1

\* No step makes more work than there was.
LEMMA WorkInNext ==
  ASSUME TypeOK, TypeOK', WorkInv, [Next]_vars
  PROVE  WorkInv'
<1>1. CASE UNCHANGED vars
  <2>1. /\ LineOf(chan, sending, routine)' = LineOf(chan, sending, routine)
        /\ StillToCome' = StillToCome
    BY <1>1 DEF vars, LineOf, Commands, StillToCome, At
  <2>2. Line = LineOf(chan, sending, routine) /\ Line' = LineOf(chan, sending, routine)'
    BY DEF Line, LineOf, Commands
  <2>3. (Work(Line) \cup StillToCome)' = Work(Line) \cup StillToCome
    BY <2>1, <2>2 DEF Work
  <2> QED BY <2>3 DEF WorkInv, WorkIsBounded
<1> QED BY <1>1, WorkAfterNext

\* The work is bounded, and finite, in every behaviour.
LEMMA WorkAlways == Spec => []WorkInv
BY WorkAtFirst, WorkInNext, TypeCorrect, PTL DEF Spec

\* Commands make commands, but all of them together never more than the scans of the
\* start-up and the calls of clients and Workers can bring.
THEOREM WorkBounded == Spec => []WorkIsBounded
<1>1. WorkInv => WorkIsBounded
  BY DEF WorkInv
<1> QED BY <1>1, WorkAlways, PTL

-----------------------------------------------------------------------------
(* Room for all *)

\* There is room on every channel, and the answer that a reader has to give next is
\* waited for: every reader that has something to do can do it.
NobodyIsStuck ==
  \A t \in Tracks :
    /\ Room(t)
    /\ \A c \in TCE : chan[t] # <<>> /\ Head(chan[t]) = For("UpdateAndReply", c) =>
                        Waits(<<"result", c>>)

\* A channel holds no more than there is to do, and an answer for each TCE.
LEMMA ChannelHolds ==
  ASSUME TypeOK, AnswersAreAwaited, WorkInv, NEW t \in Tracks
  PROVE  Len(chan[t]) =< 8 * Cardinality(TCE) + 3
<1> DEFINE N == Cardinality(TCE)
           open == Work(Line) \cup StillToCome
           answers == {"answer"} \X TCE
           places == 1 .. Len(chan[t])
           p == <<"channel", t>>
           f == [n \in places |-> IF Answered(chan[t][n]) THEN <<"answer", chan[t][n].tce>>
                                                          ELSE <<p, n, Itself>>]
<1>1. /\ chan[t] \in Seq(Command) /\ Len(chan[t]) \in Nat
      /\ DOMAIN chan[t] = places /\ \A n \in places : chan[t][n] \in Command
  BY DEF TypeOK
<1>2. ASSUME NEW n \in places, Answered(chan[t][n])
      PROVE  LET c == chan[t][n].tce IN c \in TCE /\ <<t, n>> \in AnswersTo(c)
  <2>1. /\ chan[t][n].kind = "UpdateAndReply" /\ chan[t][n].tce \in TCE
        /\ chan[t][n] = For("UpdateAndReply", chan[t][n].tce)
    BY <1>1, <1>2, CommandsAre DEF Answered, Scans
  <2> QED BY <1>1, <2>1, PlacesAre
<1>3. ASSUME NEW n \in places, ~ Answered(chan[t][n])
      PROVE  <<p, n, Itself>> \in open
  <2>1. p \in Lines /\ Line[p] = chan[t]
    BY LinesAre
  <2>2. Itself \in Becoming(chan[t][n])
    BY <1>1, <1>3, BecomingIs
  <2> HIDE DEF p
  <2>3. <<p, n, Itself>> \in Work(Line)
    BY <1>1, <2>1, <2>2, InWork
  <2> QED BY <2>3
<1>4. f \in [places -> open \cup answers]
  <2>1. \A n \in places : f[n] \in open \cup answers
    <3> HIDE DEF open
    <3> QED BY <1>2, <1>3
  <2> HIDE DEF open
  <2> QED BY <2>1
<1> HIDE DEF open, p
<1>5. ASSUME NEW n \in places, NEW m \in places, f[n] = f[m] PROVE n = m
  <2>1. CASE Answered(chan[t][n]) /\ Answered(chan[t][m])
    <3> DEFINE c == chan[t][n].tce
    <3>1. <<"answer", c>> = <<"answer", chan[t][m].tce>>
      BY <1>5, <2>1
    <3>2. c = chan[t][m].tce
      BY <3>1
    <3>3. c \in TCE /\ <<t, n>> \in AnswersTo(c) /\ <<t, m>> \in AnswersTo(c)
      BY <1>2, <2>1, <3>2
    <3> HIDE DEF c, f
    <3>4. <<t, n>> = <<t, m>>
      BY <3>3 DEF AnswersAreAwaited
    <3> QED BY <3>4
  <2>2. CASE ~ Answered(chan[t][n]) /\ ~ Answered(chan[t][m])
    <3>1. <<p, n, Itself>> = <<p, m, Itself>>
      BY <1>5, <2>2
    <3> QED BY <3>1
  <2>3. CASE Answered(chan[t][n]) /\ ~ Answered(chan[t][m])
    <3>1. <<"answer", chan[t][n].tce>> = <<p, m, Itself>>
      BY <1>5, <2>3
    <3> QED BY <3>1
  <2>4. CASE ~ Answered(chan[t][n]) /\ Answered(chan[t][m])
    <3>1. <<p, n, Itself>> = <<"answer", chan[t][m].tce>>
      BY <1>5, <2>4
    <3> QED BY <3>1
  <2> QED BY <2>1, <2>2, <2>3, <2>4
<1> HIDE DEF f
<1>6. f \in Injection(places, open \cup answers)
  BY <1>4, <1>5 DEF Injection, IsInjective
<1>7. /\ IsFiniteSet(open) /\ Cardinality(open) =< 7 * N + 3 /\ Cardinality(open) \in Nat
      /\ IsFiniteSet(TCE) /\ N \in Nat
  BY ConstantsAssumption, FS_CardinalityType DEF WorkInv, WorkIsBounded, open
<1>8. IsFiniteSet(answers) /\ Cardinality(answers) = 1 * N
  <2>1. IsFiniteSet({"answer"}) /\ Cardinality({"answer"}) = 1
    BY FS_Singleton
  <2> QED BY <1>7, <2>1, FS_Product
<1>9. /\ IsFiniteSet(open \cup answers)
      /\ Cardinality(open \cup answers)
           = Cardinality(open) + Cardinality(answers) - Cardinality(open \cap answers)
  BY <1>7, <1>8, FS_Union
<1>10. Cardinality(open \cap answers) \in Nat
  <2>1. open \cap answers \in SUBSET open
    OBVIOUS
  <2> QED BY <1>7, <2>1, FS_Subset, FS_CardinalityType
<1> HIDE DEF N, answers
<1>11. Cardinality(open \cup answers) =< 8 * N + 3
  BY <1>7, <1>8, <1>9, <1>10
<1>12. Cardinality(places) =< Cardinality(open \cup answers)
  BY <1>6, <1>9, FS_Injection
<1>13. Cardinality(places) = Len(chan[t])
  <2>1. 1 \in Int /\ Len(chan[t]) \in Int
    BY <1>1
  <2>2. Cardinality(places) = IF 1 > Len(chan[t]) THEN 0 ELSE Len(chan[t]) - 1 + 1
    BY <2>1, FS_Interval
  <2> QED BY <1>1, <2>2
<1>14. Cardinality(open \cup answers) \in Nat
  BY <1>9, FS_CardinalityType
<1> HIDE DEF places
<1>15. Len(chan[t]) =< 8 * N + 3
  BY <1>1, <1>7, <1>11, <1>12, <1>13, <1>14
<1> QED BY <1>15 DEF N

\* When channels hold more than eight commands for each TCE, and three, then no send waits
\* for room and no reader for a goroutine: the engine cannot come to a standstill by itself.
THEOREM NobodyWaits ==
  ASSUME ChannelSize > 8 * Cardinality(TCE) + 3
  PROVE  Spec => []NobodyIsStuck
<1>1. ASSUME TypeOK, AnswersAreAwaited, WorkInv PROVE NobodyIsStuck
  <2>1. ASSUME NEW t \in Tracks PROVE Room(t)
    <3>1. Len(chan[t]) =< 8 * Cardinality(TCE) + 3
      BY <1>1, ChannelHolds
    <3>2. Len(chan[t]) \in Nat /\ ChannelSize \in Nat /\ Cardinality(TCE) \in Nat
      BY <1>1, ConstantsAssumption, FS_CardinalityType DEF TypeOK
    <3> QED BY <3>1, <3>2 DEF Room
  <2>2. ASSUME NEW t \in Tracks, NEW c \in TCE, chan[t] # <<>>,
               Head(chan[t]) = For("UpdateAndReply", c)
        PROVE  Waits(<<"result", c>>)
    <3>1. 1 \in DOMAIN chan[t] /\ chan[t][1] = For("UpdateAndReply", c)
      <4>1. chan[t] \in Seq(Command)
        BY <1>1 DEF TypeOK
      <4> QED BY <2>2, <4>1
    <3>2. <<t, 1>> \in AnswersTo(c)
      BY <3>1, PlacesAre
    <3> QED BY <1>1, <3>2 DEF AnswersAreAwaited
  <2> QED BY <2>1, <2>2 DEF NobodyIsStuck
<1> QED BY <1>1, TypeCorrect, AnswersCorrect, WorkAlways, PTL

=============================================================================
