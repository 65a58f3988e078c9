----------------------- MODULE StatusBroadcast_proofs -----------------------
(***************************************************************************)
(* Proofs for StatusBroadcast, for any TCEs, report levels, batches and    *)
(* bounds: the stamps of a message tell the client that something was lost,*)
(* and, while the server is not restarted, only then.                      *)
(***************************************************************************)
EXTENDS StatusBroadcast, SequenceTheorems, FiniteSetTheorems, TLAPS

-----------------------------------------------------------------------------
(* Sequences *)

\* A sequence without its first element.
LEMMA TailFacts ==
  ASSUME NEW S, NEW s \in Seq(S), s # <<>>
  PROVE  /\ Tail(s) \in Seq(S) /\ Len(s) \in Nat \ {0}
         /\ Len(Tail(s)) = Len(s) - 1 /\ DOMAIN Tail(s) = 1 .. Len(s) - 1
         /\ \A k \in 1 .. Len(s) - 1 : Tail(s)[k] = s[k + 1]
         /\ Head(s) = s[1] /\ Head(s) \in S
<1>1. Len(s) \in Nat \ {0}
  BY EmptySeq
<1>2. Tail(s) \in Seq(S) /\ Len(Tail(s)) = Len(s) - 1 /\ Head(s) \in S
      /\ \A k \in 1 .. Len(Tail(s)) : Tail(s)[k] = s[k + 1]
  BY HeadTailProperties
<1>3. DOMAIN Tail(s) = 1 .. Len(Tail(s))
  BY <1>2, LenProperties
<1> QED BY <1>1, <1>2, <1>3

\* A sequence with one more element.
LEMMA AppendFacts ==
  ASSUME NEW S, NEW s \in Seq(S), NEW e \in S
  PROVE  /\ Append(s, e) \in Seq(S)
         /\ Len(s) \in Nat /\ DOMAIN s = 1 .. Len(s)
         /\ Len(Append(s, e)) = Len(s) + 1
         /\ DOMAIN Append(s, e) = 1 .. Len(s) + 1
         /\ \A k \in 1 .. Len(s) : Append(s, e)[k] = s[k]
         /\ Append(s, e)[Len(s) + 1] = e
  BY LenProperties

\* A function on the first numbers is a sequence.
LEMMA FirstNumbers ==
  ASSUME NEW S, NEW n \in Nat, NEW f \in [1 .. n -> S]
  PROVE  f \in Seq(S) /\ Len(f) = n /\ (n > 0 => f # <<>>)
<1>1. f \in Seq(S)
  BY SeqDef
<1>2. Len(f) = n
  BY <1>1, LenProperties
<1> QED BY <1>1, <1>2, EmptySeq

-----------------------------------------------------------------------------
(* Types *)

Change == [about : {"TCE", "TIE"}, tce : TCE, status : Statuses]
Used   == [reports : Nat, losses : Nat, failures : Nat, restarts : Nat]
Stamps == [tce : TCE, broadcast : 1 .. clock, previous : 1 .. clock]

\* A TCE, or a TIE of it, changes its status.
LEMMA EntryType ==
  ASSUME NEW c \in TCE, NEW s \in Statuses
  PROVE  /\ AboutTestCaseExecution(c, s) \in Change
         /\ AboutTestInstructionExecution(c, s) \in Change
  BY DEF AboutTestCaseExecution, AboutTestInstructionExecution, Entry, Change

\* One bound is used up by one.
LEMMA Counted ==
  ASSUME NEW u \in Used
  PROVE  /\ [u EXCEPT !.reports = @ + 1] \in Used
         /\ [u EXCEPT !.losses = @ + 1] \in Used
         /\ [u EXCEPT !.failures = @ + 1] \in Used
         /\ [u EXCEPT !.restarts = @ + 1] \in Used
         /\ [u EXCEPT !.reports = @ + 1].restarts = u.restarts
         /\ [u EXCEPT !.losses = @ + 1].restarts = u.restarts
         /\ [u EXCEPT !.failures = @ + 1].restarts = u.restarts
         /\ [u EXCEPT !.restarts = @ + 1].restarts = u.restarts + 1
  BY DEF Used

\* What a handler reports is a message, if it is anything.
LEMMA ReportType ==
  ASSUME TypeOK, BroadcastAssumption,
         NEW offered \in Seq(Change), NEW kept \in Seq(Change), Report(offered, kept)
  PROVE  TypeOK'
<1>1. ASSUME kept # <<>>
      PROVE  channel' \in Seq(Messages) /\ Len(channel') = Len(channel) + 1
  <2>1. kept \in Messages /\ channel \in Seq(Messages)
    BY <1>1 DEF TypeOK, Messages, Change
  <2>2. channel' = Append(channel, kept)
    BY <1>1 DEF Report
  <2> QED BY <2>1, <2>2, AppendFacts
<1>2. channel' \in Seq(Messages) /\ Len(channel') =< ChannelSize
  <2>1. Len(channel) \in Nat /\ ChannelSize \in Nat
    BY LenProperties DEF TypeOK, BroadcastAssumption
  <2> QED BY SMTT(30), <1>1, <2>1 DEF TypeOK, Report
<1>3. Range(offered) \subseteq Change
  BY LenProperties DEF Range
<1>4. withheld' \subseteq Change
  BY <1>3 DEF TypeOK, Report, Change
<1>5. used' \in Used
  BY Counted DEF TypeOK, Report, Used
<1>6. wire' \in Seq(Broadcasts') /\ UNCHANGED <<clock, stamps, received, gaps, lost>>
  BY DEF TypeOK, Report, Broadcasts
<1> QED BY <1>2, <1>4, <1>5, <1>6 DEF TypeOK, Change, Used

\* Reports have the types of messages.
LEMMA ReportsType ==
  ASSUME TypeOK, BroadcastAssumption,
         \/ \E batch \in Batches : ReportTestCaseStatuses(batch) \/ ReportSent(batch)
         \/ \E c \in TCE : ReportResult(c)
  PROVE  TypeOK' /\ UNCHANGED <<clock, stamps, wire, received, gaps, lost>>
                 /\ used'.restarts = used.restarts
<1>0. ASSUME NEW offered \in Seq(Change), NEW kept \in Seq(Change),
             Report(offered, kept)
      PROVE  TypeOK' /\ UNCHANGED <<clock, stamps, wire, received, gaps, lost>>
                     /\ used'.restarts = used.restarts
  BY <1>0, ReportType, Counted DEF Report, TypeOK, Used
<1> SUFFICES \E offered, kept \in Seq(Change) : Report(offered, kept)
  BY <1>0
<1>1. ASSUME NEW batch \in Batches, ReportTestCaseStatuses(batch)
      PROVE  \E offered, kept \in Seq(Change) : Report(offered, kept)
  <2>1. batch \in Seq(TCE) /\ Len(batch) \in Nat /\ DOMAIN batch = 1 .. Len(batch)
    BY LenProperties DEF BroadcastAssumption
  <2>2. PICK s \in TceStatuses :
          LET entries == [k \in DOMAIN batch |-> AboutTestCaseExecution(batch[k], s)]
              asked == {k \in DOMAIN batch : ShouldMessageBeBroadcasted(entries[k])}
          IN \E place \in Ascending(asked) :
               Report(entries, [k \in DOMAIN place |-> entries[place[k]]])
    BY <1>1 DEF ReportTestCaseStatuses
  <2> DEFINE entries == [k \in DOMAIN batch |-> AboutTestCaseExecution(batch[k], s)]
             asked == {k \in DOMAIN batch : ShouldMessageBeBroadcasted(entries[k])}
  <2>3. PICK place \in Ascending(asked) :
          Report(entries, [k \in DOMAIN place |-> entries[place[k]]])
    BY <2>2
  <2>4. \A k \in DOMAIN batch : entries[k] \in Change
    <3>1. s \in Statuses /\ \A k \in DOMAIN batch : batch[k] \in TCE
      BY <2>1, ElementOfSeq DEF BroadcastAssumption
    <3> QED BY <3>1, EntryType
  <2>5. entries \in Seq(Change)
    BY <2>1, <2>4, FirstNumbers
  <2>6. IsFiniteSet(asked)
    <3>1. IsFiniteSet(1 .. Len(batch)) /\ asked \in SUBSET (1 .. Len(batch))
      BY <2>1, FS_Interval
    <3> QED BY <3>1, FS_Subset
  <2>7. Cardinality(asked) \in Nat
    BY <2>6, FS_CardinalityType
  <2>8. place \in [1 .. Cardinality(asked) -> asked]
    BY DEF Ascending
  <2> DEFINE kept == [k \in DOMAIN place |-> entries[place[k]]]
  <2>9. kept \in [1 .. Cardinality(asked) -> Change]
    BY <2>8, <2>4
  <2>10. kept \in Seq(Change)
    BY <2>7, <2>9, FirstNumbers
  <2> QED BY <2>3, <2>5, <2>10
<1>2. ASSUME NEW batch \in Batches, ReportSent(batch)
      PROVE  \E offered, kept \in Seq(Change) : Report(offered, kept)
  <2>1. batch \in Seq(TCE) /\ Len(batch) \in Nat /\ DOMAIN batch = 1 .. Len(batch)
    BY LenProperties DEF BroadcastAssumption
  <2> DEFINE status(k, taken) == IF k \in taken THEN EXECUTING
                                 ELSE UNEXPECTED_INTERRUPTION_CAN_BE_RERUN
             entries(taken) == [k \in DOMAIN batch |->
                AboutTestInstructionExecution(batch[k], status(k, taken))]
  <2>2. PICK taken \in SUBSET DOMAIN batch :
          Report(entries(taken), IF ShouldMessageBeBroadcasted(entries(taken)[Len(batch)])
                                 THEN entries(taken) ELSE <<>>)
    BY <1>2 DEF ReportSent
  <2>3. \A k \in DOMAIN batch : status(k, taken) \in Statuses
    BY DEF Statuses, INITIATED, EXECUTING, UNEXPECTED_INTERRUPTION_CAN_BE_RERUN,
       TIMEOUT_INTERRUPTION
  <2>4. \A k \in DOMAIN batch : entries(taken)[k] \in Change
    BY <2>1, <2>3, EntryType, LenProperties
  <2>5. entries(taken) \in Seq(Change)
    BY <2>1, <2>4, FirstNumbers
  <2> HIDE DEF entries
  <2> QED BY <2>2, <2>5, EmptySeq
<1>3. ASSUME NEW c \in TCE, ReportResult(c)
      PROVE  \E offered, kept \in Seq(Change) : Report(offered, kept)
  <2>1. PICK s \in ResultStatuses :
          LET entry == AboutTestInstructionExecution(c, s)
          IN Report(<<entry>>,
                    IF ShouldMessageBeBroadcasted(entry) THEN <<entry>> ELSE <<>>)
    BY <1>3 DEF ReportResult
  <2>2. AboutTestInstructionExecution(c, s) \in Change
    BY EntryType DEF BroadcastAssumption
  <2>3. <<AboutTestInstructionExecution(c, s)>> \in Seq(Change) /\ <<>> \in Seq(Change)
    BY <2>2, EmptySeq
  <2> QED BY <2>1, <2>3
<1> QED BY <1>1, <1>2, <1>3

-----------------------------------------------------------------------------
(* Messages and stamps *)

\* Messages on the wire have entries, which are about TCEs and have stamps.
LEMMA WireFacts ==
  ASSUME TypeOK, NEW k \in DOMAIN wire
  PROVE  /\ DOMAIN wire = 1 .. Len(wire) /\ Len(wire) \in Nat /\ k \in 1 .. Len(wire)
         /\ wire[k] \in Seq(Stamps) /\ Len(wire[k]) \in Nat \ {0}
         /\ DOMAIN wire[k] = 1 .. Len(wire[k])
         /\ \A n \in DOMAIN wire[k] : wire[k][n] \in Stamps
         /\ StampOf(wire[k]) \in 1 .. clock /\ About(wire[k]) \subseteq TCE
<1>1. DOMAIN wire = 1 .. Len(wire) /\ Len(wire) \in Nat
  BY LenProperties DEF TypeOK
<1>2. wire[k] \in Seq(Stamps) /\ wire[k] # <<>>
  <2>1. wire \in Seq(Broadcasts) /\ k \in 1 .. Len(wire)
    BY <1>1 DEF TypeOK
  <2>2. wire[k] \in Broadcasts
    BY <2>1, ElementOfSeq
  <2> QED BY <2>2 DEF Broadcasts, Stamps
<1>3. Len(wire[k]) \in Nat \ {0} /\ DOMAIN wire[k] = 1 .. Len(wire[k])
  BY <1>2, LenProperties, EmptySeq
<1>4. \A n \in DOMAIN wire[k] : wire[k][n] \in Stamps
  BY <1>2, <1>3, ElementOfSeq
<1>5. StampOf(wire[k]) \in 1 .. clock /\ About(wire[k]) \subseteq TCE
  BY <1>3, <1>4 DEF StampOf, About, Stamps
<1> QED BY <1>1, <1>2, <1>3, <1>4, <1>5

\* Messages on the channel have entries, which are about TCEs.
LEMMA ChannelFacts ==
  ASSUME TypeOK, NEW k \in DOMAIN channel
  PROVE  /\ DOMAIN channel = 1 .. Len(channel) /\ Len(channel) \in Nat
         /\ channel[k] \in Messages /\ Len(channel[k]) \in Nat \ {0}
         /\ DOMAIN channel[k] = 1 .. Len(channel[k])
         /\ About(channel[k]) \subseteq TCE
<1>1. DOMAIN channel = 1 .. Len(channel) /\ Len(channel) \in Nat
  BY LenProperties DEF TypeOK
<1>2. channel[k] \in Seq(Change) /\ channel[k] # <<>> /\ channel[k] \in Messages
  <2>1. channel \in Seq(Messages) /\ k \in 1 .. Len(channel)
    BY <1>1 DEF TypeOK
  <2>2. channel[k] \in Messages
    BY <2>1, ElementOfSeq
  <2> QED BY <2>2 DEF Messages, Change
<1>3. Len(channel[k]) \in Nat \ {0} /\ DOMAIN channel[k] = 1 .. Len(channel[k])
  BY <1>2, LenProperties, EmptySeq
<1>4. \A n \in DOMAIN channel[k] : channel[k][n] \in Change
  BY <1>2, <1>3, ElementOfSeq
<1>5. About(channel[k]) \subseteq TCE
  BY <1>4 DEF About, Change
<1> QED BY <1>1, <1>2, <1>3, <1>5

\* Every stamp that is known of a TCE has been given.
LEMMA StampsBounded ==
  ASSUME TypeOK, NEW c
  PROVE  StampsOf(c) \subseteq 1 .. clock
<1>1. OnWire(c) \subseteq 1 .. clock
  BY WireFacts DEF OnWire
<1>2. LostOf(c) \subseteq 1 .. clock
  BY DEF TypeOK, LostOf
<1>3. HeardOf(c) \subseteq 1 .. clock
  BY DEF TypeOK, HeardOf
<1> QED BY <1>1, <1>2, <1>3 DEF StampsOf

\* The stamp 'now' of the TCEs of S.
StampAt(S, now) == {[tce |-> c, broadcast |-> now] : c \in S}

\* The stamp 'now' is lost of the TCEs of S.
LEMMA AlsoLost ==
  ASSUME NEW S, NEW now, NEW c, lost' = lost \cup StampAt(S, now)
  PROVE  LostOf(c)' = LostOf(c) \cup (IF c \in S THEN {now} ELSE {})
<1> DEFINE new == StampAt(S, now)
<1>1. \A l \in new : l.tce \in S /\ l.broadcast = now
  BY DEF StampAt
<1>2. c \in S => \E l \in new : l.tce = c /\ l.broadcast = now
  <2>1. c \in S => [tce |-> c, broadcast |-> now] \in new
    BY DEF StampAt
  <2> QED BY <2>1
<1> HIDE DEF new
<1>3. lost' = lost \cup new
  BY DEF new
<1> QED BY <1>1, <1>2, <1>3 DEF LostOf

\* Types do not narrow as time goes on.
LEMMA TimeGoesOn ==
  ASSUME TypeOK, clock' = clock + 1
  PROVE  /\ clock \in Nat /\ clock' \in Nat /\ 1 .. clock \subseteq 1 .. clock'
         /\ clock' \in 1 .. clock' /\ clock' \notin 1 .. clock
         /\ Broadcasts \subseteq Broadcasts' /\ wire \in Seq(Broadcasts')
         /\ stamps \in [DOMAIN stamps -> 1 .. clock']
         /\ received \in [DOMAIN received -> 1 .. clock']
         /\ lost \subseteq [tce : TCE, broadcast : 1 .. clock']
<1>0. clock \in Nat
  BY DEF TypeOK
<1>1. clock' \in Nat /\ 1 .. clock \subseteq 1 .. clock'
      /\ clock' \in 1 .. clock' /\ clock' \notin 1 .. clock
  BY <1>0
<1>2. Stamps \subseteq Stamps'
  BY <1>1 DEF Stamps
<1>3. Broadcasts \subseteq Broadcasts'
  <2>1. Seq(Stamps) \subseteq Seq(Stamps')
    BY <1>2, SeqMonotonic
  <2> QED BY <2>1 DEF Broadcasts, Stamps
<1>4. wire \in Seq(Broadcasts')
  BY <1>3, SeqMonotonic DEF TypeOK
<1>5. stamps \in [DOMAIN stamps -> 1 .. clock']
      /\ received \in [DOMAIN received -> 1 .. clock']
  BY <1>1 DEF TypeOK
<1>6. lost \subseteq [tce : TCE, broadcast : 1 .. clock']
  BY <1>1 DEF TypeOK
<1> QED BY <1>0, <1>1, <1>3, <1>4, <1>5, <1>6

\* A map in which a later stamp is written.
LEMMA WrittenFacts ==
  ASSUME NEW known, NEW S \in SUBSET TCE, NEW D, NEW now \in D,
         DOMAIN known \subseteq TCE, known \in [DOMAIN known -> D]
  PROVE  /\ DOMAIN Written(known, S, now) = DOMAIN known \cup S
         /\ Written(known, S, now) \in [DOMAIN known \cup S -> D]
         /\ \A c \in S : Written(known, S, now)[c] = now
         /\ \A c \in DOMAIN known \ S : Written(known, S, now)[c] = known[c]
  BY DEF Written

-----------------------------------------------------------------------------
(* A new stamp *)

\* A message gets the next stamp, whatever becomes of it: the map is right again.
LEMMA StampsStayRight ==
  ASSUME TypeOK, StampsRight, clock' = clock + 1, NEW S \in SUBSET TCE,
         stamps' = Written(stamps, S, clock'), used'.restarts = used.restarts,
         \A c \in TCE : StampsOf(c)' =
                          StampsOf(c) \cup (IF c \in S THEN {clock'} ELSE {})
  PROVE  StampsRight'
<1>1. /\ DOMAIN stamps' = DOMAIN stamps \cup S
      /\ \A c \in S : stamps'[c] = clock'
      /\ \A c \in DOMAIN stamps \ S : stamps'[c] = stamps[c]
  BY DEF Written
<1>2. \A c \in TCE : StampsOf(c) \subseteq 1 .. clock
  BY StampsBounded
<1>3. ASSUME NEW c \in S
      PROVE  stamps'[c] \in StampsOf(c)' /\ \A b \in StampsOf(c)' : b =< stamps'[c]
  <2>1. StampsOf(c)' = StampsOf(c) \cup {clock'} /\ stamps'[c] = clock'
    BY <1>1
  <2> QED BY <2>1, <1>2, TimeGoesOn
<1>4. ASSUME NEW c \in TCE \ S
      PROVE  StampsOf(c)' = StampsOf(c)
  OBVIOUS
<1> QED BY <1>1, <1>3, <1>4 DEF StampsRight

\* What an entry on the wire says of the broadcast before it stays true when others
\* get later stamps.
LEMMA NamesStay ==
  ASSUME TypeOK, PreviousRight, clock' = clock + 1,
         NEW k \in DOMAIN wire, NEW message, message = wire[k],
         NEW n \in DOMAIN message, used'.restarts = 0 => used.restarts = 0,
         \A c \in TCE : StampsOf(c) \subseteq StampsOf(c)'
                        /\ StampsOf(c)' \subseteq StampsOf(c) \cup {clock'}
  PROVE  NamesPrevious(message, n)'
<1>1. NamesPrevious(message, n)
  BY DEF PreviousRight
<1>2. message[n] \in Stamps
  BY WireFacts
<1> DEFINE e == message[n]
<1>3. e.tce \in TCE /\ e.broadcast \in 1 .. clock
  BY <1>2 DEF Stamps
<1>4. \A b \in StampsOf(e.tce)' : b \in StampsOf(e.tce) \/ b >= e.broadcast
  BY <1>3, TimeGoesOn
<1>5. StampsOf(e.tce) \subseteq StampsOf(e.tce)'
  BY <1>3
<1> QED BY <1>1, <1>4, <1>5 DEF NamesPrevious

-----------------------------------------------------------------------------
(* Publish *)

\* The stamped message has an entry for each change, with the new stamp.
LEMMA StampedFacts ==
  ASSUME TypeOK, NEW message \in Messages, NEW now, clock' = clock + 1, now = clock'
  PROVE  LET done == Stamped(message, stamps, now) IN
         /\ done.stamps = Written(stamps, About(message), now)
         /\ done.entries \in Broadcasts'
         /\ Len(done.entries) = Len(message) /\ DOMAIN done.entries = DOMAIN message
         /\ About(done.entries) = About(message)
         /\ StampOf(done.entries) = now
         /\ \A n \in DOMAIN message :
              /\ done.entries[n].tce = message[n].tce
              /\ done.entries[n].broadcast = now
              /\ done.entries[n].previous =
                   IF message[n].tce \in DOMAIN stamps /\ IsFirst(message, n)
                   THEN stamps[message[n].tce] ELSE now
         /\ \A n \in DOMAIN message : IsFirst(done.entries, n) <=> IsFirst(message, n)
<1> DEFINE previous(n) == IF message[n].tce \in DOMAIN stamps /\ IsFirst(message, n)
                          THEN stamps[message[n].tce] ELSE now
           entries == [n \in DOMAIN message |->
                         [tce |-> message[n].tce, broadcast |-> now,
                          previous |-> previous(n)]]
<1>1. /\ Stamped(message, stamps, now).stamps = Written(stamps, About(message), now)
      /\ Stamped(message, stamps, now).entries = entries
  BY DEF Stamped
<1>2. message \in Seq(Change) /\ message # <<>>
  BY DEF Messages, Change
<1>3. Len(message) \in Nat \ {0} /\ DOMAIN message = 1 .. Len(message)
  BY <1>2, LenProperties, EmptySeq
<1>4. \A n \in DOMAIN message : message[n].tce \in TCE
  <2>1. \A n \in DOMAIN message : message[n] \in Change
    BY <1>2, <1>3, ElementOfSeq
  <2> QED BY <2>1 DEF Change
<1>5. \A n \in DOMAIN message : previous(n) \in 1 .. clock'
  BY TimeGoesOn
<1>6. entries \in [1 .. Len(message) -> Stamps']
  <2> HIDE DEF previous
  <2> QED BY <1>3, <1>4, <1>5, TimeGoesOn DEF Stamps
<1>7. entries \in Seq(Stamps') /\ Len(entries) = Len(message) /\ entries # <<>>
  <2> HIDE DEF entries
  <2> QED BY <1>3, <1>6, FirstNumbers
<1>8. entries \in Broadcasts'
  BY <1>7 DEF Broadcasts, Stamps
<1>9. DOMAIN entries = DOMAIN message
      /\ \A n \in DOMAIN message :
              /\ entries[n].tce = message[n].tce
              /\ entries[n].broadcast = now
              /\ entries[n].previous = previous(n)
  OBVIOUS
<1> HIDE DEF entries
<1>10. About(entries) = About(message)
  BY <1>9 DEF About
<1>11. StampOf(entries) = now
  BY <1>3, <1>9 DEF StampOf
<1>12. \A n \in DOMAIN message : IsFirst(entries, n) <=> IsFirst(message, n)
  BY SMTT(30), <1>3, <1>9 DEF IsFirst
<1> QED BY <1>1, <1>7, <1>8, <1>9, <1>10, <1>11, <1>12

\* Publishing puts the message behind the others and keeps the types.
LEMMA PublishFacts ==
  ASSUME TypeOK, Publish
  PROVE  LET message == Head(channel)
             entries == Stamped(message, stamps, clock').entries IN
         /\ TypeOK' /\ message \in Messages /\ clock' = clock + 1
         /\ message = channel[1] /\ 1 \in DOMAIN channel
         /\ About(message) \subseteq TCE
         /\ stamps' = Written(stamps, About(message), clock')
         /\ DOMAIN wire = 1 .. Len(wire) /\ Len(wire) \in Nat
         /\ DOMAIN wire' = 1 .. Len(wire) + 1
         /\ \A k \in 1 .. Len(wire) : wire'[k] = wire[k]
         /\ wire'[Len(wire) + 1] = entries
<1> DEFINE message == Head(channel)
           entries == Stamped(message, stamps, clock').entries
<1>1. clock' = clock + 1 /\ channel # <<>>
  BY DEF Publish
<1>2. /\ channel' \in Seq(Messages) /\ Len(channel') =< ChannelSize
      /\ message \in Messages /\ message = channel[1] /\ 1 \in DOMAIN channel
  <2>1. channel \in Seq(Messages) /\ channel' = Tail(channel)
    BY DEF TypeOK, Publish
  <2>2. Len(channel') = Len(channel) - 1 /\ Len(channel) \in Nat \ {0}
        /\ channel' \in Seq(Messages) /\ message \in Messages /\ message = channel[1]
    BY <1>1, <2>1, TailFacts
  <2>3. 1 \in DOMAIN channel
    BY <2>1, <2>2, LenProperties
  <2>4. Len(channel) - 1 =< ChannelSize
    BY SMTT(30), <2>2, BroadcastAssumption DEF TypeOK, BroadcastAssumption
  <2> QED BY <2>2, <2>3, <2>4
<1>3. About(message) \subseteq TCE
  BY <1>2, ChannelFacts
<1>4. /\ stamps' = Written(stamps, About(message), clock')
      /\ entries \in Broadcasts' /\ wire' = Append(wire, entries)
  BY <1>1, <1>2, StampedFacts DEF Publish
<1> HIDE DEF entries, message
<1>5. DOMAIN stamps' \subseteq TCE /\ stamps' \in [DOMAIN stamps' -> 1 .. clock']
  <2>1. /\ DOMAIN stamps \subseteq TCE /\ stamps \in [DOMAIN stamps -> 1 .. clock']
        /\ clock' \in 1 .. clock'
    BY <1>1, TimeGoesOn DEF TypeOK
  <2>2. DOMAIN stamps' = DOMAIN stamps \cup About(message)
        /\ stamps' \in [DOMAIN stamps \cup About(message) -> 1 .. clock']
    BY <1>3, <1>4, <2>1, WrittenFacts
  <2> QED BY <1>3, <2>1, <2>2
<1>6. /\ wire' \in Seq(Broadcasts')
      /\ DOMAIN wire = 1 .. Len(wire) /\ Len(wire) \in Nat
      /\ DOMAIN wire' = 1 .. Len(wire) + 1
      /\ \A k \in 1 .. Len(wire) : wire'[k] = wire[k]
      /\ wire'[Len(wire) + 1] = entries
  <2>1. wire \in Seq(Broadcasts')
    BY <1>1, TimeGoesOn
  <2> QED BY <1>4, <2>1, AppendFacts
<1>7. TypeOK'
  BY <1>1, <1>2, <1>5, <1>6, TimeGoesOn DEF TypeOK, Publish
<1> QED BY <1>1, <1>2, <1>3, <1>4, <1>6, <1>7 DEF entries, message

\* What is published is one more stamp of its TCEs.
LEMMA PublishedStamps ==
  ASSUME TypeOK, Publish, NEW c
  PROVE  StampsOf(c)' = StampsOf(c) \cup
                          (IF c \in About(Head(channel)) THEN {clock'} ELSE {})
<1> DEFINE message == Head(channel)
           entries == Stamped(message, stamps, clock').entries
<1>1. About(entries) = About(message) /\ StampOf(entries) = clock'
  BY PublishFacts, StampedFacts
<1>2. /\ DOMAIN wire = 1 .. Len(wire) /\ Len(wire) \in Nat
      /\ DOMAIN wire' = 1 .. Len(wire) + 1
      /\ \A k \in 1 .. Len(wire) : wire'[k] = wire[k]
      /\ wire'[Len(wire) + 1] = entries
  BY PublishFacts
<1> HIDE DEF message, entries
<1>3. OnWire(c)' = OnWire(c) \cup (IF c \in About(message) THEN {clock'} ELSE {})
  <2>1. \A k \in DOMAIN wire : k \in DOMAIN wire' /\ wire'[k] = wire[k]
    BY <1>2
  <2>2. \A k \in DOMAIN wire' : k \in DOMAIN wire \/ k = Len(wire) + 1
    BY <1>2
  <2>3. Len(wire) + 1 \in DOMAIN wire'
    BY <1>2
  <2> QED BY <1>1, <1>2, <2>1, <2>2, <2>3 DEF OnWire
<1>4. LostOf(c)' = LostOf(c) /\ HeardOf(c)' = HeardOf(c)
  BY DEF Publish, LostOf, HeardOf
<1> QED BY <1>3, <1>4 DEF StampsOf, message

\* Publishing keeps the inductive invariant: the first entry about each TCE names
\* the stamp that the map has, which is the last of all.
LEMMA PublishKeeps ==
  ASSUME IInv, Publish
  PROVE  IInv'
<1> DEFINE message == Head(channel)
           entries == Stamped(message, stamps, clock').entries
<1> USE DEF IInv
<1>1. TypeOK'
  BY PublishFacts
<1>2. /\ message \in Messages /\ About(message) \subseteq TCE /\ clock' = clock + 1
      /\ stamps' = Written(stamps, About(message), clock')
      /\ DOMAIN wire = 1 .. Len(wire) /\ Len(wire) \in Nat
      /\ DOMAIN wire' = 1 .. Len(wire) + 1
      /\ \A k \in 1 .. Len(wire) : wire'[k] = wire[k]
      /\ wire'[Len(wire) + 1] = entries
  BY PublishFacts
<1>3. /\ DOMAIN entries = DOMAIN message
      /\ About(entries) = About(message) /\ StampOf(entries) = clock'
      /\ \A n \in DOMAIN message :
           /\ entries[n].tce = message[n].tce /\ entries[n].broadcast = clock'
           /\ entries[n].previous =
                IF message[n].tce \in DOMAIN stamps /\ IsFirst(message, n)
                THEN stamps[message[n].tce] ELSE clock'
           /\ IsFirst(entries, n) <=> IsFirst(message, n)
  BY <1>2, StampedFacts
<1>4. \A c : StampsOf(c)' = StampsOf(c) \cup
                              (IF c \in About(message) THEN {clock'} ELSE {})
  BY PublishedStamps
<1>5. used' = used /\ received' = received
  BY DEF Publish
<1> HIDE DEF message, entries
<1>6. \A c \in TCE : StampsOf(c) \subseteq 1 .. clock
  BY StampsBounded
<1>7. StampsRight'
  BY <1>2, <1>4, <1>5, StampsStayRight
<1>8. WireOrdered'
  <2>1. ASSUME NEW k \in DOMAIN wire', NEW n \in DOMAIN wire'[k]
        PROVE  wire'[k][n].broadcast = StampOf(wire'[k])
    <3>1. CASE k \in 1 .. Len(wire)
      BY <1>2, <2>1, <3>1 DEF WireOrdered
    <3>2. CASE k = Len(wire) + 1
      BY <1>2, <1>3, <2>1, <3>2
    <3> QED BY <1>2, <3>1, <3>2
  <2>2. ASSUME NEW j \in DOMAIN wire', NEW k \in DOMAIN wire', j < k
        PROVE  StampOf(wire'[j]) < StampOf(wire'[k])
    <3>1. j \in 1 .. Len(wire) /\ wire'[j] = wire[j] /\ StampOf(wire[j]) \in 1 .. clock
      BY <1>2, <2>2, WireFacts
    <3>2. CASE k \in 1 .. Len(wire)
      BY <1>2, <2>2, <3>1, <3>2 DEF WireOrdered
    <3>3. CASE k = Len(wire) + 1
      BY <1>2, <1>3, <3>1, <3>3, TimeGoesOn
    <3> QED BY <1>2, <3>2, <3>3
  <2>3. ASSUME NEW c \in DOMAIN received', NEW b \in OnWire(c)'
        PROVE  received'[c] < b
    <3>1. PICK k \in DOMAIN wire' : c \in About(wire'[k]) /\ b = StampOf(wire'[k])
      BY DEF OnWire
    <3>2. CASE k \in 1 .. Len(wire)
      <4>1. b \in OnWire(c)
        BY <1>2, <3>1, <3>2 DEF OnWire
      <4> QED BY <1>5, <4>1 DEF WireOrdered
    <3>3. CASE k = Len(wire) + 1
      BY <1>2, <1>3, <1>5, <3>1, <3>3, TimeGoesOn DEF TypeOK
    <3> QED BY <1>2, <3>2, <3>3
  <2> QED BY <2>1, <2>2, <2>3 DEF WireOrdered
<1>9. ASSUME NEW k \in DOMAIN wire', NEW m, m = wire'[k], NEW n \in DOMAIN m
      PROVE  NamesPrevious(m, n)'
  <2>1. CASE k \in 1 .. Len(wire)
    <3>1. k \in DOMAIN wire /\ m = wire[k]
      BY <1>2, <1>9, <2>1
    <3>2. \A c \in TCE : StampsOf(c) \subseteq StampsOf(c)'
                         /\ StampsOf(c)' \subseteq StampsOf(c) \cup {clock'}
      BY <1>4
    <3> QED BY <1>2, <1>5, <3>1, <3>2, NamesStay
  <2>2. CASE k = Len(wire) + 1
    <3> DEFINE c == m[n].tce
    <3>1. m = entries /\ n \in DOMAIN message
      BY <1>2, <1>3, <1>9, <2>2
    <3>2. /\ c = message[n].tce /\ m[n].broadcast = clock' /\ c \in About(message)
          /\ m[n].previous = IF c \in DOMAIN stamps /\ IsFirst(message, n)
                             THEN stamps[c] ELSE clock'
          /\ IsFirst(m, n) <=> IsFirst(message, n)
      BY <1>3, <3>1 DEF About
    <3>3. c \in TCE /\ StampsOf(c)' = StampsOf(c) \cup {clock'}
      BY <1>2, <1>4, <3>2
    <3> HIDE DEF c
    <3>4. CASE IsFirst(message, n) /\ c \in DOMAIN stamps
      <4>1. m[n].previous = stamps[c]
        BY <3>2, <3>4
      <4>2. stamps[c] \in StampsOf(c) /\ \A b \in StampsOf(c) : b =< stamps[c]
        BY <3>3, <3>4 DEF StampsRight
      <4>3. stamps[c] < clock'
        BY <1>6, <3>3, <4>2, TimeGoesOn, <1>2
      <4>4. \A b \in StampsOf(c)' : b =< stamps[c] \/ b >= clock'
        BY <3>3, <4>2, TimeGoesOn, <1>2
      <4>5. stamps[c] \in StampsOf(m[n].tce)' /\ stamps[c] # clock'
            /\ \A b \in StampsOf(m[n].tce)' : b =< stamps[c] \/ b >= clock'
        BY <1>6, <3>3, <4>2, <4>3, <4>4, TimeGoesOn, <1>2 DEF c
      <4> QED BY <3>2, <3>4, <4>1, <4>3, <4>5 DEF NamesPrevious
    <3>5. CASE IsFirst(message, n) /\ c \notin DOMAIN stamps
      <4>1. m[n].previous = clock'
        BY <3>2, <3>5
      <4>2. used.restarts = 0 => StampsOf(c)' = {clock'}
        BY <3>3, <3>5 DEF StampsRight
      <4> QED BY <1>2, <1>5, <3>2, <4>1, <4>2, TimeGoesOn DEF NamesPrevious, c
    <3>6. CASE ~ IsFirst(message, n)
      BY <3>2, <3>6 DEF NamesPrevious
    <3> QED BY <3>4, <3>5, <3>6
  <2> QED BY <1>2, <1>9, <2>1, <2>2
<1>10. PreviousRight'
  BY <1>9 DEF PreviousRight, NamesPrevious
<1> QED BY <1>1, <1>7, <1>8, <1>10

-----------------------------------------------------------------------------
(* Failures and restarts *)

\* Whatever a message on the channel would have been stamped with is lost, and the
\* wire stays as it is.
LEMMA LostBeforeTheWire ==
  ASSUME IInv, clock' = clock + 1, UNCHANGED <<wire, received>>,
         NEW S \in SUBSET TCE,
         lost' = lost \cup StampAt(S, clock'),
         used'.restarts = 0 => used.restarts = 0
  PROVE  /\ WireOrdered' /\ PreviousRight'
         /\ \A c : StampsOf(c)' = StampsOf(c) \cup (IF c \in S THEN {clock'} ELSE {})
         /\ lost' \subseteq [tce : TCE, broadcast : 1 .. clock']
<1>1. ASSUME NEW c
      PROVE  StampsOf(c)' = StampsOf(c) \cup (IF c \in S THEN {clock'} ELSE {})
  <2>0. PICK now : now = clock'
    OBVIOUS
  <2>1. LostOf(c)' = LostOf(c) \cup (IF c \in S THEN {clock'} ELSE {})
    BY <2>0, AlsoLost
  <2>2. OnWire(c)' = OnWire(c) /\ HeardOf(c)' = HeardOf(c)
    BY DEF OnWire, HeardOf
  <2> QED BY <2>1, <2>2 DEF StampsOf
<1>2. WireOrdered'
  BY DEF IInv, WireOrdered, OnWire
<1>3. ASSUME NEW k \in DOMAIN wire', NEW m, m = wire'[k], NEW n \in DOMAIN m
      PROVE  NamesPrevious(m, n)'
  BY <1>1, <1>3, NamesStay DEF IInv
<1>4. PreviousRight'
  BY <1>3 DEF PreviousRight, NamesPrevious
<1>5. lost' \subseteq [tce : TCE, broadcast : 1 .. clock']
  BY TimeGoesOn DEF IInv, StampAt
<1> QED BY <1>1, <1>2, <1>4, <1>5

\* A message that cannot be published keeps the inductive invariant.
LEMMA PublishFailsKeeps ==
  ASSUME IInv, PublishFails
  PROVE  IInv'
<1> DEFINE message == Head(channel)
<1> USE DEF IInv
<1>1. /\ clock' = clock + 1 /\ channel # <<>> /\ channel' = Tail(channel)
      /\ stamps' = Written(stamps, About(message), clock')
      /\ lost' = lost \cup StampAt(About(message), clock')
      /\ UNCHANGED <<withheld, wire, received, gaps>>
  BY DEF PublishFails, StampsWhatever, Stamped, LostWith, StampAt
<1>2. used' \in Used /\ used'.restarts = used.restarts
  BY Counted DEF PublishFails, TypeOK, Used
<1>3. channel' \in Seq(Messages) /\ Len(channel') =< ChannelSize
      /\ About(message) \subseteq TCE
  <2>1. Len(channel') = Len(channel) - 1 /\ Len(channel) \in Nat \ {0}
        /\ channel' \in Seq(Messages) /\ message = channel[1]
    BY <1>1, TailFacts DEF TypeOK
  <2>2. 1 \in DOMAIN channel
    BY <2>1, LenProperties DEF TypeOK
  <2>3. Len(channel) - 1 =< ChannelSize
    BY <2>1, BroadcastAssumption DEF TypeOK, BroadcastAssumption
  <2> QED BY <2>1, <2>2, <2>3, ChannelFacts
<1> HIDE DEF message
<1>4. DOMAIN stamps' \subseteq TCE /\ stamps' \in [DOMAIN stamps' -> 1 .. clock']
  <2>1. /\ DOMAIN stamps \subseteq TCE /\ stamps \in [DOMAIN stamps -> 1 .. clock']
        /\ clock' \in 1 .. clock'
    BY <1>1, TimeGoesOn DEF TypeOK
  <2>2. DOMAIN stamps' = DOMAIN stamps \cup About(message)
        /\ stamps' \in [DOMAIN stamps \cup About(message) -> 1 .. clock']
    BY <1>1, <1>3, <2>1, WrittenFacts
  <2> QED BY <1>3, <2>1, <2>2
<1>5. /\ WireOrdered' /\ PreviousRight'
      /\ \A c : StampsOf(c)' = StampsOf(c) \cup
                                 (IF c \in About(message) THEN {clock'} ELSE {})
      /\ lost' \subseteq [tce : TCE, broadcast : 1 .. clock']
  BY <1>1, <1>2, <1>3, LostBeforeTheWire
<1>6. StampsRight'
  BY <1>1, <1>2, <1>3, <1>5, StampsStayRight
<1>7. TypeOK'
  BY <1>1, <1>2, <1>3, <1>4, <1>5, TimeGoesOn DEF TypeOK, Used
<1> QED BY <1>5, <1>6, <1>7

\* A restart keeps the inductive invariant: it forgets the map, and what it says
\* from then on holds for this run of the server only.
LEMMA RestartKeeps ==
  ASSUME IInv, Restart
  PROVE  IInv'
<1> USE DEF IInv
<1> DEFINE S == UNION {About(channel[k]) : k \in DOMAIN channel}
<1>1. /\ clock' = clock + 1 /\ channel' = <<>> /\ stamps' = <<>>
      /\ UNCHANGED <<withheld, wire, received, gaps>>
  BY DEF Restart
<1>2. used' \in Used /\ used'.restarts = used.restarts + 1 /\ used.restarts \in Nat
  BY Counted DEF Restart, TypeOK, Used
<1>3. S \subseteq TCE
  BY ChannelFacts
<1>4. lost' = lost \cup StampAt(S, clock')
  <2>1. UNION {LostWith(channel[k], clock') : k \in DOMAIN channel}
          = StampAt(S, clock')
    BY DEF LostWith, StampAt
  <2> QED BY <2>1 DEF Restart
<1> HIDE DEF S
<1>5. WireOrdered' /\ PreviousRight' /\ lost' \subseteq [tce : TCE, broadcast : 1 .. clock']
  <2>1. PICK told : told = S
    OBVIOUS
  <2>2. used'.restarts # 0
    BY <1>2
  <2> QED BY <1>1, <1>3, <1>4, <2>1, <2>2, LostBeforeTheWire
<1>6. StampsRight'
  BY <1>1, <1>2 DEF StampsRight
<1>7. channel' \in Seq(Messages) /\ Len(channel') =< ChannelSize
  BY <1>1, EmptySeq, BroadcastAssumption DEF BroadcastAssumption
<1>8. TypeOK'
  BY SMTT(30), <1>1, <1>2, <1>5, <1>7, TimeGoesOn DEF TypeOK, Used
<1> QED BY <1>5, <1>6, <1>8

-----------------------------------------------------------------------------
(* Loss *)

\* A lost message is no longer on the wire, and the others are in their order.
LEMMA LoseFacts ==
  ASSUME TypeOK, NEW k \in DOMAIN wire, Lose(k)
  PROVE  /\ wire' \in Seq(Broadcasts)
         /\ DOMAIN wire = 1 .. Len(wire) /\ Len(wire) \in Nat
         /\ DOMAIN wire' = 1 .. Len(wire) - 1
         /\ \A n \in 1 .. Len(wire) - 1 :
              wire'[n] = IF n < k THEN wire[n] ELSE wire[n + 1]
<1>1. DOMAIN wire = 1 .. Len(wire) /\ Len(wire) \in Nat /\ k \in 1 .. Len(wire)
      /\ wire \in Seq(Broadcasts)
  BY LenProperties DEF TypeOK
<1>2. wire' = [n \in 1 .. Len(wire) - 1 |-> IF n < k THEN wire[n] ELSE wire[n + 1]]
  BY DEF Lose
<1>3. \A n \in 1 .. Len(wire) : wire[n] \in Broadcasts
  BY <1>1, ElementOfSeq
<1>4. \A n \in 1 .. Len(wire) - 1 : n \in 1 .. Len(wire) /\ n + 1 \in 1 .. Len(wire)
  BY <1>1
<1>5. wire' \in [1 .. Len(wire) - 1 -> Broadcasts]
  BY <1>2, <1>3, <1>4
<1>6. wire' \in Seq(Broadcasts)
  BY <1>1, <1>5, FirstNumbers
<1> QED BY <1>1, <1>2, <1>6

\* The stamps of a lost message are still known of its TCEs.
LEMMA LoseKeepsStamps ==
  ASSUME TypeOK, NEW k \in DOMAIN wire, Lose(k), NEW c
  PROVE  StampsOf(c)' = StampsOf(c) /\ OnWire(c)' \subseteq OnWire(c)
<1> DEFINE S == About(wire[k])
           b == StampOf(wire[k])
<1>1. LostOf(c)' = LostOf(c) \cup (IF c \in S THEN {b} ELSE {})
  <2>1. PICK told, now : told = S /\ now = b
    OBVIOUS
  <2>2. lost' = lost \cup StampAt(told, now)
    BY <2>1 DEF Lose, LostWith, StampAt
  <2>3. LostOf(c)' = LostOf(c) \cup (IF c \in told THEN {now} ELSE {})
    BY <2>2, AlsoLost
  <2> QED BY <2>1, <2>3
<1>2. OnWire(c)' \subseteq OnWire(c)
  <2>1. \A n \in DOMAIN wire' : \E j \in DOMAIN wire : wire'[n] = wire[j]
    BY LoseFacts
  <2> QED BY <2>1 DEF OnWire
<1>3. OnWire(c) \subseteq OnWire(c)' \cup (IF c \in S THEN {b} ELSE {})
  <2>1. ASSUME NEW j \in DOMAIN wire, j # k
        PROVE  \E n \in DOMAIN wire' : wire'[n] = wire[j]
    <3>1. CASE j < k
      <4>1. j \in DOMAIN wire' /\ wire'[j] = wire[j]
        BY <3>1, LoseFacts
      <4> QED BY <4>1
    <3>2. CASE j > k
      <4>1. j - 1 \in DOMAIN wire' /\ wire'[j - 1] = wire[j]
        BY <3>2, LoseFacts, WireFacts
      <4> QED BY <4>1
    <3> QED BY <2>1, <3>1, <3>2, LoseFacts, WireFacts
  <2>2. ASSUME NEW x \in OnWire(c)
        PROVE  x \in OnWire(c)' \/ (c \in S /\ x = b)
    <3>1. PICK j \in DOMAIN wire : c \in About(wire[j]) /\ x = StampOf(wire[j])
      BY <2>2 DEF OnWire
    <3>2. CASE j = k
      BY <3>1, <3>2
    <3>3. CASE j # k
      BY <2>1, <3>1, <3>3 DEF OnWire
    <3> QED BY <3>2, <3>3
  <2> QED BY <2>2
<1>4. c \in S => b \in OnWire(c)
  BY DEF OnWire
<1>5. HeardOf(c)' = HeardOf(c)
  BY DEF Lose, HeardOf
<1> HIDE DEF S, b
<1> QED BY <1>1, <1>2, <1>3, <1>4, <1>5 DEF StampsOf

\* A loss keeps the inductive invariant.
LEMMA LoseKeeps ==
  ASSUME IInv, NEW k \in DOMAIN wire, Lose(k)
  PROVE  IInv'
<1> USE DEF IInv
<1>1. /\ UNCHANGED <<channel, withheld, clock, stamps, received, gaps>>
      /\ lost' = lost \cup LostWith(wire[k], StampOf(wire[k]))
  BY DEF Lose
<1>2. used' \in Used /\ used'.restarts = used.restarts
  BY Counted DEF Lose, TypeOK, Used
<1>3. \A c : StampsOf(c)' = StampsOf(c) /\ OnWire(c)' \subseteq OnWire(c)
  BY LoseKeepsStamps
<1>4. /\ wire' \in Seq(Broadcasts)
      /\ DOMAIN wire = 1 .. Len(wire) /\ Len(wire) \in Nat
      /\ DOMAIN wire' = 1 .. Len(wire) - 1
      /\ \A n \in 1 .. Len(wire) - 1 :
              wire'[n] = IF n < k THEN wire[n] ELSE wire[n + 1]
  BY LoseFacts
<1>5. TypeOK'
  <2>1. lost' \subseteq [tce : TCE, broadcast : 1 .. clock]
    BY <1>1, WireFacts DEF TypeOK, LostWith
  <2>2. wire' \in Seq(Broadcasts')
    BY <1>1, <1>4 DEF Broadcasts
  <2> QED BY <1>1, <1>2, <2>1, <2>2 DEF TypeOK, Used
<1>6. StampsRight'
  BY <1>1, <1>2, <1>3 DEF StampsRight
<1>7. WireOrdered'
  <2>1. \A n \in DOMAIN wire' : \A i \in DOMAIN wire'[n] :
          wire'[n][i].broadcast = StampOf(wire'[n])
    <3>1. \A n \in DOMAIN wire' : \E j \in DOMAIN wire : wire'[n] = wire[j]
      BY SMTT(30), <1>4
    <3> QED BY <3>1 DEF WireOrdered
  <2>2. ASSUME NEW i \in DOMAIN wire', NEW j \in DOMAIN wire', i < j
        PROVE  StampOf(wire'[i]) < StampOf(wire'[j])
    <3>1. PICK p \in DOMAIN wire, q \in DOMAIN wire :
            wire'[i] = wire[p] /\ wire'[j] = wire[q] /\ p < q
      <4> DEFINE p == IF i < k THEN i ELSE i + 1
                 q == IF j < k THEN j ELSE j + 1
      <4>1. p \in DOMAIN wire /\ q \in DOMAIN wire /\ p < q
        BY <1>4, <2>2
      <4>2. wire'[i] = wire[p] /\ wire'[j] = wire[q]
        BY <1>4
      <4> HIDE DEF p, q
      <4> QED BY <4>1, <4>2
    <3> QED BY <3>1 DEF WireOrdered
  <2>3. \A c \in DOMAIN received' : \A b \in OnWire(c)' : received'[c] < b
    BY <1>1, <1>3 DEF WireOrdered
  <2> QED BY <2>1, <2>2, <2>3 DEF WireOrdered
<1>8. ASSUME NEW n \in DOMAIN wire', NEW m, m = wire'[n], NEW i \in DOMAIN m
      PROVE  NamesPrevious(m, i)'
  <2>1. PICK j \in DOMAIN wire : m = wire[j]
    BY <1>4, <1>8
  <2>2. NamesPrevious(m, i)
    BY <1>8, <2>1 DEF PreviousRight
  <2> QED BY <1>2, <1>3, <2>2 DEF NamesPrevious
<1>9. PreviousRight'
  BY <1>8 DEF PreviousRight, NamesPrevious
<1> QED BY <1>5, <1>6, <1>7, <1>9

-----------------------------------------------------------------------------
(* Receipt *)

\* The first message is taken from the wire, and the client has its stamp for each
\* TCE that it is about.
LEMMA ReceiveFacts ==
  ASSUME IInv, Receive
  PROVE  /\ wire' \in Seq(Broadcasts) /\ 1 \in DOMAIN wire
         /\ DOMAIN wire = 1 .. Len(wire) /\ Len(wire) \in Nat
         /\ DOMAIN wire' = 1 .. Len(wire) - 1
         /\ \A k \in 1 .. Len(wire) - 1 : wire'[k] = wire[k + 1]
         /\ About(wire[1]) \subseteq TCE /\ StampOf(wire[1]) \in 1 .. clock
         /\ DOMAIN received' = DOMAIN received \cup About(wire[1])
         /\ \A c \in About(wire[1]) : received'[c] = StampOf(wire[1])
         /\ \A c \in DOMAIN received \ About(wire[1]) : received'[c] = received[c]
         /\ TypeOK'
<1> USE DEF IInv
<1>1. wire \in Seq(Broadcasts) /\ wire # <<>> /\ wire' = Tail(wire)
  BY DEF Receive, TypeOK
<1>2. /\ wire' \in Seq(Broadcasts) /\ Len(wire) \in Nat \ {0}
      /\ DOMAIN wire' = 1 .. Len(wire) - 1
      /\ \A k \in 1 .. Len(wire) - 1 : wire'[k] = wire[k + 1]
      /\ Head(wire) = wire[1]
  BY <1>1, TailFacts
<1>3. DOMAIN wire = 1 .. Len(wire) /\ 1 \in DOMAIN wire
  BY <1>1, <1>2, LenProperties
<1>4. /\ About(wire[1]) \subseteq TCE /\ StampOf(wire[1]) \in 1 .. clock
      /\ DOMAIN wire[1] = 1 .. Len(wire[1])
      /\ \A n \in DOMAIN wire[1] : wire[1][n].tce \in TCE
  BY <1>3, WireFacts DEF Stamps
<1>5. received' = Written(received, About(wire[1]), StampOf(wire[1]))
  <2>1. received' = Heard(wire[1], Len(wire[1]), received)
    BY <1>2 DEF Receive
  <2>2. About(wire[1]) = {wire[1][k].tce : k \in 1 .. Len(wire[1])}
    BY <1>4 DEF About
  <2> QED BY <2>1, <2>2 DEF Heard
<1>6. /\ DOMAIN received' = DOMAIN received \cup About(wire[1])
      /\ \A c \in About(wire[1]) : received'[c] = StampOf(wire[1])
      /\ \A c \in DOMAIN received \ About(wire[1]) : received'[c] = received[c]
      /\ received' \in [DOMAIN received' -> 1 .. clock]
  BY <1>4, <1>5 DEF TypeOK, Written
<1>7. gaps' \subseteq TCE
  BY <1>2, <1>4 DEF Receive
<1>8. TypeOK'
  BY <1>2, <1>4, <1>6, <1>7 DEF Receive, TypeOK, Broadcasts
<1> QED BY <1>2, <1>3, <1>4, <1>6, <1>8

\* The stamps of a TCE of which the client has heard are the ones it has now and
\* those after it; the others are as they were.
LEMMA ReceivedStamps ==
  ASSUME IInv, Receive, NEW c
  PROVE  /\ StampsOf(c)' \subseteq StampsOf(c)
         /\ OnWire(c)' \subseteq OnWire(c)
         /\ c \in About(wire[1]) =>
              /\ StampOf(wire[1]) \in StampsOf(c)'
              /\ \A b \in StampsOf(c) :
                   b \in StampsOf(c)' \/ (c \in DOMAIN received /\ b = received[c])
         /\ c \notin About(wire[1]) => StampsOf(c)' = StampsOf(c)
<1> DEFINE told == About(wire[1])
           now == StampOf(wire[1])
<1>1. /\ 1 \in DOMAIN wire /\ DOMAIN wire = 1 .. Len(wire) /\ Len(wire) \in Nat
      /\ DOMAIN wire' = 1 .. Len(wire) - 1
      /\ \A k \in 1 .. Len(wire) - 1 : wire'[k] = wire[k + 1]
      /\ DOMAIN received' = DOMAIN received \cup told
      /\ \A d \in told : received'[d] = now
      /\ \A d \in DOMAIN received \ told : received'[d] = received[d]
  BY ReceiveFacts
<1>2. OnWire(c)' \subseteq OnWire(c)
  <2>1. \A k \in DOMAIN wire' : \E j \in DOMAIN wire : wire'[k] = wire[j]
    BY <1>1
  <2> QED BY <2>1 DEF OnWire
<1>3. OnWire(c) \subseteq OnWire(c)' \cup (IF c \in told THEN {now} ELSE {})
  <2>1. ASSUME NEW k \in DOMAIN wire, k # 1
        PROVE  \E j \in DOMAIN wire' : wire'[j] = wire[k]
    <3>1. k - 1 \in DOMAIN wire' /\ wire'[k - 1] = wire[k]
      BY <1>1, <2>1
    <3> QED BY <3>1
  <2> QED BY <2>1 DEF OnWire
<1>4. c \in told => now \in OnWire(c)
  BY <1>1 DEF OnWire
<1>5. LostOf(c)' = LostOf(c)
  BY DEF Receive, LostOf
<1>6. c \in told => HeardOf(c)' = {now}
  BY <1>1 DEF HeardOf
<1>7. c \notin told => HeardOf(c)' = HeardOf(c)
  BY <1>1 DEF HeardOf
<1>8. \A b \in HeardOf(c) : c \in DOMAIN received /\ b = received[c]
  BY DEF HeardOf
<1> HIDE DEF told, now
<1> QED BY <1>2, <1>3, <1>4, <1>5, <1>6, <1>7, <1>8 DEF StampsOf, told, now

\* Receipt keeps the inductive invariant: of the stamps of a TCE only the one that
\* the client had before goes, which nothing on the wire follows on any more.
LEMMA ReceiveKeeps ==
  ASSUME IInv, Receive
  PROVE  IInv'
<1> USE DEF IInv
<1> DEFINE told == About(wire[1])
           now == StampOf(wire[1])
<1>1. /\ 1 \in DOMAIN wire /\ DOMAIN wire = 1 .. Len(wire) /\ Len(wire) \in Nat
      /\ DOMAIN wire' = 1 .. Len(wire) - 1
      /\ \A k \in 1 .. Len(wire) - 1 : wire'[k] = wire[k + 1]
      /\ told \subseteq TCE /\ now \in 1 .. clock /\ clock \in Nat
      /\ DOMAIN received' = DOMAIN received \cup told
      /\ \A d \in told : received'[d] = now
      /\ \A d \in DOMAIN received \ told : received'[d] = received[d]
      /\ TypeOK'
  BY ReceiveFacts DEF TypeOK
<1>2. UNCHANGED <<channel, withheld, clock, stamps, lost, used>>
  BY DEF Receive
<1>3. \A c : /\ StampsOf(c)' \subseteq StampsOf(c)
             /\ OnWire(c)' \subseteq OnWire(c)
             /\ c \in told =>
                  /\ now \in StampsOf(c)'
                  /\ \A b \in StampsOf(c) :
                       b \in StampsOf(c)' \/ (c \in DOMAIN received /\ b = received[c])
             /\ c \notin told => StampsOf(c)' = StampsOf(c)
  BY ReceivedStamps
<1>4. \A c \in told : c \in DOMAIN received => received[c] < now /\ received[c] \in Nat
  <2>1. \A c \in told : now \in OnWire(c)
    BY <1>1 DEF OnWire
  <2> QED BY <2>1 DEF WireOrdered, TypeOK
<1>5. \A k \in DOMAIN wire : k # 1 => now < StampOf(wire[k])
  BY <1>1 DEF WireOrdered
<1>6. \A k \in DOMAIN wire' : k + 1 \in DOMAIN wire /\ k + 1 # 1 /\ wire'[k] = wire[k + 1]
  BY <1>1
<1>7. \A c \in TCE : StampsOf(c) \subseteq 1 .. clock
  BY StampsBounded
<1> HIDE DEF told, now
<1>8. StampsRight'
  <2>1. ASSUME NEW c \in TCE, c \in DOMAIN stamps
        PROVE  stamps[c] \in StampsOf(c)' /\ \A b \in StampsOf(c)' : b =< stamps[c]
    <3>1. stamps[c] \in StampsOf(c) /\ \A b \in StampsOf(c) : b =< stamps[c]
      BY <2>1 DEF StampsRight
    <3>2. CASE c \in told
      <4>1. now =< stamps[c] /\ now \in StampsOf(c)
        BY <1>3, <3>1, <3>2
      <4>2. c \in DOMAIN received => stamps[c] # received[c]
        BY <1>1, <1>4, <1>7, <3>1, <3>2, <4>1
      <4> QED BY <1>3, <3>1, <3>2, <4>2
    <3> QED BY <1>3, <3>1, <3>2
  <2>2. \A c \in TCE \ DOMAIN stamps : used.restarts = 0 => StampsOf(c)' = {}
    BY <1>3 DEF StampsRight
  <2> QED BY <1>2, <2>1, <2>2 DEF StampsRight
<1>9. WireOrdered'
  <2>1. \A k \in DOMAIN wire' : \A n \in DOMAIN wire'[k] :
          wire'[k][n].broadcast = StampOf(wire'[k])
    BY <1>6 DEF WireOrdered
  <2>2. \A j, k \in DOMAIN wire' : j < k => StampOf(wire'[j]) < StampOf(wire'[k])
    <3> SUFFICES ASSUME NEW j \in DOMAIN wire', NEW k \in DOMAIN wire', j < k
                 PROVE  StampOf(wire'[j]) < StampOf(wire'[k])
      OBVIOUS
    <3>1. j + 1 < k + 1
      BY <1>1
    <3> QED BY <1>6, <3>1 DEF WireOrdered
  <2>3. ASSUME NEW c \in DOMAIN received', NEW b \in OnWire(c)'
        PROVE  received'[c] < b
    <3>1. CASE c \in told
      <4>1. PICK k \in DOMAIN wire' : b = StampOf(wire'[k])
        BY <2>3 DEF OnWire
      <4> QED BY <1>1, <1>5, <1>6, <3>1, <4>1
    <3>2. CASE c \notin told
      BY <1>1, <1>3, <2>3, <3>2 DEF WireOrdered
    <3> QED BY <3>1, <3>2
  <2> QED BY <2>1, <2>2, <2>3 DEF WireOrdered
<1>10. ASSUME NEW k \in DOMAIN wire', NEW m, m = wire'[k], NEW n \in DOMAIN m
       PROVE  NamesPrevious(m, n)'
  <2>1. k + 1 \in DOMAIN wire /\ m = wire[k + 1] /\ now < StampOf(m)
    BY <1>5, <1>6, <1>10
  <2>2. NamesPrevious(m, n)
    BY <1>10, <2>1 DEF PreviousRight
  <2> DEFINE c == m[n].tce
             p == m[n].previous
  <2>3. /\ c \in TCE /\ p \in 1 .. clock /\ m[n].broadcast \in 1 .. clock
        /\ m[n].broadcast = StampOf(m)
    <3>1. m[n] \in Stamps
      BY <1>10, <2>1, WireFacts
    <3> QED BY <1>10, <2>1, <3>1 DEF Stamps, WireOrdered
  <2>4. p # m[n].broadcast => p \in StampsOf(c)'
    <3> SUFFICES ASSUME p # m[n].broadcast, c \in told PROVE p \in StampsOf(c)'
      BY <1>3, <2>2 DEF NamesPrevious
    <3>1. /\ p < m[n].broadcast /\ p \in StampsOf(c)
          /\ \A b \in StampsOf(c) : b =< p \/ b >= m[n].broadcast
      BY <2>2 DEF NamesPrevious
    <3>2. now =< p
      BY <1>1, <1>3, <2>1, <2>3, <3>1
    <3>3. c \in DOMAIN received => received[c] # p
      BY <1>1, <1>4, <2>3, <3>2
    <3> QED BY <1>3, <3>1, <3>3
  <2>5. StampsOf(c)' \subseteq StampsOf(c)
    BY <1>3
  <2> QED BY <1>2, <2>2, <2>4, <2>5 DEF NamesPrevious
<1>11. PreviousRight'
  BY <1>10 DEF PreviousRight, NamesPrevious
<1> QED BY <1>1, <1>8, <1>9, <1>11

\* Each TCE of a message has a first entry in it.
LEMMA FirstEntry ==
  ASSUME NEW message, Len(message) \in Nat, DOMAIN message = 1 .. Len(message),
         NEW c \in About(message)
  PROVE  \E n \in DOMAIN message : message[n].tce = c /\ IsFirst(message, n)
<1> DEFINE Less == OpToRel(<, Nat)
           places == {n \in DOMAIN message : message[n].tce = c}
<1>1. IsWellFoundedOn(Less, Nat)
  BY NatLessThanWellFounded
<1>2. \A m, n \in Nat : m < n => <<m, n>> \in Less
  BY DEF OpToRel
<1>3. places \subseteq Nat /\ places # {}
  BY DEF About
<1> HIDE DEF Less, places
<1>4. PICK n \in places : \A m \in places : <<m, n>> \notin Less
  BY <1>1, <1>3, WFMin
<1>5. \A m \in places : ~ (m < n)
  BY <1>2, <1>3, <1>4, Zenon
<1>6. n \in DOMAIN message /\ message[n].tce = c
  BY DEF places
<1>7. \A j \in 1 .. n - 1 : j \in DOMAIN message /\ j < n
  BY <1>6
<1> QED BY <1>5, <1>6, <1>7 DEF places, IsFirst

\* The client misses something exactly if the first entry does not follow on
\* what it had: the later ones follow on the first.
LEMMA FirstEntryDecides ==
  ASSUME IInv, Receive, NEW n \in DOMAIN wire[1], IsFirst(wire[1], n)
  PROVE  LET e == wire[1][n] IN e.tce \in gaps' <=> ~ FollowsOn(e, received)
<1> DEFINE m == wire[1]
           c == m[n].tce
<1> USE DEF IInv
<1>1. /\ 1 \in DOMAIN wire /\ m \in Seq(Stamps) /\ Len(m) \in Nat
      /\ DOMAIN m = 1 .. Len(m) /\ \A j \in DOMAIN m : m[j] \in Stamps
  BY ReceiveFacts, WireFacts
<1>2. wire # <<>> /\ Head(wire) = m
  BY TailFacts DEF Receive, TypeOK
<1>3. gaps' = {m[k].tce : k \in {j \in DOMAIN m :
                                   ~ FollowsOn(m[j], Heard(m, j - 1, received))}}
  BY <1>2 DEF Receive
<1>4. ASSUME NEW j \in DOMAIN m, m[j].tce = c, j # n
      PROVE  FollowsOn(m[j], Heard(m, j - 1, received))
  <2>1. n < j
    BY <1>1, <1>4 DEF IsFirst
  <2>2. ~ IsFirst(m, j)
    BY <1>1, <1>4, <2>1 DEF IsFirst
  <2>3. m[j].previous = m[j].broadcast /\ m[j].broadcast = StampOf(m)
    BY <1>1, <2>2 DEF PreviousRight, NamesPrevious, WireOrdered
  <2>4. c \in {m[k].tce : k \in 1 .. j - 1}
    BY <1>1, <2>1
  <2>5. c \in DOMAIN Heard(m, j - 1, received)
        /\ Heard(m, j - 1, received)[c] = StampOf(m)
    BY <2>4 DEF Heard, Written
  <2> QED BY <1>4, <2>3, <2>5 DEF FollowsOn
<1>5. FollowsOn(m[n], Heard(m, n - 1, received)) <=> FollowsOn(m[n], received)
  <2>1. c \notin {m[k].tce : k \in 1 .. n - 1}
    BY DEF IsFirst
  <2>2. c \in DOMAIN Heard(m, n - 1, received) <=> c \in DOMAIN received
    BY <2>1 DEF Heard, Written
  <2>3. c \in DOMAIN received => Heard(m, n - 1, received)[c] = received[c]
    BY <2>1 DEF Heard, Written
  <2> QED BY <2>2, <2>3 DEF FollowsOn
<1> HIDE DEF m
<1> QED BY <1>3, <1>4, <1>5 DEF m

-----------------------------------------------------------------------------
(* What the client can tell *)

\* The client hears news only by a receipt, and what it hears of is what the message
\* is about.
LEMMA NewsByReceipt ==
  ASSUME IInv, Next, NEW c \in News
  PROVE  Receive /\ c \in About(wire[1])
<1>1. ASSUME UNCHANGED received PROVE FALSE
  BY <1>1 DEF News
<1>2. Receive
  BY <1>1, ReportsType, BroadcastAssumption
     DEF IInv, Next, Publish, PublishFails, Lose, Restart
<1> QED BY <1>2, ReceiveFacts DEF News

\* In a receipt, what the first entry about a TCE says and what was lost agree.
LEMMA ReceiptTells ==
  ASSUME IInv, Receive, NEW c \in About(wire[1])
  PROVE  /\ (c \in DOMAIN received \/ used.restarts = 0) /\ Missed(c) => c \in gaps'
         /\ c \in gaps' /\ used.restarts = 0 => Missed(c)
<1> USE DEF IInv
<1> DEFINE m == wire[1]
           now == StampOf(m)
<1>1. /\ 1 \in DOMAIN wire /\ DOMAIN wire = 1 .. Len(wire) /\ Len(wire) \in Nat
      /\ c \in TCE /\ now \in 1 .. clock /\ clock \in Nat /\ received'[c] = now
  BY ReceiveFacts DEF TypeOK
<1>2. /\ Len(m) \in Nat /\ DOMAIN m = 1 .. Len(m) /\ \A j \in DOMAIN m : m[j] \in Stamps
  BY <1>1, WireFacts
<1>3. PICK n \in DOMAIN m : m[n].tce = c /\ IsFirst(m, n)
  BY <1>2, FirstEntry
<1>4. c \in gaps' <=> ~ FollowsOn(m[n], received)
  BY <1>3, FirstEntryDecides
<1> DEFINE p == m[n].previous
<1>5. m[n].broadcast = now /\ p \in Nat
  BY <1>1, <1>2 DEF WireOrdered, Stamps
<1>6. NamesPrevious(m, n)
  BY <1>1 DEF PreviousRight
<1>7. c \in DOMAIN received =>
        received[c] < now /\ received[c] \in Nat /\ received[c] \in StampsOf(c)
  BY <1>1 DEF WireOrdered, OnWire, TypeOK, StampsOf, HeardOf
<1>8. \A l \in lost : l.tce = c => l.broadcast \in StampsOf(c) /\ l.broadcast \in Nat
  BY DEF StampsOf, LostOf, TypeOK
<1>9. ASSUME NEW b \in StampsOf(c), b < now
      PROVE  \/ \E l \in lost : l.tce = c /\ l.broadcast = b
             \/ c \in DOMAIN received /\ b = received[c]
  <2>1. b \notin OnWire(c)
    <3>1. \A k \in DOMAIN wire : k = 1 \/ now < StampOf(wire[k])
      BY <1>1 DEF WireOrdered
    <3> QED BY <1>1, <1>9, <3>1, WireFacts DEF OnWire
  <2> QED BY <2>1, <1>9 DEF StampsOf, LostOf, HeardOf
<1> HIDE DEF m, now, p
<1>10. /\ p # now => /\ p < now /\ p \in StampsOf(c)
                     /\ \A b \in StampsOf(c) : b =< p \/ b >= now
       /\ p = now /\ used.restarts = 0 => \A b \in StampsOf(c) : b >= now
  BY <1>3, <1>5, <1>6 DEF NamesPrevious, p
<1>11. c \in gaps' <=> IF c \in DOMAIN received THEN p # received[c] ELSE p # now
  BY <1>3, <1>4, <1>5 DEF FollowsOn, p
<1>12. Missed(c) <=> \E l \in lost : /\ l.tce = c /\ l.broadcast < now
                                     /\ c \in DOMAIN received => l.broadcast > received[c]
  BY <1>1 DEF Missed
<1>13. ASSUME c \in DOMAIN received \/ used.restarts = 0, Missed(c)
       PROVE  c \in gaps'
  <2>1. PICK l \in lost : /\ l.tce = c /\ l.broadcast < now
                          /\ c \in DOMAIN received => l.broadcast > received[c]
    BY <1>12, <1>13
  <2>2. l.broadcast \in StampsOf(c) /\ l.broadcast \in Nat
    BY <1>8, <2>1
  <2>3. CASE c \in DOMAIN received
    BY <1>1, <1>5, <1>7, <1>10, <1>11, <2>1, <2>2, <2>3
  <2>4. CASE c \notin DOMAIN received
    BY <1>1, <1>5, <1>10, <1>11, <1>13, <2>1, <2>2, <2>4
  <2> QED BY <2>3, <2>4
<1>14. ASSUME c \in gaps', used.restarts = 0
       PROVE  Missed(c)
  <2>1. p # now
    BY <1>1, <1>5, <1>7, <1>10, <1>11, <1>14
  <2>2. p \in StampsOf(c) /\ p < now
        /\ \A b \in StampsOf(c) : b =< p \/ b >= now
    BY <1>10, <2>1
  <2>3. c \in DOMAIN received => p # received[c] /\ p > received[c]
    BY <1>1, <1>5, <1>7, <1>11, <1>14, <2>2
  <2>4. PICK l \in lost : l.tce = c /\ l.broadcast = p
    BY <1>9, <2>2, <2>3
  <2> QED BY <1>12, <2>2, <2>3, <2>4
<1> QED BY <1>13, <1>14

-----------------------------------------------------------------------------
(* Theorems *)

\* At first nothing has been broadcast.
LEMMA InvariantAtFirst == Init => IInv
<1> SUFFICES ASSUME Init PROVE IInv
  OBVIOUS
<1>1. DOMAIN stamps = {} /\ DOMAIN received = {} /\ DOMAIN wire = {}
      /\ channel \in Seq(Messages) /\ wire \in Seq(Broadcasts) /\ Len(channel) = 0
      /\ stamps \in [DOMAIN stamps -> 1 .. clock]
      /\ received \in [DOMAIN received -> 1 .. clock]
  BY DEF Init
<1>2. TypeOK
  BY <1>1, BroadcastAssumption DEF Init, TypeOK, BroadcastAssumption
<1>3. \A c : StampsOf(c) = {}
  BY <1>1 DEF Init, StampsOf, OnWire, LostOf, HeardOf
<1>4. WireOrdered /\ StampsRight /\ PreviousRight
  BY <1>1, <1>3 DEF WireOrdered, StampsRight, PreviousRight
<1> QED BY <1>2, <1>4 DEF IInv

\* Changes of status do not touch what the invariant is about.
LEMMA ReportsKeep ==
  ASSUME IInv,
         \/ \E batch \in Batches : ReportTestCaseStatuses(batch) \/ ReportSent(batch)
         \/ \E c \in TCE : ReportResult(c)
  PROVE  IInv'
<1>1. /\ TypeOK' /\ UNCHANGED <<clock, stamps, wire, received, gaps, lost>>
      /\ used'.restarts = used.restarts
  BY ReportsType, BroadcastAssumption DEF IInv
<1>2. \A c : StampsOf(c)' = StampsOf(c) /\ OnWire(c)' = OnWire(c)
  BY <1>1 DEF StampsOf, OnWire, LostOf, HeardOf
<1>3. WireOrdered' /\ StampsRight'
  BY <1>1, <1>2 DEF IInv, WireOrdered, StampsRight
<1>4. ASSUME NEW k \in DOMAIN wire', NEW m, m = wire'[k], NEW n \in DOMAIN m
      PROVE  NamesPrevious(m, n)'
  BY <1>1, <1>2, <1>4 DEF IInv, PreviousRight, NamesPrevious
<1>5. PreviousRight'
  BY <1>4 DEF PreviousRight, NamesPrevious
<1> QED BY <1>1, <1>3, <1>5 DEF IInv

\* Every step keeps the inductive invariant.
LEMMA InvariantStays ==
  ASSUME IInv, [Next]_vars
  PROVE  IInv'
<1>1. CASE Next
  BY <1>1, ReportsKeep, PublishKeeps, PublishFailsKeeps, LoseKeeps, ReceiveKeeps,
     RestartKeeps DEF Next
<1>2. CASE UNCHANGED vars
  <2> USE <1>2 DEF vars
  <2>1. TypeOK'
    BY DEF IInv, TypeOK, Broadcasts
  <2>2. \A c : StampsOf(c)' = StampsOf(c) /\ OnWire(c)' = OnWire(c)
    BY DEF StampsOf, OnWire, LostOf, HeardOf
  <2>3. WireOrdered' /\ StampsRight'
    BY <2>2 DEF IInv, WireOrdered, StampsRight
  <2>4. ASSUME NEW k \in DOMAIN wire', NEW m, m = wire'[k], NEW n \in DOMAIN m
        PROVE  NamesPrevious(m, n)'
    BY <2>2, <2>4 DEF IInv, PreviousRight, NamesPrevious
  <2>5. PreviousRight'
    BY <2>4 DEF PreviousRight, NamesPrevious
  <2> QED BY <2>1, <2>3, <2>5 DEF IInv
<1> QED BY <1>1, <1>2

\* What is on the wire names the stamps that were given before, through failed
\* publications, losses and restarts, and the map has the last of each TCE.
THEOREM InvariantHolds == Spec => []IInv
<1>1. IInv /\ [Next]_vars => IInv'
  BY InvariantStays
<1> QED BY <1>1, InvariantAtFirst, PTL DEF Spec

\* Every variable keeps its type: no message is empty, and nobody has a stamp that
\* the notifier has not given.
THEOREM TypeCorrect == Spec => []TypeOK
<1>1. IInv => TypeOK
  BY DEF IInv
<1> QED BY <1>1, InvariantHolds, PTL

\* However many messages about however many TCEs are lost, the next message about
\* a TCE of which one was lost does not follow on what the client has.
THEOREM LossShowsAlways == Spec => LossShows
<1>1. IInv /\ [Next]_vars =>
        [\A c \in News :
           (c \in DOMAIN received \/ used.restarts = 0) /\ Missed(c) => c \in gaps']_vars
  BY NewsByReceipt, ReceiptTells
<1> QED BY <1>1, InvariantHolds, PTL DEF Spec, LossShows

\* Until the server is restarted a client is not alarmed without a loss.
THEOREM GapMeansLossAlways == Spec => GapMeansLoss
<1>1. IInv /\ [Next]_vars =>
        [\A c \in News : c \in gaps' /\ used.restarts = 0 => Missed(c)]_vars
  BY NewsByReceipt, ReceiptTells
<1> QED BY <1>1, InvariantHolds, PTL DEF Spec, GapMeansLoss

=============================================================================
