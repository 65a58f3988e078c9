--------------------------- MODULE SerialDrivers ----------------------------
(***************************************************************************)
(* Why the TIEs of a TCE are executed one after the other, as long as the  *)
(* process does not stop: at any time at most one list, command, handler   *)
(* or TIE that a Worker has may make the TCE's next move.  Each step of the*)
(* engine passes this right on or loses it, none copies it.  The invariant *)
(* Driven says so, and what holds of the TCE's rows wherever its right is. *)
(***************************************************************************)
EXTENDS ExecutionEngine

\* The process does not stop, no answer of a Worker is lost, a Worker reports once how
\* a TIE ended, what the rows refer to can be loaded, and no client informs about a TCE
\* in two lists.  That transactions fail, that Workers refuse and when time passes is
\* left open.
Undisturbed ==
  /\ MaxCrashes = 0 /\ MaxLostAnswers = 0 /\ MaxReports = 1 /\ MayBeUnsendable = {}
  /\ \A cs, ds \in Informs :
       (\E k \in DOMAIN cs, n \in DOMAIN ds : cs[k] = ds[n]) => cs = ds

AtMostOne(S) == \A p, q \in S : p = q

\* The commands that make the next move of their TCEs.
Driving == {"ProcessTestCases", "CheckQueue", "CheckWaitingToBeSent"}

\* The two things that must not be doubled: the right to move a TCE ("turn") and
\* the answer that the goroutine of a final result waits for ("reply").
Carries(cmd, what, x) ==
  \/ what = "turn" /\ cmd.kind \in Driving /\ x \in cmd.tces
  \/ what = "reply" /\ cmd.reply = x

\* (B) keeps the right of those TCEs only of which it has a TIE left to send.
Bears(h, what, x) ==
  \/ /\ what = "turn" /\ x \in h.cmd.tces
     /\ h.cmd.kind \in {"ProcessTestCases", "CheckQueue"}
  \/ /\ what = "turn" /\ x \in ParentsOf(h.ties)
     /\ h.cmd.kind = "CheckWaitingToBeSent"
  \/ what = "reply" /\ h.cmd.reply = x

Slots(channels, what, x) ==
  UNION {{<<t, k>> : k \in {n \in DOMAIN channels[t] :
                              Carries(channels[t][n], what, x)}} : t \in Tracks}

AtReaders(what, x) == {t \in Tracks : Bears(handler[t], what, x)}

InEngine(what, x) == Slots(chan, what, x) # {} \/ AtReaders(what, x) # {}

Single(what, x) ==
  /\ AtMostOne(Slots(chan, what, x)) /\ AtMostOne(AtReaders(what, x))
  /\ Slots(chan, what, x) = {} \/ AtReaders(what, x) = {}

\* A client still has the TCE, or a Worker has a TIE of it.
Listed(c) == \E cs \in pending : \E k \in DOMAIN cs : cs[k] = c
Out(c) == {i \in ChildrenOf({c}) : sent[i] > 0 /\ result[<<i, 1>>].phase # "done"}

\* Only one of them all may move a TCE, and a goroutine is answered once.
OneDriver ==
  \A c \in TCE :
    /\ Single("turn", c) /\ AtMostOne(Out(c))
    /\ Listed(c) => Out(c) = {} /\ ~ InEngine("turn", c)
    /\ Out(c) # {} => ~ InEngine("turn", c)

OneAnswer ==
  \A r \in Results :
    /\ Single("reply", r)
    /\ InEngine("reply", r) => result[r].phase = "waiting"

-----------------------------------------------------------------------------
(* The rows of a TCE, by who may move it *)

AllOk(c) == \A i \in RowsOf(c) : EndedOk(tiue[i].status)

Unsent(i) == tiue[i].status = INITIATED /\ sent[i] = 0

\* No scan has been started: nothing has stopped.
NoScans ==
  /\ \A cmd \in OnChannels(chan) : cmd.kind \in Driving \cup {"UpdateTestCaseStatus"}
  /\ \A t \in Tracks :
       handler[t].cmd.kind \in Driving \cup {"UpdateTestCaseStatus", "Idle"}

ListedRight == \A c \in TCE : Listed(c) => AllOk(c)

CommandsRight ==
  \A cmd \in OnChannels(chan) : \A c \in cmd.tces :
    /\ cmd.kind \in {"ProcessTestCases", "CheckQueue"} => AllOk(c)
    /\ cmd.kind = "CheckWaitingToBeSent" =>
         \A i \in RowsOf(c) : EndedOk(tiue[i].status) \/ Unsent(i)

HandlersRight ==
  \A t \in Tracks : LET h == handler[t] IN
    /\ h.cmd.kind \in {"ProcessTestCases", "CheckQueue"} =>
         \A c \in h.cmd.tces : AllOk(c)
    /\ h.cmd.kind = "CheckQueue" => \A i \in h.ties :
         /\ Parent[i] \in h.cmd.tces
         /\ \A j \in h.ties : Parent[j] = Parent[i] => j = i
    /\ h.cmd.kind = "CheckWaitingToBeSent" => \A i \in h.ties : Unsent(i)

\* At most one row of a TCE has not ended well.
OneUnfinished ==
  \A i, j \in TIE :
    /\ Parent[i] = Parent[j] /\ HasRow(i) /\ HasRow(j)
    /\ ~ EndedOk(tiue[i].status) /\ ~ EndedOk(tiue[j].status)
    => i = j

\* A TIE that a Worker has is ongoing until its result is written, and the TCE
\* is to go on only if all its rows have ended well by then.
ReportsRight ==
  /\ \A r \in Results : result[r].phase # "none" => r[2] = 1 /\ sent[r[1]] > 0
  /\ \A i \in TIE : LET res == result[<<i, 1>>] IN
       /\ sent[i] > 0 /\ res.phase \in {"none", "received", "open"} =>
            IsOngoing(tiue[i].status)
       /\ res.phase = "open" /\ res.more => EndedOk(res.status)
       /\ res.phase \in {"waiting", "replied"} /\ res.more => AllOk(Parent[i])

Driven == /\ OneDriver /\ OneAnswer /\ NoScans /\ ListedRight /\ CommandsRight
          /\ HandlersRight /\ OneUnfinished /\ ReportsRight /\ SentOnce

=============================================================================
