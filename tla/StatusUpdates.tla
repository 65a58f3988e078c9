--------------------------- MODULE StatusUpdates ----------------------------
(***************************************************************************)
(* Why the status of a TCE, its row in the listing, and the row of its     *)
(* suite follow its TIEs although no step writes all of them: whenever     *)
(* they do not agree, a (C) for the TCE is under way, or a (B) that will   *)
(* send one.                                                               *)
(*                                                                         *)
(* Commands for one TCE run on several tracks, as a command goes to the    *)
(* track of a TIE or of the lowest TCE of a list; transactions fail and the*)
(* process stops.  So it may go wrong: the history variable 'doubted'      *)
(* records for which TCEs it may have, and the properties are about the    *)
(* others.  A TCE comes to be doubted in four ways only,                   *)
(*   - a (C) reads it while another one that has read older rows of it has *)
(*     not written yet, and will write last;                               *)
(*   - a (C) reads it together with other TCEs of its list and counts rows *)
(*     of one to another;                                                  *)
(*   - a (B) or (C) for it ends without a (C);                             *)
(*   - the process stops while a (C) for it is to come;                    *)
(* and the next (C) that reads it and does none of these clears the doubt. *)
(***************************************************************************)
EXTENDS SuiteListings

VARIABLE doubted   \* the TCEs whose status may not follow their TIEs

auditVars == <<allVars, doubted>>

-----------------------------------------------------------------------------
(* What is to come *)

\* The TCEs for which a command on a channel brings a (C).
OwedBy(cmd) ==
  {c \in cmd.tces :
     \/ cmd.kind = "UpdateTestCaseStatus"
     \/ /\ cmd.kind = "CheckWaitingToBeSent"
        /\ c \in ParentsOf(WaitingToBeSent(cmd))}

Sends(t, c)   == WorksOn(t, "CheckWaitingToBeSent") /\ c \in ParentsOf(Batch(handler[t]))
Updates(t, c) == WorksOn(t, "UpdateTestCaseStatus") /\ c \in handler[t].cmd.tces

\* A (C) that has not read c yet will.
IsToCome(c) ==
  \/ \E cmd \in OnChannels(chan) : c \in OwedBy(cmd)
  \/ \E t \in Tracks : Sends(t, c)

Due(c) == IsToCome(c) \/ \E t \in Tracks : Updates(t, c)

\* What a (C) has read of c is what it would read now.
ReadNow(h, c) ==
  RowsOf(c) # {} =>
    /\ \E m \in h.messages : m.tce = c
    /\ \A m \in h.messages :
         m.tce = c => m.status \in Dominant({tiue[i].status : i \in RowsOf(c)})

-----------------------------------------------------------------------------
(* Doubt *)

\* The rows of c are counted to c alone, among the TCEs cs of a (C).
ReadAlone(c, cs) ==
  LET listed == {d \in cs : RowsOf(d) # {}}
  IN c \in listed => ~ CountedToEarlier(c, listed) /\ CountedTo(c, listed) = {c}

Loads(t, c) == LoadStatuses(t) /\ c \in Head(chan[t]).tces

LoadsWell(t, c) ==
  /\ Loads(t, c)
  /\ ReadAlone(c, Head(chan[t]).tces)
  /\ \A u \in Tracks : Updates(u, c) => ReadNow(handler[u], c)

\* A (B) or (C) for c ends without a (C).
Loses(t, c) ==
  \/ FailedLoad(t) /\ c \in OwedBy(Head(chan[t]))
  \/ RolledBack(t) /\ (Sends(t, c) \/ Updates(t, c))
  \/ Sends(t, c) /\ \E i \in TIE : CannotBeSent(t, i)

Doubts(c) ==
  IF \E t \in Tracks : Loads(t, c) THEN ~ \E t \in Tracks : LoadsWell(t, c)
  ELSE \/ c \in doubted
       \/ \E t \in Tracks : Loses(t, c)
       \/ CrashAndRestart /\ Due(c)

AuditInit == ListInit /\ doubted = {}
AuditNext == ListNext /\ doubted' = {c \in TCE : Doubts(c)}
AuditSpec == AuditInit /\ [][AuditNext]_auditVars

-----------------------------------------------------------------------------
(* The status *)

\* A TCE whose status does not follow its TIEs has a (C) to come.
StatusDue == \A c \in TCE \ doubted : Follows(c) \/ Due(c)

\* A (C) that will write a status its TIEs no longer call for is not the last one.
ReadsRight ==
  \A t \in Tracks, c \in TCE \ doubted :
    Updates(t, c) => ReadNow(handler[t], c) \/ IsToCome(c)

\* A handler has rows of the TCEs of its command.
HandlersRead ==
  \A t \in Tracks : LET h == handler[t] IN
    /\ h.cmd.kind = "CheckQueue" => ParentsOf(h.ties) \subseteq h.cmd.tces
    /\ \A m \in h.messages : m.tce \in h.cmd.tces /\ RowsOf(m.tce) # {}

-----------------------------------------------------------------------------
(* The listings *)

\* A TCE without TIEs has not ended.
EndedHasRows == \A c \in TCE : HasEndStatus(tcue[c].status) => RowsOf(c) # {}

\* A TCE that has ended is listed so, or a (C) is to come that lists it.
ListingDue == \A c \in TCE \ doubted : ListingAgrees(c) \/ Due(c)

TimeOuts == {TIMEOUT_INTERRUPTION, TIMEOUT_INTERRUPTION_CAN_BE_RERUN}

\* A suite is listed with an end status when it is listed as finished, and with a
\* lower number before, or as timed out, which counts neither as ongoing nor as ended.
ListedInTwoSteps ==
  \A s \in Suites : IF tsListing[s].finished THEN HasEndStatus(tsListing[s].status)
                    ELSE tsListing[s].status \in {NoRow, INITIATED} \cup TimeOuts

\* All TCEs of the suite have ended, and none is on the queue again.
HasEnded(s) ==
  /\ \A c \in CasesOf(s) : HasEndStatus(tcue[c].status)
  /\ CasesOf(s) \cap tcQueue = {}
  /\ tsListing[s].status \notin TimeOuts

\* A suite whose TCEs have all ended is listed as finished, or a (C) for one of
\* them is to come that finds nothing left of the suite.
SuiteDue ==
  \A s \in Suites : CasesOf(s) \cap doubted = {} /\ HasEnded(s) =>
    tsListing[s].finished \/ \E c \in CasesOf(s) : Due(c)

\* The three are inductive together: a status, a listing or a suite that is right no
\* longer is so because of a step that leaves a (C) to come, and the (C) that comes
\* last has read what it writes after that step.
UpdatesInv ==
  /\ HandlersRead /\ StatusDue /\ ReadsRight
  /\ EndedHasRows /\ ListingDue
  /\ ListedInTwoSteps /\ SuiteDue

-----------------------------------------------------------------------------
(* When nothing is under way *)

\* When the engine comes to rest, the status of a TCE follows its TIEs, on however
\* many tracks it was computed and whatever failed, unless it is doubted.
StatusAtRest == Quiet => \A c \in TCE \ doubted : Follows(c)

\* When the engine comes to rest, a TCE that has ended is listed with its status and
\* the results of all its TIEs, unless it is doubted.
ListingAtRest == Quiet => \A c \in TCE \ doubted : ListingAgrees(c)

\* When the engine comes to rest, a suite whose TCEs have all ended is listed as
\* finished, unless one of them is doubted: also when the (C) of the last ones to end
\* ran at the same time on several tracks.
SuiteAtRest ==
  Quiet => \A s \in Suites : CasesOf(s) \cap doubted = {} /\ HasEnded(s) =>
    tsListing[s].finished

=============================================================================
