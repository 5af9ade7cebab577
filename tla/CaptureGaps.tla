---------------------------- MODULE CaptureGaps ----------------------------
(***************************************************************************)
(* The gap book of the one-minute bars: CaptureGapRepository, the audit    *)
(* and the retry of QuoteMuxCaptureJob, and the intraday batch that        *)
(* resolves and records gaps.  Each statement is committed by itself, so a *)
(* step here is a statement.                                               *)
(*                                                                         *)
(* Of the facts a code has on a date it is kept whether all 240 priced     *)
(* bars are there, and what the daily table says.  Why an attempt left a   *)
(* gap open (provider_empty, system_failed) and when it was made are not   *)
(* kept: a gap that was tried may or may not be due.                       *)
(***************************************************************************)
EXTENDS Integers, FiniteSets, FiniteSetsExt, SequencesExt

CONSTANTS GapCodes, GapDates,
          Auditors,    \* processes that audit or retry
          Scheduler,   \* the process that runs the scheduled capture
          WindowCount, FreshDates, MaxRequests,
          MaxTurns     \* bound: changes around the gap book

ASSUME GapAssumption ==
  /\ GapDates \subseteq Nat /\ IsFiniteSet(GapDates)
  /\ {WindowCount, FreshDates, MaxRequests} \subseteq Nat \ {0}
  /\ Scheduler \notin Auditors /\ MaxTurns \in Nat

VARIABLES daily,     \* fact.stock_daily_1d with the suspension history
          whole,     \* fact.stock_bar_1m: all bars are there, with prices
          coverage,  \* market_data_intraday_coverage_daily
          audits,    \* market_data_capture_gap_audits, the oldest first
          gaps,      \* market_data_capture_gaps
          task, holder,
          turns,
          claimed    \* ghost: resolved by an answer whose bars were not written

gapVars == <<daily, whole, coverage, audits, gaps, task, holder, turns, claimed>>

Pairs      == GapCodes \X GapDates
Workers    == Auditors \cup {Scheduler}
Statuses   == {"none", "pending", "tried", "resolved", "ineligible_suspended"}
Settled    == {"none", "resolved", "ineligible_suspended"}
Idle       == [at |-> "idle", goal |-> "none", days |-> {}, scan |-> << >>, todo |-> << >>,
               work |-> {}, good |-> {}, priced |-> {}, written |-> FALSE, left |-> {}]
NoHolder   == "nobody"

GapInit ==
  /\ daily \in [Pairs -> {"absent", "traded"}]
  /\ \A c \in GapCodes, d \in GapDates : daily[c, d] = "absent" <=> d = Max(GapDates)
  /\ whole = [cd \in Pairs |-> FALSE] /\ coverage = [cd \in Pairs |-> "none"]
  /\ audits = << >> /\ gaps = [cd \in Pairs |-> "none"]
  /\ task = [p \in Workers |-> Idle] /\ holder = NoHolder
  /\ turns = 0 /\ claimed = {}

Step(p, step)   == task[p].at = step
Changed(t, r)   == LET Now(f) == IF f \in DOMAIN r THEN r[f] ELSE t[f]
                   IN [at |-> Now("at"), goal |-> Now("goal"), days |-> Now("days"), scan |-> Now("scan"),
                       todo |-> Now("todo"), work |-> Now("work"), good |-> Now("good"),
                       priced |-> Now("priced"), written |-> Now("written"), left |-> Now("left")]
Does(p, r)      == \E new \in {r} : task' = [task EXCEPT ![p] = Changed(task[p], new)]
Open(cd)      == gaps[cd] \notin Settled
Set(S, to)    == [cd \in Pairs |-> IF cd \in S THEN to ELSE gaps[cd]]
Unrecorded    == <<daily, whole, coverage, audits, holder, turns, claimed>>

----------------------------------------------------------------------------
(* The audit. *)

\* _selected_intraday_dates: the newest dates of the daily table.
Traded(d) == \E c \in GapCodes : daily[c, d] # "absent"
Selected  == LET days == {d \in GapDates : Traded(d)}
             IN {d \in days : Cardinality({e \in days : e > d}) < WindowCount}

\* The dates of S by age of their audit; those without one come last, newest first.
ByAudit(S) ==
  SelectSeq(audits, LAMBDA d : d \in S)
    \o SetToSortSeq(S \ ToSet(audits), LAMBDA a, b : a > b)

Take(s, n)    == SubSeq(s, 1, Min({n, Len(s)}))
Without(s, t) == SelectSeq(t, LAMBDA x : x \notin ToSet(s))

\* Mutant: once every date has been audited the old ones are not looked at again.
DatesToScanOnce(days) ==
  LET historical == days \ {Max(days)}
      open       == {d \in historical : \E c \in GapCodes : Open(<<c, d>>)}
      fresh      == SetToSortSeq(historical \ ToSet(audits), LAMBDA a, b : a > b)
      due        == <<Max(days)>> \o Take(ByAudit(open), 1)
  IN due \o Without(due, Take(fresh, FreshDates))

\* _intraday_dates_to_scan: the latest date, the open date audited the longest
\* ago, some dates never audited, or else the date audited the longest ago.
DatesToScan(days) ==
  LET latest     == Max(days)
      historical == days \ {latest}
      open       == {d \in historical : \E c \in GapCodes : Open(<<c, d>>)}
      fresh      == SetToSortSeq(historical \ ToSet(audits), LAMBDA a, b : a > b)
      due        == <<latest>> \o Take(ByAudit(open), 1)
      some       == Take(fresh, IF open # {} THEN FreshDates - 1 ELSE FreshDates)
      oldest     == IF fresh = << >> THEN Take(ByAudit(historical), 1) ELSE << >>
      more       == due \o Without(due, some)
  IN more \o Without(more, oldest)

StartAudit(p) ==
  /\ p \in Auditors /\ Step(p, "idle")
  /\ \E goal \in {"audit", "retry"} : Does(p, [at |-> "choose", goal |-> goal, days |-> Selected])
  /\ UNCHANGED <<Unrecorded, gaps>>

\* The audit after a retry.
AuditAgain(p) ==
  /\ Step(p, "list")
  /\ Does(p, [at |-> "choose", days |-> Selected])
  /\ UNCHANGED <<Unrecorded, gaps>>

ChooseDates(p) ==
  /\ Step(p, "choose")
  /\ LET scan == DatesToScan(task[p].days)
     IN Does(p, [at |-> "cover", scan |-> scan, todo |-> scan])
  /\ UNCHANGED <<Unrecorded, gaps>>

\* _audit_intraday_date, first statement: the codes that traded, and their bars.
CoverDate(p) ==
  /\ Step(p, "cover")
  /\ LET d == Head(task[p].todo) IN
     coverage' = [cd \in Pairs |-> IF cd[2] = d /\ daily[cd] = "traded"
                                   THEN IF whole[cd] THEN "full" ELSE "short"
                                   ELSE coverage[cd]]
  /\ Does(p, [at |-> "sum"])
  /\ UNCHANGED <<daily, whole, audits, gaps, holder, turns, claimed>>

\* _audit_intraday_date, second statement: the summary dates the audit.
SummarizeDate(p) ==
  /\ Step(p, "sum")
  /\ LET d == Head(task[p].todo) IN audits' = Append(SelectSeq(audits, LAMBDA e : e # d), d)
  /\ Does(p, [at |-> IF Len(task[p].todo) = 1 THEN "open" ELSE "cover", todo |-> Tail(task[p].todo)])
  /\ UNCHANGED <<daily, whole, coverage, gaps, holder, turns, claimed>>

Scanned(p, cd) == cd[2] \in ToSet(task[p].scan)

\* audit_intraday: every code short on a scanned date has a pending gap,
OpenGaps(p) ==
  /\ Step(p, "open")
  /\ gaps' = Set({cd \in Pairs : Scanned(p, cd) /\ coverage[cd] = "short" /\ daily[cd] = "traded"},
                 "pending")
  /\ Does(p, [at |-> "suspend"])
  /\ UNCHANGED Unrecorded

\* the open gaps of the window that a suspension explains are put aside,
Suspend(p) ==
  /\ Step(p, "suspend")
  /\ gaps' = Set({cd \in Pairs : cd[2] \in task[p].days /\ daily[cd] = "confirmed" /\ Open(cd)},
                 "ineligible_suspended")
  /\ Does(p, [at |-> "close"])
  /\ UNCHANGED Unrecorded

\* and the open gaps of scanned dates whose coverage is full are resolved.
CloseGaps(p) ==
  /\ Step(p, "close")
  /\ gaps' = Set({cd \in Pairs : Scanned(p, cd) /\ coverage[cd] = "full" /\ Open(cd)}, "resolved")
  /\ IF task[p].goal = "retry" THEN task' = [task EXCEPT ![p] = [Idle EXCEPT !.at = "retryable"]]
                              ELSE task' = [task EXCEPT ![p] = Idle]
  /\ UNCHANGED Unrecorded

----------------------------------------------------------------------------
(* The captures. *)

\* The newest requests only: one for each date, MaxRequests in a run.
Newest(S) == {cd \in S : Cardinality({d \in GapDates : d > cd[2] /\ \E c \in GapCodes : <<c, d>> \in S})
                           < MaxRequests}

\* list_retryable and _intraday_gap_requests: pending gaps, and others that are due.
ListRetryable(p) ==
  /\ Step(p, "retryable")
  /\ \E due \in SUBSET {cd \in Pairs : cd[2] \in Selected /\ Open(cd)} :
       /\ \A cd \in Pairs : cd[2] \in Selected /\ gaps[cd] = "pending" => cd \in due
       /\ IF due = {} THEN task' = [task EXCEPT ![p] = Idle]
          ELSE Does(p, [at |-> "lock", goal |-> "audit", work |-> Newest(due)])
  /\ UNCHANGED <<Unrecorded, gaps>>

\* run_capture: its requests are built from the facts once the lock is held.
StartCapture ==
  /\ Step(Scheduler, "idle")
  /\ Does(Scheduler, [at |-> "lock", goal |-> "capture"])
  /\ UNCHANGED <<Unrecorded, gaps>>

\* A retry that finds the lock taken goes on to its second audit.
LockOrSkip(p) ==
  /\ Step(p, "lock")
  /\ IF holder = NoHolder
     THEN /\ holder' = p
          /\ Does(p, [at |-> IF p = Scheduler THEN "build" ELSE "fetch"])
     ELSE /\ IF p = Scheduler THEN task' = [task EXCEPT ![p] = Idle] ELSE Does(p, [at |-> "list"])
          /\ UNCHANGED holder
  /\ UNCHANGED <<daily, whole, coverage, audits, gaps, turns, claimed>>

\* _active_stock_requests: a trading day without a universe fails the run.
BuildRequests(p) ==
  /\ Step(p, "build")
  /\ LET missing == {cd \in Pairs : cd[2] \in Selected /\ daily[cd] = "traded" /\ ~whole[cd]}
         blank   == \E d \in Selected : \A c \in GapCodes : daily[c, d] # "traded"
     IN Does(p, [at |-> IF blank \/ missing = {} THEN "release" ELSE "fetch",
                 work |-> IF blank THEN {} ELSE Newest(missing)])
  /\ UNCHANGED <<Unrecorded, gaps>>

Batch(p) == {cd \in task[p].work : \A other \in task[p].work : cd[2] >= other[2]}

\* _run_intraday_capture_batch asks for the codes of one date.  An answer is
\* complete when it has the 240 minutes; its bars may lack a price or an amount.
Fetch(p) ==
  /\ Step(p, "fetch")
  /\ \E good \in SUBSET Batch(p) :
       \E priced \in {good} \cup (IF turns < MaxTurns THEN SUBSET good ELSE {}) :
         /\ Does(p, [at |-> "write", good |-> good, priced |-> priced])
         /\ turns' = IF priced = good THEN turns ELSE turns + 1
  /\ UNCHANGED <<daily, whole, coverage, audits, gaps, holder, claimed>>

\* A batch that raises: record_system_failure for every code of it.
FetchRaises(p) ==
  /\ Step(p, "fetch")
  /\ Does(p, [at |-> "record", left |-> Batch(p)])
  /\ UNCHANGED <<Unrecorded, gaps>>

\* _upsert_stock_intraday keeps whole priced days; it may fail after its bars.
WriteFacts(p) ==
  /\ Step(p, "write")
  /\ \E ok \in BOOLEAN, put \in BOOLEAN :
       /\ ok => put
       /\ whole' = [cd \in Pairs |-> whole[cd] \/ (put /\ cd \in task[p].priced)]
       /\ Does(p, [at |-> "record", written |-> ok /\ task[p].good # {}, left |-> Batch(p)])
  /\ UNCHANGED <<daily, coverage, audits, gaps, holder, turns, claimed>>

\* A resolved gap is an update, a recorded one an upsert.
\* Mutant: a complete answer resolves its gap whether or not it was written.
MayResolveAnswered(p, cd) == TRUE

MayResolve(p, cd) == task[p].written
RecordOne(p) ==
  /\ Step(p, "record") /\ task[p].left # {}
  /\ \E cd \in task[p].left :
       /\ gaps' = IF cd \in task[p].good
                  THEN Set(IF MayResolve(p, cd) /\ gaps[cd] # "none" THEN {cd} ELSE {}, "resolved")
                  ELSE Set({cd}, "tried")
       /\ claimed' = IF MayResolve(p, cd) /\ cd \in task[p].good \ task[p].priced THEN claimed \cup {cd} ELSE claimed
       /\ Does(p, [left |-> task[p].left \ {cd}])
  /\ UNCHANGED <<daily, whole, coverage, audits, holder, turns>>

NextBatch(p) ==
  /\ Step(p, "record") /\ task[p].left = {}
  /\ LET rest == task[p].work \ Batch(p)
     IN Does(p, [at |-> IF rest = {} THEN "release" ELSE "fetch", work |-> rest,
                 good |-> {}, priced |-> {}, written |-> FALSE])
  /\ UNCHANGED <<Unrecorded, gaps>>

Unlock(p) ==
  /\ Step(p, "release")
  /\ holder' = NoHolder
  /\ IF p = Scheduler THEN task' = [task EXCEPT ![p] = Idle] ELSE Does(p, [at |-> "list"])
  /\ UNCHANGED <<daily, whole, coverage, audits, gaps, turns, claimed>>

----------------------------------------------------------------------------
(* Around them; MaxTurns bounds how often. *)

Turn == turns < MaxTurns /\ turns' = turns + 1

\* A statement fails or the process dies: the lock's session ends with it.
Dies(p) ==
  /\ Turn /\ ~Step(p, "idle")
  /\ task' = [task EXCEPT ![p] = Idle]
  /\ holder' = IF holder = p THEN NoHolder ELSE holder
  /\ UNCHANGED <<daily, whole, coverage, audits, gaps, claimed>>

\* record_incomplete raises: the batch counts as failed.
RecordRaises(p) ==
  /\ Turn /\ Step(p, "record")
  /\ Does(p, [good |-> {}, priced |-> {}, left |-> Batch(p)])
  /\ UNCHANGED <<daily, whole, coverage, audits, gaps, holder, claimed>>

\* The daily capture stores a new day, or corrects what a day says of a code.
DailyArrives ==
  /\ Turn
  /\ \E cd \in Pairs : /\ \A e \in GapDates : e < cd[2] => Traded(e)
                       /\ \E s \in {"traded", "confirmed", "flagged"} \ {daily[cd]} :
                            daily' = [daily EXCEPT ![cd] = s]
  /\ UNCHANGED <<whole, coverage, audits, gaps, task, holder, claimed>>

\* Live bars complete a day beside the gap book.
LiveDay ==
  /\ Turn
  /\ \E cd \in Pairs : ~whole[cd] /\ whole' = [whole EXCEPT ![cd] = TRUE]
  /\ UNCHANGED <<daily, coverage, audits, gaps, task, holder, claimed>>

Continue(p) ==
  \/ AuditAgain(p) \/ ChooseDates(p) \/ CoverDate(p) \/ SummarizeDate(p)
  \/ OpenGaps(p) \/ Suspend(p) \/ CloseGaps(p)
  \/ ListRetryable(p) \/ LockOrSkip(p) \/ BuildRequests(p)
  \/ Fetch(p) \/ FetchRaises(p) \/ WriteFacts(p) \/ RecordOne(p)
  \/ NextBatch(p) \/ Unlock(p)

GapNext ==
  \/ \E p \in Workers : StartAudit(p) \/ Continue(p) \/ Dies(p) \/ RecordRaises(p)
  \/ StartCapture \/ DailyArrives \/ LiveDay

\* The timer of a process that audits goes on for ever, and the process is
\* scheduled.  The scheduler's own captures need not come, nor end.
GapFairness == \A p \in Auditors : WF_<<task[p]>>(StartAudit(p) \/ Continue(p))
GapSpec == GapInit /\ [][GapNext]_gapVars /\ GapFairness

----------------------------------------------------------------------------
(* Properties. *)

GapTypeOK ==
  /\ daily \in [Pairs -> {"absent", "traded", "flagged", "confirmed"}]
  /\ whole \in [Pairs -> BOOLEAN] /\ coverage \in [Pairs -> {"none", "short", "full"}]
  /\ audits \in Seq(GapDates) /\ gaps \in [Pairs -> Statuses]
  /\ holder \in Workers \cup {NoHolder} /\ turns \in 0..MaxTurns /\ claimed \subseteq Pairs

\* A gap is resolved only when its bars are stored, whoever resolved it: the
\* batch, or an audit whose coverage was read before.  The exception is an
\* answer that had every minute but not every price.
ResolvedIsWhole == \A cd \in Pairs : gaps[cd] = "resolved" => whole[cd] \/ cd \in claimed

\* The book ends up true: once nothing changes around it, every code of the
\* window has an open gap exactly when it traded and its bars are missing,
\* whatever audit died between its summary and its gaps, and whatever batch
\* resolved or recorded meanwhile.  A day flagged as suspended that no
\* suspension confirms is left out: its gap stays as it is.
Judged(cd) == cd[2] \in Selected /\ daily[cd] # "flagged"
IsTrue(cd)   == Open(cd) <=> (daily[cd] = "traded" /\ ~whole[cd])
BookSettles == <>[](\A cd \in Pairs : Judged(cd) => IsTrue(cd))
=============================================================================
