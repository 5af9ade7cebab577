---------------------------- MODULE CapturePlan ----------------------------
(***************************************************************************)
(* What a capture run asks for: build_capture_requests and its builders,   *)
(* the missing-range planner they share, and the due time of a policy.     *)
(*                                                                         *)
(* A capability is followed by its kind, that is by how its builder finds  *)
(* what is missing; a coverage row is the set of its days.  The days of    *)
(* the periods of a report are far apart, those of a calendar window       *)
(* adjacent, and trading days leave weekends out.                          *)
(***************************************************************************)
EXTENDS Integers, FiniteSets, FiniteSetsExt, SequencesExt

CONSTANTS PlanCodes, Stray,   \* the active codes, and one the catalogue lacks
          BatchSizes,
          Horizon, Weekend,   \* days 1..Horizon, some of which do not trade
          PlanWindow,         \* window_count
          NoScope,
          MaxOthers,          \* bound: queries, expiries and other steps beside the runs
          YearMonths,         \* the lengths of the months, year by year
          WeekLength

ASSUME PlanAssumption ==
  /\ IsFiniteSet(PlanCodes) /\ PlanCodes # {} /\ Stray \notin PlanCodes
  /\ Horizon \in Nat /\ Weekend \subseteq 1..Horizon /\ PlanWindow \in Nat \ {0}
  /\ \A codes \in SUBSET PlanCodes : NoScope # codes

VARIABLES kind, batchSize,
          today, ready,   \* the day, and whether its market data is out
          covered,        \* market_data_cache_coverage: scopes by day
          rows,           \* complete rows of the fact table
          plan, clean,    \* requests left of the run, and that all have succeeded
          asked,          \* ghost: what a source was asked for and answered
          others,
          planned         \* the last due time that was computed

planVars == <<kind, batchSize, today, ready, covered, rows, plan, clean, asked, others, planned>>

Kinds ==
  {"range",      \* _append_missing_range_requests over trading days
   "calendar",   \* the same over calendar days
   "market",     \* the same over trading days, of the whole market at once
   "point",      \* _single_date_missing, trading days
   "marketDay",  \* the same of the whole market
   "news",       \* _single_point_missing, calendar days
   "period",     \* _report_period_missing_periods for a code
   "pooled",     \* the same for a list of codes
   "months",     \* _missing_months
   "newest",     \* daily snapshot: the newest trading day, by its count
   "share",      \* industry boards: nine tenths of the expected count
   "set",        \* concept daily: every expected identity
   "always"}     \* catalogues, profiles, concept members, sessions
FactKinds   == {"newest", "share", "set"}
MarketKinds == {"market", "marketDay"}

Days    == 1..Horizon
NoPlan  == [policy |-> [cadence |-> "none", month |-> 1, day |-> 0], day |-> 0, after |-> FALSE, at |-> 0]

PlanInit ==
  /\ kind \in Kinds /\ batchSize \in BatchSizes
  /\ today \in PlanWindow..Horizon /\ ready = FALSE
  /\ covered = {} /\ rows = {} /\ plan = {} /\ clean = FALSE
  /\ asked = {} /\ others = 0 /\ planned = NoPlan

----------------------------------------------------------------------------
(* The windows. *)

LastOf(S, n) == {d \in S : Cardinality({e \in S : e > d}) < n}

\* _recent_trading_days: today only once its market data is ready.
RecentTradingDays ==
  LastOf({d \in Days \ Weekend : IF ready THEN d <= today ELSE d < today}, PlanWindow)

\* _recent_calendar_days: today whatever the hour.
RecentCalendarDays == LastOf(1..today, PlanWindow)

\* _recent_report_periods and _recent_months: those that have begun or ended.
RecentPeriods == LastOf(1..today, PlanWindow)

Window == CASE kind \in {"calendar", "news"} -> RecentCalendarDays
            [] kind \in {"period", "pooled", "months"} -> RecentPeriods
            [] kind = "newest" -> LastOf(RecentTradingDays, 1)
            [] OTHER -> RecentTradingDays

\* _chunk; a request for the whole market is for all codes.
Batches == IF kind \in MarketKinds \/ (kind \in {"range", "pooled"} /\ batchSize >= Cardinality(PlanCodes))
           THEN {PlanCodes} ELSE {{c} : c \in PlanCodes}

\* What store_result files coverage under: the scope of a joined list of codes
\* is the list, of a list each code, of the whole market a scope of its own in
\* which every field is empty.
Scopes(codes) == IF kind = "pooled" THEN {{c} : c \in codes} ELSE {codes}

\* What the builder looks coverage up under.  It leaves empty fields out, so that
\* a request of the whole market has no scope at all.
LookedUp(codes) == IF kind \in MarketKinds THEN {NoScope} ELSE Scopes(codes)

----------------------------------------------------------------------------
(* The planner. *)

\* Mutant: a list joined to one code is looked up code by code.
CachedDaysByCode(codes) ==
  {d \in Days : \A c \in codes : <<{c}, d>> \in covered}

\* _cached_coverages: the fresh coverage of exactly these scopes, cut to the request.
CachedDays(codes) == {d \in Days : \E s \in LookedUp(codes) : <<s, d>> \in covered}

\* plan and _is_point_covered
MissingDays(codes) == Window \ CachedDays(codes)

\* Mutant: the last range is not appended after the loop.
RangesButLast(S) ==
  {r \in {a..b : a \in S, b \in S} :
     r # {} /\ r \subseteq S /\ Min(r) - 1 \notin S /\ Max(r) + 1 \notin S /\ Max(r) # Max(S)}

\* _merge_missing_points: neighbouring missing days become one range.
Ranges(S) ==
  {r \in {a..b : a \in S, b \in S} :
     r # {} /\ r \subseteq S /\ Min(r) - 1 \notin S /\ Max(r) + 1 \notin S}

MissingRanges(codes) == Ranges(MissingDays(codes))

\* _missing_months asks from the newest month to the oldest, under no month's
\* scope: what is stored month by month is not found.
MissingMonths ==
  {m \in Window : ~(Cardinality(Window) = 1 /\ <<NoScope, m>> \in covered)}

----------------------------------------------------------------------------
(* The builders: sets of requests, each for some codes on a range of days. *)

Req(codes, days) == [codes |-> codes, days |-> days]

Expected(d) == PlanCodes   \* active codes, derivable concepts, industries
RowsOf(d)   == {c \in PlanCodes \cup {Stray} : <<c, d>> \in rows}

\* _daily_count_complete
CountComplete(actual, expected) == actual > 0 /\ (expected > 0 => actual >= (expected * 9) \div 10)

FactMissing(d) ==
  CASE kind = "newest" -> Cardinality(RowsOf(d)) # Cardinality(Expected(d))
    [] kind = "share"  -> ~CountComplete(Cardinality(RowsOf(d) \ {Stray}), Cardinality(Expected(d)))
    [] OTHER           -> RowsOf(d) \ {Stray} # Expected(d)

\* For each batch the missing days, as ranges or one by one.
RangeRequests == UNION {{Req(b, r) : r \in MissingRanges(b)} : b \in Batches}
PointRequests == UNION {{Req(b, {d}) : d \in MissingDays(b)} : b \in Batches}

\* The builder of each kind, of which build_capture_requests picks one.
TradingDayRequests   == CASE kind \in {"range", "market"} -> RangeRequests
                          [] kind = "marketDay" -> PointRequests
                          [] OTHER -> {}
AnnouncementRequests == IF kind = "calendar" THEN RangeRequests ELSE {}
NewsEventRequests    == IF kind = "news" THEN PointRequests ELSE {}
MemberRequests       == IF kind = "point" THEN PointRequests ELSE {}
ReportPeriodRequests == IF kind \in {"period", "pooled"} THEN PointRequests ELSE {}
ResearchMonthRequests == IF kind = "months" THEN {Req({}, {m}) : m \in MissingMonths} ELSE {}
DailyFactRequests    == IF kind \in FactKinds
                        THEN {Req(PlanCodes, {d}) : d \in {e \in Window : FactMissing(e)}} ELSE {}
SnapshotRequests     == IF kind = "always" THEN {Req(PlanCodes, Window)} ELSE {}

BuildRequests ==
  TradingDayRequests \cup AnnouncementRequests \cup NewsEventRequests \cup MemberRequests
    \cup ReportPeriodRequests \cup ResearchMonthRequests \cup DailyFactRequests
    \cup SnapshotRequests

Build ==
  /\ plan = {}
  /\ plan' = BuildRequests /\ clean' = TRUE
  /\ UNCHANGED <<kind, batchSize, today, ready, covered, rows, asked, others, planned>>

\* _run_capture_batch: store_result covers the request whatever it returned; the
\* writers of daily facts refuse an answer that is not complete.
Accepts(codes, answer) ==
  CASE kind = "share" -> CountComplete(Cardinality(answer \ {Stray}), Cardinality(codes))
    [] kind \in {"newest", "set"} -> codes \subseteq answer
    [] OTHER -> TRUE

\* The requests of a plan do not overlap, and are run in any one order.
RunRequest ==
  /\ plan # {}
  /\ LET r == CHOOSE r \in plan : TRUE IN
       /\ plan' = plan \ {r}
       /\ \/ \E answer \in IF kind \in FactKinds THEN SUBSET (PlanCodes \cup {Stray}) ELSE {r.codes} :
               IF Accepts(r.codes, answer)
               THEN /\ rows' = IF kind \in FactKinds THEN rows \cup (answer \X r.days) ELSE rows
                    /\ covered' = IF kind \in FactKinds THEN covered
                                  ELSE covered \cup ((IF kind = "months" THEN {r.days} ELSE Scopes(r.codes)) \X r.days)
                    /\ asked' = asked \cup ((IF kind = "months" THEN {NoScope} ELSE answer) \X r.days)
                    /\ UNCHANGED clean
               ELSE clean' = FALSE /\ UNCHANGED <<rows, covered, asked>>
          \/ clean' = FALSE /\ UNCHANGED <<rows, covered, asked>>
  /\ UNCHANGED <<kind, batchSize, today, ready, others, planned>>

Other == others < MaxOthers /\ others' = others + 1

\* A query of a user stores its own coverage, one code and one day at a time.
UserQuery ==
  /\ Other /\ kind \notin FactKinds \cup {"months"}
  /\ \E c \in PlanCodes, d \in Window :
       /\ <<{c}, d>> \notin covered
       /\ covered' = covered \cup {<<{c}, d>>} /\ asked' = asked \cup {<<c, d>>}
  /\ UNCHANGED <<kind, batchSize, today, ready, rows, plan, clean, planned>>

\* Another writer stores rows of the fact table, of any code.
StrayRow ==
  /\ Other /\ kind \in FactKinds
  /\ \E d \in Window : <<Stray, d>> \notin rows /\ rows' = rows \cup {<<Stray, d>>}
  /\ UNCHANGED <<kind, batchSize, today, ready, covered, plan, clean, asked, planned>>

\* fresh_until of a scope's coverage passes.
Expire ==
  /\ Other
  /\ \E s \in {c[1] : c \in covered} : covered' = {c \in covered : c[1] # s}
  /\ clean' = FALSE
  /\ UNCHANGED <<kind, batchSize, today, ready, rows, plan, asked, planned>>

TimePasses ==
  /\ Other
  /\ \/ ~ready /\ ready' = TRUE /\ UNCHANGED today
     \/ ready /\ today < Horizon /\ today' = today + 1 /\ ready' = FALSE
  /\ clean' = FALSE
  /\ UNCHANGED <<kind, batchSize, covered, rows, plan, asked, planned>>

----------------------------------------------------------------------------
(* _scheduled_time.  A day is its number in the calendar of YearMonths.    *)

Dates == UNION {UNION {{<<y, m, d>> : d \in 1..YearMonths[y][m]} : m \in DOMAIN YearMonths[y]}
                : y \in DOMAIN YearMonths}
Before(a, b) == \/ a[1] < b[1]
                \/ a[1] = b[1] /\ a[2] < b[2]
                \/ a[1] = b[1] /\ a[2] = b[2] /\ a[3] < b[3]
Num(date)    == Cardinality({e \in Dates : Before(e, date)})
DateOf(n)    == CHOOSE date \in Dates : Num(date) = n

\* Every year has the same months, and the first is no shorter than a week.
ASSUME CalendarAssumption ==
  /\ YearMonths \in Seq(Seq(Nat \ {0}))
  /\ \A y \in DOMAIN YearMonths : Len(YearMonths[y]) = Len(YearMonths[1])
  /\ WeekLength \in Nat \ {0}
  /\ \A date \in Dates : date[1] > 1 => Num(date) >= WeekLength

\* The day of a month: the last one when none is given or the month is shorter.
Clip(y, m, day)   == IF day = 0 THEN YearMonths[y][m] ELSE Min({day, YearMonths[y][m]})
PreviousMonth(y, m) == IF m > 1 THEN <<y, m - 1>> ELSE <<y - 1, Len(YearMonths[y - 1])>>

\* Mutant: the previous month takes the day of this one, only cut down.
ScheduledOnCutDay(p, n, after) ==
  LET date == DateOf(n)  y == date[1]  m == date[2]
      Past(s) == s < n \/ (s = n /\ after)
      this == Num(<<y, m, Clip(y, m, p.day)>>)
      prev == PreviousMonth(y, m)
  IN IF Past(this) THEN this ELSE Num(<<prev[1], prev[2], Clip(prev[1], prev[2], Clip(y, m, p.day))>>)

Scheduled(p, n, after) ==
  LET date == DateOf(n)  y == date[1]  m == date[2]
      Past(s) == s < n \/ (s = n /\ after)
      daily   == IF after THEN n ELSE n - 1
      week    == n - ((n - p.day) % WeekLength)
      month   == Num(<<y, m, Clip(y, m, p.day)>>)
      before  == PreviousMonth(y, m)
      year    == Num(<<y, p.month, Clip(y, p.month, p.day)>>)
  IN CASE p.cadence = "daily"   -> daily
       [] p.cadence = "weekly"  -> IF Past(week) THEN week ELSE week - WeekLength
       [] p.cadence = "monthly" -> IF Past(month) THEN month
                                   ELSE Num(<<before[1], before[2], Clip(before[1], before[2], p.day)>>)
       [] p.cadence = "yearly"  -> IF Past(year) THEN year
                                   ELSE Num(<<y - 1, p.month, Clip(y - 1, p.month, p.day)>>)

Policies == [cadence : {"daily", "weekly", "monthly", "yearly"}, month : DOMAIN YearMonths[1],
             day : 0..Max({YearMonths[1][m] : m \in DOMAIN YearMonths[1]})]

\* run_due_captures computes the due time at any moment, here of the later years.
ComputeDue ==
  /\ planned = NoPlan /\ plan = {} /\ covered = {} /\ rows = {} /\ kind = "always"
  /\ \E p \in Policies, date \in {e \in Dates : e[1] > 1}, after \in BOOLEAN :
       planned' = [policy |-> p, day |-> Num(date), after |-> after,
                   at |-> Scheduled(p, Num(date), after)]
  /\ UNCHANGED <<kind, batchSize, today, ready, covered, rows, plan, clean, asked, others>>

PlanNext == \/ Build \/ RunRequest \/ UserQuery \/ StrayRow \/ Expire \/ TimePasses \/ ComputeDue
PlanSpec == PlanInit /\ [][PlanNext]_planVars

----------------------------------------------------------------------------
(* Properties. *)

PlanTypeOK ==
  /\ kind \in Kinds /\ today \in Days /\ ready \in BOOLEAN /\ clean \in BOOLEAN
  /\ rows \subseteq (PlanCodes \cup {Stray}) \X Days

RunSettled == plan = {} /\ clean

\* A run whose requests all succeeded leaves no hole in its window: every code
\* on every day was answered for, by this run or when its coverage was stored.
\* Left out are the kinds that settle for less: a batch with pooled coverage
\* takes what is stored for one code for all, boards need nine tenths, and the
\* daily snapshot counts rows, also those of a code the catalogue lacks.
SettledIsComplete ==
  RunSettled /\ kind \notin {"pooled", "share", "months"} =>
    \A c \in PlanCodes, d \in Window : <<c, d>> \in asked \/ (kind = "newest" /\ <<Stray, d>> \in rows)

\* The next build of a settled window asks for nothing, whatever ranges the
\* coverage was stored in.  A row of a code the catalogue lacks leaves the count
\* of the daily snapshot wrong for good.  Left out are the kinds that are asked
\* for again by every run: those without coverage, and those of the whole market
\* and of months, whose coverage is stored but looked up under another scope.
NothingTwice ==
  RunSettled /\ kind \notin MarketKinds \cup {"always", "months"} =>
    BuildRequests = {} \/ (kind = "newest" /\ \E d \in Window : <<Stray, d>> \in rows)

\* A capture run asks for what is missing, whatever ranges the coverage was stored
\* in, and where its coverage is looked up as it is stored for nothing else: the
\* last build leaves no hole, and of these kinds a next one has no request.
RequestsExact == SettledIsComplete /\ NothingTwice

\* What test_research_month_requests_only_build_missing_months says of months.
MonthsOnce == RunSettled /\ kind = "months" => BuildRequests = {}

\* The due time is the latest occurrence of the policy that is not after now.
Occurs(p, date) ==
  CASE p.cadence = "daily"   -> TRUE
    [] p.cadence = "weekly"  -> Num(date) % WeekLength = p.day % WeekLength
    [] p.cadence = "monthly" -> date[3] = Clip(date[1], date[2], p.day)
    [] p.cadence = "yearly"  -> date[2] = p.month /\ date[3] = Clip(date[1], date[2], p.day)
ScheduledIsLatest ==
  planned # NoPlan =>
    planned.at = Max({Num(e) : e \in {e \in Dates :
                       Occurs(planned.policy, e)
                         /\ (Num(e) < planned.day \/ (Num(e) = planned.day /\ planned.after))}})
=============================================================================
