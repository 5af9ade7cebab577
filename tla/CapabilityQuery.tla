-------------------------- MODULE CapabilityQuery --------------------------
(***************************************************************************)
(* The cached query of one capability: execute_capability_query reads the  *)
(* coverage and the rows the Postgres cache holds for the request, lets    *)
(* the facade's request builder say what is missing, sends that through    *)
(* the fallback chain and writes the merged rows back, to the cache or to  *)
(* the fact tables.  Each SQL statement is a step of its own: two queries  *)
(* of the same capability interleave, rows expire between two statements   *)
(* and the statement that writes the rows may fail where the one that      *)
(* writes the coverage succeeds.                                           *)
(*                                                                         *)
(* A row is identified by what the request asks for, a scope (a code, a    *)
(* market, a view: request_scope_fields) and a date; its other fields and  *)
(* their merging are FallbackChain's subject.  The chain is taken by what  *)
(* it promises: the rows it is given, and any of those it asked for that   *)
(* the sources have.                                                       *)
(***************************************************************************)
EXTENDS Integers, FiniteSets

CONSTANTS Callers,      \* threads running a query
          Scopes,       \* values of the request's scope fields
          LastDate,     \* dates are 1..LastDate
          Requests,     \* what is asked: set of <<scopes, span>>
          Published,    \* the rows the sources have: set of <<scope, date>>
          Ttl,          \* ttl_seconds of the cache policy
          MaxNow,       \* bound on the clock
          MaxAsks       \* bound on the queries asked

ASSUME SizesAssumption ==
  /\ LastDate \in Nat \ {0} /\ Ttl \in Nat \ {0} /\ MaxNow \in Nat /\ MaxAsks \in Nat
  /\ Scopes # {}

Dates == 1..LastDate
Ids   == Scopes \X Dates
Spans == {w \in Dates \X Dates : w[1] <= w[2]}

ASSUME DataAssumption ==
  /\ Published \subseteq Ids
  /\ Requests \subseteq (SUBSET Scopes) \X Spans

(***************************************************************************)
(* The facades: how each fills its CapabilityQuerySpec.                    *)
(*   builder  what it asks for: each missing row ("each"), the whole       *)
(*            request if it has no row at all ("any"), "each" for a        *)
(*            single day and "any" otherwise ("day"), or always all of it  *)
(*   store    where the rows live: the cache or the fact tables            *)
(*   window   coverage_mode: a "range" of dates, or a snapshot of one day  *)
(*            whose date is ("dated") or is not ("undated") a scope field  *)
(* and with which marks:                                                   *)
(*   local    base_items are read from the fact tables                     *)
(*   blind    the cache's key_fields leave out one of the scope fields     *)
(*   wide     the scope fields leave out what the request selects by       *)
(*   shrink   the coverage written is that of the rows, not the request's  *)
(*   partial  the fact writer may keep only part of what it is given       *)
(*   lacking  no source is asked unless a daily row lacks its factor       *)
(***************************************************************************)
Facade(builder, store, window, marks) ==
  [builder |-> builder, store |-> store, window |-> window,
   local |-> "local" \in marks, blind |-> "blind" \in marks,
   shrink |-> "shrink" \in marks, wide |-> "wide" \in marks,
   partial |-> "partial" \in marks, lacking |-> "lacking" \in marks]

\* A cached list: fetched whole when no row of it is cached.
StoreList         == Facade("any", "cache", "range", {})
MarketStoreList   == Facade("any", "cache", "range", {})
DailyIndicator    == Facade("any", "cache", "range", {})
IndexMembers      == Facade("any", "cache", "range", {})

Profile           == StoreList
Managers          == StoreList
ManagementRewards == StoreList
Dividends         == StoreList
Repurchases       == StoreList
RightsIssues      == StoreList
ShareChanges      == StoreList
UnlockSchedules   == StoreList
Statements        == StoreList
FinanceIndicators == StoreList
FinancialPit      == StoreList
Express           == StoreList
ExpressSnapshot   == StoreList
Forecasts         == StoreList
ForecastSnapshot  == StoreList
Audits            == StoreList
DisclosureDates   == StoreList
NineTurn          == StoreList
Premarket         == StoreList
RiskFlags         == StoreList
AhComparisons     == StoreList
ChipDistribution  == StoreList
ChipPerformance   == StoreList
CcassHoldings     == StoreList
CcassDetails      == StoreList
HkConnectHoldings == StoreList
PledgeStats       == StoreList
ShareholderCount  == StoreList
ShareholderChanges == StoreList
ResearchReports   == StoreList
Surveys           == StoreList
ConnectQuotas     == MarketStoreList
DragonTiger       == MarketStoreList
DragonTigerInstitutions == MarketStoreList
HotMoney          == MarketStoreList
HotMoneyDetails   == MarketStoreList
Sessions          == MarketStoreList

\* Cached lists whose scope leaves out what the request selects by.
Archive           == Facade("any", "cache", "range", {"wide"})
TechnicalFactors  == Facade("any", "cache", "range", {"wide"})
PledgeDetails     == Facade("any", "cache", "range", {"wide"})
BseCodeMappings   == Facade("any", "cache", "range", {"wide"})
HkConnectTargets  == Facade("any", "cache", "range", {"wide"})
ConceptCategories == Facade("any", "cache", "range", {"wide"})

MainBusiness      == Facade("any", "cache", "range", {"shrink"})
MoneyFlow         == Facade("each", "cache", "range", {"blind"})
MoneyFlowBatch    == Facade("each", "cache", "range", {"blind"})
MoneyFlowSnapshot == Facade("any", "cache", "undated", {"blind"})
MarginSnapshot    == Facade("any", "cache", "undated", {})
MainCapitalFlow   == Facade("day", "cache", "range", {})
ConnectFlow       == Facade("day", "cache", "range", {})
IntradayQuotes    == Facade("each", "cache", "range", {"local", "shrink"})
DailySnapshot     == Facade("each", "cache", "dated", {"local", "shrink"})

DailyQuotes       == Facade("each", "facts", "range", {"local"})
IndexQuotes       == Facade("each", "facts", "range", {"local"})
EtfQuotes         == Facade("each", "facts", "range", {"local"})
TradingCalendar   == Facade("each", "facts", "range", {"local"})
StockBasic        == Facade("any", "facts", "range", {"local"})
IndexCatalog      == Facade("any", "facts", "range", {"local"})
IndexProfile      == Facade("any", "facts", "range", {"local"})

\* A name without a start date is not stored.
NameHistory       == Facade("any", "facts", "range", {"local", "partial"})
\* One minute and thirty minute bars, not adjusted: the row is a day, and of
\* the one minute bars only complete days are stored.
IntradayBars      == Facade("each", "facts", "range", {"local", "partial"})
\* A factor is stored only into a daily row that has none.
AdjFactors        == Facade("always", "facts", "range", {"local", "partial", "lacking"})

Facades ==
  {StoreList, MarketStoreList, DailyIndicator, IndexMembers, ConceptCategories,
   Archive, TechnicalFactors, PledgeDetails, BseCodeMappings, HkConnectTargets,
   MainBusiness, MoneyFlow, MoneyFlowBatch, MoneyFlowSnapshot, MarginSnapshot,
   MainCapitalFlow, ConnectFlow, IntradayQuotes, DailySnapshot,
   DailyQuotes, IndexQuotes, EtfQuotes, TradingCalendar,
   StockBasic, NameHistory, IndexCatalog, IndexProfile, IntradayBars, AdjFactors}

VARIABLES facade,       \* the capability asked
          facts,        \* the rows of the fact table
          daily,        \* where the row is a field of a daily row: those there are
          row,          \* capability_cache_rows: whose row a key holds, and until when
          cover,        \* capability_cache_coverage: until when, 0 for no row
          now, asks, call

vars == <<facade, facts, daily, row, cover, now, asks, call>>

Phases == {"idle", "lacking", "coverage", "store", "chain", "rows", "cover", "facts",
           "done", "failed"}

Idle == [phase |-> "idle", scopes |-> {}, span |-> <<1, 1>>, windows |-> {},
         hit |-> FALSE, base |-> {}, answer |-> {}, whole |-> TRUE, until |-> 0]

TypeOK ==
  /\ facade \in Facades
  /\ facts \subseteq Ids
  /\ daily \in [Ids -> {"none", "traded", "suspended"}]
  /\ row \in [Ids -> [of : Scopes, until : 0..(MaxNow + Ttl)]]
  /\ cover \in [Scopes \X Spans -> 0..(MaxNow + Ttl)]
  /\ now \in 0..MaxNow /\ asks \in 0..MaxAsks
  /\ call \in [Callers -> [phase : Phases, scopes : SUBSET Scopes, span : Spans,
                           windows : SUBSET (Scopes \X Spans),
                           hit : BOOLEAN, base : SUBSET Ids, answer : SUBSET Ids,
                           whole : BOOLEAN, until : 0..(MaxNow + Ttl)]]

Init ==
  /\ facade \in Facades
  /\ facts \in {{}, Published}
  /\ daily = [k \in Ids |-> IF facade.lacking /\ k \in facts THEN "traded" ELSE "none"]
  /\ row = [k \in Ids |-> [of |-> k[1], until |-> 0]]
  /\ cover = [c \in Scopes \X Spans |-> 0]
  /\ now = 0 /\ asks = 0
  /\ call = [p \in Callers |-> Idle]

----------------------------------------------------------------------------
(* Requests and the rows they are about                                     *)

Within(w) == {d \in Dates : w[1] <= d /\ d <= w[2]}

Wanted(c) == c.scopes \X Within(c.span)

\* The requests of a blind or wide capability name one view or selection, those
\* for factors one code; a snapshot is of one day.
MayAsk(S, w) ==
  /\ facade.blind \/ facade.wide \/ facade.lacking => Cardinality(S) = 1
  /\ facade.window # "range" => w[1] = w[2]

\* request_builder: what to ask the sources for, given the rows at hand.
Missing(c, items) ==
  CASE facade.builder = "each"   -> Wanted(c) \ items
    [] facade.builder = "always" -> Wanted(c)
    [] facade.builder = "day" /\ c.span[1] = c.span[2] -> Wanted(c) \ items
    [] OTHER -> IF items = {} THEN Wanted(c) ELSE {}

\* A query returns its rows.
Done(c, items) ==
  [c EXCEPT !.phase = "done", !.answer = items, !.base = {}, !.windows = {}, !.until = 0]

\* It first writes them, with the deadline the policy gives them now.
Writing(c, items, next) ==
  [c EXCEPT !.phase = next, !.answer = items, !.windows = {}, !.until = now + Ttl,
            !.base = IF facade.lacking THEN @ ELSE {}]

\* With base items that leave nothing to ask for, the query is answered, and
\* a cached capability writes them (again); otherwise it asks the sources.
Settle(c, base) ==
  IF Missing(c, base) # {} THEN [c EXCEPT !.phase = "chain", !.base = base, !.windows = {}]
  ELSE IF facade.store = "cache" /\ base # {} THEN Writing(c, base, "rows")
  ELSE Done(c, base)

\* How a query with these local rows begins.
Opened(c, base) ==
  CASE facade.store = "cache" -> [c EXCEPT !.base = base, !.phase = "coverage"]
    [] facade.lacking         -> [c EXCEPT !.base = base, !.phase = "lacking"]
    [] OTHER                  -> Settle(c, base)

Ask(p) ==
  /\ call[p].phase \in {"idle", "done", "failed"} /\ asks < MaxAsks
  /\ \E r \in Requests :
       /\ MayAsk(r[1], r[2])
       /\ LET c    == [Idle EXCEPT !.scopes = r[1], !.span = r[2]]
              base == IF facade.local THEN facts \cap Wanted(c) ELSE {}
          IN  call' = [call EXCEPT ![p] = Opened(c, base)]
  /\ asks' = asks + 1
  /\ UNCHANGED <<facade, facts, daily, row, cover, now>>

\* get_stock_codes_missing_adj_factors, a statement after the one that read the
\* local factors: with daily rows, none of them but for suspended days without
\* its factor, the local factors are the answer and no source is asked.
LackingRead(p) ==
  LET c    == call[p]
      mine == {id \in Wanted(c) : daily[id] # "none"}
  IN  /\ c.phase = "lacking"
      /\ call' = [call EXCEPT ![p] =
                    IF mine # {} /\ \A id \in mine : daily[id] = "traded" => id \in facts
                    THEN Done(c, c.base) ELSE Settle(c, c.base)]
      /\ UNCHANGED <<facade, facts, daily, row, cover, now, asks>>

----------------------------------------------------------------------------
(* UnifiedPostgresCacheStore.read                                           *)

Fresh(until) == until > now

\* The scope fields of a wide capability are the same in every request.
ScopeOf(s) == IF facade.wide THEN CHOOSE t \in Scopes : TRUE ELSE s

Covers(k, w) ==
  IF facade.window = "range" THEN k[1] <= w[1] /\ w[2] <= k[2] ELSE k = w

Overlaps(k, w) ==
  IF facade.window = "range" THEN k[1] <= w[2] /\ w[1] <= k[2] ELSE k = w

\* The dates read for one coverage: a snapshot without its date among the
\* scope fields reads every date.
ReadSpan(k, w) ==
  IF facade.window = "undated" THEN <<1, LastDate>>
  ELSE <<IF k[1] > w[1] THEN k[1] ELSE w[1], IF k[2] < w[2] THEN k[2] ELSE w[2]>>

CoverageRead(p) ==
  LET c       == call[p]
      full(s) == {k \in Spans : Fresh(cover[<<ScopeOf(s), k>>]) /\ Covers(k, c.span)}
      part(s) == {k \in Spans : Fresh(cover[<<ScopeOf(s), k>>]) /\ Overlaps(k, c.span)}
      open    == {s \in c.scopes : full(s) = {}}
      windows == IF open = {}
                 THEN {<<s, ReadSpan(c.span, c.span)>> : s \in c.scopes}
                 ELSE UNION {{<<s, ReadSpan(k, c.span)>> : k \in part(s)} : s \in open}
  IN  /\ c.phase = "coverage"
      /\ call' = [call EXCEPT ![p] =
                    IF windows = {} THEN Settle(c, c.base)
                    ELSE [c EXCEPT !.windows = windows, !.hit = (open = {}), !.phase = "store"]]
      /\ UNCHANGED <<facade, facts, daily, row, cover, now, asks>>

\* Mutant: the rows of the windows, whatever scope they belong to.
StoredRowsAll(c) ==
  {<<row[k].of, k[2]>> : k \in {j \in Ids : /\ Fresh(row[j].until)
                                           /\ \E w \in c.windows : j[2] \in Within(w[2])}}

\* The rows of the windows, less those of scopes that were not asked for; of
\* a wide capability, whatever they were selected by.
StoredRows(c) ==
  LET read == {k \in Ids : /\ Fresh(row[k].until)
                           /\ \E w \in c.windows : /\ k[2] \in Within(w[2])
                                                   /\ facade.blind \/ facade.wide \/ k[1] = w[1]}
  IN  {<<row[k].of, k[2]>> : k \in {j \in read : facade.wide \/ row[j].of \in c.scopes}}

\* Mutant: a hit is the answer, whatever it leaves to ask for.
StoreReadTrusts(p) ==
  LET c     == call[p]
      items == StoredRows(c)
  IN  /\ c.phase = "store"
      /\ call' = [call EXCEPT ![p] = IF c.hit THEN Done(c, items)
                                     ELSE Settle(c, items \cup c.base)]
      /\ UNCHANGED <<facade, facts, daily, row, cover, now, asks>>

\* A hit that leaves nothing to ask for is the answer; otherwise what was
\* read joins the base items.
StoreRead(p) ==
  LET c     == call[p]
      items == StoredRows(c)
  IN  /\ c.phase = "store"
      /\ call' = [call EXCEPT ![p] =
                    IF c.hit /\ Missing(c, items) = {}
                    THEN Done(c, items)
                    ELSE Settle(c, items \cup c.base)]
      /\ UNCHANGED <<facade, facts, daily, row, cover, now, asks>>

----------------------------------------------------------------------------
(* The fallback chain and the writes                                        *)

\* Rows of the sources may repeat base rows with other values: whether they
\* changed decides whether there is anything to write to the fact table.
AfterChain(c, got) ==
  IF facade.store = "cache" THEN {IF c.base \cup got # {} THEN "rows" ELSE "done"}
  ELSE IF got \ c.base # {} THEN {"facts"}
  ELSE IF got # {} THEN {"facts", "done"} ELSE {"done"}

\* A source may fail and the others still give everything.
Chain(p) ==
  LET c   == call[p]
      has == Missing(c, c.base) \cap Published
  IN  /\ c.phase = "chain"
      /\ \E got \in SUBSET has : \E whole \in {FALSE, got = has}, next \in AfterChain(c, got) :
           LET told == [c EXCEPT !.whole = whole]
           IN  call' = [call EXCEPT ![p] = IF next = "done" THEN Done(told, c.base \cup got)
                                           ELSE Writing(told, c.base \cup got, next)]
      /\ UNCHANGED <<facade, facts, daily, row, cover, now, asks>>

\* The key a row is stored under.
KeyOf(id) == IF facade.blind THEN <<CHOOSE s \in Scopes : TRUE, id[2]>> ELSE id

Upserted(c) ==
  [k \in Ids |-> LET new == {id \in c.answer : KeyOf(id) = k}
                 IN  IF new = {} THEN row[k]
                     ELSE [of |-> (CHOOSE id \in new : TRUE)[1], until |-> c.until]]

\* rows.upsert_many: its failure is noted and the write goes on.
WriteRows(p) ==
  LET c == call[p]
  IN  /\ c.phase = "rows"
      /\ row' \in {row, Upserted(c)}
      /\ call' = [call EXCEPT ![p].phase = "cover"]
      /\ UNCHANGED <<facade, facts, daily, cover, now, asks>>

\* The spans recorded for one scope of the request.
Recorded(c, s) ==
  LET mine == {id[2] : id \in {i \in c.answer : i[1] = s}}
  IN  IF facade.shrink
      THEN {w \in Spans : /\ w[1] \in mine /\ w[2] \in mine
                          /\ \A d \in mine : w[1] <= d /\ d <= w[2]}
      ELSE {c.span}

WriteCoverage(p) ==
  LET c   == call[p]
      new == UNION {{<<ScopeOf(s), w>> : w \in Recorded(c, s)} : s \in c.scopes}
  IN  /\ c.phase = "cover"
      /\ cover' \in {cover, [k \in DOMAIN cover |-> IF k \in new THEN c.until ELSE cover[k]]}
      /\ call' = [call EXCEPT ![p] = Done(c, c.answer)]
      /\ UNCHANGED <<facade, facts, daily, row, now, asks>>

\* What a fact writer that reports success may have stored.
Kept(c) ==
  LET room == IF facade.lacking THEN {id \in c.answer : daily[id] # "none"} ELSE c.answer
  IN  IF facade.partial THEN SUBSET room ELSE {c.answer}

\* What the caller then gets: of a query for factors in which a source failed,
\* only the local ones.
Replied(c) == IF facade.lacking /\ ~c.whole THEN c.base ELSE c.answer

\* fact_ref_writer: the changed rows, or an error to the caller.
WriteFacts(p) ==
  LET c == call[p]
  IN  /\ c.phase = "facts"
      /\ \E kept \in Kept(c) : facts' = facts \cup kept
      /\ call' = [call EXCEPT ![p] = Done(c, Replied(c))]
      /\ UNCHANGED <<facade, daily, row, cover, now, asks>>

\* Mutant: what could not be written is returned all the same.
FactsRefusedAnswers(p) ==
  /\ call[p].phase = "facts"
  /\ call' = [call EXCEPT ![p] = Done(call[p], call[p].answer)]
  /\ UNCHANGED <<facade, facts, daily, row, cover, now, asks>>

FactsRefused(p) ==
  /\ call[p].phase = "facts"
  /\ call' = [call EXCEPT ![p] = [Idle EXCEPT !.phase = "failed"]]
  /\ UNCHANGED <<facade, facts, daily, row, cover, now, asks>>

----------------------------------------------------------------------------
(* The environment                                                          *)

\* Another capability stores a daily row, which has no factor yet.
DailyRow(id) ==
  /\ facade.lacking /\ daily[id] = "none"
  /\ \E kind \in {"traded", "suspended"} : daily' = [daily EXCEPT ![id] = kind]
  /\ UNCHANGED <<facade, facts, row, cover, now, asks, call>>

Tick ==
  /\ now < MaxNow
  /\ now' = now + 1
  /\ UNCHANGED <<facade, facts, daily, row, cover, asks, call>>

Next ==
  \/ \E p \in Callers : \/ Ask(p) \/ LackingRead(p) \/ CoverageRead(p) \/ StoreRead(p) \/ Chain(p)
                        \/ WriteRows(p) \/ WriteCoverage(p) \/ WriteFacts(p)
                        \/ FactsRefused(p)
  \/ \E id \in Ids : DailyRow(id)
  \/ Tick

Spec == Init /\ [][Next]_vars

----------------------------------------------------------------------------
(* Properties                                                               *)

\* The facade asks for every row it lacks; factors are only asked for when a
\* daily row lacks one.
AsksEach(c) ==
  \/ facade.builder = "each"
  \/ facade.builder = "day" /\ c.span[1] = c.span[2]

\* Where the builder names each missing row, a query none of whose source
\* calls failed answers with every row the sources had when it was asked,
\* whatever the cache holds of it: expired, partly covered, overwritten by
\* another view or covered by a span whose rows were never written.
DatedComplete ==
  \A p \in Callers : LET c == call[p] IN
    c.phase = "done" /\ c.whole /\ AsksEach(c) => Wanted(c) \cap Published \subseteq c.answer

\* No answer holds a row of another scope, though two views of a capability
\* share the keys of their rows, unless the scope leaves out what the request
\* selects by; nor, unless it is a snapshot whose scope leaves out the date,
\* of another date.
AnswersAskedFor ==
  \A p \in Callers : LET c == call[p] IN
    c.phase = "done" =>
      \A id \in c.answer : /\ ~facade.wide => id[1] \in c.scopes
                           /\ facade.window # "undated" => id[2] \in Within(c.span)

\* A capability kept in the fact tables answers only with rows that are in
\* them: what the sources gave is stored before it is returned, or the query
\* fails.  Where the writer keeps only part of it this is promised of one
\* answer, that of a query for factors in which a source failed.
AnswersAreStored ==
  \A p \in Callers : LET c == call[p] IN
    /\ facade.store = "facts" /\ c.phase = "done"
    /\ facade.partial => facade.lacking /\ ~c.whole
    => c.answer \subseteq facts
============================================================================
