-------------------------- MODULE FuturesPublication --------------------------
(***************************************************************************)
(* The published one-minute bars of the back-adjusted futures: the fact    *)
(* table and the generation its triggers count, the Pyramid import with    *)
(* its frozen plan, the staged repair, the publication of immutable        *)
(* metadata (source boundaries and observed intervals, never the bars) and *)
(* the reader that pages through the table under one publication.          *)
(*                                                                         *)
(* A transaction that changes rows of the series takes the lock of its     *)
(* generation in the trigger and holds it until it ends, so generations    *)
(* are committed in order, each with its rows.  Identities are hashes of   *)
(* their contents: here they are the contents.                             *)
(***************************************************************************)
EXTENDS Integers, Sequences, FiniteSets, FiniteSetsExt

CONSTANTS ProductCount, LastMinute,   \* products and minutes of the series
          Bundle,                     \* the Pyramid bundle: values by key
          Staged,                     \* the staged repair: values by key
          ApexTables,                 \* the tables a behaviour may begin with
          OwnerKeys, OwnerRows,       \* keys the table's owner works on, and with what
          Unsound,                    \* a value no quality predicate accepts
          InvalidApex,                \* INVALID_APEX_KEYS
          NoBar, NoFrozen,
          ReadQueries,                \* of bars or of coverage: products, range and limit
          MaxGeneration               \* bound

BarKeys == (1..ProductCount) \X (1..LastMinute)
Product(k) == k[1]
Minute(k)  == k[2]
Bar(v, s)  == [value |-> v, source |-> s]

ASSUME FuturesAssumption ==
  /\ ProductCount \in Nat \ {0} /\ LastMinute \in Nat \ {0} /\ MaxGeneration \in Nat
  /\ DOMAIN Bundle \subseteq BarKeys /\ DOMAIN Staged \subseteq BarKeys
  /\ OwnerKeys \subseteq BarKeys
  /\ ReadQueries \subseteq [kind : {"bars", "coverage"}, codes : (SUBSET (1..ProductCount)) \ {{}},
                            from : 1..LastMinute, to : 1..LastMinute, limit : 1..LastMinute]
  /\ \A q \in ReadQueries : q.from <= q.to
  /\ NoBar \notin BarKeys

VARIABLES bars,          \* fact.future_bar_1m
          generation,    \* newest of future_bar_1m_series_generation
          repaired,      \* the artifact is in future_back_adjusted_1m_repair_publications
          import,        \* the importer: where it is, its plan, what it inserted
          receipts,      \* future_bar_1m_import_publication with its children
          publisher,     \* the frozen plan and how far its publication is
          publications,  \* future_bar_1m_partial_publication with its children
          reading        \* the reader: its query, its cursor, the pages it got

futureVars == <<bars, generation, repaired, import, receipts, publisher, publications, reading>>

NoImport == [at |-> "idle", plan |-> NoFrozen, added |-> {}]
Unplanned == [at |-> "idle", plan |-> NoFrozen]
NotRead  == [at |-> "idle"]

FutureInit ==
  /\ bars \in ApexTables
  /\ generation = 1 /\ repaired = FALSE
  /\ import = NoImport /\ receipts = {}
  /\ publisher = Unplanned /\ publications = {}
  /\ reading = NotRead

----------------------------------------------------------------------------
(* The table and its generation *)

\* pg_advisory_xact_lock of the generation: held by an import that has
\* inserted a row.  All others change rows and commit in one step.
Unlocked == ~(import.at \in {"inserted", "checked"} /\ import.added # {})

\* The triggers: a statement that touched a row records the next generation.
Commit(table) ==
  /\ generation < MaxGeneration
  /\ bars' = table
  /\ generation' = generation + 1

\* The owner of the table adds, corrects or deletes a row by hand.
OwnerWrites ==
  \E k \in OwnerKeys, row \in OwnerRows :
    /\ Unlocked /\ bars[k] # row
    /\ Commit([bars EXCEPT ![k] = row])
    /\ UNCHANGED <<repaired, import, receipts, publisher, publications, reading>>

\* FuturesBackAdjustedRepairPublisher.publish: every staged key is missing, all
\* of them are inserted, and the artifact is recorded once.
Repair ==
  /\ Unlocked /\ ~repaired
  /\ \A k \in DOMAIN Staged : bars[k] = NoBar
  /\ Commit([k \in BarKeys |-> IF k \in DOMAIN Staged THEN Bar(Staged[k], "shinny") ELSE bars[k]])
  /\ repaired' = TRUE
  /\ UNCHANGED <<import, receipts, publisher, publications, reading>>

----------------------------------------------------------------------------
(* The Pyramid import *)

Disposition(k, row) ==
  IF row = NoBar THEN "missing" ELSE IF row.value = Bundle[k] THEN "equivalent" ELSE "conflict"

\* classify_filesystem_bundle: one snapshot, written to the plan file.
Classify ==
  /\ import.at = "idle"
  /\ import' = [import EXCEPT !.at = "planned",
                              !.plan = [generation |-> generation, was |-> [k \in DOMAIN Bundle |-> bars[k]]]]
  /\ UNCHANGED <<bars, generation, repaired, receipts, publisher, publications, reading>>

Proceeds(stage) == import' = [import EXCEPT !.at = stage]
ImportEnds      == import' = NoImport

\* publish_filesystem_bundle: a receipt of this plan ends it; otherwise the rows
\* the plan found must be there, unchanged.
CheckEvidence ==
  /\ import.at = "planned"
  /\ IF \/ \E r \in receipts : r.plan = import.plan
        \/ \E k \in DOMAIN Bundle : import.plan.was[k] \notin {NoBar, bars[k]}
     THEN ImportEnds ELSE Proceeds("evident")
  /\ UNCHANGED <<bars, generation, repaired, receipts, publisher, publications, reading>>

CheckGeneration ==
  /\ import.at = "evident"
  /\ IF generation # import.plan.generation THEN ImportEnds ELSE Proceeds("current")
  /\ UNCHANGED <<bars, generation, repaired, receipts, publisher, publications, reading>>

Reclassify ==
  /\ import.at = "current"
  /\ IF \E k \in DOMAIN Bundle : Disposition(k, bars[k]) # Disposition(k, import.plan.was[k])
     THEN ImportEnds ELSE Proceeds("classified")
  /\ UNCHANGED <<bars, generation, repaired, receipts, publisher, publications, reading>>

\* insert ... on conflict do nothing of the keys planned as missing.
InsertMissing ==
  /\ import.at = "classified"
  /\ import' = [import EXCEPT !.at = "inserted",
                              !.added = {k \in DOMAIN Bundle : import.plan.was[k] = NoBar /\ bars[k] = NoBar}]
  /\ UNCHANGED <<bars, generation, repaired, receipts, publisher, publications, reading>>

\* actual_disposition of a staged key: of the row inserted, or of the row there.
ActualDisposition(k) == IF k \in import.added THEN "inserted" ELSE Disposition(k, bars[k])

CheckInserted ==
  LET asPlanned(k) == \/ ActualDisposition(k) = Disposition(k, import.plan.was[k]) /\ ActualDisposition(k) # "missing"
                      \/ /\ import.plan.was[k] = NoBar
                         /\ ActualDisposition(k) \in {"inserted", "equivalent"}
      admits(k) == ActualDisposition(k) \in {"inserted", "equivalent"}
  IN  /\ import.at = "inserted"
      /\ import' = IF \A k \in DOMAIN Bundle : asPlanned(k)
                   THEN [at |-> "checked", plan |-> import.plan, added |-> import.added,
                         admitted |-> {k \in DOMAIN Bundle : admits(k)}]
                   ELSE NoImport
      /\ UNCHANGED <<bars, generation, repaired, receipts, publisher, publications, reading>>

\* The receipt with the manifests of its children, which are sealed and read
\* again by everything that relies on it: admissions, and conflicts among the
\* dispositions.
SealedReceipt == [plan |-> import.plan, admitted |-> import.admitted,
                  conflicts |-> DOMAIN Bundle \ import.admitted]

CommitImport ==
  /\ import.at = "checked"
  /\ IF import.added = {} THEN UNCHANGED <<bars, generation>>
     ELSE Commit([k \in BarKeys |-> IF k \in import.added THEN Bar(Bundle[k], "pyramid") ELSE bars[k]])
  /\ receipts' = receipts \cup {SealedReceipt}
  /\ ImportEnds
  /\ UNCHANGED <<repaired, publisher, publications, reading>>

\* An error or a lost connection: rollback.
ImportFails ==
  /\ import.at # "idle"
  /\ ImportEnds
  /\ UNCHANGED <<bars, generation, repaired, receipts, publisher, publications, reading>>

----------------------------------------------------------------------------
(* Publication *)

\* admitted_rows_cte: what both the plan and the public pages accept.
AdmittedKeys(receipt) ==
  {k \in BarKeys : /\ bars[k] # NoBar /\ bars[k].value # Unsound
                   /\ k \notin receipt.conflicts
                   /\ \/ bars[k].source = "pyramid" /\ k \in receipt.admitted
                      \/ bars[k].source = "shinny"
                      \/ bars[k].source = "apex" /\ k \notin InvalidApex}
AdmittedRows(receipt) == [k \in AdmittedKeys(receipt) |-> bars[k]]

\* plan: one snapshot of the generation, the receipt and the admitted rows.
PlanOf(receipt) == [generation |-> generation, receipt |-> receipt, rows |-> AdmittedRows(receipt)]

PlanPublication ==
  \E r \in receipts :
    /\ publisher.at = "idle"
    /\ publisher' = [at |-> "planned", plan |-> PlanOf(r)]
    /\ UNCHANGED <<bars, generation, repaired, import, receipts, publications, reading>>

\* publish begins with a plan of its own, which must be the frozen one.
ComparePlan ==
  /\ publisher.at = "planned"
  /\ publisher' = IF PlanOf(publisher.plan.receipt) = publisher.plan
                  THEN [publisher EXCEPT !.at = "compared"] ELSE Unplanned
  /\ UNCHANGED <<bars, generation, repaired, import, receipts, publications, reading>>

\* Under the lock of the publication: the generation again, then the immutable
\* parents and children, or the check of those that are there.
Publish ==
  /\ publisher.at = "compared"
  /\ publications' = IF generation = publisher.plan.generation
                     THEN publications \cup {publisher.plan} ELSE publications
  /\ publisher' = Unplanned
  /\ UNCHANGED <<bars, generation, repaired, import, receipts, reading>>

\* _collect_admitted: islands of one source in the order of the rows, and runs of
\* consecutive minutes.
Between(rows, p, a, b) == {k \in DOMAIN rows : Product(k) = p /\ Minute(k) \in a..b}
Span(p, a, b) == [product |-> p, start |-> a, end |-> b]

IsIsland(rows, p, a, b) ==
  LET of(k) == rows[k].source
      before == Between(rows, p, 1, a - 1)
      after  == Between(rows, p, b + 1, LastMinute)
      last   == <<p, Max({Minute(k) : k \in before})>>
      next   == <<p, Min({Minute(k) : k \in after})>>
  IN  /\ {<<p, a>>, <<p, b>>} \subseteq DOMAIN rows
      /\ \A k \in Between(rows, p, a, b) : of(k) = of(<<p, a>>)
      /\ before # {} => of(last) # of(<<p, a>>)
      /\ after # {} => of(next) # of(<<p, a>>)
Boundaries(rows) ==
  LET islands == {x \in (DOMAIN rows) \X (1..LastMinute) :
                    x[2] >= Minute(x[1]) /\ IsIsland(rows, Product(x[1]), Minute(x[1]), x[2])}
  IN  {[span |-> Span(Product(x[1]), Minute(x[1]), x[2]), source |-> rows[x[1]].source] : x \in islands}

Intervals(rows) ==
  LET observed(p, a, b) == \A m \in a..b : <<p, m>> \in DOMAIN rows
      isRun(p, a, b) == a <= b /\ observed(p, a, b)
                        /\ <<p, a - 1>> \notin DOMAIN rows /\ <<p, b + 1>> \notin DOMAIN rows
  IN  {Span(Product(x[1]), Minute(x[1]), x[2]) :
         x \in {y \in (DOMAIN rows) \X (1..LastMinute) : isRun(Product(y[1]), Minute(y[1]), y[2])}}

----------------------------------------------------------------------------
(* The reader *)

Within(k, span) == Product(k) = span.product /\ Minute(k) \in span.start..span.end
Length(span)    == span.end - span.start + 1

\* clipped_intervals of both pages.
Clipped(spans, codes, from, to) ==
  {Span(s.product, Max({s.start, from}), Min({s.end, to})) :
     s \in {i \in spans : i.product \in codes /\ i.end >= from /\ i.start <= to}}

\* _FUTURES_PARTIAL_PAGE_HORIZON_QUERY: the minute of the count-th bar of one
\* product, counted over its intervals; their end when there are fewer.
PageHorizon(spans, count, from) ==
  LET through(s) == Length(s) + FoldSet(LAMBDA i, n : n + Length(i), 0, {i \in spans : i.start < s.start})
      reaching == {s \in spans : through(s) >= count}
      first == CHOOSE s \in reaching : \A i \in reaching : s.start <= i.start
  IN  IF spans = {} THEN from
      ELSE IF reaching = {} THEN Max({s.end : s \in spans})
      ELSE first.start + count - (through(first) - Length(first)) - 1

\* One more than the page: whether there is a next page.
\* Mutant: no horizon for the bar that tells of a next page.
AheadNone(limit) == limit
Ahead(limit)     == limit + 1

\* What a cursor keeps of the last row of a page that tells it from others:
\* product and time, of an interval its start.
CursorOf(q, x) == IF q.kind = "bars" THEN x.key ELSE <<x.product, x.start>>

\* Pages are ordered by time and product, those of the coverage by product.
Position(q, cursor) == IF q.kind = "bars" THEN Minute(cursor) * (ProductCount + 1) + Product(cursor)
                    ELSE Product(cursor) * (LastMinute + 1) + Minute(cursor)
PositionIn(q, x) == Position(q, CursorOf(q, x))

FirstOf(q, items, n) == {x \in items : Cardinality({y \in items : PositionIn(q, y) < PositionIn(q, x)}) < n}

\* _verify_futures_partial_identity: the publication is there and the newest
\* generation is its own.
\* Mutant: the identity is verified on the first page.
VerifiedOnce(pub, cursor) == pub \in publications /\ (cursor # NoBar \/ pub.generation = generation)
Verified(pub, cursor)     == pub \in publications /\ pub.generation = generation

\* The bars of a page: admitted now, within an accepted interval and a boundary
\* of their source, after the cursor and up to the horizon.
PageBars(q, pub, cursor) ==
  LET single == Cardinality(q.codes) = 1
      from == IF single /\ cursor # NoBar THEN Minute(cursor) + 1 ELSE q.from
      spans == Intervals(pub.rows)
      to   == IF single THEN PageHorizon(Clipped(spans, q.codes, from, q.to), Ahead(q.limit), from) ELSE q.to
      accepted == {k \in AdmittedKeys(pub.receipt) :
                     /\ Product(k) \in q.codes /\ Minute(k) \in from..to
                     /\ \E s \in spans : Within(k, s)
                     /\ \E b \in Boundaries(pub.rows) : Within(k, b.span) /\ b.source = bars[k].source}
  IN  {x \in {[key |-> k, row |-> bars[k]] : k \in accepted} : cursor # NoBar => Position(q, cursor) < PositionIn(q, x)}

PageSpans(q, pub, cursor) ==
  {s \in Clipped(Intervals(pub.rows), q.codes, q.from, q.to) : cursor # NoBar => Position(q, cursor) < PositionIn(q, s)}

\* A caller begins with the identity of some publication.
BeginRead ==
  \E pub \in publications, q \in ReadQueries :
    /\ reading = NotRead
    /\ reading' = [at |-> "reading", pub |-> pub, query |-> q, cursor |-> NoBar, pages |-> <<>>]
    /\ UNCHANGED <<bars, generation, repaired, import, receipts, publisher, publications>>

\* read_futures_1m_partial_page and read_futures_1m_partial_coverage_page: one
\* snapshot, the first limit rows, and a cursor when there is one more.
ReadPage ==
  LET q == reading.query
      matching == IF q.kind = "bars" THEN PageBars(q, reading.pub, reading.cursor)
                  ELSE PageSpans(q, reading.pub, reading.cursor)
      fetched == FirstOf(q, matching, q.limit + 1)
      page == FirstOf(q, fetched, q.limit)
      last == CHOOSE x \in page : \A y \in page : PositionIn(q, y) <= PositionIn(q, x)
      more == Cardinality(fetched) > q.limit
  IN  /\ reading.at = "reading"
      /\ reading' = IF ~Verified(reading.pub, reading.cursor) THEN [at |-> "stale"]
                    ELSE [reading EXCEPT !.pages = Append(@, page),
                                         !.at = IF more THEN "reading" ELSE "done",
                                         !.cursor = IF more THEN CursorOf(q, last) ELSE NoBar]
      /\ UNCHANGED <<bars, generation, repaired, import, receipts, publisher, publications>>

----------------------------------------------------------------------------

FutureNext ==
  \/ OwnerWrites \/ Repair
  \/ Classify \/ CheckEvidence \/ CheckGeneration \/ Reclassify \/ InsertMissing \/ CheckInserted
  \/ CommitImport \/ ImportFails
  \/ PlanPublication \/ ComparePlan \/ Publish
  \/ BeginRead \/ ReadPage

FutureSpec == FutureInit /\ [][FutureNext]_futureVars

\* A read that reaches its last page has returned what was published, whatever
\* was written, imported, repaired or published between its pages: every bar of
\* the publication in the range with the value it had then, and every accepted
\* interval, each once and in order (read_futures_1m_partial_page).
PagesAreThePublication ==
  reading.at = "done" =>
    LET q == reading.query
        rows == reading.pub.rows
        wanted == {k \in DOMAIN rows : Product(k) \in q.codes /\ Minute(k) \in q.from..q.to}
        whole == IF q.kind = "bars" THEN {[key |-> k, row |-> rows[k]] : k \in wanted}
                 ELSE Clipped(Intervals(rows), q.codes, q.from, q.to)
        n == Len(reading.pages)
    IN  /\ UNION {reading.pages[i] : i \in 1..n} = whole
        /\ \A i, j \in 1..n : i < j =>
             \A x \in reading.pages[i], y \in reading.pages[j] : PositionIn(q, x) < PositionIn(q, y)
=============================================================================
