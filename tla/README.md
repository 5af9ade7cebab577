# QuoteMux: a verification project

QuoteMux (`src/src/quotemux`) aggregates market data.  A public facade
(`stocks.py`, `markets.py`, `indexes.py`, ...) reads what PostgreSQL holds for a
request, asks a chain of provider packages for what is missing, and writes the
answer back.  Scheduled captures keep the cache warm, a configuration runtime
says which provider instances are asked and in which order, and connection
pools, provider gates and page caches bound what threads use at a time.

This directory holds TLA+ models of the parts that keep state, TLC runs on
small instances, and theorems that TLAPS checks for all instances.  Paths below
are relative to `src/src/quotemux` unless they start with `src/`.

```
tlc -workers 2 -config capture.cfg MCCaptureJob     one run (table in section 4)
tlapm CaptureProofs.tla                              one module of proofs (section 6)
```

`PROJECT.json` lists the components, the runs, the mutant that shows each
property can fail, the lines each definition models, the hazards and the
theorems.


## 1. Inventory

The components that decide what a caller sees, with the state each keeps, what
it does, where it is hard, and what makes it correct.

| component | state | operations | hard | correct when |
|---|---|---|---|---|
| capture jobs, `store/capture.py` | tables `capability_capture_runs` and `capability_capture_policies`; one session advisory lock per capability | `run_due_captures`, `run_capture`, `run_repair`, `reconcile_stale_running`, `update_policy` | several schedulers; `create` is three statements; database errors read as empty answers; crashes; a capture continues from the checkpoint of an earlier one | one executor at a time; success means every request of the list the run was given was executed; repairs happen once; a live run is not failed; a due slot is captured in the end |
| capture plan and gaps, `store/capture.py`, `store/planner.py`, `store/capture_gaps.py` | coverage by scope and day, fact rows, gap and audit rows | request builders of thirteen kinds, due times; audit, retry, resolve, record | coverage stored in other ranges and by other queries; audits while a capture writes; a crash between the summary of an audit and its gaps | what is missing is asked for, and nothing twice; a gap is closed only by rows that exist; the book of gaps settles to the truth |
| fallback chain, `runtime_core/executor.py`, `provider_timeout/runtime.py` | locals of one query; a thread for each provider call | `run_fallback_chain`, the consensus race, `run_provider_request` | sources that fail, answer late or in part; a budget shared by sources; six merge strategies | priority of sources respected, cached values kept, failures do not end the chain, budget kept |
| capability query, `query_engine.py` and the facades | none of its own | `execute_capability_query` for each capability | request builders differ; cache reads that are partly fresh; writes that fail | answers hold what was asked for, all of it when no source failed, and only stored rows where the writer keeps all |
| PostgreSQL cache, `store/postgres.py` | tables `capability_cache_rows`, `capability_cache_coverage`, policies | `read`, `write` | coverage and rows are read and written in separate statements; keys narrower than scopes; expiry | coverage never stands for rows that are not asked for again when they are missing |
| provider gate, `infra/provider_runtime/core.py` | a semaphore per provider, a global one, a sliding window of call times | `ProviderGate.run`, retries | nested semaphores, timeouts in a queue, sleeping with a slot | slots are never lost; a bounded burst; every call ends |
| database pools, `infra/db/client.py`, `read_client.py`, `store/cache_db.py` | a queue of idle connections, two counters | acquire, release, drop, `close_pool` | queue and counters have different locks; failed and interrupted connects | counters agree with connections; one user per connection; waiting threads can be woken |
| configuration runtime, `config_runtime/` | JSON files: instances, drafts, profiles, state, transitions, imports | save, enable, delete, draft, publish, override, rollback, import, query | no lock; each query may rewrite the files; crash between two files | profiles complete, published profiles kept, queries answered by an active profile |
| page caches, `p0_fundamentals/`, `migration_contracts/` | an `OrderedDict` with byte counts | `get`, `put`, eviction, `clear`, the query around them | no lock held while a page is loaded; eviction in a loop | byte counts exact and within limits; errors reported are the ones met |
| source packages, `source_packages/`, `package_install.py` | installed files, a cached registry per process, environment directories with a marker, workers | install, refresh, look up, build, check, run a worker | a lock of threads over a directory of processes; a build that fails or dies half way; files that are replaced meanwhile | a worker runs in an environment that was built |
| fact and reference writes, `fact_ref_writes.py`, `stock_reference_authority.py`, `concept_runtime.py` | fact and reference tables, frozen inputs, reconciliations, publication lock | upsert, snapshot replace, freeze, reconcile, invalidate, derive, rebuild | statements are committed one by one; one of four writers takes no lock; derived rows outlive what they were derived from | audits account for each authoritative row; derived rows are current; a day is one answer |
| futures publications, `store/futures_*.py`, `futures_partial_contract.py`, `public_reader.py` | the fact table and its generation, import receipts, immutable publications | classify, import, repair, plan, publish, read pages | plans made under one generation and carried out later; publications hold no rows; pages are read beside writers | all pages of a read are the published rows |
| live bars, `live_bars.py`, `live_bars_worker.py` | observations, one selection per interval and code, fact rows | ingest, finalize, correct, clean up | list and act in different transactions; two lock orders; slow ingests | an interval is finalized once; the fact row is the selected bar |

How they interact.  A facade calls `execute_capability_query`, which reads the
cache, lets the capability's request builder say what is missing and calls
`run_fallback_chain`; the chain asks the configuration runtime for the active
profile, and calls provider packages through `run_provider_request` (a thread
and a deadline) and, for the built-in ones, a `ProviderGate`; the query then
writes to the cache or, through a fact writer, to the fact tables.  All SQL
goes through a pool.  A capture calls the same facades under its advisory lock,
one request at a time.  Page caches sit in front of single providers and use
neither chain nor cache.

The other components (facades without state, data classes, metrics, settings,
SQL text, format conversions) are listed in `PROJECT.json` with what keeps them
out.


## 2. Plan

All steps exist; they are ordered by what a caller would miss most.

| step | modules | composes | abstract specification | theorems |
|---|---|---|---|---|
| A | `CaptureRuns`, `CaptureJob` | the run table and the processes that use it | | exclusion, completeness of a success, live runs kept, repairs once |
| B | `DbPool` | | | counts, one user, waiting threads can be woken |
| C | `ProviderGate`, `GatedWrites` | the gate of `store_db` around the pool (`GatedWrites`), both limits of a call (`MCLimits`) | | exact slots, bounded bursts |
| D | `ConfigRuntime` | processes over the same files | | complete profiles, justified answers, what is published and saved stays |
| E | `Rows`, `QueryPromise`, `FallbackChain`, `QueryAlgorithms` | | `QueryPromise` | refinement, priority, budget, all sources asked; what the pure functions return |
| F | `CapabilityQuery` | takes the chain by its promise, and every cached facade by its row of a table | | completeness, scopes, stored answers |
| G | `PageCache` | | | byte counts, errors |
| H | `PackageEnvironment` | registry, installation, environments and workers of several processes | | a worker's environment was built |
| I | `CapturePlan`, `CaptureGaps` | what `CaptureJob` counts as requests; gaps with capture and audit | | requests are exact, due times are right, resolved gaps are whole |
| J | `StockReference`, `ConceptFacts`, `FactWriters` | the writer step of `CapabilityQuery`, statement by statement | | references first, days are one answer, the output is that of the rows, every promotion is audited, derived rows are current |
| K | `LiveBars` | ingest, finalizer, corrector and retention over three tables | | finalized once, facts follow selections |
| L | `FuturesPublication` | importer, repair, publisher and reader over one fact table | | pages are published rows, a whole read is the whole publication |

Parts that share no state are checked in one run, whose `MC` module picks the
part a behaviour follows in its initial state (`MCMachinery`, `MCFactTables`,
`MCLimits`).


## 3. Modules

Module `X` models, `MCX` gives it finite constants, a `Proofs` module proves
(section 6 says which).  Each
action or helper has its lines in `PROJECT.json` under `map`.  A definition
whose comment starts with "Mutant:" is a plausible bug in the code; nothing
uses it, and putting it in the place of the definition after it makes TLC
refute a property.

### CaptureRuns, CaptureJob

`CaptureRuns` is the table `capability_capture_runs`, an operator for each SQL
statement of `CaptureRunRepository`; a row is its status, planned time, next
request index, repair fingerprint and (for the properties) the request list it
was written for, and its id is its position.  `CaptureJob`
runs `Procs` (threads or processes of any scheduler) and `Maint` (reconcilers)
over it.  `pc` is the next statement, `job` the locals of `run_capture` or
`run_repair`, `lock` the session that holds the advisory lock, `done` the
requests that were executed without an error.

Each statement is a step: `create` is `Supersede`, `InsertRun` and `SelectRun`,
and the select returns the latest row of the planned time, which need not be
the one inserted.  `Due` is read without the lock; a process that finds the
lock taken writes a skipped row (`SkipInsert`, `SkipSelect`, `SkipFinish`),
again three statements.  The environment crashes a process, ends the session
that holds the lock, fails a statement (which the code reads as an empty answer,
or which raises: `CreateRaises`), fails a request, interrupts, or changes the
policy.  `outages` remembers lost sessions and failed statements, since some
properties only hold without them.

The list of requests is built anew by each run.  `list` is what the trading days
and catalogues of now call for, and `ChangeList` changes it at any moment, between
two windows too; a run is given that list (`concepts.members`), or what of it is
not stored yet (`RunLists`).  `mode` is how a run cuts its window: all of its list;
the first `Limit` of it (`stocks.quotes.intraday`, whose next run finds the rest by
what is missing); or from the index in the checkpoint on, which
`_request_checkpoint_window` applies to the new list whatever the old one was.
`asked` remembers the lists of a planned time.  `SuccessIsComplete` speaks of the
list of the row: for the first two modes always, for the third as long as its lists
agree wherever both reach (`Steady`).  Without that condition TLC refutes it
(section 7).

Left out: how requests are built from a policy (`CapturePlan`), when a slot is due
by the clock, batches of rows inside a request, the publication lock of stock
reference repairs.

### DbPool

`Poll`, `Check`, `Decide`, `Connect`, `Wait`, `Release`, `Return` are the
points at which `acquire` and `release` touch the queue or a counter; `Break`
and `Drop` what may happen to a connection in use; `StartClose`, `CloseOne`,
`ZeroCreated` are `close_pool`.  `RollsBack` tells the copy in `read_client.py`,
which returns the slot of an interrupted connect, from the two others, which
lose it (`Leaked`).

### ProviderGate, GatedWrites

One step for each acquire and release of the two semaphores, the rate window,
the call and its outcome, and the retry loop.  Time is in ticks, `Window` of
which make a second; deques of times are sequences of ages, and `Recent` pops
the old ones off the front.  A caller sleeps
with its provider slot held, as `_wait_rate_slot` does.  An asynchronous exception
between an acquire and the `try` after it (`core.py:169`) is not modelled: interrupts
come while a thread waits or calls.

`GatedWrites` puts the two together.  A write of the pool (`execute_sql`,
`execute_many`) asks the gate for `store_db` and holds that slot and the global one
while it takes a connection, waits for one without a timeout, and runs; reads and
other providers use one limit only.

### ConfigRuntime

Files are records; a step of a process reads one file or replaces one.  Every
call starts with `ensure_initialized` (`EnsureInstances`, `EnsureDrafts`,
`EnsureProfiles`, `EnsureState`), then reads (`Read`), computes (`Decide*`) and
writes file by file (`Write`).  `Crash` is possible between any two of them and
`Vanish` removes an imported package.  `use` is how a directory is used: which
processes, which calls, how many.

### Rows, QueryPromise, FallbackChain, QueryAlgorithms

`Rows` keeps of a value only where it came from.  `FallbackChain` is one query:
`Ask` starts a step with the requests that are missing, `FetchOk`, `FetchFails`
and `FetchRefused` are the outcomes of one request (the last when the budget is
used up), `EndStep` and `Finish` merge as the strategy says.  Where the code
ranks sources by score, any candidate may win.  `QueryPromise` is what a query
promises: one answer that keeps what it began with and adds only what sources
gave; `FallbackChain` implements it (`KeepsPromise`, with the answer mapped to
`items` once `pc = "done"`).  `QueryAlgorithms` states four pure algorithms, each
loop as a fold of its list, and compares each with a definition of what it should
return.

Left out: the time that the policy lookup takes, events and metrics, and a
thread that answers after its deadline, whose answer the code drops.

### CapabilityQuery

The cached query.  `facade` is the capability that is asked, a row of a table:
what its request builder asks for (`builder`), where its rows live (`store`),
what its coverage spans (`window`), and six marks: `local` base rows,
`blind` keys, `wide` scopes, `shrink`ed coverage, a writer that keeps only part
(`partial`), and local factors that may be taken as they are (`lacking`).  Bars of a
day are cached (`IntradayQuotes`) but for unadjusted ones of one and thirty minutes,
which live in the fact tables (`IntradayBars`).  Each facade method of
`stocks.py`, `markets.py`, `indexes.py`, `etfs.py` and `concept_runtime.py` that
goes through `execute_capability_query` in one of these ways has its row;
facades with equal rows have equal behaviours.

`CoverageRead`, `StoreRead`, `WriteRows` and `WriteCoverage` are the statements
of `UnifiedPostgresCacheStore`, so that rows expire (`Tick`) or another query
writes between them; the two writes may fail one without the other.  `Chain`
answers with any part of what it was asked for that the sources have, and
`whole` says whether no source failed, which implies all of it.  `WriteFacts` and
`FactsRefused` are the fact writer, `Kept` what it may have stored when it reports
success: all of it, or any part.

A query for factors reads the local ones (`Ask`), then in a second statement
whether a daily row lacks one (`LackingRead`).  If there are daily rows and none but
suspended ones does, the local factors are the answer and no source is asked, though
the sources may have days without a daily row; and when a source failed it is the
local factors again, after what the others gave was written (`Replied`).  `daily`
is where there are daily rows, to which another capability adds (`DailyRow`).
`DatedComplete` therefore does not speak of factors, and `AnswersAreStored` of
partial writers only in that last case.

Left out: the fact write that `get_daily_snapshot_with_report` adds to its cached
query; queries with `write_fact_ref` false, which read only; reads of several scopes are one step; the cache policy is enabled
and fixed; limits and offsets; facades with builders that fit no row
(`get_hl_signal`, the ten-rank shareholder lists, block trades, active top ten,
limit orders, auctions, open auctions, ETF catalogue).

### PageCache

The cache is the set of keys `held`, their order `older` and the counts `total`
and `capBytes`.  `Ask`, `GetHit`, `GetExpired`, `GetMiss` are `get`, `Load` and
`LoadFails` the provider, called with no lock held, `PutCheck`, `PutReplace`,
`EvictCapability`, `EvictTotal` and `Insert` are `put`, a step for each loop
turn.  The two packages differ in constants only.

### PackageEnvironment

`disk` is the version of the installed files, `registry` what
`get_default_source_package_registry` caches in each process, `venv` the
environment directories, one for each content of a requirements file, `work`
where each thread is.  Looking up a handler is `Lookup`, `ReadManifests`,
`StoreRegistry`; installing is `RemoveFiles`, `PutFiles`, `Refresh`;
`_ensure_package_environment` is a step for each file it hashes, each check and
each program it runs (`CreateVenv`, `EnsurePip`, `InstallRuntime`,
`InstallRequirements`), and the marker is opened and written in two (`OpenMarker`,
`WriteMarker`), so that a crash leaves it torn.  `_ENVIRONMENT_LOCK` keeps the
threads of a process apart and nothing keeps processes apart.  `BuildFails` and
`ProcessCrashes` end what they meet at any step.

### CapturePlan, CaptureGaps

`CapturePlan` is what a run asks for.  `kind` is how the builder of a capability
finds what is missing: ranges of days, single days, report periods, months,
counts or sets of rows.  Market-wide builders (`MarketKinds`) look coverage up under
the empty scope (`LookedUp`) while it is stored under the scope fields of the
capability, written empty (`Scopes`), so that they find none.  `Build` and `RunRequest` are a run; `UserQuery`,
`StrayRow`, `Expire` and `TimePasses` are what happens beside it.  `Ranges` states
what `_merge_missing_points` computes without its loop.  `ComputeDue` is
`_scheduled_time` of a policy at any moment of a calendar of short years.

`CaptureGaps` is the book of gaps of the one-minute bars: the audit of a window
(`ChooseDates`, `CoverDate`, `SummarizeDate`, `OpenGaps`, `Suspend`, `CloseGaps`, each
a committed statement), the retry of gaps, and the batch that fetches, writes,
resolves and records (`Fetch`, `WriteFacts`, `RecordOne`, `RecordRaises`).
Processes die between any two statements; late rows arrive beside them.

### StockReference, ConceptFacts, FactWriters

`StockReference` is `ref.stock` and its writers: the authority refresh of three
shards (frozen or rejected as an input, reconciled under the publication lock),
the writers of daily facts, names and listing dates, and the partial catalogue,
which takes no lock.  Hashes are the sets they are taken of.

`ConceptFacts` is one concept: its members, which two writers change statement by
statement, and its daily rows, which are derived from them.  A daily row is
modelled as the set of members it was derived from, so that a stale row can be
told from a current one.

`FactWriters` is every other writer of `get_fact_ref_writer`.  A writer is a
program of statements, as data; one family of tables that share rows is followed
at a time.  `Conflict` is what each `on conflict` clause does with a row.

### LiveBars

The interval that is being traded.  A transaction is two steps, the row it
locks first and its commit, so that row locks, `skip locked` and deadlocks of the
two lock orders occur.  `StartIngest` to `IngestReturns` is `LiveBarIngestor`,
`StartRecover` to `CleanupRetention` is `recover_due_current_stock_bars`.

### FuturesPublication

`bars` and `generation` are the fact table and the number its triggers count.
The Pyramid importer is `Classify`, `CheckEvidence`, `CheckGeneration`, `Reclassify`,
`InsertMissing`, `CheckInserted`, `CommitImport`: all but the last can find that the
table has changed and end.  Under its advisory lock an import that inserted a
row keeps others from writing (`Unlocked`).  `Repair` is the staged repair,
`OwnerWrites` a correction by hand.  `PlanPublication`, `ComparePlan`, `Publish` make an
immutable publication out of what `AdmittedKeys` accepts; only its boundaries and
intervals are stored.  `BeginRead` and `ReadPage` page through bars or coverage, with
the identity check, the horizon of a page and the cursor of the code.


## 4. Runs

| run | module | question | bounds |
|---|---|---|---|
| `capture` | `MCCaptureJob` | do exclusion, completeness, idempotence and the protection of live runs survive any overlap and failure? | two processes, one reconciler; up to two requests in windows of one; two of: a crash, a lost session, a failed request, a policy edit, a change of the list; two rows when a call starts |
| `capture_live` | `MCCaptureJob` | is each slot captured, and does each row stop running? | one process and one reconciler, two slots, two requests, of which a run takes one (the first or from the checkpoint); one crash, interrupt, or failed request or statement; three rows |
| `capture_resume` | `MCCaptureJob` | does a run resume from the checkpoint? Refuted, see section 7 | two processes, no failures |
| `capture_gaps` | `CaptureGaps` | is what is marked resolved stored, and does the book of gaps settle? | one auditor, the scheduler, one stock, three days with a window of two, one request a batch, one change or failure beside them |
| `capture_months` | `MCCapturePlan` | are captured months asked for again? Refuted, see section 7 | all thirteen kinds, two codes, a window of three days or months |
| `chain` | `MCFallbackChain` | do all six strategies keep priority, budget, completeness and the promise? | three sources, two keys, budget of one unit |
| `query` | `MCCapabilityQuery` | do answers hold what was asked for, all of it, and stored? | two callers, three calls of three requests, two scopes, two dates, each class of facade; for factors any daily rows |
| `config` | `MCConfigRuntime` | what is kept and published, whatever crashes or interleaves? | one process, all nine calls, four of them, a crash and a vanishing package; or two processes and three calls |
| `config_override` | `MCConfigRuntime` | does an override preserve the active profile? Refuted, see section 7 | one process, three calls |
| `limits` | `MCLimits` | are slots and connections exact, bursts bounded, and does each call end? | gate: two threads, a limited provider with a retry and an unlimited one, a global slot, three calls; pool: three threads, two slots, four connections, three calls, one fault of each kind; both: a writer through the gate, a caller of another provider and two readers, two calls of each, a failed connect and a break |
| `fact_tables` | `MCFactTables` | are facts, references and what is derived from them consistent? | two sessions each; one interval with two prices; two stocks, five answers, two refreshes; two members, two days, two changes; two keys, a text and the null one |
| `machinery` | `MCMachinery` | five parts: pages, algorithms, plans, environments, futures | pages: two threads, three requests, limits 3 and 2 within 4 bytes; algorithms: lists up to three, five days, weights up to two; plans: as `capture_months`, with one other step; environments: two processes, two versions, one installation, one crash; futures: two products of three minutes, three generations |

Why the bounds are enough to be interesting.

- `capture`: overlap needs two processes; a checkpoint needs more requests than
  a window holds; the list loses and regains its last request between windows, so
  that a checkpoint meets a list other than the one it was written for (a shifted
  list is left to the proof: `Steady` excludes it).  Most bad schedules need a
  failure of one process and a second one that makes the first matter.  Two rows let a stale row and a live one meet,
  and calls that have begun may still add rows.
- `capture_live`: three rows hold the windows of both requests and one more run
  that a failure costs; a slot is excused only when the table is full.
- `capture_gaps`: the third day arrives during the run, so that the window moves
  and a day leaves it with its gaps.  Of the two days in it every audit scans the
  newest; the other has its turn only by the rotation (open, never audited, or
  audited the longest ago), which is what repairs an audit that died.
- `limits`: with a pool of two, three threads make one wait; four connections let
  a replaced one coexist with its successor.  Together, a writer that waits for a
  connection holds the global slot that the other caller queues for.  With the global slot at one, a
  thread that holds a provider slot queues for it; with a window of two ticks,
  calls made before and after the edge of a second overlap.
- `config`: a publish needs an edit before it; an edit, a publish, a further edit
  and a query is four calls.  Of two processes, three calls let one save an
  instance and put it into a draft between the two reads of a publish of the other,
  which takes the older instances with the newer draft: its validation refuses that.
- `chain`: three sources are the fewest where a middle one can fail; one of them
  may take longer than the budget, so that a source is refused.
- `query`: two dates give partial coverage, two scopes give shared keys and scopes
  read together, a ttl of one tick lets rows expire within a call.  Three calls by
  two threads let one write, one write across it, and one read both.
- `fact_tables`: two sessions are what a lost update takes; two refreshes are what
  a second reconciliation of the same rows takes; two days are a snapshot and its
  successor, which is where invalidation ends.
- `machinery`, pages: limits of 3 and 2 within 4 make both loops of `put` run, the
  eviction of another capability's page included.  In the code the limits of the
  P0 capabilities add up to 60 MB of 64 and those of the migration capabilities to
  68 of 64: only there can the second loop run.
- `machinery`, plans: a window of three days has a first, a middle and a last one,
  and one of the four days does not trade; the three years of two short months
  include a month before a shorter, a longer and another year's month.
- `machinery`, environments: two releases of the runtime take the same directory
  from each other, two versions of a package rename it.
- `machinery`, futures: one key of the bundle is missing and one is equivalent, so
  that an import inserts, admits or meets a conflict; a page of one row makes every
  read of two pages or more; three generations are one write before and one after
  a publication.

Symmetry is used for processes or callers of the same kind in runs without
liveness properties.  Deadlock is not checked where calls are bounded: a model
whose callers have all they may ask for stops.  `capture_gaps` checks it.

### Properties

| property | says | why it could fail |
|---|---|---|
| `OneExecutor` | while sessions last, at most one process is between acquire and release of a capability | many early exits, each with a release |
| `SuccessIsComplete` | a row with status success: every request of the list its run was given was executed; for a checkpointed capture, if the lists of its windows agree | windows are joined by a row that another process may write to, and by an index into a list that is rebuilt |
| `RepairOnce` | one success per repair fingerprint, without outages | reuse is decided under the lock, rows are written to by id |
| `LiveRunNotFailed` | neither supersede nor reconciliation fails the row of a live run | both write to any running row |
| `SlotIsCaptured` | a due slot is captured, or the next one comes | retries depend on the status of the latest row |
| `RunningRowEnds` | no row says running for ever | dead processes leave such rows |
| `ResolvedIsWhole` | a gap is resolved only when its bars are stored | it is resolved by the counts of an answer, or by a coverage read earlier |
| `BookSettles` | the book of gaps ends up true of each judged code and day | audits die between summary and gaps; batches resolve and record beside audits |
| `RequestsExact` | a run whose requests succeeded leaves no hole, and a next one asks for nothing, but for market-wide kinds | coverage is stored by others, in other ranges and under other scopes |
| `ScheduledIsLatest` | the due time is the latest occurrence of the policy that has passed | short months, the month and year before |
| `PriorityRespected` | each field is that of the first source that has it, and never replaces a base value | several merges, partial answers |
| `AllAskedInBudget` | waiting stays within the budget, and an incomplete answer within it has been through all sources | the limit of each call depends on what was spent; errors in the middle of a step |
| `KeepsPromise`, `Terminates` | refinement of `QueryPromise`; a query ends | |
| `ResultIsReference` | merge, order, weighted median and date ranges against their definitions | duplicates, ties, zero weights, adjacent days |
| `DatedComplete` | a builder that names each missing row, with no failed source call, answers with all the sources have | coverage without rows, expiry between statements, overwritten keys |
| `AnswersAskedFor` | no row of another scope or date | blind keys, partial coverages |
| `AnswersAreStored` | fact-table capabilities whose writer keeps all answer with stored rows only, and so does a query for factors in which a source failed | the writer may fail, or keep part |
| `AnswerJustified` | a query uses a profile that was active while it ran | two files for one publish |
| `ProfilesComplete` | each profile has a policy for every configurable contract and no dangling instance | drafts are edited by calls in parallel |
| `PublishedKept`, `SavedIsKept` | with one process, published profiles and saved settings stay | `ensure_initialized` rewrites the files on each query |
| `SlotsExact`, `BurstBounded` | the gate | three nested finally clauses; the window is checked before the global wait |
| `RunEnds` | a call through the gate ends, also one that waits for a connection inside it, unless a slot of the pool was freed without a connection | it waits with two slots held, without a timeout |
| `CountedExactly` | `_POOL_CREATED` is the slots in use and the leaked ones | two locks |
| `OneUser` | a connection is held once and not also queued | close and return race |
| `WaiterCanWake`, `EveryCallServed` | a waiting thread has someone who will return a connection; queries get theirs, unless a slot was freed without a connection | only a returned connection wakes a waiter |
| `BytesBounded` | counts are the bytes held, within both limits at each step | replacement, expiry and eviction all adjust them |
| `HonestErrors` | a cached page never fails its check, eviction always finds a page | the loops assume that counts and entries agree |
| `ReadyIsBuilt` | a worker's environment once had the requirements it is named for installed in full, unless the file was replaced within a build | two processes build over each other, builds fail, markers are torn |
| `PagesAreThePublication` | a read that reaches its last page returned what was published, each item once and in order | no rows are published; every page reads the table as it is |
| `FinalizedOnce`, `FactFollowsSelection` | an interval is finalized once; the fact row is the selected, sealed observation | lists are read and acted on in two transactions; ingests are slow |
| `PromotionsAudited`, `OutputIsReference` | reconciliations account for each authoritative row exactly once; the last output hash is that of the rows now | select for update does not lock rows that are not there |
| `DerivedIsCurrent` | a derived concept row is that of the members its date has now, with four named exceptions | changes, invalidation and derivation are separate statements |
| `RowsHaveReference`, `DayIsOneAnswer` | a row's code is in the reference table; a day is one answer | three statements in one order, the first failure ends it |

`DayIsOneAnswer` is about one writer whose clear and rewrite must fit each other; a
failure between the two leaves the day empty or in part, which it does not speak of.
Of a day of boards the clear deletes the rows with an `INDUSTRY:` id only.

There is one type invariant for each module with state; it is proved
(`TypeCorrect`), part of a proved invariant, or used while developing the model.


## 5. Fairness

- `capture_live`: weak fairness of each process and reconciler (`Capture(p) \/
  Release(p)`, `Reconcile(m) \/ Release(m)`): operating systems schedule threads,
  and schedulers and reconcilers are called again and again (`src/AIREADME.md`,
  section 5).  Nothing is assumed of the environment: it need not fail, and
  need not stop failing but for the bound `MaxEvents`.
- `capture_gaps`: weak fairness of `StartAudit(p) \/ Continue(p)` of each auditor:
  its timer goes on, and an audit that has begun runs.  The scheduler's own
  captures have none, so the book settles though one of them hangs for ever with
  the lock; deaths, errors and late rows have none either.
- `limits`, pool: weak fairness of `Run(t)`: a thread that can go on does, a query
  ends, and its caller exhausts or closes what it streams, as the docstring of
  `stream_query_batches` asks; and of the steps of `close_pool`.  New calls and
  faults have no fairness.
- `limits`, gate: time passes, threads run, and a provider function returns or
  raises, since packages set socket timeouts.  New calls have no fairness.
- `limits`, both: the same of threads and time, and of a thread in the pool as above.
  A thread that waits in `_POOL.get()` holds the slots of `store_db` and the global
  one; that it goes on is not assumed but shown, from the fairness of those who hold
  connections.  Without the exception for a slot freed by a failed connect
  (`SlotFreed`) TLC refutes `RunEnds`: after a break and a failed connect a writer
  waits for ever with both slots.
- `chain`: weak fairness of `Next`: one thread, which never waits longer than a
  provider's limit (`run_provider_request` waits on a future with a timeout).


## 6. Proofs

Theorems hold for all values of the constants that meet the named assumptions
of the module, which only say what types constants have and what the code makes
sure of (`QueueSize` is `Size` or 1; batch sizes are positive; the limit of a
capability is no more than the total).  TLC evaluates each assumption.  Every
proof has the same form: an inductive invariant holds initially, is kept by
each action, and implies the property.

| module | theorem | invariant and why it is needed |
|---|---|---|
| `CaptureProofs` | `TypeCorrect` | `TypeOK` is inductive: the ids processes remember are typed by the fact that rows are never removed |
| | `Exclusion` | `LockInv`: while sessions last, whoever is critical holds the lock. `OneExecutor` alone does not say who may enter next |
| | `SuccessComplete` | `CompleteInv`: what each row's `next` promises was executed (`RowsTell`), and what each process has executed of its window (`JobTells`), both of the list they were made for, and carried from one list to the next by `Steady`. A success only tells of the last window; the earlier ones are known through the checkpoints |
| | `LiveRunsKept` | `RowInv`: the row a process has inserted is in the table and its own. With `LockInv`: whoever marks rows failed holds the lock, so that no other process is executing, and a step outside the lock changes rows to skipped ones only |
| | `RepairsOnce` | `RepairInv`: with a reliable database there is one success of a fingerprint, and nobody is executing a fingerprint that has one (`NoneYet`); the look and the success are both under the lock (`LockInv`) |
| | `ResolvedStaysWhole` | `GapInv` with `TaskSound`: what was priced in an answer has its bars stored once the answer is written, and stored bars are never removed, so that each resolve on its way, by coverage or by an answer, is of stored bars |
| `ConfigRuntimeProofs` | `TypeCorrect`, `ProfilesAreComplete` | `ConfigInv`: what each call has read and is about to write is sound at its stage (`Planned`, `ToWrite`). A publish takes the drafts it has read into a profile, so the property needs that those have a policy for every contract: they have as soon as one process is past the drafts in `ensure_initialized`, and nothing takes it away (`OnFile`). `validate_profile` gives the rest |
| | `AnswersJustified` | `Heard`: a query knows each profile that was active since it began, and the state it has read names one of them. That the only process finds that profile among those it read needs `AloneInv`: the state names a profile on file, in the middle of a publish too |
| | `PublishedStay`, `SavedStay` | `AloneInv`: what the only process has read is what is on file (`Fresh`), so that what it is about to write in place of a file keeps what that file has (`WritesKeep`). The properties speak of the write, the invariant of the whole way from the read to it. With a second process `Fresh` fails, and so do the properties |
| `FallbackChainProofs` | `TypeCorrect`, `BudgetKept` | `TypeOK` with `Located`: a request is sent only while there is a step |
| | `PromiseKept` | `BaseKept`: items extend the base items; each step is then one of `QueryPromise` or a stutter |
| | `PriorityKept` | `PriorityInv`: later sources have not been heard (`Unheard`), and items agree with the first of those merged so far (`FromFirst` of `Told`), also in the middle of a step, of which the property says nothing |
| | `AllAsked` | `AskedInv`: the sources before the current step were asked; what the probe of a race has is in the base or in an answer heard (`Gathered`), so that a race that ends with nothing missing could end there; at the end nothing is requested, or the first valid answer is enough, or all steps are through |
| `QueryProofs` | `TypeCorrect`, `Complete`, `AskedFor`, `Stored` | `CallsInv`: for each call, base rows, answer and windows are of the request (`HoldsAsked`), an answer is full from the moment it is computed (`HoldsFull`), and a fact-table query starts from stored rows, answers with them where the writer keeps all, and meets no cache (`HoldsStored`). It says nothing of the cache: the theorems hold whatever the tables hold |
| | `AlgorithmsCompute` | `ReturnInv`: what is returned is the function of the arguments. The work is an invariant of each loop: the list merged so far is that of the rows up to a place, with first places and first values (`MergedUpto`); the names so far have placed the steps they rank, in that order (`Ranked`); the ranges with the open one cover what is missing of the days seen, and a day that is there follows the last closed one (`ScanInv`). For the median there is an order of the places (`SortingExists`), and weights are counted as tickets (`WeightsCompare`) |
| `LimitsProofs` | `SingleUser` | `ShapeInv`: which labels hold a connection, that an open connection is held or queued, and where `close_pool` is |
| | `Counted`, `ServerStaysBounded`, `HealthyKept` | `CountInv`: the count, and that it does not exceed `Size`; with `ShapeInv` it bounds open connections and the queue |
| | `WaiterHasHope` | `WakeInv`: a thread waits only while `created >= Size`, so that the slots in use are all of them |
| | `SlotsKept` | `SlotInv`: `SlotsExact` with the types of slots, stages and providers. The property is inductive but for the types: each acquire and release moves one thread into or out of the counted sets |
| | `BurstStaysBounded` | `BurstInv`: the window of a provider holds at most `Rate` calls, and the n-th newest start of the last second is no younger than the n-th newest call that passed the window, but for as many as there are slots that no thread waiting for the global gate holds (`Justified`, `Spare`). A call may start long after it passed, and the property counts starts |
| `MachineryProofs` | `PageTypeCorrect`, `BytesStayBounded`, `Honest` | `IInv`: exact counts, limits, that any nonempty set of keys has a least recently used one (`OrderInv`), and that a page on its way was checked and its writer holds the lock (`PutInv`) |
| | `WorkersSafe` | `EnvInv`: a directory with a whole marker is built, and so is that of a thread past the requirements of its build (`Vouched`). The property only speaks of workers, the invariant of every marker, since another process may read any of them |
| | `Current` | `PlansTrue`: every frozen plan and publication whose generation is the current one has the rows the table admits. Plans must be in it: a publication is made of a plan of an earlier step |
| | `Published` | `PagesShown`: the same of the pages read so far: no page shows anything else |
| | `WholePublication` | `ReadSoFar`: the pages read so far are the published rows up to the cursor, in order, and rows are left as long as the read goes on (`ReadAll`). A page takes one step of it (`ReadPageStep`), because the intervals of a publication cover its rows and nothing else (`IntervalsCover`, `BoundariesCover`), and because the horizon of a page, a fold over the clipped intervals, is reached by the rows the page holds (`HorizonReaches`, from `LengthsAddUp`) |
| | `AsksExactly` | `PlanInv`: as long as no request has failed, each day that a batch misses (`HolesArePlanned`) or whose facts are incomplete (`GapsArePlanned`) is in a request that is still to come, and what is covered or stored was answered for (`CoverageIsAnswered`, `RowsAreAnswered`). The property speaks of the end of a run only. That coverage is found where it is stored (`CoverageIsScoped`) holds but for market-wide kinds, which ask for every day again. `RangesCover`: merged ranges hold each missing day, by the first and last day of its run of neighbours |
| | `DueTimesRight` | no invariant but the property; the work is `DueIsLatest`: the numbers of dates are in their order and without holes (`NumInOrder`, `NumsAreAll`), a clipped day exists, and the remainder of a week singles out one day in it (`BackToDay`) |
| `FactTablesProofs` | `LiveTypeCorrect`, `FinalizedOnceHolds`, `FactFollows` | `LockInv`: one worker holds the lock of a selection, and the row is what it was locked as; `FinalInv`: a code that was finalized says so in its selection, until retention takes it, which is too late to stage it again; `LiveInv`: the records of the workers |
| | `FactTypeCorrect`, `ReferencesFirst`, `DaysAreAnswers` | `RefInv`: a daily writer about to write rows has written their references, and none is deleted; `DayInv`: while nothing overlapped or failed one writer runs, between its delete and its insert the day is empty, otherwise it is the last answer, and what a swap has read is the table |
| | `StockTypeCorrect`, `OutputStays` | `ReferenceInv` with `CallersInv`: an authoritative row has a label, and what a caller knows at each stage of its request. The writers outside the publication lock fill empty labels and dates only, so that they leave what is hashed of an authoritative row as it is (`Same`) |
| | `EveryPromotionAudited` | `AuditInv`: the sum of the reconciliations is the number of authoritative rows. Whoever is about to promote rows or to fill names holds the publication lock, and has selected every row that is authoritative, so that what it counts as promoted was not authoritative before |
| | `ConceptTypeCorrect`, `DerivedStaysCurrent` | `ConceptInv` for the records of the sessions; the property speaks of any moment, by what pending sessions still owe (`Owing`): a change reaches the dates up to the next change (`Reaches`), a date it does not reach keeps its members (`SnapshotKept`), and what was owed is owed by one of the two after each statement (`ReachesKept`) |

`FoldLemmas` has what several of these modules need of numbers, finite sets and
folds.  The folds of the community modules are functions over the subsets of a
finite set, chosen by the equation they satisfy.  `IteratorExists` shows that there
is one, `BySubsets` that what each step keeps holds of its values, `LeftFold` that a
fold of a list is a sequence of results, one for each place, and `SumIsUnion` and
`SumIsCount` that a fold which adds numbers up counts a set.  A set stands in these
lemmas where the induction theorems of the library have an operator for a
parameter, which is why the modules that are proved about have folds and functions
where the code loops, and no `RECURSIVE` operator.

The assumptions, by module: `LimitsAssumption`, `PlanAssumption` and
`CalendarAssumption` (codes are a finite set and not empty; every year has the
same months and a first year is no shorter than a week), `GapAssumption`,
`GateAssumption` (bounds and rates are positive), `FactAssumption`,
`NoBarAssumption` and `LiveAssumption`, `StockAssumption` (an answer of
Tushare is finite), `ConceptAssumption`, `ConfigAssumption` (no setting, set of
instances or id stands for an absent entry, there are finitely many processes, a
default instance is enabled and of its package), `FuturesAssumption` (the span of a
read query is not reversed, and what stands for an absent bar is no key),
`AlgorithmAssumption` (types, and rows have finitely many fields), and those of the
capture, the chain, the query, the pools and the environments.

Only model-checked is every liveness property (`SlotIsCaptured`, `RunningRowEnds`,
`BookSettles`, `Terminates`, `RunEnds`, `EveryCallServed`), since liveness under
fairness and `ENABLED` are out of the prover's reach.


## 7. What the runs found

- `capture_resume`: `_request_checkpoint_window` continues only if the latest
  row of the planned time is partial.  A second scheduler that finds the lock
  taken writes a skipped row for the same planned time, so the next run
  begins at request 0 again.  Nothing is lost (`SuccessIsComplete` holds), but with
  steady overlap the work of a window is repeated.  `test_capture.py` expects
  runs to resume from the checkpoint.
- `config_override`: while `profile-default` is active its instances are replaced
  by the draft ones on every call, so that an unpublished edit is in force and is
  published with a policy override, whose docstring says that other drafts are
  left untouched and active instances preserved.
- `capture_months`: `_missing_months` asks for coverage from the newest month to
  the oldest and without `trade_month`, under which it is stored.  It never finds
  any, so that every month of the window is requested by every run, which a test
  that replaces `_missing_months` does not notice.

Seen while modelling and not claimed by any line of the repository, so no run
checks them:

- Cache.  A builder that asks only when it has no row at all takes a partial hit
  for everything, and the write that follows records the whole request as
  covered for another ttl (also, a partial hit renews rows nobody fetched again).
  With several scopes and a partial hit only the scopes without full coverage are
  read.  A snapshot whose scope leaves out the date answers a hit with rows of
  other dates.  Capabilities whose scope leaves out a selection of the request
  (`wide`) answer with rows of another one.  Coverage is written although the
  row write failed.
- Keys and scopes outside the model.  `key_fields` of the cache are narrower than
  those of some facades (`stocks.finance.forecasts`, `markets.trading.sessions`,
  `stocks.finance.statements`), so that rows overwrite each other; limits are no
  part of a request's scope; several codes given as one string are one scope that
  no row matches, so such a request is never a hit; `stocks.quotes.auctions` takes
  the scope of `stocks.quotes.`, whose `adjust` none of its rows has.
- Checkpoints.  Each window of `concepts.members` builds its list anew
  (`capture.py:2426`) and applies the stored index to it (2513): when a trading day
  has closed or a concept was added since, requests are skipped and others repeated,
  and the run that ends the list writes success.
- Fact writers.  An answer may hold rows that are not stored, though the writer
  reports success: factors of days without a daily row, minute bars of incomplete
  days, names without a start date.  `get_adj_factors` does not ask for days without
  a daily row if there are others, and reads twice: a factor stored between its two
  statements makes it return the list from before.
- Capture plans.  Market-wide requests look coverage up under the empty scope
  (`capture.py:1104`), and the cache files it under the capability's scope fields
  (`code=` and the like, `postgres.py:1112`): each run asks for the whole window again
  (`test_capture.py:1627` calls it one request "per missing range").  A batch whose coverage is looked up code by code
  (`capture.py:1125`) takes what is stored for one code for all of them.  Calendar
  windows end today at any hour (`capture.py:982`), so that a run in the morning
  records a day that is not over.  The daily snapshot compares counts
  (`capture.py:1297`): a row of a code the catalogue lacks hides one that is missing,
  or makes a whole day look wrong for good.  `boards.catalog` and
  `funds.etf.catalog` may be enabled and build no request.
- Gaps.  A batch of more than fifty requests is cut, and the rest waits for the
  next run.  `mark_retrying` has no caller.
- Concepts.  A leave in the member history closes rows of later snapshots too,
  whose days are not invalidated; a daily row derived before a change and stored
  after it stays.
- Live bars.  An ingest that is slower than the interval overwrites the selection
  of a finalized interval and leaves its fact row (`late`).  Ingest and finalizer
  take selection and observation in opposite orders, so that the database has to
  end one of them.  A correction to a bar that was observed before always fails.
- Environments.  A directory whose `venv` was interrupted between python and pip
  is never repaired.  A process of another release takes the marker of the first
  away, and back.  After the files are rolled back an old marker is found ready.
- Futures.  An import that inserts nothing takes no lock: an equivalent row may be
  changed between its last check and its receipt.  The coverage trigger of
  `futures_partial_migration.py` recounts a group on update and then adds the rows
  of `insert ... on conflict do update` again.  Groups with facts and no coverage
  row get a partial row, and the backfill skips them (`futures.py:487`).  The
  catalogue snapshot of an older capture may replace a newer one
  (`futures.py:881`).  Changes of the catalogue do not change the generation.
  Admission joins by key, not by the hash the docstring of `admitted_rows_cte`
  names; an import's evidence check makes the two agree.
- Page cache.  A page larger than its capability's limit fails the query with
  `database_error` though it was loaded; pages of a provider instance are served
  after it was disabled, until they expire; of two threads with the same request the
  older page may be put last; `clear` has no caller.
- Pool.  A slot that is freed by a failed connect wakes nobody: a thread that
  waits (`_POOL.get()` has no timeout) stays until another returns a connection.
  `close_pool` sets the created counter to zero while connections are leased
  (`client.py:468`).
- The limiter of `infra/tushare/rate_limit.py` is made by a cached function, of
  which two threads may run the body at the same time and get a limiter each.
- Provider timeouts.  Only calls that succeed feed the percentile
  (`adaptive.py:12`): a source that becomes slower than one and a half times its
  usual time keeps its old limit and fails from then on.  A call that timed out
  keeps its thread and its gate slots (`runtime.py:100`).


## 8. Not modelled

- SQL text and frame shapes (`infra/db/*_reads.py`), the probe and back-off of the
  database (`availability*.py`): reads answer or fail at once in the models.
- Field checks and formats of the data classes (`platform_models`, `requests`), the
  capability inventory (a table of constants), audit and quality records, metrics.
- The health gate of `runtime_core/health.py`, an older copy of the modelled one.
- Rankings, news, datasets and report assembly: one call each and no state.
- The adaptive timeout (`provider_timeout/adaptive.py`): a percentile of durations,
  real numbers out of a table; a source's limit is a constant of `FallbackChain`.
- The alias registry of `concepts.py`: the matching of names and the moves of rows
  from one identifier to another are string work over the tables of
  `ConceptFacts`.
- Of the futures, the catalogue, the coverage table with its backfill, and the
  verification of bundle and artifact files; of the capture job,
  `finalize_catalog_repair_publication` and the threads inside an intraday batch.
- In `CaptureJob`, how requests are built is `CapturePlan`'s part and rows inside a
  request are not followed; the two are not composed: `CaptureJob` takes the
  lists of requests as constants, which is what keeps its state space small.
- Provider packages are not part of the repository: they are modelled by what
  the code expects of them, any answer or failure.
