------------------------------ MODULE LiveBars ------------------------------
(***************************************************************************)
(* The current minute (live_bars.py): PostgresCurrentBarStore, the         *)
(* ingestor that stages what a provider shows now, the finalizer that asks *)
(* again when the interval is over and writes the fact table, the          *)
(* corrector that asks the same provider once more, and the retention of   *)
(* observations.  One interval is followed, for each of Codes.             *)
(*                                                                         *)
(* Workers are separate processes.  A transaction takes row locks as it    *)
(* goes, so that its first locked row and its commit are two steps; two    *)
(* transactions that wait for each other are ended by the database, one of *)
(* them with an error.  A bar is its provider and its price.               *)
(***************************************************************************)
EXTENDS Integers, FiniteSets

CONSTANTS Workers, Codes,
          Primary, Fallback,   \* mootdx and opentdx
          Prices,
          Due,       \* end of the interval plus grace_seconds
          Window,    \* window_seconds of the corrector
          Keep,      \* the end of the fifth trading day after
          NoBar      \* no bar, no selection, no code

ASSUME LiveAssumption ==
  /\ Primary # Fallback
  /\ Due \in Nat /\ Window \in Nat /\ Keep \in Nat /\ 0 < Due /\ Due < Keep

VARIABLES liveNow,
          selected,    \* live.stock_bar_selected
          observed,    \* live.stock_bar_observation, as pairs of code and bar
          sealed,      \* those with a finalized_at
          minuteFact,  \* fact.stock_bar_1m or _30m
          finals,      \* ghost: how often each code was finalized
          late,        \* ghost: the codes staged again after that
          worker

tables   == <<selected, observed, sealed, minuteFact, finals, late>>
liveVars == <<liveNow, selected, observed, sealed, minuteFact, finals, late, worker>>

Providers  == {Primary, Fallback}
Bars       == [provider : Providers, price : Prices]
Selections == [state : {"staged", "finalized"}, bar : Bars, at : Nat]

ASSUME NoBarAssumption == NoBar \notin Codes \cup Bars \cup Selections

Stages     == {"idle", "fetching", "staging", "observing", "selecting",
               "due", "refetching", "locking", "sealing",
               "window", "rechecking", "comparing", "revising", "retention"}

\* What a worker remembers: where it is, observed_at, the codes it still has
\* to handle, the provider's answers and the code and bar it is working on.
Blank == [stage |-> "idle", at |-> 0, todo |-> {}, found |-> [c \in Codes |-> NoBar],
          code |-> NoBar, bar |-> NoBar]

LiveTypeOK ==
  /\ liveNow \in 0..Keep
  /\ selected \in [Codes -> Selections \cup {NoBar}]
  /\ observed \subseteq Codes \X Bars /\ sealed \subseteq observed
  /\ minuteFact \in [Codes -> Bars \cup {NoBar}]
  /\ finals \in [Codes -> Nat] /\ late \subseteq Codes
  /\ worker \in [Workers -> [stage : Stages, at : Nat, todo : SUBSET Codes,
                             found : [Codes -> Bars \cup {NoBar}],
                             code : Codes \cup {NoBar}, bar : Bars \cup {NoBar}]]

LiveInit ==
  /\ liveNow = 0
  /\ selected = [c \in Codes |-> NoBar] /\ minuteFact = [c \in Codes |-> NoBar]
  /\ observed = {} /\ sealed = {} /\ late = {}
  /\ finals = [c \in Codes |-> 0]
  /\ worker = [w \in Workers |-> Blank]

At(w, stage)    == worker[w].stage = stage
GoTo(w, fields) == worker' = [worker EXCEPT ![w] = fields]
Going(w, stage) == GoTo(w, [worker[w] EXCEPT !.stage = stage])

\* Done with one code: back to the loop, with the next one.
Loop(w, stage, c) ==
  GoTo(w, [worker[w] EXCEPT !.stage = stage, !.todo = @ \ {c}, !.code = NoBar, !.bar = NoBar])

----------------------------------------------------------------------------
(* Row locks: a selection is locked by select ... for update, an            *)
(* observation by the insert of a transaction that has not committed.       *)

HoldsSelection(v, c)     == worker[v].stage \in {"sealing", "revising"} /\ worker[v].code = c
HoldsObservation(v, c, b) ==
  worker[v].stage = "selecting" /\ worker[v].code = c /\ worker[v].bar = b

SelectionFree(w, c)      == \A v \in Workers \ {w} : ~HoldsSelection(v, c)
ObservationFree(w, c, b) == \A v \in Workers \ {w} : ~HoldsObservation(v, c, b)

\* w, which stages, and v, which finalizes or corrects, took the two rows in
\* opposite orders.
Deadlocked(w, v) ==
  /\ At(w, "selecting")
  /\ HoldsSelection(v, worker[w].code)
  /\ HoldsObservation(w, worker[v].code, worker[v].bar)

\* A transaction that raised.  The ingest raises with it; finalizer and
\* corrector count a failure and go on with the next code.
Aborted(w) ==
  CASE worker[w].stage \in {"staging", "observing", "selecting"} -> GoTo(w, Blank)
    [] worker[w].stage \in {"locking", "sealing"} -> Loop(w, "refetching", worker[w].code)
    [] worker[w].stage \in {"comparing", "revising"} -> Loop(w, "rechecking", worker[w].code)

----------------------------------------------------------------------------
(* What providers answer                                                    *)

\* WholeBarFallbackProvider: the primary's bar, unless the price validator
\* calls it severe; then, as when there is none, the fallback's or nothing.
WholeBar(primary, severe, fallback) ==
  IF primary # NoBar /\ ~severe THEN primary ELSE fallback

From(p) == [provider : {p}, price : Prices] \cup {NoBar}

Answers ==
  {WholeBar(a, s, b) : a \in From(Primary), s \in BOOLEAN, b \in From(Fallback)}

----------------------------------------------------------------------------
(* LiveBarIngestor                                                          *)

StartIngest(w) ==
  /\ At(w, "idle") /\ liveNow < Due
  /\ GoTo(w, [Blank EXCEPT !.stage = "fetching"])
  /\ UNCHANGED <<liveNow, tables>>

Fetched(w) ==
  /\ At(w, "fetching")
  /\ \E found \in [Codes -> Answers] :
       GoTo(w, [Blank EXCEPT !.stage = "staging", !.at = liveNow,
                             !.todo = Codes, !.found = found])
  /\ UNCHANGED <<liveNow, tables>>

\* A code without a bar only has its attempts recorded.
StageNext(w) ==
  /\ At(w, "staging") /\ worker[w].todo # {}
  /\ \E c \in worker[w].todo :
       IF worker[w].found[c] = NoBar
       THEN Loop(w, "staging", c)
       ELSE GoTo(w, [worker[w] EXCEPT !.stage = "observing", !.code = c, !.bar = worker[w].found[c]])
  /\ UNCHANGED <<liveNow, tables>>

Observe(w) ==
  /\ At(w, "observing")
  /\ ObservationFree(w, worker[w].code, worker[w].bar)
  /\ Going(w, "selecting")
  /\ UNCHANGED <<liveNow, tables>>

\* The upsert of the selection says nothing about its state: of a row that was
\* finalized in the meantime it changes everything but that.
Staged(row, bar, at) ==
  IF row = NoBar THEN [state |-> "staged", bar |-> bar, at |-> at]
                 ELSE [row EXCEPT !.bar = bar, !.at = at]

SelectStaged(w) ==
  LET c == worker[w].code IN
  /\ At(w, "selecting") /\ SelectionFree(w, c)
  /\ observed' = observed \cup {<<c, worker[w].bar>>}
  /\ selected' = [selected EXCEPT ![c] = Staged(@, worker[w].bar, worker[w].at)]
  /\ late' = IF selected'[c].state = "finalized" THEN late \cup {c} ELSE late
  /\ Loop(w, "staging", c)
  /\ UNCHANGED <<liveNow, sealed, minuteFact, finals>>

IngestReturns(w) ==
  /\ At(w, "staging") /\ worker[w].todo = {}
  /\ GoTo(w, Blank)
  /\ UNCHANGED <<liveNow, tables>>

----------------------------------------------------------------------------
(* recover_due_current_stock_bars: finalizer, corrector, retention, all of  *)
(* one observed_at                                                          *)

StartRecover(w) ==
  /\ At(w, "idle")
  /\ GoTo(w, [Blank EXCEPT !.stage = "due", !.at = liveNow])
  /\ UNCHANGED <<liveNow, tables>>

\* for update skip locked: rows another transaction works on are left out.
\* The rollback that follows gives the locks back.
ListDue(w) ==
  /\ At(w, "due")
  /\ GoTo(w, [worker[w] EXCEPT !.stage = "refetching",
                !.todo = {c \in Codes : /\ worker[w].at >= Due
                                        /\ selected[c] # NoBar /\ selected[c].state = "staged"
                                        /\ SelectionFree(w, c)}])
  /\ UNCHANGED <<liveNow, tables>>

\* No bar: deferred.  A provider that raises is counted as failed, which is no
\* different here.
Refetch(w) ==
  /\ At(w, "refetching") /\ worker[w].todo # {}
  /\ \E c \in worker[w].todo, b \in Answers :
       IF b = NoBar
       THEN Loop(w, "refetching", c)
       ELSE GoTo(w, [worker[w] EXCEPT !.stage = "locking", !.code = c, !.bar = b])
  /\ UNCHANGED <<liveNow, tables>>

\* Mutant: finalize trusts the list of candidates.
MayFinalizeListed(row) == row # NoBar

MayFinalize(row) == row # NoBar /\ row.state = "staged"

LockStaged(w) ==
  LET c == worker[w].code IN
  /\ At(w, "locking") /\ SelectionFree(w, c)
  /\ IF MayFinalize(selected[c]) THEN Going(w, "sealing") ELSE Loop(w, "refetching", c)
  /\ UNCHANGED <<liveNow, tables>>

\* Mutant: the selection stays on what was staged.
SealedAsStaged(row, bar, at) == [row EXCEPT !.state = "finalized", !.at = at]

Sealed(row, bar, at) == [state |-> "finalized", bar |-> bar, at |-> at]

Finalize(w) ==
  LET c == worker[w].code   b == worker[w].bar IN
  /\ At(w, "sealing") /\ ObservationFree(w, c, b)
  /\ observed' = observed \cup {<<c, b>>} /\ sealed' = sealed \cup {<<c, b>>}
  /\ minuteFact' = [minuteFact EXCEPT ![c] = b]
  /\ selected' = [selected EXCEPT ![c] = Sealed(@, b, worker[w].at)]
  /\ finals' = [finals EXCEPT ![c] = @ + 1]
  /\ Loop(w, "refetching", c)
  /\ UNCHANGED <<liveNow, late>>

FinalizerReturns(w) ==
  /\ At(w, "refetching") /\ worker[w].todo = {}
  /\ Going(w, "window")
  /\ UNCHANGED <<liveNow, tables>>

\* The provider of a candidate is the one its selection names now; it is kept
\* with the candidate (found) until the transaction compares it.
ListCorrections(w) ==
  LET recent == {c \in Codes : /\ selected[c] # NoBar /\ selected[c].state = "finalized"
                               /\ selected[c].at + Window >= worker[w].at} IN
  /\ At(w, "window")
  /\ GoTo(w, [worker[w] EXCEPT !.stage = "rechecking", !.todo = recent,
                !.found = [c \in Codes |-> IF c \in recent THEN selected[c].bar ELSE NoBar]])
  /\ UNCHANGED <<liveNow, tables>>

Recheck(w) ==
  /\ At(w, "rechecking") /\ worker[w].todo # {}
  /\ \E c \in worker[w].todo : \E b \in From(worker[w].found[c].provider) :
       IF b = NoBar
       THEN Loop(w, "rechecking", c)
       ELSE GoTo(w, [worker[w] EXCEPT !.stage = "comparing", !.code = c, !.bar = b])
  /\ UNCHANGED <<liveNow, tables>>

\* The observation the row points at now must be of the candidate's provider
\* and say something else.
Differs(row, bar) ==
  row # NoBar /\ row.state = "finalized" /\ row.bar.provider = bar.provider /\ row.bar # bar

LockFinalized(w) ==
  LET c == worker[w].code IN
  /\ At(w, "comparing") /\ SelectionFree(w, c)
  /\ IF Differs(selected[c], worker[w].bar)
     THEN Going(w, "revising") ELSE Loop(w, "rechecking", c)
  /\ UNCHANGED <<liveNow, tables>>

\* A plain insert: what was observed once already cannot be the correction, and
\* the transaction raises.
Correct(w) ==
  LET c == worker[w].code   b == worker[w].bar IN
  /\ At(w, "revising") /\ ObservationFree(w, c, b)
  /\ IF <<c, b>> \in observed
     THEN Aborted(w) /\ UNCHANGED tables
     ELSE /\ observed' = observed \cup {<<c, b>>} /\ sealed' = sealed \cup {<<c, b>>}
          /\ minuteFact' = [minuteFact EXCEPT ![c] = b]
          /\ selected' = [selected EXCEPT ![c].bar = b, ![c].at = worker[w].at]
          /\ Loop(w, "rechecking", c)
          /\ UNCHANGED <<finals, late>>
  /\ UNCHANGED liveNow

CorrectorReturns(w) ==
  /\ At(w, "rechecking") /\ worker[w].todo = {}
  /\ Going(w, "retention")
  /\ UNCHANGED <<liveNow, tables>>

\* The deletes are parts of one statement and see the rows of its start.
Referenced == {<<c, selected[c].bar>> : c \in {d \in Codes : selected[d] # NoBar}}

CleanupRetention(w) ==
  /\ At(w, "retention")
  /\ \A c \in Codes : SelectionFree(w, c)
  /\ IF worker[w].at >= Keep
     THEN /\ selected' = [c \in Codes |-> IF selected[c] # NoBar /\ selected[c].state = "finalized"
                                          THEN NoBar ELSE selected[c]]
          /\ observed' = observed \ (sealed \ Referenced)
          /\ sealed' = sealed \cap Referenced
     ELSE UNCHANGED <<selected, observed, sealed>>
  /\ GoTo(w, Blank)
  /\ UNCHANGED <<liveNow, minuteFact, finals, late>>

----------------------------------------------------------------------------
(* The environment                                                          *)

\* A statement fails in a transaction, or the provider call before it does.
TransactionFails(w) ==
  /\ worker[w].stage \in {"staging", "observing", "selecting", "locking", "sealing",
                          "comparing", "revising"}
  /\ Aborted(w)
  /\ UNCHANGED <<liveNow, tables>>

\* The database ends one of two transactions that wait for each other.
DeadlockVictim(w) ==
  /\ \E v \in Workers : Deadlocked(w, v) \/ Deadlocked(v, w)
  /\ Aborted(w)
  /\ UNCHANGED <<liveNow, tables>>

\* The process ends between two transactions or in one; finalize_due alone is
\* a recovery that ends early.
WorkerDies(w) ==
  /\ ~At(w, "idle")
  /\ GoTo(w, Blank)
  /\ UNCHANGED <<liveNow, tables>>

\* No request lasts until the rows it is about are cleaned up.
LiveTick ==
  /\ liveNow < Keep
  /\ liveNow + 1 = Keep => \A w \in Workers : At(w, "idle")
  /\ liveNow' = liveNow + 1
  /\ UNCHANGED <<tables, worker>>

LiveStep(w) ==
  \/ StartIngest(w) \/ Fetched(w) \/ StageNext(w) \/ Observe(w) \/ SelectStaged(w)
  \/ IngestReturns(w)
  \/ StartRecover(w) \/ ListDue(w) \/ Refetch(w) \/ LockStaged(w) \/ Finalize(w)
  \/ FinalizerReturns(w)
  \/ ListCorrections(w) \/ Recheck(w) \/ LockFinalized(w) \/ Correct(w) \/ CorrectorReturns(w)
  \/ CleanupRetention(w)

LiveFaults(w) == TransactionFails(w) \/ DeadlockVictim(w) \/ WorkerDies(w)

LiveNext == LiveTick \/ \E w \in Workers : LiveStep(w) \/ LiveFaults(w)

LiveSpec == LiveInit /\ [][LiveNext]_liveVars

----------------------------------------------------------------------------
(* Properties                                                               *)

\* An interval is finalized once: of several recoveries that list the same
\* staged row one writes the fact, and a refetched bar never replaces one that
\* was final before (finalize).
FinalizedOnce == \A c \in Codes : finals[c] <= 1

\* A selection points at a stored observation, which retention does not take
\* away; that of a finalized interval is sealed and is what the fact table
\* holds, unless a slow ingest staged the interval again (stage, finalize,
\* correct, cleanup_retention).
FactFollowsSelection ==
  \A c \in Codes : selected[c] # NoBar =>
    /\ <<c, selected[c].bar>> \in observed
    /\ selected[c].state = "finalized" /\ c \notin late =>
         minuteFact[c] = selected[c].bar /\ <<c, selected[c].bar>> \in sealed
=============================================================================
