--------------------------- MODULE StockReference ---------------------------
(***************************************************************************)
(* The stock reference table ref.stock and the four writers that meet in   *)
(* it: the refresh of the Tushare authority (stocks.py,                    *)
(* stock_reference_authority.py), the daily facts that insert provisional  *)
(* rows, the partial catalogue, and the names that come with concept       *)
(* members (fact_ref_writes.py).  Three of them take the publication lock  *)
(* of infra/db/locks.py, the catalogue does not.                           *)
(*                                                                         *)
(* A label stands for name, industry, listing board and area.  A statement *)
(* that waits for a row lock is one whose guard is false; one that the     *)
(* database ends to break a deadlock is GivesUp.                           *)
(***************************************************************************)
EXTENDS Integers, FiniteSets, FiniteSetsExt, Sequences, SequencesExt

CONSTANTS Callers,        \* sessions of any process
          StockCodes, Labels,
          NoLabel,        \* '' in the columns of a label
          NoDay,          \* null, no date
          Failed,         \* run_provider_request raised
          TushareAnswers, \* what the three shard requests may bring
          Catalogs,       \* the items of stocks.catalog and profile.basic
          OpenDays,       \* ref.trade_calendar
          Moments,        \* two to a day: before and after the close
          Refreshes       \* how many refreshes are followed

Shards == {"listed", "pending", "delisted"}  \* REQUIRED_AUTHORITY_SHARDS

\* What _normalize_authority_item reads; fits says that code, market and list
\* status are those of the shard it came in.
Items == [code : StockCodes, label : Labels \cup {NoLabel}, listed : Nat \cup {NoDay}, fits : BOOLEAN]

\* No caller is the holder of a lock that is free, and an answer is a list.
ASSUME StockAssumption ==
  /\ NoLabel \notin Labels /\ NoDay \notin Nat /\ "nobody" \notin Callers
  /\ TushareAnswers \subseteq [Shards -> (SUBSET Items) \cup {Failed}]
  /\ \A answer \in TushareAnswers, s \in Shards : answer[s] # Failed => IsFiniteSet(answer[s])
  /\ Catalogs \subseteq SUBSET [code : StockCodes, label : Labels, listed : Nat \cup {NoDay}]
  /\ OpenDays \subseteq Nat /\ Moments \in Nat /\ Refreshes \in Nat

VARIABLES stockNow,
          stock,          \* ref.stock
          dailyDays,      \* fact.stock_daily_1d, as pairs of code and day
          frozen,         \* audit.stock_authority_input, accepted
          rejected,       \* audit.stock_authority_input, rejected
          reconciled,     \* audit.stock_reference_reconciliation, in order
          publication,    \* the advisory lock
          caller,
          refreshes

stockVars == <<stockNow, stock, dailyDays, frozen, rejected, reconciled, publication,
               caller, refreshes>>
audit     == <<frozen, rejected, reconciled>>

NoRow    == [status |-> "none"]
NoCaller == "nobody"
Days     == 0..(Moments \div 2)
Sources  == {"legacy", "stock_daily_1d", "catalog_partial", "tushare_catalog"}
RowsOf   == [status : {"provisional", "authoritative"}, source : Sources,
             label : Labels \cup {NoLabel}, board : Labels \cup {NoLabel},
             listed : Nat \cup {NoDay}, input : Nat \cup {NoDay}]

\* A caller: where it is, the answer it works on, and what it read.
Waiting(stage, answer) == [stage |-> stage, answer |-> answer, at |-> 0, fresh |-> NoDay,
                           seen |-> {}, todo |-> {}]
StockIdle == Waiting("idle", Failed)

StockInit ==
  /\ stockNow = 0
  /\ stock = [c \in StockCodes |-> NoRow] /\ dailyDays = {}
  /\ frozen = {} /\ rejected = {} /\ reconciled = <<>>
  /\ publication = NoCaller
  /\ caller = [k \in Callers |-> StockIdle]
  /\ refreshes = 0

Stage(k, stage)   == caller[k].stage = stage
Become(k, c)      == caller' = [caller EXCEPT ![k] = c]
IsAuthoritative(c) == stock[c].status = "authoritative"

\* Rows locked by select ... for update of a reconciliation.
LockedRows == UNION {caller[k].seen : k \in {j \in Callers : caller[j].stage = "promoting"}}
MayUpdate(codes) == codes \cap LockedRows = {}

----------------------------------------------------------------------------
(* The refresh: three shards, a trading day, a frozen input                 *)

\* record_rejected_stock_authority_input: one record of the same rejection.
RecordRejected(at, fresh) == rejected \cup {[at |-> at, fresh |-> fresh]}

\* Any shard that fails ends the refresh with a rejected record.
FetchShards(k) ==
  /\ Stage(k, "idle") /\ refreshes < Refreshes
  /\ refreshes' = refreshes + 1
  /\ \E answer \in TushareAnswers :
       IF \E s \in Shards : answer[s] = Failed
       THEN /\ rejected' = RecordRejected(stockNow, NoDay)
            /\ UNCHANGED caller
       ELSE /\ Become(k, [Waiting("fetched", answer) EXCEPT !.at = stockNow])
            /\ UNCHANGED rejected
  /\ UNCHANGED <<stockNow, stock, dailyDays, frozen, reconciled, publication>>

\* latest_completed_trading_day
Cutoff(at)    == IF at % 2 = 1 THEN at \div 2 ELSE (at \div 2) - 1
Eligible(at)  == {d \in OpenDays : d <= Cutoff(at)}

\* No completed date, or a calendar that cannot be read, rejects as well.
LoadTradingDay(k) ==
  /\ Stage(k, "fetched")
  /\ \/ /\ Eligible(caller[k].at) # {}
        /\ Become(k, [caller[k] EXCEPT !.stage = "dated", !.fresh = Max(Eligible(caller[k].at))])
        /\ UNCHANGED rejected
     \/ /\ Become(k, StockIdle)
        /\ rejected' = RecordRejected(caller[k].at, NoDay)
  /\ UNCHANGED <<stockNow, stock, dailyDays, frozen, reconciled, publication, refreshes>>

Placed(answer)  == UNION {{<<s, i>> : i \in answer[s]} : s \in Shards}
Acceptable(answer, at, fresh) ==
  /\ answer["listed"] # {}
  /\ at \div 2 >= fresh
  /\ \A p \in Placed(answer) : p[2].fits /\ p[2].label # NoLabel
  /\ \A p, q \in Placed(answer) : p[2].code = q[2].code => p = q

\* The identity of an input is a hash of all that is in it: the input itself.
InputOf(k) == [items |-> {p[2] : p \in Placed(caller[k].answer)},
               at |-> caller[k].at, fresh |-> caller[k].fresh]

\* _persist_stock_authority_input: an input that is there already is idempotent.
Persisted(i) == frozen \cup {i}

FreezeInput(k) ==
  /\ Stage(k, "dated")
  /\ IF Acceptable(caller[k].answer, caller[k].at, caller[k].fresh)
     THEN /\ frozen' = Persisted(InputOf(k))
          /\ Become(k, [caller[k] EXCEPT !.stage = "frozen"])
          /\ UNCHANGED rejected
     ELSE /\ rejected' = RecordRejected(caller[k].at, caller[k].fresh)
          /\ Become(k, StockIdle)
          /\ UNCHANGED frozen
  /\ UNCHANGED <<stockNow, stock, dailyDays, reconciled, publication, refreshes>>

----------------------------------------------------------------------------
(* reconcile_stock_authority_input: one transaction, under the lock         *)

\* The key of a run is derived from its input, so that keys cannot conflict.
PriorRun(i) == \E n \in DOMAIN reconciled : reconciled[n].input = i

\* The lock, the prior run of the same key, the input, and the rows locked.
SelectReference(k) ==
  /\ Stage(k, "frozen") /\ publication = NoCaller
  /\ IF InputOf(k) \notin frozen \/ PriorRun(InputOf(k))
     THEN /\ Become(k, StockIdle) /\ UNCHANGED publication
     ELSE /\ publication' = k
          /\ Become(k, [caller[k] EXCEPT !.stage = "promoting",
                        !.seen = {c \in StockCodes : stock[c] # NoRow}])
  /\ UNCHANGED <<stockNow, stock, dailyDays, audit, refreshes>>

\* The counts are of the rows that the select returned.
Incoming(k)       == {i.code : i \in InputOf(k).items}
\* Mutant: counts insertions by the rows that are there at the time of the upsert.
InsertedByUpsert(k) == {c \in Incoming(k) : stock[c] = NoRow}
InsertedCodes(k)  == Incoming(k) \ caller[k].seen
PromotedCodes(k)  == {c \in Incoming(k) \cap caller[k].seen : ~IsAuthoritative(c)}

\* The number of the reconciliation stands for authority_input_id and
\* authority_verified_at.
Promoted(k) ==
  [c \in StockCodes |->
     IF c \notin Incoming(k) THEN stock[c]
     ELSE LET i == CHOOSE x \in InputOf(k).items : x.code = c
          IN [status |-> "authoritative", source |-> "tushare_catalog", label |-> i.label,
              board |-> i.label, listed |-> i.listed, input |-> Len(reconciled) + 1]]

\* What _reference_set_hash covers: every column but the board type.
Hashed(rows) ==
  {[code |-> c, source |-> rows[c].source, label |-> rows[c].label,
    listed |-> rows[c].listed, input |-> rows[c].input]
     : c \in {d \in StockCodes : rows[d].status = "authoritative"}}

Promote(k) ==
  /\ Stage(k, "promoting")
  /\ stock' = Promoted(k)
  /\ reconciled' = Append(reconciled,
       [input |-> InputOf(k), inserted |-> Cardinality(InsertedCodes(k)),
        promoted |-> Cardinality(PromotedCodes(k)), output |-> Hashed(Promoted(k))])
  /\ publication' = NoCaller
  /\ Become(k, StockIdle)
  /\ UNCHANGED <<stockNow, dailyDays, frozen, rejected, refreshes>>

----------------------------------------------------------------------------
(* The other writers                                                        *)

Provisional(source, label, listed) ==
  [status |-> "provisional", source |-> source, label |-> label, board |-> NoLabel,
   listed |-> listed, input |-> NoDay]

\* Mutant: repairs the listed date of authoritative rows as well.
RepairsAny(c) == stock[c].listed = NoDay
\* _STOCK_LISTED_DATE_REPAIR_SQL
Repairs(c) == ~IsAuthoritative(c) /\ stock[c].listed = NoDay

\* _write_stock_daily_transaction: missing references, facts and the repair of
\* listed dates, in one transaction.  The metrics it repairs are facts.
WriteDaily(k) ==
  /\ Stage(k, "idle") /\ publication = NoCaller
  /\ \E c \in StockCodes, d \in Days :
       LET first == Min({d} \cup {e \in Days : <<c, e>> \in dailyDays})
       IN /\ <<c, d>> \notin dailyDays
          /\ dailyDays' = dailyDays \cup {<<c, d>>}
          /\ stock' = [stock EXCEPT ![c] =
               IF @ = NoRow THEN Provisional("stock_daily_1d", NoLabel, first)
               ELSE IF Repairs(c) THEN [@ EXCEPT !.listed = first] ELSE @]
  /\ UNCHANGED <<stockNow, audit, publication, caller, refreshes>>

\* Mutant: the upsert without "where identity_status = 'provisional'".
CatalogRowAny(c, i) ==
  IF stock[c] = NoRow
  THEN [Provisional("catalog_partial", i.label, i.listed) EXCEPT !.board = i.label]
  ELSE [stock[c] EXCEPT !.label = i.label, !.listed = i.listed, !.board = i.label]
CatalogRow(c, i) ==
  IF stock[c] = NoRow
  THEN [Provisional("catalog_partial", i.label, i.listed) EXCEPT !.board = i.label]
  ELSE IF IsAuthoritative(c) THEN stock[c]
  ELSE [stock[c] EXCEPT !.label = i.label, !.listed = i.listed, !.board = i.label,
                        !.source = IF @ = "legacy" THEN "catalog_partial" ELSE @]

ItemFor(items, c) == CHOOSE i \in items : i.code = c

\* The first statement of _upsert_stock_catalog; no publication lock.
UpsertCatalog(k) ==
  /\ Stage(k, "idle")
  /\ \E items \in Catalogs :
       LET codes == {i.code : i \in items}
       IN /\ MayUpdate(codes)
          /\ stock' = [c \in StockCodes |->
                         IF c \in codes THEN CatalogRow(c, ItemFor(items, c)) ELSE stock[c]]
          /\ Become(k, [Waiting("boards", Failed) EXCEPT !.todo = items])
  /\ UNCHANGED <<stockNow, dailyDays, audit, publication, refreshes>>

\* The second one: the duplicate board column, of any row.
UpdateBoards(k) ==
  /\ Stage(k, "boards")
  /\ LET codes == {i.code : i \in caller[k].todo}
     IN /\ MayUpdate(codes)
        /\ stock' = [c \in StockCodes |->
                       IF c \in codes /\ stock[c] # NoRow
                       THEN [stock[c] EXCEPT !.board = ItemFor(caller[k].todo, c).label] ELSE stock[c]]
  /\ Become(k, StockIdle)
  /\ UNCHANGED <<stockNow, dailyDays, audit, publication, refreshes>>

\* _fill_concept_stock_names: the names that are missing, read and filled
\* under the lock; the catalogue may come between.
ReadNames(k) ==
  /\ Stage(k, "idle") /\ publication = NoCaller
  /\ \E c \in StockCodes, label \in Labels :
       IF stock[c] = NoRow \/ stock[c].label = NoLabel
       THEN /\ publication' = k
            /\ Become(k, [Waiting("naming", Failed) EXCEPT !.todo = {[code |-> c, label |-> label]}])
       ELSE UNCHANGED <<publication, caller>>
  /\ UNCHANGED <<stockNow, stock, dailyDays, audit, refreshes>>

FillNames(k) ==
  /\ Stage(k, "naming")
  /\ stock' = [c \in StockCodes |->
       IF c \notin {i.code : i \in caller[k].todo} THEN stock[c]
       ELSE LET label == ItemFor(caller[k].todo, c).label
            IN IF stock[c] = NoRow THEN Provisional("legacy", label, NoDay)
               ELSE IF stock[c].label = NoLabel THEN [stock[c] EXCEPT !.label = label]
               ELSE stock[c]]
  /\ publication' = NoCaller
  /\ Become(k, StockIdle)
  /\ UNCHANGED <<stockNow, dailyDays, audit, refreshes>>

----------------------------------------------------------------------------
(* Failures: a statement raises, a deadlock is broken, a process dies       *)

GivesUp(k) ==
  /\ ~Stage(k, "idle")
  /\ Become(k, StockIdle)
  /\ publication' = IF publication = k THEN NoCaller ELSE publication
  /\ UNCHANGED <<stockNow, stock, dailyDays, audit, refreshes>>

StockTick ==
  /\ stockNow < Moments
  /\ stockNow' = stockNow + 1
  /\ UNCHANGED <<stock, dailyDays, audit, publication, caller, refreshes>>

StockNext ==
  \/ \E k \in Callers :
       \/ FetchShards(k) \/ LoadTradingDay(k) \/ FreezeInput(k)
       \/ SelectReference(k) \/ Promote(k)
       \/ WriteDaily(k) \/ UpsertCatalog(k) \/ UpdateBoards(k)
       \/ ReadNames(k) \/ FillNames(k) \/ GivesUp(k)
  \/ StockTick

StockSpec == StockInit /\ [][StockNext]_stockVars

----------------------------------------------------------------------------

StockTypeOK ==
  /\ stockNow \in 0..Moments /\ refreshes \in 0..Refreshes
  /\ stock \in [StockCodes -> RowsOf \cup {NoRow}]
  /\ dailyDays \subseteq StockCodes \X Days
  /\ publication \in Callers \cup {NoCaller}
  /\ \A r \in frozen : r.fresh \in Nat /\ r.fresh <= r.at \div 2

\* The reconciliations account for every authoritative row exactly once, as
\* inserted or as promoted, although a catalogue that takes no lock may insert
\* a row between the select and the upsert of a reconciliation.
PromotionsAudited ==
  Cardinality({c \in StockCodes : IsAuthoritative(c)})
    = FoldSeq(LAMBDA r, n : n + r.inserted + r.promoted, 0, reconciled)

\* normalized_output_sha256 of the last reconciliation is that of the
\* authoritative rows now: none of the other writers changes a hashed column
\* of an authoritative row, whatever came between its read and its write.
OutputIsReference ==
  reconciled # <<>> => reconciled[Len(reconciled)].output = Hashed(stock)
=============================================================================
