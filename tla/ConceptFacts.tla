---------------------------- MODULE ConceptFacts ----------------------------
(***************************************************************************)
(* One concept: its members (ref.concept_stock_membership) and its daily   *)
(* rows (fact.concept_daily_1d), which are derived from the members and    *)
(* must go when these change.  The members are written by the two writers  *)
(* of fact_ref_writes.py, from the answers that concept_runtime.py puts    *)
(* together; the daily rows by its market snapshot and by its rebuild.     *)
(*                                                                         *)
(* Every statement commits by itself, so that each is a step, and a writer *)
(* may stop after any of them.  A daily row keeps nothing but the members  *)
(* it was derived from; date 0 is 1900-01-01, the start of a member        *)
(* without a join date.                                                    *)
(***************************************************************************)
EXTENDS Integers, FiniteSets, FiniteSetsExt

CONSTANTS Sessions, MemberCodes,
          MaxChanges, \* bound: how many changes of members are followed
          LastDate,
          Quoted,     \* fact.stock_daily_1d: pairs of code and date with a turnover
          StillOpen,  \* valid_to is null
          NoDaily,    \* no row
          Provided    \* a row that a provider gave

ASSUME ConceptAssumption ==
  /\ LastDate \in Nat /\ MaxChanges \in Nat
  /\ Quoted \subseteq MemberCodes \X (1..LastDate)
  /\ StillOpen \notin Nat

VARIABLES membership,   \* ref.concept_stock_membership of the concept
          named,        \* codes that ref.stock has a name for
          daily,        \* fact.concept_daily_1d of the concept
          owed,         \* ghost: dates whose row nobody is going to invalidate
          session,
          changes       \* how many changes of members were started

conceptVars == <<membership, named, daily, owed, session, changes>>

TradeDates  == 1..LastDate
Membership  == [code : MemberCodes, from : 0..LastDate, to : (0..LastDate) \cup {StillOpen}]
MemberItems == [code : MemberCodes, from : 0..LastDate]

Resting == [doing |-> "nothing", items |-> {}, outs |-> {}, date |-> 0, until |-> 0,
            row |-> NoDaily]

ConceptInit ==
  /\ membership = {} /\ named = {} /\ owed = {}
  /\ daily = [d \in TradeDates |-> NoDaily]
  /\ session = [w \in Sessions |-> Resting]
  /\ changes = 0

Doing(w, what)  == session[w].doing = what
Do(w, fields)   == session' = [session EXCEPT ![w] = fields]
Then(w, what)   == Do(w, [session[w] EXCEPT !.doing = what])

----------------------------------------------------------------------------
(* What the tables say at a date                                            *)

\* The latest snapshot that is not after the date, or the first one.
SnapshotOf(rows, d) ==
  LET froms == {m.from : m \in rows}
      past  == {f \in froms : f <= d}
  IN IF past # {} THEN Max(past) ELSE Min(froms)

ActiveMembers(rows, d) ==
  {m.code : m \in {r \in rows : /\ r.from = SnapshotOf(rows, d)
                                /\ r.to = StillOpen \/ r.to >= d}}

\* load_derivable_concept_ids_frame: members that are quoted on the date, one
\* of them on the trade date before it as well.
PreviousDate(d) == LET past == {q[2] : q \in {p \in Quoted : p[2] < d}}
                   IN IF past = {} THEN 0 ELSE Max(past)
QuotedMembers(rows, d) == {c \in ActiveMembers(rows, d) : <<c, d>> \in Quoted}
Derivable(d) ==
  /\ membership # {}
  /\ \E c \in QuotedMembers(membership, d) : <<c, PreviousDate(d)>> \in Quoted
Derived(d) == QuotedMembers(membership, d)

\* load_concept_members_frame, which asks for the intervals and not for the
\* snapshot.
LocalMembers(d) ==
  LET target   == {m \in membership : m.from <= d /\ (m.to = StillOpen \/ m.to >= d)}
      past     == {m.from : m \in {r \in membership : r.from <= d}}
      fallback == IF past = {} THEN {} ELSE {m \in membership : m.from = Max(past)}
      chosen   == IF target # {} THEN target ELSE fallback
  IN {[code |-> m.code, from |-> m.from] :
        m \in {r \in chosen : ((\A q \in Quoted : q[2] # d) \/ <<r.code, d>> \in Quoted)}}

----------------------------------------------------------------------------
(* Members: the answer, then five statements                                *)

\* _get_members: what is stored if it is complete; the crawler; the others,
\* with what is stored unless this is a refresh; what is stored.
MembersAnswer(d, refresh, crawled, others) ==
  LET local == LocalMembers(d)
  IN IF ~refresh /\ local # {} /\ \A i \in local : i.code \in named THEN local
     ELSE IF crawled # {} THEN crawled
     ELSE IF others # {} /\ refresh THEN others
     ELSE IF others # {} THEN local \cup {i \in others : \A j \in local : j.code # i.code}
     ELSE local

\* A provider lists codes as members since one day, or without a date.
Listings == {[code : codes, from : {f}] : codes \in SUBSET MemberCodes, f \in 0..LastDate}

\* Names are filled first; then only codes that ref.stock has, quoted on their
\* join date, are kept.  A query that fails keeps none, and the writer goes on
\* to write nothing.
Writable(items) == {i \in items : i.code \in named' /\ (i.from = 0 \/ <<i.code, i.from>> \in Quoted)}

FillAndFilter(w) ==
  /\ Doing(w, "nothing") /\ changes < MaxChanges
  /\ \E d \in TradeDates, found \in Listings :
     \E refresh, crawled, withNames, readable \in BOOLEAN :
       LET items == MembersAnswer(d, refresh, IF crawled THEN found ELSE {}, found)
           valid == IF readable THEN Writable(items) ELSE {}
       IN /\ named' = IF withNames THEN named \cup {i.code : i \in items} ELSE named
          /\ IF valid = {} THEN UNCHANGED <<session, changes>>
             ELSE /\ Do(w, [Resting EXCEPT !.doing = "upserting", !.items = valid])
                  /\ changes' = changes + 1
  /\ UNCHANGED <<membership, daily, owed>>

UpsertMembers(w) ==
  /\ Doing(w, "upserting")
  /\ membership' = {m \in membership : [code |-> m.code, from |-> m.from] \notin session[w].items}
                     \cup {[code |-> i.code, from |-> i.from, to |-> StillOpen] : i \in session[w].items}
  /\ Then(w, "pruning")
  /\ UNCHANGED <<named, daily, owed, changes>>

\* Of the snapshots it came with, an answer is all.
Pruned(items) ==
  {m \in membership : m.from \in {i.from : i \in items}
                        => [code |-> m.code, from |-> m.from] \in items}

PruneMembers(w) ==
  /\ Doing(w, "pruning")
  /\ membership' = Pruned(session[w].items)
  /\ Then(w, "invalidating")
  /\ UNCHANGED <<named, daily, owed, changes>>

\* The day before the next snapshot, for a change at date f.
\* Mutant: up to the next snapshot, as long as there is one.
ReachOfNext(rows, f) ==
  LET later == {m.from : m \in {r \in rows : r.from > f}}
  IN IF later = {} THEN f ELSE Min(later) - 1
Reach(rows, f) ==
  LET later == {m.from : m \in {r \in rows : r.from > f}}
  IN IF later = {} THEN LastDate ELSE Min(later) - 1

\* The dates of the changes a session made or is about to make.
Changes(w)   == {i.from : i \in session[w].items} \cup {o.at : o \in session[w].outs}
Covered(rows, w) == UNION {{d \in TradeDates : f <= d /\ d <= Reach(rows, f)} : f \in Changes(w)}

Invalidate(w) ==
  /\ Doing(w, "invalidating")
  /\ daily' = [d \in TradeDates |-> IF d \in Covered(membership, w) THEN NoDaily ELSE daily[d]]
  /\ owed' = owed \ Covered(membership, w)
  /\ Do(w, Resting)
  /\ UNCHANGED <<membership, named, changes>>

----------------------------------------------------------------------------
(* Member history: joins are inserted, leaves close what is open            *)

StartHistory(w) ==
  /\ Doing(w, "nothing") /\ changes < MaxChanges
  /\ \E ins \in SUBSET MemberItems, outs \in SUBSET [code : MemberCodes, at : TradeDates] :
       /\ Cardinality(ins) + Cardinality(outs) = 1
       /\ Do(w, [Resting EXCEPT !.doing = "joining", !.items = ins, !.outs = outs])
  /\ changes' = changes + 1
  /\ UNCHANGED <<membership, named, daily, owed>>

InsertJoined(w) ==
  /\ Doing(w, "joining")
  /\ membership' = membership \cup
       {[code |-> i.code, from |-> i.from, to |-> StillOpen] :
          i \in {j \in session[w].items :
                   \A m \in membership : ~(m.code = j.code /\ m.from = j.from)}}
  /\ Then(w, "leaving")
  /\ UNCHANGED <<named, daily, owed, changes>>

Closed(outs) ==
  {IF m.to = StillOpen /\ \E o \in outs : o.code = m.code
   THEN [m EXCEPT !.to = (CHOOSE o \in outs : o.code = m.code).at] ELSE m : m \in membership}

\* Rows of later snapshots are closed as well, and their days are not among
\* those that are invalidated.
CloseLeft(w) ==
  /\ Doing(w, "leaving")
  /\ membership' = Closed(session[w].outs)
  /\ Then(w, "invalidating")
  /\ owed' = IF membership' = membership THEN owed
             ELSE owed \cup (TradeDates \ Covered(membership, w))
  /\ UNCHANGED <<named, daily, changes>>

\* A statement returned False or the process died.  When the first statement
\* of the history fails, the second one is still executed.
StopsShort(w) ==
  /\ session[w].doing \in {"upserting", "pruning", "joining", "leaving", "invalidating"}
  /\ Do(w, Resting)
  /\ \/ /\ owed' = IF Doing(w, "upserting") \/ Doing(w, "joining") THEN owed ELSE owed \cup TradeDates
        /\ UNCHANGED membership
     \/ /\ Doing(w, "joining")
        /\ membership' = Closed(session[w].outs)
        /\ owed' = IF membership' = membership THEN owed ELSE owed \cup TradeDates
  /\ UNCHANGED <<named, daily, changes>>

----------------------------------------------------------------------------
(* Daily rows                                                               *)

\* get_market_daily_snapshot: nothing is derived when every concept has its
\* row; otherwise a row that is there goes before the derived one, and both
\* before what providers quote.  Reading and writing are steps of their own.
SnapshotRow(d, provider) ==
  IF daily[d] # NoDaily THEN daily[d]
  ELSE IF Derivable(d) THEN Derived(d)
  ELSE IF provider THEN Provided ELSE NoDaily

ReadSnapshot(w) ==
  /\ Doing(w, "nothing")
  /\ \E d \in TradeDates, provider, othersComplete \in BOOLEAN :
       /\ ~(daily[d] # NoDaily /\ othersComplete)
       /\ SnapshotRow(d, provider) # NoDaily
       /\ Do(w, [Resting EXCEPT !.doing = "storing", !.date = d, !.until = d,
                                !.row = SnapshotRow(d, provider)])
  /\ UNCHANGED <<membership, named, daily, owed, changes>>

\* rebuild_daily_facts: date by date; what is expected is read first, and when
\* less is derived the rebuild ends with an error.
StartRebuild(w) ==
  /\ Doing(w, "nothing")
  /\ \E first, last \in TradeDates :
       /\ first <= last
       /\ Do(w, [Resting EXCEPT !.doing = "expecting", !.date = first, !.until = last])
  /\ UNCHANGED <<membership, named, daily, owed, changes>>

NextDate(w) ==
  IF session[w].date < session[w].until
  THEN [Resting EXCEPT !.doing = "expecting", !.date = session[w].date + 1, !.until = session[w].until]
  ELSE Resting

Expect(w) ==
  /\ Doing(w, "expecting")
  /\ IF Derivable(session[w].date) THEN Then(w, "deriving") ELSE Do(w, NextDate(w))
  /\ UNCHANGED <<membership, named, daily, owed, changes>>

Derive(w) ==
  /\ Doing(w, "deriving")
  /\ Do(w, IF Derivable(session[w].date)
           THEN [session[w] EXCEPT !.doing = "storing", !.row = Derived(session[w].date)]
           ELSE Resting)
  /\ UNCHANGED <<membership, named, daily, owed, changes>>

\* The upsert replaces what the item has a value for, here all of it.  A row
\* whose members changed since they were read is stale and stays.
StoreDaily(w) ==
  /\ Doing(w, "storing")
  /\ LET d == session[w].date  row == session[w].row
     IN /\ daily' = [daily EXCEPT ![d] = row]
        /\ owed' = IF row = Provided \/ (membership # {} /\ row = Derived(d)) THEN owed \ {d}
                   ELSE owed \cup {d}
  /\ Do(w, NextDate(w))
  /\ UNCHANGED <<membership, named, changes>>

StoreFails(w) ==
  /\ Doing(w, "storing")
  /\ Do(w, Resting)
  /\ UNCHANGED <<membership, named, daily, owed, changes>>

ConceptNext ==
  \E w \in Sessions :
    \/ FillAndFilter(w) \/ UpsertMembers(w) \/ PruneMembers(w) \/ Invalidate(w)
    \/ StartHistory(w) \/ InsertJoined(w) \/ CloseLeft(w) \/ StopsShort(w)
    \/ ReadSnapshot(w) \/ StartRebuild(w) \/ Expect(w) \/ Derive(w)
    \/ StoreDaily(w) \/ StoreFails(w)

ConceptSpec == ConceptInit /\ [][ConceptNext]_conceptVars

----------------------------------------------------------------------------

ConceptTypeOK ==
  /\ membership \subseteq Membership /\ named \subseteq MemberCodes
  /\ daily \in [TradeDates -> {NoDaily, Provided} \cup SUBSET MemberCodes]
  /\ owed \subseteq TradeDates /\ changes \in 0..MaxChanges
  /\ \A w \in Sessions : session[w].items \subseteq MemberItems

\* A derived row is that of the members its date has now, unless a session that
\* changed them is still to invalidate it, or a statement failed, or it was
\* derived from members that changed before it was stored, or the date is
\* before the first snapshot: the range that is invalidated for a change
\* reaches to the next snapshot, and that is far enough.
DerivedIsCurrent ==
  \A d \in TradeDates :
    \/ daily[d] \in {NoDaily, Provided} \/ d \in owed
    \/ \A m \in membership : d < m.from
    \/ daily[d] = Derived(d)
    \/ \E w \in Sessions : session[w].doing \in {"pruning", "leaving", "invalidating"}
                             /\ d \in Covered(membership, w)
=============================================================================
