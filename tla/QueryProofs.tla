---------------------------- MODULE QueryProofs ----------------------------
(***************************************************************************)
(* Proofs about CapabilityQuery: for any scopes, dates, requests, cache    *)
(* and fact table, and whatever the sources answer, an answer holds only   *)
(* what was asked for, every row the sources have when the builder names   *)
(* each missing row, and only stored rows when fact tables keep them all.  *)
(* And about QueryAlgorithms: on lists, names, samples and calendars of    *)
(* any length its functions return what their references say.              *)
(***************************************************************************)
EXTENDS CapabilityQuery, QueryAlgorithms, FoldLemmas

CallType == [phase : Phases, scopes : SUBSET Scopes, span : Spans,
             windows : SUBSET (Scopes \X Spans), hit : BOOLEAN,
             base : SUBSET Ids, answer : SUBSET Ids, whole : BOOLEAN,
             until : 0..(MaxNow + Ttl)]

----------------------------------------------------------------------------
(* What the helpers return                                                  *)

\* A request is about rows; the builder asks for some of its rows.
LEMMA WantedTyped == ASSUME NEW c \in CallType PROVE Wanted(c) \subseteq Ids
  BY DEF CallType, Wanted, Within, Ids

LEMMA MissingWanted ==
  ASSUME NEW c \in CallType, NEW items PROVE Missing(c, items) \subseteq Wanted(c)
  BY DEF Missing

\* The calls an action leaves are calls.
LEMMA DoneTyped ==
  ASSUME NEW c \in CallType, NEW items \in SUBSET Ids PROVE Done(c, items) \in CallType
  <1>1. 0 \in 0..(MaxNow + Ttl)
    BY SizesAssumption DEF SizesAssumption
  <1>2. QED
    BY <1>1 DEF Done, CallType, Phases

LEMMA WritingTyped ==
  ASSUME NEW c \in CallType, NEW items \in SUBSET Ids, NEW next \in Phases, now \in 0..MaxNow
  PROVE  Writing(c, items, next) \in CallType
  <1>1. now + Ttl \in 0..(MaxNow + Ttl)
    BY SizesAssumption DEF SizesAssumption
  <1>2. QED
    BY <1>1 DEF Writing, CallType

LEMMA SettleTyped ==
  ASSUME NEW c \in CallType, NEW base \in SUBSET Ids, now \in 0..MaxNow
  PROVE  Settle(c, base) \in CallType
  <1>1. "rows" \in Phases /\ "chain" \in Phases
    BY DEF Phases
  <1>2. Done(c, base) \in CallType /\ Writing(c, base, "rows") \in CallType
    BY <1>1, DoneTyped, WritingTyped
  <1>3. [c EXCEPT !.phase = "chain", !.base = base, !.windows = {}] \in CallType
    BY <1>1 DEF CallType
  <1>4. QED
    BY <1>2, <1>3 DEF Settle

\* How a query begins.
LEMMA OpenedTyped ==
  ASSUME NEW c \in CallType, NEW base \in SUBSET Ids, now \in 0..MaxNow
  PROVE  Opened(c, base) \in CallType
  <1>1. "coverage" \in Phases /\ "lacking" \in Phases
    BY DEF Phases
  <1>2. Settle(c, base) \in CallType
    BY SettleTyped
  <1>3. \A ph \in Phases : [c EXCEPT !.base = base, !.phase = ph] \in CallType
    BY DEF CallType
  <1>4. QED
    BY <1>1, <1>2, <1>3 DEF Opened

LEMMA StoredTyped ==
  ASSUME NEW c \in CallType, row \in [Ids -> [of : Scopes, until : 0..(MaxNow + Ttl)]]
  PROVE  StoredRows(c) \subseteq Ids
  BY DEF StoredRows, Ids

LEMMA IdleTyped == Idle \in CallType
  <1>1. <<1, 1>> \in Spans
    BY SizesAssumption DEF SizesAssumption, Spans, Dates
  <1>2. 0 \in 0..(MaxNow + Ttl)
    BY SizesAssumption DEF SizesAssumption
  <1>3. QED
    BY <1>1, <1>2 DEF Idle, CallType, Phases

\* The dates read for a coverage are a span, inside the span asked for.
LEMMA ReadSpanTyped ==
  ASSUME NEW k \in Spans, NEW w \in Spans, Overlaps(k, w) \/ k = w
  PROVE  /\ ReadSpan(k, w) \in Spans
         /\ facade.window # "undated" => Within(ReadSpan(k, w)) \subseteq Within(w)
  <1>1. k = <<k[1], k[2]>> /\ w = <<w[1], w[2]>> /\ k[1] \in Dates /\ k[2] \in Dates
        /\ w[1] \in Dates /\ w[2] \in Dates /\ k[1] <= k[2] /\ w[1] <= w[2]
    BY DEF Spans
  <1>2. k[1] <= w[2] /\ w[1] <= k[2]
    BY <1>1 DEF Overlaps, Dates
  <1>3. <<1, LastDate>> \in Spans
    BY SizesAssumption DEF SizesAssumption, Spans, Dates
  <1>4. QED
    BY <1>1, <1>2, <1>3, SizesAssumption DEF SizesAssumption, ReadSpan, Spans, Dates, Within


----------------------------------------------------------------------------
(* Type correctness                                                         *)

\* The windows a coverage read leaves, and their dates, are the request's.
ReadsAskedFor(c) ==
  \A w \in c.windows : /\ w[1] \in c.scopes
                       /\ facade.window # "undated" => Within(w[2]) \subseteq Within(c.span)

LEMMA CoverageReadTyped ==
  ASSUME TypeOK, NEW p \in Callers, CoverageRead(p)
  PROVE  \E X \in CallType :
           /\ call' = [call EXCEPT ![p] = X]
           /\ \/ X = Settle(call[p], call[p].base)
              \/ /\ X.phase = "store" /\ X.scopes = call[p].scopes /\ X.span = call[p].span
                 /\ X.base = call[p].base /\ X.answer = call[p].answer
                 /\ X.whole = call[p].whole /\ ReadsAskedFor(X)
  <1> DEFINE c       == call[p]
             full(s) == {k \in Spans : Fresh(cover[<<ScopeOf(s), k>>]) /\ Covers(k, c.span)}
             part(s) == {k \in Spans : Fresh(cover[<<ScopeOf(s), k>>]) /\ Overlaps(k, c.span)}
             open    == {s \in c.scopes : full(s) = {}}
             windows == IF open = {}
                        THEN {<<s, ReadSpan(c.span, c.span)>> : s \in c.scopes}
                        ELSE UNION {{<<s, ReadSpan(k, c.span)>> : k \in part(s)} : s \in open}
             X       == IF windows = {} THEN Settle(c, c.base)
                        ELSE [c EXCEPT !.windows = windows, !.hit = (open = {}), !.phase = "store"]
  <1>1. c \in CallType /\ now \in 0..MaxNow
    BY DEF TypeOK, CallType
  <1>2. call' = [call EXCEPT ![p] = X]
    BY Zenon DEF CoverageRead
  <1>3. ASSUME NEW w \in windows
        PROVE  \E s \in c.scopes, k \in Spans :
                 w = <<s, ReadSpan(k, c.span)>> /\ (Overlaps(k, c.span) \/ k = c.span)
    <2>1. CASE open = {}
      BY <1>1, <1>3, <2>1 DEF CallType
    <2>2. CASE open # {}
      BY <1>3, <2>2
    <2>3. QED
      BY <2>1, <2>2
  <1>4. ASSUME NEW w \in windows
        PROVE  /\ w \in Scopes \X Spans /\ w[1] \in c.scopes
               /\ facade.window # "undated" => Within(w[2]) \subseteq Within(c.span)
    <2>1. PICK s \in c.scopes, k \in Spans :
                 w = <<s, ReadSpan(k, c.span)>> /\ (Overlaps(k, c.span) \/ k = c.span)
      BY <1>3
    <2>2. c.span \in Spans /\ s \in Scopes
      BY <1>1 DEF CallType
    <2>3. QED
      BY <2>1, <2>2, ReadSpanTyped
  <1>5. windows \in SUBSET (Scopes \X Spans)
    BY <1>4
  <1> HIDE DEF windows, open
  <1>6. CASE windows = {}
    <2>1. X = Settle(c, c.base) /\ X \in CallType
      BY <1>1, <1>6, SettleTyped DEF CallType
    <2>2. QED
      BY <1>2, <2>1
  <1>7. CASE windows # {}
    <2>1. X = [c EXCEPT !.windows = windows, !.hit = (open = {}), !.phase = "store"]
      BY <1>7
    <2>2. X \in CallType
      BY <1>1, <1>5, <2>1 DEF CallType, Phases
    <2>3. X.phase = "store" /\ X.scopes = c.scopes /\ X.span = c.span /\ X.base = c.base
          /\ X.answer = c.answer /\ X.whole = c.whole /\ X.windows = windows
      BY <1>1, <2>1 DEF CallType
    <2>4. ReadsAskedFor(X)
      BY <1>4, <2>3 DEF ReadsAskedFor
    <2>5. QED
      BY <1>2, <2>2, <2>3, <2>4
  <1>8. QED
    BY <1>6, <1>7

\* What the chain leaves: an answer, to be written or returned.
Chained(c, got, whole, next) ==
  LET told == [c EXCEPT !.whole = whole]
  IN  IF next = "done" THEN Done(told, c.base \cup got) ELSE Writing(told, c.base \cup got, next)

LEMMA ChainTyped ==
  ASSUME TypeOK, NEW p \in Callers, Chain(p)
  PROVE  \E got \in SUBSET (Missing(call[p], call[p].base) \cap Published) :
         \E whole \in {FALSE, got = Missing(call[p], call[p].base) \cap Published},
            next \in AfterChain(call[p], got) :
           /\ call' = [call EXCEPT ![p] = Chained(call[p], got, whole, next)]
           /\ Chained(call[p], got, whole, next) \in CallType
  <1>1. call[p] \in CallType /\ now \in 0..MaxNow
    BY DEF TypeOK, CallType
  <1>2. PICK got \in SUBSET (Missing(call[p], call[p].base) \cap Published) :
          \E whole \in {FALSE, got = Missing(call[p], call[p].base) \cap Published},
             next \in AfterChain(call[p], got) :
             call' = [call EXCEPT ![p] = Chained(call[p], got, whole, next)]
    BY Zenon DEF Chain, Chained
  <1>3. PICK whole \in {FALSE, got = Missing(call[p], call[p].base) \cap Published},
             next \in AfterChain(call[p], got) :
             call' = [call EXCEPT ![p] = Chained(call[p], got, whole, next)]
    BY <1>2
  <1>4. next \in Phases
    BY DEF AfterChain, Phases
  <1>5. call[p].base \cup got \in SUBSET Ids
    BY <1>1, DataAssumption DEF CallType, DataAssumption
  <1>6. [call[p] EXCEPT !.whole = whole] \in CallType
    <2>1. whole \in BOOLEAN
      OBVIOUS
    <2>2. QED
      BY <1>1, <2>1 DEF CallType
  <1>7. Chained(call[p], got, whole, next) \in CallType
    BY <1>1, <1>4, <1>5, <1>6, DoneTyped, WritingTyped DEF Chained
  <1>8. QED
    BY <1>3, <1>7

LEMMA AskTyped ==
  ASSUME TypeOK, NEW p \in Callers, Ask(p)
  PROVE  \E r \in Requests, base \in SUBSET (facts \cap Ids) :
           LET c == [Idle EXCEPT !.scopes = r[1], !.span = r[2]]
           IN  /\ c \in CallType /\ base \subseteq Wanted(c)
               /\ call' = [call EXCEPT ![p] = Opened(c, base)] /\ Opened(c, base) \in CallType
  <1>1. PICK r \in Requests :
          LET c    == [Idle EXCEPT !.scopes = r[1], !.span = r[2]]
              base == IF facade.local THEN facts \cap Wanted(c) ELSE {}
          IN  call' = [call EXCEPT ![p] = Opened(c, base)]
    BY Zenon DEF Ask
  <1> DEFINE c    == [Idle EXCEPT !.scopes = r[1], !.span = r[2]]
             base == IF facade.local THEN facts \cap Wanted(c) ELSE {}
  <1>2. r[1] \subseteq Scopes /\ r[2] \in Spans
    BY DataAssumption DEF DataAssumption
  <1>3. c \in CallType
    BY <1>2, IdleTyped DEF CallType
  <1>4. base \subseteq Wanted(c) /\ base \subseteq facts \cap Ids /\ now \in 0..MaxNow
    BY <1>3, WantedTyped DEF TypeOK
  <1>5. Opened(c, base) \in CallType
    <2> HIDE DEF c, base
    <2>1. QED
      BY <1>3, <1>4, OpenedTyped
  <1>6. call' = [call EXCEPT ![p] = Opened(c, base)]
    BY <1>1, Zenon
  <1>7. QED
    <2>1. base \in SUBSET (facts \cap Ids)
      BY <1>4
    <2> HIDE DEF base
    <2>2. QED
      BY <1>3, <1>4, <1>5, <1>6, <2>1

\* The local factors are the answer, or the sources are asked.
LEMMA LackingReadTyped ==
  ASSUME TypeOK, NEW p \in Callers, LackingRead(p)
  PROVE  \E X \in {Done(call[p], call[p].base), Settle(call[p], call[p].base)} :
           X \in CallType /\ call' = [call EXCEPT ![p] = X]
  <1>1. call[p] \in CallType /\ now \in 0..MaxNow /\ call[p].base \in SUBSET Ids
    BY DEF TypeOK, CallType
  <1>2. Done(call[p], call[p].base) \in CallType /\ Settle(call[p], call[p].base) \in CallType
    BY <1>1, DoneTyped, SettleTyped
  <1>3. \E X \in {Done(call[p], call[p].base), Settle(call[p], call[p].base)} :
          call' = [call EXCEPT ![p] = X]
    BY Zenon DEF LackingRead
  <1>4. QED
    BY <1>2, <1>3

LEMMA StoreReadTyped ==
  ASSUME TypeOK, NEW p \in Callers, StoreRead(p)
  PROVE  \E X \in CallType :
           /\ call' = [call EXCEPT ![p] = X]
           /\ \/ /\ X = Done(call[p], StoredRows(call[p]))
                 /\ Missing(call[p], StoredRows(call[p])) = {}
              \/ X = Settle(call[p], StoredRows(call[p]) \cup call[p].base)
  <1> DEFINE c == call[p]
             items == StoredRows(c)
             X == IF c.hit /\ Missing(c, items) = {} THEN Done(c, items)
                  ELSE Settle(c, items \cup c.base)
  <1>1. c \in CallType /\ now \in 0..MaxNow
        /\ row \in [Ids -> [of : Scopes, until : 0..(MaxNow + Ttl)]]
    BY DEF TypeOK, CallType
  <1>2. items \in SUBSET Ids /\ items \cup c.base \in SUBSET Ids
    BY <1>1, StoredTyped DEF CallType
  <1>3. call' = [call EXCEPT ![p] = X]
    BY Zenon DEF StoreRead
  <1> HIDE DEF c, items
  <1>4. X \in CallType
    BY <1>1, <1>2, DoneTyped, SettleTyped
  <1>5. \/ X = Done(c, items) /\ Missing(c, items) = {}
        \/ X = Settle(c, items \cup c.base)
    OBVIOUS
  <1>6. QED
    BY <1>3, <1>4, <1>5 DEF c, items

\* Every call in flight, the two cache tables and the fact table are well
\* typed: no statement stores a row of an unknown scope or a deadline past
\* the time to live.
THEOREM TypeCorrect == Spec => []TypeOK
  <1>1. Init => TypeOK
    <2> SUFFICES ASSUME Init PROVE TypeOK
      OBVIOUS
    <2>1. facts \subseteq Ids /\ 0 \in 0..(MaxNow + Ttl) /\ 0 \in 0..MaxNow /\ 0 \in 0..MaxAsks
      BY DataAssumption, SizesAssumption DEF Init, DataAssumption, SizesAssumption
    <2>2. row \in [Ids -> [of : Scopes, until : 0..(MaxNow + Ttl)]]
      BY <2>1 DEF Init, Ids
    <2>3. call \in [Callers -> CallType]
      BY IdleTyped DEF Init
    <2>4. QED
      BY <2>1, <2>2, <2>3 DEF Init, TypeOK, CallType
  <1>2. TypeOK /\ [Next]_vars => TypeOK'
    <2> SUFFICES ASSUME TypeOK, [Next]_vars PROVE TypeOK'
      OBVIOUS
    <2>1. facade \in Facades /\ facts \subseteq Ids
          /\ daily \in [Ids -> {"none", "traded", "suspended"}] /\ now \in 0..MaxNow /\ asks \in 0..MaxAsks
          /\ row \in [Ids -> [of : Scopes, until : 0..(MaxNow + Ttl)]]
          /\ cover \in [Scopes \X Spans -> 0..(MaxNow + Ttl)]
          /\ call \in [Callers -> CallType]
      BY DEF TypeOK, CallType
    <2>2. ASSUME facade' = facade, facts' \subseteq Ids,
                 daily' \in [Ids -> {"none", "traded", "suspended"}], now' \in 0..MaxNow, asks' \in 0..MaxAsks,
                 row' \in [Ids -> [of : Scopes, until : 0..(MaxNow + Ttl)]],
                 cover' \in [Scopes \X Spans -> 0..(MaxNow + Ttl)],
                 call' \in [Callers -> CallType]
          PROVE  TypeOK'
      BY <2>1, <2>2 DEF TypeOK, CallType
    <2>3. ASSUME NEW p \in Callers, Ask(p) PROVE TypeOK'
      <3>1. call' \in [Callers -> CallType]
        <4>1. PICK X \in CallType : call' = [call EXCEPT ![p] = X]
          BY <2>3, AskTyped, Zenon
        <4>2. QED
          BY <2>1, <4>1
      <3>2. asks' \in 0..MaxAsks
        BY <2>1, <2>3, SizesAssumption DEF Ask, SizesAssumption
      <3>3. QED
        BY <2>1, <2>2, <2>3, <3>1, <3>2 DEF Ask
    <2>4. ASSUME NEW p \in Callers, LackingRead(p) \/ CoverageRead(p) \/ StoreRead(p) \/ Chain(p)
          PROVE  TypeOK'
      <3>1. \E X \in CallType : call' = [call EXCEPT ![p] = X]
        BY <2>4, LackingReadTyped, CoverageReadTyped, StoreReadTyped, ChainTyped, Zenon
      <3>2. QED
        BY <2>1, <2>2, <2>4, <3>1 DEF LackingRead, CoverageRead, StoreRead, Chain
    <2>5. ASSUME NEW p \in Callers, WriteRows(p) PROVE TypeOK'
      <3>1. call[p] \in CallType
        BY <2>1
      <3>2. Upserted(call[p]) \in [Ids -> [of : Scopes, until : 0..(MaxNow + Ttl)]]
        <4>1. ASSUME NEW k \in Ids, NEW id \in call[p].answer PROVE id[1] \in Scopes
          BY <3>1 DEF CallType, Ids
        <4>2. call[p].until \in 0..(MaxNow + Ttl)
          BY <3>1 DEF CallType
        <4>3. QED
          BY <2>1, <4>1, <4>2 DEF Upserted
      <3>3. call' \in [Callers -> CallType]
        BY <2>1, <2>5, <3>1 DEF WriteRows, CallType, Phases
      <3>4. QED
        BY <2>1, <2>2, <2>5, <3>2, <3>3 DEF WriteRows
    <2>6. ASSUME NEW p \in Callers, WriteCoverage(p) PROVE TypeOK'
      <3>1. call[p] \in CallType /\ call[p].until \in 0..(MaxNow + Ttl)
            /\ call[p].answer \in SUBSET Ids
        BY <2>1 DEF CallType
      <3>2. call' \in [Callers -> CallType]
        <4>1. call' = [call EXCEPT ![p] = Done(call[p], call[p].answer)]
          BY <2>6 DEF WriteCoverage
        <4>2. QED
          BY <2>1, <3>1, <4>1, DoneTyped
      <3>3. cover' \in [Scopes \X Spans -> 0..(MaxNow + Ttl)]
        <4>1. PICK new : cover' \in {cover, [k \in DOMAIN cover |->
                                          IF k \in new THEN call[p].until ELSE cover[k]]}
          BY <2>6 DEF WriteCoverage
        <4>2. QED
          BY <2>1, <3>1, <4>1
      <3>4. QED
        BY <2>1, <2>2, <2>6, <3>2, <3>3 DEF WriteCoverage
    <2>7. ASSUME NEW p \in Callers, WriteFacts(p) PROVE TypeOK'
      <3>1. call[p] \in CallType /\ call[p].answer \in SUBSET Ids /\ call[p].base \in SUBSET Ids
        BY <2>1 DEF CallType
      <3>2. call' = [call EXCEPT ![p] = Done(call[p], Replied(call[p]))]
            /\ \E kept \in Kept(call[p]) : facts' = facts \cup kept
        BY <2>7, Zenon DEF WriteFacts
      <3>3. Replied(call[p]) \in SUBSET Ids /\ \A kept \in Kept(call[p]) : kept \subseteq Ids
        BY <3>1 DEF Replied, Kept
      <3>4. call' \in [Callers -> CallType] /\ facts' \subseteq Ids
        BY <2>1, <3>1, <3>2, <3>3, DoneTyped
      <3>5. QED
        BY <2>1, <2>2, <2>7, <3>4 DEF WriteFacts
    <2>8. ASSUME NEW p \in Callers, FactsRefused(p) PROVE TypeOK'
      <3>1. [Idle EXCEPT !.phase = "failed"] \in CallType
        BY IdleTyped DEF CallType, Phases
      <3>2. QED
        BY <2>1, <2>2, <2>8, <3>1 DEF FactsRefused
    <2>9. CASE Tick
      BY <2>1, <2>2, <2>9, SizesAssumption DEF Tick, SizesAssumption
    <2>10. ASSUME NEW id \in Ids, DailyRow(id) PROVE TypeOK'
      BY <2>1, <2>2, <2>10 DEF DailyRow
    <2>11. CASE UNCHANGED vars
      BY <2>1, <2>2, <2>11 DEF vars
    <2>12. QED
      BY <2>3, <2>4, <2>5, <2>6, <2>7, <2>8, <2>9, <2>10, <2>11 DEF Next
  <1>3. QED
    BY <1>1, <1>2, PTL DEF Spec

----------------------------------------------------------------------------
(* The invariant of one call, given the facade f and the fact table F       *)

\* Rows that were asked for.
Asked(c, X, f) ==
  \A id \in X : (~f.wide => id[1] \in c.scopes) /\ (f.window # "undated" => id[2] \in Within(c.span))

\* All a call holds was asked for.
HoldsAsked(c, f) ==
  /\ Asked(c, c.base, f) /\ Asked(c, c.answer, f)
  /\ \A w \in c.windows : /\ w[1] \in c.scopes
                          /\ f.window # "undated" => Within(w[2]) \subseteq Within(c.span)

NamesEach(c, f) ==
  \/ f.builder = "each"
  \/ f.builder = "day" /\ c.span[1] = c.span[2]

Full(c, X, f) == c.whole /\ NamesEach(c, f) => Wanted(c) \cap Published \subseteq X

\* Once it has an answer, the answer is full.
HoldsFull(c, f) == c.phase \in {"rows", "cover", "facts", "done"} => Full(c, c.answer, f)

\* What the query answers with is stored: its writer keeps all, or it answers
\* with the local rows.
Solid(c, f) == f.partial => f.lacking /\ ~c.whole

\* A query of the fact tables never meets the cache, starts from stored
\* rows, and only returns stored rows.
HoldsStored(c, F, f) ==
  /\ c.phase = "lacking" => f.lacking
  /\ f.store = "facts" => /\ c.phase \notin {"coverage", "store", "rows", "cover"}
                          /\ c.base \subseteq F
                          /\ c.phase = "done" /\ Solid(c, f) => c.answer \subseteq F

CallInv(c, F, f) == HoldsAsked(c, f) /\ HoldsFull(c, f) /\ HoldsStored(c, F, f)

CallsInv == \A p \in Callers : CallInv(call[p], facts, facade)

\* Returning rows, writing them and settling keep it.
LEMMA DoneInv ==
  ASSUME NEW c \in CallType, NEW items \in SUBSET Ids, NEW F, Asked(c, items, facade),
         Full(c, items, facade),
         facade.store = "facts" /\ Solid(c, facade) => items \subseteq F
  PROVE  CallInv(Done(c, items), F, facade)
  <1> DEFINE X == Done(c, items)
  <1>1. X.phase = "done" /\ X.scopes = c.scopes /\ X.span = c.span /\ X.whole = c.whole
        /\ X.base = {} /\ X.windows = {} /\ X.answer = items
    BY DEF Done, CallType
  <1> HIDE DEF X
  <1>2. HoldsAsked(X, facade)
    BY <1>1 DEF HoldsAsked, Asked
  <1>3. HoldsFull(X, facade)
    BY <1>1 DEF HoldsFull, Full, NamesEach, Wanted
  <1>4. HoldsStored(X, F, facade)
    BY <1>1 DEF HoldsStored, Solid
  <1>5. QED
    BY <1>2, <1>3, <1>4 DEF CallInv, X

LEMMA WritingInv ==
  ASSUME NEW c \in CallType, NEW items \in SUBSET Ids, NEW F, NEW next \in {"rows", "facts"},
         Asked(c, items, facade), Full(c, items, facade),
         facade.store = "facts" => next = "facts" /\ c.base \subseteq F,
         Asked(c, c.base, facade)
  PROVE  CallInv(Writing(c, items, next), F, facade)
  <1> DEFINE X == Writing(c, items, next)
  <1>1. X.phase = next /\ X.scopes = c.scopes /\ X.span = c.span /\ X.whole = c.whole
        /\ X.base \in {{}, c.base} /\ X.windows = {} /\ X.answer = items
    BY DEF Writing, CallType
  <1> HIDE DEF X
  <1>2. HoldsAsked(X, facade)
    BY <1>1 DEF HoldsAsked, Asked
  <1>3. HoldsFull(X, facade)
    BY <1>1 DEF HoldsFull, Full, NamesEach, Wanted
  <1>4. HoldsStored(X, F, facade)
    BY <1>1 DEF HoldsStored
  <1>5. QED
    BY <1>2, <1>3, <1>4 DEF CallInv, X

\* A builder that names each row and has nothing to ask for has them all.
LEMMA NothingMissing ==
  ASSUME NEW c, NEW items, Missing(c, items) = {} PROVE Full(c, items, facade)
  BY DEF Missing, Full, NamesEach

LEMMA SettleInv ==
  ASSUME NEW c \in CallType, NEW base \in SUBSET Ids, NEW F, Asked(c, base, facade),
         Asked(c, c.answer, facade), Asked(c, c.base, facade),
         facade.store = "facts" => base \subseteq F
  PROVE  CallInv(Settle(c, base), F, facade)
  <1>1. CASE Missing(c, base) # {}
    <2> DEFINE X == [c EXCEPT !.phase = "chain", !.base = base, !.windows = {}]
    <2>1. Settle(c, base) = X
      BY <1>1 DEF Settle
    <2>2. X.phase = "chain" /\ X.scopes = c.scopes /\ X.span = c.span /\ X.base = base
          /\ X.windows = {} /\ X.answer = c.answer
      BY DEF CallType
    <2> HIDE DEF X
    <2>3. HoldsAsked(X, facade)
      BY <2>2 DEF HoldsAsked, Asked
    <2>4. HoldsFull(X, facade) /\ HoldsStored(X, F, facade)
      BY <2>2 DEF HoldsFull, HoldsStored
    <2>5. QED
      BY <2>1, <2>3, <2>4 DEF CallInv
  <1>2. CASE Missing(c, base) = {}
    <2>1. Full(c, base, facade)
      BY <1>2, NothingMissing
    <2>2. CallInv(Done(c, base), F, facade)
      BY <2>1, DoneInv
    <2>3. facade.store = "cache" => CallInv(Writing(c, base, "rows"), F, facade)
      BY <2>1, WritingInv
    <2>4. QED
      BY <1>2, <2>2, <2>3 DEF Settle
  <1>3. QED
    BY <1>1, <1>2

LEMMA OpenedInv ==
  ASSUME NEW c \in CallType, NEW base \in SUBSET Ids, NEW F, Asked(c, base, facade),
         Asked(c, c.answer, facade), Asked(c, c.base, facade), c.windows = {}, base \subseteq F
  PROVE  CallInv(Opened(c, base), F, facade)
  <1>1. ASSUME NEW ph \in {"coverage", "lacking"}, facade.store = "facts" => ph = "lacking",
               ph = "lacking" => facade.lacking
        PROVE  CallInv([c EXCEPT !.base = base, !.phase = ph], F, facade)
    <2> DEFINE X == [c EXCEPT !.base = base, !.phase = ph]
    <2>1. X.phase = ph /\ X.scopes = c.scopes /\ X.span = c.span /\ X.base = base
          /\ X.windows = {} /\ X.answer = c.answer
      BY DEF CallType
    <2> HIDE DEF X
    <2>2. HoldsAsked(X, facade)
      BY <2>1 DEF HoldsAsked, Asked
    <2>3. HoldsFull(X, facade) /\ HoldsStored(X, F, facade)
      BY <1>1, <2>1 DEF HoldsFull, HoldsStored
    <2>4. QED
      BY <2>2, <2>3 DEF CallInv, X
  <1>2. CallInv(Settle(c, base), F, facade)
    BY SettleInv
  <1>3. QED
    BY <1>1, <1>2 DEF Opened

\* Only factors are asked for by a builder that may not be asked at all.
LEMMA LackingAlways ==
  ASSUME facade \in Facades, facade.lacking, NEW c, NEW X
  PROVE  Full(c, X, facade)
  <1>1. ASSUME NEW b, NEW t, NEW w
        PROVE  /\ ~Facade(b, t, w, {}).lacking /\ ~Facade(b, t, w, {"wide"}).lacking
               /\ ~Facade(b, t, w, {"shrink"}).lacking /\ ~Facade(b, t, w, {"blind"}).lacking
               /\ ~Facade(b, t, w, {"local"}).lacking
               /\ ~Facade(b, t, w, {"local", "shrink"}).lacking
               /\ ~Facade(b, t, w, {"local", "partial"}).lacking
    BY DEF Facade
  <1>2. facade.builder = "always"
    <2>1. facade = AdjFactors
      BY <1>1 DEF Facades, StoreList, MarketStoreList, DailyIndicator, IndexMembers,
           ConceptCategories, Archive, TechnicalFactors, PledgeDetails, BseCodeMappings,
           HkConnectTargets, MainBusiness, MoneyFlow, MoneyFlowBatch, MoneyFlowSnapshot,
           MarginSnapshot, MainCapitalFlow, ConnectFlow, IntradayQuotes, DailySnapshot,
           DailyQuotes, IndexQuotes, EtfQuotes, TradingCalendar, StockBasic, NameHistory,
           IndexCatalog, IndexProfile, IntradayBars
    <2>2. QED
      BY <2>1 DEF AdjFactors, Facade
  <1>3. QED
    BY <1>2 DEF Full, NamesEach

\* What is stored was asked for.
LEMMA StoredAsked ==
  ASSUME NEW c \in CallType, HoldsAsked(c, facade),
         row \in [Ids -> [of : Scopes, until : 0..(MaxNow + Ttl)]]
  PROVE  Asked(c, StoredRows(c), facade)
  <1>1. ASSUME NEW id \in StoredRows(c)
        PROVE  /\ ~facade.wide => id[1] \in c.scopes
               /\ facade.window # "undated" => id[2] \in Within(c.span)
    <2>1. PICK k \in Ids : /\ id = <<row[k].of, k[2]>>
                           /\ ~facade.wide => row[k].of \in c.scopes
                           /\ \E w \in c.windows : k[2] \in Within(w[2])
      BY DEF StoredRows
    <2>2. QED
      BY <2>1 DEF HoldsAsked
  <1>2. QED
    BY <1>1 DEF Asked

\* So was what the chain leaves.
LEMMA ChainedInv ==
  ASSUME NEW c \in CallType, CallInv(c, facts, facade), c.phase = "chain",
         NEW got \in SUBSET (Missing(c, c.base) \cap Published), NEW next \in AfterChain(c, got),
         NEW whole \in {FALSE, got = Missing(c, c.base) \cap Published}
  PROVE  CallInv(Chained(c, got, whole, next), facts, facade)
  <1> DEFINE told == [c EXCEPT !.whole = whole]
             items == c.base \cup got
  <1>1. told \in CallType /\ told.scopes = c.scopes /\ told.span = c.span
        /\ told.base = c.base /\ told.whole = whole
    <2>1. whole \in BOOLEAN
      OBVIOUS
    <2>2. QED
      BY <2>1 DEF CallType
  <1>2. items \in SUBSET Ids /\ got \subseteq Wanted(c)
    BY DataAssumption, MissingWanted DEF CallType, DataAssumption
  <1> HIDE DEF told
  <1>3. Asked(told, items, facade)
    <2>1. \A id \in got : id[1] \in c.scopes /\ id[2] \in Within(c.span)
      BY <1>2 DEF Wanted
    <2>2. QED
      BY <1>1, <2>1 DEF Asked, CallInv, HoldsAsked
  <1>4. Full(told, items, facade)
    <2> SUFFICES ASSUME told.whole, NamesEach(told, facade)
                 PROVE  Wanted(told) \cap Published \subseteq items
      BY DEF Full
    <2>1. got = Missing(c, c.base) \cap Published /\ Wanted(told) = Wanted(c)
      BY <1>1 DEF Wanted
    <2>2. Wanted(c) \subseteq Missing(c, c.base) \cup c.base
      BY <1>1 DEF NamesEach, Missing
    <2>3. QED
      BY <2>1, <2>2
  <1>5. CASE next = "done"
    <2>1. facade.store = "facts" => items \subseteq facts
      BY <1>5 DEF AfterChain, CallInv, HoldsStored
    <2>2. CallInv(Done(told, items), facts, facade)
      BY <1>1, <1>2, <1>3, <1>4, <2>1, DoneInv
    <2>3. QED
      BY <1>5, <2>2 DEF Chained, told
  <1>6. CASE next # "done"
    <2>1. next \in {"rows", "facts"}
          /\ (facade.store = "facts" => next = "facts" /\ told.base \subseteq facts)
      BY <1>1, <1>6 DEF AfterChain, CallInv, HoldsStored
    <2>2. Asked(told, told.base, facade)
      BY <1>1 DEF Asked, CallInv, HoldsAsked
    <2>3. CallInv(Writing(told, items, next), facts, facade)
      BY <1>1, <1>2, <1>3, <1>4, <2>1, <2>2, WritingInv
    <2>4. QED
      BY <1>6, <2>3 DEF Chained, told
  <1>7. QED
    BY <1>5, <1>6

----------------------------------------------------------------------------
(* The invariant is kept                                                    *)

\* A step that replaces p's call and only adds rows to the fact table.
LEMMA OthersKept ==
  ASSUME TypeOK, CallsInv, NEW p \in Callers, NEW X, call' = [call EXCEPT ![p] = X],
         facade' = facade, facts \subseteq facts', CallInv(X, facts', facade)
  PROVE  CallsInv'
  <1> SUFFICES ASSUME NEW q \in Callers PROVE CallInv(call'[q], facts', facade)
    BY DEF CallsInv
  <1>1. CASE q = p
    BY <1>1 DEF TypeOK
  <1>2. CASE q # p
    <2>1. call'[q] = call[q] /\ CallInv(call[q], facts, facade)
      BY <1>2 DEF TypeOK, CallsInv
    <2>2. HoldsStored(call[q], facts', facade)
      BY <2>1 DEF CallInv, HoldsStored
    <2>3. QED
      BY <2>1, <2>2 DEF CallInv
  <1>3. QED
    BY <1>1, <1>2

LEMMA CallsKept == TypeOK /\ CallsInv /\ [Next]_vars => CallsInv'
  <1> SUFFICES ASSUME TypeOK, CallsInv, [Next]_vars PROVE CallsInv'
    OBVIOUS
  <1>1. ASSUME NEW p \in Callers
        PROVE  /\ call[p] \in CallType /\ CallInv(call[p], facts, facade)
               /\ call[p].base \in SUBSET Ids /\ call[p].answer \in SUBSET Ids
    BY DEF TypeOK, CallType, CallsInv
  <1>2. ASSUME NEW p \in Callers, Ask(p) PROVE CallsInv'
    <2>1. facade' = facade /\ facts' = facts
      BY <1>2 DEF Ask
    <2>2. PICK r \in Requests, base \in SUBSET (facts \cap Ids) :
            LET c == [Idle EXCEPT !.scopes = r[1], !.span = r[2]]
            IN  /\ c \in CallType /\ base \subseteq Wanted(c)
                /\ call' = [call EXCEPT ![p] = Opened(c, base)] /\ Opened(c, base) \in CallType
      BY <1>2, AskTyped, Zenon
    <2> DEFINE c == [Idle EXCEPT !.scopes = r[1], !.span = r[2]]
    <2>3. c \in CallType /\ base \subseteq Wanted(c)
          /\ call' = [call EXCEPT ![p] = Opened(c, base)]
      BY <2>2, Zenon
    <2>4. c.answer = {} /\ c.base = {} /\ c.windows = {}
      BY DEF Idle
    <2> HIDE DEF c
    <2>5. Asked(c, base, facade) /\ Asked(c, c.answer, facade) /\ Asked(c, c.base, facade)
      BY <2>3, <2>4 DEF Asked, Wanted
    <2>6. CallInv(Opened(c, base), facts', facade)
      BY <2>1, <2>3, <2>4, <2>5, OpenedInv
    <2>7. QED
      BY <2>1, <2>3, <2>6, OthersKept
  <1>3. ASSUME NEW p \in Callers, CoverageRead(p) PROVE CallsInv'
    <2>1. facade' = facade /\ facts' = facts /\ call[p].phase = "coverage"
      BY <1>3 DEF CoverageRead
    <2>2. PICK X \in CallType :
           /\ call' = [call EXCEPT ![p] = X]
           /\ \/ X = Settle(call[p], call[p].base)
              \/ /\ X.phase = "store" /\ X.scopes = call[p].scopes /\ X.span = call[p].span
                 /\ X.base = call[p].base /\ X.answer = call[p].answer
                 /\ X.whole = call[p].whole /\ ReadsAskedFor(X)
      BY <1>3, CoverageReadTyped
    <2>3. facade.store # "facts"
      BY <1>1, <2>1 DEF CallInv, HoldsStored
    <2>4. CallInv(X, facts', facade)
      <3>1. CASE X = Settle(call[p], call[p].base)
        BY <1>1, <2>1, <2>3, <3>1, SettleInv DEF CallInv, HoldsAsked
      <3>2. CASE X # Settle(call[p], call[p].base)
        <4>1. HoldsAsked(X, facade)
          BY <1>1, <2>2, <3>2 DEF CallInv, HoldsAsked, Asked, ReadsAskedFor
        <4>2. HoldsFull(X, facade) /\ HoldsStored(X, facts', facade)
          BY <2>2, <2>3, <3>2 DEF HoldsFull, HoldsStored
        <4>3. QED
          BY <4>1, <4>2 DEF CallInv
      <3>3. QED
        BY <3>1, <3>2
    <2>5. QED
      BY <2>1, <2>2, <2>4, OthersKept
  <1>4. ASSUME NEW p \in Callers, StoreRead(p) PROVE CallsInv'
    <2>1. facade' = facade /\ facts' = facts /\ call[p].phase = "store"
      BY <1>4 DEF StoreRead
    <2>2. PICK X \in CallType :
           /\ call' = [call EXCEPT ![p] = X]
           /\ \/ /\ X = Done(call[p], StoredRows(call[p]))
                 /\ Missing(call[p], StoredRows(call[p])) = {}
              \/ X = Settle(call[p], StoredRows(call[p]) \cup call[p].base)
      BY <1>4, StoreReadTyped
    <2> DEFINE items == StoredRows(call[p])
    <2>3. facade.store # "facts" /\ items \in SUBSET Ids /\ Asked(call[p], items, facade)
          /\ items \cup call[p].base \in SUBSET Ids
          /\ Asked(call[p], items \cup call[p].base, facade)
      <3>1. row \in [Ids -> [of : Scopes, until : 0..(MaxNow + Ttl)]]
        BY DEF TypeOK
      <3>2. items \in SUBSET Ids /\ Asked(call[p], items, facade)
        BY <1>1, <3>1, StoredTyped, StoredAsked DEF CallInv
      <3> HIDE DEF items
      <3>3. QED
        BY <1>1, <2>1, <3>2 DEF CallInv, HoldsStored, HoldsAsked, Asked
    <2>4. Missing(call[p], items) = {} => CallInv(Done(call[p], items), facts', facade)
      BY <1>1, <2>3, NothingMissing, DoneInv
    <2>5. CallInv(Settle(call[p], items \cup call[p].base), facts', facade)
      <3>1. Asked(call[p], call[p].answer, facade) /\ Asked(call[p], call[p].base, facade)
        BY <1>1 DEF CallInv, HoldsAsked
      <3> HIDE DEF items
      <3>2. QED
        BY <1>1, <2>3, <3>1, SettleInv
    <2>6. CallInv(X, facts', facade)
      BY <2>2, <2>4, <2>5
    <2>7. QED
      BY <2>1, <2>2, <2>6, OthersKept
  <1>5. ASSUME NEW p \in Callers, Chain(p) PROVE CallsInv'
    <2>1. facade' = facade /\ facts' = facts /\ call[p].phase = "chain"
      BY <1>5 DEF Chain
    <2>2. PICK got \in SUBSET (Missing(call[p], call[p].base) \cap Published) :
          \E whole \in {FALSE, got = Missing(call[p], call[p].base) \cap Published},
             next \in AfterChain(call[p], got) :
            /\ call' = [call EXCEPT ![p] = Chained(call[p], got, whole, next)]
            /\ Chained(call[p], got, whole, next) \in CallType
      BY <1>5, ChainTyped, Zenon
    <2>3. PICK whole \in {FALSE, got = Missing(call[p], call[p].base) \cap Published},
               next \in AfterChain(call[p], got) :
            call' = [call EXCEPT ![p] = Chained(call[p], got, whole, next)]
      BY <2>2
    <2>4. CallInv(Chained(call[p], got, whole, next), facts', facade)
      BY <1>1, <2>1, ChainedInv
    <2>5. QED
      BY <2>1, <2>3, <2>4, OthersKept
  <1>6. ASSUME NEW p \in Callers, WriteRows(p) PROVE CallsInv'
    <2> DEFINE X == [call[p] EXCEPT !.phase = "cover"]
    <2>1. facade' = facade /\ facts' = facts /\ call[p].phase = "rows"
          /\ call' = [call EXCEPT ![p] = X]
      BY <1>1, <1>6 DEF WriteRows
    <2>2. X.phase = "cover" /\ X.scopes = call[p].scopes /\ X.span = call[p].span
          /\ X.base = call[p].base /\ X.answer = call[p].answer /\ X.whole = call[p].whole
          /\ X.windows = call[p].windows
      BY <1>1 DEF CallType
    <2> HIDE DEF X
    <2>3. HoldsAsked(X, facade)
      BY <1>1, <2>2 DEF CallInv, HoldsAsked, Asked
    <2>4. HoldsFull(X, facade) /\ HoldsStored(X, facts', facade)
      BY <1>1, <2>1, <2>2 DEF CallInv, HoldsFull, HoldsStored, Full, NamesEach, Wanted
    <2>5. QED
      BY <2>1, <2>3, <2>4, OthersKept DEF CallInv
  <1>7. ASSUME NEW p \in Callers, WriteCoverage(p) PROVE CallsInv'
    <2>1. facade' = facade /\ facts' = facts /\ call[p].phase = "cover"
          /\ call' = [call EXCEPT ![p] = Done(call[p], call[p].answer)]
      BY <1>7 DEF WriteCoverage
    <2>2. CallInv(Done(call[p], call[p].answer), facts', facade)
      BY <1>1, <2>1, DoneInv DEF CallInv, HoldsAsked, HoldsFull, HoldsStored
    <2>3. QED
      BY <2>1, <2>2, OthersKept
  <1>8. ASSUME NEW p \in Callers, WriteFacts(p) PROVE CallsInv'
    <2> DEFINE items == Replied(call[p])
    <2>1. facade' = facade /\ call[p].phase = "facts"
          /\ call' = [call EXCEPT ![p] = Done(call[p], items)]
          /\ \E kept \in Kept(call[p]) : facts' = facts \cup kept
      BY <1>8, Zenon DEF WriteFacts
    <2>2. items \in SUBSET Ids /\ Asked(call[p], items, facade) /\ facts \subseteq facts'
      BY <1>1, <2>1 DEF Replied, CallInv, HoldsAsked
    <2>3. Full(call[p], items, facade)
      <3>1. facade \in Facades
        BY DEF TypeOK
      <3>2. CASE facade.lacking
        BY <3>1, <3>2, LackingAlways
      <3>3. CASE ~facade.lacking
        <4>1. items = call[p].answer
          BY <3>3 DEF Replied
        <4>2. Full(call[p], call[p].answer, facade)
          BY <1>1, <2>1 DEF CallInv, HoldsFull
        <4>3. QED
          BY <4>1, <4>2
      <3>4. QED
        BY <3>2, <3>3
    <2>4. facade.store = "facts" /\ Solid(call[p], facade) => items \subseteq facts'
      <3>1. ~facade.partial => call[p].answer \subseteq facts'
        BY <2>1 DEF Kept
      <3>2. facade.store = "facts" => call[p].base \subseteq facts'
        BY <1>1, <2>2 DEF CallInv, HoldsStored
      <3>3. QED
        BY <3>1, <3>2 DEF Replied, Solid
    <2> HIDE DEF items
    <2>5. CallInv(Done(call[p], items), facts', facade)
      BY <1>1, <2>2, <2>3, <2>4, DoneInv
    <2>6. QED
      BY <2>1, <2>2, <2>5, OthersKept
  <1>9. ASSUME NEW p \in Callers, FactsRefused(p) PROVE CallsInv'
    <2> DEFINE X == [Idle EXCEPT !.phase = "failed"]
    <2>1. facade' = facade /\ facts' = facts /\ call' = [call EXCEPT ![p] = X]
      BY <1>9 DEF FactsRefused
    <2>2. X.phase = "failed" /\ X.base = {} /\ X.answer = {} /\ X.windows = {}
      BY DEF Idle
    <2> HIDE DEF X
    <2>3. CallInv(X, facts', facade)
      BY <2>2 DEF CallInv, HoldsAsked, Asked, HoldsFull, HoldsStored
    <2>4. QED
      BY <2>1, <2>3, OthersKept
  <1>10. ASSUME NEW p \in Callers, LackingRead(p) PROVE CallsInv'
    <2>1. facade' = facade /\ facts' = facts /\ call[p].phase = "lacking"
      BY <1>10 DEF LackingRead
    <2>2. PICK X \in {Done(call[p], call[p].base), Settle(call[p], call[p].base)} :
            call' = [call EXCEPT ![p] = X]
      BY <1>10, LackingReadTyped
    <2>3. Asked(call[p], call[p].base, facade) /\ Asked(call[p], call[p].answer, facade)
          /\ (facade.store = "facts" => call[p].base \subseteq facts) /\ facade.lacking
      BY <1>1, <2>1 DEF CallInv, HoldsAsked, HoldsStored
    <2>4. Full(call[p], call[p].base, facade)
      BY <2>3, LackingAlways DEF TypeOK
    <2>5. CallInv(X, facts', facade)
      BY <1>1, <2>1, <2>2, <2>3, <2>4, DoneInv, SettleInv
    <2>6. QED
      BY <2>1, <2>2, <2>5, OthersKept
  <1>11. CASE Tick
    BY <1>11 DEF Tick, CallsInv
  <1>12. ASSUME NEW id \in Ids, DailyRow(id) PROVE CallsInv'
    BY <1>12 DEF DailyRow, CallsInv
  <1>13. CASE UNCHANGED vars
    BY <1>13 DEF vars, CallsInv
  <1>14. QED
    BY <1>2, <1>3, <1>4, <1>5, <1>6, <1>7, <1>8, <1>9, <1>10, <1>11, <1>12, <1>13 DEF Next

LEMMA CallsAlways == Spec => []CallsInv
  <1>1. Init => CallsInv
    <2> SUFFICES ASSUME Init, NEW p \in Callers PROVE CallInv(Idle, facts, facade)
      BY DEF Init, CallsInv
    <2>1. Idle.phase = "idle" /\ Idle.base = {} /\ Idle.answer = {} /\ Idle.windows = {}
      BY DEF Idle
    <2>2. QED
      BY <2>1 DEF CallInv, HoldsAsked, Asked, HoldsFull, HoldsStored
  <1>2. QED
    BY <1>1, CallsKept, TypeCorrect, PTL DEF Spec

\* Where the builder names each missing row, an answer none of whose source
\* calls failed has every row of the request the sources have.
THEOREM Complete == Spec => []DatedComplete
  <1>1. CallsInv => DatedComplete
    BY DEF CallsInv, CallInv, HoldsFull, Full, NamesEach, DatedComplete, AsksEach
  <1>2. QED
    BY <1>1, CallsAlways, PTL

\* No answer holds a row that was not asked for.
THEOREM AskedFor == Spec => []AnswersAskedFor
  <1>1. CallsInv => AnswersAskedFor
    BY DEF CallsInv, CallInv, HoldsAsked, Asked, AnswersAskedFor
  <1>2. QED
    BY <1>1, CallsAlways, PTL

\* A capability of the fact tables whose writer keeps all it is given only
\* answers with stored rows, and so does a query for factors in which a source
\* failed.
THEOREM Stored == Spec => []AnswersAreStored
  <1>1. CallsInv => AnswersAreStored
    BY DEF CallsInv, CallInv, HoldsStored, Solid, AnswersAreStored
  <1>2. QED
    BY <1>1, CallsAlways, PTL

-----------------------------------------------------------------------------
(* The pure functions of QueryAlgorithms, of which every fold from the     *)
(* left takes the places of its list one after the other.                  *)

\* The places of a sequence, the last one first, as FoldLeft picks them.
Latest(n) == [s \in SUBSET (1..n) |-> Max(s)]

LEMMA LatestIsLargest ==
    ASSUME NEW n \in Nat
    PROVE  Largest(Latest(n), n) /\ Picks(Latest(n), 1..n) /\ IsFiniteSet(1..n)
           /\ \A s \in SUBSET (1..n) : Latest(n)[s] = Max(s)
<1>1. ASSUME NEW s \in SUBSET (1..n), s # {}
      PROVE  Max(s) \in s /\ \A y \in s : Max(s) >= y
  <2>1. s \in SUBSET (0..n) /\ \A y \in s : y \in Nat
    OBVIOUS
  <2>2. \E m \in s : \A y \in s : y <= m
    BY <1>1, <2>1, GreatestOf
  <2>3. \E m \in s : \A y \in s : m >= y
    BY <2>1, <2>2
  <2> QED BY <2>3 DEF Max
<1>2. \A s \in SUBSET (1..n) : Latest(n)[s] = Max(s)
  BY DEF Latest
<1>3. IsFiniteSet(1..n)
  BY FS_Interval
<1> QED BY <1>1, <1>2, <1>3 DEF Largest, Picks

-----------------------------------------------------------------------------
(* The merged lists.                                                       *)

Merging == [merged : Seq(RowItem), given : Nat, added : Nat, filled : Nat, conflicts : Nat]
NoMerge(high) == [merged |-> high, given |-> Len(high), added |-> 0, filled |-> 0, conflicts |-> 0]

LEMMA MinIs ==
    ASSUME NEW S \in SUBSET Nat, S # {}
    PROVE  Min(S) \in S /\ \A x \in S : Min(S) <= x
<1>1. \E m \in S : \A y \in S : m <= y
  BY LeastOf
<1> QED BY <1>1 DEF Min

LEMMA ItemsTyped ==
    ASSUME NEW list \in Seq(RowItem)
    PROVE  Len(list) \in Nat /\ DOMAIN list = 1..Len(list) /\ \A n \in DOMAIN list : list[n] \in RowItem
  OBVIOUS

\* What becomes of an item: the row that has its key, or a new one.
FillRow(own, more) == [f \in Fields |-> IF own[f] = NoValue THEN more[f] ELSE own[f]]
Refilled(merged, n, own) == [merged EXCEPT ![n] = [key |-> merged[n].key, row |-> own]]

LEMMA MergeItemIs ==
    ASSUME NEW acc \in Merging, NEW item \in RowItem
    PROVE  /\ MergeItem(acc, item) \in Merging
           /\ Places(acc.merged, item.key) = {} => MergeItem(acc, item).merged = Append(acc.merged, item)
           /\ Places(acc.merged, item.key) # {} =>
                \E n \in Places(acc.merged, item.key) :
                   MergeItem(acc, item).merged = Refilled(acc.merged, n, FillRow(acc.merged[n].row, item.row))
<1> DEFINE list == acc.merged
           key == item.key
<1>1. list \in Seq(RowItem) /\ acc.given \in Nat /\ acc.added \in Nat /\ acc.filled \in Nat /\ acc.conflicts \in Nat
  BY DEF Merging
<1>2. DOMAIN list = 1..Len(list) /\ Len(list) \in Nat /\ \A n \in DOMAIN list : list[n] \in RowItem
  BY <1>1, ItemsTyped
<1>3. CASE Places(list, key) = {}
  <2>1. MergeItem(acc, item) = [acc EXCEPT !.merged = Append(@, item), !.added = @ + 1]
    BY <1>3 DEF MergeItem
  <2>2. Append(list, item) \in Seq(RowItem) /\ acc.added + 1 \in Nat
    BY <1>1
  <2> QED BY <1>3, <2>1, <2>2 DEF Merging
<1>4. CASE Places(list, key) # {}
  <2> DEFINE n == PlaceOf(list, key)
             own == list[n].row
             more == FillRow(own, item.row)
             new == Refilled(list, n, more)
  <2>1. n \in Places(list, key) /\ n \in DOMAIN list
    <3> DEFINE s == Places(list, key)
               N == Len(list)
    <3>1. s \in SUBSET (1..N) /\ s # {} /\ N \in Nat
      BY <1>2, <1>4 DEF Places
    <3> HIDE DEF s, N
    <3>2. Max(s) \in s
      BY <3>1, LatestIsLargest DEF Largest
    <3> QED BY <1>2, <3>1, <3>2 DEF PlaceOf, s, N
  <2>2. list[n] \in RowItem /\ list[n].key \in Keys /\ own \in [Fields -> Values \cup {NoValue}]
        /\ item.row \in [Fields -> Values \cup {NoValue}] /\ list[n] = [key |-> list[n].key, row |-> own]
    BY <1>2, <2>1 DEF RowItem
  <2> HIDE DEF n, own
  <2>3. more \in [Fields -> Values \cup {NoValue}]
    BY <2>2 DEF FillRow
  <2>4. new \in Seq(RowItem)
    <3>1. [key |-> list[n].key, row |-> more] \in RowItem
      BY <2>2, <2>3 DEF RowItem
    <3> HIDE DEF more, list
    <3> QED BY <1>1, <2>1, <3>1 DEF Refilled
  <2>5. [list EXCEPT ![n].row = more] = new
    BY <2>1, <2>2 DEF Refilled
  <2> DEFINE f == Cardinality(Filled(own, item.row))
             c == Cardinality(Conflicts(own, item.row))
  <2>6. f \in Nat /\ c \in Nat
    <3>1. Filled(own, item.row) \in SUBSET Fields /\ Conflicts(own, item.row) \in SUBSET Fields
      BY DEF Filled, Conflicts
    <3> QED BY <3>1, AlgorithmAssumption, FS_Subset, FS_CardinalityType DEF AlgorithmAssumption
  <2>7. MergeItem(acc, item) = [acc EXCEPT !.merged[n].row = more, !.filled = @ + f, !.conflicts = @ + c]
    BY <1>4 DEF MergeItem, FillRow, n, own
  <2> HIDE DEF f, c, more
  <2>8. MergeItem(acc, item) = [acc EXCEPT !.merged = new, !.filled = @ + f, !.conflicts = @ + c]
    BY <2>5, <2>7
  <2> HIDE DEF new
  <2>9. acc.filled + f \in Nat /\ acc.conflicts + c \in Nat
    BY <1>1, <2>6
  <2>10. MergeItem(acc, item) \in Merging /\ MergeItem(acc, item).merged = new
    BY <2>4, <2>8, <2>9 DEF Merging
  <2> QED BY <1>4, <2>1, <2>10 DEF new, more, own
<1> QED BY <1>3, <1>4

\* The merge, item by item.
MergeRun(f, high, low) ==
    /\ f \in [0..Len(low) -> Merging] /\ f[0] = NoMerge(high)
    /\ \A i \in 1..Len(low) : f[i] = MergeItem(f[i - 1], low[i])

LEMMA MergeRuns ==
    ASSUME NEW high \in Seq(RowItem), NEW low \in Seq(RowItem)
    PROVE  \E f : MergeRun(f, high, low) /\ f[Len(low)] = MergeLists(high, low)
<1> DEFINE n == Len(low)
           D == 1..n
           V == Merging
           base == NoMerge(high)
           pick == Latest(n)
           step == [y \in V \X D |-> MergeItem(y[1], low[y[2]])]
           Sum(g) == g = [s \in SUBSET D |->
                           IF s = {} THEN base
                           ELSE MergeItem(g[s \ {Max(s)}], low[Max(s)])]
           it == CHOOSE g : Sum(g)
<1>0. n \in Nat /\ DOMAIN low = D /\ \A i \in D : low[i] \in RowItem
  BY ItemsTyped
<1>1. Largest(pick, n) /\ Picks(pick, D) /\ IsFiniteSet(D) /\ \A s \in SUBSET D : pick[s] = Max(s)
  <2> HIDE DEF n
  <2> QED BY <1>0, LatestIsLargest
<1>2. ASSUME NEW v \in V, NEW x \in D
      PROVE  step[<<v, x>>] = MergeItem(v, low[x]) /\ step[<<v, x>>] \in V
  <2>1. MergeItem(v, low[x]) \in V
    BY <1>0, MergeItemIs
  <2> QED BY <2>1
<1>3. base \in V
  BY ItemsTyped DEF NoMerge, Merging
<1>4. StepsIn(V, D, step)
  BY <1>2 DEF StepsIn
<1>5. PICK g \in [SUBSET D -> V] : Iterates(g, D, base, step, pick)
  <2> HIDE DEF D, n, pick, step, V, base
  <2> QED BY <1>1, <1>3, <1>4, IteratorExists
<1>6. Sum(g)
  <2>1. ASSUME NEW s \in SUBSET D, s # {}
        PROVE  g[s] = MergeItem(g[s \ {Max(s)}], low[Max(s)])
    <3>1. pick[s] = Max(s) /\ pick[s] \in D /\ s \ {pick[s]} \in SUBSET D
      BY <1>1, <2>1 DEF Picks
    <3> HIDE DEF step, pick, D, n, V, base
    <3>2. g[s] = step[<<g[s \ {pick[s]}], pick[s]>>] /\ g[s \ {pick[s]}] \in V
      BY <1>5, <2>1, <3>1 DEF Iterates
    <3> QED BY <1>2, <3>1, <3>2
  <2>2. \A s \in SUBSET D : g[s] = IF s = {} THEN base
                           ELSE MergeItem(g[s \ {Max(s)}], low[Max(s)])
    <3> HIDE DEF step, pick, D, n, V, base
    <3> QED BY <1>5, <2>1 DEF Iterates
  <2> HIDE DEF base
  <2> QED BY <2>2, Zenon
<1>7. Sum(it)
  <2> HIDE DEF Sum
  <2> QED BY <1>6
<1>8. MergeLists(high, low) = it[D]
  BY <1>0 DEF MergeLists, NoMerge, FoldLeft, MapThenFoldSet
<1> HIDE DEF base
<1>9. Folded(it, n, V, base, step, pick)
  <2>1. it[{}] = base
    BY <1>7, Zenon
  <2>2. ASSUME NEW s \in SUBSET D, s # {}, it[s \ {pick[s]}] \in V
        PROVE  it[s] = step[<<it[s \ {pick[s]}], pick[s]>>]
    <3>1. it[s] = MergeItem(it[s \ {Max(s)}], low[Max(s)])
      BY <1>7, <2>2, Zenon
    <3>2. pick[s] \in D /\ pick[s] = Max(s)
      BY <1>1, <2>2 DEF Picks
    <3> HIDE DEF it, step, pick, D, n, V
    <3> QED BY <1>2, <2>2, <3>1, <3>2
  <2> HIDE DEF it, step, pick, V
  <2> QED BY <2>1, <2>2 DEF Folded
<1>10. \E f : LeftRun(f, n, V, base, step) /\ f[n] = it[1..n]
  <2> HIDE DEF it, step, pick, n, V
  <2> QED BY <1>0, <1>1, <1>3, <1>4, <1>9, LeftFold
<1>11. PICK f : LeftRun(f, n, V, base, step) /\ f[n] = it[1..n]
  BY <1>10
<1>12. MergeRun(f, high, low)
  <2>1. ASSUME NEW i \in D PROVE f[i] = MergeItem(f[i - 1], low[i])
    <3>1. i - 1 \in 0..n
      OBVIOUS
    <3> HIDE DEF step, D, n, V
    <3>2. f[i - 1] \in V /\ f[i] = step[<<f[i - 1], i>>]
      BY <1>11, <3>1 DEF LeftRun, D
    <3> QED BY <1>2, <3>2
  <2> HIDE DEF step
  <2> QED BY <1>11, <2>1 DEF LeftRun, MergeRun, base
<1>13. f[Len(low)] = MergeLists(high, low)
  BY <1>8, <1>11
<1> HIDE DEF it, step, pick
<1> QED BY <1>12, <1>13

\* The first value of a field up to a place.
Having(all, key, f, j) == {n \in 1..j : all[n].key = key /\ all[n].row[f] # NoValue}
FirstUpto(all, key, f, j) ==
    IF Having(all, key, f, j) = {} THEN NoValue ELSE all[Min(Having(all, key, f, j))].row[f]

LEMMA FirstUptoStep ==
    ASSUME NEW all, NEW key, NEW f, NEW j \in Nat, j >= 1
    PROVE  FirstUpto(all, key, f, j) = IF all[j].key = key /\ FirstUpto(all, key, f, j - 1) = NoValue
                                       THEN all[j].row[f] ELSE FirstUpto(all, key, f, j - 1)
<1> DEFINE old == Having(all, key, f, j - 1)
           new == Having(all, key, f, j)
<1>1. \A n : n \in 1..j <=> n \in 1..(j - 1) \/ n = j
  OBVIOUS
<1>2. new = IF all[j].key = key /\ all[j].row[f] # NoValue THEN old \cup {j} ELSE old
  BY <1>1 DEF Having
<1>3. old \in SUBSET Nat /\ new \in SUBSET Nat /\ (\A n \in old : n < j /\ all[n].key = key /\ all[n].row[f] # NoValue)
  BY DEF Having
<1>4. FirstUpto(all, key, f, j - 1) = (IF old = {} THEN NoValue ELSE all[Min(old)].row[f])
      /\ FirstUpto(all, key, f, j) = IF new = {} THEN NoValue ELSE all[Min(new)].row[f]
  BY DEF FirstUpto
<1> HIDE DEF old, new
<1>5. CASE old = {}
  <2>1. CASE all[j].key = key /\ all[j].row[f] # NoValue
    <3>1. new = {j}
      BY <1>2, <1>5, <2>1
    <3>2. Min(new) = j
      BY <1>3, <3>1, MinIs
    <3> QED BY <1>4, <1>5, <2>1, <3>1, <3>2
  <2>2. CASE ~(all[j].key = key /\ all[j].row[f] # NoValue)
    BY <1>2, <1>4, <1>5, <2>2
  <2> QED BY <2>1, <2>2
<1>6. CASE old # {}
  <2>1. Min(old) \in old /\ \A n \in old : Min(old) <= n
    BY <1>3, <1>6, MinIs
  <2>2. Min(new) \in new /\ \A n \in new : Min(new) <= n
    BY <1>2, <1>3, <1>6, MinIs
  <2>3. Min(old) \in new /\ Min(old) < j /\ Min(old) \in Nat /\ Min(new) \in Nat
    BY <1>2, <1>3, <2>1, <2>2
  <2>4. Min(new) \in old
    BY <1>2, <2>2, <2>3
  <2>5. Min(new) = Min(old)
    BY <2>1, <2>2, <2>3, <2>4
  <2>6. all[Min(old)].row[f] # NoValue
    BY <1>3, <2>1
  <2> QED BY <1>2, <1>4, <1>6, <2>5, <2>6
<1> QED BY <1>5, <1>6

FirstPlace(all, key) == Min(Places(all, key))

\* The list merged so far is that of the rows up to a place.
MergedUpto(merged, all, j) ==
    /\ Distinct(merged)
    /\ KeysOf(merged) = {all[n].key : n \in 1..j}
    /\ \A n, m \in DOMAIN merged : n < m => FirstPlace(all, merged[n].key) < FirstPlace(all, merged[m].key)
    /\ \A n \in DOMAIN merged, f \in Fields : merged[n].row[f] = FirstUpto(all, merged[n].key, f, j)

LEMMA FirstPlaceIs ==
    ASSUME NEW all \in Seq(RowItem), NEW n \in DOMAIN all
    PROVE  /\ FirstPlace(all, all[n].key) \in DOMAIN all
           /\ all[FirstPlace(all, all[n].key)].key = all[n].key
           /\ FirstPlace(all, all[n].key) <= n
           /\ FirstPlace(all, all[n].key) \in Nat
<1> DEFINE s == Places(all, all[n].key)
<1>1. n \in s /\ s \in SUBSET Nat /\ \A m \in s : m \in DOMAIN all /\ all[m].key = all[n].key
  BY ItemsTyped DEF Places
<1> HIDE DEF s
<1>2. Min(s) \in s /\ \A m \in s : Min(s) <= m
  BY <1>1, MinIs
<1> QED BY <1>1, <1>2 DEF FirstPlace, s

\* A row with a new key goes to the end.
LEMMA NewKeyMerges ==
    ASSUME NEW all \in Seq(RowItem), NEW j \in DOMAIN all, NEW merged \in Seq(RowItem),
           MergedUpto(merged, all, j - 1), Places(merged, all[j].key) = {}
    PROVE  MergedUpto(Append(merged, all[j]), all, j)
<1> DEFINE key == all[j].key
           new == Append(merged, all[j])
           L == Len(merged)
<1>1. L \in Nat /\ DOMAIN merged = 1..L /\ \A n \in 1..L : merged[n] \in RowItem
  BY ItemsTyped
<1>2. DOMAIN new = 1..(L + 1) /\ new[L + 1] = all[j] /\ \A n \in 1..L : new[n] = merged[n]
  BY <1>1, ItemsTyped
<1>3. \A n \in 1..(L + 1) : n \in 1..L \/ n = L + 1
  BY <1>1
<1>4. j \in Nat /\ j >= 1 /\ j <= Len(all) /\ DOMAIN all = 1..Len(all) /\ Len(all) \in Nat
  BY ItemsTyped
<1>5. \A n \in 1..L : merged[n].key # key
  BY <1>1 DEF Places
<1>6. KeysOf(merged) = {all[n].key : n \in 1..(j - 1)}
  BY DEF MergedUpto
<1>7. \A n \in 1..(j - 1) : all[n].key # key
  <2>1. key \notin KeysOf(merged)
    BY <1>1, <1>5 DEF KeysOf
  <2> QED BY <1>6, <2>1
<1> HIDE DEF new
<1>8. Distinct(new)
  <2> SUFFICES ASSUME NEW n \in 1..(L + 1), NEW m \in 1..(L + 1), new[n].key = new[m].key PROVE n = m
    BY <1>2 DEF Distinct
  <2>1. CASE n \in 1..L /\ m \in 1..L
    BY <1>1, <1>2, <2>1 DEF MergedUpto, Distinct
  <2>2. CASE ~(n \in 1..L /\ m \in 1..L)
    BY <1>2, <1>3, <1>5, <2>2
  <2> QED BY <2>1, <2>2
<1>9. KeysOf(new) = {all[n].key : n \in 1..j}
  <2>1. KeysOf(new) = KeysOf(merged) \cup {key}
    <3>1. \A n : n \in 1..(L + 1) <=> n \in 1..L \/ n = L + 1
      BY <1>1
    <3> HIDE DEF L
    <3> QED BY <1>1, <1>2, <3>1 DEF KeysOf
  <2>2. \A n : n \in 1..j <=> n \in 1..(j - 1) \/ n = j
    BY <1>4
  <2> QED BY <1>6, <2>1, <2>2
<1>10. ASSUME NEW n \in DOMAIN new, NEW m \in DOMAIN new, n < m
       PROVE  FirstPlace(all, new[n].key) < FirstPlace(all, new[m].key)
  <2>1. n \in 1..L
    BY <1>1, <1>2, <1>10
  <2>2. CASE m \in 1..L
    BY <1>1, <1>2, <1>10, <2>1, <2>2 DEF MergedUpto
  <2>3. CASE m = L + 1
    <3>1. FirstPlace(all, key) \in DOMAIN all /\ all[FirstPlace(all, key)].key = key /\ FirstPlace(all, key) \in Nat
      BY FirstPlaceIs
    <3>2. FirstPlace(all, key) \notin 1..(j - 1)
      BY <1>7, <3>1
    <3>3. FirstPlace(all, key) >= j
      BY <1>4, <3>1, <3>2
    <3>4. merged[n].key \in KeysOf(merged)
      BY <1>1, <2>1 DEF KeysOf
    <3>5. PICK p \in 1..(j - 1) : merged[n].key = all[p].key
      BY <1>6, <3>4
    <3>6. p \in DOMAIN all /\ p < j /\ p \in Int
      BY <1>4, <3>5
    <3>7. FirstPlace(all, all[p].key) <= p /\ FirstPlace(all, all[p].key) \in Nat
      BY <3>6, FirstPlaceIs
    <3>8. FirstPlace(all, merged[n].key) < FirstPlace(all, key)
      BY <1>4, <3>1, <3>3, <3>5, <3>6, <3>7
    <3> QED BY <1>2, <2>1, <2>3, <3>8
  <2> QED BY <1>2, <1>3, <2>2, <2>3
<1>11. ASSUME NEW n \in DOMAIN new, NEW f \in Fields
       PROVE  new[n].row[f] = FirstUpto(all, new[n].key, f, j)
  <2>1. CASE n \in 1..L
    <3>1. merged[n].row[f] = FirstUpto(all, merged[n].key, f, j - 1)
      BY <1>1, <2>1 DEF MergedUpto
    <3>2. FirstUpto(all, merged[n].key, f, j) = FirstUpto(all, merged[n].key, f, j - 1)
      <4> DEFINE k == merged[n].key
      <4>1. all[j].key # k
        BY <1>5, <2>1
      <4> HIDE DEF k
      <4>2. FirstUpto(all, k, f, j) = FirstUpto(all, k, f, j - 1)
        BY <1>4, <4>1, FirstUptoStep
      <4> QED BY <4>2 DEF k
    <3> QED BY <1>2, <2>1, <3>1, <3>2
  <2>2. CASE n = L + 1
    <3>1. Having(all, key, f, j - 1) = {}
      BY <1>7 DEF Having
    <3>2. FirstUpto(all, key, f, j - 1) = NoValue
      BY <3>1 DEF FirstUpto
    <3> HIDE DEF key
    <3>3. FirstUpto(all, key, f, j) = IF all[j].key = key /\ FirstUpto(all, key, f, j - 1) = NoValue
                                       THEN all[j].row[f] ELSE FirstUpto(all, key, f, j - 1)
      BY <1>4, FirstUptoStep
    <3> QED BY <1>2, <2>2, <3>2, <3>3 DEF key
  <2> QED BY <1>2, <1>3, <2>1, <2>2
<1> QED BY <1>8, <1>9, <1>10, <1>11 DEF MergedUpto, new

\* A row with a key that is there fills the row that has it.
LEMMA OldKeyMerges ==
    ASSUME NEW all \in Seq(RowItem), NEW j \in DOMAIN all, NEW merged \in Seq(RowItem),
           MergedUpto(merged, all, j - 1), NEW n \in Places(merged, all[j].key)
    PROVE  MergedUpto(Refilled(merged, n, FillRow(merged[n].row, all[j].row)), all, j)
<1> DEFINE key == all[j].key
           more == FillRow(merged[n].row, all[j].row)
           new == Refilled(merged, n, more)
<1>1. n \in DOMAIN merged /\ merged[n].key = key
  BY DEF Places
<1>2. DOMAIN new = DOMAIN merged /\ (\A m \in DOMAIN merged : new[m].key = merged[m].key)
      /\ (\A m \in DOMAIN merged : m # n => new[m] = merged[m]) /\ new[n].row = more
  BY <1>1 DEF Refilled
<1>3. j \in Nat /\ j >= 1
  BY ItemsTyped
<1>4. \A f \in Fields : more[f] = IF merged[n].row[f] = NoValue THEN all[j].row[f] ELSE merged[n].row[f]
  BY DEF FillRow
<1> HIDE DEF more, new
<1>5. KeysOf(new) = KeysOf(merged) /\ KeysOf(merged) = {all[m].key : m \in 1..(j - 1)} /\ key \in KeysOf(merged)
  BY <1>1, <1>2 DEF KeysOf, MergedUpto
<1>6. KeysOf(new) = {all[m].key : m \in 1..j}
  <2>1. \A m : m \in 1..j <=> m \in 1..(j - 1) \/ m = j
    BY <1>3
  <2> QED BY <1>5, <2>1
<1>7. Distinct(new)
  BY <1>2 DEF MergedUpto, Distinct
<1>8. \A m, p \in DOMAIN new : m < p => FirstPlace(all, new[m].key) < FirstPlace(all, new[p].key)
  BY <1>2 DEF MergedUpto
<1>9. ASSUME NEW m \in DOMAIN new, NEW f \in Fields
      PROVE  new[m].row[f] = FirstUpto(all, new[m].key, f, j)
  <2> DEFINE k == merged[m].key
  <2>1. merged[m].row[f] = FirstUpto(all, k, f, j - 1) /\ new[m].key = k
    BY <1>2 DEF MergedUpto
  <2>2. k = key => m = n
    BY <1>1, <1>2 DEF MergedUpto, Distinct
  <2>3. m = n => k = key
    BY <1>1
  <2> HIDE DEF k, key
  <2>4. FirstUpto(all, k, f, j) = IF all[j].key = k /\ FirstUpto(all, k, f, j - 1) = NoValue
                                  THEN all[j].row[f] ELSE FirstUpto(all, k, f, j - 1)
    BY <1>3, FirstUptoStep
  <2>5. CASE m = n
    BY <1>2, <1>4, <2>1, <2>3, <2>4, <2>5 DEF key
  <2>6. CASE m # n
    BY <1>2, <2>1, <2>2, <2>4, <2>6 DEF key
  <2> QED BY <2>5, <2>6
<1> QED BY <1>6, <1>7, <1>8, <1>9 DEF MergedUpto, new, more

\* A high list without duplicate keys is merged as it stands.
LEMMA HighIsMerged ==
    ASSUME NEW high \in Seq(RowItem), NEW low \in Seq(RowItem), Distinct(high)
    PROVE  MergedUpto(high, high \o low, Len(high))
<1> DEFINE all == high \o low
           H == Len(high)
<1>1. H \in Nat /\ DOMAIN high = 1..H /\ Len(low) \in Nat
  BY ItemsTyped
<1>2. all \in Seq(RowItem) /\ Len(all) = H + Len(low) /\ \A n \in 1..H : all[n] = high[n]
  OBVIOUS
<1>3. DOMAIN all = 1..Len(all) /\ \A n \in 1..H : n \in DOMAIN all
  BY <1>1, <1>2, ItemsTyped
<1> HIDE DEF all, H
<1>4. ASSUME NEW n \in 1..H PROVE FirstPlace(all, high[n].key) = n
  <2>1. FirstPlace(all, all[n].key) \in DOMAIN all /\ all[FirstPlace(all, all[n].key)].key = all[n].key
        /\ FirstPlace(all, all[n].key) <= n /\ FirstPlace(all, all[n].key) \in Nat
    BY <1>2, <1>3, FirstPlaceIs
  <2>2. FirstPlace(all, all[n].key) \in 1..H
    BY <1>1, <1>3, <2>1
  <2> QED BY <1>1, <1>2, <2>1, <2>2 DEF Distinct
<1>5. KeysOf(high) = {all[n].key : n \in 1..H}
  BY <1>1, <1>2 DEF KeysOf
<1>6. \A n, m \in DOMAIN high : n < m => FirstPlace(all, high[n].key) < FirstPlace(all, high[m].key)
  BY <1>1, <1>4
<1>7. ASSUME NEW n \in DOMAIN high, NEW f \in Fields
      PROVE  high[n].row[f] = FirstUpto(all, high[n].key, f, H)
  <2> DEFINE has == Having(all, high[n].key, f, H)
  <2>1. \A m : m \in has <=> m = n /\ high[n].row[f] # NoValue
    <3>1. \A m \in 1..H : all[m].key = high[n].key => m = n
      BY <1>1, <1>2, <1>7 DEF Distinct
    <3> QED BY <1>1, <1>2, <1>7, <3>1 DEF Having
  <2>2. n \in Nat
    BY <1>1, <1>7
  <2>3. FirstUpto(all, high[n].key, f, H) = IF has = {} THEN NoValue ELSE all[Min(has)].row[f]
    BY DEF FirstUpto
  <2> HIDE DEF has
  <2>4. CASE high[n].row[f] = NoValue
    BY <2>1, <2>3, <2>4
  <2>5. CASE high[n].row[f] # NoValue
    <3>1. has # {} /\ has \in SUBSET Nat
      BY <2>1, <2>2, <2>5
    <3>2. Min(has) = n
      BY <2>1, <3>1, MinIs
    <3> QED BY <1>1, <1>2, <1>7, <2>3, <3>1, <3>2
  <2> QED BY <2>4, <2>5
<1> QED BY <1>5, <1>6, <1>7 DEF MergedUpto, all, H

LEMMA MergeIsByPriority ==
    ASSUME NEW high \in Seq(RowItem), NEW low \in Seq(RowItem), Distinct(high)
    PROVE  /\ MergeLists(high, low).merged \in Seq(RowItem)
           /\ MergedUpto(MergeLists(high, low).merged, high \o low, Len(high \o low))
<1> DEFINE all == high \o low
           H == Len(high)
<1>1. H \in Nat /\ Len(low) \in Nat
  BY ItemsTyped
<1>2. all \in Seq(RowItem) /\ Len(all) = H + Len(low) /\ \A i \in 1..Len(low) : all[H + i] = low[i]
  OBVIOUS
<1>3. DOMAIN all = 1..Len(all)
  BY <1>2, ItemsTyped
<1> HIDE DEF all, H
<1>4. PICK f : MergeRun(f, high, low) /\ f[Len(low)] = MergeLists(high, low)
  BY MergeRuns
<1> DEFINE T == {i \in Nat : i <= Len(low) => MergedUpto(f[i].merged, all, H + i)}
<1>5. 0 \in T
  <2>1. f[0].merged = high /\ H + 0 = H
    BY <1>1, <1>4 DEF MergeRun, NoMerge
  <2>2. MergedUpto(high, all, H)
    BY HighIsMerged DEF all, H
  <2> QED BY <2>1, <2>2
<1>6. ASSUME NEW i \in Nat, i \in T PROVE i + 1 \in T
  <2> SUFFICES ASSUME i + 1 <= Len(low) PROVE MergedUpto(f[i + 1].merged, all, H + (i + 1))
    OBVIOUS
  <2> DEFINE k == i + 1
             j == H + k
  <2>1. k \in 1..Len(low) /\ k - 1 = i /\ i \in 0..Len(low) /\ j - 1 = H + i /\ j \in 1..Len(all)
        /\ MergedUpto(f[i].merged, all, H + i)
    BY <1>1, <1>2, <1>6
  <2>2. f[i] \in Merging /\ f[k] = MergeItem(f[i], low[k])
    <3> HIDE DEF k
    <3> QED BY <1>4, <2>1 DEF MergeRun
  <2>3. low[k] = all[j] /\ j \in DOMAIN all /\ all[j] \in RowItem
    <3>1. low[k] = all[j] /\ j \in DOMAIN all
      BY <1>2, <1>3, <2>1
    <3> HIDE DEF j
    <3> QED BY <1>2, <3>1, ItemsTyped
  <2> HIDE DEF T, k, j
  <2> DEFINE acc == f[i]
             merged == acc.merged
             item == all[j]
  <2>4. merged \in Seq(RowItem) /\ MergedUpto(merged, all, j - 1)
    BY <2>1, <2>2 DEF Merging
  <2>5. CASE Places(merged, item.key) = {}
    <3>1. MergeItem(acc, item).merged = Append(merged, item)
      <4> HIDE DEF acc, item
      <4>1. acc \in Merging /\ item \in RowItem
        BY <2>2, <2>3 DEF acc, item
      <4> QED BY <2>5, <4>1, MergeItemIs
    <3>2. MergedUpto(Append(merged, all[j]), all, j)
      <4> HIDE DEF merged
      <4> QED BY <1>2, <2>3, <2>4, <2>5, NewKeyMerges
    <3> QED BY <2>2, <2>3, <3>1, <3>2 DEF j, k
  <2>6. CASE Places(merged, item.key) # {}
    <3>1. \E n \in Places(merged, item.key) :
             MergeItem(acc, item).merged = Refilled(merged, n, FillRow(merged[n].row, item.row))
      <4> HIDE DEF acc, item
      <4>1. acc \in Merging /\ item \in RowItem
        BY <2>2, <2>3 DEF acc, item
      <4> QED BY <2>6, <4>1, MergeItemIs
    <3>2. PICK n \in Places(merged, item.key) :
             MergeItem(acc, item).merged = Refilled(merged, n, FillRow(merged[n].row, item.row))
      BY <3>1
    <3>3. MergedUpto(Refilled(merged, n, FillRow(merged[n].row, all[j].row)), all, j)
      <4> HIDE DEF merged
      <4> QED BY <1>2, <2>3, <2>4, <3>2, OldKeyMerges
    <3> QED BY <2>2, <2>3, <3>2, <3>3 DEF j, k
  <2> QED BY <2>5, <2>6
<1>7. \A i \in Nat : i \in T
  <2> HIDE DEF T
  <2> QED BY <1>5, <1>6, ByInduction
<1>8. MergedUpto(f[Len(low)].merged, all, Len(all))
  <2>1. Len(low) \in T
    <3> HIDE DEF T
    <3> QED BY <1>1, <1>7
  <2>2. \A n \in Nat : n <= n
    OBVIOUS
  <2> QED BY <1>1, <1>2, <2>1, <2>2
<1>9. f[Len(low)] \in Merging
  BY <1>1, <1>4 DEF MergeRun
<1> QED BY <1>4, <1>8, <1>9 DEF all, Merging

\* In the terms of the property.
MergedAs(merged, all) ==
    /\ Distinct(merged) /\ KeysOf(merged) = KeysOf(all)
    /\ \A n, m \in DOMAIN merged : n < m =>
          Min(Places(all, merged[n].key)) < Min(Places(all, merged[m].key))
    /\ \A n \in DOMAIN merged, f \in Fields :
          merged[n].row[f] = FirstValue(all, merged[n].key, f)

LEMMA MergeResult ==
    ASSUME NEW high \in Seq(RowItem), NEW low \in Seq(RowItem), Distinct(high)
    PROVE  MergedAs(MergeLists(high, low).merged, high \o low)
<1> DEFINE all == high \o low
           merged == MergeLists(high, low).merged
<1>1. all \in Seq(RowItem)
  OBVIOUS
<1>2. MergedUpto(merged, all, Len(all))
  BY MergeIsByPriority
<1> HIDE DEF all, merged
<1>3. DOMAIN all = 1..Len(all)
  BY <1>1, ItemsTyped
<1>4. KeysOf(all) = {all[n].key : n \in 1..Len(all)}
  BY <1>3 DEF KeysOf
<1>5. \A key, f : FirstUpto(all, key, f, Len(all)) = FirstValue(all, key, f)
  BY <1>3 DEF FirstUpto, Having, FirstValue
<1> QED BY <1>2, <1>4, <1>5 DEF MergedUpto, MergedAs, FirstPlace, all, merged

-----------------------------------------------------------------------------
(* The order of the steps.                                                 *)

AllSteps == ToSet(Steps)
NoRepeat(list) == \A n, m \in DOMAIN list : n < m => list[n] # list[m]
AddStep(list, s, wanted) == IF s \in wanted \ ToSet(list) THEN Append(list, s) ELSE list

\* A list, and after it the steps that are wanted and are not in it.
Extends(list, ordered, wanted) ==
    /\ list \in Seq(AllSteps) /\ Len(ordered) <= Len(list)
    /\ \A n \in 1..Len(ordered) : list[n] = ordered[n]
    /\ ToSet(list) = ToSet(ordered) \cup wanted
    /\ NoRepeat(list)

LEMMA AddStepExtends ==
    ASSUME NEW list, NEW ordered \in Seq(AllSteps), NEW s \in AllSteps, NEW wanted, NEW taken \in SUBSET AllSteps,
           Extends(list, ordered, wanted \cap taken)
    PROVE  Extends(AddStep(list, s, wanted), ordered, wanted \cap (taken \cup {s}))
<1>1. CASE s \in wanted \ ToSet(list)
  <2> DEFINE new == Append(list, s)
             L == Len(list)
  <2>1. list \in Seq(AllSteps) /\ L \in Nat /\ DOMAIN list = 1..L
    BY DEF Extends
  <2>2. new \in Seq(AllSteps) /\ Len(new) = L + 1 /\ DOMAIN new = 1..(L + 1)
        /\ new[L + 1] = s /\ \A n \in 1..L : new[n] = list[n]
    BY <2>1
  <2> HIDE DEF new
  <2>3. \A n \in 1..L : new[n] # s
    BY <1>1, <2>1, <2>2 DEF ToSet
  <2>4. ToSet(new) = ToSet(list) \cup {s}
    <3>1. \A n : n \in 1..(L + 1) <=> n \in 1..L \/ n = L + 1
      BY <2>1
    <3> HIDE DEF L
    <3> QED BY <2>1, <2>2, <3>1 DEF ToSet
  <2>5. NoRepeat(new)
    <3> SUFFICES ASSUME NEW n \in DOMAIN new, NEW m \in DOMAIN new, n < m PROVE new[n] # new[m]
      BY DEF NoRepeat
    <3>1. n \in 1..L
      BY <2>1, <2>2
    <3>2. CASE m = L + 1
      BY <2>2, <2>3, <3>1, <3>2
    <3>3. CASE m \in 1..L
      BY <2>1, <2>2, <3>1, <3>3 DEF Extends, NoRepeat
    <3> QED BY <2>1, <2>2, <3>2, <3>3
  <2>6. Len(ordered) <= Len(new) /\ \A n \in 1..Len(ordered) : new[n] = ordered[n]
    <3>1. Len(ordered) \in Nat /\ Len(ordered) <= L
      BY DEF Extends
    <3>2. \A n \in 1..Len(ordered) : n \in 1..L /\ list[n] = ordered[n]
      BY <2>1, <3>1 DEF Extends
    <3> QED BY <2>1, <2>2, <3>1, <3>2
  <2>7. ToSet(new) = ToSet(ordered) \cup (wanted \cap (taken \cup {s}))
    BY <1>1, <2>4 DEF Extends
  <2>8. AddStep(list, s, wanted) = new
    BY <1>1 DEF AddStep, new
  <2> QED BY <2>2, <2>5, <2>6, <2>7, <2>8 DEF Extends
<1>2. CASE s \notin wanted \ ToSet(list)
  <2>1. AddStep(list, s, wanted) = list
    BY <1>2 DEF AddStep
  <2>2. ToSet(list) = ToSet(ordered) \cup (wanted \cap (taken \cup {s}))
    BY <1>2 DEF Extends
  <2> QED BY <2>1, <2>2 DEF Extends
<1> QED BY <1>1, <1>2

\* AppendNew, step by step.
AppendRun(f, ordered, wanted) ==
    /\ f \in [0..Len(Steps) -> Seq(AllSteps)] /\ f[0] = ordered
    /\ \A i \in 1..Len(Steps) : f[i] = AddStep(f[i - 1], Steps[i], wanted)

LEMMA AppendRuns ==
    ASSUME NEW ordered \in Seq(AllSteps), NEW wanted
    PROVE  \E f : AppendRun(f, ordered, wanted) /\ f[Len(Steps)] = AppendNew(ordered, wanted)
<1> DEFINE n == Len(Steps)
           D == 1..n
           V == Seq(AllSteps)
           pick == Latest(n)
           step == [y \in V \X D |-> AddStep(y[1], Steps[y[2]], wanted)]
           Sum(g) == g = [s \in SUBSET D |->
                           IF s = {} THEN ordered
                           ELSE AddStep(g[s \ {Max(s)}], Steps[Max(s)], wanted)]
           it == CHOOSE g : Sum(g)
<1>0. n \in Nat /\ DOMAIN Steps = D /\ \A i \in D : Steps[i] \in AllSteps
  BY AlgorithmAssumption DEF AlgorithmAssumption, AllSteps
<1>1. Largest(pick, n) /\ Picks(pick, D) /\ IsFiniteSet(D) /\ \A s \in SUBSET D : pick[s] = Max(s)
  <2> HIDE DEF n
  <2> QED BY <1>0, LatestIsLargest
<1>2. ASSUME NEW v \in V, NEW x \in D
      PROVE  step[<<v, x>>] = AddStep(v, Steps[x], wanted) /\ step[<<v, x>>] \in V
  <2>1. AddStep(v, Steps[x], wanted) \in V
    BY <1>0 DEF AddStep
  <2> QED BY <2>1
<1>3. ordered \in V
  OBVIOUS
<1>4. StepsIn(V, D, step)
  BY <1>2 DEF StepsIn
<1>5. PICK g \in [SUBSET D -> V] : Iterates(g, D, ordered, step, pick)
  <2> HIDE DEF D, n, pick, step, V
  <2> QED BY <1>1, <1>3, <1>4, IteratorExists
<1>6. Sum(g)
  <2>1. ASSUME NEW s \in SUBSET D, s # {}
        PROVE  g[s] = AddStep(g[s \ {Max(s)}], Steps[Max(s)], wanted)
    <3>1. pick[s] = Max(s) /\ pick[s] \in D /\ s \ {pick[s]} \in SUBSET D
      BY <1>1, <2>1 DEF Picks
    <3> HIDE DEF step, pick, D, n, V
    <3>2. g[s] = step[<<g[s \ {pick[s]}], pick[s]>>] /\ g[s \ {pick[s]}] \in V
      BY <1>5, <2>1, <3>1 DEF Iterates
    <3> QED BY <1>2, <3>1, <3>2
  <2>2. \A s \in SUBSET D : g[s] = IF s = {} THEN ordered
                           ELSE AddStep(g[s \ {Max(s)}], Steps[Max(s)], wanted)
    <3> HIDE DEF step, pick, D, n, V
    <3> QED BY <1>5, <2>1 DEF Iterates
  <2> QED BY <2>2, Zenon
<1>7. Sum(it)
  <2> HIDE DEF Sum
  <2> QED BY <1>6
<1>8. AppendNew(ordered, wanted) = it[D]
  BY <1>0 DEF AppendNew, AddStep, FoldLeft, MapThenFoldSet
<1>9. Folded(it, n, V, ordered, step, pick)
  <2>1. it[{}] = ordered
    BY <1>7, Zenon
  <2>2. ASSUME NEW s \in SUBSET D, s # {}, it[s \ {pick[s]}] \in V
        PROVE  it[s] = step[<<it[s \ {pick[s]}], pick[s]>>]
    <3>1. it[s] = AddStep(it[s \ {Max(s)}], Steps[Max(s)], wanted)
      BY <1>7, <2>2, Zenon
    <3>2. pick[s] \in D /\ pick[s] = Max(s)
      BY <1>1, <2>2 DEF Picks
    <3> HIDE DEF it, step, pick, D, n, V
    <3> QED BY <1>2, <2>2, <3>1, <3>2
  <2> HIDE DEF it, step, pick, V
  <2> QED BY <2>1, <2>2 DEF Folded
<1>10. \E f : LeftRun(f, n, V, ordered, step) /\ f[n] = it[1..n]
  <2> HIDE DEF it, step, pick, n, V
  <2> QED BY <1>0, <1>1, <1>3, <1>4, <1>9, LeftFold
<1>11. PICK f : LeftRun(f, n, V, ordered, step) /\ f[n] = it[1..n]
  BY <1>10
<1>12. AppendRun(f, ordered, wanted)
  <2>1. ASSUME NEW i \in D PROVE f[i] = AddStep(f[i - 1], Steps[i], wanted)
    <3>1. i - 1 \in 0..n
      OBVIOUS
    <3> HIDE DEF step, D, n, V
    <3>2. f[i - 1] \in V /\ f[i] = step[<<f[i - 1], i>>]
      BY <1>11, <3>1 DEF LeftRun, D
    <3> QED BY <1>2, <3>2
  <2> HIDE DEF step
  <2> QED BY <1>11, <2>1 DEF LeftRun, AppendRun
<1>13. f[Len(Steps)] = AppendNew(ordered, wanted)
  BY <1>8, <1>11
<1> HIDE DEF it, step, pick
<1> QED BY <1>12, <1>13

\* What AppendNew returns.
LEMMA AppendNewExtends ==
    ASSUME NEW ordered \in Seq(AllSteps), NoRepeat(ordered), NEW wanted \in SUBSET AllSteps
    PROVE  Extends(AppendNew(ordered, wanted), ordered, wanted)
<1>0. Len(Steps) \in Nat /\ DOMAIN Steps = 1..Len(Steps) /\ \A i \in 1..Len(Steps) : Steps[i] \in AllSteps
  BY AlgorithmAssumption DEF AlgorithmAssumption, AllSteps
<1>1. PICK f : AppendRun(f, ordered, wanted) /\ f[Len(Steps)] = AppendNew(ordered, wanted)
  BY AppendRuns
<1> DEFINE Taken(i) == {Steps[m] : m \in 1..i}
           T == {i \in Nat : i <= Len(Steps) => Extends(f[i], ordered, wanted \cap Taken(i))}
<1>2. 0 \in T
  <2>1. f[0] = ordered
    BY <1>1 DEF AppendRun
  <2>2. Taken(0) = {}
    OBVIOUS
  <2>3. Extends(ordered, ordered, wanted \cap {})
    BY DEF Extends
  <2> HIDE DEF Taken
  <2> QED BY <2>1, <2>2, <2>3
<1>3. ASSUME NEW i \in Nat, i \in T PROVE i + 1 \in T
  <2> SUFFICES ASSUME i + 1 <= Len(Steps) PROVE Extends(f[i + 1], ordered, wanted \cap Taken(i + 1))
    OBVIOUS
  <2> DEFINE k == i + 1
  <2>1. k \in 1..Len(Steps) /\ k - 1 = i /\ Extends(f[i], ordered, wanted \cap Taken(i))
    BY <1>0, <1>3
  <2>2. Taken(k) = Taken(i) \cup {Steps[k]}
    <3>1. \A m : m \in 1..k <=> m \in 1..i \/ m = k
      OBVIOUS
    <3> HIDE DEF k
    <3> QED BY <3>1
  <2>3. Taken(i) \in SUBSET AllSteps
    <3>1. \A m \in 1..i : m \in 1..Len(Steps)
      BY <1>0, <2>1
    <3> QED BY <1>0, <3>1
  <2> HIDE DEF k, T, Taken
  <2>4. f[k] = AddStep(f[i], Steps[k], wanted)
    BY <1>1, <2>1 DEF AppendRun
  <2>5. Extends(AddStep(f[i], Steps[k], wanted), ordered, wanted \cap (Taken(i) \cup {Steps[k]}))
    BY <1>0, <2>1, <2>3, AddStepExtends
  <2> QED BY <2>2, <2>4, <2>5 DEF k
<1>4. \A i \in Nat : i \in T
  <2> HIDE DEF T
  <2> QED BY <1>2, <1>3, ByInduction
<1>5. Extends(f[Len(Steps)], ordered, wanted \cap Taken(Len(Steps)))
  <2>1. Len(Steps) \in T
    <3> HIDE DEF T
    <3> QED BY <1>0, <1>4
  <2>2. \A n \in Nat : n <= n
    OBVIOUS
  <2> HIDE DEF Taken
  <2> QED BY <1>0, <2>1, <2>2
<1>6. wanted \cap Taken(Len(Steps)) = wanted
  BY <1>0 DEF AllSteps, ToSet
<1> HIDE DEF Taken, T
<1> QED BY <1>1, <1>5, <1>6

\* A list of the steps that have a rank up to k, in the order of their ranks.
Ranks(names) == [s \in AllSteps |-> Rank(s, names)]
Ranked(list, rank, k) ==
    /\ list \in Seq(AllSteps) /\ NoRepeat(list)
    /\ ToSet(list) = {s \in AllSteps : rank[s] <= k}
    /\ \A n, m \in DOMAIN list : n < m => rank[list[n]] <= rank[list[m]]

LEMMA RankedExtends ==
    ASSUME NEW ordered, NEW rank \in [AllSteps -> Int], NEW k \in Int, Ranked(ordered, rank, k),
           NEW wanted \in SUBSET AllSteps, \A s \in AllSteps : rank[s] <= k + 1 <=> rank[s] <= k \/ s \in wanted
    PROVE  Ranked(AppendNew(ordered, wanted), rank, k + 1)
<1> DEFINE list == AppendNew(ordered, wanted)
           L == Len(ordered)
<1>1. Extends(list, ordered, wanted)
  BY AppendNewExtends DEF Ranked
<1> HIDE DEF list
<1>2. list \in Seq(AllSteps) /\ NoRepeat(list) /\ L \in Nat /\ DOMAIN ordered = 1..L
      /\ Len(list) \in Nat /\ DOMAIN list = 1..Len(list) /\ \A n \in 1..Len(list) : list[n] \in AllSteps
  BY <1>1 DEF Extends, Ranked
<1>3. ToSet(list) = {s \in AllSteps : rank[s] <= k + 1}
  BY <1>1 DEF Extends, Ranked
<1>4. \A n \in DOMAIN list : rank[list[n]] <= k + 1 /\ rank[list[n]] \in Int
  BY <1>2, <1>3 DEF ToSet
<1>5. \A n \in 1..L : list[n] = ordered[n] /\ n \in DOMAIN list /\ rank[list[n]] <= k
  <2>1. \A n \in 1..L : list[n] = ordered[n] /\ n \in DOMAIN list
    BY <1>1, <1>2 DEF Extends
  <2>2. \A n \in 1..L : ordered[n] \in ToSet(ordered)
    BY <1>2 DEF ToSet
  <2> QED BY <2>1, <2>2 DEF Ranked
<1>6. ASSUME NEW n \in DOMAIN list, n \notin 1..L PROVE rank[list[n]] = k + 1
  <2>1. \A m \in 1..L : m < n /\ m \in DOMAIN list
    BY <1>2, <1>5, <1>6
  <2>2. \A m \in 1..L : list[m] # list[n]
    BY <1>2, <2>1 DEF NoRepeat
  <2>3. list[n] \notin ToSet(ordered)
    BY <1>2, <1>5, <2>2 DEF ToSet
  <2>4. ~(rank[list[n]] <= k)
    BY <1>2, <2>3 DEF Ranked
  <2> QED BY <1>4, <2>4
<1>7. ASSUME NEW n \in DOMAIN list, NEW m \in DOMAIN list, n < m PROVE rank[list[n]] <= rank[list[m]]
  <2>1. CASE m \in 1..L
    <3>1. n \in 1..L
      BY <1>2, <1>7, <2>1
    <3>2. rank[ordered[n]] <= rank[ordered[m]]
      BY <1>2, <1>7, <2>1, <3>1 DEF Ranked
    <3> QED BY <1>5, <2>1, <3>1, <3>2
  <2>2. CASE m \notin 1..L
    BY <1>4, <1>6, <2>2
  <2> QED BY <2>1, <2>2
<1> QED BY <1>2, <1>3, <1>7 DEF Ranked, list

\* Who has a rank.
LEMMA RankIs ==
    ASSUME NEW names, NEW S, names \in Seq(S), NEW s \in AllSteps
    PROVE  /\ Rank(s, names) \in Int /\ Rank(s, names) >= 2 /\ Rank(s, names) <= 2 * Len(names) + 2
           /\ \A i \in 1..Len(names) :
                /\ Rank(s, names) <= 2 * i <=> Rank(s, names) <= 2 * i - 1 \/ s.id = names[i]
                /\ Rank(s, names) <= 2 * i + 1 <=> Rank(s, names) <= 2 * i \/ s.package = names[i]
<1> DEFINE ids == {2 * n : n \in {m \in DOMAIN names : names[m] = s.id}}
           packages == {2 * n + 1 : n \in {m \in DOMAIN names : names[m] = s.package}}
           as == ids \cup packages
           r == Rank(s, names)
<1>1. Len(names) \in Nat /\ DOMAIN names = 1..Len(names)
  OBVIOUS
<1>2. \A a \in as : a \in Nat /\ a >= 2 /\ a <= 2 * Len(names) + 1
  BY <1>1
<1>3. r = IF as = {} THEN 2 * Len(names) + 2 ELSE Min(as)
  BY DEF Rank
<1>4. ASSUME as # {} PROVE Min(as) \in as /\ \A a \in as : Min(as) <= a
  <2> HIDE DEF as
  <2>1. as \in SUBSET Nat
    BY <1>2
  <2>2. \E m \in as : \A y \in as : m <= y
    BY <1>4, <2>1, LeastOf
  <2> QED BY <2>2 DEF Min
<1>5. \A i \in 1..Len(names) : (s.id = names[i] <=> 2 * i \in as) /\ (s.package = names[i] <=> 2 * i + 1 \in as)
  <2> SUFFICES ASSUME NEW i \in 1..Len(names)
               PROVE  (s.id = names[i] <=> 2 * i \in as) /\ (s.package = names[i] <=> 2 * i + 1 \in as)
    OBVIOUS
  <2>1. \A n \in DOMAIN names : n \in Int /\ 2 * n + 1 # 2 * i /\ 2 * n # 2 * i + 1
        /\ (2 * n = 2 * i => n = i) /\ (2 * n + 1 = 2 * i + 1 => n = i)
    BY <1>1
  <2>2. s.id = names[i] <=> 2 * i \in ids
    BY <1>1, <2>1
  <2>3. 2 * i \notin packages /\ 2 * i + 1 \notin ids
    BY <1>1, <2>1
  <2>4. s.package = names[i] <=> 2 * i + 1 \in packages
    BY <1>1, <2>1
  <2> HIDE DEF ids, packages
  <2> QED BY <2>2, <2>3, <2>4
<1> HIDE DEF as, r
<1>6. CASE as = {}
  <2>1. r = 2 * Len(names) + 2
    BY <1>3, <1>6
  <2>2. \A i \in 1..Len(names) : s.id # names[i] /\ s.package # names[i] /\ r > 2 * i + 1
    BY <1>1, <1>5, <1>6, <2>1
  <2> QED BY <1>1, <2>1, <2>2 DEF r
<1>7. CASE as # {}
  <2>1. r \in as /\ (\A a \in as : r <= a) /\ r \in Int /\ r >= 2 /\ r <= 2 * Len(names) + 2
    <3>1. r \in as /\ \A a \in as : r <= a
      BY <1>3, <1>4, <1>7
    <3>2. r \in Nat /\ r >= 2 /\ r <= 2 * Len(names) + 1
      BY <1>2, <3>1
    <3>3. r \in Int /\ r <= 2 * Len(names) + 2
      BY <1>1, <3>2
    <3> HIDE DEF as
    <3> QED BY <3>1, <3>2, <3>3
  <2>2. ASSUME NEW i \in 1..Len(names)
        PROVE  /\ r <= 2 * i <=> r <= 2 * i - 1 \/ s.id = names[i]
               /\ r <= 2 * i + 1 <=> r <= 2 * i \/ s.package = names[i]
    <3>1. r = 2 * i => s.id = names[i]
      BY <1>5, <2>1
    <3>2. s.id = names[i] => r <= 2 * i
      BY <1>5, <2>1
    <3>3. r = 2 * i + 1 => s.package = names[i]
      BY <1>5, <2>1
    <3>4. s.package = names[i] => r <= 2 * i + 1
      BY <1>5, <2>1
    <3>5. i \in Int
      BY <1>1
    <3> QED BY <2>1, <3>1, <3>2, <3>3, <3>4, <3>5
  <2> QED BY <2>1, <2>2 DEF r
<1> QED BY <1>6, <1>7

\* The names of the configured order, one by one.
PlaceRun(f, names) ==
    /\ f \in [0..Len(names) -> Seq(AllSteps)] /\ f[0] = <<>>
    /\ \A i \in 1..Len(names) : f[i] = Place(f[i - 1], names[i])
StepLists == {list \in Seq(AllSteps) : NoRepeat(list)}

LEMMA PlaceTyped ==
    ASSUME NEW list \in StepLists, NEW name PROVE Place(list, name) \in StepLists
<1> DEFINE first == AppendNew(list, Named(name))
<1>1. Named(name) \in SUBSET AllSteps /\ OfPackage(name) \in SUBSET AllSteps
  BY DEF Named, OfPackage, AllSteps
<1>2. Extends(first, list, Named(name))
  BY <1>1, AppendNewExtends DEF StepLists
<1>3. first \in Seq(AllSteps) /\ NoRepeat(first)
  BY <1>2 DEF Extends
<1> HIDE DEF first
<1>4. Extends(AppendNew(first, OfPackage(name)), first, OfPackage(name))
  BY <1>1, <1>3, AppendNewExtends
<1> QED BY <1>4 DEF Extends, StepLists, Place, first

LEMMA PlaceRuns ==
    ASSUME NEW N, NEW names \in Seq(N)
    PROVE  \E f : PlaceRun(f, names) /\ f[Len(names)] = FoldLeft(Place, <<>>, names)
<1> DEFINE n == Len(names)
           D == 1..n
           V == StepLists
           pick == Latest(n)
           step == [y \in V \X D |-> Place(y[1], names[y[2]])]
           Sum(g) == g = [s \in SUBSET D |->
                           IF s = {} THEN <<>>
                           ELSE Place(g[s \ {Max(s)}], names[Max(s)])]
           it == CHOOSE g : Sum(g)
<1>0. n \in Nat /\ DOMAIN names = D
  OBVIOUS
<1>1. Largest(pick, n) /\ Picks(pick, D) /\ IsFiniteSet(D) /\ \A s \in SUBSET D : pick[s] = Max(s)
  <2> HIDE DEF n
  <2> QED BY <1>0, LatestIsLargest
<1>2. ASSUME NEW v \in V, NEW x \in D
      PROVE  step[<<v, x>>] = Place(v, names[x]) /\ step[<<v, x>>] \in V
  <2>1. Place(v, names[x]) \in V
    BY PlaceTyped
  <2> QED BY <2>1
<1>3. <<>> \in V
  BY DEF StepLists, NoRepeat
<1>4. StepsIn(V, D, step)
  BY <1>2 DEF StepsIn
<1>5. PICK g \in [SUBSET D -> V] : Iterates(g, D, <<>>, step, pick)
  <2> HIDE DEF D, n, pick, step, V
  <2> QED BY <1>1, <1>3, <1>4, IteratorExists
<1>6. Sum(g)
  <2>1. ASSUME NEW s \in SUBSET D, s # {}
        PROVE  g[s] = Place(g[s \ {Max(s)}], names[Max(s)])
    <3>1. pick[s] = Max(s) /\ pick[s] \in D /\ s \ {pick[s]} \in SUBSET D
      BY <1>1, <2>1 DEF Picks
    <3> HIDE DEF step, pick, D, n, V
    <3>2. g[s] = step[<<g[s \ {pick[s]}], pick[s]>>] /\ g[s \ {pick[s]}] \in V
      BY <1>5, <2>1, <3>1 DEF Iterates
    <3> QED BY <1>2, <3>1, <3>2
  <2>2. \A s \in SUBSET D : g[s] = IF s = {} THEN <<>>
                           ELSE Place(g[s \ {Max(s)}], names[Max(s)])
    <3> HIDE DEF step, pick, D, n, V
    <3> QED BY <1>5, <2>1 DEF Iterates
  <2> QED BY <2>2, Zenon
<1>7. Sum(it)
  <2> HIDE DEF Sum
  <2> QED BY <1>6
<1>8. FoldLeft(Place, <<>>, names) = it[D]
  BY <1>0 DEF FoldLeft, MapThenFoldSet
<1>9. Folded(it, n, V, <<>>, step, pick)
  <2>1. it[{}] = <<>>
    BY <1>7, Zenon
  <2>2. ASSUME NEW s \in SUBSET D, s # {}, it[s \ {pick[s]}] \in V
        PROVE  it[s] = step[<<it[s \ {pick[s]}], pick[s]>>]
    <3>1. it[s] = Place(it[s \ {Max(s)}], names[Max(s)])
      BY <1>7, <2>2, Zenon
    <3>2. pick[s] \in D /\ pick[s] = Max(s)
      BY <1>1, <2>2 DEF Picks
    <3> HIDE DEF it, step, pick, D, n, V
    <3> QED BY <1>2, <2>2, <3>1, <3>2
  <2> HIDE DEF it, step, pick, V
  <2> QED BY <2>1, <2>2 DEF Folded
<1>10. \E f : LeftRun(f, n, V, <<>>, step) /\ f[n] = it[1..n]
  <2> HIDE DEF it, step, pick, n, V
  <2> QED BY <1>0, <1>1, <1>3, <1>4, <1>9, LeftFold
<1>11. PICK f : LeftRun(f, n, V, <<>>, step) /\ f[n] = it[1..n]
  BY <1>10
<1>12. PlaceRun(f, names)
  <2>1. ASSUME NEW i \in D PROVE f[i] = Place(f[i - 1], names[i])
    <3>1. i - 1 \in 0..n
      OBVIOUS
    <3> HIDE DEF step, D, n, V
    <3>2. f[i - 1] \in V /\ f[i] = step[<<f[i - 1], i>>]
      BY <1>11, <3>1 DEF LeftRun, D
    <3> QED BY <1>2, <3>2
  <2>2. f \in [0..n -> Seq(AllSteps)]
    <3> HIDE DEF n, step
    <3> QED BY <1>11 DEF LeftRun, StepLists
  <2> HIDE DEF step
  <2> QED BY <1>11, <2>1, <2>2 DEF LeftRun, PlaceRun
<1>13. f[Len(names)] = FoldLeft(Place, <<>>, names)
  BY <1>8, <1>11
<1> HIDE DEF it, step, pick
<1> QED BY <1>12, <1>13

\* The names so far have placed the steps that they rank.
LEMMA PlaceRanks ==
    ASSUME NEW N, NEW names \in Seq(N), NEW list, NEW i \in 1..Len(names), Ranked(list, Ranks(names), 2 * i - 1)
    PROVE  Ranked(Place(list, names[i]), Ranks(names), 2 * i + 1)
<1> DEFINE rank == Ranks(names)
           name == names[i]
           first == AppendNew(list, Named(name))
<1>1. i \in Int /\ rank \in [AllSteps -> Int] /\ \A s \in AllSteps : rank[s] = Rank(s, names)
  <2>1. \A s \in AllSteps : Rank(s, names) \in Int
    BY RankIs
  <2> QED BY <2>1 DEF Ranks
<1>2. Named(name) \in SUBSET AllSteps /\ OfPackage(name) \in SUBSET AllSteps
  BY DEF Named, OfPackage, AllSteps
<1>3. \A s \in AllSteps : /\ rank[s] <= 2 * i <=> rank[s] <= 2 * i - 1 \/ s \in Named(name)
                          /\ rank[s] <= 2 * i + 1 <=> rank[s] <= 2 * i \/ s \in OfPackage(name)
  <2> SUFFICES ASSUME NEW s \in AllSteps
               PROVE /\ rank[s] <= 2 * i <=> rank[s] <= 2 * i - 1 \/ s \in Named(name)
                     /\ rank[s] <= 2 * i + 1 <=> rank[s] <= 2 * i \/ s \in OfPackage(name)
    OBVIOUS
  <2>1. /\ Rank(s, names) <= 2 * i <=> Rank(s, names) <= 2 * i - 1 \/ s.id = name
        /\ Rank(s, names) <= 2 * i + 1 <=> Rank(s, names) <= 2 * i \/ s.package = name
    BY RankIs
  <2>2. rank[s] = Rank(s, names)
    BY <1>1
  <2>3. (s.id = name <=> s \in Named(name)) /\ (s.package = name <=> s \in OfPackage(name))
    BY DEF Named, OfPackage, AllSteps
  <2> QED BY <2>1, <2>2, <2>3
<1> DEFINE k == 2 * i - 1
<1>4. k \in Int /\ k + 1 = 2 * i /\ (k + 1) + 1 = 2 * i + 1 /\ k + 1 \in Int
  BY <1>1
<1>5. Ranked(list, rank, k)
  OBVIOUS
<1> HIDE DEF k, rank, name
<1>6. Ranked(first, rank, k + 1)
  <2>1. \A s \in AllSteps : rank[s] <= k + 1 <=> rank[s] <= k \/ s \in Named(name)
    BY <1>3, <1>4 DEF k
  <2> QED BY <1>1, <1>2, <1>4, <1>5, <2>1, RankedExtends
<1> DEFINE j == k + 1
<1>7. j \in Int /\ Ranked(first, rank, j) /\ \A s \in AllSteps : rank[s] <= j + 1 <=> rank[s] <= j \/ s \in OfPackage(name)
  BY <1>3, <1>4, <1>6
<1>8. j + 1 = 2 * i + 1
  BY <1>4
<1> HIDE DEF j, first
<1>9. Ranked(AppendNew(first, OfPackage(name)), rank, j + 1)
  BY <1>1, <1>2, <1>7, RankedExtends
<1> QED BY <1>8, <1>9 DEF Place, first, rank, name

\* The whole order.
LEMMA OrderIsRight ==
    ASSUME NEW N, NEW names \in Seq(N)
    PROVE  Ranked(OrderSteps(names), Ranks(names), 2 * Len(names) + 2)
<1>0. Len(names) \in Nat
  OBVIOUS
<1>1. Ranks(names) \in [AllSteps -> Int] /\ \A s \in AllSteps : Ranks(names)[s] >= 2 /\ Ranks(names)[s] <= 2 * Len(names) + 2
  <2>1. \A s \in AllSteps : Rank(s, names) \in Int /\ Rank(s, names) >= 2 /\ Rank(s, names) <= 2 * Len(names) + 2
    BY RankIs
  <2> QED BY <2>1 DEF Ranks
<1>2. PICK f : PlaceRun(f, names) /\ f[Len(names)] = FoldLeft(Place, <<>>, names)
  BY PlaceRuns
<1> DEFINE T == {i \in Nat : i <= Len(names) => Ranked(f[i], Ranks(names), 2 * i + 1)}
<1>3. 0 \in T
  <2>1. f[0] = <<>>
    BY <1>2 DEF PlaceRun
  <2>2. {s \in AllSteps : Ranks(names)[s] <= 1} = {}
    BY <1>1
  <2>3. ToSet(<<>>) = {} /\ <<>> \in Seq(AllSteps) /\ NoRepeat(<<>>)
    BY DEF ToSet, NoRepeat
  <2>4. Ranked(<<>>, Ranks(names), 1)
    BY <2>2, <2>3 DEF Ranked
  <2> QED BY <2>1, <2>4
<1>4. ASSUME NEW i \in Nat, i \in T PROVE i + 1 \in T
  <2> SUFFICES ASSUME i + 1 <= Len(names) PROVE Ranked(f[i + 1], Ranks(names), 2 * (i + 1) + 1)
    OBVIOUS
  <2> DEFINE k == i + 1
  <2>1. k \in 1..Len(names) /\ k - 1 = i /\ 2 * k - 1 = 2 * i + 1 /\ Ranked(f[i], Ranks(names), 2 * i + 1)
    BY <1>0, <1>4
  <2> HIDE DEF k, T
  <2>2. f[k] = Place(f[i], names[k])
    BY <1>2, <2>1 DEF PlaceRun
  <2>3. Ranked(Place(f[i], names[k]), Ranks(names), 2 * k + 1)
    BY <2>1, PlaceRanks
  <2> QED BY <2>2, <2>3 DEF k
<1>5. \A i \in Nat : i \in T
  <2> HIDE DEF T
  <2> QED BY <1>3, <1>4, ByInduction
<1> DEFINE k == 2 * Len(names) + 1
           placed == FoldLeft(Place, <<>>, names)
<1>6. Ranked(placed, Ranks(names), k)
  <2>1. Len(names) \in T /\ Len(names) <= Len(names)
    BY <1>0, <1>5
  <2> QED BY <1>2, <2>1
<1>7. k \in Int /\ k + 1 = 2 * Len(names) + 2
  BY <1>0
<1>8. \A s \in AllSteps : Ranks(names)[s] <= k + 1 <=> Ranks(names)[s] <= k \/ s \in AllSteps
  BY <1>1, <1>7
<1> HIDE DEF k, placed
<1>9. Ranked(AppendNew(placed, AllSteps), Ranks(names), k + 1)
  BY <1>1, <1>6, <1>7, <1>8, RankedExtends
<1> QED BY <1>7, <1>9 DEF OrderSteps, placed, AllSteps

\* In the terms of the property.
OrderedAs(value, names) ==
    /\ ToSet(value) = ToSet(Steps)
    /\ \A n, m \in DOMAIN value : n < m =>
          value[n] # value[m] /\ Rank(value[n], names) <= Rank(value[m], names)

LEMMA OrderResult ==
    ASSUME NEW N, NEW names \in Seq(N)
    PROVE  OrderedAs(OrderSteps(names), names)
<1> DEFINE value == OrderSteps(names)
<1>1. Ranked(value, Ranks(names), 2 * Len(names) + 2)
  BY OrderIsRight
<1> HIDE DEF value
<1>2. \A s \in AllSteps : Ranks(names)[s] = Rank(s, names) /\ Ranks(names)[s] <= 2 * Len(names) + 2
  <2>1. \A s \in AllSteps : Rank(s, names) <= 2 * Len(names) + 2
    BY RankIs
  <2> QED BY <2>1 DEF Ranks
<1>3. ToSet(value) = AllSteps
  BY <1>1, <1>2 DEF Ranked
<1>4. \A n \in DOMAIN value : value[n] \in AllSteps
  BY <1>3 DEF ToSet
<1>5. \A n, m \in DOMAIN value : n < m => value[n] # value[m] /\ Rank(value[n], names) <= Rank(value[m], names)
  BY <1>1, <1>2, <1>4 DEF Ranked, NoRepeat
<1> QED BY <1>3, <1>5 DEF AllSteps, value, OrderedAs

-----------------------------------------------------------------------------
(* The weighted median.                                                    *)

Sample == Seq([value : Int, weight : Nat])
WeightOf(sample) == [n \in DOMAIN sample |-> sample[n].weight]

LEMMA SampleFacts ==
    ASSUME NEW sample \in Sample
    PROVE  /\ Len(sample) \in Nat /\ DOMAIN sample = 1..Len(sample) /\ IsFiniteSet(DOMAIN sample)
           /\ Cardinality(DOMAIN sample) = Len(sample)
           /\ \A n \in DOMAIN sample : sample[n].value \in Int /\ sample[n].weight \in Nat
<1> DEFINE N == Len(sample)
<1>1. N \in Nat /\ DOMAIN sample = 1..N
  BY DEF Sample
<1>2. \A n \in DOMAIN sample : sample[n] \in [value : Int, weight : Nat]
  <2> DEFINE R == [value : Int, weight : Nat]
  <2>1. sample \in Seq(R)
    BY DEF Sample
  <2> HIDE DEF R
  <2>2. \A n \in DOMAIN sample : sample[n] \in R
    BY <1>1, <2>1
  <2> QED BY <2>2 DEF R
<1>3. \A n \in DOMAIN sample : sample[n].value \in Int /\ sample[n].weight \in Nat
  BY <1>2
<1> HIDE DEF N
<1>4. IsFiniteSet(1..N) /\ Cardinality(1..N) = N
  BY <1>1, FS_Interval
<1> QED BY <1>1, <1>3, <1>4 DEF N

\* The weight at some places counts their tickets.
LEMMA WeightIsCount ==
    ASSUME NEW sample \in Sample, NEW places \in SUBSET DOMAIN sample
    PROVE  /\ IsFiniteSet(Tickets(places, WeightOf(sample)))
           /\ WeightAt(sample, places) = Cardinality(Tickets(places, WeightOf(sample)))
<1> DEFINE D == places
           w == WeightOf(sample)
           pick == [s \in SUBSET D |-> CHOOSE x \in s : TRUE]
           step == [y \in Nat \X D |-> w[y[2]] + y[1]]
           Sum(g) == g = [s \in SUBSET D |->
                           IF s = {} THEN 0
                           ELSE sample[CHOOSE x \in s : TRUE].weight + g[s \ {CHOOSE x \in s : TRUE}]]
           it == CHOOSE g : Sum(g)
<1>0. IsFiniteSet(D) /\ \A x \in D : w[x] \in Nat /\ w[x] = sample[x].weight
  <2>1. IsFiniteSet(DOMAIN sample) /\ \A n \in DOMAIN sample : sample[n].weight \in Nat
    BY SampleFacts
  <2> QED BY <2>1, FS_Subset DEF WeightOf
<1>1. Picks(pick, D)
  BY DEF Picks
<1>2. \A v \in Nat, x \in D : step[<<v, x>>] \in Nat /\ step[<<v, x>>] = w[x] + v
  BY <1>0
<1>3. PICK g \in [SUBSET D -> Nat] : Iterates(g, D, 0, step, pick)
  <2>1. 0 \in Nat /\ StepsIn(Nat, D, step)
    BY <1>2 DEF StepsIn
  <2> HIDE DEF pick, step, D, w
  <2> QED BY <1>0, <1>1, <2>1, IteratorExists
<1>4. Sum(g)
  <2>1. ASSUME NEW s \in SUBSET D, s # {}
        PROVE  g[s] = sample[pick[s]].weight + g[s \ {pick[s]}]
    <3>1. pick[s] \in D /\ s \ {pick[s]} \in SUBSET D
      BY <1>1, <2>1 DEF Picks
    <3> DEFINE r == s \ {pick[s]}
               x == pick[s]
    <3>2. g[s] = step[<<g[r], x>>] /\ g[r] \in Nat /\ x \in D
      BY <1>3, <2>1, <3>1 DEF Iterates
    <3> HIDE DEF r, x, step, pick, w, D
    <3>3. g[s] = w[x] + g[r] /\ w[x] = sample[x].weight
      BY <1>0, <1>2, <3>2
    <3> QED BY <3>3 DEF r, x
  <2>2. \A s \in SUBSET D : g[s] = IF s = {} THEN 0
                           ELSE sample[CHOOSE x \in s : TRUE].weight + g[s \ {CHOOSE x \in s : TRUE}]
    BY <1>3, <2>1 DEF Iterates
  <2> QED BY <2>2, Zenon
<1>5. Sum(it)
  <2> HIDE DEF Sum
  <2> QED BY <1>4
<1>6. WeightAt(sample, places) = it[D]
  BY DEF WeightAt, MapThenSumSet, MapThenFoldSet
<1>7. Sums(it, D, w, pick)
  <2>1. it[{}] = 0
    BY <1>5, Zenon
  <2>2. ASSUME NEW s \in SUBSET D, s # {}, it[s \ {pick[s]}] \in Nat
        PROVE  it[s] = w[pick[s]] + it[s \ {pick[s]}]
    <3> DEFINE r == s \ {pick[s]}
               x == pick[s]
    <3>1. it[s] = sample[x].weight + it[r]
      BY <1>5, <2>2, Zenon
    <3>2. x \in D
      BY <1>1, <2>2 DEF Picks
    <3>3. w[x] = sample[x].weight
      BY <1>0, <3>2
    <3> HIDE DEF r, x, w, it, D
    <3> QED BY <3>1, <3>3 DEF r, x
  <2> QED BY <2>1, <2>2 DEF Sums
<1> HIDE DEF it, w, pick
<1>8. IsFiniteSet(Tickets(D, w)) /\ it[D] = Cardinality(Tickets(D, w))
  <2> HIDE DEF D
  <2> QED BY <1>0, <1>1, <1>7, SumIsCount
<1> QED BY <1>6, <1>8 DEF w

\* More places weigh no less; places that are apart add up.
LEMMA WeightsCompare ==
    ASSUME NEW sample \in Sample, NEW A \in SUBSET DOMAIN sample, NEW B \in SUBSET DOMAIN sample
    PROVE  /\ WeightAt(sample, A) \in Nat
           /\ A \subseteq B => WeightAt(sample, A) <= WeightAt(sample, B)
           /\ A \cap B = {} => WeightAt(sample, A) + WeightAt(sample, B) <= WeightAt(sample, DOMAIN sample)
<1> DEFINE w == WeightOf(sample)
           D == DOMAIN sample
           a == Tickets(A, w)
           b == Tickets(B, w)
           d == Tickets(D, w)
<1>1. IsFiniteSet(a) /\ WeightAt(sample, A) = Cardinality(a)
  BY WeightIsCount
<1>2. IsFiniteSet(b) /\ WeightAt(sample, B) = Cardinality(b)
  BY WeightIsCount
<1>3. IsFiniteSet(d) /\ WeightAt(sample, D) = Cardinality(d)
  <2>1. D \in SUBSET DOMAIN sample
    OBVIOUS
  <2> QED BY <2>1, WeightIsCount
<1>4. A \subseteq B => a \in SUBSET b
  BY DEF Tickets
<1>5. a \cup b \in SUBSET d
  BY DEF Tickets
<1>6. A \cap B = {} => a \cap b = {}
  BY DEF Tickets
<1> HIDE DEF a, b, d, w
<1>7. Cardinality(a) \in Nat /\ Cardinality(b) \in Nat /\ Cardinality(d) \in Nat
  BY <1>1, <1>2, <1>3, FS_CardinalityType
<1>8. A \subseteq B => Cardinality(a) <= Cardinality(b)
  BY <1>2, <1>4, FS_Subset
<1>9. ASSUME A \cap B = {} PROVE Cardinality(a) + Cardinality(b) <= Cardinality(d)
  <2>1. a \cap b = {}
    BY <1>6, <1>9
  <2>2. Cardinality(a \cup b) = Cardinality(a) + Cardinality(b) - Cardinality({})
    BY <1>1, <1>2, <2>1, FS_Union
  <2>3. Cardinality({}) = 0
    BY FS_EmptySet
  <2>4. Cardinality(a \cup b) <= Cardinality(d)
    BY <1>3, <1>5, FS_Subset
  <2> QED BY <1>7, <2>2, <2>3, <2>4
<1> QED BY <1>1, <1>2, <1>3, <1>7, <1>8, <1>9 DEF D

\* Some of the places, in the order of their values.
Sorted(o, s, v) ==
    /\ o \in [1..Cardinality(s) -> s]
    /\ \A n, m \in 1..Cardinality(s) : n < m => o[n] # o[m] /\ v[o[n]] <= v[o[m]]

LEMMA SortingExists ==
    ASSUME NEW S, IsFiniteSet(S), NEW v, \A x \in S : v[x] \in Int
    PROVE  \E o : Sorted(o, S, v)
<1> DEFINE pick == [s \in SUBSET S |-> CHOOSE x \in s : \A y \in s : v[y] <= v[x]]
           T == {s \in SUBSET S : \E o : Sorted(o, s, v)}
<1>1. ASSUME NEW s \in SUBSET S, s # {} PROVE pick[s] \in s /\ \A y \in s : v[y] <= v[pick[s]]
  <2>1. IsFiniteSet(s) /\ \A x \in s : v[x] \in Int
    BY FS_Subset
  <2>2. \E x \in s : \A y \in s : v[y] <= v[x]
    BY <1>1, <2>1, GreatestValue
  <2> QED BY <2>2
<1>2. Picks(pick, S)
  BY <1>1 DEF Picks
<1>3. {} \in T
  <2>1. Cardinality({}) = 0 /\ 1..0 = {}
    BY FS_EmptySet
  <2>2. Sorted(<<>>, {}, v)
    BY <2>1 DEF Sorted
  <2> QED BY <2>2
<1>4. ASSUME NEW s \in SUBSET S, s # {}, s \ {pick[s]} \in T
      PROVE  s \in T
  <2> DEFINE r == s \ {pick[s]}
             x == pick[s]
  <2>1. PICK o : Sorted(o, r, v)
    BY <1>4
  <2>2. x \in s /\ r \in SUBSET s /\ x \notin r /\ \A y \in r : v[y] <= v[x]
    BY <1>1, <1>4
  <2> HIDE DEF r, x
  <2>3. IsFiniteSet(s) /\ IsFiniteSet(r) /\ Cardinality(r) \in Nat
    BY <2>2, FS_Subset, FS_CardinalityType
  <2>4. Cardinality(s) = Cardinality(r) + 1
    <3>1. Cardinality(s \ {x}) = Cardinality(s) - 1 /\ Cardinality(s) \in Nat
      BY <2>2, <2>3, FS_RemoveElement, FS_CardinalityType
    <3>2. s \ {x} = r
      BY DEF r, x
    <3>3. \A a, b \in Nat : a = b - 1 => b = a + 1
      OBVIOUS
    <3> QED BY <2>3, <3>1, <3>2, <3>3
  <2> DEFINE N == Cardinality(r)
             q == [n \in 1..(N + 1) |-> IF n = N + 1 THEN x ELSE o[n]]
  <2>5. \A n \in 1..N : q[n] = o[n] /\ o[n] \in r
    BY <2>1, <2>3 DEF Sorted
  <2>6. q[N + 1] = x
    BY <2>3
  <2>7. \A n \in 1..(N + 1) : n \in 1..N \/ n = N + 1
    BY <2>3
  <2>8. q \in [1..(N + 1) -> s]
    <3>1. \A n \in 1..(N + 1) : q[n] \in s
      BY <2>2, <2>5, <2>6, <2>7
    <3> QED BY <3>1
  <2> HIDE DEF q
  <2>9. ASSUME NEW n \in 1..(N + 1), NEW m \in 1..(N + 1), n < m PROVE q[n] # q[m] /\ v[q[n]] <= v[q[m]]
    <3>1. n \in 1..N
      BY <2>3, <2>9
    <3>2. CASE m = N + 1
      BY <2>2, <2>5, <2>6, <3>1, <3>2
    <3>3. CASE m \in 1..N
      <4>1. o[n] # o[m] /\ v[o[n]] <= v[o[m]]
        BY <2>1, <2>9, <3>1, <3>3 DEF Sorted
      <4> QED BY <2>5, <3>1, <3>3, <4>1
    <3> QED BY <2>7, <3>2, <3>3
  <2> HIDE DEF N
  <2>10. Sorted(q, s, v)
    BY <2>4, <2>8, <2>9 DEF Sorted, N
  <2> QED BY <2>10
<1>5. \A s \in SUBSET S : s \in T
  <2> HIDE DEF T, pick
  <2> QED BY <1>2, <1>3, <1>4, BySubsets
<1> QED BY <1>5

\* SortByValue is an order of all the places.
LEMMA SortingIs ==
    ASSUME NEW sample \in Sample
    PROVE  /\ SortByValue(sample) \in Surjection(DOMAIN sample, DOMAIN sample)
           /\ IsSorting(sample, SortByValue(sample))
<1> DEFINE D == DOMAIN sample
           v == [n \in D |-> sample[n].value]
           order == SortByValue(sample)
<1>1. IsFiniteSet(D) /\ D = 1..Cardinality(D) /\ \A n \in D : v[n] \in Int /\ v[n] = sample[n].value
  BY SampleFacts
<1> HIDE DEF v, D
<1>2. PICK o : Sorted(o, D, v)
  BY <1>1, SortingExists
<1>3. o \in [D -> D] /\ IsSorting(sample, o)
  <2>1. o \in [D -> D] /\ \A n, m \in D : n < m => o[n] # o[m] /\ v[o[n]] <= v[o[m]]
    BY <1>1, <1>2 DEF Sorted
  <2>2. \A n \in D : o[n] \in D /\ v[o[n]] = sample[o[n]].value
    BY <1>1, <2>1
  <2> QED BY <2>1, <2>2 DEF IsSorting, D
<1>4. order \in [D -> D] /\ IsSorting(sample, order)
  BY <1>3 DEF SortByValue, D
<1> HIDE DEF order
<1>5. \A n, m \in D : n # m => order[n] # order[m]
  <2>1. \A n, m \in D : n \in Int /\ m \in Int
    BY SampleFacts DEF D
  <2>2. \A n, m \in D : n # m => n < m \/ m < n
    BY <2>1
  <2> QED BY <1>4, <2>2 DEF IsSorting, D
<1>6. order \in Injection(D, D)
  BY <1>4, <1>5 DEF Injection, IsInjective
<1>7. order \in Surjection(D, D)
  BY <1>1, <1>6, FS_Injection
<1> QED BY <1>4, <1>7 DEF order, D

\* The weight on either side of the median is at most the half.
Half(sample, places) == 2 * WeightAt(sample, places) <= WeightAt(sample, DOMAIN sample)

LEMMA MedianResult ==
    ASSUME NEW sample \in Sample, sample # <<>>
    PROVE  Half(sample, Below(sample, WeightedMedian(sample))) /\ Half(sample, Above(sample, WeightedMedian(sample)))
<1> DEFINE D == DOMAIN sample
           order == SortByValue(sample)
           Upto(n) == {order[m] : m \in 1..n}
           Past(n) == 2 * WeightAt(sample, Upto(n)) >= WeightAt(sample, D)
           k == CHOOSE n \in D : Past(n) /\ \A m \in 1..n - 1 : ~Past(m)
           v == sample[order[k]].value
           N == Len(sample)
<1>1. N \in Nat /\ D = 1..N /\ N # 0 /\ N \in D /\ \A n \in D : sample[n].value \in Int
  <2>1. N \in Nat /\ D = 1..N /\ \A n \in D : sample[n].value \in Int
    BY SampleFacts
  <2>2. N # 0
    BY DEF Sample
  <2> QED BY <2>1, <2>2
<1>2. order \in [D -> D] /\ (\A p \in D : \E n \in D : order[n] = p) /\ IsSorting(sample, order)
  BY SortingIs DEF Surjection
<1>3. WeightedMedian(sample) = v
  BY DEF WeightedMedian
<1> HIDE DEF D, order
<1>4. \A n \in D : Upto(n) \in SUBSET D
  <2>1. \A n \in D : \A m \in 1..n : m \in D
    BY <1>1
  <2> QED BY <1>2, <2>1
<1>5. Past(N)
  <2>1. Upto(N) = D
    BY <1>1, <1>2
  <2> HIDE DEF Upto
  <2>2. WeightAt(sample, D) \in Nat
    BY WeightsCompare DEF D
  <2> QED BY <2>1, <2>2
<1>6. \E n \in D : Past(n) /\ \A m \in 1..n - 1 : ~Past(m)
  <2> DEFINE P == {n \in D : Past(n)}
  <2>1. P \in SUBSET Nat /\ P # {}
    <3>1. N \in P
      BY <1>1, <1>5
    <3>2. \A n \in D : n \in Nat
      BY <1>1
    <3> QED BY <3>1, <3>2
  <2>2. PICK n \in P : \A m \in P : n <= m
    <3> HIDE DEF P
    <3> QED BY <2>1, LeastOf
  <2> HIDE DEF Past
  <2>3. \A m \in 1..n - 1 : m \in D /\ ~(n <= m)
    BY <1>1, <2>2
  <2> QED BY <2>2, <2>3
<1>7. k \in D /\ Past(k) /\ \A m \in 1..k - 1 : ~Past(m)
  <2> HIDE DEF Past
  <2> QED BY <1>6
<1> HIDE DEF k, Upto, Past
<1>8. v \in Int /\ order[k] \in D
  BY <1>1, <1>2, <1>7
<1>9. Half(sample, Below(sample, v))
  <2>1. Below(sample, v) \in SUBSET D /\ \A p \in Below(sample, v) : sample[p].value < v
    BY DEF Below, D
  <2>2. ASSUME NEW p \in Below(sample, v) PROVE \E n \in 1..k - 1 : order[n] = p
    <3>1. PICK n \in D : order[n] = p
      BY <1>2, <2>1
    <3>2. n # k
      BY <1>8, <2>1, <2>2, <3>1
    <3>3. ~(k < n)
      <4>1. SUFFICES ASSUME k < n PROVE FALSE
        OBVIOUS
      <4>2. sample[order[k]].value <= sample[order[n]].value
        BY <1>2, <1>7, <3>1, <4>1 DEF IsSorting, D
      <4>3. sample[p].value \in Int /\ sample[p].value < v
        BY <1>1, <2>1, <2>2
      <4> QED BY <1>8, <3>1, <4>2, <4>3
    <3>4. n \in Int /\ k \in Int /\ n >= 1
      BY <1>1, <1>7
    <3>5. n \in 1..k - 1
      BY <3>2, <3>3, <3>4
    <3> QED BY <3>1, <3>5
  <2>3. CASE k = 1
    <3> DEFINE b == Below(sample, v)
    <3>1. b = {}
      <4>1. 1..k - 1 = {}
        BY <2>3
      <4> QED BY <2>2, <4>1
    <3>2. b \in SUBSET D /\ b \cap b = {}
      BY <2>1, <3>1
    <3> HIDE DEF b
    <3>3. WeightAt(sample, b) + WeightAt(sample, b) <= WeightAt(sample, D) /\ WeightAt(sample, b) \in Nat
      BY <3>2, WeightsCompare DEF D
    <3>4. \A x \in Nat : x + x = 2 * x
      OBVIOUS
    <3> QED BY <3>3, <3>4 DEF Half, D, b
  <2>4. CASE k # 1
    <3> DEFINE j == k - 1
               b == Below(sample, v)
    <3>1. j \in D /\ j \in 1..k - 1
      BY <1>1, <1>7, <2>4
    <3>2. ~Past(j)
      BY <1>7, <3>1
    <3>3. b \subseteq Upto(j)
      BY <2>2 DEF Upto
    <3> HIDE DEF j, b
    <3>4. Upto(j) \in SUBSET D /\ b \in SUBSET D /\ D \in SUBSET D
      BY <1>4, <2>1, <3>1 DEF b
    <3>5. WeightAt(sample, b) <= WeightAt(sample, Upto(j)) /\ WeightAt(sample, b) \in Nat
      BY <3>3, <3>4, WeightsCompare DEF D
    <3>6. WeightAt(sample, Upto(j)) \in Nat /\ WeightAt(sample, D) \in Nat
      BY <3>4, WeightsCompare DEF D
    <3>7. ~(2 * WeightAt(sample, Upto(j)) >= WeightAt(sample, D))
      BY <3>2 DEF Past
    <3>8. 2 * WeightAt(sample, b) <= WeightAt(sample, D)
      BY <3>5, <3>6, <3>7
    <3> QED BY <3>8 DEF Half, D, b
  <2> QED BY <2>3, <2>4
<1>10. Half(sample, Above(sample, v))
  <2> DEFINE a == Above(sample, v)
             u == Upto(k)
  <2>1. a \in SUBSET D /\ u \in SUBSET D /\ D \in SUBSET D
    BY <1>4, <1>7 DEF Above, D
  <2>2. ASSUME NEW p \in u PROVE p \notin a
    <3>1. PICK n \in 1..k : p = order[n]
      BY DEF Upto
    <3>2. n \in D /\ n \in Int /\ k \in Int /\ n <= k
      BY <1>1, <1>7
    <3>3. sample[order[n]].value <= v
      <4>1. CASE n = k
        BY <1>8, <4>1
      <4>2. CASE n < k
        BY <1>2, <1>7, <3>2, <4>2 DEF IsSorting, D
      <4> QED BY <3>2, <4>1, <4>2
    <3>4. sample[order[n]].value \in Int
      BY <1>1, <1>2, <3>2
    <3> QED BY <1>8, <3>1, <3>3, <3>4 DEF Above
  <2>3. a \cap u = {}
    BY <2>2
  <2> HIDE DEF a, u
  <2>4. WeightAt(sample, a) + WeightAt(sample, u) <= WeightAt(sample, D)
    BY <2>1, <2>3, WeightsCompare DEF D
  <2>5. WeightAt(sample, a) \in Nat /\ WeightAt(sample, u) \in Nat /\ WeightAt(sample, D) \in Nat
    BY <2>1, WeightsCompare DEF D
  <2>6. 2 * WeightAt(sample, u) >= WeightAt(sample, D)
    BY <1>7 DEF Past, u
  <2>7. 2 * WeightAt(sample, a) <= WeightAt(sample, D)
    BY <2>4, <2>5, <2>6
  <2> QED BY <2>7 DEF Half, D, a
<1> QED BY <1>3, <1>9, <1>10

-----------------------------------------------------------------------------
(* The date ranges.                                                        *)

Span == (Int \X Int)
Scan == [ranges : Seq(Span), start : Int, end : Int]
Scanned(existing, acc, days) == FoldLeft(LAMBDA a, day : ScanDay(existing, a, day), acc, days)
NoScan == [ranges |-> <<>>, start |-> 0, end |-> 0]

LEMMA ScanDayTyped ==
    ASSUME NEW existing, NEW acc \in Scan, NEW day \in Int
    PROVE  ScanDay(existing, acc, day) \in Scan
<1>1. acc.ranges \in Seq(Span) /\ acc.start \in Int /\ acc.end \in Int
  BY DEF Scan
<1>2. CASE day \notin existing
  BY <1>2 DEF ScanDay, Scan
<1>3. CASE day \in existing /\ acc.start = 0
  BY <1>3 DEF ScanDay
<1>4. CASE day \in existing /\ acc.start # 0
  <2>1. <<acc.start, acc.end>> \in Span
    BY <1>1 DEF Span
  <2>2. Append(acc.ranges, <<acc.start, acc.end>>) \in Seq(Span)
    BY <1>1, <2>1
  <2> QED BY <1>4, <2>2 DEF ScanDay, Scan
<1> QED BY <1>2, <1>3, <1>4

\* The scan, day by day.
ScanSteps(f, days, existing) ==
    /\ f \in [0..Len(days) -> Scan] /\ f[0] = NoScan
    /\ \A i \in 1..Len(days) : f[i] = ScanDay(existing, f[i - 1], days[i])

LEMMA ScanRuns ==
    ASSUME NEW days \in Seq(Int), NEW existing
    PROVE  \E f : ScanSteps(f, days, existing) /\ f[Len(days)] = Scanned(existing, NoScan, days)
<1> DEFINE n == Len(days)
           D == 1..n
           pick == Latest(n)
           step == [y \in Scan \X D |-> ScanDay(existing, y[1], days[y[2]])]
           Sum(g) == g = [s \in SUBSET D |->
                           IF s = {} THEN NoScan
                           ELSE ScanDay(existing, g[s \ {Max(s)}], days[Max(s)])]
           it == CHOOSE g : Sum(g)
<1>0. n \in Nat /\ DOMAIN days = D /\ \A i \in D : days[i] \in Int
  OBVIOUS
<1>1. Largest(pick, n) /\ Picks(pick, D) /\ IsFiniteSet(D) /\ \A s \in SUBSET D : pick[s] = Max(s)
  <2> HIDE DEF n
  <2> QED BY <1>0, LatestIsLargest
<1>2. ASSUME NEW v \in Scan, NEW x \in D
      PROVE  step[<<v, x>>] = ScanDay(existing, v, days[x]) /\ step[<<v, x>>] \in Scan
  <2>1. ScanDay(existing, v, days[x]) \in Scan
    BY <1>0, ScanDayTyped
  <2> QED BY <2>1
<1>3. NoScan \in Scan
  BY DEF NoScan, Scan
<1>4. StepsIn(Scan, D, step)
  BY <1>2 DEF StepsIn
<1>5. PICK g \in [SUBSET D -> Scan] : Iterates(g, D, NoScan, step, pick)
  <2> HIDE DEF D, n, pick, step
  <2> QED BY <1>1, <1>3, <1>4, IteratorExists
<1>6. Sum(g)
  <2>1. ASSUME NEW s \in SUBSET D, s # {}
        PROVE  g[s] = ScanDay(existing, g[s \ {Max(s)}], days[Max(s)])
    <3>1. pick[s] = Max(s) /\ pick[s] \in D /\ s \ {pick[s]} \in SUBSET D
      BY <1>1, <2>1 DEF Picks
    <3> HIDE DEF step, pick, D, n
    <3>2. g[s] = step[<<g[s \ {pick[s]}], pick[s]>>] /\ g[s \ {pick[s]}] \in Scan
      BY <1>5, <2>1, <3>1 DEF Iterates
    <3> QED BY <1>2, <3>1, <3>2
  <2>2. \A s \in SUBSET D : g[s] = IF s = {} THEN NoScan
                           ELSE ScanDay(existing, g[s \ {Max(s)}], days[Max(s)])
    <3> HIDE DEF step, pick, D, n
    <3> QED BY <1>5, <2>1 DEF Iterates
  <2> QED BY <2>2, Zenon
<1>7. Sum(it)
  <2> HIDE DEF Sum
  <2> QED BY <1>6
<1>8. Scanned(existing, NoScan, days) = it[D]
  BY <1>0 DEF Scanned, FoldLeft, MapThenFoldSet
<1>9. Folded(it, n, Scan, NoScan, step, pick)
  <2>1. it[{}] = NoScan
    BY <1>7, Zenon
  <2>2. ASSUME NEW s \in SUBSET D, s # {}, it[s \ {pick[s]}] \in Scan
        PROVE  it[s] = step[<<it[s \ {pick[s]}], pick[s]>>]
    <3>1. it[s] = ScanDay(existing, it[s \ {Max(s)}], days[Max(s)])
      BY <1>7, <2>2, Zenon
    <3>2. pick[s] \in D /\ pick[s] = Max(s)
      BY <1>1, <2>2 DEF Picks
    <3> HIDE DEF it, step, pick, D, n
    <3> QED BY <1>2, <2>2, <3>1, <3>2
  <2> HIDE DEF it, step, pick
  <2> QED BY <2>1, <2>2 DEF Folded
<1>10. \E f : LeftRun(f, n, Scan, NoScan, step) /\ f[n] = it[1..n]
  <2> HIDE DEF it, step, pick, n
  <2> QED BY <1>0, <1>1, <1>3, <1>4, <1>9, LeftFold
<1>11. PICK f : LeftRun(f, n, Scan, NoScan, step) /\ f[n] = it[1..n]
  BY <1>10
<1>12. ScanSteps(f, days, existing)
  <2>1. ASSUME NEW i \in D PROVE f[i] = ScanDay(existing, f[i - 1], days[i])
    <3>1. i - 1 \in 0..n
      OBVIOUS
    <3> HIDE DEF step, D, n
    <3>2. f[i - 1] \in Scan /\ f[i] = step[<<f[i - 1], i>>]
      BY <1>11, <3>1 DEF LeftRun, D
    <3> QED BY <1>2, <3>2
  <2> HIDE DEF step
  <2> QED BY <1>11, <2>1 DEF LeftRun, ScanSteps
<1>13. f[Len(days)] = Scanned(existing, NoScan, days)
  BY <1>8, <1>11
<1> HIDE DEF it, step, pick
<1> QED BY <1>12, <1>13

\* Ranges that cover, of the days seen, those that are not there, each as wide
\* as it can be.
RangesOf(R, seen, existing) ==
    /\ \A n \in DOMAIN R : R[n][1] \in seen \ existing /\ R[n][2] \in seen \ existing
    /\ \A d \in seen : d \notin existing <=> \E n \in DOMAIN R : R[n][1] <= d /\ d <= R[n][2]
    /\ \A n \in 1..Len(R) - 1 : \E d \in seen \cap existing : R[n][2] < d /\ d < R[n + 1][1]

\* A day that is there is after the last range.
Closed(R, seen, existing) == R # <<>> => \E d \in seen \cap existing : R[Len(R)][2] < d

\* A later day that is missing starts a range.
LEMMA RangeStarts ==
    ASSUME NEW R \in Seq(Span), NEW seen \in SUBSET Int, NEW existing, NEW day \in Int,
           RangesOf(R, seen, existing), Closed(R, seen, existing),
           \A d \in seen : d < day, day \notin existing
    PROVE  RangesOf(Append(R, <<day, day>>), seen \cup {day}, existing)
<1> DEFINE L == Len(R)
           all == Append(R, <<day, day>>)
<1>1. L \in Nat /\ Len(all) = L + 1 /\ DOMAIN all = 1..(L + 1) /\ DOMAIN R = 1..L
  BY DEF Span
<1>2. \A n \in 1..L : all[n] = R[n] /\ R[n][1] \in Int /\ R[n][2] \in Int
  BY DEF Span
<1>3. all[L + 1] = <<day, day>> /\ all[L + 1][1] = day /\ all[L + 1][2] = day
  BY <1>1 DEF Span
<1>4. ASSUME NEW n \in 1..L PROVE R[n][1] \in seen \ existing /\ R[n][2] \in seen \ existing
  BY <1>1 DEF RangesOf
<1> HIDE DEF all, L
<1>5. \A n \in DOMAIN all : all[n][1] \in (seen \cup {day}) \ existing /\ all[n][2] \in (seen \cup {day}) \ existing
  BY <1>1, <1>2, <1>3, <1>4
<1>6. ASSUME NEW d \in seen \cup {day}
      PROVE  d \notin existing <=> \E n \in DOMAIN all : all[n][1] <= d /\ d <= all[n][2]
  <2>1. CASE d = day
    <3>1. L + 1 \in DOMAIN all
      BY <1>1
    <3> QED BY <1>3, <2>1, <3>1
  <2>2. CASE d \in seen
    <3>1. ~(all[L + 1][1] <= d)
      <4>1. d \in Int /\ d < day
        BY <2>2
      <4> QED BY <1>3, <4>1
    <3>2. d \notin existing <=> \E n \in 1..L : R[n][1] <= d /\ d <= R[n][2]
      BY <1>1, <2>2 DEF RangesOf
    <3> QED BY <1>1, <1>2, <3>1, <3>2
  <2> QED BY <2>1, <2>2
<1>7. ASSUME NEW n \in 1..Len(all) - 1
      PROVE  \E d \in (seen \cup {day}) \cap existing : all[n][2] < d /\ d < all[n + 1][1]
  <2>1. CASE n < L
    <3>1. n \in 1..L - 1 /\ n \in 1..L /\ n + 1 \in 1..L
      BY <1>1, <2>1
    <3>2. \E d \in seen \cap existing : R[n][2] < d /\ d < R[n + 1][1]
      BY <3>1 DEF RangesOf, L
    <3> QED BY <1>2, <3>1, <3>2
  <2>2. CASE n = L
    <3>1. L \in 1..L /\ R # <<>>
      BY <1>1, <2>2 DEF L
    <3>2. \E d \in seen \cap existing : R[L][2] < d
      BY <3>1 DEF Closed, L
    <3> QED BY <1>2, <1>3, <2>2, <3>1, <3>2
  <2> QED BY <1>1, <2>1, <2>2
<1> QED BY <1>5, <1>6, <1>7 DEF RangesOf, all

\* A later day that is missing prolongs the range that ended the day before.
LEMMA RangeGrows ==
    ASSUME NEW Q \in Seq(Span), NEW a \in Int, NEW b \in Int, NEW seen \in SUBSET Int, NEW existing,
           NEW day \in Int, RangesOf(Append(Q, <<a, b>>), seen, existing),
           \A d \in seen : d < day /\ d <= b, day \notin existing
    PROVE  RangesOf(Append(Q, <<a, day>>), seen \cup {day}, existing)
<1> DEFINE L == Len(Q)
           old == Append(Q, <<a, b>>)
           all == Append(Q, <<a, day>>)
<1>1. L \in Nat /\ Len(all) = L + 1 /\ DOMAIN all = 1..(L + 1) /\ Len(old) = L + 1 /\ DOMAIN old = 1..(L + 1)
  BY DEF Span
<1>2. \A n \in 1..L : all[n] = Q[n] /\ old[n] = Q[n] /\ Q[n][1] \in Int /\ Q[n][2] \in Int
  BY DEF Span
<1>3. all[L + 1] = <<a, day>> /\ all[L + 1][1] = a /\ all[L + 1][2] = day
  BY <1>1 DEF Span
<1>4. old[L + 1] = <<a, b>> /\ old[L + 1][1] = a /\ old[L + 1][2] = b
  BY <1>1 DEF Span
<1> HIDE DEF all, L, old
<1>5. ASSUME NEW n \in 1..(L + 1) PROVE old[n][1] \in seen \ existing /\ old[n][2] \in seen \ existing
  BY <1>1 DEF RangesOf, old
<1>6. L + 1 \in 1..(L + 1)
  BY <1>1
<1>7. a \in seen \ existing /\ b \in seen \ existing /\ a < day /\ b < day
  BY <1>4, <1>5, <1>6
<1>8. \A n \in DOMAIN all : all[n][1] \in (seen \cup {day}) \ existing /\ all[n][2] \in (seen \cup {day}) \ existing
  <2>1. ASSUME NEW n \in 1..L PROVE all[n][1] \in (seen \cup {day}) \ existing /\ all[n][2] \in (seen \cup {day}) \ existing
    <3>1. n \in 1..(L + 1) /\ all[n] = old[n]
      BY <1>1, <1>2
    <3> QED BY <1>5, <3>1
  <2> QED BY <1>1, <1>3, <1>7, <2>1
<1>9. ASSUME NEW d \in seen \cup {day}
      PROVE  d \notin existing <=> \E n \in DOMAIN all : all[n][1] <= d /\ d <= all[n][2]
  <2>1. CASE d = day
    <3>1. all[L + 1][1] <= d /\ d <= all[L + 1][2]
      BY <1>3, <1>7, <2>1
    <3> QED BY <1>1, <1>6, <2>1, <3>1
  <2>2. CASE d \in seen
    <3>1. d \notin existing <=> \E n \in 1..(L + 1) : old[n][1] <= d /\ d <= old[n][2]
      BY <1>1, <2>2 DEF RangesOf, old
    <3>2. (all[L + 1][1] <= d /\ d <= all[L + 1][2]) <=> (old[L + 1][1] <= d /\ d <= old[L + 1][2])
      <4>1. d \in Int /\ d <= b /\ d < day
        BY <2>2
      <4> QED BY <1>3, <1>4, <4>1
    <3>3. \A n \in 1..(L + 1) : (all[n][1] <= d /\ d <= all[n][2]) <=> (old[n][1] <= d /\ d <= old[n][2])
      BY <1>1, <1>2, <3>2
    <3> QED BY <1>1, <3>1, <3>3
  <2> QED BY <2>1, <2>2
<1>10. ASSUME NEW n \in 1..Len(all) - 1
       PROVE  \E d \in (seen \cup {day}) \cap existing : all[n][2] < d /\ d < all[n + 1][1]
  <2>1. n \in 1..Len(old) - 1 /\ n \in 1..L /\ n + 1 \in 1..(L + 1)
    BY <1>1
  <2>2. \E d \in seen \cap existing : old[n][2] < d /\ d < old[n + 1][1]
    BY <2>1 DEF RangesOf, old
  <2>3. all[n] = old[n] /\ all[n + 1][1] = old[n + 1][1]
    <3>1. CASE n < L
      <4>1. n + 1 \in 1..L
        BY <1>1, <2>1, <3>1
      <4> QED BY <1>2, <2>1, <4>1
    <3>2. CASE n = L
      BY <1>2, <1>3, <1>4, <2>1, <3>2
    <3> QED BY <1>1, <2>1, <3>1, <3>2
  <2> QED BY <2>2, <2>3
<1> QED BY <1>8, <1>9, <1>10 DEF RangesOf, all

\* A later day that is there leaves the ranges as they are.
LEMMA RangesStand ==
    ASSUME NEW R \in Seq(Span), NEW seen \in SUBSET Int, NEW existing, NEW day \in Int,
           RangesOf(R, seen, existing), \A d \in seen : d < day, day \in existing
    PROVE  RangesOf(R, seen \cup {day}, existing) /\ Closed(R, seen \cup {day}, existing)
<1>1. \A n \in DOMAIN R : R[n][1] \in seen /\ R[n][2] \in seen /\ R[n][2] < day /\ R[n][2] \in Int
  BY DEF RangesOf
<1>2. ASSUME NEW d \in seen \cup {day}
      PROVE  d \notin existing <=> \E n \in DOMAIN R : R[n][1] <= d /\ d <= R[n][2]
  <2>1. CASE d = day
    <3>1. \A n \in DOMAIN R : ~(d <= R[n][2])
      BY <1>1, <2>1
    <3> QED BY <2>1, <3>1
  <2>2. CASE d \in seen
    BY <2>2 DEF RangesOf
  <2> QED BY <2>1, <2>2
<1>3. RangesOf(R, seen \cup {day}, existing)
  BY <1>2 DEF RangesOf
<1>4. R # <<>> => Len(R) \in DOMAIN R
  OBVIOUS
<1> QED BY <1>1, <1>3, <1>4 DEF Closed

\* The range that is open is the last of the ranges so far.
AllRanges(acc) == IF acc.start = 0 THEN acc.ranges ELSE Append(acc.ranges, <<acc.start, acc.end>>)

Seen(days, i) == {days[m] : m \in 1..i}
ScanInv(acc, days, i, existing) ==
    /\ RangesOf(AllRanges(acc), Seen(days, i), existing)
    /\ IF acc.start = 0 THEN Closed(acc.ranges, Seen(days, i), existing)
       ELSE \A d \in Seen(days, i) : d <= acc.end

IsCalendar(days) ==
    /\ days \in Seq(Int) /\ \A n \in DOMAIN days : days[n] # 0
    /\ \A n, m \in DOMAIN days : n < m => days[n] < days[m]

LEMMA ScanKeepsInv ==
    ASSUME NEW days, IsCalendar(days), NEW existing, NEW acc \in Scan, NEW i \in 1..Len(days),
           ScanInv(acc, days, i - 1, existing)
    PROVE  ScanInv(ScanDay(existing, acc, days[i]), days, i, existing)
<1> DEFINE day == days[i]
           seen == Seen(days, i - 1)
           new == ScanDay(existing, acc, day)
<1>1. Len(days) \in Nat /\ DOMAIN days = 1..Len(days) /\ day \in Int /\ day # 0 /\ \A m \in DOMAIN days : days[m] \in Int
  BY DEF IsCalendar
<1>2. \A m \in 1..(i - 1) : m \in DOMAIN days /\ m < i
  BY <1>1
<1>3. seen \in SUBSET Int /\ \A d \in seen : d < day
  BY <1>1, <1>2 DEF Seen, IsCalendar
<1>4. Seen(days, i) = seen \cup {day}
  <2>1. \A m : m \in 1..i <=> m \in 1..(i - 1) \/ m = i
    BY <1>1
  <2> QED BY <2>1 DEF Seen
<1>5. acc.ranges \in Seq(Span) /\ acc.start \in Int /\ acc.end \in Int /\ AllRanges(acc) \in Seq(Span)
  <2>1. acc.ranges \in Seq(Span) /\ acc.start \in Int /\ acc.end \in Int
    BY DEF Scan
  <2>2. <<acc.start, acc.end>> \in Span
    BY <2>1 DEF Span
  <2> QED BY <2>1, <2>2 DEF AllRanges
<1>6. RangesOf(AllRanges(acc), seen, existing)
  BY DEF ScanInv
<1> HIDE DEF seen, day
<1>7. CASE day \notin existing /\ acc.start = 0
  <2>1. new.ranges = acc.ranges /\ new.start = day /\ new.end = day
    BY <1>7 DEF ScanDay, Scan
  <2>2. RangesOf(acc.ranges, seen, existing) /\ Closed(acc.ranges, seen, existing)
    BY <1>6, <1>7 DEF ScanInv, AllRanges, seen
  <2>3. RangesOf(Append(acc.ranges, <<day, day>>), seen \cup {day}, existing)
    BY <1>1, <1>3, <1>5, <1>7, <2>2, RangeStarts
  <2>4. AllRanges(new) = Append(acc.ranges, <<day, day>>)
    BY <1>1, <2>1 DEF AllRanges
  <2>5. \A d \in seen \cup {day} : d <= day
    BY <1>1, <1>3
  <2> HIDE DEF new
  <2>6. ScanInv(new, days, i, existing)
    BY <1>1, <1>4, <2>1, <2>3, <2>4, <2>5 DEF ScanInv
  <2> QED BY <2>6 DEF new, day
<1>8. CASE day \notin existing /\ acc.start # 0
  <2>1. new.ranges = acc.ranges /\ new.start = acc.start /\ new.end = day
    BY <1>8 DEF ScanDay, Scan
  <2>2. RangesOf(Append(acc.ranges, <<acc.start, acc.end>>), seen, existing)
    BY <1>6, <1>8 DEF AllRanges
  <2>3. \A d \in seen : d < day /\ d <= acc.end
    BY <1>3, <1>8 DEF ScanInv, seen
  <2> DEFINE a == acc.start  b == acc.end  Q == acc.ranges
  <2>4. a \in Int /\ b \in Int /\ Q \in Seq(Span) /\ RangesOf(Append(Q, <<a, b>>), seen, existing)
        /\ \A d \in seen : d < day /\ d <= b
    BY <1>5, <2>2, <2>3
  <2> HIDE DEF a, b, Q
  <2>5. RangesOf(Append(Q, <<a, day>>), seen \cup {day}, existing)
    BY <1>1, <1>3, <1>8, <2>4, RangeGrows
  <2>6. AllRanges(new) = Append(Q, <<a, day>>)
    BY <1>8, <2>1 DEF AllRanges, a, Q
  <2>7. \A d \in seen \cup {day} : d <= day
    BY <1>1, <1>3
  <2> HIDE DEF new
  <2>8. ScanInv(new, days, i, existing)
    BY <1>1, <1>4, <1>8, <2>1, <2>5, <2>6, <2>7 DEF ScanInv
  <2> QED BY <2>8 DEF new, day
<1>9. CASE day \in existing
  <2>1. RangesOf(AllRanges(acc), seen \cup {day}, existing) /\ Closed(AllRanges(acc), seen \cup {day}, existing)
    BY <1>1, <1>3, <1>5, <1>6, <1>9, RangesStand
  <2>2. new.start = 0 /\ new.ranges = AllRanges(acc)
    BY <1>9 DEF ScanDay, AllRanges
  <2>3. AllRanges(new) = AllRanges(acc)
    BY <2>2 DEF AllRanges
  <2> HIDE DEF new
  <2>4. ScanInv(new, days, i, existing)
    BY <1>4, <2>1, <2>2, <2>3 DEF ScanInv
  <2> QED BY <2>4 DEF new, day
<1> QED BY <1>7, <1>8, <1>9

\* What the ranges of a calendar are.
LEMMA RangesAreExact ==
    ASSUME NEW days, IsCalendar(days), NEW existing
    PROVE  RangesOf(MissingDateRanges(days, existing), ToSet(days), existing)
<1>1. days \in Seq(Int) /\ Len(days) \in Nat /\ DOMAIN days = 1..Len(days)
  BY DEF IsCalendar
<1>2. PICK f : ScanSteps(f, days, existing) /\ f[Len(days)] = Scanned(existing, NoScan, days)
  BY <1>1, ScanRuns
<1> DEFINE T == {i \in Nat : i <= Len(days) => ScanInv(f[i], days, i, existing)}
<1>3. 0 \in T
  <2>1. f[0] = NoScan
    BY <1>2 DEF ScanSteps
  <2>2. Seen(days, 0) = {}
    BY DEF Seen
  <2>3. RangesOf(<<>>, {}, existing) /\ Closed(<<>>, {}, existing)
    BY DEF RangesOf, Closed
  <2>4. NoScan.start = 0 /\ NoScan.ranges = <<>> /\ AllRanges(NoScan) = <<>>
    BY DEF AllRanges, NoScan
  <2>5. ScanInv(NoScan, days, 0, existing)
    BY <2>2, <2>3, <2>4 DEF ScanInv
  <2> QED BY <2>1, <2>5
<1>4. ASSUME NEW i \in Nat, i \in T PROVE i + 1 \in T
  <2> SUFFICES ASSUME i + 1 <= Len(days) PROVE ScanInv(f[i + 1], days, i + 1, existing)
    OBVIOUS
  <2>1. i + 1 \in 1..Len(days) /\ (i + 1) - 1 = i /\ ScanInv(f[i], days, i, existing) /\ i \in 0..Len(days)
    BY <1>1, <1>4
  <2> HIDE DEF T
  <2> DEFINE k == i + 1
  <2>2. k \in 1..Len(days) /\ k - 1 = i
    BY <2>1
  <2> HIDE DEF k
  <2>3. f[i] \in Scan /\ f[k] = ScanDay(existing, f[i], days[k])
    BY <1>2, <2>1, <2>2 DEF ScanSteps
  <2>4. ScanInv(ScanDay(existing, f[i], days[k]), days, k, existing)
    BY <2>1, <2>2, <2>3, ScanKeepsInv
  <2> QED BY <2>3, <2>4 DEF k
<1>5. \A i \in Nat : i \in T
  <2> HIDE DEF T
  <2> QED BY <1>3, <1>4, ByInduction
<1>6. ScanInv(f[Len(days)], days, Len(days), existing)
  BY <1>1, <1>5
<1>7. Seen(days, Len(days)) = ToSet(days)
  BY <1>1 DEF Seen, ToSet
<1>8. MissingDateRanges(days, existing) = AllRanges(Scanned(existing, NoScan, days))
  BY DEF MissingDateRanges, AllRanges, Scanned, NoScan
<1> QED BY <1>2, <1>6, <1>7, <1>8 DEF ScanInv

\* In the terms of the property.
ExactRanges(ranges, days, existing) ==
    LET expected == ToSet(days)
        missing == expected \ existing
        Covered(n) == {d \in expected : ranges[n][1] <= d /\ d <= ranges[n][2]}
    IN  /\ UNION {Covered(n) : n \in DOMAIN ranges} = missing
        /\ \A n \in DOMAIN ranges : ranges[n][1] \in missing /\ ranges[n][2] \in missing
        /\ \A n \in 1..Len(ranges) - 1 :
              \E d \in expected \cap existing : ranges[n][2] < d /\ d < ranges[n + 1][1]

LEMMA RangesResult ==
    ASSUME NEW days, IsCalendar(days), NEW existing
    PROVE  ExactRanges(MissingDateRanges(days, existing), days, existing)
<1> DEFINE ranges == MissingDateRanges(days, existing)
<1>1. RangesOf(ranges, ToSet(days), existing)
  BY RangesAreExact
<1> HIDE DEF ranges
<1>2. ExactRanges(ranges, days, existing)
  BY <1>1 DEF RangesOf, ExactRanges
<1> QED BY <1>2 DEF ranges

-----------------------------------------------------------------------------
(* Every input.                                                            *)

LEMMA ListsAreSequences ==
    ASSUME NEW S, NEW n \in Nat, NEW list \in Lists(S, n)
    PROVE  list \in Seq(S)
<1>1. PICK m \in 0..n : list \in [1..m -> S]
  BY DEF Lists
<1> QED BY <1>1

LEMMA CallTyped ==
    ASSUME NEW c \in Calls
    PROVE  /\ c.name \in {"merge", "order", "median", "ranges"}
           /\ c.name = "merge" => c.high \in Seq(RowItem) /\ c.low \in Seq(RowItem)
           /\ c.name = "order" => \E N : c.names \in Seq(N)
           /\ c.name = "median" => c.sample \in Sample /\ c.sample # <<>>
           /\ c.name = "ranges" => IsCalendar(c.expected)
<1>0. HighLen \in Nat /\ LowLen \in Nat /\ NameLen \in Nat /\ SampleLen \in Nat /\ CalendarLen \in Nat
      /\ Weights \subseteq Nat /\ Samples \subseteq Int
  BY AlgorithmAssumption DEF AlgorithmAssumption
<1> DEFINE Names == UNION {{Steps[n].id, Steps[n].package} : n \in DOMAIN Steps}
           Weighed == [value : Samples, weight : Weights]
<1>1. CASE c \in [name : {"merge"}, high : Lists(RowItem, HighLen), low : Lists(RowItem, LowLen)]
  <2>1. c.name = "merge" /\ c.high \in Lists(RowItem, HighLen) /\ c.low \in Lists(RowItem, LowLen)
    BY <1>1
  <2>2. c.high \in Seq(RowItem) /\ c.low \in Seq(RowItem)
    BY <1>0, <2>1, ListsAreSequences
  <2> QED BY <2>1, <2>2
<1>2. CASE c \in [name : {"order"}, names : Lists(Names, NameLen)]
  <2>1. c.name = "order" /\ c.names \in Lists(Names, NameLen)
    BY <1>2
  <2> HIDE DEF Names
  <2>2. c.names \in Seq(Names)
    BY <1>0, <2>1, ListsAreSequences
  <2> QED BY <2>1, <2>2
<1>3. CASE c \in [name : {"median"}, sample : Lists(Weighed, SampleLen) \ {<<>>}]
  <2>1. c.name = "median" /\ c.sample \in Lists(Weighed, SampleLen) /\ c.sample # <<>>
    BY <1>3
  <2>2. Weighed \subseteq [value : Int, weight : Nat]
    BY <1>0
  <2> HIDE DEF Weighed
  <2>3. c.sample \in Seq(Weighed)
    BY <1>0, <2>1, ListsAreSequences
  <2> DEFINE R == [value : Int, weight : Nat]
  <2>4. Weighed \subseteq R
    BY <2>2
  <2> HIDE DEF R
  <2>5. c.sample \in Seq(R)
    BY <2>3, <2>4
  <2> QED BY <2>1, <2>5 DEF Sample, R
<1>4. CASE c \in [name : {"ranges"}, expected : Calendars, existing : SUBSET (1..CalendarLen)]
  <2> DEFINE days == c.expected
             L == CalendarLen
  <2>1. c.name = "ranges" /\ days \in Lists(1..L, L) /\ \A n, m \in DOMAIN days : n < m => days[n] < days[m]
    BY <1>4 DEF Calendars
  <2> HIDE DEF days, L
  <2>2. days \in Seq(1..L) /\ L \in Nat
    BY <1>0, <2>1, ListsAreSequences DEF L
  <2>3. days \in Seq(Int) /\ \A n \in DOMAIN days : days[n] # 0
    BY <2>2
  <2> QED BY <2>1, <2>3 DEF IsCalendar, days
<1> QED BY <1>1, <1>2, <1>3, <1>4 DEF Calls

\* What is returned is what the function returns on the arguments.
ReturnInv == input \in Calls /\ output \in {<<>>, <<Return(input)>>}

LEMMA ReturnIsReference ==
    ASSUME ReturnInv PROVE ResultIsReference
<1>0. input \in Calls /\ (output # <<>> => output = <<Return(input)>> /\ Value = Return(input))
  BY DEF ReturnInv, Value
<1>1. MergedByPriority
  <2> SUFFICES ASSUME Returned("merge"), Distinct(input.high) PROVE MergedAs(Value.merged, input.high \o input.low)
    BY DEF MergedByPriority, MergedAs
  <2>1. input.name = "merge" /\ input.high \in Seq(RowItem) /\ input.low \in Seq(RowItem)
    BY <1>0, CallTyped DEF Returned
  <2>2. Value = MergeLists(input.high, input.low)
    BY <1>0, <2>1 DEF Returned, Return
  <2>3. MergedAs(MergeLists(input.high, input.low).merged, input.high \o input.low)
    BY <2>1, MergeResult
  <2> QED BY <2>2, <2>3
<1>2. OrderIsRanked
  <2> SUFFICES ASSUME Returned("order") PROVE OrderedAs(Value, input.names)
    BY DEF OrderIsRanked, OrderedAs
  <2>1. input.name = "order"
    BY DEF Returned
  <2>2. PICK N : input.names \in Seq(N)
    BY <1>0, <2>1, CallTyped
  <2>3. Value = OrderSteps(input.names)
    BY <1>0, <2>1 DEF Returned, Return
  <2>4. OrderedAs(OrderSteps(input.names), input.names)
    BY <2>2, OrderResult
  <2> QED BY <2>3, <2>4
<1>3. MedianInMiddle
  <2> SUFFICES ASSUME Returned("median")
               PROVE  Half(input.sample, Below(input.sample, Value)) /\ Half(input.sample, Above(input.sample, Value))
    BY DEF MedianInMiddle, Half
  <2>1. input.name = "median" /\ input.sample \in Sample /\ input.sample # <<>>
    BY <1>0, CallTyped DEF Returned
  <2>2. Value = WeightedMedian(input.sample)
    BY <1>0, <2>1 DEF Returned, Return
  <2>3. Half(input.sample, Below(input.sample, WeightedMedian(input.sample)))
        /\ Half(input.sample, Above(input.sample, WeightedMedian(input.sample)))
    BY <2>1, MedianResult
  <2> QED BY <2>2, <2>3
<1>4. RangesExact
  <2> SUFFICES ASSUME Returned("ranges") PROVE ExactRanges(Value, input.expected, input.existing)
    BY DEF RangesExact, ExactRanges
  <2>1. input.name = "ranges" /\ IsCalendar(input.expected)
    BY <1>0, CallTyped DEF Returned
  <2>2. Value = MissingDateRanges(input.expected, input.existing)
    BY <1>0, <2>1 DEF Returned, Return
  <2>3. ExactRanges(MissingDateRanges(input.expected, input.existing), input.expected, input.existing)
    BY <2>1, RangesResult
  <2> QED BY <2>2, <2>3
<1> QED BY <1>1, <1>2, <1>3, <1>4 DEF ResultIsReference

\* Each of the pure functions returns, on every input, what its reference
\* definition says: the merged rows go by priority, every step has one place in
\* the order, the median is in the middle, and the ranges are the gaps.
THEOREM AlgorithmsCompute == AlgorithmSpec => []ResultIsReference
<1>1. AlgorithmInit => ReturnInv
  BY DEF AlgorithmInit, ReturnInv
<1>2. ReturnInv /\ [AlgorithmNext]_algorithmVars => ReturnInv'
  BY DEF ReturnInv, AlgorithmNext, algorithmVars
<1>3. ReturnInv => ResultIsReference
  BY ReturnIsReference
<1> QED BY <1>1, <1>2, <1>3, PTL DEF AlgorithmSpec

=============================================================================
