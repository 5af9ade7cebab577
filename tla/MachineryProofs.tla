--------------------------- MODULE MachineryProofs ----------------------------
(*****************************************************************************)
(* Theorems about four parts of the machinery around a query, each on its    *)
(* own: the page caches of PageCache, the environments of the packages of    *)
(* PackageEnvironment, the publications of FuturesPublication, and the plans *)
(* and due times of CapturePlan.                                             *)
(*****************************************************************************)
EXTENDS PageCache, PackageEnvironment, FuturesPublication, CapturePlan, FoldLemmas,
        FiniteSetTheorems, FunctionTheorems, SequenceTheorems, WellFoundedInduction, TLAPS

-------------------------------------------------------------------------------
(*****************************************************************************)
(* The page cache: for any threads, requests, limits and pages the counts of *)
(* bytes are those of the entries held, neither limit is passed, no cached   *)
(* page fails its check and eviction never runs out of entries.              *)
(*****************************************************************************)

----------------------------------------------------------------------------
(* The bytes of a set of entries                                            *)

\* Adding one entry adds its size.
LEMMA BytesAdded ==
  ASSUME NEW S, NEW k, k \notin S, NEW e, e[k].size \in Nat, IsFiniteSet(Bytes(S, e))
  PROVE  /\ IsFiniteSet(Bytes(S \cup {k}, e))
         /\ Cardinality(Bytes(S \cup {k}, e)) = Cardinality(Bytes(S, e)) + e[k].size
  <1> DEFINE mine == {k} \X (1..e[k].size)
  <1>1. IsFiniteSet(mine) /\ Cardinality(mine) = e[k].size
    <2>1. IsFiniteSet({k}) /\ Cardinality({k}) = 1
      BY FS_Singleton
    <2>2. \A n \in Nat : IsFiniteSet(1..n) /\ Cardinality(1..n) = n
      BY FS_Interval
    <2>3. IsFiniteSet(1..e[k].size) /\ Cardinality(1..e[k].size) = e[k].size
      BY <2>2
    <2>4. IsFiniteSet(mine) /\ Cardinality(mine) = Cardinality({k}) * Cardinality(1..e[k].size)
      BY <2>1, <2>3, FS_Product
    <2>5. \A n \in Nat : 1 * n = n
      OBVIOUS
    <2>6. QED
      BY <2>1, <2>3, <2>4, <2>5
  <1>2. Bytes(S \cup {k}, e) = Bytes(S, e) \cup mine
    BY DEF Bytes
  <1>3. Bytes(S, e) \cap mine = {}
    BY DEF Bytes
  <1> HIDE DEF mine
  <1>4. IsFiniteSet(Bytes(S, e) \cup mine)
        /\ Cardinality(Bytes(S, e) \cup mine)
             = Cardinality(Bytes(S, e)) + Cardinality(mine) - Cardinality({})
    BY <1>1, <1>3, FS_Union
  <1>5. Cardinality({}) = 0 /\ Cardinality(Bytes(S, e)) \in Nat
    BY FS_EmptySet, FS_CardinalityType
  <1>6. \A a, b \in Nat : a + b - 0 = a + b
    OBVIOUS
  <1>7. Cardinality(Bytes(S, e) \cup mine) = Cardinality(Bytes(S, e)) + e[k].size
    BY <1>1, <1>4, <1>5, <1>6, Zenon
  <1>8. QED
    BY <1>2, <1>4, <1>7, Zenon

\* Removing one entry subtracts its size.
LEMMA BytesRemoved ==
  ASSUME NEW S, NEW k \in S, NEW e, e[k].size \in Nat, IsFiniteSet(Bytes(S, e))
  PROVE  /\ IsFiniteSet(Bytes(S \ {k}, e))
         /\ Cardinality(Bytes(S \ {k}, e)) = Cardinality(Bytes(S, e)) - e[k].size
         /\ Cardinality(Bytes(S \ {k}, e)) \in Nat
  <1>1. Bytes(S \ {k}, e) \subseteq Bytes(S, e)
    BY DEF Bytes
  <1>2. IsFiniteSet(Bytes(S \ {k}, e))
    BY <1>1, FS_Subset
  <1>3. Cardinality(Bytes((S \ {k}) \cup {k}, e)) = Cardinality(Bytes(S \ {k}, e)) + e[k].size
    BY <1>2, BytesAdded
  <1>4. (S \ {k}) \cup {k} = S
    OBVIOUS
  <1>5. Cardinality(Bytes(S \ {k}, e)) \in Nat
    BY <1>2, FS_CardinalityType
  <1>6. Cardinality(Bytes(S, e)) = Cardinality(Bytes(S \ {k}, e)) + e[k].size
    BY <1>3, <1>4
  <1>7. QED
    BY <1>2, <1>5, <1>6

LEMMA NoBytes == ASSUME NEW e PROVE IsFiniteSet(Bytes({}, e)) /\ Cardinality(Bytes({}, e)) = 0
  <1>1. Bytes({}, e) = {}
    BY DEF Bytes
  <1>2. QED
    BY <1>1, FS_EmptySet

----------------------------------------------------------------------------
(* The inductive invariant                                                  *)

\* The counts, of finitely many bytes.
CountInv ==
  /\ IsFiniteSet(Bytes(held, entry))
  /\ total = Cardinality(Bytes(held, entry))
  /\ \A c \in Capabilities : capBytes[c] = Cardinality(Bytes(HeldOf(c), entry))

WithinLimits ==
  /\ total <= TotalLimit
  /\ \A c \in Capabilities : capBytes[c] <= CapLimit[c]

\* Any entries have a least recently used one.
OrderInv == \A S \in SUBSET held : S # {} => Oldest(S) # {}

\* A page on its way to the cache is valid and fits its capability; the
\* thread that makes room for it holds the lock, and its key is not held.
PutInv ==
  \A p \in Callers :
    /\ call[p].phase \in {"put", "lock", "evict"} => call[p].page.good
    /\ call[p].phase \in {"lock", "evict"} => call[p].page.size <= Limit(p)
    /\ call[p].phase = "evict" => lock = p /\ call[p].request \notin held
    /\ call[p].outcome # "cache_error"

GoodInv == \A k \in held : entry[k].good

IInv == PageTypeOK /\ CountInv /\ WithinLimits /\ OrderInv /\ PutInv /\ GoodInv

----------------------------------------------------------------------------
(* What happens to the entries                                              *)

CacheOK ==
  /\ held \subseteq Requests /\ older \subseteq held \X held
  /\ entry \in [Requests -> Pages]
  /\ total \in Nat /\ capBytes \in [Capabilities -> Nat]
  /\ CountInv /\ WithinLimits /\ OrderInv /\ GoodInv

LEMMA RemoveKeeps ==
  ASSUME CacheOK, NEW k \in held, RemoveEntry(k)
  PROVE  CacheOK'
  <1> DEFINE c == CapabilityOf[k]
  <1>1. /\ held' = held \ {k} /\ entry' = entry /\ older' = Without(older, k)
        /\ total' = total - entry[k].size
        /\ capBytes' = [capBytes EXCEPT ![c] = @ - entry[k].size]
    BY DEF RemoveEntry
  <1>2. k \in Requests /\ entry[k].size \in Nat /\ c \in Capabilities
    BY LimitsAssumption DEF CacheOK, Pages, LimitsAssumption
  <1>3. IsFiniteSet(Bytes(held', entry')) /\ total' = Cardinality(Bytes(held', entry'))
        /\ total' \in Nat
    BY <1>1, <1>2, BytesRemoved DEF CacheOK, CountInv
  <1>4. ASSUME NEW d \in Capabilities
        PROVE  capBytes'[d] = Cardinality(Bytes(HeldOf(d)', entry')) /\ capBytes'[d] \in Nat
               /\ capBytes'[d] <= capBytes[d]
    <2>1. IsFiniteSet(Bytes(HeldOf(d), entry)) /\ capBytes[d] = Cardinality(Bytes(HeldOf(d), entry))
          /\ capBytes[d] \in Nat
      <3>1. Bytes(HeldOf(d), entry) \subseteq Bytes(held, entry)
        BY DEF Bytes, HeldOf
      <3>2. QED
        BY <3>1, FS_Subset DEF CacheOK, CountInv
    <2>2. HeldOf(d)' = HeldOf(d) \ {k}
      BY <1>1 DEF HeldOf
    <2>3. CASE d = c
      <3>1. k \in HeldOf(d) /\ capBytes'[d] = capBytes[d] - entry[k].size
        BY <1>1, <1>2, <2>3 DEF HeldOf, CacheOK
      <3>2. Cardinality(Bytes(HeldOf(d) \ {k}, entry)) = capBytes[d] - entry[k].size
            /\ Cardinality(Bytes(HeldOf(d) \ {k}, entry)) \in Nat
        BY <1>2, <2>1, <3>1, BytesRemoved
      <3>3. QED
        BY <1>1, <1>2, <2>1, <2>2, <3>1, <3>2
    <2>4. CASE d # c
      <3>1. HeldOf(d) \ {k} = HeldOf(d) /\ capBytes'[d] = capBytes[d]
        BY <1>1, <2>4 DEF HeldOf, CacheOK
      <3>2. QED
        BY <1>1, <2>1, <2>2, <3>1
    <2>5. QED
      BY <2>3, <2>4
  <1>5. capBytes' \in [Capabilities -> Nat]
    BY <1>1, <1>4 DEF CacheOK
  <1>6. WithinLimits'
    <2>1. total' <= TotalLimit
      BY <1>1, <1>2, LimitsAssumption DEF CacheOK, WithinLimits, LimitsAssumption
    <2>2. ASSUME NEW d \in Capabilities PROVE capBytes'[d] <= CapLimit[d]
      BY <1>4, LimitsAssumption DEF CacheOK, WithinLimits, LimitsAssumption
    <2>3. QED
      BY <2>1, <2>2 DEF WithinLimits
  <1>7. OrderInv'
    <2> SUFFICES ASSUME NEW S \in SUBSET held', S # {} PROVE Oldest(S)' # {}
      BY DEF OrderInv
    <2>1. Oldest(S) # {} /\ Oldest(S) \subseteq Oldest(S)'
      BY <1>1 DEF CacheOK, OrderInv, Oldest, Without
    <2>2. QED
      BY <2>1
  <1>8. older' \subseteq held' \X held' /\ GoodInv' /\ held' \subseteq Requests
    BY <1>1 DEF CacheOK, Without, GoodInv
  <1>9. QED
    BY <1>1, <1>3, <1>4, <1>5, <1>6, <1>7, <1>8 DEF CacheOK, CountInv

LEMMA InsertKeeps ==
  ASSUME CacheOK, PageTypeOK, PutInv, NEW p \in Callers, InsertPage(p)
  PROVE  CacheOK'
  <1> DEFINE k == call[p].request
             c == CapabilityOf[k]
             size == call[p].page.size
  <1>1. /\ held' = held \cup {k} /\ older' = MovedToEnd(k)
        /\ entry' = [entry EXCEPT ![k] = call[p].page]
        /\ total' = total + size /\ capBytes' = [capBytes EXCEPT ![c] = @ + size]
        /\ call[p].phase = "evict"
        /\ capBytes[c] + size <= CapLimit[c] /\ total + size <= TotalLimit
    BY DEF InsertPage, Fits, Limit
  <1>2. k \in Requests /\ size \in Nat /\ call[p].page \in Pages /\ c \in Capabilities
        /\ k \notin held /\ call[p].page.good
    BY <1>1, LimitsAssumption DEF PageTypeOK, PutInv, Pages, LimitsAssumption
  <1> HIDE DEF k, c, size
  <1>3. entry' \in [Requests -> Pages] /\ entry'[k] = call[p].page /\ entry'[k].size = size
        /\ \A j \in held : entry'[j] = entry[j]
    BY <1>1, <1>2 DEF CacheOK, size
  <1>4. IsFiniteSet(Bytes(held', entry')) /\ total' = Cardinality(Bytes(held', entry'))
    <2>1. IsFiniteSet(Bytes(held, entry)) /\ total = Cardinality(Bytes(held, entry))
          /\ (\A j \in held : entry[j] = entry'[j]) /\ entry'[k].size \in Nat
      BY <1>2, <1>3 DEF CacheOK, CountInv
    <2>2. ASSUME NEW e, e = entry'
          PROVE  IsFiniteSet(Bytes(held \cup {k}, e))
                 /\ Cardinality(Bytes(held \cup {k}, e)) = Cardinality(Bytes(held, entry)) + e[k].size
      <3>1. Bytes(held, e) = Bytes(held, entry) /\ e[k].size \in Nat
        BY <2>1, <2>2 DEF Bytes
      <3>2. k \notin held /\ IsFiniteSet(Bytes(held, e))
        BY <1>2, <2>1, <3>1
      <3>3. IsFiniteSet(Bytes(held \cup {k}, e))
            /\ Cardinality(Bytes(held \cup {k}, e)) = Cardinality(Bytes(held, e)) + e[k].size
        BY <3>1, <3>2, BytesAdded
      <3>4. QED
        BY <3>1, <3>3
    <2>3. QED
      BY <1>1, <1>3, <2>1, <2>2
  <1>5. ASSUME NEW d \in Capabilities
        PROVE  capBytes'[d] = Cardinality(Bytes(HeldOf(d)', entry'))
               /\ capBytes'[d] \in Nat /\ capBytes'[d] <= CapLimit[d]
    <2>1. IsFiniteSet(Bytes(HeldOf(d), entry)) /\ capBytes[d] = Cardinality(Bytes(HeldOf(d), entry))
          /\ capBytes[d] \in Nat /\ capBytes[d] <= CapLimit[d]
      <3>1. Bytes(HeldOf(d), entry) \subseteq Bytes(held, entry)
        BY DEF Bytes, HeldOf
      <3>2. QED
        BY <3>1, FS_Subset DEF CacheOK, CountInv, WithinLimits
    <2>2. k \notin HeldOf(d) /\ \A j \in HeldOf(d) : entry[j] = entry'[j]
      BY <1>2, <1>3 DEF HeldOf
    <2>3. CASE d = c
      <3>1. HeldOf(d)' = HeldOf(d) \cup {k} /\ capBytes'[d] = capBytes[d] + size
        BY <1>1, <2>3 DEF HeldOf, CacheOK, c
      <3>2. Cardinality(Bytes(HeldOf(d) \cup {k}, entry'))
              = Cardinality(Bytes(HeldOf(d), entry)) + entry'[k].size
        <4>1. ASSUME NEW e, e = entry'
              PROVE  Cardinality(Bytes(HeldOf(d) \cup {k}, e))
                       = Cardinality(Bytes(HeldOf(d), entry)) + e[k].size
          <5>1. Bytes(HeldOf(d), e) = Bytes(HeldOf(d), entry) /\ e[k].size \in Nat
            BY <1>2, <1>3, <2>2, <4>1 DEF Bytes
          <5>2. IsFiniteSet(Bytes(HeldOf(d), e))
            BY <2>1, <5>1
          <5>3. Cardinality(Bytes(HeldOf(d) \cup {k}, e))
                  = Cardinality(Bytes(HeldOf(d), e)) + e[k].size
            BY <2>2, <5>1, <5>2, BytesAdded
          <5>4. QED
            BY <5>1, <5>3
        <4>2. QED
          BY <4>1
      <3>3. capBytes'[d] = Cardinality(Bytes(HeldOf(d)', entry'))
        BY <1>3, <2>1, <3>1, <3>2
      <3>4. QED
        BY <1>1, <1>2, <2>1, <2>3, <3>1, <3>3
    <2>4. CASE d # c
      <3>1. HeldOf(d)' = HeldOf(d) /\ capBytes'[d] = capBytes[d]
        BY <1>1, <2>4 DEF HeldOf, CacheOK, c
      <3>2. Bytes(HeldOf(d), entry') = Bytes(HeldOf(d), entry)
        BY <2>2 DEF Bytes
      <3>3. QED
        BY <2>1, <3>1, <3>2
    <2>5. QED
      BY <2>3, <2>4
  <1>6. capBytes' \in [Capabilities -> Nat] /\ total' \in Nat /\ WithinLimits'
    BY <1>1, <1>2, <1>5 DEF CacheOK, WithinLimits
  <1>7. OrderInv'
    <2> SUFFICES ASSUME NEW S \in SUBSET held', S # {} PROVE Oldest(S)' # {}
      BY DEF OrderInv
    <2>1. \A x \in S : x # k => (\A j : <<j, x>> \in older' => <<j, x>> \in older /\ j # k)
      BY <1>1 DEF MovedToEnd, Without
    <2>2. CASE S \ {k} = {}
      <3>1. <<k, k>> \notin older' /\ S = {k}
        BY <1>1, <2>2 DEF MovedToEnd, Without
      <3>2. QED
        BY <3>1 DEF Oldest
    <2>3. CASE S \ {k} # {}
      <3>1. PICK x \in S \ {k} : \A j \in S \ {k} : <<j, x>> \notin older
        BY <1>1, <2>3 DEF CacheOK, OrderInv, Oldest
      <3>2. \A j \in S : <<j, x>> \notin older'
        BY <2>1, <3>1
      <3>3. QED
        BY <3>1, <3>2 DEF Oldest
    <2>4. QED
      BY <2>2, <2>3
  <1>8. older' \subseteq held' \X held' /\ GoodInv' /\ held' \subseteq Requests
    BY <1>1, <1>2, <1>3 DEF CacheOK, MovedToEnd, Without, GoodInv
  <1>9. QED
    BY <1>3, <1>4, <1>5, <1>6, <1>7, <1>8 DEF CacheOK, CountInv

\* Using an entry changes the order only, and leaves it one.
LEMMA UseKeeps ==
  ASSUME CacheOK, NEW k \in held, older' = MovedToEnd(k),
         UNCHANGED <<held, entry, total, capBytes>>
  PROVE  CacheOK'
  <1>1. OrderInv'
    <2> SUFFICES ASSUME NEW S \in SUBSET held, S # {} PROVE Oldest(S)' # {}
      BY DEF OrderInv
    <2>1. \A x \in S : x # k => (\A j : <<j, x>> \in older' => <<j, x>> \in older /\ j # k)
      BY DEF MovedToEnd, Without
    <2>2. CASE S \ {k} = {}
      <3>1. <<k, k>> \notin older' /\ S = {k}
        BY <2>2 DEF MovedToEnd, Without
      <3>2. QED
        BY <3>1 DEF Oldest
    <2>3. CASE S \ {k} # {}
      <3>1. PICK x \in S \ {k} : \A j \in S \ {k} : <<j, x>> \notin older
        BY <2>3 DEF CacheOK, OrderInv, Oldest
      <3>2. \A j \in S : <<j, x>> \notin older'
        BY <2>1, <3>1
      <3>3. QED
        BY <3>1, <3>2 DEF Oldest
    <2>4. QED
      BY <2>2, <2>3
  <1>2. older' \subseteq held' \X held'
    BY DEF CacheOK, MovedToEnd, Without
  <1>3. \A d : HeldOf(d)' = HeldOf(d)
    BY DEF HeldOf
  <1>4. CountInv' /\ WithinLimits' /\ GoodInv'
    BY <1>3 DEF CacheOK, CountInv, WithinLimits, GoodInv
  <1>5. QED
    BY <1>1, <1>2, <1>4 DEF CacheOK

LEMMA SameKeeps == CacheOK /\ UNCHANGED cache => CacheOK'
  <1> SUFFICES ASSUME CacheOK, UNCHANGED cache PROVE CacheOK'
    OBVIOUS
  <1>1. (\A d : HeldOf(d)' = HeldOf(d)) /\ (\A S : Oldest(S)' = Oldest(S))
    BY DEF cache, HeldOf, Oldest
  <1>2. QED
    BY <1>1 DEF cache, CacheOK, CountInv, WithinLimits, OrderInv, GoodInv

LEMMA ClearKeeps ==
  ASSUME CacheOK, ClearCache
  PROVE  CacheOK'
  <1>1. /\ held' = {} /\ older' = {} /\ entry' = entry
        /\ total' = 0 /\ capBytes' = [c \in Capabilities |-> 0]
    BY DEF ClearCache
  <1>2. \A d : HeldOf(d)' = {}
    BY <1>1 DEF HeldOf
  <1>3. CountInv'
    BY <1>1, <1>2, NoBytes DEF CountInv
  <1>4. WithinLimits' /\ OrderInv' /\ GoodInv'
    BY <1>1, LimitsAssumption DEF WithinLimits, OrderInv, GoodInv, LimitsAssumption
  <1>5. QED
    BY <1>1, <1>3, <1>4 DEF CacheOK

----------------------------------------------------------------------------
(* What happens to the calls                                                *)

Calls == [phase : Phases, outcome : Outcomes, request : Requests \cup {NoOne}, page : Pages]

CallsOK ==
  /\ call \in [Callers -> Calls] /\ lock \in Callers \cup {NoOne} /\ now \in 0..MaxNow
  /\ \A p \in Callers : call[p].phase = "idle" \/ call[p].request \in Requests
  /\ PutInv

\* p's call is replaced, no key is added unless p has the lock, and the lock
\* goes to p, is freed by p, or stays.
LEMMA CallKeeps ==
  ASSUME CallsOK, NEW p \in Callers, NEW X \in Calls, call' = [call EXCEPT ![p] = X],
         held' \subseteq held \/ lock = p, now' = now,
         X.phase = "idle" \/ X.request \in Requests,
         X.outcome # "cache_error",
         X.phase \in {"put", "lock", "evict"} => X.page.good,
         X.phase \in {"lock", "evict"} => X.page.size <= CapLimit[CapabilityOf[X.request]],
         X.phase = "evict" => lock' = p /\ X.request \notin held',
         lock' \in {lock, p, NoOne},
         lock' # lock => lock \in {NoOne, p}
  PROVE  CallsOK'
  <1>1. call' \in [Callers -> Calls] /\ call'[p] = X
        /\ \A q \in Callers : q # p => call'[q] = call[q]
    BY DEF CallsOK
  <1>2. PutInv'
    <2> SUFFICES ASSUME NEW q \in Callers
                 PROVE /\ call'[q].phase \in {"put", "lock", "evict"} => call'[q].page.good
                       /\ call'[q].phase \in {"lock", "evict"}
                            => call'[q].page.size <= CapLimit[CapabilityOf[call'[q].request]]
                       /\ call'[q].phase = "evict" => lock' = q /\ call'[q].request \notin held'
                       /\ call'[q].outcome # "cache_error"
      BY DEF PutInv, Limit
    <2>1. CASE q = p
      BY <1>1, <2>1
    <2>2. CASE q # p
      <3>1. call'[q] = call[q]
        BY <1>1, <2>2
      <3>2. call[q].phase = "evict" => lock = q /\ q # NoOne
        BY LimitsAssumption DEF CallsOK, PutInv, LimitsAssumption
      <3>3. call[q].phase = "evict" => lock' = q /\ held' \subseteq held
        BY <2>2, <3>2
      <3>4. QED
        BY <3>1, <3>3 DEF CallsOK, PutInv, Limit
    <2>3. QED
      BY <2>1, <2>2
  <1>3. lock' \in Callers \cup {NoOne} /\ now' \in 0..MaxNow
    BY DEF CallsOK
  <1>4. \A q \in Callers : call'[q].phase = "idle" \/ call'[q].request \in Requests
    BY <1>1 DEF CallsOK
  <1>5. QED
    BY <1>1, <1>2, <1>3, <1>4 DEF CallsOK

\* A query that ends.
LEMMA EndKeeps ==
  ASSUME CallsOK, NEW p \in Callers, NEW outcome \in Outcomes, outcome # "cache_error",
         call[p].phase # "idle", Ends(p, outcome), held' \subseteq held \/ lock = p, now' = now,
         lock' \in {lock, NoOne}, lock' # lock => lock = p
  PROVE  CallsOK'
  <1> DEFINE X == [[[call[p] EXCEPT !.phase = "done"] EXCEPT !.outcome = outcome]
                     EXCEPT !.page = Blank]
  <1>1. call[p] \in Calls /\ call[p].request \in Requests
    BY DEF CallsOK
  <1>2. Blank \in Pages
    BY DEF Blank, Pages
  <1>3. X \in Calls /\ X.phase = "done" /\ X.outcome = outcome /\ X.request = call[p].request
    BY <1>1, <1>2 DEF Calls, Phases
  <1>4. call' = [call EXCEPT ![p] = X]
    BY <1>1 DEF CallsOK, Ends, Calls
  <1> HIDE DEF X
  <1>5. QED
    BY <1>1, <1>3, <1>4, CallKeeps

----------------------------------------------------------------------------
(* The invariant is kept                                                    *)

LEMMA Parts == IInv <=> CacheOK /\ CallsOK
  BY DEF IInv, PageTypeOK, CacheOK, CallsOK, Calls

LEMMA InitOK == PageInit => IInv
  <1> SUFFICES ASSUME PageInit PROVE IInv
    OBVIOUS
  <1>1. Blank \in Pages /\ Idle \in Calls /\ Idle.phase = "idle" /\ Idle.outcome = "none"
    BY DEF Blank, Idle, Calls, Pages, Phases, Outcomes
  <1>2. PageTypeOK
    BY <1>1, LimitsAssumption DEF PageInit, PageTypeOK, Calls, LimitsAssumption
  <1>3. \A d : HeldOf(d) = {}
    BY DEF PageInit, HeldOf
  <1>4. CountInv
    BY <1>3, NoBytes DEF PageInit, CountInv
  <1>5. WithinLimits
    BY LimitsAssumption DEF PageInit, WithinLimits, LimitsAssumption
  <1>6. OrderInv /\ GoodInv
    BY DEF PageInit, OrderInv, GoodInv
  <1>7. PutInv
    BY <1>1 DEF PageInit, PutInv
  <1>8. QED
    BY <1>2, <1>4, <1>5, <1>6, <1>7 DEF IInv

\* Eviction always finds an entry: a page that does not fit although it is
\* within the limit finds others of its capability, and the total is no
\* smaller than any limit.
LEMMA RoomToMake ==
  ASSUME CacheOK, CallsOK, NEW p \in Callers, call[p].phase = "evict"
  PROVE  /\ ~Fits(p) => Oldest(HeldOf(CapabilityOf[call[p].request])) # {}
         /\ total + call[p].page.size > TotalLimit => Oldest(held) # {}
  <1> DEFINE c == CapabilityOf[call[p].request]
             size == call[p].page.size
  <1>1. call[p] \in Calls /\ call[p].request \in Requests
    BY DEF CallsOK
  <1>2. c \in Capabilities /\ size \in Nat /\ CapLimit[c] \in Nat /\ TotalLimit \in Nat
        /\ CapLimit[c] <= TotalLimit /\ size <= CapLimit[c]
    BY <1>1, LimitsAssumption DEF CallsOK, PutInv, Limit, Calls, Pages, LimitsAssumption
  <1> HIDE DEF size
  <1>3. ASSUME ~Fits(p) PROVE Oldest(HeldOf(c)) # {}
    <2>1. capBytes[c] + size > CapLimit[c] /\ capBytes[c] \in Nat
      BY <1>2, <1>3 DEF Fits, Limit, CacheOK, size
    <2>2. capBytes[c] # 0
      BY <1>2, <2>1
    <2>3. capBytes[c] = Cardinality(Bytes(HeldOf(c), entry))
      BY <1>2 DEF CacheOK, CountInv
    <2>4. HeldOf(c) # {}
      BY <2>2, <2>3, NoBytes
    <2>5. QED
      BY <2>4 DEF CacheOK, OrderInv, HeldOf
  <1>4. ASSUME total + size > TotalLimit PROVE Oldest(held) # {}
    <2>1. total # 0
      BY <1>2, <1>4 DEF CacheOK
    <2>2. held # {}
      BY <2>1, NoBytes DEF CacheOK, CountInv
    <2>3. QED
      BY <2>2 DEF CacheOK, OrderInv
  <1>5. QED
    BY <1>3, <1>4 DEF size

\* So a step of eviction removes one entry and nothing else.
LEMMA EvictRemoves ==
  ASSUME CacheOK, CallsOK, NEW p \in Callers, EvictCapability(p) \/ EvictTotal(p)
  PROVE  (\E k \in held : RemoveEntry(k)) /\ UNCHANGED <<lock, call, now>>
  <1>1. call[p].phase = "evict"
    BY DEF EvictCapability, EvictTotal
  <1>2. CASE EvictCapability(p)
    <2>1. Oldest(HeldOf(CapabilityOf[call[p].request])) # {}
      BY <1>1, <1>2, RoomToMake DEF EvictCapability
    <2>2. QED
      BY <1>2, <2>1 DEF EvictCapability, Evict, Oldest, HeldOf
  <1>3. CASE EvictTotal(p)
    <2>1. Oldest(held) # {}
      BY <1>1, <1>3, RoomToMake DEF EvictTotal
    <2>2. QED
      BY <1>3, <2>1 DEF EvictTotal, Evict, Oldest
  <1>4. QED
    BY <1>2, <1>3

LEMMA NextKeeps == IInv /\ [PageNext]_pageVars => IInv'
  <1> SUFFICES ASSUME IInv, [PageNext]_pageVars PROVE CacheOK' /\ CallsOK'
    BY DEF IInv, PageTypeOK, CacheOK, CallsOK, Calls
  <1>1. CacheOK /\ CallsOK /\ PageTypeOK /\ PutInv
    BY Parts DEF IInv
  <1>2. ASSUME NEW p \in Callers
        PROVE  call[p] \in Calls /\ (call[p].phase # "idle" => call[p].request \in Requests)
    BY <1>1 DEF CallsOK
  <1>3. ASSUME NEW p \in Callers, Ask(p) PROVE CacheOK' /\ CallsOK'
    <2>1. PICK r \in Requests : call' = [call EXCEPT ![p] = [Idle EXCEPT !.phase = "get", !.request = r]]
      BY <1>3 DEF Ask
    <2> DEFINE X == [Idle EXCEPT !.phase = "get", !.request = r]
    <2>2. X \in Calls /\ X.phase = "get" /\ X.outcome = "none" /\ X.request = r
      BY DEF Idle, Blank, Calls, Pages, Phases, Outcomes
    <2>3. UNCHANGED <<cache, lock, now>> /\ held' = held
      BY <1>3 DEF Ask, cache
    <2> HIDE DEF X
    <2>4. QED
      BY <1>1, <2>1, <2>2, <2>3, CallKeeps, SameKeeps DEF X
  <1>4. ASSUME NEW p \in Callers, GetHit(p) PROVE CacheOK' /\ CallsOK'
    <2>1. /\ call[p].request \in held /\ older' = MovedToEnd(call[p].request)
          /\ UNCHANGED <<held, entry, total, capBytes, lock, now>>
          /\ entry[call[p].request].good /\ call[p].phase = "get"
      BY <1>1, <1>4 DEF GetHit, CacheOK, GoodInv
    <2>2. Ends(p, "page")
      BY <1>4, <2>1 DEF GetHit
    <2>3. CacheOK'
      BY <1>1, <2>1, UseKeeps
    <2>4. "page" \in Outcomes /\ "page" # "cache_error"
      BY DEF Outcomes
    <2>5. QED
      BY <1>1, <2>1, <2>2, <2>3, <2>4, EndKeeps
  <1>5. ASSUME NEW p \in Callers, GetExpired(p) \/ GetMiss(p) PROVE CacheOK' /\ CallsOK'
    <2> DEFINE X == [call[p] EXCEPT !.phase = "load"]
    <2>1. call[p].phase = "get" /\ call' = [call EXCEPT ![p] = X] /\ lock' = lock /\ now' = now
      BY <1>1, <1>5 DEF GetExpired, GetMiss, CallsOK
    <2>2. X \in Calls /\ X.phase = "load" /\ X.outcome = call[p].outcome
          /\ X.request = call[p].request
      BY <1>2 DEF Calls, Phases
    <2>3. CacheOK' /\ held' \subseteq held
      <3>1. CASE GetExpired(p)
        <4>1. call[p].request \in held /\ RemoveEntry(call[p].request)
          BY <3>1 DEF GetExpired
        <4>2. QED
          BY <1>1, <4>1, RemoveKeeps DEF RemoveEntry
      <3>2. CASE GetMiss(p)
        BY <1>1, <3>2, SameKeeps DEF GetMiss, cache
      <3>3. QED
        BY <1>5, <3>1, <3>2
    <2>4. X.outcome # "cache_error"
      BY <1>1, <2>2 DEF CallsOK, PutInv
    <2> HIDE DEF X
    <2>5. QED
      BY <1>1, <1>2, <2>1, <2>2, <2>3, <2>4, CallKeeps
  <1>6. ASSUME NEW p \in Callers, LoadFails(p) PROVE CacheOK' /\ CallsOK'
    <2>1. "provider_error" \in Outcomes /\ "provider_error" # "cache_error"
      BY DEF Outcomes
    <2>2. UNCHANGED <<cache, lock, now>> /\ held' = held /\ call[p].phase # "idle"
          /\ Ends(p, "provider_error")
      BY <1>6 DEF LoadFails, cache
    <2>3. QED
      BY <1>1, <2>1, <2>2, EndKeeps, SameKeeps
  <1>7. ASSUME NEW p \in Callers, Load(p) PROVE CacheOK' /\ CallsOK'
    <2>1. UNCHANGED <<cache, lock, now>> /\ held' = held /\ call[p].phase = "load"
      BY <1>7 DEF Load, cache
    <2>2. PICK size \in PageSizes, good \in BOOLEAN :
            IF good
            THEN call' = [call EXCEPT ![p].phase = "put",
                              ![p].page = [Blank EXCEPT !.size = size, !.good = good]]
            ELSE Ends(p, "contract_error")
      BY <1>7 DEF Load
    <2>3. CASE good
      <3> DEFINE pg == [Blank EXCEPT !.size = size, !.good = good]
                 X == [call[p] EXCEPT !.phase = "put", !.page = pg]
      <3>1. pg \in Pages /\ pg.good
        BY <2>3, LimitsAssumption DEF Blank, Pages, LimitsAssumption
      <3>2. call' = [call EXCEPT ![p] = X]
        BY <1>1, <1>2, <2>2, <2>3 DEF CallsOK, Calls, Pages
      <3> HIDE DEF pg
      <3>3. X \in Calls /\ X.phase = "put" /\ X.outcome = call[p].outcome /\ X.page = pg
            /\ X.request = call[p].request
        BY <1>2, <3>1 DEF Calls, Phases
      <3>4. X.outcome # "cache_error"
        BY <1>1, <3>3 DEF CallsOK, PutInv
      <3> HIDE DEF X
      <3>5. QED
        BY <1>1, <1>2, <2>1, <3>1, <3>2, <3>3, <3>4, CallKeeps, SameKeeps
    <2>4. CASE ~good
      <3>1. "contract_error" \in Outcomes /\ "contract_error" # "cache_error"
            /\ Ends(p, "contract_error")
        BY <2>2, <2>4 DEF Outcomes
      <3>2. QED
        BY <1>1, <2>1, <3>1, EndKeeps, SameKeeps
    <2>5. QED
      BY <2>3, <2>4
  <1>8. ASSUME NEW p \in Callers, PutCheck(p) PROVE CacheOK' /\ CallsOK'
    <2>1. UNCHANGED <<cache, lock, now>> /\ held' = held /\ call[p].phase = "put"
      BY <1>8 DEF PutCheck, cache
    <2>2. CASE call[p].page.size > Limit(p)
      <3>1. "database_error" \in Outcomes /\ "database_error" # "cache_error"
            /\ Ends(p, "database_error")
        BY <1>8, <2>2 DEF Outcomes, PutCheck
      <3>2. QED
        BY <1>1, <2>1, <3>1, EndKeeps, SameKeeps
    <2>3. CASE ~(call[p].page.size > Limit(p))
      <3> DEFINE e  == now + Ttl[CapabilityOf[call[p].request]]
                 pg == [call[p].page EXCEPT !.expires = e]
                 X  == [call[p] EXCEPT !.phase = "lock", !.page = pg]
      <3>1. e \in Nat /\ CapLimit[CapabilityOf[call[p].request]] \in Nat
        BY <1>1, <1>2, <2>1, LimitsAssumption DEF CallsOK, LimitsAssumption
      <3> HIDE DEF e
      <3>2. call[p].page \in Pages /\ call[p].page.good
        BY <1>1, <1>2, <2>1 DEF Calls, CallsOK, PutInv
      <3>3. pg \in Pages /\ pg.good /\ pg.size = call[p].page.size /\ pg.size \in Nat
        BY <3>1, <3>2 DEF Pages
      <3>4. call' = [call EXCEPT ![p] = X]
        BY <1>1, <1>2, <1>8, <2>3 DEF PutCheck, CallsOK, Calls, e
      <3> HIDE DEF pg
      <3>5. X \in Calls /\ X.phase = "lock" /\ X.outcome = call[p].outcome /\ X.page = pg
            /\ X.request = call[p].request
        BY <1>2, <3>3 DEF Calls, Phases
      <3>6. X.outcome # "cache_error"
        BY <1>1, <3>5 DEF CallsOK, PutInv
      <3>7. X.page.size <= CapLimit[CapabilityOf[X.request]]
        BY <2>3, <3>1, <3>3, <3>5 DEF Limit
      <3> HIDE DEF X
      <3>8. QED
        BY <1>1, <1>2, <2>1, <3>3, <3>4, <3>5, <3>6, <3>7, CallKeeps, SameKeeps
    <2>4. QED
      BY <2>2, <2>3
  <1>9. ASSUME NEW p \in Callers, PutReplace(p) PROVE CacheOK' /\ CallsOK'
    <2> DEFINE k == call[p].request
               X == [call[p] EXCEPT !.phase = "evict"]
    <2>1. call[p].phase = "lock" /\ call' = [call EXCEPT ![p] = X] /\ lock = NoOne /\ lock' = p
          /\ now' = now /\ (IF k \in held THEN RemoveEntry(k) ELSE UNCHANGED cache)
      BY <1>1, <1>9 DEF PutReplace, CallsOK
    <2>2. X \in Calls /\ X.phase = "evict" /\ X.outcome = call[p].outcome
          /\ X.request = k /\ X.page = call[p].page
      BY <1>2 DEF Calls, Phases
    <2>3. CacheOK' /\ held' \subseteq held /\ k \notin held'
      <3>1. CASE k \in held
        BY <1>1, <2>1, <3>1, RemoveKeeps DEF RemoveEntry
      <3>2. CASE k \notin held
        BY <1>1, <2>1, <3>2, SameKeeps DEF cache
      <3>3. QED
        BY <3>1, <3>2
    <2>4. X.outcome # "cache_error" /\ X.page.good
          /\ X.page.size <= CapLimit[CapabilityOf[X.request]]
      BY <1>1, <2>1, <2>2 DEF CallsOK, PutInv, Limit
    <2> HIDE DEF X
    <2>5. QED
      BY <1>1, <1>2, <2>1, <2>2, <2>3, <2>4, CallKeeps
  <1>10. ASSUME NEW p \in Callers, EvictCapability(p) \/ EvictTotal(p) PROVE CacheOK' /\ CallsOK'
    <2>1. PICK k \in held : RemoveEntry(k)
      BY <1>1, <1>10, EvictRemoves
    <2>2. UNCHANGED <<lock, call, now>>
      BY <1>1, <1>10, EvictRemoves
    <2>3. CacheOK' /\ held' \subseteq held
      BY <1>1, <2>1, RemoveKeeps DEF RemoveEntry
    <2>4. CallsOK'
      BY <1>1, <2>2, <2>3 DEF CallsOK, PutInv, Limit
    <2>5. QED
      BY <2>3, <2>4
  <1>11. ASSUME NEW p \in Callers, InsertPage(p) PROVE CacheOK' /\ CallsOK'
    <2>1. CacheOK'
      BY <1>1, <1>11, InsertKeeps
    <2>2. Ends(p, "page") /\ lock = p /\ lock' = NoOne /\ now' = now /\ call[p].phase = "evict"
      BY <1>11 DEF InsertPage
    <2>3. "page" \in Outcomes /\ "page" # "cache_error"
      BY DEF Outcomes
    <2>4. QED
      BY <1>1, <2>1, <2>2, <2>3, EndKeeps
  <1>12. CASE ClearCache
    <2>1. CacheOK'
      BY <1>1, <1>12, ClearKeeps
    <2>2. CallsOK'
      BY <1>1, <1>12 DEF ClearCache, CallsOK, PutInv, Limit
    <2>3. QED
      BY <2>1, <2>2
  <1>13. CASE ClockTick
    <2>1. CacheOK'
      BY <1>1, <1>13, SameKeeps DEF ClockTick
    <2>2. CallsOK'
      BY <1>1, <1>13, LimitsAssumption DEF ClockTick, CallsOK, PutInv, Limit, cache, LimitsAssumption
    <2>3. QED
      BY <2>1, <2>2
  <1>14. CASE UNCHANGED pageVars
    <2>1. CacheOK'
      BY <1>1, <1>14, SameKeeps DEF pageVars, cache
    <2>2. CallsOK'
      BY <1>1, <1>14 DEF pageVars, CallsOK, PutInv, Limit
    <2>3. QED
      BY <2>1, <2>2
  <1>15. QED
    BY <1>3, <1>4, <1>5, <1>6, <1>7, <1>8, <1>9, <1>10, <1>11, <1>12, <1>13, <1>14 DEF PageNext

LEMMA Always == PageSpec => []IInv
  BY InitOK, NextKeeps, PTL DEF PageSpec

\* Every key in the cache has its entry, the counts never go below zero and
\* the calls in flight are well typed.
THEOREM PageTypeCorrect == PageSpec => []PageTypeOK
  <1>1. IInv => PageTypeOK
    BY DEF IInv
  <1>2. QED
    BY <1>1, Always, PTL

\* The counts are the bytes of the entries held, and no limit is ever passed.
THEOREM BytesStayBounded == PageSpec => []BytesBounded
  <1>1. IInv => BytesBounded
    BY DEF IInv, CountInv, WithinLimits, BytesBounded
  <1>2. QED
    BY <1>1, Always, PTL

\* No cached page fails its check and eviction never runs out of entries.
THEOREM Honest == PageSpec => []HonestErrors
  <1>1. IInv => HonestErrors
    <2> SUFFICES ASSUME IInv PROVE HonestErrors
      OBVIOUS
    <2>1. CacheOK /\ CallsOK /\ GoodInv /\ PutInv
      BY Parts DEF IInv
    <2>2. QED
      BY <2>1, RoomToMake DEF HonestErrors, GoodInv, PutInv
  <1>2. QED
    BY <1>1, Always, PTL

-------------------------------------------------------------------------------
(*****************************************************************************)
(* The environments, for every set of threads, processes and versions and    *)
(* any number of installs and crashes: the lock of a process has one holder, *)
(* and what a marker vouches for was built.                                  *)
(*****************************************************************************)

Jobs == [stage : Stages, goal : {"none", "call", "install"}, seen : Versions \cup {Missing},
         dir : Contents \cup {Unset}, reqs : Contents \cup {Unset}, source : Versions \cup {Missing},
         print : Versions \cup {Missing}, refreshes : Nat]

Environments == [python : BOOLEAN, pip : BOOLEAN, installed : SUBSET Contents,
                 marker : Markers \cup {Unset, Torn}]

\* A thread past the naming has a directory, past the hashing the hashes.
Hashed == {"print", "check", "worker"} \cup Building

JobOK(j) ==
  /\ j.stage = "hash" => j.dir \in Contents
  /\ j.stage \in Hashed => j.dir \in Contents /\ j.reqs \in Contents /\ j.source \in Versions

JobsOK ==
  /\ disk \in Versions \cup {Missing}
  /\ work \in [EnvThreads -> Jobs]
  /\ \A t \in EnvThreads : JobOK(work[t])

VenvOK == venv \in [Contents -> Environments] /\ swapped \subseteq Contents

\* A directory got the requirements it is named for, or others in their place.
Built(c) == c \in venv[c].installed \cup swapped

\* Past the requirements of a build a directory is built, and a whole marker is
\* found only in one that is.
Vouched ==
  /\ \A t \in EnvThreads : work[t].stage \in {"again", "marker", "worker"} => Built(work[t].dir)
  /\ \A c \in Contents : venv[c].marker \in Markers => Built(c)

EnvInv == JobsOK /\ VenvOK /\ Vouched

----------------------------------------------------------------------------

LEMMA RestingIsJob == Resting \in Jobs /\ JobOK(Resting)
  BY DEF Resting, Jobs, Stages, JobOK, Hashed, Building

LEMMA ContentsOfVersion == \A v \in Versions : ReqsOf[v] \in Contents
  BY DEF Contents

LEMMA InitInv == EnvInit => EnvInv
  <1> SUFFICES ASSUME EnvInit PROVE EnvInv
    OBVIOUS
  <1>1. JobsOK
    BY RestingIsJob DEF EnvInit, JobsOK
  <1>2. NoVenv \in Environments
    BY DEF NoVenv, Environments
  <1>3. VenvOK
    BY <1>2 DEF EnvInit, VenvOK
  <1>4. Vouched
    BY EnvironmentAssumption DEF EnvInit, Vouched, Resting, NoVenv
  <1> QED
    BY <1>1, <1>3, <1>4 DEF EnvInv

\* A step of a thread changes its own job only.
OneJob(t, new) == work' = [work EXCEPT ![t] = new]

LEMMA OneJobOK ==
  ASSUME JobsOK, NEW t \in EnvThreads, NEW new \in Jobs, JobOK(new), OneJob(t, new),
         disk' \in Versions \cup {Missing}
  PROVE  JobsOK'
  <1>1. work' \in [EnvThreads -> Jobs]
    BY DEF JobsOK, OneJob
  <1>2. \A u \in EnvThreads : work'[u] = IF u = t THEN new ELSE work[u]
    BY DEF JobsOK, OneJob
  <1> QED
    BY <1>1, <1>2 DEF JobsOK

\* While no environment changes, a job may come to a built directory only from one.
LEMMA SameVenvVouched ==
  ASSUME JobsOK, Vouched, NEW t \in EnvThreads, NEW new, OneJob(t, new), UNCHANGED <<venv, swapped>>,
         new.stage \in {"again", "marker", "worker"} => Built(new.dir)
  PROVE  Vouched'
  <1>1. \A u \in EnvThreads : work'[u] = IF u = t THEN new ELSE work[u]
    BY DEF JobsOK, OneJob
  <1> QED
    BY <1>1 DEF Vouched, Built

----------------------------------------------------------------------------

LEMMA RegistrySteps ==
  ASSUME EnvInv, NEW t \in EnvThreads,
         \/ Lookup(t) \/ ReadManifests(t) \/ StoreRegistry(t) \/ Refresh(t)
         \/ InstallAll(t) \/ RemoveFiles(t) \/ PutFiles(t)
  PROVE  EnvInv'
  <1> DEFINE j == work[t]
  <1> USE DEF EnvInv
  <1>1. j \in Jobs /\ JobOK(j) /\ disk \in Versions \cup {Missing} /\ work \in [EnvThreads -> Jobs]
    BY DEF JobsOK
  <1>2. /\ UNCHANGED <<venv, swapped>> /\ disk' \in Versions \cup {Missing}
        /\ \E new \in Jobs : OneJob(t, new) /\ (new.stage \notin {"hash"} \cup Hashed)
    <2>1. CASE Lookup(t) /\ registry[ProcessOf[t]] = Unset
      <3>1. OneJob(t, [j EXCEPT !.stage = "read", !.goal = "call"])
        BY <1>1, <2>1 DEF Lookup, OneJob
      <3>2. [j EXCEPT !.stage = "read", !.goal = "call"] \in Jobs
        BY <1>1 DEF Jobs, Stages
      <3> QED
        BY <1>1, <2>1, <3>1, <3>2 DEF Lookup, Hashed, Building, Jobs
    <2>2. CASE Lookup(t) /\ registry[ProcessOf[t]] # Unset
      <3>1. \/ OneJob(t, j) /\ j.stage = "idle"
            \/ OneJob(t, [j EXCEPT !.stage = "lock", !.goal = "call"])
        BY <1>1, <2>2 DEF Lookup, OneJob, At
      <3>2. [j EXCEPT !.stage = "lock", !.goal = "call"] \in Jobs
        BY <1>1 DEF Jobs, Stages
      <3> QED
        BY <1>1, <2>2, <3>1, <3>2 DEF Lookup, Hashed, Building, Jobs
    <2>3. CASE ReadManifests(t)
      <3>1. OneJob(t, [j EXCEPT !.stage = "store", !.seen = disk])
        BY <1>1, <2>3 DEF ReadManifests, OneJob
      <3>2. [j EXCEPT !.stage = "store", !.seen = disk] \in Jobs
        BY <1>1 DEF Jobs, Stages
      <3> QED
        BY <1>1, <2>3, <3>1, <3>2 DEF ReadManifests, Hashed, Building, Jobs
    <2>4. CASE StoreRegistry(t)
      <3>1. \/ OneJob(t, [j EXCEPT !.stage = "refresh"])
            \/ OneJob(t, [j EXCEPT !.stage = "lock"])
            \/ OneJob(t, Resting)
        BY <1>1, <2>4 DEF StoreRegistry, OneJob
      <3>2. [j EXCEPT !.stage = "refresh"] \in Jobs /\ [j EXCEPT !.stage = "lock"] \in Jobs
        BY <1>1 DEF Jobs, Stages
      <3>3. /\ [j EXCEPT !.stage = "refresh"].stage = "refresh" /\ [j EXCEPT !.stage = "lock"].stage = "lock"
            /\ Resting.stage = "idle"
        BY <1>1 DEF Jobs, Resting
      <3> QED
        BY <1>1, <2>4, <3>1, <3>2, <3>3, RestingIsJob DEF StoreRegistry, Hashed, Building
    <2>5. CASE Refresh(t)
      <3>1. OneJob(t, [j EXCEPT !.stage = "read", !.refreshes = @ + 1])
        BY <1>1, <2>5 DEF Refresh, OneJob
      <3>2. [j EXCEPT !.stage = "read", !.refreshes = @ + 1] \in Jobs
        <4>1. j.refreshes + 1 \in Nat
          BY <1>1 DEF Jobs
        <4> QED
          BY <1>1, <4>1 DEF Jobs, Stages
      <3> QED
        BY <1>1, <2>5, <3>1, <3>2 DEF Refresh, Hashed, Building, Jobs
    <2>6. CASE InstallAll(t)
      <3>1. OneJob(t, [j EXCEPT !.stage = "remove", !.goal = "install"])
        BY <1>1, <2>6 DEF InstallAll, OneJob
      <3>2. [j EXCEPT !.stage = "remove", !.goal = "install"] \in Jobs
        BY <1>1 DEF Jobs, Stages
      <3> QED
        BY <1>1, <2>6, <3>1, <3>2 DEF InstallAll, Hashed, Building, Jobs
    <2>7. CASE RemoveFiles(t) \/ PutFiles(t)
      <3>1. OneJob(t, [j EXCEPT !.stage = "put"]) \/ OneJob(t, [j EXCEPT !.stage = "refresh"])
        BY <1>1, <2>7 DEF RemoveFiles, PutFiles, Moved, OneJob
      <3>2. [j EXCEPT !.stage = "put"] \in Jobs /\ [j EXCEPT !.stage = "refresh"] \in Jobs
        BY <1>1 DEF Jobs, Stages
      <3> QED
        BY <1>1, <2>7, <3>1, <3>2 DEF RemoveFiles, PutFiles, Hashed, Building, Jobs
    <2> QED
      BY <2>1, <2>2, <2>3, <2>4, <2>5, <2>6, <2>7
  <1>3. PICK new \in Jobs : OneJob(t, new) /\ new.stage \notin {"hash"} \cup Hashed
    BY <1>2
  <1>4. JobOK(new) /\ new.stage \notin {"again", "marker", "worker"}
    BY <1>3 DEF JobOK, Hashed, Building
  <1>5. JobsOK'
    BY <1>2, <1>3, <1>4, OneJobOK
  <1>6. Vouched'
    BY <1>2, <1>3, <1>4, SameVenvVouched
  <1> QED
    BY <1>2, <1>5, <1>6 DEF VenvOK

\* What a step does that leaves the environments alone: the job goes to new.
LEMMA QuietStep ==
  ASSUME EnvInv, NEW t \in EnvThreads, NEW new \in Jobs, JobOK(new), OneJob(t, new),
         UNCHANGED <<disk, venv, swapped>>,
         new.stage \in {"again", "marker", "worker"} => Built(new.dir)
  PROVE  EnvInv'
  <1>1. JobsOK'
    BY OneJobOK DEF EnvInv, JobsOK
  <1>2. Vouched'
    BY SameVenvVouched DEF EnvInv
  <1> QED
    BY <1>1, <1>2 DEF EnvInv, VenvOK

LEMMA CheckingSteps ==
  ASSUME EnvInv, NEW t \in EnvThreads,
         TakeEnvLock(t) \/ NameDirectory(t) \/ HashFiles(t) \/ Fingerprint(t) \/ Check(t)
  PROVE  EnvInv'
  <1> DEFINE j == work[t]
  <1>1. j \in Jobs /\ JobOK(j) /\ disk \in Versions \cup {Missing} /\ work \in [EnvThreads -> Jobs]
    BY DEF EnvInv, JobsOK
  <1>2. CASE TakeEnvLock(t)
    <2> DEFINE new == [j EXCEPT !.stage = "name"]
    <2>1. OneJob(t, new) /\ UNCHANGED <<disk, venv, swapped>>
      BY <1>1, <1>2 DEF TakeEnvLock, Moved, OneJob
    <2>2. new \in Jobs /\ JobOK(new) /\ new.stage = "name"
      BY <1>1 DEF Jobs, Stages, JobOK, Hashed, Building
    <2> QED
      BY <2>1, <2>2, QuietStep
  <1>3. CASE Stops(t) /\ UNCHANGED <<disk, venv, swapped>>
    <2>1. OneJob(t, Resting)
      BY <1>3 DEF Stops, OneJob
    <2>2. Resting.stage = "idle"
      BY DEF Resting
    <2> QED
      BY <1>3, <2>1, <2>2, QuietStep, RestingIsJob
  <1>4. CASE NameDirectory(t) /\ disk # Missing
    <2> DEFINE new == [j EXCEPT !.stage = "hash", !.dir = ReqsOf[disk]]
    <2>1. OneJob(t, new) /\ UNCHANGED <<disk, venv, swapped>>
      BY <1>1, <1>4 DEF NameDirectory, OneJob
    <2>2. ReqsOf[disk] \in Contents
      BY <1>1, <1>4, ContentsOfVersion
    <2>3. new \in Jobs /\ JobOK(new) /\ new.stage = "hash"
      BY <1>1, <2>2 DEF Jobs, Stages, JobOK, Hashed, Building
    <2> QED
      BY <2>1, <2>3, QuietStep
  <1>5. CASE HashFiles(t) /\ disk # Missing
    <2> DEFINE new == [j EXCEPT !.stage = "print", !.reqs = ReqsOf[disk], !.source = disk]
    <2>1. OneJob(t, new) /\ UNCHANGED <<disk, venv, swapped>> /\ j.stage = "hash"
      BY <1>1, <1>5 DEF HashFiles, OneJob, At
    <2>2. ReqsOf[disk] \in Contents /\ disk \in Versions
      BY <1>1, <1>5, ContentsOfVersion
    <2>3. new \in Jobs /\ JobOK(new) /\ new.stage = "print"
      BY <1>1, <2>1, <2>2 DEF Jobs, Stages, JobOK, Hashed, Building
    <2> QED
      BY <2>1, <2>3, QuietStep
  <1>6. CASE Fingerprint(t)
    <2>1. PICK s \in {"check", "marker"} :
            /\ OneJob(t, [j EXCEPT !.stage = s, !.print = disk])
            /\ s = "check" => j.stage = "print"
            /\ s = "marker" => j.stage = "again"
      BY <1>1, <1>6 DEF Fingerprint, OneJob, At
    <2> DEFINE new == [j EXCEPT !.stage = s, !.print = disk]
    <2>2. UNCHANGED <<disk, venv, swapped>>
      BY <1>6 DEF Fingerprint
    <2>3. new \in Jobs /\ JobOK(new) /\ new.stage = s /\ new.dir = j.dir
      BY <1>1, <2>1 DEF Jobs, Stages, JobOK, Hashed, Building
    <2>4. s = "marker" => Built(j.dir)
      BY <2>1 DEF EnvInv, Vouched
    <2> QED
      BY <2>1, <2>2, <2>3, <2>4, QuietStep
  <1>7. CASE Check(t) /\ EnvironmentReady(t)
    <2> DEFINE new == [j EXCEPT !.stage = "worker"]
    <2>1. OneJob(t, new) /\ UNCHANGED <<disk, venv, swapped>> /\ j.stage = "check"
      BY <1>1, <1>7 DEF Check, Moved, OneJob, At
    <2>2. new \in Jobs /\ JobOK(new) /\ new.dir = j.dir
      BY <1>1, <2>1 DEF Jobs, Stages, JobOK, Hashed, Building
    <2>3. j.dir \in Contents /\ j.reqs \in Contents /\ j.source \in Versions
      BY <1>1, <2>1 DEF JobOK, Hashed
    <2>4. MarkerOf(t) \in Markers
      BY <1>1, <2>3 DEF MarkerOf, Markers, Jobs, Procs
    <2>5. Built(j.dir)
      BY <1>7, <2>3, <2>4 DEF EnvironmentReady, EnvInv, Vouched
    <2> QED
      BY <2>1, <2>2, <2>5, QuietStep
  <1>8. CASE Check(t) /\ ~EnvironmentReady(t)
    <2> DEFINE new == [j EXCEPT !.stage = "create"]
    <2>1. OneJob(t, new) /\ UNCHANGED <<disk, venv, swapped>> /\ j.stage = "check"
      BY <1>1, <1>8 DEF Check, Moved, OneJob, At
    <2>2. new \in Jobs /\ JobOK(new) /\ new.stage = "create"
      BY <1>1, <2>1 DEF Jobs, Stages, JobOK, Hashed, Building
    <2> QED
      BY <2>1, <2>2, QuietStep
  <1> QED
    BY <1>2, <1>3, <1>4, <1>5, <1>6, <1>7, <1>8 DEF NameDirectory, HashFiles

\* A step that changes one environment, adding to what is installed.
LEMMA BuildingStep ==
  ASSUME EnvInv, NEW t \in EnvThreads, NEW new \in Jobs, JobOK(new), OneJob(t, new), UNCHANGED disk,
         NEW d \in Contents, NEW e \in Environments, venv' = [venv EXCEPT ![d] = e],
         venv[d].installed \subseteq e.installed, swapped \subseteq swapped', swapped' \subseteq Contents,
         e.marker \in Markers => d \in e.installed \cup swapped',
         new.stage \in {"again", "marker", "worker"} => Built(new.dir) \/ (new.dir = d /\ d \in e.installed \cup swapped')
  PROVE  EnvInv'
  <1>1. JobsOK'
    BY OneJobOK DEF EnvInv, JobsOK
  <1>2. VenvOK'
    BY DEF EnvInv, VenvOK
  <1>3. \A c \in Contents : venv'[c] = IF c = d THEN e ELSE venv[c]
    BY DEF EnvInv, VenvOK
  <1>4. \A c \in Contents : Built(c) => Built(c)'
    BY <1>3 DEF Built
  <1>5. d \in e.installed \cup swapped' => Built(d)'
    BY <1>3 DEF Built
  <1>6. \A u \in EnvThreads : work'[u] = IF u = t THEN new ELSE work[u]
    BY DEF EnvInv, JobsOK, OneJob
  <1>7. \A u \in EnvThreads : work[u].stage \in Hashed => work[u].dir \in Contents
    BY DEF EnvInv, JobsOK, JobOK
  <1>8. {"again", "marker", "worker"} \subseteq Hashed
    BY DEF Hashed, Building
  <1>9. new.stage \in {"again", "marker", "worker"} => new.dir \in Contents
    BY <1>8 DEF JobOK
  <1>10. Vouched'
    <2>1. ASSUME NEW u \in EnvThreads, work'[u].stage \in {"again", "marker", "worker"}
          PROVE  Built(work[u].dir)'
      BY <1>4, <1>5, <1>6, <1>7, <1>8, <1>9, <2>1 DEF EnvInv, Vouched, Built
    <2>2. ASSUME NEW c \in Contents, venv'[c].marker \in Markers PROVE Built(c)'
      BY <1>3, <1>4, <1>5, <2>2 DEF EnvInv, Vouched, Built
    <2> QED
      BY <2>1, <2>2 DEF Vouched, Markers, Contents, Procs
  <1> QED
    BY <1>1, <1>2, <1>10 DEF EnvInv

LEMMA BuildingSteps ==
  ASSUME EnvInv, NEW t \in EnvThreads,
         \/ CreateVenv(t) \/ EnsurePip(t) \/ InstallRuntime(t) \/ InstallRequirements(t)
         \/ BuildFails(t) \/ OpenMarker(t) \/ WriteMarker(t) \/ WorkerEnds(t)
  PROVE  EnvInv'
  <1> DEFINE j == work[t]
             d == j.dir
             env == venv[d]
  <1>1. j \in Jobs /\ JobOK(j) /\ disk \in Versions \cup {Missing} /\ work \in [EnvThreads -> Jobs]
    BY DEF EnvInv, JobsOK
  <1>2. ASSUME j.stage \in Hashed
        PROVE  /\ d \in Contents /\ j.reqs \in Contents /\ j.source \in Versions
               /\ env \in Environments
    BY <1>1, <1>2 DEF JobOK, EnvInv, VenvOK
  <1>3. ASSUME j.stage \in Hashed, NEW s \in {"ensurepip", "runtime", "requirements", "again", "marker", "worker"}
        PROVE  /\ [j EXCEPT !.stage = s] \in Jobs /\ JobOK([j EXCEPT !.stage = s])
               /\ [j EXCEPT !.stage = s].stage = s /\ [j EXCEPT !.stage = s].dir = d
    BY <1>1, <1>2, <1>3 DEF Jobs, Stages, JobOK, Hashed, Building
  <1>4. env \in Environments /\ d \in Contents => (env.marker \in Markers => d \in env.installed \cup swapped)
    BY DEF EnvInv, Vouched, Built
  <1>5. swapped \subseteq Contents
    BY DEF EnvInv, VenvOK
  <1>6. CASE CreateVenv(t) /\ env.python
    <2>1. OneJob(t, [j EXCEPT !.stage = "runtime"]) /\ UNCHANGED <<disk, venv, swapped>> /\ j.stage \in Hashed
      BY <1>1, <1>6 DEF CreateVenv, Moved, OneJob, At, Hashed, Building
    <2> QED
      BY <1>3, <2>1, QuietStep
  <1>7. CASE CreateVenv(t) /\ ~env.python
    <2> DEFINE e == [env EXCEPT !.python = TRUE]
               new == [j EXCEPT !.stage = "ensurepip"]
    <2>1. /\ OneJob(t, new) /\ UNCHANGED <<disk, swapped>> /\ j.stage \in Hashed
          /\ venv' = [venv EXCEPT ![d] = e]
      BY <1>1, <1>7 DEF CreateVenv, Moved, OneJob, At, Hashed, Building
    <2>2. e \in Environments /\ e.marker = env.marker /\ e.installed = env.installed
      BY <1>2, <2>1 DEF Environments
    <2>3. new \in Jobs /\ JobOK(new) /\ new.stage = "ensurepip" /\ d \in Contents
      BY <1>2, <1>3, <2>1
    <2>4. e.marker \in Markers => d \in e.installed \cup swapped'
      BY <1>2, <1>4, <2>1, <2>2
    <2> HIDE DEF e, new
    <2> QED
      BY <1>5, <2>1, <2>2, <2>3, <2>4, BuildingStep
  <1>8. CASE EnsurePip(t)
    <2> DEFINE e == [env EXCEPT !.pip = TRUE]
               new == [j EXCEPT !.stage = "runtime"]
    <2>1. /\ OneJob(t, new) /\ UNCHANGED <<disk, swapped>> /\ j.stage \in Hashed
          /\ venv' = [venv EXCEPT ![d] = e]
      BY <1>1, <1>8 DEF EnsurePip, Moved, OneJob, At, Hashed, Building
    <2>2. e \in Environments /\ e.marker = env.marker /\ e.installed = env.installed
      BY <1>2, <2>1 DEF Environments
    <2>3. new \in Jobs /\ JobOK(new) /\ new.stage = "runtime" /\ d \in Contents
      BY <1>2, <1>3, <2>1
    <2>4. e.marker \in Markers => d \in e.installed \cup swapped'
      BY <1>2, <1>4, <2>1, <2>2
    <2> HIDE DEF e, new
    <2> QED
      BY <1>5, <2>1, <2>2, <2>3, <2>4, BuildingStep
  <1>9. CASE InstallRuntime(t)
    <2>1. OneJob(t, [j EXCEPT !.stage = "requirements"]) /\ UNCHANGED <<disk, venv, swapped>> /\ j.stage \in Hashed
      BY <1>1, <1>9 DEF InstallRuntime, Moved, OneJob, At, Hashed, Building
    <2> QED
      BY <1>3, <2>1, QuietStep
  <1>10. CASE InstallRequirements(t)
    <2> DEFINE e == [env EXCEPT !.installed = @ \cup {ReqsOf[disk]}]
               new == [j EXCEPT !.stage = "again"]
    <2>1. /\ OneJob(t, new) /\ UNCHANGED disk /\ j.stage \in Hashed /\ disk # Missing
          /\ venv' = [venv EXCEPT ![d] = e]
          /\ swapped' = IF ReqsOf[disk] # d THEN swapped \cup {d} ELSE swapped
      BY <1>1, <1>10 DEF InstallRequirements, Moved, OneJob, At, Hashed, Building
    <2>2. d \in Contents /\ ReqsOf[disk] \in Contents
      BY <1>1, <1>2, <2>1, ContentsOfVersion
    <2>3. e \in Environments /\ e.installed = env.installed \cup {ReqsOf[disk]}
      BY <1>2, <2>1, <2>2 DEF Environments
    <2>4. d \in e.installed \cup swapped'
      BY <2>1, <2>3
    <2>5. new \in Jobs /\ JobOK(new) /\ new.dir = d
      BY <1>3, <2>1
    <2>6. swapped \subseteq swapped' /\ swapped' \subseteq Contents
      BY <1>5, <2>1, <2>2
    <2> HIDE DEF e, new
    <2> QED
      BY <2>1, <2>2, <2>3, <2>4, <2>5, <2>6, BuildingStep
  <1>11. CASE BuildFails(t) \/ WorkerEnds(t)
    <2>1. OneJob(t, Resting) /\ UNCHANGED <<disk, venv, swapped>>
      BY <1>11 DEF BuildFails, WorkerEnds, Stops, OneJob
    <2>2. Resting.stage = "idle"
      BY DEF Resting
    <2> QED
      BY <2>1, <2>2, QuietStep, RestingIsJob
  <1>12. CASE OpenMarker(t)
    <2> DEFINE e == [env EXCEPT !.marker = Torn]
    <2>1. /\ OneJob(t, j) /\ UNCHANGED <<disk, swapped>> /\ j.stage = "marker"
          /\ venv' = [venv EXCEPT ![d] = e]
      BY <1>1, <1>12 DEF OpenMarker, OneJob, At
    <2>2. j.stage \in Hashed
      BY <2>1 DEF Hashed, Building
    <2>3. e \in Environments /\ e.installed = env.installed /\ e.marker = Torn
      BY <1>2, <2>2 DEF Environments
    <2>4. Built(d)
      BY <2>1 DEF EnvInv, Vouched
    <2>5. d \in e.installed \cup swapped'
      BY <2>1, <2>3, <2>4 DEF Built
    <2>6. d \in Contents /\ env.installed \subseteq e.installed
      BY <1>2, <2>2, <2>3
    <2> HIDE DEF e
    <2> QED
      BY <1>1, <1>5, <2>1, <2>3, <2>4, <2>5, <2>6, BuildingStep
  <1>13. CASE WriteMarker(t)
    <2> DEFINE e == [env EXCEPT !.marker = MarkerOf(t)]
               new == [j EXCEPT !.stage = "worker"]
    <2>1. /\ OneJob(t, new) /\ UNCHANGED <<disk, swapped>> /\ j.stage = "marker"
          /\ venv' = [venv EXCEPT ![d] = e]
      BY <1>1, <1>13 DEF WriteMarker, Moved, OneJob, At
    <2>2. j.stage \in Hashed
      BY <2>1 DEF Hashed, Building
    <2>3. MarkerOf(t) \in Markers
      BY <1>1, <1>2, <2>2 DEF MarkerOf, Markers, Jobs, Procs
    <2>4. e \in Environments /\ e.installed = env.installed
      BY <1>2, <2>2, <2>3 DEF Environments
    <2>5. Built(d)
      BY <2>1 DEF EnvInv, Vouched
    <2>6. d \in e.installed \cup swapped'
      BY <2>1, <2>4, <2>5 DEF Built
    <2>7. new \in Jobs /\ JobOK(new) /\ new.dir = d /\ d \in Contents /\ env.installed \subseteq e.installed
      BY <1>2, <1>3, <2>2, <2>4
    <2> HIDE DEF e, new
    <2> QED
      BY <1>5, <2>1, <2>4, <2>6, <2>7, BuildingStep
  <1> QED
    BY <1>6, <1>7, <1>8, <1>9, <1>10, <1>11, <1>12, <1>13

LEMMA CrashStep ==
  ASSUME EnvInv, NEW p \in Procs, ProcessCrashes(p)
  PROVE  EnvInv'
  <1>1. \A u \in EnvThreads : work'[u] = Resting \/ work'[u] = work[u]
    BY DEF ProcessCrashes
  <1>2. work' \in [EnvThreads -> Jobs]
    BY RestingIsJob DEF ProcessCrashes, EnvInv, JobsOK
  <1>3. UNCHANGED <<disk, venv, swapped>>
    BY DEF ProcessCrashes
  <1>4. JobsOK'
    BY <1>1, <1>2, <1>3, RestingIsJob DEF EnvInv, JobsOK
  <1>5. Resting.stage = "idle"
    BY DEF Resting
  <1>6. Vouched'
    BY <1>1, <1>3, <1>5 DEF EnvInv, Vouched, Built
  <1> QED
    BY <1>3, <1>4, <1>6 DEF EnvInv, VenvOK

LEMMA StepInv == EnvInv /\ [EnvNext]_envVars => EnvInv'
  <1>1. CASE UNCHANGED envVars
    BY <1>1 DEF envVars, EnvInv, JobsOK, VenvOK, Vouched, Built
  <1> QED
    BY <1>1, RegistrySteps, CheckingSteps, BuildingSteps, CrashStep DEF EnvNext

\* However many processes and threads build, fail, die and install at the same
\* time: a worker runs only in an environment that got the requirements it is
\* named for, or whose requirements file was replaced while it was built
\* (_environment_is_ready, _write_marker).
THEOREM WorkersSafe == EnvSpec => []ReadyIsBuilt
  <1>1. EnvInv => ReadyIsBuilt
    BY DEF EnvInv, Vouched, Built, ReadyIsBuilt, At
  <1> QED
    BY <1>1, InitInv, StepInv, PTL DEF EnvSpec

-------------------------------------------------------------------------------
(*****************************************************************************)
(* The publications, for every number of products, minutes and generations   *)
(* and every bundle: what identifies a publication identifies the rows of    *)
(* the table, so that a page that passed the check shows published rows and  *)
(* no others.                                                                *)
(*****************************************************************************)

Plans == publications \cup (IF publisher.at = "idle" THEN {} ELSE {publisher.plan})

\* A plan tells the rows that are admitted in its generation.
IsTrueTo(p) ==
  /\ p.generation \in Nat /\ p.generation <= generation
  /\ p.generation = generation => p.rows = AdmittedRows(p.receipt)

PlansTrue == generation \in Nat /\ \A p \in Plans : IsTrueTo(p)

\* What a page may show of a publication.
Shown(x, pub, q) ==
  \E k \in DOMAIN pub.rows : x = [key |-> k, row |-> pub.rows[k]] /\ Product(k) \in q.codes

ReadingIsRecord ==
  reading = [at |-> reading.at, pub |-> reading.pub, query |-> reading.query,
             cursor |-> reading.cursor, pages |-> reading.pages]

PagesShown ==
  reading.at \in {"reading", "done"} =>
    /\ ReadingIsRecord
    /\ \E S : reading.pages \in Seq(S)
    /\ reading.query.kind = "bars" =>
         \A i \in 1..Len(reading.pages) : \A x \in reading.pages[i] : Shown(x, reading.pub, reading.query)

\* Every row on a page of bars, of a read that is going on or has ended, is a row
\* of the publication that was asked for, with its published value and source, of
\* a product that was asked for (read_futures_1m_partial_page).
PagesArePublished ==
  reading.at \in {"reading", "done"} /\ reading.query.kind = "bars" =>
    \A i \in 1..Len(reading.pages) : \A x \in reading.pages[i] : Shown(x, reading.pub, reading.query)

\* A publication whose identity verifies has the rows that the table admits now
\* (_verify_futures_partial_identity).
VerifiedIsCurrent ==
  \A pub \in publications : pub.generation = generation => pub.rows = AdmittedRows(pub.receipt)

----------------------------------------------------------------------------

LEMMA AppendPage ==
  ASSUME NEW S, NEW s \in Seq(S), NEW e
  PROVE  /\ \E T : Append(s, e) \in Seq(T)
         /\ Len(Append(s, e)) = Len(s) + 1 /\ Len(s) \in Nat
         /\ Append(s, e)[Len(s) + 1] = e
         /\ \A i \in 1..Len(s) : Append(s, e)[i] = s[i]
  <1>1. s \in Seq(S \cup {e})
    BY SeqDef
  <1>2. Append(s, e) \in Seq(S \cup {e})
    BY <1>1
  <1> QED
    BY <1>1, <1>2

\* Every step leaves the table alone, or commits it under the next generation.
LEMMA StepGeneration ==
  ASSUME generation \in Nat, [FutureNext]_futureVars
  PROVE  \/ UNCHANGED <<bars, generation>>
         \/ generation' = generation + 1
  BY DEF FutureNext, futureVars, OwnerWrites, Repair, Classify, CheckEvidence, CheckGeneration, Reclassify,
         InsertMissing, CheckInserted, CommitImport, ImportFails, PlanPublication, ComparePlan, Publish,
         BeginRead, ReadPage, Commit

\* A step adds no plan but the one PlanPublication makes.
LEMMA StepPlans ==
  ASSUME [FutureNext]_futureVars
  PROVE  \/ Plans' \subseteq Plans
         \/ /\ UNCHANGED <<bars, generation>>
            /\ \E r \in receipts : Plans' \subseteq Plans \cup {PlanOf(r)}
  <1>1. CASE PlanPublication
    BY <1>1 DEF PlanPublication, Plans
  <1>2. CASE ComparePlan
    BY <1>2 DEF ComparePlan, Plans, Unplanned
  <1>3. CASE Publish
    BY <1>3 DEF Publish, Plans, Unplanned
  <1>4. CASE UNCHANGED <<publisher, publications>>
    BY <1>4 DEF Plans
  <1> QED
    BY <1>1, <1>2, <1>3, <1>4
       DEF FutureNext, futureVars, OwnerWrites, Repair, Classify, CheckEvidence, CheckGeneration, Reclassify,
           InsertMissing, CheckInserted, CommitImport, ImportFails, BeginRead, ReadPage

LEMMA InitPlans == FutureInit => PlansTrue /\ PagesShown
  BY DEF FutureInit, PlansTrue, Plans, Unplanned, PagesShown, NotRead

LEMMA StepPlansTrue == PlansTrue /\ [FutureNext]_futureVars => PlansTrue'
  <1> SUFFICES ASSUME PlansTrue, [FutureNext]_futureVars PROVE PlansTrue'
    OBVIOUS
  <1>1. generation \in Nat /\ \A p \in Plans : IsTrueTo(p)
    BY DEF PlansTrue
  <1>2. CASE UNCHANGED <<bars, generation>>
    <2>1. \A r : AdmittedRows(r)' = AdmittedRows(r)
      BY <1>2 DEF AdmittedRows, AdmittedKeys
    <2>2. \A p : IsTrueTo(p) => IsTrueTo(p)'
      BY <1>2, <2>1 DEF IsTrueTo
    <2>3. \A r \in receipts : IsTrueTo(PlanOf(r))
      BY <1>1 DEF IsTrueTo, PlanOf
    <2>4. \A p \in Plans' : IsTrueTo(p)
      BY <1>1, <2>3, StepPlans
    <2>5. generation' \in Nat
      BY <1>1, <1>2
    <2> QED
      BY <2>2, <2>4, <2>5 DEF PlansTrue
  <1>3. CASE generation' = generation + 1
    <2>1. Plans' \subseteq Plans
      BY <1>1, <1>3, StepPlans
    <2>2. \A p : IsTrueTo(p) => IsTrueTo(p)'
      BY <1>1, <1>3 DEF IsTrueTo
    <2> QED
      BY <1>1, <1>3, <2>1, <2>2 DEF PlansTrue
  <1> QED
    BY <1>1, <1>2, <1>3, StepGeneration

----------------------------------------------------------------------------

\* A page of bars is made of rows that are admitted now.
LEMMA PageIsAdmitted ==
  ASSUME NEW q, NEW pub, NEW cursor, NEW x \in PageBars(q, pub, cursor)
  PROVE  \E k \in AdmittedKeys(pub.receipt) : x = [key |-> k, row |-> bars[k]] /\ Product(k) \in q.codes
  BY DEF PageBars

LEMMA StepPagesShown == PlansTrue /\ PagesShown /\ [FutureNext]_futureVars => PagesShown'
  <1> SUFFICES ASSUME PlansTrue, PagesShown, [FutureNext]_futureVars PROVE PagesShown'
    OBVIOUS
  <1>1. CASE BeginRead
    <2>1. PICK pub \in publications, q \in ReadQueries :
            reading' = [at |-> "reading", pub |-> pub, query |-> q, cursor |-> NoBar, pages |-> <<>>]
      BY <1>1 DEF BeginRead
    <2>2. reading'.pages = <<>> /\ <<>> \in Seq({}) /\ Len(<<>>) = 0
      BY <2>1
    <2> QED
      BY <2>1, <2>2 DEF PagesShown, ReadingIsRecord
  <1>2. CASE ReadPage
    <2> DEFINE q == reading.query
               matching == IF q.kind = "bars" THEN PageBars(q, reading.pub, reading.cursor)
                           ELSE PageSpans(q, reading.pub, reading.cursor)
               fetched == FirstOf(q, matching, q.limit + 1)
               page == FirstOf(q, fetched, q.limit)
    <2>1. reading.at = "reading"
      BY <1>2 DEF ReadPage
    <2>2. ReadingIsRecord /\ \E S : reading.pages \in Seq(S)
      BY <2>1 DEF PagesShown
    <2>3. CASE ~Verified(reading.pub, reading.cursor)
      BY <1>2, <2>3 DEF ReadPage, PagesShown
    <2>4. CASE Verified(reading.pub, reading.cursor)
      <3>0. PICK at \in {"reading", "done"} :
              \E cursor : reading' = [at |-> at, pub |-> reading.pub, query |-> q, cursor |-> cursor,
                                      pages |-> Append(reading.pages, page)]
        <4> DEFINE more == Cardinality(fetched) > q.limit
                   last == CHOOSE x \in page : \A y \in page : PositionIn(q, y) <= PositionIn(q, x)
                   next == IF more THEN "reading" ELSE "done"
                   place == IF more THEN CursorOf(q, last) ELSE NoBar
        <4>1. reading' = [reading EXCEPT !.pages = Append(@, page), !.at = next, !.cursor = place]
          BY <1>2, <2>4 DEF ReadPage
        <4>2. next \in {"reading", "done"}
          OBVIOUS
        <4> HIDE DEF more, last, next, place, page
        <4>3. reading' = [at |-> next, pub |-> reading.pub, query |-> q, cursor |-> place,
                          pages |-> Append(reading.pages, page)]
          BY <2>2, <4>1 DEF ReadingIsRecord
        <4>4. \E cursor : reading' = [at |-> next, pub |-> reading.pub, query |-> q, cursor |-> cursor,
                                      pages |-> Append(reading.pages, page)]
          BY <4>3
        <4> QED
          BY <4>2, <4>4
      <3>1. PICK cursor : reading' = [at |-> at, pub |-> reading.pub, query |-> q, cursor |-> cursor,
                                      pages |-> Append(reading.pages, page)]
        BY <3>0
      <3>4. page \subseteq matching
        BY DEF FirstOf
      <3> HIDE DEF page
      <3>2. PICK S : reading.pages \in Seq(S)
        BY <2>2
      <3>3. /\ \E T : Append(reading.pages, page) \in Seq(T)
            /\ Len(Append(reading.pages, page)) = Len(reading.pages) + 1 /\ Len(reading.pages) \in Nat
            /\ Append(reading.pages, page)[Len(reading.pages) + 1] = page
            /\ \A i \in 1..Len(reading.pages) : Append(reading.pages, page)[i] = reading.pages[i]
        BY <3>2, AppendPage
      <3>5. reading.pub \in publications /\ reading.pub.generation = generation
        BY <2>4 DEF Verified
      <3>6. reading.pub.rows = [k \in AdmittedKeys(reading.pub.receipt) |-> bars[k]]
        BY <3>5 DEF PlansTrue, Plans, IsTrueTo, AdmittedRows
      <3>7. ASSUME q.kind = "bars", NEW x \in page PROVE Shown(x, reading.pub, q)
        <4>1. x \in PageBars(q, reading.pub, reading.cursor)
          BY <3>4, <3>7
        <4>2. PICK k \in AdmittedKeys(reading.pub.receipt) : x = [key |-> k, row |-> bars[k]] /\ Product(k) \in q.codes
          BY <4>1, PageIsAdmitted
        <4>3. k \in DOMAIN reading.pub.rows /\ reading.pub.rows[k] = bars[k]
          BY <3>6
        <4> QED
          BY <4>2, <4>3 DEF Shown
      <3>8. ReadingIsRecord'
        BY <3>1 DEF ReadingIsRecord
      <3>9. reading'.pub = reading.pub /\ reading'.query = q /\ reading'.pages = Append(reading.pages, page)
        BY <3>1
      <3>10. ASSUME q.kind = "bars", NEW i \in 1..Len(reading'.pages), NEW x \in reading'.pages[i]
             PROVE  Shown(x, reading.pub, q)
        <4>1. CASE i = Len(reading.pages) + 1
          BY <3>3, <3>7, <3>9, <3>10, <4>1
        <4>2. CASE i \in 1..Len(reading.pages)
          BY <2>1, <3>3, <3>9, <3>10, <4>2 DEF PagesShown
        <4> QED
          BY <3>3, <3>9, <4>1, <4>2
      <3>11. \E T : reading'.pages \in Seq(T)
        BY <3>3, <3>9
      <3> QED
        BY <3>8, <3>9, <3>10, <3>11 DEF PagesShown, Shown
    <2> QED
      BY <2>3, <2>4
  <1>3. CASE UNCHANGED reading
    BY <1>3 DEF PagesShown, ReadingIsRecord, Shown
  <1> QED
    BY <1>1, <1>2, <1>3
       DEF FutureNext, futureVars, OwnerWrites, Repair, Classify, CheckEvidence, CheckGeneration, Reclassify,
           InsertMissing, CheckInserted, CommitImport, ImportFails, PlanPublication, ComparePlan, Publish

\* Whatever is imported, repaired, written and published, and however many
\* generations there are: a publication that still verifies is the table.
THEOREM Current == FutureSpec => []VerifiedIsCurrent
  <1>1. PlansTrue => VerifiedIsCurrent
    BY DEF PlansTrue, VerifiedIsCurrent, Plans, IsTrueTo
  <1> QED
    BY <1>1, InitPlans, StepPlansTrue, PTL DEF FutureSpec

\* No page of bars ever shows a row that was not published, with a value it did
\* not have, or of a product that was not asked for.
THEOREM Published == FutureSpec => []PagesArePublished
  <1>1. PagesShown => PagesArePublished
    BY DEF PagesShown, PagesArePublished
  <1> QED
    BY <1>1, InitPlans, StepPlansTrue, StepPagesShown, PTL DEF FutureSpec

-------------------------------------------------------------------------------
(*****************************************************************************)
(* A whole read of a publication.  Its pages are cut out of a finite set of  *)
(* rows, each a start of what the pages before it left over: the intervals   *)
(* and the boundaries hold every published row, the horizon of a page of one *)
(* product lets through more rows than the page has, or all, and the cursor  *)
(* is the place of the last row.  ReadSoFar is the inductive invariant.      *)
(*****************************************************************************)

----------------------------------------------------------------------------
(* The rows of a page: the first ones of a finite set of rows.              *)

Placed(q, S) == \A x \in S : PositionIn(q, x) \in Nat
PlacedBefore(q, S, x) == {y \in S : PositionIn(q, y) < PositionIn(q, x)}
IsStart(q, P, S) == P \subseteq S /\ \A x \in P, y \in S : PositionIn(q, y) <= PositionIn(q, x) => y \in P

LEMMA LeastPlaced ==
  ASSUME NEW q, NEW S, S # {}, Placed(q, S)
  PROVE  \E x \in S : \A y \in S : PositionIn(q, x) <= PositionIn(q, y)
  <1> DEFINE T == {PositionIn(q, x) : x \in S}
  <1>1. T \in SUBSET Nat /\ T # {}
    BY DEF Placed
  <1>2. PICK t \in T : \A u \in T : t <= u
    BY <1>1, LeastOf
  <1> QED
    BY <1>2

LEMMA GreatestPlaced ==
  ASSUME NEW q, NEW S, IsFiniteSet(S), S # {}, Placed(q, S)
  PROVE  \E x \in S : \A y \in S : PositionIn(q, y) <= PositionIn(q, x)
  <1> DEFINE v == [x \in S |-> PositionIn(q, x)]
  <1>1. \A x \in S : v[x] \in Nat /\ v[x] = PositionIn(q, x)
    BY DEF Placed
  <1> HIDE DEF v
  <1>2. \E x \in S : \A y \in S : v[y] <= v[x]
    BY <1>1, GreatestValue
  <1> QED
    BY <1>1, <1>2

LEMMA PlacedBeforeFinite ==
  ASSUME NEW q, NEW S, IsFiniteSet(S), NEW x
  PROVE  IsFiniteSet(PlacedBefore(q, S, x)) /\ Cardinality(PlacedBefore(q, S, x)) \in Nat
  <1>1. PlacedBefore(q, S, x) \subseteq S
    BY DEF PlacedBefore
  <1> QED
    BY <1>1, FS_Subset, FS_CardinalityType

LEMMA FirstAreStart ==
  ASSUME NEW q, NEW S, IsFiniteSet(S), Placed(q, S), NEW n \in Nat
  PROVE  /\ IsStart(q, FirstOf(q, S, n), S)
         /\ IsFiniteSet(FirstOf(q, S, n))
         /\ n # 0 /\ S # {} => FirstOf(q, S, n) # {}
  <1>1. FirstOf(q, S, n) = {x \in S : Cardinality(PlacedBefore(q, S, x)) < n}
    BY DEF FirstOf, PlacedBefore
  <1>2. ASSUME NEW x \in FirstOf(q, S, n), NEW y \in S, PositionIn(q, y) <= PositionIn(q, x)
        PROVE  y \in FirstOf(q, S, n)
    <2>1. x \in S /\ Cardinality(PlacedBefore(q, S, x)) < n
      BY <1>1
    <2>2. PlacedBefore(q, S, y) \subseteq PlacedBefore(q, S, x)
      BY <1>2, <2>1 DEF PlacedBefore, Placed
    <2>3. Cardinality(PlacedBefore(q, S, y)) <= Cardinality(PlacedBefore(q, S, x))
      BY <2>2, PlacedBeforeFinite, FS_Subset
    <2> QED
      BY <1>1, <2>1, <2>3, PlacedBeforeFinite
  <1>3. FirstOf(q, S, n) \subseteq S
    BY <1>1
  <1>4. ASSUME n # 0, S # {} PROVE FirstOf(q, S, n) # {}
    <2>1. PICK x \in S : \A y \in S : PositionIn(q, x) <= PositionIn(q, y)
      BY <1>4, LeastPlaced
    <2>2. PlacedBefore(q, S, x) = {}
      BY <2>1 DEF PlacedBefore, Placed
    <2>3. Cardinality(PlacedBefore(q, S, x)) = 0
      BY <2>2, FS_EmptySet
    <2> QED
      BY <1>1, <1>4, <2>3
  <1> QED
    BY <1>2, <1>3, <1>4, FS_Subset DEF IsStart

\* When no more than n rows are among the first n + 1, there are no others.
LEMMA FewAreAll ==
  ASSUME NEW q, NEW S, IsFiniteSet(S), Placed(q, S), NEW n \in Nat,
         ~(Cardinality(FirstOf(q, S, n + 1)) > n)
  PROVE  FirstOf(q, FirstOf(q, S, n + 1), n) = S
  <1> DEFINE F == FirstOf(q, S, n + 1)
  <1>1. IsStart(q, F, S) /\ IsFiniteSet(F) /\ Cardinality(F) \in Nat /\ Cardinality(F) <= n
    BY FirstAreStart, FS_CardinalityType
  <1>2. F = {x \in S : Cardinality(PlacedBefore(q, S, x)) < n + 1}
    BY DEF FirstOf, PlacedBefore
  <1> HIDE DEF F
  <1>3. S = F
    <2> SUFFICES ASSUME S \ F # {} PROVE FALSE
      BY <1>1 DEF IsStart
    <2>1. Placed(q, S \ F)
      BY DEF Placed
    <2>2. PICK x \in S \ F : \A y \in S \ F : PositionIn(q, x) <= PositionIn(q, y)
      BY <2>1, LeastPlaced
    <2>3. PlacedBefore(q, S, x) \subseteq F
      BY <2>2 DEF PlacedBefore, Placed
    <2>4. Cardinality(PlacedBefore(q, S, x)) <= Cardinality(F)
      BY <1>1, <2>3, FS_Subset
    <2>5. Cardinality(PlacedBefore(q, S, x)) \in Nat
      BY PlacedBeforeFinite
    <2> QED
      BY <1>1, <1>2, <2>4, <2>5
  <1>4. ASSUME NEW x \in S PROVE Cardinality(PlacedBefore(q, S, x)) < n
    <2>1. PlacedBefore(q, S, x) \subseteq S \ {x}
      BY DEF PlacedBefore, Placed
    <2>2. IsFiniteSet(S \ {x}) /\ Cardinality(S \ {x}) = Cardinality(S) - 1
      BY FS_RemoveElement
    <2>3. Cardinality(PlacedBefore(q, S, x)) <= Cardinality(S \ {x})
      BY <2>1, <2>2, FS_Subset
    <2> QED
      BY <1>1, <1>3, <2>2, <2>3, PlacedBeforeFinite
  <1>5. FirstOf(q, S, n) = {x \in S : Cardinality(PlacedBefore(q, S, x)) < n}
    BY DEF FirstOf, PlacedBefore
  <1> QED
    BY <1>3, <1>4, <1>5 DEF F

\* Of more than n rows at different places some are not among the first n.
LEMMA SomeAreLeft ==
  ASSUME NEW q, NEW F, IsFiniteSet(F), Placed(q, F), NEW n \in Nat, Cardinality(F) > n,
         \A x, y \in F : PositionIn(q, x) = PositionIn(q, y) => x = y
  PROVE  \E x \in F : x \notin FirstOf(q, F, n)
  <1>1. F # {} /\ Cardinality(F) \in Nat
    <2>1. Cardinality({}) = 0
      BY FS_EmptySet
    <2> QED
      BY <2>1, FS_CardinalityType
  <1>2. PICK x \in F : \A y \in F : PositionIn(q, y) <= PositionIn(q, x)
    BY <1>1, GreatestPlaced
  <1>3. PlacedBefore(q, F, x) = F \ {x}
    BY <1>2 DEF PlacedBefore, Placed
  <1>4. Cardinality(F \ {x}) = Cardinality(F) - 1
    BY FS_RemoveElement
  <1>5. ~(Cardinality(PlacedBefore(q, F, x)) < n)
    BY <1>1, <1>3, <1>4
  <1> QED
    BY <1>5 DEF FirstOf, PlacedBefore

----------------------------------------------------------------------------
(* Places.                                                                  *)

LEMMA InOrder ==
  ASSUME NEW N \in Nat, NEW a \in Nat, NEW b \in Nat, NEW i \in 1..N, NEW j \in 1..N
  PROVE  /\ a * (N + 1) + i \in Nat
         /\ a < b => a * (N + 1) + i < b * (N + 1) + j
         /\ a = b => (a * (N + 1) + i < b * (N + 1) + j <=> i < j)
  <1>1. a * (N + 1) \in Nat /\ b * (N + 1) \in Nat
    OBVIOUS
  <1>2. ASSUME a < b PROVE a * (N + 1) + i < b * (N + 1) + j
    <2> DEFINE d == b - a - 1
    <2>1. d \in Nat /\ b = a + 1 + d
      BY <1>2
    <2>2. d * (N + 1) \in Nat
      BY <2>1
    <2> HIDE DEF d
    <2>3. (a + 1 + d) * (N + 1) = a * (N + 1) + (N + 1) + d * (N + 1)
      BY <2>1
    <2>4. b * (N + 1) = a * (N + 1) + (N + 1) + d * (N + 1)
      BY <2>1, <2>3
    <2> QED
      BY <1>1, <2>2, <2>4
  <1> QED
    BY <1>1, <1>2

\* The bars of some keys of a publication, and what orders them.
ItemOf(table, k) == [key |-> k, row |-> table[k]]
ItemsOf(table, K) == {ItemOf(table, k) : k \in K}

LEMMA BarPlaces ==
  ASSUME NEW q, q.kind = "bars", NEW table, NEW K \in SUBSET BarKeys
  PROVE  /\ IsFiniteSet(ItemsOf(table, K))
         /\ Placed(q, ItemsOf(table, K))
         /\ \A x \in ItemsOf(table, K) : x.key \in K /\ x = ItemOf(table, x.key) /\ CursorOf(q, x) = x.key
         /\ \A k \in BarKeys, x \in ItemsOf(table, K) :
              /\ Minute(k) < Minute(x.key) => Position(q, k) < PositionIn(q, x)
              /\ Position(q, k) <= PositionIn(q, x) => Minute(k) <= Minute(x.key)
              /\ Product(k) = Product(x.key) => (Position(q, k) < PositionIn(q, x) <=> Minute(k) < Minute(x.key))
         /\ \A x, y \in ItemsOf(table, K) : PositionIn(q, x) = PositionIn(q, y) => x = y
  <1>1. ASSUME NEW x \in ItemsOf(table, K) PROVE x.key \in K /\ x = ItemOf(table, x.key) /\ CursorOf(q, x) = x.key
    BY DEF ItemsOf, ItemOf, CursorOf
  <1>2. \A k \in BarKeys : k = <<Product(k), Minute(k)>> /\ Product(k) \in 1..ProductCount /\ Minute(k) \in 1..LastMinute
    BY DEF BarKeys, Product, Minute
  <1>3. ProductCount \in Nat /\ LastMinute \in Nat /\ \A m \in 1..LastMinute : m \in Nat
    BY FuturesAssumption DEF FuturesAssumption
  <1>4. \A k \in BarKeys : Position(q, k) = Minute(k) * (ProductCount + 1) + Product(k)
    BY DEF Position
  <1>5. \A x \in ItemsOf(table, K) : PositionIn(q, x) = Position(q, x.key)
    BY <1>1 DEF PositionIn
  <1>6. \A k, l \in BarKeys :
          /\ Position(q, k) \in Nat
          /\ Minute(k) < Minute(l) => Position(q, k) < Position(q, l)
          /\ Minute(k) = Minute(l) => (Position(q, k) < Position(q, l) <=> Product(k) < Product(l))
    <2> SUFFICES ASSUME NEW k \in BarKeys, NEW l \in BarKeys
                 PROVE  /\ Position(q, k) \in Nat
                        /\ Minute(k) < Minute(l) => Position(q, k) < Position(q, l)
                        /\ Minute(k) = Minute(l) => (Position(q, k) < Position(q, l) <=> Product(k) < Product(l))
      OBVIOUS
    <2> DEFINE a == Minute(k)  b == Minute(l)  i == Product(k)  j == Product(l)
    <2>1. a \in Nat /\ b \in Nat /\ i \in 1..ProductCount /\ j \in 1..ProductCount
      BY <1>2, <1>3
    <2>2. Position(q, k) = a * (ProductCount + 1) + i /\ Position(q, l) = b * (ProductCount + 1) + j
      BY <1>4
    <2> HIDE DEF a, b, i, j
    <2>3. /\ a * (ProductCount + 1) + i \in Nat
          /\ a < b => a * (ProductCount + 1) + i < b * (ProductCount + 1) + j
          /\ a = b => (a * (ProductCount + 1) + i < b * (ProductCount + 1) + j <=> i < j)
      BY <1>3, <2>1, InOrder
    <2> QED
      BY <2>2, <2>3 DEF a, b, i, j
  <1>7. \A k \in BarKeys : Minute(k) \in Nat /\ Product(k) \in Nat
    BY <1>2, <1>3
  <1>8. IsFiniteSet(ItemsOf(table, K))
    <2>1. IsFiniteSet(K)
      <3>1. IsFiniteSet(1..ProductCount) /\ IsFiniteSet(1..LastMinute)
        BY <1>3, FS_Interval
      <3>2. IsFiniteSet(BarKeys)
        BY <3>1, FS_Product DEF BarKeys
      <3> QED
        BY <3>2, FS_Subset
    <2> DEFINE f == [k \in K |-> ItemOf(table, k)]
    <2>2. f \in Surjection(K, ItemsOf(table, K))
      BY DEF Surjection, ItemsOf
    <2> QED
      BY <2>1, <2>2, FS_Surjection
  <1>9. ASSUME NEW x \in ItemsOf(table, K), NEW y \in ItemsOf(table, K), PositionIn(q, x) = PositionIn(q, y)
        PROVE  x = y
    <2>1. x.key \in BarKeys /\ y.key \in BarKeys /\ Position(q, x.key) = Position(q, y.key)
      BY <1>1, <1>5, <1>9
    <2>2. ~(Position(q, x.key) < Position(q, y.key)) /\ ~(Position(q, y.key) < Position(q, x.key))
      BY <1>6, <2>1
    <2>3. Minute(x.key) = Minute(y.key) /\ Product(x.key) = Product(y.key)
      BY <1>6, <1>7, <2>1, <2>2
    <2> QED
      BY <1>1, <1>2, <2>1, <2>3
  <1>10. \A k \in BarKeys, x \in ItemsOf(table, K) :
              /\ Minute(k) < Minute(x.key) => Position(q, k) < PositionIn(q, x)
              /\ Position(q, k) <= PositionIn(q, x) => Minute(k) <= Minute(x.key)
              /\ Product(k) = Product(x.key) => (Position(q, k) < PositionIn(q, x) <=> Minute(k) < Minute(x.key))
    <2> SUFFICES ASSUME NEW k \in BarKeys, NEW l \in BarKeys
                 PROVE  /\ Minute(k) < Minute(l) => Position(q, k) < Position(q, l)
                        /\ Position(q, k) <= Position(q, l) => Minute(k) <= Minute(l)
                        /\ Product(k) = Product(l) => (Position(q, k) < Position(q, l) <=> Minute(k) < Minute(l))
      BY <1>1, <1>5
    <2> QED
      BY <1>6, <1>7
  <1> QED
    BY <1>1, <1>5, <1>6, <1>8, <1>9, <1>10 DEF Placed

----------------------------------------------------------------------------
(* The minutes around a minute.                                             *)

LEMMA RunAround ==
  ASSUME NEW n \in Nat, NEW M, M \subseteq 1..n, NEW m, m \in M
  PROVE  \E a, b \in 1..n : a <= m /\ m <= b /\ a..b \subseteq M /\ a - 1 \notin M /\ b + 1 \notin M
  <1> DEFINE firsts == {x \in M : x <= m /\ x..m \subseteq M}
             lasts == {x \in M : m <= x /\ m..x \subseteq M}
  <1>1. m \in firsts /\ m \in lasts /\ firsts \in SUBSET Nat /\ lasts \in SUBSET (0..n)
    <2>1. m..m = {m} /\ m <= m /\ m \in M
      OBVIOUS
    <2>2. firsts \subseteq M /\ lasts \subseteq M /\ M \subseteq Nat /\ M \subseteq 0..n
      OBVIOUS
    <2>3. m \in firsts /\ m \in lasts
      BY <2>1
    <2> HIDE DEF firsts, lasts
    <2> QED
      BY <2>2, <2>3
  <1>2. PICK a \in firsts : \A x \in firsts : a <= x
    <2> HIDE DEF firsts
    <2> QED
      BY <1>1, LeastOf
  <1>3. PICK b \in lasts : \A x \in lasts : x <= b
    <2> HIDE DEF lasts
    <2> QED
      BY <1>1, GreatestOf
  <1>4. a \in 1..n /\ b \in 1..n /\ a <= m /\ m <= b /\ a..b \subseteq M /\ m \in 1..n
    BY <1>2, <1>3
  <1>5. a - 1 \notin M
    <2> SUFFICES ASSUME a - 1 \in M PROVE FALSE
      OBVIOUS
    <2>1. (a - 1)..m \subseteq M
      BY <1>2, <1>4
    <2> QED
      BY <1>2, <1>4, <2>1
  <1>6. b + 1 \notin M
    <2> SUFFICES ASSUME b + 1 \in M PROVE FALSE
      OBVIOUS
    <2>1. m..(b + 1) \subseteq M
      BY <1>3, <1>4
    <2> QED
      BY <1>3, <1>4, <2>1
  <1> QED
    BY <1>4, <1>5, <1>6

\* The same among the members of M, as far as they are in L.
Surrounds(M, L, a, m, b) ==
  /\ a <= m /\ m <= b /\ \A x \in M : a <= x /\ x <= b => x \in L
  /\ \A x \in M : x < a /\ (\A y \in M : y < a => y <= x) => x \notin L
  /\ \A x \in M : b < x /\ (\A y \in M : b < y => x <= y) => x \notin L

LEMMA IslandAround ==
  ASSUME NEW n \in Nat, NEW M, M \subseteq 1..n, NEW L, L \subseteq M, NEW m, m \in L
  PROVE  \E a, b \in L : Surrounds(M, L, a, m, b)
  <1> DEFINE firsts == {x \in L : x <= m /\ \A y \in M : x <= y /\ y <= m => y \in L}
             lasts == {x \in L : m <= x /\ \A y \in M : m <= y /\ y <= x => y \in L}
  <1>1. m \in firsts /\ m \in lasts /\ firsts \in SUBSET Nat /\ lasts \in SUBSET (0..n)
    <2>0. firsts \subseteq L /\ lasts \subseteq L /\ M \subseteq Nat /\ M \subseteq 0..n
      OBVIOUS
    <2>1. firsts \subseteq M /\ lasts \subseteq M /\ M \subseteq Nat /\ M \subseteq 0..n /\ m \in Nat
      BY <2>0
    <2>2. \A y \in M : m <= y /\ y <= m => y = m
      BY <2>1
    <2>3. m \in firsts /\ m \in lasts
      BY <2>1, <2>2
    <2> HIDE DEF firsts, lasts
    <2> QED
      BY <2>1, <2>3
  <1>2. PICK a \in firsts : \A x \in firsts : a <= x
    <2> HIDE DEF firsts
    <2> QED
      BY <1>1, LeastOf
  <1>3. PICK b \in lasts : \A x \in lasts : x <= b
    <2> HIDE DEF lasts
    <2> QED
      BY <1>1, GreatestOf
  <1>4. /\ a \in L /\ b \in L /\ a <= m /\ m <= b
        /\ \A y \in M : a <= y /\ y <= m => y \in L
        /\ \A y \in M : m <= y /\ y <= b => y \in L
    BY <1>2, <1>3
  <1>5. ASSUME NEW x \in M, x < a, \A y \in M : y < a => y <= x PROVE x \notin L
    <2> SUFFICES ASSUME x \in L PROVE FALSE
      OBVIOUS
    <2>1. \A y \in M : x <= y /\ y <= m => y = x \/ a <= y
      BY <1>4, <1>5
    <2>2. x \in firsts
      BY <1>4, <1>5, <2>1
    <2> QED
      BY <1>2, <1>4, <1>5, <2>2
  <1>6. ASSUME NEW x \in M, b < x, \A y \in M : b < y => x <= y PROVE x \notin L
    <2> SUFFICES ASSUME x \in L PROVE FALSE
      OBVIOUS
    <2>1. \A y \in M : m <= y /\ y <= x => y = x \/ y <= b
      BY <1>4, <1>6
    <2>2. x \in lasts
      BY <1>4, <1>6, <2>1
    <2> QED
      BY <1>3, <1>4, <1>6, <2>2
  <1>7. \A x \in M : a <= x /\ x <= b => x \in L
    BY <1>4
  <1>8. Surrounds(M, L, a, m, b)
    BY <1>4, <1>5, <1>6, <1>7 DEF Surrounds
  <1> QED
    BY <1>4, <1>8

----------------------------------------------------------------------------
(* The intervals and the boundaries of a publication hold all of its rows.  *)

Stretches == {Span(p, a, b) : p \in 1..ProductCount, a \in 1..LastMinute, b \in 1..LastMinute}

IsRun(table, p, a, b) ==
  /\ a <= b /\ \A m \in a..b : <<p, m>> \in DOMAIN table
  /\ <<p, a - 1>> \notin DOMAIN table /\ <<p, b + 1>> \notin DOMAIN table

LEMMA RunsAreIntervals ==
  ASSUME NEW table, DOMAIN table \subseteq BarKeys
  PROVE  /\ \A s \in Intervals(table) : s \in Stretches /\ IsRun(table, s.product, s.start, s.end)
         /\ \A p \in 1..ProductCount, a, b \in 1..LastMinute : IsRun(table, p, a, b) => Span(p, a, b) \in Intervals(table)
  <1>0. \A k \in BarKeys : k = <<Product(k), Minute(k)>> /\ Product(k) \in 1..ProductCount /\ Minute(k) \in 1..LastMinute
    BY DEF BarKeys, Product, Minute
  <1>1. ASSUME NEW s \in Intervals(table)
        PROVE  s \in Stretches /\ IsRun(table, s.product, s.start, s.end)
    <2>1. PICK y \in (DOMAIN table) \X (1..LastMinute) :
            /\ s = Span(Product(y[1]), Minute(y[1]), y[2])
            /\ Minute(y[1]) <= y[2] /\ (\A m \in Minute(y[1])..y[2] : <<Product(y[1]), m>> \in DOMAIN table)
            /\ <<Product(y[1]), Minute(y[1]) - 1>> \notin DOMAIN table
            /\ <<Product(y[1]), y[2] + 1>> \notin DOMAIN table
      BY <1>1 DEF Intervals
    <2>2. y[1] \in BarKeys /\ y[2] \in 1..LastMinute
      BY <2>1
    <2>3. s.product = Product(y[1]) /\ s.start = Minute(y[1]) /\ s.end = y[2]
      BY <2>1 DEF Span
    <2> QED
      BY <1>0, <2>1, <2>2, <2>3 DEF Stretches, IsRun
  <1>2. ASSUME NEW p \in 1..ProductCount, NEW a \in 1..LastMinute, NEW b \in 1..LastMinute, IsRun(table, p, a, b)
        PROVE  Span(p, a, b) \in Intervals(table)
    <2> DEFINE y == <<<<p, a>>, b>>
    <2>1. a \in a..b
      BY <1>2 DEF IsRun
    <2>2. y \in (DOMAIN table) \X (1..LastMinute) /\ Product(y[1]) = p /\ Minute(y[1]) = a /\ y[2] = b
      BY <1>2, <2>1 DEF IsRun, Product, Minute
    <2> HIDE DEF y
    <2>3. Span(Product(y[1]), Minute(y[1]), y[2]) \in Intervals(table)
      BY <1>2, <2>2 DEF Intervals, IsRun
    <2> QED
      BY <2>2, <2>3
  <1> QED
    BY <1>1, <1>2

LEMMA IntervalsCover ==
  ASSUME NEW table, DOMAIN table \subseteq BarKeys, NEW k \in DOMAIN table
  PROVE  \E s \in Intervals(table) : Within(k, s)
  <1> DEFINE p == Product(k)
             M == {t \in 1..LastMinute : <<p, t>> \in DOMAIN table}
  <1>0. /\ k = <<p, Minute(k)>> /\ p \in 1..ProductCount /\ Minute(k) \in 1..LastMinute
        /\ \A m : <<p, m>> \in DOMAIN table => m \in M
    BY DEF BarKeys, Product, Minute
  <1>1. Minute(k) \in M /\ M \subseteq 1..LastMinute /\ LastMinute \in Nat
    BY <1>0, FuturesAssumption DEF FuturesAssumption
  <1> HIDE DEF p
  <1>2. PICK a, b \in 1..LastMinute :
          a <= Minute(k) /\ Minute(k) <= b /\ a..b \subseteq M /\ a - 1 \notin M /\ b + 1 \notin M
    <2> DEFINE here == Minute(k)
    <2> HIDE DEF M, here
    <2>1. here \in M /\ M \subseteq 1..LastMinute /\ LastMinute \in Nat
      BY <1>1 DEF here
    <2>2. \E a, b \in 1..LastMinute :
            a <= here /\ here <= b /\ a..b \subseteq M /\ a - 1 \notin M /\ b + 1 \notin M
      BY <2>1, RunAround
    <2> QED
      BY <2>2 DEF here
  <1>3. IsRun(table, p, a, b)
    BY <1>0, <1>1, <1>2 DEF IsRun
  <1>4. Span(p, a, b) \in Intervals(table)
    BY <1>0, <1>3, RunsAreIntervals
  <1>5. Within(k, Span(p, a, b))
    BY <1>0, <1>1, <1>2 DEF Within, Span, p
  <1> QED
    BY <1>4, <1>5

LEMMA BoundariesCover ==
  ASSUME NEW table, DOMAIN table \subseteq BarKeys, NEW k \in DOMAIN table
  PROVE  \E b \in Boundaries(table) : Within(k, b.span) /\ b.source = table[k].source
  <1> DEFINE p == Product(k)
             M == {t \in 1..LastMinute : <<p, t>> \in DOMAIN table}
             L == {t \in M : table[<<p, t>>].source = table[k].source}
  <1>0. /\ k = <<p, Minute(k)>> /\ p \in 1..ProductCount /\ Minute(k) \in 1..LastMinute
        /\ \A l \in DOMAIN table : Product(l) = p => l = <<p, Minute(l)>> /\ Minute(l) \in M
        /\ \A m : Product(<<p, m>>) = p /\ Minute(<<p, m>>) = m
    BY DEF BarKeys, Product, Minute
  <1>1. M \subseteq 1..LastMinute /\ LastMinute \in Nat /\ L \subseteq M /\ Minute(k) \in L
    BY <1>0, FuturesAssumption DEF FuturesAssumption
  <1> HIDE DEF p
  <1>2. PICK a, b \in L : Surrounds(M, L, a, Minute(k), b)
    <2> DEFINE here == Minute(k)
    <2> HIDE DEF M, L, here
    <2>1. here \in L /\ L \subseteq M /\ M \subseteq 1..LastMinute /\ LastMinute \in Nat
      BY <1>1 DEF here
    <2>2. \E a, b \in L : Surrounds(M, L, a, here, b)
      BY <2>1, IslandAround
    <2> QED
      BY <2>2 DEF here
  <1> USE DEF Surrounds
  <1>3. /\ a \in M /\ b \in M /\ a <= b /\ a \in 1..LastMinute /\ b \in 1..LastMinute
        /\ table[<<p, a>>].source = table[k].source /\ <<p, a>> \in DOMAIN table /\ <<p, b>> \in DOMAIN table
    BY <1>1, <1>2
  <1>4. \A c, d, l : l \in Between(table, p, c, d) <=> l \in DOMAIN table /\ Product(l) = p /\ Minute(l) \in c..d
    BY DEF Between
  <1>5. \A l \in Between(table, p, a, b) : table[l].source = table[<<p, a>>].source
    <2> SUFFICES ASSUME NEW l \in Between(table, p, a, b) PROVE table[l].source = table[<<p, a>>].source
      OBVIOUS
    <2>1. l = <<p, Minute(l)>> /\ Minute(l) \in M /\ Minute(l) \in a..b
      BY <1>0, <1>4
    <2>2. Minute(l) \in L
      BY <1>1, <1>2, <1>3, <2>1
    <2> QED
      BY <1>3, <2>1, <2>2
  <1>6. ASSUME Between(table, p, 1, a - 1) # {}
        PROVE  table[<<p, Max({Minute(l) : l \in Between(table, p, 1, a - 1)})>>].source # table[<<p, a>>].source
    <2> DEFINE S == {Minute(l) : l \in Between(table, p, 1, a - 1)}
    <2>1. S = {m \in M : m < a}
      <3>1. \A m \in M : m < a => <<p, m>> \in Between(table, p, 1, a - 1) /\ Minute(<<p, m>>) = m
        BY <1>0, <1>1, <1>3, <1>4
      <3>2. \A l \in Between(table, p, 1, a - 1) : Minute(l) \in M /\ Minute(l) < a
        BY <1>0, <1>1, <1>3, <1>4
      <3> QED
        BY <1>0, <3>1, <3>2
    <2>2. S # {} /\ S \in SUBSET (0..LastMinute)
      <3>1. S # {}
        BY <1>6
      <3>2. M \subseteq 0..LastMinute
        BY <1>1
      <3> HIDE DEF S
      <3> QED
        BY <2>1, <3>1, <3>2
    <2> HIDE DEF S
    <2>3. \E m \in S : \A y \in S : y <= m
      BY <1>1, <2>2, GreatestOf
    <2>4. Max(S) \in S /\ \A y \in S : y <= Max(S)
      BY <2>2, <2>3 DEF Max
    <2>5. Max(S) \in M /\ Max(S) \notin L
      BY <1>2, <2>1, <2>4
    <2> QED
      BY <1>3, <2>5 DEF S
  <1>7. ASSUME Between(table, p, b + 1, LastMinute) # {}
        PROVE  table[<<p, Min({Minute(l) : l \in Between(table, p, b + 1, LastMinute)})>>].source # table[<<p, a>>].source
    <2> DEFINE S == {Minute(l) : l \in Between(table, p, b + 1, LastMinute)}
    <2>1. S = {m \in M : b < m}
      <3>1. \A m \in M : b < m => <<p, m>> \in Between(table, p, b + 1, LastMinute) /\ Minute(<<p, m>>) = m
        BY <1>0, <1>1, <1>3, <1>4
      <3>2. \A l \in Between(table, p, b + 1, LastMinute) : Minute(l) \in M /\ b < Minute(l)
        BY <1>0, <1>1, <1>3, <1>4
      <3> QED
        BY <1>0, <3>1, <3>2
    <2>2. S # {} /\ S \in SUBSET Nat
      <3>1. S # {}
        BY <1>7
      <3>2. M \subseteq Nat
        BY <1>1
      <3> HIDE DEF S
      <3> QED
        BY <2>1, <3>1, <3>2
    <2> HIDE DEF S
    <2>3. \E m \in S : \A y \in S : m <= y
      BY <2>2, LeastOf
    <2>4. Min(S) \in S /\ \A y \in S : Min(S) <= y
      BY <2>2, <2>3 DEF Min
    <2>5. Min(S) \in M /\ Min(S) \notin L
      BY <1>2, <2>1, <2>4
    <2> QED
      BY <1>3, <2>5 DEF S
  <1>8. IsIsland(table, p, a, b)
    BY <1>3, <1>5, <1>6, <1>7 DEF IsIsland
  <1> DEFINE x == <<<<p, a>>, b>>
             found == [span |-> Span(p, a, b), source |-> table[<<p, a>>].source]
  <1>9. x \in (DOMAIN table) \X (1..LastMinute) /\ Product(x[1]) = p /\ Minute(x[1]) = a /\ x[2] = b
        /\ x[1] = <<p, a>>
    BY <1>0, <1>3
  <1>10. found \in Boundaries(table)
    <2> HIDE DEF x
    <2> QED
      BY <1>3, <1>8, <1>9 DEF Boundaries
  <1>11. Within(k, found.span) /\ found.source = table[k].source
    BY <1>0, <1>1, <1>2, <1>3 DEF Within, Span, p
  <1> QED
    BY <1>10, <1>11

----------------------------------------------------------------------------
(* The horizon of a page: the minutes of intervals that are apart.          *)

Apart(S) ==
  /\ IsFiniteSet(S)
  /\ \A s \in S : s.start \in Nat /\ s.end \in Nat /\ s.start <= s.end
  /\ \A s, t \in S : s # t => s.end < t.start \/ t.end < s.start

Minutes(S) == UNION {s.start..s.end : s \in S}
LengthSum(S) == FoldSet(LAMBDA i, n : n + Length(i), 0, S)

LEMMA LengthsAddUp ==
  ASSUME NEW S, Apart(S)
  PROVE  IsFiniteSet(Minutes(S)) /\ LengthSum(S) = Cardinality(Minutes(S))
  <1> DEFINE f == [s \in S |-> s.start..s.end]
             w == [s \in S |-> Length(s)]
             pick == [s \in SUBSET S |-> CHOOSE x \in s : TRUE]
             step == [y \in Nat \X S |-> y[1] + w[y[2]]]
             Sum(g) == g = [s \in SUBSET S |->
                             IF s = {} THEN 0
                             ELSE g[s \ {CHOOSE x \in s : TRUE}] + Length(CHOOSE x \in s : TRUE)]
             it == CHOOSE g : Sum(g)
  <1>1. Picks(pick, S) /\ IsFiniteSet(S)
    BY DEF Picks, Apart
  <1>2. \A x \in S : IsFiniteSet(f[x]) /\ Cardinality(f[x]) = w[x] /\ w[x] \in Nat /\ w[x] = Length(x)
    <2> SUFFICES ASSUME NEW x \in S
                 PROVE  IsFiniteSet(f[x]) /\ Cardinality(f[x]) = w[x] /\ w[x] \in Nat /\ w[x] = Length(x)
      OBVIOUS
    <2> DEFINE a == x.start  b == x.end
    <2>1. a \in Nat /\ b \in Nat /\ a <= b
      BY DEF Apart
    <2>2. f[x] = a..b /\ w[x] = b - a + 1 /\ w[x] = Length(x)
      BY DEF Length
    <2> HIDE DEF a, b, f, w
    <2>3. IsFiniteSet(a..b) /\ Cardinality(a..b) = b - a + 1
      BY <2>1, FS_Interval
    <2> QED
      BY <2>1, <2>2, <2>3
  <1>3. \A x, y \in S : x # y => f[x] \cap f[y] = {}
    BY DEF Apart
  <1>4. \A v \in Nat, x \in S : step[<<v, x>>] \in Nat /\ step[<<v, x>>] = v + w[x]
    BY <1>2
  <1>5. PICK g \in [SUBSET S -> Nat] : Iterates(g, S, 0, step, pick)
    <2>1. 0 \in Nat /\ StepsIn(Nat, S, step)
      BY <1>4 DEF StepsIn
    <2> HIDE DEF pick, step, w
    <2> QED
      BY <1>1, <2>1, IteratorExists
  <1>6. Sum(g)
    <2>1. ASSUME NEW s \in SUBSET S, s # {}
          PROVE  g[s] = g[s \ {pick[s]}] + Length(pick[s])
      <3>1. pick[s] \in S /\ s \ {pick[s]} \in SUBSET S
        BY <1>1, <2>1 DEF Picks
      <3> DEFINE r == s \ {pick[s]}
                 x == pick[s]
      <3>2. g[s] = step[<<g[r], x>>] /\ g[r] \in Nat /\ x \in S
        BY <1>5, <2>1, <3>1 DEF Iterates
      <3> HIDE DEF r, x, step, pick, w
      <3> QED
        BY <1>2, <1>4, <3>2 DEF r, x
    <2>2. \A s \in SUBSET S : g[s] = IF s = {} THEN 0
                             ELSE g[s \ {CHOOSE x \in s : TRUE}] + Length(CHOOSE x \in s : TRUE)
      BY <1>5, <2>1 DEF Iterates
    <2> QED
      BY <2>2, Zenon
  <1>7. Sum(it)
    <2> HIDE DEF Sum
    <2> QED
      BY <1>6
  <1>8. LengthSum(S) = it[S]
    BY DEF LengthSum, FoldSet, MapThenFoldSet
  <1>9. Sums(it, S, w, pick)
    <2>1. it[{}] = 0
      BY <1>7, Zenon
    <2>2. ASSUME NEW s \in SUBSET S, s # {}, it[s \ {pick[s]}] \in Nat
          PROVE  it[s] = w[pick[s]] + it[s \ {pick[s]}]
      <3> DEFINE r == s \ {pick[s]}
                 x == pick[s]
      <3>1. it[s] = it[r] + Length(x)
        BY <1>7, <2>2, Zenon
      <3>2. x \in S
        BY <1>1, <2>2 DEF Picks
      <3> HIDE DEF r, x, w, it
      <3> QED
        BY <1>2, <2>2, <3>1, <3>2 DEF r, x
    <2> QED
      BY <2>1, <2>2 DEF Sums
  <1>10. UnionOf(f, S) = Minutes(S)
    BY DEF UnionOf, Minutes
  <1> HIDE DEF it, w, pick, f
  <1>11. IsFiniteSet(UnionOf(f, S)) /\ it[S] = Cardinality(UnionOf(f, S))
    BY <1>1, <1>2, <1>3, <1>9, SumIsUnion
  <1> QED
    BY <1>8, <1>10, <1>11

LEMMA ApartWithin ==
  ASSUME NEW S, Apart(S), NEW T, T \subseteq S
  PROVE  Apart(T)
  BY FS_Subset DEF Apart

\* Either nothing is beyond the horizon, or as many minutes as were counted are
\* not beyond it.
Reaches(h, S, count, from) ==
  /\ h \in Nat
  /\ S # {} => \E s \in S : h <= s.end
  /\ S = {} => h = from
  /\ \/ \A s \in S : s.end <= h
     \/ \E B : /\ IsFiniteSet(B) /\ Cardinality(B) = count /\ B \subseteq Minutes(S)
               /\ \A m \in B : m <= h

LEMMA HorizonReaches ==
  ASSUME NEW S, Apart(S), NEW count \in Nat \ {0}, NEW from \in Nat
  PROVE  Reaches(PageHorizon(S, count, from), S, count, from)
  <1> DEFINE pre(s) == {i \in S : i.start < s.start}
             through(s) == Length(s) + LengthSum(pre(s))
             reaching == {s \in S : through(s) >= count}
             first == CHOOSE s \in reaching : \A i \in reaching : s.start <= i.start
             h == PageHorizon(S, count, from)
  <1>1. h = IF S = {} THEN from
            ELSE IF reaching = {} THEN Max({s.end : s \in S})
            ELSE first.start + count - (through(first) - Length(first)) - 1
    BY DEF PageHorizon, LengthSum
  <1>2. \A s \in S : s.start \in Nat /\ s.end \in Nat /\ s.start <= s.end
    BY DEF Apart
  <1>3. \A s \in S : /\ IsFiniteSet(Minutes(pre(s))) /\ LengthSum(pre(s)) = Cardinality(Minutes(pre(s)))
                     /\ LengthSum(pre(s)) \in Nat
                     /\ Length(s) \in Nat /\ Length(s) = s.end - s.start + 1
    <2> SUFFICES ASSUME NEW s \in S
                 PROVE  /\ IsFiniteSet(Minutes(pre(s))) /\ LengthSum(pre(s)) = Cardinality(Minutes(pre(s)))
                        /\ LengthSum(pre(s)) \in Nat
                        /\ Length(s) \in Nat /\ Length(s) = s.end - s.start + 1
      OBVIOUS
    <2>1. Apart(pre(s))
      BY ApartWithin
    <2> HIDE DEF pre
    <2>2. IsFiniteSet(Minutes(pre(s))) /\ LengthSum(pre(s)) = Cardinality(Minutes(pre(s)))
      BY <2>1, LengthsAddUp
    <2>3. LengthSum(pre(s)) \in Nat
      BY <2>2, FS_CardinalityType
    <2> QED
      BY <1>2, <2>2, <2>3 DEF Length
  <1>4. CASE S = {}
    BY <1>1, <1>4 DEF Reaches
  <1>5. CASE S # {} /\ reaching = {}
    <2>1. h = Max({s.end : s \in S})
      BY <1>1, <1>5
    <2>2. \E s \in S : \A t \in S : t.end <= s.end
      <3> DEFINE v == [s \in S |-> s.end]
      <3>1. \A s \in S : v[s] \in Nat /\ v[s] = s.end
        BY <1>2
      <3>2. IsFiniteSet(S) /\ S # {}
        BY <1>5 DEF Apart
      <3> HIDE DEF v
      <3>3. \E s \in S : \A t \in S : v[t] <= v[s]
        BY <3>1, <3>2, GreatestValue
      <3> QED
        BY <3>1, <3>3
    <2>3. PICK top \in S : \A t \in S : t.end <= top.end
      BY <2>2
    <2> DEFINE E == {s.end : s \in S}
    <2>4. top.end \in E /\ \A y \in E : y <= top.end
      BY <2>3
    <2>5. Max(E) \in E /\ \A y \in E : y <= Max(E)
      <3> HIDE DEF E
      <3> QED
        BY <2>4 DEF Max
    <2>6. h \in E /\ \A s \in S : s.end <= h
      BY <2>1, <2>5
    <2>7. h \in Nat /\ \E s \in S : h = s.end
      BY <1>2, <2>6
    <2> HIDE DEF h, E
    <2>8. \E s \in S : h <= s.end
      BY <2>7
    <2> QED
      BY <1>5, <2>6, <2>7, <2>8 DEF h, Reaches
  <1>6. CASE S # {} /\ reaching # {}
    <2>1. \E s \in reaching : \A i \in reaching : s.start <= i.start
      <3> DEFINE B == {s.start : s \in reaching}
      <3>1. B \in SUBSET Nat /\ B # {}
        BY <1>2, <1>6
      <3>2. \E b \in B : \A y \in B : b <= y
        <4> HIDE DEF B
        <4> QED
          BY <3>1, LeastOf
      <3> HIDE DEF through
      <3> QED
        BY <3>2
    <2>2. first \in reaching /\ \A i \in reaching : first.start <= i.start
      <3> HIDE DEF reaching
      <3> QED
        BY <2>1
    <2>3. h = first.start + count - (through(first) - Length(first)) - 1
      BY <1>1, <1>6
    <2> HIDE DEF first, h
    <2> DEFINE sum == LengthSum(pre(first))
               P == Minutes(pre(first))
    <2>4. /\ first \in S /\ first.start \in Nat /\ first.end \in Nat /\ first.start <= first.end
          /\ IsFiniteSet(P) /\ sum = Cardinality(P) /\ sum \in Nat
          /\ Length(first) = first.end - first.start + 1 /\ Length(first) + sum >= count
          /\ through(first) = Length(first) + sum
      BY <1>2, <1>3, <2>2
    <2>5. h = first.start + count - sum - 1
      <3> HIDE DEF sum, through
      <3> QED
        BY <2>3, <2>4 DEF Length
    <2>6. sum < count
      <3>1. CASE pre(first) = {}
        <4>1. P = {}
          BY <3>1 DEF Minutes
        <4>2. sum = 0
          BY <2>4, <4>1, FS_EmptySet
        <4> QED
          BY <4>2
      <3>2. CASE pre(first) # {}
        <4>1. \E g \in pre(first) : \A i \in pre(first) : i.start <= g.start
          <5> DEFINE B == {i.start : i \in pre(first)}
          <5>1. B # {} /\ B \in SUBSET (0..first.start)
            BY <1>2, <2>4, <3>2
          <5>2. \E b \in B : \A y \in B : y <= b
            <6> HIDE DEF B
            <6> QED
              BY <2>4, <5>1, GreatestOf
          <5> HIDE DEF pre
          <5> QED
            BY <5>2
        <4>2. PICK g \in pre(first) : \A i \in pre(first) : i.start <= g.start
          BY <4>1
        <4>3. g \in S /\ g.start < first.start
          OBVIOUS
        <4>4. g \notin reaching
          BY <1>2, <2>2, <2>4, <4>3
        <4>5. through(g) < count /\ Length(g) = Cardinality(g.start..g.end) /\ IsFiniteSet(g.start..g.end)
          <5> DEFINE a == g.start  b == g.end
          <5>1. a \in Nat /\ b \in Nat /\ a <= b /\ Length(g) = b - a + 1
            BY <1>2, <1>3, <4>3
          <5>2. IsFiniteSet(a..b) /\ Cardinality(a..b) = b - a + 1
            <6> HIDE DEF a, b
            <6> QED
              BY <5>1, FS_Interval
          <5>3. through(g) \in Nat
            BY <1>3, <4>3
          <5> HIDE DEF through
          <5> QED
            BY <4>3, <4>4, <5>1, <5>2, <5>3
        <4>6. pre(first) = pre(g) \cup {g}
          <5>1. \A i \in S : i.start = g.start => i = g
            BY <1>2, <4>3 DEF Apart
          <5> QED
            BY <1>2, <2>4, <4>2, <4>3, <5>1
        <4>7. P = Minutes(pre(g)) \cup (g.start..g.end) /\ Minutes(pre(g)) \cap (g.start..g.end) = {}
          <5>1. P = Minutes(pre(g)) \cup (g.start..g.end)
            <6> HIDE DEF pre
            <6> QED
              BY <4>6 DEF Minutes
          <5>2. \A i \in pre(g) : i.end < g.start
            BY <1>2, <4>3 DEF Apart
          <5>3. \A i \in pre(g) : i.end \in Nat /\ g.start \in Nat
            BY <1>2, <4>3
          <5> QED
            BY <5>1, <5>2, <5>3 DEF Minutes
        <4>8. sum = LengthSum(pre(g)) + Length(g)
          <5> DEFINE A == Minutes(pre(g))
                     C == g.start..g.end
          <5>1. IsFiniteSet(A) /\ IsFiniteSet(C) /\ A \cap C = {} /\ P = A \cup C
                /\ LengthSum(pre(g)) = Cardinality(A) /\ Length(g) = Cardinality(C) /\ sum = Cardinality(P)
            BY <1>3, <2>4, <4>3, <4>5, <4>7
          <5> HIDE DEF A, C, P, sum
          <5>2. Cardinality(A \cup C) = Cardinality(A) + Cardinality(C) - Cardinality(A \cap C)
            BY <5>1, FS_Union
          <5>3. Cardinality({}) = 0 /\ Cardinality(A) \in Nat /\ Cardinality(C) \in Nat
            BY <5>1, FS_EmptySet, FS_CardinalityType
          <5>4. sum = Cardinality(A) + Cardinality(C) - 0
            BY <5>1, <5>2, <5>3
          <5>5. LengthSum(pre(g)) = Cardinality(A) /\ Length(g) = Cardinality(C)
            BY <5>1
          <5> HIDE DEF pre
          <5> QED
            BY <5>3, <5>4, <5>5
        <4>9. LengthSum(pre(g)) \in Nat /\ Length(g) \in Nat
          BY <1>3, <4>3
        <4> HIDE DEF sum, pre
        <4> QED
          BY <4>5, <4>8, <4>9
      <3> QED
        BY <3>1, <3>2
    <2> DEFINE Q == first.start..h
    <2>7. h \in Nat /\ first.start <= h /\ h <= first.end
      <3> HIDE DEF sum
      <3> QED
        BY <2>4, <2>5, <2>6
    <2>8. IsFiniteSet(Q) /\ Cardinality(Q) = count - sum
      <3> DEFINE a == first.start
      <3>1. a \in Nat /\ h \in Nat /\ a <= h /\ h = a + count - sum - 1 /\ sum \in Nat
        BY <2>4, <2>5, <2>7
      <3> HIDE DEF a, sum
      <3>2. IsFiniteSet(a..h) /\ Cardinality(a..h) = h - a + 1
        BY <3>1, FS_Interval
      <3>3. h - a + 1 = count - sum
        BY <3>1
      <3> QED
        BY <3>2, <3>3 DEF a
    <2>9. \A i \in pre(first) : i.end \in Nat /\ i.start \in Nat /\ i.end < first.start
      BY <1>2, <2>4 DEF Apart
    <2>10. P \cap Q = {} /\ \A m \in P : m <= h
      BY <2>4, <2>7, <2>9 DEF Minutes
    <2>11. P \cup Q \subseteq Minutes(S)
      BY <2>4, <2>7 DEF Minutes
    <2>12. Cardinality(P \cup Q) = count /\ IsFiniteSet(P \cup Q)
      <3> HIDE DEF P, Q, sum
      <3>1. IsFiniteSet(P \cup Q) /\ Cardinality(P \cup Q) = Cardinality(P) + Cardinality(Q) - Cardinality(P \cap Q)
        BY <2>4, <2>8, FS_Union
      <3>2. Cardinality({}) = 0
        BY FS_EmptySet
      <3> QED
        BY <2>4, <2>8, <2>10, <3>1, <3>2
    <2>13. \A m \in Q : m <= h
      BY <2>4, <2>7
    <2> DEFINE B == P \cup Q
    <2>14. IsFiniteSet(B) /\ Cardinality(B) = count /\ B \subseteq Minutes(S) /\ \A m \in B : m <= h
      BY <2>10, <2>11, <2>12, <2>13
    <2>15. h \in Nat /\ (S # {} => \E s \in S : h <= s.end) /\ S # {}
      BY <1>6, <2>4, <2>7
    <2> HIDE DEF B
    <2> QED
      BY <2>14, <2>15 DEF h, Reaches
  <1> QED
    BY <1>4, <1>5, <1>6

----------------------------------------------------------------------------
(* The intervals of a publication, clipped to a range of minutes.           *)

LEMMA OfTwo ==
  ASSUME NEW a \in Nat, NEW b \in Nat
  PROVE  /\ Max({a, b}) \in {a, b} /\ Max({a, b}) >= a /\ Max({a, b}) >= b
         /\ Min({a, b}) \in {a, b} /\ Min({a, b}) <= a /\ Min({a, b}) <= b
  <1>1. \E x \in {a, b} : \A y \in {a, b} : x >= y
    OBVIOUS
  <1>2. \E x \in {a, b} : \A y \in {a, b} : x <= y
    OBVIOUS
  <1>3. Max({a, b}) \in {a, b} /\ \A y \in {a, b} : Max({a, b}) >= y
    BY <1>1 DEF Max
  <1>4. Min({a, b}) \in {a, b} /\ \A y \in {a, b} : Min({a, b}) <= y
    BY <1>2 DEF Min
  <1> QED
    BY <1>3, <1>4

LEMMA StretchesFinite == IsFiniteSet(Stretches)
  <1> DEFINE D == ((1..ProductCount) \X (1..LastMinute)) \X (1..LastMinute)
             f == [d \in D |-> Span(d[1][1], d[1][2], d[2])]
  <1>1. IsFiniteSet(1..ProductCount) /\ IsFiniteSet(1..LastMinute)
    BY FuturesAssumption, FS_Interval DEF FuturesAssumption
  <1>2. IsFiniteSet((1..ProductCount) \X (1..LastMinute))
    BY <1>1, FS_Product
  <1>3. IsFiniteSet(D)
    BY <1>1, <1>2, FS_Product
  <1>4. \A s \in Stretches : \E d \in D : s = f[d]
    <2> SUFFICES ASSUME NEW p \in 1..ProductCount, NEW a \in 1..LastMinute, NEW b \in 1..LastMinute
                 PROVE  \E d \in D : Span(p, a, b) = f[d]
      BY DEF Stretches
    <2> WITNESS <<<<p, a>>, b>> \in D
    <2> QED
      OBVIOUS
  <1>5. \A d \in D : f[d] \in Stretches
    BY DEF Stretches
  <1>6. f \in Surjection(D, Stretches)
    BY <1>4, <1>5 DEF Surjection
  <1> QED
    BY <1>3, <1>6, FS_Surjection

LEMMA RunsAreApart ==
  ASSUME NEW table, DOMAIN table \subseteq BarKeys, NEW s \in Intervals(table), NEW t \in Intervals(table),
         s.product = t.product, s # t
  PROVE  s.end < t.start \/ t.end < s.start
  <1> DEFINE p == s.product  a == s.start  b == s.end  c == t.start  d == t.end
  <1>1. /\ s \in Stretches /\ IsRun(table, p, a, b)
        /\ t \in Stretches /\ IsRun(table, p, c, d)
    BY RunsAreIntervals
  <1>2. s = Span(p, a, b) /\ t = Span(p, c, d) /\ a \in Nat /\ b \in Nat /\ c \in Nat /\ d \in Nat
    BY <1>1 DEF Stretches, Span
  <1> HIDE DEF p, a, b, c, d
  <1> SUFFICES ASSUME c <= b, a <= d PROVE FALSE
    BY <1>2 DEF a, b, c, d
  <1>3. ~(a < c)
    <2> SUFFICES ASSUME a < c PROVE FALSE
      OBVIOUS
    <2>1. c - 1 \in a..b
      BY <1>2
    <2> QED
      BY <1>1, <2>1 DEF IsRun
  <1>4. ~(c < a)
    <2> SUFFICES ASSUME c < a PROVE FALSE
      OBVIOUS
    <2>1. a - 1 \in c..d
      BY <1>2
    <2> QED
      BY <1>1, <2>1 DEF IsRun
  <1>5. ~(b < d)
    <2> SUFFICES ASSUME b < d PROVE FALSE
      OBVIOUS
    <2>1. b + 1 \in c..d
      BY <1>2
    <2> QED
      BY <1>1, <2>1 DEF IsRun
  <1>6. ~(d < b)
    <2> SUFFICES ASSUME d < b PROVE FALSE
      OBVIOUS
    <2>1. d + 1 \in a..b
      BY <1>2
    <2> QED
      BY <1>1, <2>1 DEF IsRun
  <1>7. a = c /\ b = d
    BY <1>2, <1>3, <1>4, <1>5, <1>6
  <1> QED
    BY <1>2, <1>7

\* Intervals that are apart and hold the rows of a range, no more and no fewer.
Split(C, table, codes, from, to) ==
  /\ \A c \in C : /\ c \in Stretches /\ c.product \in codes
                  /\ from <= c.start /\ c.start <= c.end /\ c.end <= to
  /\ \A c, d \in C : c.product = d.product /\ c # d => c.end < d.start \/ d.end < c.start
  /\ \A p \in codes, m \in from..to :
       <<p, m>> \in DOMAIN table <=> \E c \in C : c.product = p /\ m \in c.start..c.end
  /\ IsFiniteSet(C)

LEMMA ClippedSpans ==
  ASSUME NEW table, DOMAIN table \subseteq BarKeys, NEW codes, codes \subseteq 1..ProductCount,
         NEW from \in Nat \ {0}, NEW to \in Nat, from <= to
  PROVE  Split(Clipped(Intervals(table), codes, from, to), table, codes, from, to)
  <1> DEFINE C == Clipped(Intervals(table), codes, from, to)
             Cut(s) == Span(s.product, Max({s.start, from}), Min({s.end, to}))
             Met == {s \in Intervals(table) : s.product \in codes /\ s.end >= from /\ s.start <= to}
  <1>1. C = {Cut(s) : s \in Met}
    BY DEF Clipped
  <1>2. ASSUME NEW s \in Met
        PROVE  /\ s \in Stretches /\ IsRun(table, s.product, s.start, s.end) /\ s.product \in codes
               /\ s.start \in 1..LastMinute /\ s.end \in 1..LastMinute /\ s.start <= s.end
               /\ Cut(s).product = s.product
               /\ Cut(s).start \in {s.start, from} /\ Cut(s).end \in {s.end, to}
               /\ s.start <= Cut(s).start /\ from <= Cut(s).start
               /\ Cut(s).end <= s.end /\ Cut(s).end <= to
               /\ Cut(s).start <= Cut(s).end
               /\ Cut(s) = Span(s.product, Cut(s).start, Cut(s).end)
    <2>1. s \in Stretches /\ IsRun(table, s.product, s.start, s.end) /\ s.product \in codes
          /\ from <= s.end /\ s.start <= to
      BY RunsAreIntervals
    <2> DEFINE a == s.start  b == s.end
    <2>2. a \in 1..LastMinute /\ b \in 1..LastMinute /\ a <= b
      BY <2>1 DEF Stretches, Span, IsRun
    <2> HIDE DEF a, b
    <2>3. a \in Nat /\ b \in Nat
      BY <2>2
    <2>4. /\ Max({a, from}) \in {a, from} /\ a <= Max({a, from}) /\ from <= Max({a, from})
          /\ Min({b, to}) \in {b, to} /\ Min({b, to}) <= b /\ Min({b, to}) <= to
      BY <2>3, OfTwo
    <2>5. Max({a, from}) <= Min({b, to})
      BY <2>1, <2>2, <2>3, <2>4 DEF a, b
    <2>6. Cut(s).start = Max({a, from}) /\ Cut(s).end = Min({b, to}) /\ Cut(s).product = s.product
          /\ Cut(s) = Span(s.product, Max({a, from}), Min({b, to}))
      BY DEF Span, a, b
    <2> QED
      BY <2>1, <2>2, <2>4, <2>5, <2>6 DEF a, b
  <1> HIDE DEF C, Cut, Met
  <1>3. ASSUME NEW c \in C
        PROVE  /\ c \in Stretches /\ c.product \in codes
               /\ from <= c.start /\ c.start <= c.end /\ c.end <= to
    <2>1. PICK s \in Met : c = Cut(s)
      BY <1>1
    <2> DEFINE a == c.start  b == c.end  p == c.product
    <2>2. /\ c = Span(p, a, b) /\ p \in codes
          /\ a \in {s.start, from} /\ b \in {s.end, to} /\ s.start \in 1..LastMinute /\ s.end \in 1..LastMinute
          /\ s.start <= a /\ from <= a /\ b <= s.end /\ b <= to /\ a <= b
      BY <1>2, <2>1
    <2> HIDE DEF a, b, p
    <2>3. a \in 1..LastMinute /\ b \in 1..LastMinute /\ p \in 1..ProductCount
      BY <2>2, FuturesAssumption DEF FuturesAssumption
    <2>4. c \in Stretches
      BY <2>2, <2>3 DEF Stretches
    <2> QED
      BY <2>2, <2>4 DEF a, b, p
  <1>4. ASSUME NEW c \in C, NEW d \in C, c.product = d.product, c # d
        PROVE  c.end < d.start \/ d.end < c.start
    <2>1. PICK s \in Met, t \in Met : c = Cut(s) /\ d = Cut(t)
      BY <1>1
    <2>2. s # t /\ s.product = t.product /\ s \in Intervals(table) /\ t \in Intervals(table)
      BY <1>2, <1>4, <2>1 DEF Met
    <2>3. s.end < t.start \/ t.end < s.start
      BY <2>2, RunsAreApart
    <2>4. /\ s.start \in Nat /\ s.end \in Nat /\ t.start \in Nat /\ t.end \in Nat
          /\ c.start \in Nat /\ c.end \in Nat /\ d.start \in Nat /\ d.end \in Nat
          /\ s.start <= c.start /\ c.end <= s.end /\ t.start <= d.start /\ d.end <= t.end
      BY <1>2, <2>1
    <2> QED
      BY <2>3, <2>4
  <1>5. ASSUME NEW p \in codes, NEW m \in from..to, <<p, m>> \in DOMAIN table
        PROVE  \E c \in C : c.product = p /\ m \in c.start..c.end
    <2> DEFINE k == <<p, m>>
    <2>1. k \in DOMAIN table /\ Product(k) = p /\ Minute(k) = m
      BY <1>5 DEF Product, Minute
    <2> HIDE DEF k
    <2>2. PICK s \in Intervals(table) : Within(k, s)
      BY <2>1, IntervalsCover
    <2>3. p = s.product /\ m \in s.start..s.end
      BY <2>1, <2>2 DEF Within
    <2>4. s \in Stretches
      BY RunsAreIntervals
    <2>5. s.start \in Nat /\ s.end \in Nat
      BY <2>4 DEF Stretches, Span
    <2>6. s \in Met
      BY <2>3, <2>5 DEF Met
    <2>7. Cut(s) \in C /\ Cut(s).product = p /\ m \in Cut(s).start..Cut(s).end
      BY <1>1, <1>2, <2>3, <2>5, <2>6
    <2> QED
      BY <2>7
  <1>6. ASSUME NEW p \in codes, NEW m \in from..to, NEW c \in C, c.product = p, m \in c.start..c.end
        PROVE  <<p, m>> \in DOMAIN table
    <2>1. PICK s \in Met : c = Cut(s)
      BY <1>1
    <2>2. /\ IsRun(table, p, s.start, s.end) /\ s.start \in Nat /\ s.end \in Nat
          /\ s.start <= c.start /\ c.end <= s.end /\ c.start \in Nat /\ c.end \in Nat
      BY <1>2, <1>6, <2>1
    <2>3. m \in s.start..s.end
      BY <1>6, <2>2
    <2> QED
      BY <2>2, <2>3 DEF IsRun
  <1>7. IsFiniteSet(C)
    BY <1>3, StretchesFinite, FS_Subset
  <1> QED
    BY <1>3, <1>4, <1>5, <1>6, <1>7 DEF C, Split

----------------------------------------------------------------------------
(* What a read is of, and what a page takes of the rest of it.              *)

Wanted(q, table) == {k \in DOMAIN table : Product(k) \in q.codes /\ Minute(k) \in q.from..q.to}
Whole(q, table) == IF q.kind = "bars" THEN ItemsOf(table, Wanted(q, table))
                  ELSE Clipped(Intervals(table), q.codes, q.from, q.to)
Rest(q, table, cursor) == {x \in Whole(q, table) : cursor # NoBar => Position(q, cursor) < PositionIn(q, x)}
Matching(q, pub, cursor) == IF q.kind = "bars" THEN PageBars(q, pub, cursor) ELSE PageSpans(q, pub, cursor)

\* Its places are numbers, no two of them the same.
Ordered(q, S) == IsFiniteSet(S) /\ Placed(q, S) /\ \A x, y \in S : PositionIn(q, x) = PositionIn(q, y) => x = y

LEMMA QueryParts ==
  ASSUME NEW q \in ReadQueries
  PROVE  /\ q.kind \in {"bars", "coverage"} /\ q.codes \subseteq 1..ProductCount /\ q.codes # {}
         /\ q.from \in Nat \ {0} /\ q.to \in Nat /\ q.from <= q.to /\ q.limit \in Nat \ {0}
  BY FuturesAssumption DEF FuturesAssumption

LEMMA WholeIsOrdered ==
  ASSUME NEW q \in ReadQueries, NEW table, DOMAIN table \subseteq BarKeys
  PROVE  Ordered(q, Whole(q, table))
  <1>1. CASE q.kind = "bars"
    <2> DEFINE K == Wanted(q, table)
    <2>1. K \in SUBSET BarKeys
      BY DEF Wanted
    <2> HIDE DEF K
    <2>2. Ordered(q, ItemsOf(table, K))
      BY <1>1, <2>1, BarPlaces DEF Ordered
    <2> QED
      BY <1>1, <2>2 DEF Whole, K
  <1>2. CASE q.kind # "bars"
    <2> DEFINE C == Clipped(Intervals(table), q.codes, q.from, q.to)
    <2>1. /\ \A c \in C : c \in Stretches /\ c.start <= c.end
          /\ \A c, d \in C : c.product = d.product /\ c # d => c.end < d.start \/ d.end < c.start
          /\ IsFiniteSet(C)
      BY QueryParts, ClippedSpans DEF Split
    <2>2. C = Whole(q, table)
      BY <1>2 DEF Whole
    <2> HIDE DEF C
    <2>3. ProductCount \in Nat /\ LastMinute \in Nat
      BY FuturesAssumption DEF FuturesAssumption
    <2>4. \A c \in C : c.product \in Nat /\ c.start \in 1..LastMinute /\ c.end \in Nat
                       /\ PositionIn(q, c) = c.product * (LastMinute + 1) + c.start
      BY <1>2, <2>1, <2>3 DEF Stretches, Span, PositionIn, Position, CursorOf, Product, Minute
    <2>5. ASSUME NEW c \in C, NEW d \in C, PositionIn(q, c) = PositionIn(q, d) PROVE c = d
      <3> DEFINE a == c.product  b == d.product  i == c.start  j == d.start
      <3>1. a \in Nat /\ b \in Nat /\ i \in 1..LastMinute /\ j \in 1..LastMinute
            /\ a * (LastMinute + 1) + i = b * (LastMinute + 1) + j
        BY <2>4, <2>5
      <3> HIDE DEF a, b, i, j
      <3>2. /\ a < b => a * (LastMinute + 1) + i < b * (LastMinute + 1) + j
            /\ a = b => (a * (LastMinute + 1) + i < b * (LastMinute + 1) + j <=> i < j)
        BY <2>3, <3>1, InOrder
      <3>3. /\ b < a => b * (LastMinute + 1) + j < a * (LastMinute + 1) + i
            /\ b = a => (b * (LastMinute + 1) + j < a * (LastMinute + 1) + i <=> j < i)
        BY <2>3, <3>1, InOrder
      <3>4. a * (LastMinute + 1) + i \in Nat /\ b * (LastMinute + 1) + j \in Nat
        BY <2>3, <3>1, InOrder
      <3>5. a = b /\ i = j
        BY <3>1, <3>2, <3>3, <3>4
      <3>6. c.end \in Nat /\ d.end \in Nat /\ i <= c.end /\ j <= d.end
        BY <2>1, <2>4 DEF i, j
      <3>7. ~(c.end < j) /\ ~(d.end < i)
        BY <3>1, <3>5, <3>6
      <3> QED
        BY <2>1, <3>5, <3>7 DEF a, b, i, j
    <2>6. ASSUME NEW c \in C PROVE PositionIn(q, c) \in Nat
      <3> DEFINE a == c.product  i == c.start
      <3>1. a \in Nat /\ i \in 1..LastMinute /\ PositionIn(q, c) = a * (LastMinute + 1) + i
        BY <2>4
      <3> HIDE DEF a, i
      <3> QED
        BY <2>3, <3>1, InOrder
    <2> QED
      BY <2>1, <2>2, <2>5, <2>6 DEF Ordered, Placed
  <1> QED
    BY <1>1, <1>2

KeysFrom(q, table, a, b) == {k \in DOMAIN table : Product(k) \in q.codes /\ Minute(k) \in a..b}

\* The keys a page of bars accepts, of a publication that is the table.
LEMMA AcceptedKeys ==
  ASSUME NEW q \in ReadQueries, NEW pub, pub.rows = AdmittedRows(pub.receipt), NEW from, NEW to
  PROVE  LET accepted == {k \in AdmittedKeys(pub.receipt) :
                           /\ Product(k) \in q.codes /\ Minute(k) \in from..to
                           /\ \E s \in Intervals(pub.rows) : Within(k, s)
                           /\ \E b \in Boundaries(pub.rows) : Within(k, b.span) /\ b.source = bars[k].source}
         IN  {[key |-> k, row |-> bars[k]] : k \in accepted} = ItemsOf(pub.rows, KeysFrom(q, pub.rows, from, to))
  <1> DEFINE table == pub.rows
             accepted == {k \in AdmittedKeys(pub.receipt) :
                           /\ Product(k) \in q.codes /\ Minute(k) \in from..to
                           /\ \E s \in Intervals(pub.rows) : Within(k, s)
                           /\ \E b \in Boundaries(pub.rows) : Within(k, b.span) /\ b.source = bars[k].source}
             K == KeysFrom(q, pub.rows, from, to)
  <1>1. DOMAIN table = AdmittedKeys(pub.receipt) /\ DOMAIN table \subseteq BarKeys
        /\ \A k \in DOMAIN table : table[k] = bars[k]
    BY DEF AdmittedRows, AdmittedKeys
  <1> HIDE DEF table
  <1>2. \A k \in DOMAIN table : \E s \in Intervals(table) : Within(k, s)
    BY <1>1, IntervalsCover
  <1>3. \A k \in DOMAIN table : \E b \in Boundaries(table) : Within(k, b.span) /\ b.source = table[k].source
    BY <1>1, BoundariesCover
  <1>4. accepted = K
    BY <1>1, <1>2, <1>3 DEF table, KeysFrom
  <1>5. \A k \in K : [key |-> k, row |-> bars[k]] = ItemOf(table, k)
    BY <1>1 DEF ItemOf, table, KeysFrom
  <1> HIDE DEF accepted, K
  <1>6. {[key |-> k, row |-> bars[k]] : k \in accepted} = ItemsOf(table, K)
    BY <1>4, <1>5 DEF ItemsOf
  <1> QED
    BY <1>6 DEF table, accepted, K

\* A cursor is the place of a row of the whole that others come after.
IsCursor(q, table, cursor) ==
  cursor # NoBar => /\ \E x \in Whole(q, table) : cursor = CursorOf(q, x)
                    /\ \E y \in Whole(q, table) : Position(q, cursor) < PositionIn(q, y)

\* What a page matches are the first rows of the rest, and all of the rest when
\* they are not more than its limit.
PageOf(q, table, cursor, M) ==
  /\ IsStart(q, M, Rest(q, table, cursor))
  /\ ~(Cardinality(M) > q.limit) => M = Rest(q, table, cursor)

LEMMA AllOfTheRest ==
  ASSUME NEW q, NEW table, NEW cursor
  PROVE  PageOf(q, table, cursor, Rest(q, table, cursor))
  BY DEF PageOf, IsStart

\* Pages of one product: the minutes after the cursor, up to the horizon.
PageFrom(q, cursor) == IF cursor # NoBar THEN Minute(cursor) + 1 ELSE q.from
HorizonOf(q, table, from) == PageHorizon(Clipped(Intervals(table), q.codes, from, q.to), Ahead(q.limit), from)
BarsFrom(q, table, cursor, K) == {x \in ItemsOf(table, K) : cursor # NoBar => Position(q, cursor) < PositionIn(q, x)}

LEMMA OneProduct ==
  ASSUME NEW q \in ReadQueries, q.kind = "bars", NEW p, q.codes = {p},
         NEW table, DOMAIN table \subseteq BarKeys, NEW cursor, IsCursor(q, table, cursor),
         NEW from, from = PageFrom(q, cursor), NEW h, h = HorizonOf(q, table, from)
  PROVE  PageOf(q, table, cursor, BarsFrom(q, table, cursor, KeysFrom(q, table, from, h)))
  <1> DEFINE W == Wanted(q, table)
             R == Rest(q, table, cursor)
             S == Clipped(Intervals(table), q.codes, from, q.to)
             Later == {k \in DOMAIN table : Product(k) = p /\ Minute(k) \in from..q.to}
             K == KeysFrom(q, table, from, h)
             M == BarsFrom(q, table, cursor, K)
  <1>1. /\ q.codes \subseteq 1..ProductCount /\ q.from \in Nat \ {0} /\ q.to \in Nat /\ q.from <= q.to
        /\ q.limit \in Nat \ {0}
    BY QueryParts
  <1>2. \A k \in BarKeys : k = <<Product(k), Minute(k)>> /\ Minute(k) \in Nat
    BY FuturesAssumption DEF FuturesAssumption, BarKeys, Product, Minute
  <1>3. W \in SUBSET BarKeys /\ \A k \in W : Product(k) = p
    BY DEF Wanted
  <1>4. Whole(q, table) = ItemsOf(table, W)
    BY DEF Whole
  <1>5. cursor # NoBar => cursor \in W /\ Minute(cursor) < q.to
    <2> SUFFICES ASSUME cursor # NoBar PROVE cursor \in W /\ Minute(cursor) < q.to
      OBVIOUS
    <2> HIDE DEF W
    <2>1. PICK x \in ItemsOf(table, W), y \in ItemsOf(table, W) :
            cursor = CursorOf(q, x) /\ Position(q, cursor) < PositionIn(q, y)
      BY <1>4 DEF IsCursor
    <2>2. x.key \in W /\ CursorOf(q, x) = x.key /\ y.key \in W
      BY <1>3, BarPlaces
    <2>3. cursor \in W /\ cursor \in BarKeys /\ Product(cursor) = Product(y.key)
      BY <1>3, <2>1, <2>2
    <2>4. Minute(cursor) < Minute(y.key)
      BY <1>3, <2>1, <2>3, BarPlaces
    <2>5. Minute(y.key) \in q.from..q.to /\ Minute(cursor) \in q.from..q.to
      BY <2>2, <2>3 DEF W, Wanted
    <2> QED
      BY <1>1, <2>3, <2>4, <2>5
  <1>6. from \in Nat \ {0} /\ from <= q.to /\ q.from <= from
    <2>1. CASE cursor # NoBar
      <3>1. Minute(cursor) \in q.from..q.to /\ from = Minute(cursor) + 1
        BY <1>5, <2>1 DEF Wanted, PageFrom
      <3> QED
        BY <1>1, <1>5, <2>1, <3>1
    <2>2. CASE cursor = NoBar
      <3>1. from = q.from
        BY <2>2 DEF PageFrom
      <3> QED
        BY <1>1, <3>1
    <2> QED
      BY <2>1, <2>2
  <1>7. \A k \in DOMAIN table : Product(k) = p => (Minute(k) \in from..q.to <=>
            Minute(k) \in q.from..q.to /\ (cursor # NoBar => Minute(cursor) < Minute(k)))
    <2>1. CASE cursor # NoBar
      <3>1. Minute(cursor) \in q.from..q.to /\ from = Minute(cursor) + 1
        BY <1>5, <2>1 DEF Wanted, PageFrom
      <3> QED
        BY <1>1, <1>2, <2>1, <3>1
    <2>2. CASE cursor = NoBar
      <3>1. from = q.from
        BY <2>2 DEF PageFrom
      <3> QED
        BY <2>2, <3>1
    <2> QED
      BY <2>1, <2>2
  <1>8. R = ItemsOf(table, Later)
    <2>1. R = {x \in ItemsOf(table, W) : cursor # NoBar => Position(q, cursor) < PositionIn(q, x)}
      BY <1>4 DEF Rest
    <2>2. \A x \in ItemsOf(table, W) : x.key \in W /\ x = ItemOf(table, x.key)
                                      /\ (cursor # NoBar => (Position(q, cursor) < PositionIn(q, x)
                                                             <=> Minute(cursor) < Minute(x.key)))
      <3> HIDE DEF W
      <3>1. \A x \in ItemsOf(table, W) : x.key \in W /\ x = ItemOf(table, x.key)
        BY <1>3, BarPlaces
      <3>2. ASSUME cursor # NoBar, NEW x \in ItemsOf(table, W)
            PROVE  Position(q, cursor) < PositionIn(q, x) <=> Minute(cursor) < Minute(x.key)
        <4>1. cursor \in BarKeys /\ Product(cursor) = Product(x.key)
          BY <1>3, <1>5, <3>1, <3>2
        <4> QED
          BY <1>3, <4>1, BarPlaces
      <3> QED
        BY <3>1, <3>2
    <2>3. \A k : k \in W <=> k \in DOMAIN table /\ Product(k) = p /\ Minute(k) \in q.from..q.to
      BY DEF Wanted
    <2>4. \A k : k \in Later <=> k \in W /\ (cursor # NoBar => Minute(cursor) < Minute(k))
      BY <1>7, <2>3
    <2> HIDE DEF W, Later, R
    <2>5. \A k \in W : ItemOf(table, k).key = k /\ ItemOf(table, k) \in ItemsOf(table, W)
      BY DEF ItemOf, ItemsOf
    <2>6. \A x \in R : x \in ItemsOf(table, Later)
      BY <2>1, <2>2, <2>4 DEF ItemsOf
    <2>7. \A k \in Later : ItemOf(table, k) \in R
      BY <2>1, <2>2, <2>4, <2>5
    <2> QED
      BY <2>6, <2>7 DEF ItemsOf
  <1>9. Split(S, table, q.codes, from, q.to)
    BY <1>1, <1>6, ClippedSpans
  <1> HIDE DEF W, R, S, Later, K, M
  <1>10. /\ \A c \in S : /\ c.product = p /\ c.start \in Nat /\ c.end \in Nat
                         /\ from <= c.start /\ c.start <= c.end /\ c.end <= q.to
         /\ \A c, d \in S : c # d => c.end < d.start \/ d.end < c.start
         /\ \A m \in from..q.to : <<p, m>> \in DOMAIN table <=> \E c \in S : m \in c.start..c.end
         /\ IsFiniteSet(S)
    <2>1. \A c \in S : /\ c.product = p /\ c.start \in Nat /\ c.end \in Nat
                       /\ from <= c.start /\ c.start <= c.end /\ c.end <= q.to
      BY <1>9 DEF Stretches, Span, Split
    <2>2. p \in q.codes
      OBVIOUS
    <2>3. \A m \in from..q.to : <<p, m>> \in DOMAIN table <=> \E c \in S : c.product = p /\ m \in c.start..c.end
      BY <1>9, <2>2 DEF Split
    <2> QED
      BY <1>9, <2>1, <2>3 DEF Split
  <1>11. Apart(S)
    BY <1>10 DEF Apart
  <1>12. Minutes(S) = {Minute(k) : k \in Later}
    <2>1. ASSUME NEW m \in Minutes(S) PROVE \E k \in Later : m = Minute(k)
      <3>1. PICK c \in S : m \in c.start..c.end
        BY DEF Minutes
      <3>2. m \in from..q.to
        BY <1>1, <1>6, <1>10, <3>1
      <3>3. <<p, m>> \in DOMAIN table
        BY <1>10, <3>1, <3>2
      <3>4. Product(<<p, m>>) = p /\ Minute(<<p, m>>) = m
        BY DEF Product, Minute
      <3> QED
        BY <3>2, <3>3, <3>4 DEF Later
    <2>2. ASSUME NEW k \in Later PROVE Minute(k) \in Minutes(S)
      <3>1. k = <<p, Minute(k)>> /\ Minute(k) \in from..q.to /\ k \in DOMAIN table
        BY <1>2 DEF Later
      <3>2. \E c \in S : Minute(k) \in c.start..c.end
        BY <1>10, <3>1
      <3> QED
        BY <3>2 DEF Minutes
    <2> QED
      BY <2>1, <2>2
  <1>13. Reaches(h, S, q.limit + 1, from)
    <2> DEFINE n == q.limit + 1
    <2>1. n \in Nat \ {0} /\ from \in Nat /\ h = PageHorizon(S, n, from)
      BY <1>1, <1>6 DEF Ahead, S, HorizonOf
    <2> HIDE DEF n
    <2>2. Reaches(PageHorizon(S, n, from), S, n, from)
      BY <1>11, <2>1, HorizonReaches
    <2> QED
      BY <2>1, <2>2 DEF n
  <1>14. h \in Nat /\ h <= q.to
    BY <1>1, <1>6, <1>10, <1>13 DEF Reaches
  <1>15. Later \in SUBSET BarKeys
    BY DEF Later
  <1>16. \A k \in Later : Minute(k) <= h => k \in K
    BY <1>1, <1>2, <1>6, <1>14 DEF KeysFrom, Later, K
  <1>17. K \subseteq Later /\ \A k \in K : Minute(k) <= h
    BY <1>1, <1>2, <1>6, <1>14 DEF KeysFrom, Later, K
  <1>18. \A k \in Later : ItemOf(table, k) \in R /\ ItemOf(table, k).key = k
    BY <1>8 DEF ItemsOf, ItemOf
  <1>19. \A x \in R : x.key \in Later /\ x = ItemOf(table, x.key) /\ (cursor # NoBar => Position(q, cursor) < PositionIn(q, x))
    <2>1. \A x \in ItemsOf(table, Later) : x.key \in Later /\ x = ItemOf(table, x.key)
      BY <1>15, BarPlaces
    <2> QED
      BY <1>8, <2>1 DEF Rest, R
  <1>23. M = {x \in ItemsOf(table, K) : cursor # NoBar => Position(q, cursor) < PositionIn(q, x)}
    BY DEF BarsFrom, M
  <1>20. \A x : x \in M <=> x \in R /\ x.key \in K
    <2>1. ASSUME NEW x \in M PROVE x \in R /\ x.key \in K
      <3>1. PICK k \in K : x = ItemOf(table, k)
        BY <1>23 DEF ItemsOf
      <3> QED
        BY <1>17, <1>18, <3>1
    <2>2. ASSUME NEW x \in R, x.key \in K PROVE x \in M
      BY <1>19, <1>23, <2>2 DEF ItemsOf
    <2> QED
      BY <2>1, <2>2
  <1>21. IsStart(q, M, R)
    <2> SUFFICES ASSUME NEW x \in M, NEW y \in R, PositionIn(q, y) <= PositionIn(q, x) PROVE y \in M
      BY <1>20 DEF IsStart
    <2>1. x \in R /\ x.key \in K /\ x.key \in Later /\ y.key \in Later /\ y.key \in BarKeys /\ x.key \in BarKeys
      BY <1>15, <1>19, <1>20
    <2>2. Position(q, y.key) = PositionIn(q, y)
      BY <1>8, <1>15, <2>1, BarPlaces DEF PositionIn
    <2>3. Minute(y.key) <= Minute(x.key)
      BY <1>8, <1>15, <2>1, <2>2, BarPlaces
    <2>4. Minute(x.key) <= h /\ Minute(x.key) \in Nat /\ Minute(y.key) \in Nat
      BY <1>2, <1>17, <2>1
    <2>5. Minute(y.key) <= h
      BY <1>14, <2>3, <2>4
    <2> QED
      BY <1>16, <1>20, <2>1, <2>5
  <1>22. ASSUME ~(Cardinality(M) > q.limit) PROVE M = R
    <2>1. \A s \in S : s.end <= h
      <3> SUFFICES ASSUME NEW B, IsFiniteSet(B), Cardinality(B) = q.limit + 1, B \subseteq Minutes(S),
                          \A m \in B : m <= h
                   PROVE  FALSE
        BY <1>13 DEF Reaches
      <3> DEFINE N == {Minute(x.key) : x \in M}
                 f == [x \in M |-> Minute(x.key)]
      <3>1. B \subseteq N
        <4> SUFFICES ASSUME NEW m \in B PROVE m \in N
          OBVIOUS
        <4>1. PICK k \in Later : m = Minute(k)
          BY <1>12
        <4>2. k \in K
          BY <1>16, <4>1
        <4>3. ItemOf(table, k) \in M /\ ItemOf(table, k).key = k
          BY <1>18, <1>20, <4>2
        <4> QED
          BY <4>1, <4>3
      <3>2. f \in Surjection(M, N)
        BY DEF Surjection
      <3>3. IsFiniteSet(M)
        <4>1. IsFiniteSet(ItemsOf(table, Later))
          BY <1>15, BarPlaces
        <4>2. M \subseteq R
          BY <1>20
        <4> QED
          BY <1>8, <4>1, <4>2, FS_Subset
      <3> HIDE DEF f, N
      <3>4. IsFiniteSet(N) /\ Cardinality(N) <= Cardinality(M)
        BY <3>2, <3>3, FS_Surjection
      <3>5. Cardinality(B) <= Cardinality(N)
        BY <3>1, <3>4, FS_Subset
      <3>6. Cardinality(M) \in Nat /\ Cardinality(N) \in Nat
        BY <3>3, <3>4, FS_CardinalityType
      <3> QED
        BY <1>1, <1>22, <3>4, <3>5, <3>6
    <2>2. \A k \in Later : Minute(k) <= h
      <3> SUFFICES ASSUME NEW k \in Later PROVE Minute(k) <= h
        OBVIOUS
      <3>1. Minute(k) \in Minutes(S)
        BY <1>12
      <3>2. PICK c \in S : Minute(k) \in c.start..c.end
        BY <3>1 DEF Minutes
      <3>3. Minute(k) \in Nat /\ Minute(k) <= c.end /\ c.end <= h /\ c.end \in Nat
        BY <1>2, <1>10, <1>15, <2>1, <3>2
      <3> QED
        BY <1>14, <3>3
    <2> QED
      BY <1>16, <1>19, <1>20, <2>2
  <1> QED
    BY <1>21, <1>22 DEF PageOf, R, K, M

LEMMA MatchingIsPage ==
  ASSUME NEW q \in ReadQueries, NEW pub, pub.rows = AdmittedRows(pub.receipt),
         NEW cursor, IsCursor(q, pub.rows, cursor)
  PROVE  PageOf(q, pub.rows, cursor, Matching(q, pub, cursor))
  <1> DEFINE table == pub.rows
  <1>1. DOMAIN table \subseteq BarKeys
    BY DEF AdmittedRows, AdmittedKeys
  <1>2. CASE q.kind # "bars"
    <2>1. Matching(q, pub, cursor) = Rest(q, table, cursor)
      BY <1>2 DEF Matching, PageSpans, Rest, Whole
    <2> QED
      BY <2>1, AllOfTheRest
  <1>3. CASE q.kind = "bars"
    <2> DEFINE single == Cardinality(q.codes) = 1
               from == IF single /\ cursor # NoBar THEN Minute(cursor) + 1 ELSE q.from
               to == IF single THEN PageHorizon(Clipped(Intervals(pub.rows), q.codes, from, q.to), Ahead(q.limit), from)
                     ELSE q.to
               K == KeysFrom(q, pub.rows, from, to)
    <2>1. Matching(q, pub, cursor) = BarsFrom(q, pub.rows, cursor, K)
      <3> DEFINE accepted == {k \in AdmittedKeys(pub.receipt) :
                     /\ Product(k) \in q.codes /\ Minute(k) \in from..to
                     /\ \E s \in Intervals(pub.rows) : Within(k, s)
                     /\ \E b \in Boundaries(pub.rows) : Within(k, b.span) /\ b.source = bars[k].source}
      <3>1. Matching(q, pub, cursor) = {x \in {[key |-> k, row |-> bars[k]] : k \in accepted} :
                                          cursor # NoBar => Position(q, cursor) < PositionIn(q, x)}
        BY <1>3 DEF Matching, PageBars
      <3> HIDE DEF from, to
      <3>2. {[key |-> k, row |-> bars[k]] : k \in accepted} = ItemsOf(pub.rows, K)
        BY AcceptedKeys
      <3> HIDE DEF accepted, K
      <3> QED
        BY <3>1, <3>2 DEF BarsFrom
    <2>2. CASE ~single
      <3>1. K = Wanted(q, pub.rows)
        BY <2>2 DEF Wanted, KeysFrom
      <3> HIDE DEF K
      <3>2. BarsFrom(q, pub.rows, cursor, K) = Rest(q, pub.rows, cursor)
        BY <1>3, <3>1 DEF Rest, Whole, BarsFrom
      <3> QED
        BY <2>1, <3>2, AllOfTheRest
    <2>3. CASE single
      <3>1. IsFiniteSet(q.codes)
        <4>1. ProductCount \in Nat
          BY FuturesAssumption DEF FuturesAssumption
        <4>2. IsFiniteSet(1..ProductCount)
          BY <4>1, FS_Interval
        <4> QED
          BY <4>2, QueryParts, FS_Subset
      <3>2. PICK p : q.codes = {p}
        BY <2>3, <3>1, FS_Singleton
      <3>3. from = PageFrom(q, cursor) /\ to = HorizonOf(q, pub.rows, from)
        BY <2>3 DEF PageFrom, HorizonOf
      <3> HIDE DEF from, to
      <3>4. PageOf(q, pub.rows, cursor, BarsFrom(q, pub.rows, cursor, K))
        BY <1>1, <1>3, <3>2, <3>3, OneProduct
      <3> QED
        BY <2>1, <3>4
    <2> QED
      BY <2>2, <2>3
  <1> QED
    BY <1>2, <1>3

----------------------------------------------------------------------------
(* The pages of a read, one after the other.                                *)

LEMMA StartOfStart ==
  ASSUME NEW q, NEW P, NEW M, NEW R, IsStart(q, P, M), IsStart(q, M, R)
  PROVE  IsStart(q, P, R)
  BY DEF IsStart

LEMMA CursorIsKey ==
  ASSUME NEW q \in ReadQueries, NEW table, DOMAIN table \subseteq BarKeys, NEW x \in Whole(q, table)
  PROVE  CursorOf(q, x) \in BarKeys
  <1>1. CASE q.kind = "bars"
    BY <1>1 DEF Whole, ItemsOf, ItemOf, Wanted, CursorOf
  <1>2. CASE q.kind # "bars"
    <2> DEFINE C == Clipped(Intervals(table), q.codes, q.from, q.to)
    <2>1. Split(C, table, q.codes, q.from, q.to)
      BY QueryParts, ClippedSpans
    <2>2. x \in C
      BY <1>2 DEF Whole
    <2> HIDE DEF C
    <2>3. x \in Stretches
      BY <2>1, <2>2 DEF Split
    <2> QED
      BY <1>2, <2>3 DEF Stretches, Span, CursorOf, BarKeys
  <1> QED
    BY <1>1, <1>2

\* The next page is all of the rest, or a start of it that ends at the next cursor.
IsNext(q, table, cursor, fetched, page) ==
  /\ page \subseteq Rest(q, table, cursor)
  /\ ~(Cardinality(fetched) > q.limit) => page = Rest(q, table, cursor)
  /\ Cardinality(fetched) > q.limit =>
       \E last \in page :
         /\ last = CHOOSE x \in page : \A y \in page : PositionIn(q, y) <= PositionIn(q, x)
         /\ page = {x \in Rest(q, table, cursor) : PositionIn(q, x) <= PositionIn(q, last)}
         /\ \E y \in Rest(q, table, cursor) : PositionIn(q, last) < PositionIn(q, y)

LEMMA NextPage ==
  ASSUME NEW q \in ReadQueries, NEW table, DOMAIN table \subseteq BarKeys, NEW cursor,
         NEW M, PageOf(q, table, cursor, M),
         NEW fetched, fetched = FirstOf(q, M, q.limit + 1),
         NEW page, page = FirstOf(q, fetched, q.limit)
  PROVE  IsNext(q, table, cursor, fetched, page)
  <1> DEFINE R == Rest(q, table, cursor)
             n == q.limit
  <1>1. n \in Nat /\ n # 0 /\ n + 1 \in Nat
    BY QueryParts
  <1>2. Ordered(q, Whole(q, table)) /\ R \subseteq Whole(q, table)
    BY WholeIsOrdered DEF Rest
  <1>3. IsStart(q, M, R)
    BY DEF PageOf
  <1> HIDE DEF R, n
  <1>4. /\ IsFiniteSet(R) /\ Placed(q, R) /\ IsFiniteSet(M) /\ Placed(q, M) /\ M \subseteq R
    <2>1. M \subseteq R /\ M \subseteq Whole(q, table)
      BY <1>2, <1>3 DEF IsStart
    <2> QED
      BY <1>2, <2>1, FS_Subset DEF Ordered, Placed
  <1>5. fetched = FirstOf(q, M, n + 1) /\ page = FirstOf(q, fetched, n)
    BY DEF n
  <1>6. IsStart(q, fetched, M) /\ IsFiniteSet(fetched)
    BY <1>1, <1>4, <1>5, FirstAreStart
  <1>7. Placed(q, fetched) /\ fetched \subseteq R
    BY <1>4, <1>6 DEF IsStart, Placed
  <1>8. IsStart(q, page, fetched) /\ IsFiniteSet(page) /\ (fetched # {} => page # {})
    BY <1>1, <1>5, <1>6, <1>7, FirstAreStart
  <1>9. IsStart(q, page, R)
    BY <1>3, <1>6, <1>8, StartOfStart
  <1>10. ASSUME ~(Cardinality(fetched) > n) PROVE page = R
    <2>1. page = M
      BY <1>1, <1>4, <1>5, <1>10, FewAreAll
    <2>2. fetched = M
      BY <1>6, <1>8, <2>1 DEF IsStart
    <2> QED
      BY <1>10, <2>1, <2>2 DEF PageOf, R, n
  <1>11. ASSUME Cardinality(fetched) > n
         PROVE  \E last \in page :
                  /\ last = CHOOSE x \in page : \A y \in page : PositionIn(q, y) <= PositionIn(q, x)
                  /\ page = {x \in R : PositionIn(q, x) <= PositionIn(q, last)}
                  /\ \E y \in R : PositionIn(q, last) < PositionIn(q, y)
    <2>1. \A x, y \in fetched : PositionIn(q, x) = PositionIn(q, y) => x = y
      BY <1>2, <1>7 DEF Ordered
    <2>2. PICK y \in fetched : y \notin page
      BY <1>1, <1>5, <1>6, <1>7, <1>11, <2>1, SomeAreLeft
    <2>3. page # {} /\ Placed(q, page) /\ page \subseteq R
      BY <1>8, <1>9, <1>4, <2>2 DEF IsStart, Placed
    <2>4. \E x \in page : \A z \in page : PositionIn(q, z) <= PositionIn(q, x)
      BY <1>8, <2>3, GreatestPlaced
    <2> DEFINE last == CHOOSE x \in page : \A z \in page : PositionIn(q, z) <= PositionIn(q, x)
    <2>5. last \in page /\ \A z \in page : PositionIn(q, z) <= PositionIn(q, last)
      BY <2>4
    <2>6. last = CHOOSE x \in page : \A z \in page : PositionIn(q, z) <= PositionIn(q, x)
      OBVIOUS
    <2> HIDE DEF last
    <2>7. page = {x \in R : PositionIn(q, x) <= PositionIn(q, last)}
      BY <1>9, <2>3, <2>5 DEF IsStart
    <2>8. y \in R /\ PositionIn(q, last) < PositionIn(q, y)
      <3>1. y \in R /\ last \in R
        BY <1>7, <2>2, <2>3, <2>5
      <3>2. PositionIn(q, y) \in Nat /\ PositionIn(q, last) \in Nat
        BY <1>4, <3>1 DEF Placed
      <3>3. ~(PositionIn(q, y) <= PositionIn(q, last))
        BY <2>2, <2>7, <3>1
      <3> QED
        BY <3>1, <3>2, <3>3
    <2> QED
      BY <2>5, <2>6, <2>7, <2>8
  <1> QED
    BY <1>9, <1>10, <1>11 DEF IsStart, IsNext, R, n

\* What has been read when the next page begins after a cursor.
ReadUpTo(q, table, cursor) == {x \in Whole(q, table) : cursor # NoBar /\ PositionIn(q, x) <= Position(q, cursor)}
AllOf(pages) == UNION {pages[i] : i \in 1..Len(pages)}
InSequence(q, pages) ==
  \A i, j \in 1..Len(pages) : i < j => \A x \in pages[i], y \in pages[j] : PositionIn(q, x) < PositionIn(q, y)

LEMMA PageAdded ==
  ASSUME NEW S, NEW pages \in Seq(S), NEW page
  PROVE  /\ AllOf(Append(pages, page)) = AllOf(pages) \cup page
         /\ \E T : Append(pages, page) \in Seq(T)
         /\ \A q : InSequence(q, pages) /\ (\A x \in AllOf(pages), y \in page : PositionIn(q, x) < PositionIn(q, y))
                   => InSequence(q, Append(pages, page))
  <1>1. pages \in Seq(S \cup {page})
    BY SeqDef
  <1>2. /\ Append(pages, page) \in Seq(S \cup {page})
        /\ Len(Append(pages, page)) = Len(pages) + 1 /\ Len(pages) \in Nat
        /\ Append(pages, page)[Len(pages) + 1] = page
        /\ \A i \in 1..Len(pages) : Append(pages, page)[i] = pages[i]
    BY <1>1
  <1>3. 1..(Len(pages) + 1) = 1..Len(pages) \cup {Len(pages) + 1}
    BY <1>2
  <1> DEFINE longer == Append(pages, page)
             n == Len(pages)
  <1>4. n \in Nat /\ Len(longer) = n + 1 /\ longer[n + 1] = page /\ \A i \in 1..n : longer[i] = pages[i]
    BY <1>2
  <1> HIDE DEF longer, n
  <1>5. AllOf(longer) = AllOf(pages) \cup page
    BY <1>3, <1>4 DEF AllOf, n
  <1>6. ASSUME NEW q, InSequence(q, pages), \A x \in AllOf(pages), y \in page : PositionIn(q, x) < PositionIn(q, y)
        PROVE  InSequence(q, longer)
    <2> SUFFICES ASSUME NEW i \in 1..(n + 1), NEW j \in 1..(n + 1), i < j, NEW x \in longer[i], NEW y \in longer[j]
                 PROVE  PositionIn(q, x) < PositionIn(q, y)
      BY <1>4 DEF InSequence
    <2>1. i \in 1..n /\ x \in pages[i]
      BY <1>4
    <2>2. CASE j = n + 1
      BY <1>4, <1>6, <2>1, <2>2 DEF AllOf, n
    <2>3. CASE j \in 1..n
      BY <1>4, <1>6, <2>1, <2>3 DEF InSequence, n
    <2> QED
      BY <1>4, <2>2, <2>3
  <1> QED
    BY <1>2, <1>5, <1>6 DEF longer

\* As long as a read goes on its pages are the rows up to its cursor, and there
\* are rows after it.
ReadSoFar ==
  reading.at = "reading" =>
    /\ reading = [at |-> reading.at, pub |-> reading.pub, query |-> reading.query,
                  cursor |-> reading.cursor, pages |-> reading.pages]
    /\ reading.query \in ReadQueries
    /\ \E S : reading.pages \in Seq(S)
    /\ IsCursor(reading.query, reading.pub.rows, reading.cursor)
    /\ AllOf(reading.pages) = ReadUpTo(reading.query, reading.pub.rows, reading.cursor)
    /\ InSequence(reading.query, reading.pages)

ReadAll ==
  reading.at = "done" =>
    /\ AllOf(reading.pages) = Whole(reading.query, reading.pub.rows)
    /\ InSequence(reading.query, reading.pages)

LEMMA ReadPageStep ==
  ASSUME ReadSoFar, VerifiedIsCurrent, ReadPage
  PROVE  ReadSoFar' /\ ReadAll'
  <1> DEFINE q == reading.query
             pub == reading.pub
             cursor == reading.cursor
             pages == reading.pages
             table == pub.rows
             fetched == FirstOf(q, Matching(q, pub, cursor), q.limit + 1)
             page == FirstOf(q, fetched, q.limit)
             last == CHOOSE x \in page : \A y \in page : PositionIn(q, y) <= PositionIn(q, x)
             more == Cardinality(fetched) > q.limit
  <1>1. reading.at = "reading"
    BY DEF ReadPage
  <1>2. CASE ~Verified(pub, cursor)
    <2>1. reading' = [at |-> "stale"]
      BY <1>2 DEF ReadPage
    <2> QED
      BY <2>1 DEF ReadSoFar, ReadAll
  <1>3. CASE Verified(pub, cursor)
    <2>1. reading' = [reading EXCEPT !.pages = Append(@, page),
                                     !.at = IF more THEN "reading" ELSE "done",
                                     !.cursor = IF more THEN CursorOf(q, last) ELSE NoBar]
      BY <1>3 DEF ReadPage, Matching
    <2>2. table = AdmittedRows(pub.receipt)
      BY <1>3 DEF VerifiedIsCurrent, Verified
    <2>3. DOMAIN table \subseteq BarKeys
      BY <2>2 DEF AdmittedRows, AdmittedKeys
    <2>4. /\ reading = [at |-> "reading", pub |-> pub, query |-> q, cursor |-> cursor, pages |-> pages]
          /\ q \in ReadQueries /\ IsCursor(q, table, cursor)
          /\ AllOf(pages) = ReadUpTo(q, table, cursor) /\ InSequence(q, pages)
      BY <1>1 DEF ReadSoFar
    <2>5. PICK S : pages \in Seq(S)
      BY <1>1 DEF ReadSoFar
    <2>6. PageOf(q, table, cursor, Matching(q, pub, cursor))
      <3> HIDE DEF q, pub, cursor
      <3> QED
        BY <2>2, <2>4, MatchingIsPage DEF table
    <2> DEFINE M == Matching(q, pub, cursor)
               R == Rest(q, table, cursor)
               new == CursorOf(q, last)
               next == IF more THEN "reading" ELSE "done"
               place == IF more THEN new ELSE NoBar
    <2>7. /\ page \subseteq R
          /\ ~more => page = R
          /\ more => /\ last \in page
                     /\ page = {x \in R : PositionIn(q, x) <= PositionIn(q, last)}
                     /\ \E y \in R : PositionIn(q, last) < PositionIn(q, y)
      <3>1. fetched = FirstOf(q, M, q.limit + 1) /\ PageOf(q, table, cursor, M)
        BY <2>6
      <3> HIDE DEF M, fetched, q, table, cursor
      <3>2. page = FirstOf(q, fetched, q.limit)
        OBVIOUS
      <3> HIDE DEF page
      <3>3. IsNext(q, table, cursor, fetched, page)
        BY <2>3, <2>4, <3>1, <3>2, NextPage
      <3> QED
        BY <3>3 DEF IsNext
    <2>8. Ordered(q, Whole(q, table))
      BY <2>3, <2>4, WholeIsOrdered
    <2> HIDE DEF page, last, more, fetched, M
    <2>9. reading' = [at |-> next, pub |-> pub, query |-> q, cursor |-> place, pages |-> Append(pages, page)]
      BY <2>1, <2>4
    <2> HIDE DEF q, pub, cursor, pages, table, next, place
    <2>10. \A x \in Whole(q, table) : PositionIn(q, x) \in Nat
      BY <2>8 DEF Ordered, Placed
    <2>11. cursor # NoBar => Position(q, cursor) \in Nat
      <3> SUFFICES ASSUME cursor # NoBar PROVE Position(q, cursor) \in Nat
        OBVIOUS
      <3>1. PICK x \in Whole(q, table) : cursor = CursorOf(q, x)
        BY <2>4 DEF IsCursor
      <3>2. Position(q, cursor) = PositionIn(q, x)
        BY <3>1 DEF PositionIn
      <3> QED
        BY <2>10, <3>2
    <2>12. R \subseteq Whole(q, table) /\ Whole(q, table) = ReadUpTo(q, table, cursor) \cup R
           /\ \A x \in ReadUpTo(q, table, cursor), y \in R : PositionIn(q, x) < PositionIn(q, y)
      BY <2>10, <2>11 DEF ReadUpTo, Rest
    <2>13. /\ AllOf(Append(pages, page)) = AllOf(pages) \cup page
           /\ \E T : Append(pages, page) \in Seq(T)
           /\ InSequence(q, Append(pages, page))
      <3>1. \A x \in AllOf(pages), y \in page : PositionIn(q, x) < PositionIn(q, y)
        BY <2>4, <2>7, <2>12
      <3> QED
        BY <2>4, <2>5, <3>1, PageAdded
    <2>14. CASE ~more
      <3>1. AllOf(Append(pages, page)) = Whole(q, table)
        BY <2>4, <2>7, <2>12, <2>13, <2>14
      <3>2. reading'.at = "done" /\ reading'.pages = Append(pages, page) /\ reading'.query = q /\ reading'.pub.rows = table
        BY <2>9, <2>14 DEF next, table
      <3> QED
        BY <2>13, <3>1, <3>2 DEF ReadSoFar, ReadAll
    <2>15. CASE more
      <3>1. new \in BarKeys /\ new # NoBar /\ last \in R /\ last \in Whole(q, table)
        <4>1. last \in R /\ last \in Whole(q, table)
          BY <2>7, <2>12, <2>15
        <4> QED
          BY <2>3, <2>4, <4>1, CursorIsKey, FuturesAssumption DEF FuturesAssumption
      <3>2. Position(q, new) = PositionIn(q, last)
        BY DEF PositionIn
      <3>3. IsCursor(q, table, new)
        BY <2>7, <2>12, <2>15, <3>1, <3>2 DEF IsCursor
      <3>4. AllOf(Append(pages, page)) = ReadUpTo(q, table, new)
        <4>1. ReadUpTo(q, table, new) = {x \in Whole(q, table) : PositionIn(q, x) <= PositionIn(q, last)}
          BY <3>1, <3>2 DEF ReadUpTo
        <4>2. \A x \in ReadUpTo(q, table, cursor) : x \in Whole(q, table) /\ PositionIn(q, x) <= PositionIn(q, last)
          BY <2>10, <2>12, <3>1
        <4> HIDE DEF R, new
        <4> QED
          BY <2>4, <2>7, <2>12, <2>13, <2>15, <4>1, <4>2
      <3>5. reading' = [at |-> "reading", pub |-> pub, query |-> q, cursor |-> new, pages |-> Append(pages, page)]
        BY <2>9, <2>15 DEF next, place
      <3> HIDE DEF new, R
      <3> QED
        BY <2>4, <2>13, <3>3, <3>4, <3>5 DEF ReadSoFar, ReadAll, table
    <2> QED
      BY <2>14, <2>15
  <1> QED
    BY <1>2, <1>3

LEMMA ReadStep ==
  ASSUME ReadSoFar, ReadAll, VerifiedIsCurrent, [FutureNext]_futureVars
  PROVE  ReadSoFar' /\ ReadAll'
  <1>1. CASE BeginRead
    <2>1. PICK pub \in publications, q \in ReadQueries :
            reading' = [at |-> "reading", pub |-> pub, query |-> q, cursor |-> NoBar, pages |-> <<>>]
      BY <1>1 DEF BeginRead
    <2>2. <<>> \in Seq({}) /\ AllOf(<<>>) = {} /\ InSequence(q, <<>>)
      BY DEF AllOf, InSequence
    <2>3. ReadUpTo(q, pub.rows, NoBar) = {} /\ IsCursor(q, pub.rows, NoBar)
      BY DEF ReadUpTo, IsCursor
    <2>4. \E S : <<>> \in Seq(S)
      BY <2>2
    <2> QED
      BY <2>1, <2>2, <2>3, <2>4 DEF ReadSoFar, ReadAll
  <1>2. CASE ReadPage
    BY <1>2, ReadPageStep
  <1>3. CASE UNCHANGED reading
    BY <1>3 DEF ReadSoFar, ReadAll
  <1> QED
    BY <1>1, <1>2, <1>3
       DEF FutureNext, futureVars, OwnerWrites, Repair, Classify, CheckEvidence, CheckGeneration, Reclassify,
           InsertMissing, CheckInserted, CommitImport, ImportFails, PlanPublication, ComparePlan, Publish

LEMMA ReadAllIsPublication == ReadAll => PagesAreThePublication
  <1> SUFFICES ASSUME ReadAll, reading.at = "done" PROVE PagesAreThePublication
    BY DEF PagesAreThePublication
  <1>1. AllOf(reading.pages) = Whole(reading.query, reading.pub.rows) /\ InSequence(reading.query, reading.pages)
    BY DEF ReadAll
  <1> QED
    BY <1>1 DEF PagesAreThePublication, AllOf, InSequence, Whole, ItemsOf, ItemOf, Wanted

\* However many pages a read has, and whatever is written, imported, repaired
\* and published between them: a read that ends has returned every row of the
\* publication in its range, and every accepted interval of a coverage, each once
\* and in order (read_futures_1m_partial_page, decode_cursor).
THEOREM WholePublication == FutureSpec => []PagesAreThePublication
  <1>1. FutureInit => ReadSoFar /\ ReadAll
    BY DEF FutureInit, NotRead, ReadSoFar, ReadAll
  <1>2. PlansTrue => VerifiedIsCurrent
    BY DEF PlansTrue, VerifiedIsCurrent, Plans, IsTrueTo
  <1>3. PlansTrue /\ ReadSoFar /\ ReadAll /\ [FutureNext]_futureVars => (ReadSoFar /\ ReadAll)'
    BY <1>2, ReadStep
  <1> QED
    BY <1>1, <1>3, InitPlans, StepPlansTrue, ReadAllIsPublication, PTL DEF FutureSpec

-------------------------------------------------------------------------------
(*****************************************************************************)
(* The plan of a capture run: for any codes, batches, calendar and window a  *)
(* run that has succeeded leaves no hole behind, and the next asks nothing.  *)
(* The invariant says where each hole of the window is as long as the run    *)
(* has not failed: in a request that is still to come.                       *)
(*****************************************************************************)

Dated == {"range", "calendar", "point", "news", "period", "pooled"} \cup MarketKinds

\* The days of a batch whose coverage is stored, whether it is found or not.
StoredDays(b) == {d \in Days : \E s \in Scopes(b) : <<s, d>> \in covered}

\* A request is for one of the batches, one day of facts, or all codes.
PlanShape ==
  \A r \in plan :
    /\ r.days \subseteq Days
    /\ kind \in Dated => r.codes \in Batches
    /\ kind \in FactKinds => \E d \in Days : r = Req(PlanCodes, {d})
    /\ kind = "always" => r.codes = PlanCodes

\* What is covered was answered for, code by code.
CoverageIsAnswered ==
  kind \notin FactKinds \cup {"months"} =>
    \A x \in covered : \A c \in x[1] : <<c, x[2]>> \in asked

RowsAreAnswered ==
  kind \in FactKinds =>
    \A c \in PlanCodes, d \in Days : <<c, d>> \in rows => <<c, d>> \in asked

\* Nothing is stored under no scope: of the whole market no day is found.
CoverageIsScoped ==
  kind \in MarketKinds => \A x \in covered : x[1] \in SUBSET PlanCodes

\* A day of a batch that is not stored, or whose facts are missing, is in the plan.
HolesArePlanned ==
  clean /\ kind \in Dated =>
    \A b \in Batches : \A d \in Window \ StoredDays(b) :
      \E r \in plan : r.codes = b /\ d \in r.days

GapsArePlanned ==
  clean /\ kind \in FactKinds =>
    \A d \in Window : FactMissing(d) =>
      \/ Req(PlanCodes, {d}) \in plan
      \/ kind = "newest" /\ <<Stray, d>> \in rows

AllIsPlanned ==
  clean /\ kind = "always" =>
    \/ plan = {Req(PlanCodes, Window)}
    \/ \A c \in PlanCodes, d \in Window : <<c, d>> \in asked

PlanInv ==
  /\ PlanTypeOK /\ PlanShape /\ CoverageIsScoped /\ CoverageIsAnswered /\ RowsAreAnswered
  /\ HolesArePlanned /\ GapsArePlanned /\ AllIsPlanned

----------------------------------------------------------------------------
(* The windows, the batches and the ranges                                  *)

LEMMA WindowInCalendar ==
  ASSUME today \in Days
  PROVE  Window \subseteq Days
  BY PlanAssumption
     DEF Window, RecentTradingDays, RecentCalendarDays, RecentPeriods, LastOf, Days

\* The window moves with the clock only.
LEMMA WindowStays ==
  ASSUME UNCHANGED <<kind, today, ready>>
  PROVE  Window' = Window
  BY DEF Window, RecentTradingDays, RecentCalendarDays, RecentPeriods

LEMMA BatchesCover ==
  /\ \A b \in Batches : b # {} /\ b \subseteq PlanCodes
  /\ \A c \in PlanCodes : \E b \in Batches : c \in b
  BY PlanAssumption DEF Batches

LEMMA ScopesOf ==
  ASSUME NEW b \in Batches
  PROVE  /\ Scopes(b) # {}
         /\ kind # "pooled" => Scopes(b) = {b}
  BY BatchesCover DEF Scopes

\* Where coverage is looked up as it is stored, what is missing is what is not
\* stored; of the whole market everything is missing.
LEMMA MissingIsUnstored ==
  ASSUME kind \notin MarketKinds
  PROVE  \A b : MissingDays(b) = Window \ StoredDays(b)
  BY DEF MissingDays, CachedDays, LookedUp, StoredDays

LEMMA UnstoredIsMissing ==
  ASSUME CoverageIsScoped
  PROVE  \A b : Window \ StoredDays(b) \subseteq MissingDays(b)
  <1>1. CASE kind \in MarketKinds
    <2>1. \A d : <<NoScope, d>> \notin covered
      BY <1>1, PlanAssumption DEF CoverageIsScoped
    <2>2. QED
      BY <1>1, <2>1 DEF MissingDays, CachedDays, LookedUp
  <1>2. QED
    BY <1>1, MissingIsUnstored

LEMMA GreatestDay ==
  ASSUME NEW n \in Nat, NEW S \in SUBSET (1..n), S # {}
  PROVE  \E x \in S : \A y \in S : y <= x
  <1>1. S \in SUBSET (0..n)
    OBVIOUS
  <1> QED
    BY <1>1, GreatestOf

LEMMA EndsOfRange ==
  ASSUME NEW a \in Nat, NEW b \in Nat, a <= b
  PROVE  Min(a..b) = a /\ Max(a..b) = b
  <1>1. \A x \in a..b : (\A y \in a..b : x <= y) => x = a
    OBVIOUS
  <1>2. \A x \in a..b : (\A y \in a..b : x >= y) => x = b
    OBVIOUS
  <1>3. a \in a..b /\ \A y \in a..b : a <= y
    OBVIOUS
  <1>4. b \in a..b /\ \A y \in a..b : b >= y
    OBVIOUS
  <1>5. QED
    BY <1>1, <1>2, <1>3, <1>4 DEF Min, Max

\* The merged ranges hold the missing days and no other.
LEMMA RangesCover ==
  ASSUME NEW S \in SUBSET Days
  PROVE  /\ \A r \in Ranges(S) : r \subseteq S
         /\ \A d \in S : \E r \in Ranges(S) : d \in r
  <1>1. \A r \in Ranges(S) : r \subseteq S
    BY DEF Ranges
  <1>2. ASSUME NEW d \in S
        PROVE  \E r \in Ranges(S) : d \in r
    <2> DEFINE Firsts == {x \in S : x <= d /\ x..d \subseteq S}
               Lasts  == {x \in S : d <= x /\ d..x \subseteq S}
    <2>1. Horizon \in Nat /\ d \in Nat /\ S \subseteq Nat /\ \A x \in S : x >= 1 /\ x <= Horizon
      BY PlanAssumption DEF Days
    <2>2. d \in Firsts /\ d \in Lasts
      <3>1. d..d = {d} /\ d <= d
        BY <2>1
      <3>2. QED
        BY <3>1
    <2>4. Firsts \in SUBSET Nat /\ Lasts \in SUBSET (1..Horizon)
      <3>1. Firsts \subseteq S /\ Lasts \subseteq S
        OBVIOUS
      <3>2. S \subseteq Nat /\ S \subseteq 1..Horizon
        BY <2>1 DEF Days
      <3>3. QED
        BY <3>1, <3>2
    <2>. HIDE DEF Firsts, Lasts
    <2>3. PICK a \in Firsts : \A x \in Firsts : a <= x
      BY <2>2, <2>4, LeastOf
    <2>5. PICK b \in Lasts : \A x \in Lasts : x <= b
      BY <2>1, <2>2, <2>4, GreatestDay
    <2>6. a \in Nat /\ b \in Nat /\ a <= d /\ d <= b /\ a \in S /\ b \in S
      BY <2>1, <2>3, <2>5 DEF Firsts, Lasts
    <2>7. a..b \subseteq S /\ d \in a..b
      BY <2>1, <2>3, <2>5, <2>6 DEF Firsts, Lasts
    <2>8. a - 1 \notin S
      <3>1. SUFFICES ASSUME a - 1 \in S PROVE FALSE
        OBVIOUS
      <3>2. (a - 1)..d \subseteq S
        BY <2>1, <2>3, <2>6, <3>1 DEF Firsts
      <3>3. a - 1 \in Firsts
        BY <2>1, <2>6, <3>1, <3>2 DEF Firsts
      <3>4. QED
        BY <2>3, <2>6, <3>3
    <2>9. b + 1 \notin S
      <3>1. SUFFICES ASSUME b + 1 \in S PROVE FALSE
        OBVIOUS
      <3>2. d..(b + 1) \subseteq S
        BY <2>1, <2>5, <2>6, <3>1 DEF Lasts
      <3>3. b + 1 \in Lasts
        BY <2>1, <2>6, <3>1, <3>2 DEF Lasts
      <3>4. QED
        BY <2>5, <2>6, <3>3
    <2>10. Min(a..b) = a /\ Max(a..b) = b
      BY <2>6, EndsOfRange
    <2>11. a..b \in Ranges(S)
      <3>1. a..b \in {i..j : i \in S, j \in S}
        BY <2>6
      <3>2. a..b # {} /\ a..b \subseteq S /\ Min(a..b) - 1 \notin S /\ Max(a..b) + 1 \notin S
        BY <2>7, <2>8, <2>9, <2>10
      <3>3. QED
        BY <3>1, <3>2 DEF Ranges
    <2>12. QED
      BY <2>7, <2>11
  <1>3. QED
    BY <1>1, <1>2

----------------------------------------------------------------------------
(* The facts of a day                                                       *)

\* An accepted answer leaves nothing missing of its day but a count of the
\* snapshot that a stray row has made wrong.
LEMMA AcceptedIsWhole ==
  ASSUME NEW d, NEW answer \in SUBSET (PlanCodes \cup {Stray}),
         kind \in FactKinds, Accepts(PlanCodes, answer),
         answer \subseteq RowsOf(d)', kind' = kind,
         FactMissing(d)'
  PROVE  kind = "newest" /\ <<Stray, d>> \in rows'
  <1> DEFINE R == RowsOf(d)'
  <1>1. R \subseteq PlanCodes \cup {Stray} /\ answer \subseteq R
    BY DEF RowsOf
  <1>2. Stray \in R => <<Stray, d>> \in rows'
    BY DEF RowsOf
  <1>3. CASE kind = "newest"
    <2>1. Cardinality(R) # Cardinality(PlanCodes)
      BY <1>3 DEF FactMissing, Expected
    <2>2. PlanCodes \subseteq R
      BY <1>1, <1>3 DEF Accepts
    <2>3. R # PlanCodes
      BY <2>1
    <2>4. Stray \in R
      BY <1>1, <2>2, <2>3
    <2>5. QED
      BY <1>2, <1>3, <2>4
  <1>4. CASE kind = "share"
    <2>1. ~CountComplete(Cardinality(R \ {Stray}), Cardinality(PlanCodes))
      BY <1>4 DEF FactMissing, Expected
    <2>2. CountComplete(Cardinality(answer \ {Stray}), Cardinality(PlanCodes))
      BY <1>4 DEF Accepts
    <2>3. IsFiniteSet(PlanCodes) /\ R \ {Stray} \subseteq PlanCodes
          /\ answer \ {Stray} \subseteq R \ {Stray}
      BY <1>1, PlanAssumption
    <2> HIDE DEF R
    <2>4. IsFiniteSet(R \ {Stray})
      BY <2>3, FS_Subset
    <2>5. IsFiniteSet(answer \ {Stray})
          /\ Cardinality(answer \ {Stray}) <= Cardinality(R \ {Stray})
      BY <2>3, <2>4, FS_Subset
    <2>6. /\ Cardinality(answer \ {Stray}) \in Nat
          /\ Cardinality(R \ {Stray}) \in Nat /\ Cardinality(PlanCodes) \in Nat
      BY <2>3, <2>4, <2>5, FS_CardinalityType
    <2>7. \A i, j, k \in Nat : CountComplete(i, k) /\ i <= j => CountComplete(j, k)
      BY DEF CountComplete
    <2>8. QED
      BY <2>1, <2>2, <2>5, <2>6, <2>7
  <1>5. CASE kind = "set"
    <2>1. R \ {Stray} # PlanCodes
      BY <1>5 DEF FactMissing, Expected
    <2>2. PlanCodes \subseteq R
      BY <1>1, <1>5 DEF Accepts
    <2>3. QED
      BY <1>1, <2>1, <2>2, PlanAssumption
  <1>6. QED
    BY <1>3, <1>4, <1>5 DEF FactKinds

\* A day of which nothing is missing has a row of every code, unless the count
\* is that of other rows.
LEMMA NothingMissing ==
  ASSUME NEW d, kind \in {"newest", "set"}, ~FactMissing(d),
         kind = "newest" => <<Stray, d>> \notin rows
  PROVE  \A c \in PlanCodes : <<c, d>> \in rows
  <1>1. CASE kind = "newest"
    <2>1. RowsOf(d) \in SUBSET PlanCodes
      BY <1>1 DEF RowsOf
    <2>2. Cardinality(RowsOf(d)) = Cardinality(PlanCodes)
      BY <1>1 DEF FactMissing, Expected
    <2>3. RowsOf(d) = PlanCodes
      BY <2>1, <2>2, PlanAssumption, FS_Subset, Zenon DEF PlanAssumption
    <2>4. QED
      BY <2>3 DEF RowsOf
  <1>2. CASE kind = "set"
    <2>1. RowsOf(d) \ {Stray} = PlanCodes
      BY <1>2 DEF FactMissing, Expected
    <2>2. QED
      BY <2>1 DEF RowsOf
  <1>3. QED
    BY <1>1, <1>2

----------------------------------------------------------------------------
(* The settled run                                                          *)

LEMMA SettledDays ==
  ASSUME PlanInv, RunSettled, kind \in Dated
  PROVE  \A b \in Batches : Window \ StoredDays(b) = {}
  BY DEF PlanInv, HolesArePlanned, RunSettled

LEMMA SettledFacts ==
  ASSUME PlanInv, RunSettled, kind \in FactKinds
  PROVE  \A d \in Window : FactMissing(d) => kind = "newest" /\ <<Stray, d>> \in rows
  BY DEF PlanInv, GapsArePlanned, RunSettled

LEMMA CompleteFollows == PlanInv => SettledIsComplete
  <1> SUFFICES ASSUME PlanInv, RunSettled, kind \notin {"pooled", "share", "months"},
                      NEW c \in PlanCodes, NEW d \in Window
               PROVE  <<c, d>> \in asked \/ (kind = "newest" /\ <<Stray, d>> \in rows)
    BY DEF SettledIsComplete
  <1>1. kind \in Kinds /\ today \in Days
    BY DEF PlanInv, PlanTypeOK
  <1>2. d \in Days
    BY <1>1, WindowInCalendar
  <1>3. CASE kind \in Dated
    <2>1. PICK b \in Batches : c \in b
      BY BatchesCover
    <2>2. d \in StoredDays(b)
      BY <1>3, <2>1, SettledDays
    <2>3. <<b, d>> \in covered
      BY <2>1, <2>2, ScopesOf DEF StoredDays
    <2>4. <<c, d>> \in asked
      BY <1>3, <2>1, <2>3 DEF PlanInv, CoverageIsAnswered, Dated, FactKinds, MarketKinds
    <2>5. QED
      BY <2>4
  <1>4. CASE kind \in {"newest", "set"}
    <2>1. kind \in FactKinds
      BY <1>4 DEF FactKinds
    <2>2. CASE kind = "newest" /\ <<Stray, d>> \in rows
      BY <2>2
    <2>3. CASE ~(kind = "newest" /\ <<Stray, d>> \in rows)
      <3>1. ~FactMissing(d)
        BY <2>1, <2>3, SettledFacts
      <3>2. <<c, d>> \in rows
        BY <1>4, <2>3, <3>1, NothingMissing
      <3>3. QED
        BY <1>2, <2>1, <3>2 DEF PlanInv, RowsAreAnswered
    <2>4. QED
      BY <2>2, <2>3
  <1>5. CASE kind = "always"
    BY <1>5 DEF PlanInv, AllIsPlanned, RunSettled
  <1>6. QED
    BY <1>1, <1>3, <1>4, <1>5 DEF Kinds, Dated, MarketKinds

LEMMA NothingFollows == PlanInv => NothingTwice
  <1> SUFFICES ASSUME PlanInv, RunSettled, kind \notin MarketKinds \cup {"always", "months"}
               PROVE  BuildRequests = {} \/ (kind = "newest" /\ \E d \in Window : <<Stray, d>> \in rows)
    BY DEF NothingTwice
  <1>1. kind \in Kinds
    BY DEF PlanInv, PlanTypeOK
  <1>2. CASE kind \in Dated
    <2>1. \A b \in Batches : MissingDays(b) = {} /\ MissingRanges(b) = {}
      BY <1>2, SettledDays, MissingIsUnstored DEF MissingRanges, Ranges
    <2>2. RangeRequests = {} /\ PointRequests = {}
      BY <2>1 DEF RangeRequests, PointRequests
    <2>3. BuildRequests = {}
      BY <1>2, <2>2 DEF BuildRequests, TradingDayRequests, AnnouncementRequests, NewsEventRequests,
           MemberRequests, ReportPeriodRequests, ResearchMonthRequests, DailyFactRequests,
           SnapshotRequests, Dated, FactKinds, MarketKinds
    <2>4. QED
      BY <2>3
  <1>3. CASE kind \in FactKinds
    <2>1. BuildRequests = DailyFactRequests
      BY <1>3 DEF BuildRequests, TradingDayRequests, AnnouncementRequests, NewsEventRequests,
           MemberRequests, ReportPeriodRequests, ResearchMonthRequests,
           SnapshotRequests, FactKinds
    <2>2. DailyFactRequests # {} => \E d \in Window : FactMissing(d)
      BY DEF DailyFactRequests
    <2>3. QED
      BY <1>3, <2>1, <2>2, SettledFacts
  <1>4. QED
    BY <1>1, <1>2, <1>3 DEF Kinds, Dated, FactKinds, MarketKinds

----------------------------------------------------------------------------
(* The steps                                                                *)

LEMMA BeginPlans == PlanInit => PlanInv
  <1> SUFFICES ASSUME PlanInit PROVE PlanInv
    OBVIOUS
  <1>1. PlanTypeOK
    <2>1. today \in Days
      BY PlanAssumption DEF PlanInit, Days
    <2>2. kind \in Kinds /\ ready \in BOOLEAN /\ clean \in BOOLEAN /\ rows = {}
      BY DEF PlanInit
    <2>3. QED
      BY <2>1, <2>2 DEF PlanTypeOK
  <1>2. PlanShape /\ CoverageIsScoped /\ CoverageIsAnswered /\ RowsAreAnswered
        /\ HolesArePlanned /\ GapsArePlanned /\ AllIsPlanned
    BY DEF PlanInit, PlanShape, CoverageIsScoped, CoverageIsAnswered, RowsAreAnswered, HolesArePlanned,
           GapsArePlanned, AllIsPlanned
  <1>3. QED
    BY <1>1, <1>2 DEF PlanInv

\* Every hole of a batch is in a request of the new plan.
LEMMA BuiltHoles ==
  ASSUME PlanTypeOK, kind \in Dated
  PROVE  \A b \in Batches : \A d \in MissingDays(b) :
           \E r \in BuildRequests : r.codes = b /\ d \in r.days
  <1> SUFFICES ASSUME NEW b \in Batches, NEW d \in MissingDays(b)
               PROVE  \E r \in BuildRequests : r.codes = b /\ d \in r.days
    OBVIOUS
  <1>1. MissingDays(b) \in SUBSET Days
    BY WindowInCalendar DEF PlanTypeOK, MissingDays
  <1>2. CASE kind \in {"range", "calendar", "market"}
    <2>1. PICK s \in MissingRanges(b) : d \in s
      BY <1>1, RangesCover DEF MissingRanges
    <2>2. Req(b, s) \in RangeRequests
      BY <2>1 DEF RangeRequests
    <2>3. RangeRequests \subseteq BuildRequests
      BY <1>2 DEF BuildRequests, TradingDayRequests, AnnouncementRequests
    <2>4. QED
      BY <2>1, <2>2, <2>3 DEF Req
  <1>3. CASE kind \in {"point", "news", "period", "pooled", "marketDay"}
    <2>1. Req(b, {d}) \in PointRequests
      BY DEF PointRequests
    <2>2. PointRequests \subseteq BuildRequests
      BY <1>3 DEF BuildRequests, TradingDayRequests, NewsEventRequests, MemberRequests,
                  ReportPeriodRequests
    <2>3. QED
      BY <2>1, <2>2 DEF Req
  <1>4. QED
    BY <1>2, <1>3 DEF Dated, MarketKinds

LEMMA BuiltShape ==
  ASSUME PlanTypeOK, NEW r \in BuildRequests
  PROVE  /\ r.days \subseteq Days
         /\ kind \in Dated => r.codes \in Batches
         /\ kind \in FactKinds => \E d \in Days : r = Req(PlanCodes, {d})
         /\ kind = "always" => r.codes = PlanCodes
  <1>1. Window \in SUBSET Days
    BY WindowInCalendar DEF PlanTypeOK
  <1>2. \A b : MissingDays(b) \in SUBSET Days
    BY <1>1 DEF MissingDays
  <1>3. CASE r \in RangeRequests /\ kind \in {"range", "calendar", "market"}
    <2>1. PICK b \in Batches : \E s \in MissingRanges(b) : r = Req(b, s)
      BY <1>3 DEF RangeRequests
    <2>2. \A s \in MissingRanges(b) : s \subseteq Days
      BY <1>2, RangesCover DEF MissingRanges
    <2>3. QED
      BY <1>3, <2>1, <2>2 DEF Req, FactKinds
  <1>4. CASE r \in PointRequests /\ kind \in {"point", "news", "period", "pooled", "marketDay"}
    <2>1. PICK b \in Batches : \E d \in MissingDays(b) : r = Req(b, {d})
      BY <1>4 DEF PointRequests
    <2>2. QED
      BY <1>2, <1>4, <2>1 DEF Req, FactKinds
  <1>5. CASE r \in ResearchMonthRequests /\ kind = "months"
    <2>1. PICK m \in Window : r = Req({}, {m})
      BY <1>5 DEF ResearchMonthRequests, MissingMonths
    <2>2. QED
      BY <1>1, <1>5, <2>1 DEF Req, FactKinds, Dated, MarketKinds
  <1>6. CASE r \in DailyFactRequests /\ kind \in FactKinds
    <2>1. PICK d \in Window : r = Req(PlanCodes, {d})
      BY <1>6 DEF DailyFactRequests
    <2>2. QED
      BY <1>1, <1>6, <2>1 DEF Req, FactKinds, Dated, MarketKinds
  <1>7. CASE r \in SnapshotRequests /\ kind = "always"
    BY <1>1, <1>7 DEF SnapshotRequests, Req, FactKinds, Dated, MarketKinds
  <1>8. QED
    BY <1>3, <1>4, <1>5, <1>6, <1>7 DEF BuildRequests, TradingDayRequests, AnnouncementRequests,
       NewsEventRequests, MemberRequests, ReportPeriodRequests, ResearchMonthRequests,
       DailyFactRequests, SnapshotRequests

LEMMA BuildPlans ==
  ASSUME PlanInv, Build
  PROVE  PlanInv'
  <1>1. /\ plan' = BuildRequests /\ clean' = TRUE
        /\ UNCHANGED <<kind, batchSize, today, ready, covered, rows, asked>>
    BY DEF Build
  <1>2. PlanTypeOK
    BY DEF PlanInv
  <1>3. PlanTypeOK'
    BY <1>1, <1>2 DEF PlanTypeOK
  <1>4. Window' = Window
    BY <1>1, WindowStays
  <1>5. PlanShape'
    BY <1>1, <1>2, BuiltShape DEF PlanShape, Batches
  <1>6. CoverageIsScoped' /\ CoverageIsAnswered' /\ RowsAreAnswered'
    BY <1>1 DEF PlanInv, CoverageIsScoped, CoverageIsAnswered, RowsAreAnswered
  <1>7. HolesArePlanned'
    <2>1. Batches' = Batches /\ \A b : StoredDays(b)' = StoredDays(b)
      BY <1>1 DEF Batches, StoredDays, Scopes
    <2>2. \A b : Window \ StoredDays(b) \subseteq MissingDays(b)
      BY UnstoredIsMissing DEF PlanInv
    <2>3. QED
      BY <1>1, <1>2, <1>4, <2>1, <2>2, BuiltHoles DEF HolesArePlanned
  <1>8. GapsArePlanned'
    <2>1. \A d : FactMissing(d)' = FactMissing(d)
      BY <1>1 DEF FactMissing, RowsOf, Expected
    <2>2. kind \in FactKinds =>
            \A d \in Window : FactMissing(d) => Req(PlanCodes, {d}) \in BuildRequests
      BY DEF BuildRequests, DailyFactRequests
    <2>3. QED
      BY <1>1, <1>4, <2>1, <2>2 DEF GapsArePlanned
  <1>9. AllIsPlanned'
    <2>1. kind = "always" => BuildRequests = {Req(PlanCodes, Window)}
      BY DEF BuildRequests, TradingDayRequests, AnnouncementRequests, NewsEventRequests,
         MemberRequests, ReportPeriodRequests, ResearchMonthRequests, DailyFactRequests,
         SnapshotRequests, FactKinds
    <2>2. QED
      BY <1>1, <1>4, <2>1 DEF AllIsPlanned
  <1>10. QED
    BY <1>3, <1>5, <1>6, <1>7, <1>8, <1>9 DEF PlanInv

\* A request that fails takes the promise away.
LEMMA FailurePlans ==
  ASSUME PlanInv, plan' \subseteq plan, clean' = FALSE,
         UNCHANGED <<kind, batchSize, today, ready, covered, rows, asked>>
  PROVE  PlanInv'
  <1>1. PlanTypeOK'
    BY DEF PlanInv, PlanTypeOK
  <1>2. PlanShape'
    BY DEF PlanInv, PlanShape, Batches
  <1>3. CoverageIsScoped' /\ CoverageIsAnswered' /\ RowsAreAnswered'
    BY DEF PlanInv, CoverageIsScoped, CoverageIsAnswered, RowsAreAnswered
  <1>4. HolesArePlanned' /\ GapsArePlanned' /\ AllIsPlanned'
    BY DEF HolesArePlanned, GapsArePlanned, AllIsPlanned
  <1>5. QED
    BY <1>1, <1>2, <1>3, <1>4 DEF PlanInv

\* The answer to a request for days of coverage.
Answered(r, answer) ==
  /\ rows' = IF kind \in FactKinds THEN rows \cup (answer \X r.days) ELSE rows
  /\ covered' = IF kind \in FactKinds THEN covered
                ELSE covered \cup ((IF kind = "months" THEN {r.days} ELSE Scopes(r.codes)) \X r.days)
  /\ asked' = asked \cup ((IF kind = "months" THEN {NoScope} ELSE answer) \X r.days)

LEMMA AnswerPlans ==
  ASSUME PlanInv, NEW r \in plan, plan' = plan \ {r}, clean' = clean,
         NEW answer \in IF kind \in FactKinds THEN SUBSET (PlanCodes \cup {Stray}) ELSE {r.codes},
         Accepts(r.codes, answer), Answered(r, answer),
         UNCHANGED <<kind, batchSize, today, ready>>
  PROVE  PlanInv'
  <1>1. /\ r.days \subseteq Days
        /\ kind \in Dated => r.codes \in Batches
        /\ kind \in FactKinds => \E d \in Days : r = Req(PlanCodes, {d})
        /\ kind = "always" => r.codes = PlanCodes
    BY DEF PlanInv, PlanShape
  <1>2. Window' = Window /\ Window \subseteq Days
    BY WindowStays, WindowInCalendar DEF PlanInv, PlanTypeOK
  <1>3. Batches' = Batches /\ \A b : Scopes(b)' = Scopes(b)
    BY DEF Batches, Scopes
  <1>4. asked \subseteq asked' /\ covered \subseteq covered' /\ rows \subseteq rows'
    BY DEF Answered
  <1>5. PlanTypeOK'
    <2>1. rows' \subseteq (PlanCodes \cup {Stray}) \X Days
      BY <1>1 DEF Answered, PlanInv, PlanTypeOK
    <2>2. QED
      BY <2>1 DEF PlanInv, PlanTypeOK
  <1>6. PlanShape'
    BY <1>3 DEF PlanInv, PlanShape
  <1>7. CoverageIsAnswered'
    <2>1. SUFFICES ASSUME kind \notin FactKinds \cup {"months"}, NEW x \in covered', NEW c \in x[1]
                   PROVE  <<c, x[2]>> \in asked'
      BY DEF CoverageIsAnswered
    <2>2. CASE x \in covered
      BY <1>4, <2>1, <2>2 DEF PlanInv, CoverageIsAnswered
    <2>3. CASE x \in Scopes(r.codes) \X r.days
      <3>1. c \in r.codes /\ x[2] \in r.days
        BY <2>1, <2>3 DEF Scopes
      <3>2. answer = r.codes
        BY <2>1
      <3>3. QED
        BY <2>1, <3>1, <3>2 DEF Answered
    <2>4. QED
      BY <2>1, <2>2, <2>3 DEF Answered
  <1>8. CoverageIsScoped'
    <2>1. SUFFICES ASSUME kind \in MarketKinds, NEW x \in covered'
                   PROVE  x[1] \in SUBSET PlanCodes
      BY DEF CoverageIsScoped
    <2>2. kind \in Dated /\ kind \notin FactKinds /\ kind # "months" /\ kind # "pooled"
      BY <2>1 DEF Dated, MarketKinds, FactKinds
    <2>3. CASE x \in covered
      BY <2>1, <2>3 DEF PlanInv, CoverageIsScoped
    <2>4. CASE x \in Scopes(r.codes) \X r.days
      BY <1>1, <2>2, <2>4, BatchesCover DEF Scopes
    <2>5. QED
      BY <2>2, <2>3, <2>4 DEF Answered
  <1>9. RowsAreAnswered'
    <2>1. SUFFICES ASSUME kind \in FactKinds, NEW c \in PlanCodes, NEW d \in Days, <<c, d>> \in rows'
                   PROVE  <<c, d>> \in asked'
      BY DEF RowsAreAnswered
    <2>2. CASE <<c, d>> \in rows
      BY <1>4, <2>1, <2>2 DEF PlanInv, RowsAreAnswered
    <2>3. CASE <<c, d>> \in answer \X r.days
      <3>1. kind # "months"
        BY <2>1 DEF FactKinds
      <3>2. QED
        BY <2>3, <3>1 DEF Answered
    <2>4. QED
      BY <2>1, <2>2, <2>3 DEF Answered
  <1>10. HolesArePlanned'
    <2>1. SUFFICES ASSUME clean, kind \in Dated, NEW b \in Batches,
                          NEW d \in Window, d \notin StoredDays(b)'
                   PROVE  \E q \in plan' : q.codes = b /\ d \in q.days
      BY <1>2, <1>3 DEF HolesArePlanned
    <2>2. d \in Window \ StoredDays(b)
      BY <1>3, <1>4, <2>1 DEF StoredDays
    <2>3. PICK q \in plan : q.codes = b /\ d \in q.days
      BY <2>1, <2>2 DEF PlanInv, HolesArePlanned
    <2>4. ASSUME q = r PROVE FALSE
      <3>1. PICK s : s \in Scopes(b)
        BY ScopesOf
      <3>2. kind \notin FactKinds /\ kind # "months"
        BY <2>1 DEF Dated, FactKinds, MarketKinds
      <3>3. <<s, d>> \in covered'
        BY <2>3, <2>4, <3>1, <3>2 DEF Answered
      <3>4. d \in Days
        BY <1>2, <2>1
      <3>5. d \in StoredDays(b)'
        BY <1>3, <3>1, <3>3, <3>4 DEF StoredDays
      <3>6. QED
        BY <2>1, <3>5
    <2>5. QED
      BY <2>3, <2>4
  <1>11. GapsArePlanned'
    <2>1. SUFFICES ASSUME clean, kind \in FactKinds, NEW d \in Window, FactMissing(d)'
                   PROVE  \/ Req(PlanCodes, {d}) \in plan'
                          \/ kind = "newest" /\ <<Stray, d>> \in rows'
      BY <1>2 DEF GapsArePlanned
    <2>2. PICK e \in Days : r = Req(PlanCodes, {e})
      BY <1>1, <2>1
    <2>3. CASE d = e
      <3>1. r.codes = PlanCodes /\ r.days = {d}
        BY <2>2, <2>3 DEF Req
      <3>2. answer \in SUBSET (PlanCodes \cup {Stray})
        BY <2>1
      <3>3. answer \subseteq RowsOf(d)'
        BY <2>1, <3>1, <3>2 DEF Answered, RowsOf
      <3>4. QED
        BY <2>1, <3>1, <3>2, <3>3, AcceptedIsWhole
    <2>4. CASE d # e
      <3>1. RowsOf(d)' = RowsOf(d)
        BY <2>1, <2>2, <2>4 DEF Answered, RowsOf, Req
      <3>2. FactMissing(d)
        BY <2>1, <3>1 DEF FactMissing, Expected
      <3>3. Req(PlanCodes, {d}) # r
        BY <2>2, <2>4 DEF Req
      <3>4. QED
        BY <1>4, <2>1, <3>2, <3>3 DEF PlanInv, GapsArePlanned
    <2>5. QED
      BY <2>3, <2>4
  <1>12. AllIsPlanned'
    <2>1. SUFFICES ASSUME clean, kind = "always"
                   PROVE  \A c \in PlanCodes, d \in Window : <<c, d>> \in asked'
      BY <1>2 DEF AllIsPlanned
    <2>2. CASE plan = {Req(PlanCodes, Window)}
      <3>1. r.codes = PlanCodes /\ r.days = Window
        BY <2>2 DEF Req
      <3>2. answer = PlanCodes
        BY <2>1, <3>1 DEF FactKinds
      <3>3. QED
        BY <2>1, <3>1, <3>2 DEF Answered
    <2>3. CASE \A c \in PlanCodes, d \in Window : <<c, d>> \in asked
      BY <1>4, <2>3
    <2>4. QED
      BY <2>1, <2>2, <2>3 DEF PlanInv, AllIsPlanned
  <1>13. QED
    BY <1>5, <1>6, <1>7, <1>9, <1>10, <1>11, <1>12, <1>8 DEF PlanInv

\* What becomes of a request.
Ran(r) ==
  /\ plan' = plan \ {r}
  /\ \/ \E answer \in IF kind \in FactKinds THEN SUBSET (PlanCodes \cup {Stray}) ELSE {r.codes} :
          IF Accepts(r.codes, answer)
          THEN Answered(r, answer) /\ UNCHANGED clean
          ELSE clean' = FALSE /\ UNCHANGED <<rows, covered, asked>>
     \/ clean' = FALSE /\ UNCHANGED <<rows, covered, asked>>

LEMMA RequestPlans ==
  ASSUME PlanInv, RunRequest
  PROVE  PlanInv'
  <1>1. plan # {} /\ UNCHANGED <<kind, batchSize, today, ready>>
    BY DEF RunRequest
  <1>2. \E r \in plan : Ran(r)
    <2>1. Ran(CHOOSE r \in plan : TRUE)
      BY DEF RunRequest, Ran, Answered
    <2>2. QED
      BY <1>1, <2>1
  <1>3. PICK r \in plan : Ran(r)
    BY <1>2
  <1>4. CASE clean' = FALSE /\ UNCHANGED <<rows, covered, asked>>
    BY <1>1, <1>3, <1>4, FailurePlans DEF Ran
  <1>5. ASSUME NEW answer \in IF kind \in FactKinds THEN SUBSET (PlanCodes \cup {Stray}) ELSE {r.codes},
               Accepts(r.codes, answer), Answered(r, answer), UNCHANGED clean
        PROVE  PlanInv'
    BY <1>1, <1>3, <1>5, AnswerPlans DEF Ran
  <1>6. QED
    BY <1>3, <1>4, <1>5 DEF Ran

LEMMA QueryPlans ==
  ASSUME PlanInv, UserQuery
  PROVE  PlanInv'
  <1>1. PICK c \in PlanCodes, d \in Window :
          covered' = covered \cup {<<{c}, d>>} /\ asked' = asked \cup {<<c, d>>}
    BY DEF UserQuery
  <1>2. /\ UNCHANGED <<kind, batchSize, today, ready, rows, plan, clean>>
        /\ kind \notin FactKinds \cup {"months"}
    BY DEF UserQuery
  <1>3. Window' = Window
    BY <1>2, WindowStays
  <1>4. PlanTypeOK' /\ PlanShape' /\ RowsAreAnswered' /\ GapsArePlanned'
    BY <1>2 DEF PlanInv, PlanTypeOK, PlanShape, Batches, RowsAreAnswered, GapsArePlanned
  <1>5. CoverageIsAnswered'
    <2>1. SUFFICES ASSUME NEW x \in covered', NEW a \in x[1]
                   PROVE  <<a, x[2]>> \in asked'
      BY DEF CoverageIsAnswered
    <2>2. CASE x \in covered
      BY <1>1, <1>2, <2>2 DEF PlanInv, CoverageIsAnswered
    <2>3. CASE x = <<{c}, d>>
      <3>1. x[1] = {c} /\ x[2] = d
        BY <2>3
      <3>2. QED
        BY <1>1, <2>1, <3>1
    <2>4. QED
      BY <1>1, <2>1, <2>2, <2>3
  <1>6. HolesArePlanned'
    <2>1. Batches' = Batches /\ \A b : StoredDays(b) \subseteq StoredDays(b)'
      BY <1>1, <1>2 DEF Batches, StoredDays, Scopes
    <2>2. QED
      BY <1>2, <1>3, <2>1 DEF PlanInv, HolesArePlanned
  <1>7. AllIsPlanned'
    BY <1>1, <1>2, <1>3 DEF PlanInv, AllIsPlanned
  <1>8. CoverageIsScoped'
    BY <1>1, <1>2 DEF PlanInv, CoverageIsScoped
  <1>9. QED
    BY <1>4, <1>5, <1>6, <1>7, <1>8 DEF PlanInv

LEMMA StrayPlans ==
  ASSUME PlanInv, StrayRow
  PROVE  PlanInv'
  <1>1. PICK d \in Window : rows' = rows \cup {<<Stray, d>>}
    BY DEF StrayRow
  <1>2. /\ UNCHANGED <<kind, batchSize, today, ready, covered, plan, clean, asked>>
        /\ kind \in FactKinds
    BY DEF StrayRow
  <1>3. Window' = Window /\ Window \subseteq Days
    BY <1>2, WindowStays, WindowInCalendar DEF PlanInv, PlanTypeOK
  <1>4. PlanTypeOK'
    BY <1>1, <1>2, <1>3 DEF PlanInv, PlanTypeOK
  <1>5. /\ PlanShape' /\ CoverageIsScoped' /\ CoverageIsAnswered'
        /\ AllIsPlanned' /\ HolesArePlanned'
    BY <1>2 DEF PlanInv, PlanShape, Batches, CoverageIsScoped, CoverageIsAnswered, AllIsPlanned,
                HolesArePlanned, FactKinds, Dated, MarketKinds
  <1>6. RowsAreAnswered'
    <2>1. \A c \in PlanCodes, e \in Days : <<c, e>> \in rows' => <<c, e>> \in rows
      BY <1>1, PlanAssumption
    <2>2. QED
      BY <1>2, <2>1 DEF PlanInv, RowsAreAnswered
  <1>7. GapsArePlanned'
    <2>1. SUFFICES ASSUME clean, NEW e \in Window, FactMissing(e)'
                   PROVE  \/ Req(PlanCodes, {e}) \in plan
                          \/ kind = "newest" /\ <<Stray, e>> \in rows'
      BY <1>2, <1>3 DEF GapsArePlanned
    <2>2. rows \subseteq rows'
      BY <1>1
    <2>3. CASE kind = "newest" /\ <<Stray, e>> \in rows'
      BY <2>3
    <2>4. CASE ~(kind = "newest" /\ <<Stray, e>> \in rows')
      <3>1. RowsOf(e)' \ {Stray} = RowsOf(e) \ {Stray}
        BY <1>1 DEF RowsOf
      <3>2. kind = "newest" => RowsOf(e)' = RowsOf(e)
        BY <1>1, <2>4 DEF RowsOf
      <3>3. FactMissing(e)
        BY <1>2, <2>1, <3>1, <3>2 DEF FactMissing, Expected, FactKinds
      <3>4. QED
        BY <1>2, <2>1, <2>2, <2>4, <3>3 DEF PlanInv, GapsArePlanned
    <2>5. QED
      BY <2>3, <2>4
  <1>8. QED
    BY <1>4, <1>5, <1>6, <1>7 DEF PlanInv

\* An expiry or a new day is no step of a clean run.
LEMMA ClockPlans ==
  ASSUME PlanInv, Expire \/ TimePasses
  PROVE  PlanInv'
  <1>1. covered' \subseteq covered /\ clean' = FALSE
        /\ UNCHANGED <<kind, batchSize, rows, plan, asked>>
    BY DEF Expire, TimePasses
  <1>2. today' \in Days
    <2>1. today \in 1..Horizon /\ Horizon \in Nat
      BY PlanAssumption DEF PlanInv, PlanTypeOK, Days
    <2>2. today' = today \/ (today < Horizon /\ today' = today + 1)
      BY DEF Expire, TimePasses
    <2>3. QED
      BY <2>1, <2>2 DEF Days
  <1>3. ready' \in BOOLEAN
    BY Zenon DEF PlanInv, PlanTypeOK, Expire, TimePasses
  <1>4. PlanTypeOK'
    BY <1>1, <1>2, <1>3 DEF PlanInv, PlanTypeOK
  <1>5. PlanShape' /\ CoverageIsScoped' /\ CoverageIsAnswered' /\ RowsAreAnswered'
    BY <1>1 DEF PlanInv, PlanShape, Batches, CoverageIsScoped, CoverageIsAnswered, RowsAreAnswered
  <1>6. HolesArePlanned' /\ GapsArePlanned' /\ AllIsPlanned'
    BY <1>1 DEF HolesArePlanned, GapsArePlanned, AllIsPlanned
  <1>7. QED
    BY <1>4, <1>5, <1>6 DEF PlanInv

\* A due time is computed beside the plan.
LEMMA OtherPlans ==
  ASSUME PlanInv, UNCHANGED <<kind, batchSize, today, ready, covered, rows, plan, clean, asked>>
  PROVE  PlanInv'
  <1>1. Window' = Window
    BY WindowStays
  <1>2. /\ PlanTypeOK' /\ PlanShape' /\ CoverageIsScoped' /\ CoverageIsAnswered'
        /\ RowsAreAnswered' /\ AllIsPlanned'
    BY <1>1 DEF PlanInv, PlanTypeOK, PlanShape, Batches, CoverageIsScoped, CoverageIsAnswered,
                RowsAreAnswered, AllIsPlanned
  <1>3. HolesArePlanned'
    BY <1>1 DEF PlanInv, HolesArePlanned, Batches, StoredDays, Scopes
  <1>4. GapsArePlanned'
    BY <1>1 DEF PlanInv, GapsArePlanned, FactMissing, RowsOf, Expected
  <1>5. QED
    BY <1>2, <1>3, <1>4 DEF PlanInv

LEMMA PlanInductive == PlanInv /\ [PlanNext]_planVars => PlanInv'
  <1> SUFFICES ASSUME PlanInv, [PlanNext]_planVars PROVE PlanInv'
    OBVIOUS
  <1>1. CASE Build
    BY <1>1, BuildPlans
  <1>2. CASE RunRequest
    BY <1>2, RequestPlans
  <1>3. CASE UserQuery
    BY <1>3, QueryPlans
  <1>4. CASE StrayRow
    BY <1>4, StrayPlans
  <1>5. CASE Expire \/ TimePasses
    BY <1>5, ClockPlans
  <1>6. CASE ComputeDue \/ UNCHANGED planVars
    BY <1>6, OtherPlans DEF ComputeDue, planVars
  <1>7. QED
    BY <1>1, <1>2, <1>3, <1>4, <1>5, <1>6 DEF PlanNext

LEMMA PlanInvariant == PlanSpec => []PlanInv
  BY BeginPlans, PlanInductive, PTL DEF PlanSpec

\* A capture run whose requests all succeeded has answered for every code on
\* every day of its window, and where coverage is looked up under the scope it is
\* stored under the next build of the window asks for nothing
\* (build_capture_requests, CacheMissingPlanner and the counts of daily facts).
THEOREM AsksExactly == PlanSpec => []RequestsExact
  <1>1. PlanInv => RequestsExact
    BY CompleteFollows, NothingFollows DEF RequestsExact
  <1>2. QED
    BY <1>1, PlanInvariant, PTL

-------------------------------------------------------------------------------
(*****************************************************************************)
(* The due time of a policy: for any calendar of months and any week it is   *)
(* the latest occurrence of the policy that has passed.                      *)
(*****************************************************************************)

(* Remainders                                                               *)

LEMMA WholeSteps ==
  \A w \in Nat \ {0}, a, b \in Int : a < b => w * a + w <= w * b
  OBVIOUS

LEMMA Remainder ==
  ASSUME NEW w \in Nat \ {0}, NEW x \in Int
  PROVE  /\ x % w \in 0..(w - 1)
         /\ x \div w \in Int
         /\ x = w * (x \div w) + (x % w)
  <1>1. (x % w) \in Int /\ (x % w) >= 0 /\ (x % w) < w
    OBVIOUS
  <1>2. x \div w \in Int /\ x = w * (x \div w) + (x % w)
    OBVIOUS
  <1>3. QED
    BY <1>1, <1>2

\* Two numbers with the same remainder are whole weeks apart.
LEMMA SameRemainder ==
  ASSUME NEW w \in Nat \ {0}, NEW x \in Int, NEW y \in Int, x % w = y % w, x < y
  PROVE  x + w <= y
  <1> DEFINE a == x \div w  b == y \div w  r == x % w
  <1>1. /\ a \in Int /\ b \in Int /\ r \in 0..(w - 1)
        /\ x = w * a + r /\ y = w * b + r
    BY Remainder
  <1> HIDE DEF a, b, r
  <1>2. w * a < w * b /\ w * a \in Int /\ w * b \in Int
    BY <1>1
  <1>3. a < b
    <2>1. a = b => w * a = w * b
      OBVIOUS
    <2>2. b < a => w * b + w <= w * a
      BY <1>1, WholeSteps
    <2>3. QED
      BY <1>1, <1>2, <2>1, <2>2
  <1>4. w * a + w <= w * b
    BY <1>1, <1>3, WholeSteps
  <1>5. QED
    BY <1>1, <1>2, <1>4

\* The day of the week at or before n: its remainder is that of p.
LEMMA BackToDay ==
  \A k : \A n, p \in Int, w \in Nat \ {0} :
    k = n - ((n - p) % w) => k \in Int /\ k <= n /\ n < k + w /\ k % w = p % w
  <1> SUFFICES ASSUME NEW k, NEW n \in Int, NEW p \in Int, NEW w \in Nat \ {0},
                      k = n - ((n - p) % w)
               PROVE  k \in Int /\ k <= n /\ n < k + w /\ k % w = p % w
    OBVIOUS
  <1> DEFINE q == (n - p) \div w
  <1>1. /\ (n - p) % w \in 0..(w - 1) /\ q \in Int
        /\ n - p = w * q + ((n - p) % w)
    <2>1. n - p \in Int
      OBVIOUS
    <2>2. QED
      BY <2>1, Remainder
  <1>2. k \in Int /\ k <= n /\ n < k + w
    BY <1>1
  <1>3. w * q \in Int /\ k = p + w * q
    BY <1>1
  <1> HIDE DEF q
  <1> DEFINE a == p \div w  r == p % w  b == k \div w  s == k % w
  <1>4. /\ a \in Int /\ r \in 0..(w - 1) /\ p = w * a + r
        /\ b \in Int /\ s \in 0..(w - 1) /\ k = w * b + s
    BY <1>2, Remainder
  <1> HIDE DEF a, r, b, s
  <1>5. w * (a + q) = w * a + w * q /\ w * a \in Int /\ w * b \in Int /\ a + q \in Int
    BY <1>1, <1>4
  <1>6. w * b + s = w * (a + q) + r
    BY <1>1, <1>2, <1>3, <1>4, <1>5
  <1>7. b = a + q
    <2>1. b < a + q => w * b + w <= w * (a + q)
      BY <1>4, <1>5, WholeSteps
    <2>2. a + q < b => w * (a + q) + w <= w * b
      BY <1>4, <1>5, WholeSteps
    <2>3. w * (a + q) \in Int
      BY <1>3, <1>5
    <2>4. ~(b < a + q)
      BY <1>4, <1>5, <1>6, <2>1, <2>3
    <2>5. ~(a + q < b)
      BY <1>4, <1>5, <1>6, <2>2, <2>3
    <2>6. QED
      BY <1>4, <1>5, <2>4, <2>5
  <1>8. s = r
    BY <1>3, <1>4, <1>5, <1>6, <1>7
  <1>9. QED
    BY <1>2, <1>8 DEF s, r

\* A week earlier is the same day of the week.
LEMMA WeekBefore ==
  ASSUME NEW w \in Nat \ {0}, NEW x \in Int
  PROVE  (x - w) % w = x % w
  <1>1. x - w \in Int
    OBVIOUS
  <1> DEFINE a == x \div w  r == x % w  b == (x - w) \div w  s == (x - w) % w
  <1>2. /\ a \in Int /\ r \in 0..(w - 1) /\ x = w * a + r
        /\ b \in Int /\ s \in 0..(w - 1) /\ x - w = w * b + s
    BY <1>1, Remainder
  <1> HIDE DEF a, r, b, s
  <1>3. w * (b + 1) = w * b + w /\ w * a \in Int /\ w * b \in Int /\ b + 1 \in Int
    BY <1>2
  <1>4. w * a + r = w * (b + 1) + s /\ w * (b + 1) \in Int
    BY <1>2, <1>3
  <1>5. b + 1 = a
    <2>1. a < b + 1 => w * a + w <= w * (b + 1)
      BY <1>2, <1>3, WholeSteps
    <2>2. b + 1 < a => w * (b + 1) + w <= w * a
      BY <1>2, <1>3, WholeSteps
    <2>3. QED
      BY <1>2, <1>3, <1>4, <2>1, <2>2
  <1>6. s = r
    BY <1>2, <1>3, <1>4, <1>5
  <1>7. QED
    BY <1>6 DEF s, r

----------------------------------------------------------------------------
(* The calendar                                                             *)

\* A date is a day of a month of a year.
LEMMA DateParts ==
  /\ \A y \in DOMAIN YearMonths : \A m \in DOMAIN YearMonths[y] :
       /\ y \in Nat /\ m \in Nat /\ y >= 1 /\ m >= 1
       /\ YearMonths[y][m] \in Nat /\ YearMonths[y][m] >= 1
  /\ \A y \in DOMAIN YearMonths : \A m \in DOMAIN YearMonths[y] : \A d \in 1..YearMonths[y][m] :
       <<y, m, d>> \in Dates
  /\ \A e \in Dates :
       /\ e = <<e[1], e[2], e[3]>>
       /\ e[1] \in DOMAIN YearMonths /\ e[2] \in DOMAIN YearMonths[e[1]]
       /\ e[3] \in 1..YearMonths[e[1]][e[2]]
  <1>1. ASSUME NEW y \in DOMAIN YearMonths, NEW m \in DOMAIN YearMonths[y]
        PROVE  /\ y \in Nat /\ m \in Nat /\ y >= 1 /\ m >= 1
               /\ YearMonths[y][m] \in Nat /\ YearMonths[y][m] >= 1
    <2>1. YearMonths[y] \in Seq(Nat \ {0}) /\ y \in 1..Len(YearMonths) /\ Len(YearMonths) \in Nat
      BY CalendarAssumption
    <2>2. YearMonths[y][m] \in Nat \ {0} /\ m \in 1..Len(YearMonths[y]) /\ Len(YearMonths[y]) \in Nat
      BY <2>1
    <2>3. QED
      BY <2>1, <2>2
  <1>2. \A y \in DOMAIN YearMonths : \A m \in DOMAIN YearMonths[y] : \A d \in 1..YearMonths[y][m] :
          <<y, m, d>> \in Dates
    BY DEF Dates
  <1>3. ASSUME NEW e \in Dates
        PROVE  /\ e = <<e[1], e[2], e[3]>>
               /\ e[1] \in DOMAIN YearMonths /\ e[2] \in DOMAIN YearMonths[e[1]]
               /\ e[3] \in 1..YearMonths[e[1]][e[2]]
    <2>1. \E y \in DOMAIN YearMonths : \E m \in DOMAIN YearMonths[y] :
            \E d \in 1..YearMonths[y][m] : e = <<y, m, d>>
      BY DEF Dates
    <2>2. QED
      BY <2>1
  <1>4. QED
    BY <1>1, <1>2, <1>3, Zenon

\* Every year has the months of the first.
LEMMA SameMonths ==
  \A y, z \in DOMAIN YearMonths : DOMAIN YearMonths[y] = DOMAIN YearMonths[z]
  <1> SUFFICES ASSUME NEW y \in DOMAIN YearMonths, NEW z \in DOMAIN YearMonths
               PROVE  DOMAIN YearMonths[y] = DOMAIN YearMonths[z]
    OBVIOUS
  <1>1. YearMonths[y] \in Seq(Nat \ {0}) /\ YearMonths[z] \in Seq(Nat \ {0})
    BY CalendarAssumption
  <1>2. Len(YearMonths[y]) = Len(YearMonths[z])
    BY CalendarAssumption
  <1>3. QED
    BY <1>1, <1>2

LEMMA YearsAreAnInterval ==
  /\ Len(YearMonths) \in Nat /\ DOMAIN YearMonths = 1..Len(YearMonths)
  /\ \A y \in DOMAIN YearMonths :
       Len(YearMonths[y]) \in Nat /\ DOMAIN YearMonths[y] = 1..Len(YearMonths[y])
  BY CalendarAssumption

LEMMA UpTo ==
  \A n \in Nat : /\ IsFiniteSet(1..n)
                 /\ IsFiniteSet(0..(n - 1)) /\ Cardinality(0..(n - 1)) = n
  <1> SUFFICES ASSUME NEW n \in Nat
               PROVE  /\ IsFiniteSet(1..n)
                      /\ IsFiniteSet(0..(n - 1)) /\ Cardinality(0..(n - 1)) = n
    OBVIOUS
  <1>1. 0 \in Int /\ 1 \in Int /\ n \in Int /\ n - 1 \in Int
    OBVIOUS
  <1>2. /\ IsFiniteSet(1..n) /\ IsFiniteSet(0..(n - 1))
        /\ Cardinality(0..(n - 1)) = IF 0 > n - 1 THEN 0 ELSE (n - 1) - 0 + 1
    BY <1>1, FS_Interval
  <1>3. QED
    BY <1>2

LEMMA ImageFinite ==
  ASSUME NEW S, IsFiniteSet(S), NEW f
  PROVE  IsFiniteSet({f[x] : x \in S})
  <1> DEFINE T == {f[x] : x \in S}  g == [x \in S |-> f[x]]
  <1>1. g \in Surjection(S, T)
    BY DEF Surjection
  <1>2. QED
    BY <1>1, FS_Surjection

LEMMA DatesFinite == IsFiniteSet(Dates)
  <1> DEFINE DaysOf(y, m) == {<<y, m, d>> : d \in 1..YearMonths[y][m]}
             MonthsOf(y)  == {DaysOf(y, m) : m \in DOMAIN YearMonths[y]}
             Years        == {UNION MonthsOf(y) : y \in DOMAIN YearMonths}
  <1>1. ASSUME NEW y \in DOMAIN YearMonths, NEW m \in DOMAIN YearMonths[y]
        PROVE  IsFiniteSet(DaysOf(y, m))
    <2>1. IsFiniteSet(1..YearMonths[y][m])
      BY DateParts, UpTo
    <2> DEFINE f == [d \in 1..YearMonths[y][m] |-> <<y, m, d>>]
    <2>2. DaysOf(y, m) = {f[d] : d \in 1..YearMonths[y][m]}
      OBVIOUS
    <2> HIDE DEF f
    <2>3. QED
      BY <2>1, <2>2, ImageFinite
  <1>2. ASSUME NEW y \in DOMAIN YearMonths
        PROVE  IsFiniteSet(UNION MonthsOf(y))
    <2>1. IsFiniteSet(DOMAIN YearMonths[y])
      BY YearsAreAnInterval, UpTo
    <2> DEFINE f == [m \in DOMAIN YearMonths[y] |-> DaysOf(y, m)]
    <2>2. MonthsOf(y) = {f[m] : m \in DOMAIN YearMonths[y]}
      OBVIOUS
    <2>3. \A T \in MonthsOf(y) : IsFiniteSet(T)
      BY <1>1
    <2> HIDE DEF f, MonthsOf
    <2>4. IsFiniteSet(MonthsOf(y))
      BY <2>1, <2>2, ImageFinite
    <2>5. QED
      BY <2>3, <2>4, FS_UNION
  <1>3. IsFiniteSet(Years)
    <2>1. IsFiniteSet(DOMAIN YearMonths)
      BY YearsAreAnInterval, UpTo
    <2> DEFINE f == [y \in DOMAIN YearMonths |-> UNION MonthsOf(y)]
    <2>2. Years = {f[y] : y \in DOMAIN YearMonths}
      OBVIOUS
    <2> HIDE DEF f, Years
    <2>3. QED
      BY <2>1, <2>2, ImageFinite
  <1>4. \A T \in Years : IsFiniteSet(T)
    BY <1>2
  <1>5. Dates = UNION Years
    BY Zenon DEF Dates
  <1> HIDE DEF Years
  <1>6. QED
    BY <1>3, <1>4, <1>5, FS_UNION

----------------------------------------------------------------------------
(* The number of a date                                                     *)

LEMMA DatesOrdered ==
  /\ \A a \in Dates : ~Before(a, a)
  /\ \A a, b, c \in Dates : Before(a, b) /\ Before(b, c) => Before(a, c)
  /\ \A a, b \in Dates : a = b \/ Before(a, b) \/ Before(b, a)
  <1>1. \A a \in Dates : /\ a = <<a[1], a[2], a[3]>>
                         /\ a[1] \in Nat /\ a[2] \in Nat /\ a[3] \in Nat
    <2> SUFFICES ASSUME NEW a \in Dates
                 PROVE  /\ a = <<a[1], a[2], a[3]>>
                        /\ a[1] \in Nat /\ a[2] \in Nat /\ a[3] \in Nat
      OBVIOUS
    <2>1. /\ a = <<a[1], a[2], a[3]>> /\ a[1] \in Nat /\ a[2] \in Nat
          /\ YearMonths[a[1]][a[2]] \in Nat /\ a[3] \in 1..YearMonths[a[1]][a[2]]
      BY DateParts, Zenon
    <2>2. QED
      BY <2>1
  <1>2. \A a \in Dates : ~Before(a, a)
    BY <1>1 DEF Before
  <1>3. \A a, b, c \in Dates : Before(a, b) /\ Before(b, c) => Before(a, c)
    BY <1>1 DEF Before
  <1>4. ASSUME NEW a \in Dates, NEW b \in Dates, ~Before(a, b), ~Before(b, a)
        PROVE  a = b
    <2>1. a[1] = b[1] /\ a[2] = b[2] /\ a[3] = b[3]
      BY <1>1, <1>4 DEF Before
    <2>2. a = <<a[1], a[2], a[3]>> /\ b = <<b[1], b[2], b[3]>>
      BY <1>1
    <2>3. QED
      BY <2>1, <2>2
  <1>5. QED
    BY <1>2, <1>3, <1>4, Zenon

LEMMA NumInOrder ==
  /\ \A a \in Dates : Num(a) \in Nat
  /\ \A a, b \in Dates : Before(a, b) <=> Num(a) < Num(b)
  /\ \A a, b \in Dates : Num(a) = Num(b) => a = b
  <1> DEFINE Earlier(a) == {e \in Dates : Before(e, a)}
  <1>1. \A a : /\ IsFiniteSet(Earlier(a)) /\ Cardinality(Earlier(a)) \in Nat
               /\ Num(a) = Cardinality(Earlier(a))
    <2> SUFFICES ASSUME NEW a
                 PROVE  /\ IsFiniteSet(Earlier(a)) /\ Cardinality(Earlier(a)) \in Nat
                        /\ Num(a) = Cardinality(Earlier(a))
      OBVIOUS
    <2>1. Earlier(a) \in SUBSET Dates
      OBVIOUS
    <2>2. Num(a) = Cardinality(Earlier(a))
      BY DEF Num
    <2> HIDE DEF Earlier
    <2>3. QED
      BY <2>1, <2>2, DatesFinite, FS_Subset, FS_CardinalityType
  <1>2. ASSUME NEW a \in Dates, NEW b \in Dates, Before(a, b)
        PROVE  Num(a) < Num(b)
    <2>1. Earlier(a) \in SUBSET Earlier(b)
      BY <1>2, DatesOrdered
    <2>2. a \in Earlier(b) /\ a \notin Earlier(a)
      BY <1>2, DatesOrdered
    <2> HIDE DEF Earlier
    <2>3. Cardinality(Earlier(a)) <= Cardinality(Earlier(b))
          /\ Cardinality(Earlier(a)) # Cardinality(Earlier(b))
      BY <1>1, <2>1, <2>2, FS_Subset, Zenon
    <2>4. QED
      BY <1>1, <2>3
  <1>3. \A a \in Dates : Num(a) \in Nat
    BY <1>1
  <1> HIDE DEF Earlier
  <1>4. \A a, b \in Dates : Before(a, b) <=> Num(a) < Num(b)
    BY <1>2, <1>3, DatesOrdered
  <1>5. \A a, b \in Dates : Num(a) = Num(b) => a = b
    BY <1>2, <1>3, DatesOrdered
  <1>6. QED
    BY <1>3, <1>4, <1>5

LEMMA DateOfNum ==
  ASSUME NEW date \in Dates
  PROVE  DateOf(Num(date)) = date
  BY NumInOrder DEF DateOf

\* Every number up to that of a date is the number of a date.
LEMMA NumsAreAll ==
  ASSUME NEW date \in Dates, NEW k \in Nat, k <= Num(date)
  PROVE  \E e \in Dates : Num(e) = k
  <1> DEFINE S == {e \in Dates : Before(e, date)}
             n == Num(date)
             f == [e \in S |-> Num(e)]
  <1>1. n \in Nat /\ n = Cardinality(S)
    BY NumInOrder DEF Num
  <1>2. CASE k = n
    BY <1>2
  <1>3. CASE k < n
    <2>1. f \in Injection(S, 0..(n - 1))
      <3>1. \A e \in S : Num(e) \in 0..(n - 1)
        BY NumInOrder
      <3>2. \A a, b \in S : Num(a) = Num(b) => a = b
        BY NumInOrder
      <3>3. QED
        BY <3>1, <3>2 DEF Injection, IsInjective
    <2>2. IsFiniteSet(0..(n - 1)) /\ Cardinality(0..(n - 1)) = n
      BY <1>1, UpTo
    <2> HIDE DEF n, f, S
    <2>3. f \in Surjection(S, 0..(n - 1))
      BY <1>1, <2>1, <2>2, FS_Injection
    <2>4. k \in 0..(n - 1)
      BY <1>1, <1>3
    <2>5. \E e \in S : f[e] = k
      BY <2>3, <2>4 DEF Surjection
    <2>6. QED
      BY <2>5 DEF f, S
  <1>4. QED
    BY <1>1, <1>2, <1>3

----------------------------------------------------------------------------
(* The latest occurrence                                                    *)

PastDue(k, n, after) == k < n \/ (k = n /\ after)

\* A number of the set that none exceeds is its maximum.
LEMMA MaxOf ==
  ASSUME NEW S \in SUBSET Int, NEW k \in S, \A j \in S : j <= k
  PROVE  Max(S) = k
  <1>1. \A x \in S : (\A y \in S : x >= y) => x = k
    OBVIOUS
  <1>2. k \in S /\ \A y \in S : k >= y
    OBVIOUS
  <1>3. QED
    BY <1>1, <1>2 DEF Max

DueNums(p, n, after) == {Num(e) : e \in {e \in Dates : Occurs(p, e) /\ PastDue(Num(e), n, after)}}

\* The latest date of a policy is one that has passed and that no other follows.
LEMMA LatestDate ==
  ASSUME NEW p, NEW n, NEW after, NEW e \in Dates,
         Occurs(p, e), PastDue(Num(e), n, after),
         \A o \in Dates : Occurs(p, o) /\ PastDue(Num(o), n, after) => ~Before(e, o)
  PROVE  Max(DueNums(p, n, after)) = Num(e)
  <1>1. Num(e) \in DueNums(p, n, after)
    BY DEF DueNums
  <1>2. DueNums(p, n, after) \in SUBSET Int
    BY NumInOrder DEF DueNums
  <1>3. \A j \in DueNums(p, n, after) : j <= Num(e)
    <2> SUFFICES ASSUME NEW o \in Dates, Occurs(p, o), PastDue(Num(o), n, after)
                 PROVE  Num(o) <= Num(e)
      BY DEF DueNums
    <2>1. ~Before(e, o)
      OBVIOUS
    <2>2. QED
      BY <2>1, NumInOrder
  <1>4. QED
    BY <1>1, <1>2, <1>3, MaxOf

\* The day of a policy in a month exists.
LEMMA ClippedDay ==
  ASSUME NEW y \in DOMAIN YearMonths, NEW m \in DOMAIN YearMonths[y], NEW day \in Nat
  PROVE  <<y, m, Clip(y, m, day)>> \in Dates
  <1> DEFINE len == YearMonths[y][m]
  <1>1. len \in Nat /\ len >= 1
    BY DateParts
  <1>2. Min({day, len}) = IF day <= len THEN day ELSE len
    <2>1. \A a, b \in Nat : a <= b => (CHOOSE x \in {a, b} : \A z \in {a, b} : x <= z) = a
      OBVIOUS
    <2>2. \A a, b \in Nat : b < a => (CHOOSE x \in {a, b} : \A z \in {a, b} : x <= z) = b
      OBVIOUS
    <2>3. QED
      BY <1>1, <2>1, <2>2 DEF Min
  <1>3. Clip(y, m, day) \in 1..len
    BY <1>1, <1>2 DEF Clip
  <1>4. QED
    BY <1>3, DateParts

\* What a policy is: a month that every year has, and a day.
LEMMA PolicyParts ==
  ASSUME NEW p \in Policies, NEW y \in DOMAIN YearMonths
  PROVE  /\ p.cadence \in {"daily", "weekly", "monthly", "yearly"}
         /\ p.month \in DOMAIN YearMonths[y] /\ p.day \in Nat
  <1>1. /\ p.cadence \in {"daily", "weekly", "monthly", "yearly"}
        /\ p.month \in DOMAIN YearMonths[1]
        /\ p.day \in 0..Max({YearMonths[1][m] : m \in DOMAIN YearMonths[1]})
    BY DEF Policies
  <1>2. p.day \in Nat
    BY <1>1
  <1>3. 1 \in DOMAIN YearMonths
    BY YearsAreAnInterval
  <1>4. QED
    BY <1>1, <1>2, <1>3, SameMonths

LEMMA DailyLatest ==
  ASSUME NEW p, p.cadence = "daily", NEW date \in Dates, NEW after \in BOOLEAN, date[1] > 1
  PROVE  Scheduled(p, Num(date), after) = Max(DueNums(p, Num(date), after))
  <1> DEFINE n == Num(date)
  <1>1. n \in Nat /\ n >= 1
    BY NumInOrder, CalendarAssumption
  <1>2. PICK e \in Dates : Num(e) = IF after THEN n ELSE n - 1
    <2>1. (IF after THEN n ELSE n - 1) \in Nat /\ (IF after THEN n ELSE n - 1) <= n
      BY <1>1
    <2>2. QED
      BY <2>1, NumsAreAll
  <1>3. Scheduled(p, n, after) = Num(e)
    BY <1>2 DEF Scheduled
  <1> HIDE DEF n
  <1>4. Occurs(p, e)
    BY DEF Occurs
  <1>5. PastDue(Num(e), n, after)
    BY <1>1, <1>2 DEF PastDue
  <1>6. \A o \in Dates : PastDue(Num(o), n, after) => ~Before(e, o)
    <2>1. \A o \in Dates : PastDue(Num(o), n, after) => ~(Num(e) < Num(o))
      BY <1>1, <1>2, NumInOrder DEF PastDue
    <2>2. QED
      BY <2>1, NumInOrder
  <1>7. QED
    BY <1>3, <1>4, <1>5, <1>6, LatestDate DEF n

LEMMA WeeklyLatest ==
  ASSUME NEW p, p.cadence = "weekly", p.day \in Nat,
         NEW date \in Dates, NEW after \in BOOLEAN, date[1] > 1
  PROVE  Scheduled(p, Num(date), after) = Max(DueNums(p, Num(date), after))
  <1> DEFINE n == Num(date)  w == WeekLength
             week == n - ((n - p.day) % w)
             at == IF PastDue(week, n, after) THEN week ELSE week - w
  <1>1. n \in Nat /\ n >= w /\ w \in Nat \ {0}
    BY NumInOrder, CalendarAssumption
  <1>2. Scheduled(p, n, after) = at
    BY DEF Scheduled, PastDue
  <1> HIDE DEF n, w
  <1>3. week \in Int /\ week <= n /\ n < week + w /\ week % w = p.day % w
    <2>1. PICK d \in Int : d = p.day
      OBVIOUS
    <2>2. n \in Int /\ week = n - ((n - d) % w)
      BY <1>1, <2>1
    <2> HIDE DEF week
    <2>3. week \in Int /\ week <= n /\ n < week + w /\ week % w = d % w
      <3>1. w \in Nat \ {0} /\ n \in Int /\ d \in Int /\ week = n - ((n - d) % w)
        BY <1>1, <2>1, <2>2
      <3>2. QED
        BY <3>1, BackToDay, Zenon
    <2>4. QED
      BY <2>1, <2>3
  <1> HIDE DEF week
  <1>4. at \in Nat /\ at <= n /\ PastDue(at, n, after)
    BY <1>1, <1>3 DEF PastDue
  <1>5. PICK e \in Dates : Num(e) = at
    BY <1>4, NumsAreAll DEF n
  <1>6. at % w = p.day % w
    <2>1. CASE PastDue(week, n, after)
      BY <1>3, <2>1
    <2>2. CASE ~PastDue(week, n, after)
      <3>1. week - w \in Int /\ at = week - w
        BY <1>1, <1>3, <2>2
      <3>2. (week - w) % w = week % w
        BY <1>1, <1>3, WeekBefore
      <3>3. QED
        BY <1>3, <3>1, <3>2
    <2>3. QED
      BY <2>1, <2>2
  <1>7. Occurs(p, e)
    BY <1>5, <1>6 DEF Occurs, w
  <1>8. ASSUME NEW o \in Dates, Occurs(p, o), PastDue(Num(o), n, after)
        PROVE  ~Before(e, o)
    <2>1. SUFFICES ASSUME at < Num(o) PROVE FALSE
      BY <1>5, NumInOrder
    <2>2. Num(o) \in Nat /\ Num(o) % w = p.day % w
      BY <1>8, NumInOrder DEF Occurs, w
    <2>3. at + w <= Num(o)
      <3>1. at \in Int /\ Num(o) \in Int
        BY <1>4, <2>2
      <3>2. QED
        BY <1>1, <1>6, <2>1, <2>2, <3>1, SameRemainder
    <2>4. Num(o) < n \/ (Num(o) = n /\ after)
      BY <1>8 DEF PastDue
    <2>5. CASE PastDue(week, n, after)
      BY <1>1, <1>3, <2>2, <2>3, <2>4, <2>5
    <2>6. CASE ~PastDue(week, n, after)
      <3>1. week = n /\ ~after
        BY <1>1, <1>3, <2>6 DEF PastDue
      <3>2. at = n - w
        BY <2>6, <3>1
      <3>3. QED
        BY <1>1, <2>2, <2>3, <2>4, <3>1, <3>2
    <2>7. QED
      BY <2>5, <2>6
  <1>9. PastDue(Num(e), n, after)
    BY <1>4, <1>5
  <1>10. QED
    BY <1>2, <1>5, <1>7, <1>8, <1>9, LatestDate DEF n

LEMMA MonthlyLatest ==
  ASSUME NEW p, p.cadence = "monthly", p.day \in Nat,
         NEW date \in Dates, NEW after \in BOOLEAN, date[1] > 1
  PROVE  Scheduled(p, Num(date), after) = Max(DueNums(p, Num(date), after))
  <1> DEFINE n == Num(date)  y == date[1]  m == date[2]
             month  == <<y, m, Clip(y, m, p.day)>>
             before == PreviousMonth(y, m)
             earlier == <<before[1], before[2], Clip(before[1], before[2], p.day)>>
  <1>1. /\ y \in DOMAIN YearMonths /\ m \in DOMAIN YearMonths[y] /\ y \in Nat /\ m \in Nat
        /\ y > 1 /\ m >= 1 /\ n \in Nat
    BY DateParts, NumInOrder
  <1>2. month \in Dates
    BY <1>1, ClippedDay
  <1>3. /\ before[1] \in DOMAIN YearMonths /\ before[2] \in DOMAIN YearMonths[before[1]]
        /\ before = IF m > 1 THEN <<y, m - 1>> ELSE <<y - 1, Len(YearMonths[y - 1])>>
    <2>1. y - 1 \in DOMAIN YearMonths
      BY <1>1, YearsAreAnInterval
    <2>2. CASE m > 1
      BY <1>1, <2>2, YearsAreAnInterval DEF PreviousMonth
    <2>3. CASE ~(m > 1)
      <3>1. DOMAIN YearMonths[y - 1] = DOMAIN YearMonths[y]
        BY <1>1, <2>1, SameMonths
      <3>2. Len(YearMonths[y - 1]) \in DOMAIN YearMonths[y - 1]
        BY <1>1, <2>1, <3>1, YearsAreAnInterval
      <3>3. QED
        BY <2>1, <2>3, <3>2 DEF PreviousMonth
    <2>4. QED
      BY <2>2, <2>3
  <1>4. earlier \in Dates
    BY <1>3, ClippedDay
  <1>5. Scheduled(p, n, after) = IF PastDue(Num(month), n, after) THEN Num(month) ELSE Num(earlier)
    <2>1. DateOf(n) = date
      BY DateOfNum
    <2>2. QED
      BY <2>1 DEF Scheduled, PastDue
  <1>6. \A o \in Dates : /\ o = <<o[1], o[2], o[3]>> /\ o[1] \in Nat /\ o[2] \in Nat
                         /\ o[2] <= Len(YearMonths[o[1]])
                         /\ o[1] \in DOMAIN YearMonths
    BY DateParts, YearsAreAnInterval
  <1>7. /\ month[1] = y /\ month[2] = m /\ month[3] = Clip(y, m, p.day)
        /\ earlier[1] = before[1] /\ earlier[2] = before[2]
        /\ earlier[3] = Clip(before[1], before[2], p.day)
    OBVIOUS
  <1> HIDE DEF n, month, earlier, before
  <1>8. Occurs(p, month) /\ Occurs(p, earlier)
    BY <1>7 DEF Occurs
  <1>9. \A o \in Dates : Occurs(p, o) => o[3] = Clip(o[1], o[2], p.day)
    BY DEF Occurs
  <1>10. \A o \in Dates : Before(date, o) => ~PastDue(Num(o), n, after)
    BY <1>1, NumInOrder DEF PastDue, n
  <1>11. CASE PastDue(Num(month), n, after)
    <2>1. ASSUME NEW o \in Dates, Occurs(p, o), PastDue(Num(o), n, after), Before(month, o)
          PROVE  FALSE
      <3>1. ~Before(date, o)
        BY <1>10, <2>1
      <3>2. o[1] = y /\ o[2] = m
        BY <1>1, <1>6, <1>7, <2>1, <3>1 DEF Before
      <3>3. o[3] = month[3]
        BY <1>7, <1>9, <2>1, <3>2
      <3>4. month[1] = o[1] /\ month[2] = o[2]
        BY <1>7, <3>2
      <3>5. o[3] < o[3] \/ o[1] < o[1] \/ o[2] < o[2]
        BY <2>1, <3>3, <3>4 DEF Before
      <3>6. o[1] \in Nat /\ o[2] \in Nat /\ o[3] \in Int
        BY <2>1, DateParts
      <3>7. QED
        BY <3>5, <3>6
    <2>2. QED
      BY <1>2, <1>5, <1>8, <1>11, <2>1, LatestDate DEF n
  <1>12. CASE ~PastDue(Num(month), n, after)
    <2>1. PastDue(Num(earlier), n, after)
      <3>1. Before(earlier, date)
        BY <1>1, <1>3, <1>7 DEF Before
      <3>2. QED
        BY <1>4, <3>1, NumInOrder DEF PastDue, n
    <2>2. ASSUME NEW o \in Dates, Occurs(p, o), PastDue(Num(o), n, after), Before(earlier, o)
          PROVE  FALSE
      <3>1. ~Before(date, o)
        BY <1>10, <2>2
      <3>2. ~(o[1] = y /\ o[2] = m)
        <4>1. SUFFICES ASSUME o[1] = y, o[2] = m PROVE FALSE
          OBVIOUS
        <4>2. o[3] = month[3]
          BY <1>7, <1>9, <2>2, <4>1
        <4>3. o = month
          BY <1>2, <1>6, <1>7, <4>1, <4>2
        <4>4. QED
          BY <1>12, <2>2, <4>3
      <3>3. o[1] = before[1] /\ o[2] = before[2]
        <4>1. o[1] < y \/ (o[1] = y /\ o[2] < m)
          BY <1>1, <1>6, <2>2, <3>1, <3>2 DEF Before
        <4>2. before[1] < o[1] \/ (before[1] = o[1] /\ before[2] <= o[2])
          <5>1. before[2] \in Nat /\ o[2] \in Nat
            BY <1>3, <1>6, <2>2, DateParts
          <5>2. QED
            BY <1>7, <2>2, <5>1 DEF Before
        <4>3. o[1] \in Nat /\ o[2] \in Nat /\ o[2] <= Len(YearMonths[o[1]])
          BY <1>6, <2>2
        <4>4. CASE m > 1
          BY <1>1, <1>3, <4>1, <4>2, <4>3, <4>4
        <4>5. CASE ~(m > 1)
          <5>1. before[1] = y - 1 /\ before[2] = Len(YearMonths[y - 1])
            BY <1>3, <4>5
          <5>2. o[2] >= 1
            BY <2>2, DateParts
          <5>3. o[1] < y
            BY <1>1, <4>1, <4>3, <4>5, <5>2
          <5>4. o[1] = y - 1
            BY <1>1, <4>2, <4>3, <5>1, <5>3
          <5>5. Len(YearMonths[y - 1]) \in Nat
            BY <1>3, <5>1, YearsAreAnInterval
          <5>6. QED
            BY <4>2, <4>3, <5>1, <5>4, <5>5
        <4>6. QED
          BY <4>4, <4>5
      <3>4. o[3] = earlier[3]
        BY <1>7, <1>9, <2>2, <3>3
      <3>5. o = earlier
        BY <1>4, <1>6, <1>7, <2>2, <3>3, <3>4
      <3>6. QED
        BY <1>4, <2>2, <3>5, DatesOrdered
    <2>3. QED
      BY <1>4, <1>5, <1>8, <1>12, <2>1, <2>2, LatestDate DEF n
  <1>13. QED
    BY <1>11, <1>12 DEF n

LEMMA YearlyLatest ==
  ASSUME NEW p \in Policies, p.cadence = "yearly",
         NEW date \in Dates, NEW after \in BOOLEAN, date[1] > 1
  PROVE  Scheduled(p, Num(date), after) = Max(DueNums(p, Num(date), after))
  <1> DEFINE n == Num(date)  y == date[1]  m == p.month
             year    == <<y, m, Clip(y, m, p.day)>>
             earlier == <<y - 1, m, Clip(y - 1, m, p.day)>>
  <1>1. /\ y \in DOMAIN YearMonths /\ y - 1 \in DOMAIN YearMonths /\ y \in Nat /\ y > 1 /\ n \in Nat
        /\ m \in DOMAIN YearMonths[y] /\ m \in DOMAIN YearMonths[y - 1] /\ p.day \in Nat
    <2>1. y \in DOMAIN YearMonths /\ y \in Nat /\ y > 1 /\ n \in Nat
      BY DateParts, NumInOrder
    <2>2. y - 1 \in DOMAIN YearMonths
      BY <2>1, YearsAreAnInterval
    <2>3. QED
      BY <2>1, <2>2, PolicyParts
  <1>2. year \in Dates /\ earlier \in Dates
    BY <1>1, ClippedDay
  <1>3. Scheduled(p, n, after) = IF PastDue(Num(year), n, after) THEN Num(year) ELSE Num(earlier)
    <2>1. DateOf(n) = date
      BY DateOfNum
    <2>2. QED
      BY <2>1 DEF Scheduled, PastDue
  <1>4. \A o \in Dates : o = <<o[1], o[2], o[3]>> /\ o[1] \in Nat /\ o[2] \in Nat
    BY DateParts
  <1>5. /\ year[1] = y /\ year[2] = m /\ year[3] = Clip(y, m, p.day)
        /\ earlier[1] = y - 1 /\ earlier[2] = m /\ earlier[3] = Clip(y - 1, m, p.day)
    OBVIOUS
  <1>6. Occurs(p, year) /\ Occurs(p, earlier)
    BY <1>5 DEF Occurs
  <1> HIDE DEF n, year, earlier
  <1>7. \A o \in Dates : Occurs(p, o) => o[2] = m /\ o[3] = Clip(o[1], m, p.day)
    BY DEF Occurs
  <1> HIDE DEF m
  <1>8. \A o \in Dates : Before(date, o) => ~PastDue(Num(o), n, after)
    BY <1>1, NumInOrder DEF PastDue, n
  <1>9. ASSUME NEW o \in Dates, Occurs(p, o), PastDue(Num(o), n, after)
        PROVE  o = year \/ (o[1] <= y - 1 /\ (o[1] = y - 1 => o = earlier))
    <2>1. ~Before(date, o)
      BY <1>8, <1>9
    <2>2. o[1] <= y
      BY <1>1, <1>4, <1>9, <2>1 DEF Before
    <2>3. o[1] = y => o = year
      BY <1>2, <1>4, <1>5, <1>7, <1>9
    <2>4. o[1] = y - 1 => o = earlier
      BY <1>2, <1>4, <1>5, <1>7, <1>9
    <2>5. o[1] \in Nat
      BY <1>4, <1>9
    <2>6. QED
      BY <1>1, <2>2, <2>3, <2>4, <2>5
  <1>10. CASE PastDue(Num(year), n, after)
    <2>1. ASSUME NEW o \in Dates, Occurs(p, o), PastDue(Num(o), n, after)
          PROVE  ~Before(year, o)
      <3>1. CASE o = year
        BY <1>2, <3>1, DatesOrdered
      <3>2. CASE o[1] <= y - 1
        BY <1>1, <1>4, <1>5, <2>1, <3>2 DEF Before
      <3>3. QED
        BY <1>9, <2>1, <3>1, <3>2
    <2>2. QED
      BY <1>2, <1>3, <1>6, <1>10, <2>1, LatestDate DEF n
  <1>11. CASE ~PastDue(Num(year), n, after)
    <2>1. PastDue(Num(earlier), n, after)
      <3>1. Before(earlier, date)
        BY <1>1, <1>5 DEF Before
      <3>2. QED
        BY <1>2, <3>1, NumInOrder DEF PastDue, n
    <2>2. ASSUME NEW o \in Dates, Occurs(p, o), PastDue(Num(o), n, after)
          PROVE  ~Before(earlier, o)
      <3>1. o[1] <= y - 1 /\ (o[1] = y - 1 => o = earlier)
        BY <1>9, <1>11, <2>2
      <3>2. CASE o[1] = y - 1
        BY <1>2, <3>1, <3>2, DatesOrdered
      <3>3. CASE o[1] # y - 1
        BY <1>1, <1>4, <1>5, <2>2, <3>1, <3>3 DEF Before
      <3>4. QED
        BY <3>2, <3>3
    <2>3. QED
      BY <1>2, <1>3, <1>6, <1>11, <2>1, <2>2, LatestDate DEF n
  <1>12. QED
    BY <1>10, <1>11 DEF n

LEMMA DueIsLatest ==
  ASSUME NEW p \in Policies, NEW date \in Dates, NEW after \in BOOLEAN, date[1] > 1
  PROVE  Scheduled(p, Num(date), after) = Max(DueNums(p, Num(date), after))
  <1>1. p.cadence \in {"daily", "weekly", "monthly", "yearly"} /\ p.day \in Nat
    BY DateParts, PolicyParts
  <1>2. QED
    BY <1>1, DailyLatest, WeeklyLatest, MonthlyLatest, YearlyLatest

\* The due time of a policy is its latest occurrence that has passed, for any
\* calendar: across short months and years, and on the due day itself only once
\* the time of the day has passed (_scheduled_time).
THEOREM DueTimesRight == PlanSpec => []ScheduledIsLatest
  <1>1. PlanInit => ScheduledIsLatest
    BY DEF PlanInit, ScheduledIsLatest
  <1>2. ASSUME ScheduledIsLatest, ComputeDue
        PROVE  ScheduledIsLatest'
    <2>1. PICK p \in Policies, date \in {e \in Dates : e[1] > 1}, after \in BOOLEAN :
            planned' = [policy |-> p, day |-> Num(date), after |-> after,
                        at |-> Scheduled(p, Num(date), after)]
      BY <1>2 DEF ComputeDue
    <2>2. planned'.at = Scheduled(p, Num(date), after) /\ planned'.policy = p
          /\ planned'.day = Num(date) /\ planned'.after = after
      BY <2>1
    <2>3. planned'.at = Max(DueNums(p, Num(date), after))
      BY <2>2, DueIsLatest
    <2>4. QED
      BY <2>2, <2>3 DEF ScheduledIsLatest, DueNums, PastDue
  <1>3. ASSUME ScheduledIsLatest, planned' = planned
        PROVE  ScheduledIsLatest'
    BY <1>3 DEF ScheduledIsLatest
  <1>4. ScheduledIsLatest /\ [PlanNext]_planVars => ScheduledIsLatest'
    BY <1>2, <1>3 DEF PlanNext, Build, RunRequest, UserQuery, StrayRow, Expire, TimePasses, planVars
  <1>5. QED
    BY <1>1, <1>4, PTL DEF PlanSpec
===============================================================================
