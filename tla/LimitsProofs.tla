----------------------------- MODULE LimitsProofs -----------------------------
(*****************************************************************************)
(* Theorems about the two bounds that threads wait at, for any number of     *)
(* threads and slots: the semaphores of ProviderGate and the connection      *)
(* pool of DbPool.  The two share nothing but this module.                   *)
(*****************************************************************************)
EXTENDS ProviderGate, DbPool, FiniteSetTheorems, SequenceTheorems,
        WellFoundedInduction, TLAPS

-------------------------------------------------------------------------------
(*****************************************************************************)
(* The gate: no slot of a provider's semaphore or of the global one is lost  *)
(* or made up.  The proof needs of the types only the slots, the stages and  *)
(* that a worker's locals name a provider; deques and ages do not matter.    *)
(*****************************************************************************)

RunFields == {"provider", "attempt", "outcome", "left"}

\* The part of the type invariant that the count of slots rests on.
SlotTypes ==
    /\ free \in [Providers -> Nat]
    /\ globalFree \in Nat
    /\ stage \in [Workers -> GateLabels]
    /\ DOMAIN run = Workers
    /\ \A w \in Workers : DOMAIN run[w] = RunFields /\ P(w) \in Providers

SlotInv == SlotTypes /\ SlotsExact

-----------------------------------------------------------------------------
\* What joins a set of workers and what leaves it counts one.
LEMMA OneMore ==
    ASSUME NEW A \in SUBSET Workers, NEW w \in Workers, w \notin A
    PROVE  /\ Cardinality(A \cup {w}) = Cardinality(A) + 1
           /\ Cardinality(A) \in Nat
  BY GateAssumption, FS_Subset, FS_AddElement, FS_CardinalityType

LEMMA OneLess ==
    ASSUME NEW A \in SUBSET Workers, NEW w \in A
    PROVE  /\ Cardinality(A \ {w}) = Cardinality(A) - 1
           /\ Cardinality(A) \in Nat
  BY GateAssumption, FS_Subset, FS_RemoveElement, FS_CardinalityType

LEMMA Counts ==
    ASSUME NEW p
    PROVE  /\ HoldersOf(p) \subseteq Workers /\ Cardinality(HoldersOf(p)) \in Nat
           /\ GlobalHolders \subseteq Workers /\ Cardinality(GlobalHolders) \in Nat
  BY GateAssumption, FS_Subset, FS_CardinalityType DEF HoldersOf, GlobalHolders

\* A step that takes or gives no slot leaves the semaphores and the holders.
LEMMA SameSlots ==
    ASSUME SlotInv, SlotTypes', UNCHANGED slots,
           \A q \in Providers : HoldersOf(q)' = HoldersOf(q),
           GlobalHolders' = GlobalHolders
    PROVE  SlotsExact'
  BY DEF SlotInv, SlotsExact, slots

-----------------------------------------------------------------------------
\* The two semaphores begin full and nobody holds a slot.
LEMMA InitSlots == GateInit => SlotInv
<1> SUFFICES ASSUME GateInit PROVE SlotInv
  OBVIOUS
<1>1. SlotTypes
  BY GateAssumption DEF GateInit, SlotTypes, GateLabels, InProvider, P, NewRun, RunFields
<1>2. /\ \A p \in Providers : HoldersOf(p) = {}
      /\ GlobalHolders = {}
  BY DEF GateInit, HoldersOf, GlobalHolders, InProvider, InGlobal
<1>3. /\ Cardinality({}) = 0 /\ Global \in Nat
      /\ \A p \in Providers : Concurrency[p] \in Nat
  BY GateAssumption, FS_EmptySet
<1>4. SlotsExact
  <2>1. free = Concurrency /\ globalFree = Global
    BY DEF GateInit
  <2>2. ASSUME NEW p \in Providers PROVE free[p] + Cardinality(HoldersOf(p)) = Concurrency[p]
    BY <1>2, <1>3, <2>1
  <2>3. globalFree + Cardinality(GlobalHolders) = Global
    BY <1>2, <1>3, <2>1
  <2> QED
    BY <2>2, <2>3 DEF SlotsExact
<1> QED
  BY <1>1, <1>4 DEF SlotInv

-----------------------------------------------------------------------------
\* The steps that leave both semaphores and keep every worker on its side of
\* them.
LEMMA QuietStep ==
    ASSUME SlotInv, NEW w \in Workers,
           \/ \E p \in Providers : Start(w, p)
           \/ RateSlot(w) \/ Awake(w) \/ Finish(w) \/ DecideRetry(w) \/ Backoff(w)
    PROVE  SlotInv'
<1>1. SlotTypes' /\ UNCHANGED slots
  <2>1. CASE \E p \in Providers : Start(w, p)
    <3>1. PICK p \in Providers : Start(w, p)
      BY <2>1
    <3> QED
      BY <3>1 DEF SlotInv, SlotTypes, Start, Moves, NewRun, P, RunFields, GateLabels, InProvider, slots
  <2>2. CASE RateSlot(w)
    <3>1. \/ run' = run
          \/ \E n : run' = [run EXCEPT ![w].left = n]
      BY <2>2 DEF RateSlot
    <3>2. \/ stage' = [stage EXCEPT ![w] = "global"]
          \/ stage' = [stage EXCEPT ![w] = "sleep"]
      BY <2>2 DEF RateSlot, Moves
    <3>3. UNCHANGED slots
      BY <2>2 DEF RateSlot, slots
    <3> QED
      BY <3>1, <3>2, <3>3 DEF SlotInv, SlotTypes, P, RunFields, GateLabels, InProvider, slots
  <2>3. CASE Awake(w)
    BY <2>3 DEF SlotInv, SlotTypes, Awake, Moves, P, RunFields, GateLabels, InProvider, slots
  <2>4. CASE Finish(w)
    BY <2>4 DEF SlotInv, SlotTypes, Finish, Moves, End, P, RunFields, GateLabels, InProvider, slots
  <2>5. CASE DecideRetry(w)
    <3>1. \A u \in Workers : DOMAIN run'[u] = RunFields /\ P(u)' = P(u)
      BY <2>5 DEF SlotInv, SlotTypes, DecideRetry, NewRun, P, RunFields
    <3>2. DOMAIN run' = Workers /\ UNCHANGED slots /\ stage' \in [Workers -> GateLabels]
      BY <2>5 DEF SlotInv, SlotTypes, DecideRetry, Moves, GateLabels, slots
    <3> QED
      BY <3>1, <3>2 DEF SlotInv, SlotTypes, slots
  <2>6. CASE Backoff(w)
    BY <2>6 DEF SlotInv, SlotTypes, Backoff, Moves, P, RunFields, GateLabels, InProvider, slots
  <2> QED
    BY <2>1, <2>2, <2>3, <2>4, <2>5, <2>6
<1>2. /\ \A q \in Providers : HoldersOf(q)' = HoldersOf(q)
      /\ GlobalHolders' = GlobalHolders
  BY DEF SlotInv, SlotTypes, Start, RateSlot, Awake, Finish, DecideRetry, Backoff, Moves, End,
         NewRun, P, RunFields, GateLabels, InProvider, InGlobal, HoldersOf, GlobalHolders
<1> QED
  BY <1>1, <1>2, SameSlots DEF SlotInv

\* The provider's semaphore gives its slot to w, or w goes away without one.
LEMMA AcquireProviderStep ==
    ASSUME SlotInv, NEW w \in Workers, AcquireProvider(w)
    PROVE  SlotInv'
<1>1. SlotTypes' /\ UNCHANGED globalFree
  BY DEF SlotInv, SlotTypes, AcquireProvider, Moves, End, Add, P, RunFields, GateLabels, InProvider
<1>2. GlobalHolders' = GlobalHolders
  BY DEF SlotInv, SlotTypes, AcquireProvider, Moves, InGlobal, GlobalHolders
<1>3. CASE UNCHANGED free /\ stage'[w] = "decide"
  <2>1. \A q \in Providers : HoldersOf(q)' = HoldersOf(q)
    BY <1>3 DEF SlotInv, SlotTypes, AcquireProvider, Moves, End, Add, P, RunFields, InProvider, HoldersOf
  <2> QED
    BY <1>1, <1>2, <1>3, <2>1, SameSlots DEF SlotInv, slots
<1>4. CASE /\ free' = Add(free, P(w), -1) /\ stage' = [stage EXCEPT ![w] = "rate"]
           /\ stage[w] = "sem" /\ UNCHANGED run
  <2>1. \A q \in Providers :
            HoldersOf(q)' = IF q = P(w) THEN HoldersOf(q) \cup {w} ELSE HoldersOf(q)
    BY <1>4 DEF SlotInv, SlotTypes, P, InProvider, HoldersOf
  <2>3. ASSUME NEW q \in Providers
        PROVE  free'[q] + Cardinality(HoldersOf(q)') = Concurrency[q]
    <3>1. free[q] + Cardinality(HoldersOf(q)) = Concurrency[q] /\ free[q] \in Nat
      BY DEF SlotInv, SlotsExact, SlotTypes
    <3>2. Cardinality(HoldersOf(q)) \in Nat
      BY Counts
    <3>3. CASE q = P(w)
      <4>1. free'[q] = free[q] - 1
        BY <1>4, <3>3 DEF SlotInv, SlotTypes, Add
      <4>2. w \notin HoldersOf(q)
        BY <1>4 DEF InProvider, HoldersOf
      <4>3. Cardinality(HoldersOf(q)') = Cardinality(HoldersOf(q)) + 1
        BY <2>1, <3>3, <4>2, OneMore, Counts
      <4> QED
        BY <4>1, <4>3, <3>1, <3>2
    <3>4. CASE q # P(w)
      BY <1>4, <2>1, <3>1, <3>4 DEF SlotInv, SlotTypes, Add
    <3> QED
      BY <3>3, <3>4
  <2> QED
    BY <1>1, <1>2, <2>3 DEF SlotInv, SlotsExact
<1> QED
  BY <1>3, <1>4 DEF AcquireProvider, Moves, SlotInv, SlotTypes

\* The last finally clause: w gives back the slot of its provider.
LEMMA ReleaseProviderStep ==
    ASSUME SlotInv, NEW w \in Workers, ReleaseProvider(w)
    PROVE  SlotInv'
<1>1. SlotTypes' /\ UNCHANGED globalFree
  BY DEF SlotInv, SlotTypes, ReleaseProvider, Moves, Add, P, RunFields, GateLabels, InProvider
<1>2. GlobalHolders' = GlobalHolders
  BY DEF SlotInv, SlotTypes, ReleaseProvider, Moves, InGlobal, GlobalHolders
<1>3. \A q \in Providers :
          HoldersOf(q)' = IF q = P(w) THEN HoldersOf(q) \ {w} ELSE HoldersOf(q)
  BY DEF SlotInv, SlotTypes, ReleaseProvider, Moves, P, InProvider, HoldersOf
<1>4. ASSUME NEW q \in Providers
      PROVE  free'[q] + Cardinality(HoldersOf(q)') = Concurrency[q]
  <2>1. free[q] + Cardinality(HoldersOf(q)) = Concurrency[q] /\ free[q] \in Nat
    BY DEF SlotInv, SlotsExact, SlotTypes
  <2>2. Cardinality(HoldersOf(q)) \in Nat
    BY Counts
  <2>3. CASE q = P(w)
    <3>1. free'[q] = free[q] + 1
      BY <2>3 DEF SlotInv, SlotTypes, ReleaseProvider, Add
    <3>2. w \in HoldersOf(q)
      BY <2>3 DEF ReleaseProvider, InProvider, HoldersOf
    <3>3. Cardinality(HoldersOf(q)') = Cardinality(HoldersOf(q)) - 1
      BY <1>3, <2>3, <3>2, OneLess, Counts
    <3> QED
      BY <3>1, <3>3, <2>1, <2>2
  <2>4. CASE q # P(w)
    BY <1>3, <2>1, <2>4 DEF SlotInv, SlotTypes, ReleaseProvider, Add
  <2> QED
    BY <2>3, <2>4
<1> QED
  BY <1>1, <1>2, <1>4 DEF SlotInv, SlotsExact

\* The global semaphore gives its slot to w, which holds its provider's slot
\* and keeps it when there is none to be had, until the finally clause.
LEMMA AcquireGlobalStep ==
    ASSUME SlotInv, NEW w \in Workers, AcquireGlobal(w)
    PROVE  SlotInv'
<1>1. SlotTypes' /\ UNCHANGED free
  BY DEF SlotInv, SlotTypes, AcquireGlobal, Moves, End, P, RunFields, GateLabels, InProvider
<1>2. \A q \in Providers : HoldersOf(q)' = HoldersOf(q)
  BY DEF SlotInv, SlotTypes, AcquireGlobal, Moves, End, P, RunFields, InProvider, HoldersOf
<1>3. CASE UNCHANGED globalFree /\ stage' = [stage EXCEPT ![w] = "unsem"] /\ stage[w] = "global"
  <2>1. GlobalHolders' = GlobalHolders
    BY <1>3 DEF SlotInv, SlotTypes, InGlobal, GlobalHolders
  <2> QED
    BY <1>1, <1>2, <1>3, <2>1, SameSlots DEF SlotInv, slots
<1>4. CASE /\ globalFree' = globalFree - 1 /\ stage' = [stage EXCEPT ![w] = "call"]
           /\ stage[w] = "global"
  <2>1. GlobalHolders' = GlobalHolders \cup {w} /\ w \notin GlobalHolders
    BY <1>4 DEF SlotInv, SlotTypes, InGlobal, GlobalHolders
  <2>2. /\ Cardinality(GlobalHolders') = Cardinality(GlobalHolders) + 1
        /\ Cardinality(GlobalHolders) \in Nat
    BY <2>1, OneMore, Counts
  <2>3. globalFree' + Cardinality(GlobalHolders') = Global
    BY <1>4, <2>2 DEF SlotInv, SlotTypes, SlotsExact
  <2> QED
    BY <1>1, <1>2, <2>3 DEF SlotInv, SlotsExact
<1> QED
  BY <1>3, <1>4 DEF AcquireGlobal, Moves

\* The inner finally clause: w gives back the global slot.
LEMMA ReleaseGlobalStep ==
    ASSUME SlotInv, NEW w \in Workers, ReleaseGlobal(w)
    PROVE  SlotInv'
<1>1. SlotTypes' /\ UNCHANGED free
  BY DEF SlotInv, SlotTypes, ReleaseGlobal, Moves, P, RunFields, GateLabels, InProvider
<1>2. \A q \in Providers : HoldersOf(q)' = HoldersOf(q)
  BY DEF SlotInv, SlotTypes, ReleaseGlobal, Moves, P, InProvider, HoldersOf
<1>3. GlobalHolders' = GlobalHolders \ {w} /\ w \in GlobalHolders
  BY DEF SlotInv, SlotTypes, ReleaseGlobal, Moves, InGlobal, GlobalHolders
<1>4. /\ Cardinality(GlobalHolders') = Cardinality(GlobalHolders) - 1
      /\ Cardinality(GlobalHolders) \in Nat
  BY <1>3, OneLess, Counts
<1>5. globalFree' + Cardinality(GlobalHolders') = Global
  BY <1>4 DEF SlotInv, SlotTypes, SlotsExact, ReleaseGlobal
<1> QED
  BY <1>1, <1>2, <1>5 DEF SlotInv, SlotsExact

\* Time passes: nobody moves.
LEMMA TickStep ==
    ASSUME SlotInv, Tick
    PROVE  SlotInv'
<1>1. SlotTypes' /\ UNCHANGED slots
  BY DEF SlotInv, SlotTypes, Tick, slots, P, RunFields
<1>2. /\ \A q \in Providers : HoldersOf(q)' = HoldersOf(q)
      /\ GlobalHolders' = GlobalHolders
  BY DEF SlotInv, SlotTypes, Tick, P, RunFields, HoldersOf, GlobalHolders
<1> QED
  BY <1>1, <1>2, SameSlots DEF SlotInv

-----------------------------------------------------------------------------
LEMMA SlotStep == SlotInv /\ [GateNext]_gateVars => SlotInv'
<1> SUFFICES ASSUME SlotInv, [GateNext]_gateVars PROVE SlotInv'
  OBVIOUS
<1>1. ASSUME NEW w \in Workers, Step(w) \/ \E p \in Providers : Start(w, p)
      PROVE  SlotInv'
  BY <1>1, QuietStep, AcquireProviderStep, ReleaseProviderStep, AcquireGlobalStep,
     ReleaseGlobalStep DEF Step
<1>2. CASE Tick
  BY <1>2, TickStep
<1>3. CASE UNCHANGED gateVars
  BY <1>3 DEF gateVars, slots, SlotInv, SlotTypes, SlotsExact, HoldersOf, GlobalHolders, P
<1> QED
  BY <1>1, <1>2, <1>3 DEF GateNext

\* No way through _run_once, whoever else is in it, loses a slot or makes one
\* up: the two semaphores and those who hold their slots always add up.
THEOREM SlotsKept == GateSpec => []SlotsExact
<1>1. SlotInv => SlotsExact
  BY DEF SlotInv
<1> QED
  BY <1>1, InitSlots, SlotStep, PTL DEF GateSpec

-----------------------------------------------------------------------------
(***************************************************************************)
(* The calls of a second.   Each start of the last second is matched with a *)
(* call that passed the window no earlier, except for as many starts as    *)
(* the provider has slots that no thread holds on its way to the global    *)
(* semaphore: a start that is older than its match has left such a slot.   *)
(***************************************************************************)

\* The m-th newest call is no older than the (m + spare)-th newest start.
Justified(starts, passes, spare) ==
    \A m \in 1..Len(starts) : m + spare <= Len(starts) =>
        /\ m <= Len(passes)
        /\ passes[Len(passes) + 1 - m] <= starts[Len(starts) + 1 - (m + spare)]

OldestFirst(s) == \A i, j \in 1..Len(s) : i <= j => s[i] >= s[j]
Young(s) == \A i \in 1..Len(s) : s[i] < Window

Waiting(p) == {w \in Workers : stage[w] = "global" /\ P(w) = p}
Spare(p) == Concurrency[p] - Cardinality(Waiting(p))

\* What is known of a provider with a rate limit.
Paced(starts, passes, rate, spare) ==
    /\ Len(passes) <= rate
    /\ OldestFirst(starts) /\ Young(starts) /\ Justified(starts, passes, spare)

BurstInv ==
    /\ recentCalls \in [Providers -> Ages] /\ started \in [Providers -> Ages]
    /\ \A p \in Providers : Rate[p] > 0 => Paced(started[p], recentCalls[p], Rate[p], Spare(p))

LEMMA AgesAre ==
    ASSUME NEW s \in Ages
    PROVE  /\ Len(s) \in Nat /\ DOMAIN s = 1..Len(s) /\ \A i \in 1..Len(s) : s[i] \in 0..Window
<1>1. s \in Seq(0..Window)
  BY DEF Ages
<1>2. Len(s) \in Nat /\ DOMAIN s = 1..Len(s)
  BY <1>1
<1> QED BY <1>1, <1>2, ElementOfSeq

\* popleft leaves the end of the deque, from the first call that is young.
LEMMA RecentIs ==
    ASSUME NEW s \in Ages
    PROVE  \E n \in 0..Len(s) :
             /\ \A i \in 1..n : s[i] >= Window
             /\ n < Len(s) => s[n + 1] < Window
             /\ Recent(s) \in Ages /\ Len(Recent(s)) = Len(s) - n
             /\ \A i \in 1..(Len(s) - n) : Recent(s)[i] = s[i + n]
<1>0. Window \in Nat /\ Len(s) \in Nat /\ \A i \in 1..Len(s) : s[i] \in 0..Window
  BY GateAssumption, AgesAre
<1> DEFINE Front(n) == /\ \A i \in 1..n : s[i] >= Window
                       /\ n < Len(s) => s[n + 1] < Window
           stops    == {n \in 0..Len(s) : n < Len(s) => s[n + 1] < Window}
           R        == OpToRel(<, Nat)
<1>1. Len(s) \in stops /\ stops \subseteq Nat
  BY <1>0
<1>2. \E n \in stops : \A k \in stops : n <= k
  <2>1. \A x, y \in Nat : x < y => <<x, y>> \in R
    BY DEF OpToRel
  <2>2. IsWellFoundedOn(R, Nat)
    BY NatLessThanWellFounded
  <2> HIDE DEF R, stops
  <2>3. PICK n \in stops : \A k \in stops : ~(<<k, n>> \in R)
    BY <1>1, <2>2, WFMin
  <2>4. ASSUME NEW k \in stops PROVE n <= k
    <3>1. k \in Nat /\ n \in Nat /\ <<k, n>> \notin R
      BY <1>1, <2>3
    <3> QED BY <2>1, <3>1
  <2> QED BY <2>3, <2>4
<1>3. PICK first \in stops : \A k \in stops : first <= k
  BY <1>2
<1>4. first \in 0..Len(s) /\ Front(first)
  <2>1. ASSUME NEW i \in 1..first PROVE s[i] >= Window
    <3>1. first \in 0..Len(s)
      BY <1>3
    <3>2. i - 1 \in 0..Len(s) /\ ~(first <= i - 1) /\ (i - 1) + 1 = i /\ i \in 1..Len(s) /\ i - 1 < Len(s)
      BY <1>0, <3>1
    <3>3. i - 1 \notin stops
      <4> HIDE DEF stops
      <4> QED BY <1>3, <3>2
    <3>4. ~(s[i] < Window)
      BY <3>2, <3>3
    <3> QED BY <1>0, <3>2, <3>4
  <2> QED BY <2>1, <1>3
<1> DEFINE old == CHOOSE n \in 0..Len(s) : Front(n)
<1>5. old \in 0..Len(s) /\ Front(old)
  BY <1>4
<1>6. Recent(s) = SubSeq(s, old + 1, Len(s))
  BY DEF Recent
<1> HIDE DEF old
<1>7. /\ SubSeq(s, old + 1, Len(s)) \in Seq(0..Window)
      /\ Len(SubSeq(s, old + 1, Len(s))) = IF old + 1 <= Len(s) THEN Len(s) - (old + 1) + 1 ELSE 0
      /\ \A i \in 1..(Len(s) - (old + 1) + 1) : SubSeq(s, old + 1, Len(s))[i] = s[(old + 1) + i - 1]
  <2>1. old + 1 \in Int /\ Len(s) \in Int /\ \A i \in (old + 1)..Len(s) : s[i] \in 0..Window
    BY <1>0, <1>5
  <2> QED BY <2>1, SubSeqProperties
<1>8. Recent(s) \in Ages /\ Len(Recent(s)) = Len(s) - old
  BY <1>0, <1>5, <1>6, <1>7 DEF Ages
<1>9. \A i \in 1..(Len(s) - old) : Recent(s)[i] = s[i + old]
  BY <1>0, <1>5, <1>6, <1>7
<1> QED BY <1>5, <1>8, <1>9

LEMMA JustifiedRecent ==
    ASSUME NEW starts \in Ages, NEW passes \in Ages, NEW spare \in Nat, Young(starts),
           Justified(starts, passes, spare)
    PROVE  Justified(starts, Recent(passes), spare)
<1>0. /\ Window \in Nat /\ Len(starts) \in Nat /\ Len(passes) \in Nat
      /\ \A i \in 1..Len(starts) : starts[i] \in Nat
      /\ \A i \in 1..Len(passes) : passes[i] \in Nat
  BY GateAssumption, AgesAre
<1>1. PICK n \in 0..Len(passes) :
             /\ \A i \in 1..n : passes[i] >= Window
             /\ Len(Recent(passes)) = Len(passes) - n
             /\ \A i \in 1..(Len(passes) - n) : Recent(passes)[i] = passes[i + n]
  BY RecentIs
<1>2. ASSUME NEW m \in 1..Len(starts), m + spare <= Len(starts)
      PROVE  m <= Len(passes) - n
             /\ Recent(passes)[Len(passes) - n + 1 - m] <= starts[Len(starts) + 1 - (m + spare)]
  <2>1. m <= Len(passes) /\ passes[Len(passes) + 1 - m] <= starts[Len(starts) + 1 - (m + spare)]
    BY <1>2 DEF Justified
  <2>2. starts[Len(starts) + 1 - (m + spare)] < Window /\ starts[Len(starts) + 1 - (m + spare)] \in Nat
    BY <1>0, <1>2 DEF Young
  <2>3. ~(Len(passes) + 1 - m \in 1..n)
    <3>1. passes[Len(passes) + 1 - m] \in Nat
      BY <1>0, <1>2, <2>1
    <3> QED BY <1>0, <1>1, <2>1, <2>2, <3>1
  <2>4. m <= Len(passes) - n
    BY <1>0, <1>2, <2>1, <2>3
  <2>5. Recent(passes)[Len(passes) - n + 1 - m] = passes[Len(passes) + 1 - m]
    <3>1. Len(passes) - n + 1 - m \in 1..(Len(passes) - n)
      BY <1>0, <2>4
    <3>2. (Len(passes) - n + 1 - m) + n = Len(passes) + 1 - m
      BY <1>0
    <3> QED BY <1>1, <3>1, <3>2
  <2> QED BY <2>1, <2>4, <2>5
<1> QED BY <1>0, <1>1, <1>2 DEF Justified

LEMMA JustifiedPass ==
    ASSUME NEW starts \in Ages, NEW passes \in Ages, NEW spare \in Nat, spare > 0,
           Justified(starts, passes, spare)
    PROVE  Justified(starts, Append(passes, 0), spare - 1)
<1>0. /\ Len(starts) \in Nat /\ Len(passes) \in Nat /\ 0 \in 0..Window
      /\ \A i \in 1..Len(starts) : starts[i] \in Nat
  BY GateAssumption, AgesAre
<1>1. /\ Len(Append(passes, 0)) = Len(passes) + 1 /\ Append(passes, 0)[Len(passes) + 1] = 0
      /\ \A i \in 1..Len(passes) : Append(passes, 0)[i] = passes[i]
  BY <1>0, AppendProperties DEF Ages
<1>2. ASSUME NEW m \in 1..Len(starts), m + (spare - 1) <= Len(starts)
      PROVE  m <= Len(passes) + 1
             /\ Append(passes, 0)[Len(passes) + 2 - m] <= starts[Len(starts) + 1 - (m + (spare - 1))]
  <2>1. CASE m = 1
    BY <1>0, <1>1, <1>2, <2>1
  <2>2. CASE m > 1
    <3> DEFINE k == m - 1
    <3>1. k \in 1..Len(starts) /\ k + spare = m + (spare - 1)
      BY <1>0, <2>2
    <3>2. k <= Len(passes) /\ passes[Len(passes) + 1 - k] <= starts[Len(starts) + 1 - (k + spare)]
      BY <1>2, <3>1 DEF Justified
    <3>3. Len(passes) + 2 - m = Len(passes) + 1 - k /\ Len(passes) + 1 - k \in 1..Len(passes)
      BY <1>0, <3>1, <3>2
    <3> QED BY <1>0, <1>1, <3>1, <3>2, <3>3
  <2> QED BY <2>1, <2>2
<1> QED
  <2>1. Len(passes) + 1 + 1 = Len(passes) + 2
    BY <1>0
  <2> QED BY <1>0, <1>1, <1>2, <2>1 DEF Justified

LEMMA JustifiedStart ==
    ASSUME NEW starts \in Ages, NEW passes \in Ages, NEW spare \in Nat,
           Justified(starts, passes, spare)
    PROVE  Justified(Append(starts, 0), passes, spare + 1)
<1>0. Len(starts) \in Nat /\ Len(passes) \in Nat /\ 0 \in 0..Window
  BY GateAssumption, AgesAre
<1>1. /\ Len(Append(starts, 0)) = Len(starts) + 1
      /\ \A i \in 1..Len(starts) : Append(starts, 0)[i] = starts[i]
  BY <1>0, AppendProperties DEF Ages
<1>2. ASSUME NEW m \in 1..(Len(starts) + 1), m + (spare + 1) <= Len(starts) + 1
      PROVE  /\ m <= Len(passes)
             /\ passes[Len(passes) + 1 - m] <= Append(starts, 0)[Len(starts) + 2 - (m + (spare + 1))]
  <2>1. m \in 1..Len(starts) /\ m + spare <= Len(starts)
    BY <1>0, <1>2
  <2>2. m <= Len(passes) /\ passes[Len(passes) + 1 - m] <= starts[Len(starts) + 1 - (m + spare)]
    BY <2>1 DEF Justified
  <2>3. Len(starts) + 2 - (m + (spare + 1)) = Len(starts) + 1 - (m + spare)
        /\ Len(starts) + 1 - (m + spare) \in 1..Len(starts)
    BY <1>0, <2>1
  <2> QED BY <1>1, <2>2, <2>3
<1> QED
  <2>1. Len(starts) + 1 + 1 = Len(starts) + 2
    BY <1>0
  <2> QED BY <1>1, <1>2, <2>1 DEF Justified

\* A slot that is given back justifies one more.
LEMMA JustifiedSpare ==
    ASSUME NEW starts \in Ages, NEW passes \in Ages, NEW spare \in Nat, OldestFirst(starts),
           \A i \in 1..Len(passes) : passes[i] \in Nat,
           Justified(starts, passes, spare)
    PROVE  Justified(starts, passes, spare + 1)
<1>0. /\ Len(starts) \in Nat /\ Len(passes) \in Nat
      /\ \A i \in 1..Len(starts) : starts[i] \in Nat
  BY AgesAre
<1>1. ASSUME NEW m \in 1..Len(starts), m + (spare + 1) <= Len(starts)
      PROVE  m <= Len(passes) /\ passes[Len(passes) + 1 - m] <= starts[Len(starts) + 1 - (m + (spare + 1))]
  <2> DEFINE i == Len(starts) + 1 - (m + (spare + 1))
             j == Len(starts) + 1 - (m + spare)
  <2>1. m + spare <= Len(starts) /\ i \in 1..Len(starts) /\ j \in 1..Len(starts) /\ i <= j
    BY <1>0, <1>1
  <2>2. m <= Len(passes) /\ passes[Len(passes) + 1 - m] <= starts[j]
    BY <2>1 DEF Justified
  <2>3. Len(passes) + 1 - m \in 1..Len(passes)
    BY <1>0, <2>2
  <2>4. starts[i] >= starts[j] /\ starts[i] \in Nat /\ starts[j] \in Nat
    BY <1>0, <2>1 DEF OldestFirst
  <2> HIDE DEF i, j
  <2>5. passes[Len(passes) + 1 - m] <= starts[i]
    BY <2>2, <2>3, <2>4
  <2> QED BY <2>2, <2>5 DEF i
<1> QED BY <1>1 DEF Justified

LEMMA OlderIs ==
    ASSUME NEW s \in Ages
    PROVE  /\ Older(s) \in Ages /\ Len(Older(s)) = Len(s)
           /\ \A i \in 1..Len(s) : Older(s)[i] = IF s[i] < Window THEN s[i] + 1 ELSE Window
<1>0. Window \in Nat /\ Len(s) \in Nat /\ DOMAIN s = 1..Len(s) /\ \A i \in 1..Len(s) : s[i] \in 0..Window
  BY GateAssumption, AgesAre
<1>1. Older(s) \in [1..Len(s) -> 0..Window]
  BY <1>0 DEF Older
<1> QED BY <1>0, <1>1 DEF Older, Ages

\* A tick ages passes and starts alike, and takes the oldest starts away.
LEMMA JustifiedTick ==
    ASSUME NEW starts \in Ages, NEW passes \in Ages, NEW spare \in Nat,
           OldestFirst(starts), Young(starts), Justified(starts, passes, spare)
    PROVE  /\ OldestFirst(Recent(Older(starts))) /\ Young(Recent(Older(starts)))
           /\ Justified(Recent(Older(starts)), Older(passes), spare)
<1> DEFINE aged == Older(starts)
           left == Recent(aged)
<1>0. /\ Window \in Nat /\ Len(starts) \in Nat /\ Len(passes) \in Nat
      /\ \A i \in 1..Len(starts) : starts[i] \in 0..Window
      /\ \A i \in 1..Len(passes) : passes[i] \in 0..Window
  BY GateAssumption, AgesAre
<1>1. /\ aged \in Ages /\ Len(aged) = Len(starts)
      /\ \A i \in 1..Len(starts) : aged[i] = starts[i] + 1
  BY <1>0, OlderIs DEF Young
<1>2. /\ Len(Older(passes)) = Len(passes)
      /\ \A i \in 1..Len(passes) : Older(passes)[i] = IF passes[i] < Window THEN passes[i] + 1 ELSE Window
  BY OlderIs
<1> HIDE DEF aged
<1>3. PICK n \in 0..Len(aged) :
             /\ n < Len(aged) => aged[n + 1] < Window
             /\ left \in Ages /\ Len(left) = Len(aged) - n
             /\ \A i \in 1..(Len(aged) - n) : left[i] = aged[i + n]
  BY <1>1, RecentIs
<1> HIDE DEF left
<1>4. /\ Len(left) = Len(starts) - n /\ n \in Nat
      /\ \A i \in 1..Len(left) : i + n \in 1..Len(starts) /\ left[i] = starts[i + n] + 1
  <2>1. Len(left) = Len(starts) - n /\ n \in Nat
    BY <1>0, <1>1, <1>3
  <2>2. ASSUME NEW i \in 1..Len(left) PROVE i + n \in 1..Len(starts) /\ left[i] = starts[i + n] + 1
    <3>1. i + n \in 1..Len(starts) /\ i \in 1..(Len(aged) - n)
      BY <1>0, <1>1, <2>1
    <3> QED BY <1>1, <1>3, <3>1
  <2> QED BY <2>1, <2>2
<1>5. OldestFirst(left)
  <2>1. ASSUME NEW i \in 1..Len(left), NEW j \in 1..Len(left), i <= j PROVE left[i] >= left[j]
    <3>1. i + n \in 1..Len(starts) /\ j + n \in 1..Len(starts) /\ i + n <= j + n
      BY <1>0, <1>4, <2>1
    <3>2. starts[i + n] >= starts[j + n] /\ starts[i + n] \in Nat /\ starts[j + n] \in Nat
      BY <1>0, <3>1 DEF OldestFirst
    <3>3. left[i] = starts[i + n] + 1 /\ left[j] = starts[j + n] + 1
      BY <1>4
    <3> QED BY <3>2, <3>3
  <2> QED BY <2>1 DEF OldestFirst
<1>6. Young(left)
  <2>1. ASSUME NEW i \in 1..Len(left) PROVE left[i] < Window
    <3>1. n < Len(aged) /\ n + 1 \in 1..Len(starts) /\ n + 1 <= i + n /\ i + n \in 1..Len(starts)
      BY <1>0, <1>1, <1>4
    <3>2. aged[n + 1] < Window /\ aged[n + 1] = starts[n + 1] + 1
      BY <1>1, <1>3, <3>1
    <3>3. starts[n + 1] >= starts[i + n]
      BY <3>1 DEF OldestFirst
    <3>4. left[i] = starts[i + n] + 1 /\ starts[i + n] \in Nat /\ starts[n + 1] \in Nat
      BY <1>0, <1>4, <3>1
    <3> QED BY <1>0, <3>2, <3>3, <3>4
  <2> QED BY <2>1 DEF Young
<1>7. ASSUME NEW m \in 1..Len(left), m + spare <= Len(left)
      PROVE  m <= Len(passes) /\ Older(passes)[Len(passes) + 1 - m] <= left[Len(left) + 1 - (m + spare)]
  <2>1. m \in 1..Len(starts) /\ m + spare <= Len(starts)
    BY <1>0, <1>4, <1>7
  <2>2. m <= Len(passes) /\ passes[Len(passes) + 1 - m] <= starts[Len(starts) + 1 - (m + spare)]
    BY <2>1 DEF Justified
  <2> DEFINE i == Len(left) + 1 - (m + spare)
             j == Len(starts) + 1 - (m + spare)
             k == Len(passes) + 1 - m
  <2>3. i \in 1..Len(left) /\ i + n = j
    BY <1>0, <1>4, <1>7, <2>1
  <2>4. j \in 1..Len(starts)
    BY <1>0, <2>1
  <2>5. k \in 1..Len(passes)
    BY <1>0, <2>1, <2>2
  <2>6. passes[k] <= starts[j]
    BY <2>2
  <2> HIDE DEF i, j, k
  <2>7. left[i] = starts[j] + 1 /\ starts[j] \in Nat
    <3>1. left[i] = starts[i + n] + 1
      BY <1>4, <2>3
    <3> QED BY <1>0, <2>3, <2>4, <3>1
  <2>8. passes[k] \in Nat /\ Older(passes)[k] = IF passes[k] < Window THEN passes[k] + 1 ELSE Window
    BY <1>0, <1>2, <2>5
  <2>9. Older(passes)[k] <= left[i]
    BY <1>0, <2>6, <2>7, <2>8
  <2> QED BY <2>2, <2>9 DEF i, k
<1>8. Justified(left, Older(passes), spare)
  BY <1>2, <1>7 DEF Justified
<1> QED BY <1>5, <1>6, <1>8 DEF left, aged

-----------------------------------------------------------------------------
\* Those who wait for the global semaphore hold slots of their provider.
LEMMA SpareIs ==
    ASSUME SlotInv, NEW p \in Providers
    PROVE  /\ Spare(p) \in Nat /\ Waiting(p) \subseteq Workers /\ Cardinality(Waiting(p)) \in Nat
           /\ \A w \in HoldersOf(p) : w \notin Waiting(p) => Spare(p) > 0
<1>1. Waiting(p) \subseteq HoldersOf(p) /\ HoldersOf(p) \subseteq Workers
  BY DEF Waiting, HoldersOf, InProvider
<1>2. IsFiniteSet(HoldersOf(p))
  BY <1>1, GateAssumption, FS_Subset
<1>3. Cardinality(Waiting(p)) <= Cardinality(HoldersOf(p)) /\ Cardinality(Waiting(p)) \in Nat
  BY <1>1, <1>2, FS_Subset, FS_CardinalityType
<1>4. free[p] + Cardinality(HoldersOf(p)) = Concurrency[p] /\ free[p] \in Nat /\ Cardinality(HoldersOf(p)) \in Nat
  BY <1>2, FS_CardinalityType DEF SlotInv, SlotTypes, SlotsExact
<1>5. ASSUME NEW w \in HoldersOf(p), w \notin Waiting(p) PROVE Spare(p) > 0
  <2>1. Waiting(p) \cup {w} \subseteq HoldersOf(p)
    BY <1>1
  <2>2. Cardinality(Waiting(p) \cup {w}) <= Cardinality(HoldersOf(p))
    BY <1>2, <2>1, FS_Subset
  <2>3. Cardinality(Waiting(p) \cup {w}) = Cardinality(Waiting(p)) + 1
    BY <1>1, <1>5, OneMore
  <2> QED BY <1>3, <1>4, <2>2, <2>3 DEF Spare
<1> QED BY <1>1, <1>3, <1>4, <1>5 DEF Spare

\* The slots that are spared as threads begin and cease to wait.
LEMMA SpareMoves ==
    ASSUME SlotInv, NEW p \in Providers, NEW w \in Workers
    PROVE  /\ Waiting(p)' = Waiting(p) => Spare(p)' = Spare(p)
           /\ w \notin Waiting(p) /\ Waiting(p)' = Waiting(p) \cup {w} => Spare(p)' = Spare(p) - 1
           /\ w \in Waiting(p) /\ Waiting(p)' = Waiting(p) \ {w} => Spare(p)' = Spare(p) + 1
<1>1. Waiting(p) \subseteq Workers /\ Cardinality(Waiting(p)) \in Nat
  BY SpareIs
<1>2. ASSUME w \notin Waiting(p), Waiting(p)' = Waiting(p) \cup {w} PROVE Spare(p)' = Spare(p) - 1
  <2>1. Cardinality(Waiting(p)') = Cardinality(Waiting(p)) + 1
    BY <1>1, <1>2, OneMore
  <2> QED BY <1>1, <2>1, GateAssumption DEF Spare
<1>3. ASSUME w \in Waiting(p), Waiting(p)' = Waiting(p) \ {w} PROVE Spare(p)' = Spare(p) + 1
  <2>1. Cardinality(Waiting(p)') = Cardinality(Waiting(p)) - 1
    BY <1>1, <1>3, OneLess
  <2> QED BY <1>1, <2>1, GateAssumption DEF Spare
<1> QED BY <1>2, <1>3 DEF Spare

LEMMA BurstInit == GateInit => BurstInv
<1> SUFFICES ASSUME GateInit PROVE BurstInv
  OBVIOUS
<1>1. << >> \in Ages /\ Len(<< >>) = 0
  BY EmptySeq DEF Ages
<1>2. recentCalls = [p \in Providers |-> << >>] /\ started = [p \in Providers |-> << >>]
  BY DEF GateInit
<1>3. ASSUME NEW p \in Providers, Rate[p] > 0 PROVE Paced(started[p], recentCalls[p], Rate[p], Spare(p))
  BY <1>1, <1>2, <1>3, GateAssumption DEF Paced, OldestFirst, Young, Justified
<1> QED BY <1>1, <1>2, <1>3 DEF BurstInv

\* A turn at the window: a call that passes is remembered, and its thread waits.
LEMMA RateSlotBurst ==
    ASSUME SlotInv, BurstInv, NEW w \in Workers, RateSlot(w)
    PROVE  BurstInv'
<1>0. PICK p \in Providers : p = P(w)
  BY DEF SlotInv, SlotTypes
<1> DEFINE recent == Recent(recentCalls[p])
           room   == Rate[p] = 0 \/ Len(recent) < Rate[p]
<1>1. /\ p \in Providers /\ recentCalls[p] \in Ages /\ started' = started /\ stage[w] = "rate"
      /\ stage \in [Workers -> GateLabels] /\ DOMAIN recentCalls = Providers
      /\ \A q \in Providers : Rate[q] \in Nat /\ started[q] \in Ages /\ recentCalls[q] \in Ages
  BY <1>0, GateAssumption DEF RateSlot, SlotInv, SlotTypes, BurstInv
<1>2. recent \in Ages /\ Len(recent) <= Len(recentCalls[p]) /\ Len(recent) \in Nat
  <2>1. PICK n \in 0..Len(recentCalls[p]) : recent \in Ages /\ Len(recent) = Len(recentCalls[p]) - n
    BY <1>0, <1>1, RecentIs
  <2> QED BY <1>0, <1>1, <2>1, AgesAre
<1>3. \A v \in Workers : P(v)' = P(v)
  BY DEF RateSlot, SlotInv, SlotTypes, P, RunFields
<1>4. \A q \in Providers : Spare(q) \in Nat
  BY SpareIs
<1>5. ASSUME Rate[p] > 0 PROVE Paced(started[p], recent, Rate[p], Spare(p))
  BY <1>0, <1>1, <1>2, <1>4, <1>5, JustifiedRecent, AgesAre DEF BurstInv, Paced
<1>6. CASE ~room
  <2>1. recentCalls' = [recentCalls EXCEPT ![p] = recent] /\ stage' = [stage EXCEPT ![w] = "sleep"]
    BY <1>0, <1>6 DEF RateSlot, Moves
  <2>2. \A q \in Providers : Waiting(q)' = Waiting(q)
    BY <1>0, <1>1, <1>3, <2>1 DEF Waiting
  <2>3. \A q \in Providers : Spare(q)' = Spare(q)
    BY <2>2 DEF Spare
  <2> HIDE DEF recent
  <2> QED BY <1>0, <1>1, <1>2, <1>5, <2>1, <2>3 DEF BurstInv
<1>7. CASE room
  <2>1. stage' = [stage EXCEPT ![w] = "global"]
        /\ recentCalls' = IF Rate[p] = 0 THEN recentCalls ELSE [recentCalls EXCEPT ![p] = Append(recent, 0)]
    BY <1>0, <1>7 DEF RateSlot, Moves
  <2>2. /\ \A q \in Providers : q # p => Waiting(q)' = Waiting(q)
        /\ Waiting(p)' = Waiting(p) \cup {w} /\ w \notin Waiting(p) /\ w \in HoldersOf(p)
    BY <1>0, <1>1, <1>3, <2>1 DEF Waiting, HoldersOf, InProvider
  <2>3. /\ \A q \in Providers : q # p => Spare(q)' = Spare(q)
        /\ Spare(p)' = Spare(p) - 1 /\ Spare(p) > 0
    <3>1. Spare(p)' = Spare(p) - 1 /\ Spare(p) > 0
      <4> QED BY <1>0, <1>1, <2>2, SpareMoves, SpareIs
    <3> QED BY <2>2, <3>1 DEF Spare
  <2>4. Append(recent, 0) \in Ages /\ Len(Append(recent, 0)) = Len(recent) + 1
    BY <1>2, GateAssumption, AppendProperties DEF Ages
  <2>5. ASSUME Rate[p] > 0 PROVE Paced(started[p], Append(recent, 0), Rate[p], Spare(p) - 1)
    <3>1. Paced(started[p], recent, Rate[p], Spare(p))
      BY <1>5, <2>5
    <3>2. Justified(started[p], Append(recent, 0), Spare(p) - 1)
      BY <1>0, <1>1, <1>2, <1>4, <2>3, <3>1, JustifiedPass DEF Paced
    <3>3. Len(Append(recent, 0)) <= Rate[p]
      BY <1>0, <1>1, <1>2, <1>7, <2>4, <2>5
    <3> QED BY <3>1, <3>2, <3>3 DEF Paced
  <2> HIDE DEF recent
  <2>6. ASSUME NEW q \in Providers, Rate[q] > 0
        PROVE  Paced(started'[q], recentCalls'[q], Rate[q], Spare(q)')
    <3>1. CASE q = p
      <4>1. recentCalls'[q] = Append(recent, 0)
        BY <1>0, <1>1, <2>1, <2>6, <3>1
      <4> QED BY <1>0, <1>1, <2>3, <2>5, <2>6, <3>1, <4>1
    <3>2. CASE q # p
      <4>1. recentCalls'[q] = recentCalls[q]
        BY <1>0, <1>1, <2>1, <3>2
      <4> QED BY <1>0, <1>1, <2>3, <2>6, <3>2, <4>1 DEF BurstInv
    <3> QED BY <3>1, <3>2
  <2>7. recentCalls' \in [Providers -> Ages] /\ started' \in [Providers -> Ages]
    BY <1>0, <1>1, <2>1, <2>4 DEF BurstInv
  <2> QED BY <2>6, <2>7 DEF BurstInv
<1> QED BY <1>6, <1>7

\* The provider function starts, or the thread gives up; it no longer waits.
LEMMA AcquireGlobalBurst ==
    ASSUME SlotInv, BurstInv, NEW w \in Workers, AcquireGlobal(w)
    PROVE  BurstInv'
<1>0. PICK p \in Providers : p = P(w)
  BY DEF SlotInv, SlotTypes
<1>1. /\ p \in Providers /\ recentCalls' = recentCalls /\ stage[w] = "global"
      /\ stage \in [Workers -> GateLabels] /\ DOMAIN started = Providers
      /\ \A q \in Providers : Rate[q] \in Nat /\ started[q] \in Ages /\ recentCalls[q] \in Ages
  BY <1>0, GateAssumption DEF AcquireGlobal, SlotInv, SlotTypes, BurstInv
<1>2. \A v \in Workers : P(v)' = P(v)
  BY DEF AcquireGlobal, End, SlotInv, SlotTypes, P, RunFields
<1>3. \E to \in {"call", "unsem"} : stage' = [stage EXCEPT ![w] = to]
  BY DEF AcquireGlobal, Moves
<1>4. /\ \A q \in Providers : q # p => Waiting(q)' = Waiting(q)
      /\ Waiting(p)' = Waiting(p) \ {w} /\ w \in Waiting(p)
  BY <1>0, <1>1, <1>2, <1>3 DEF Waiting
<1>5. /\ \A q \in Providers : q # p => Spare(q)' = Spare(q)
      /\ Spare(p)' = Spare(p) + 1 /\ \A q \in Providers : Spare(q) \in Nat
  <2>1. Spare(p)' = Spare(p) + 1
    <3> QED BY <1>0, <1>1, <1>4, SpareMoves
  <2> QED BY <1>4, <2>1, SpareIs DEF Spare
<1>6. CASE started' = started
  <2>1. ASSUME Rate[p] > 0 PROVE Paced(started[p], recentCalls[p], Rate[p], Spare(p) + 1)
    BY <1>0, <1>1, <1>5, <2>1, JustifiedSpare, AgesAre DEF BurstInv, Paced
  <2>2. ASSUME NEW q \in Providers, Rate[q] > 0
        PROVE  Paced(started'[q], recentCalls'[q], Rate[q], Spare(q)')
    <3>1. CASE q = p
      BY <1>0, <1>1, <1>5, <1>6, <2>1, <2>2, <3>1
    <3>2. CASE q # p
      BY <1>0, <1>1, <1>5, <1>6, <2>2, <3>2 DEF BurstInv
    <3> QED BY <3>1, <3>2
  <2> QED BY <1>0, <1>1, <1>6, <2>2 DEF BurstInv
<1>7. CASE started' = Note(started, p)
  <2>1. Append(started[p], 0) \in Ages /\ Len(Append(started[p], 0)) = Len(started[p]) + 1
        /\ Append(started[p], 0)[Len(started[p]) + 1] = 0
        /\ \A i \in 1..Len(started[p]) : Append(started[p], 0)[i] = started[p][i]
    BY <1>0, <1>1, GateAssumption, AppendProperties DEF Ages
  <2>2. ASSUME Rate[p] > 0 PROVE Paced(Append(started[p], 0), recentCalls[p], Rate[p], Spare(p) + 1)
    <3>0. /\ Len(started[p]) \in Nat /\ Window > 0
          /\ \A i \in 1..Len(started[p]) : started[p][i] \in Nat
      BY <1>0, <1>1, AgesAre, GateAssumption
    <3>1. Paced(started[p], recentCalls[p], Rate[p], Spare(p))
      BY <1>0, <1>1, <2>2 DEF BurstInv
    <3>2. Justified(Append(started[p], 0), recentCalls[p], Spare(p) + 1)
      BY <1>0, <1>1, <1>5, <3>1, JustifiedStart DEF Paced
    <3>3. Young(Append(started[p], 0))
      BY <2>1, <3>0, <3>1 DEF Paced, Young
    <3>4. OldestFirst(Append(started[p], 0))
      <4>1. ASSUME NEW i \in 1..(Len(started[p]) + 1), NEW j \in 1..(Len(started[p]) + 1), i <= j
            PROVE  Append(started[p], 0)[i] >= Append(started[p], 0)[j]
        <5>1. CASE j \in 1..Len(started[p])
          BY <2>1, <3>0, <3>1, <4>1, <5>1 DEF Paced, OldestFirst
        <5>2. CASE j = Len(started[p]) + 1
          BY <2>1, <3>0, <4>1, <5>2
        <5> QED BY <3>0, <4>1, <5>1, <5>2
      <4> QED BY <2>1, <4>1 DEF OldestFirst
    <3> QED BY <3>1, <3>2, <3>3, <3>4 DEF Paced
  <2>3. started' = IF Rate[p] = 0 THEN started ELSE [started EXCEPT ![p] = Append(started[p], 0)]
    BY <1>0, <1>7 DEF Note
  <2>4. ASSUME NEW q \in Providers, Rate[q] > 0
        PROVE  Paced(started'[q], recentCalls'[q], Rate[q], Spare(q)')
    <3>1. CASE q = p
      <4>1. started'[q] = Append(started[p], 0)
        BY <1>0, <1>1, <2>3, <2>4, <3>1
      <4> QED BY <1>0, <1>1, <1>5, <2>2, <2>4, <3>1, <4>1
    <3>2. CASE q # p
      <4>1. started'[q] = started[q]
        BY <1>0, <1>1, <2>3, <3>2
      <4> QED BY <1>0, <1>1, <1>5, <2>4, <3>2, <4>1 DEF BurstInv
    <3> QED BY <3>1, <3>2
  <2>5. recentCalls' \in [Providers -> Ages] /\ started' \in [Providers -> Ages]
    BY <1>0, <1>1, <2>1, <2>3 DEF BurstInv
  <2> QED BY <2>4, <2>5 DEF BurstInv
<1> QED BY <1>0, <1>6, <1>7 DEF AcquireGlobal

LEMMA TickBurst ==
    ASSUME SlotInv, BurstInv, Tick
    PROVE  BurstInv'
<1>1. /\ recentCalls' = [p \in Providers |-> Older(recentCalls[p])]
      /\ started' = [p \in Providers |-> Recent(Older(started[p]))]
      /\ stage' = stage /\ \A v \in Workers : P(v)' = P(v)
  BY DEF Tick, SlotInv, SlotTypes, P, RunFields
<1>2. ASSUME NEW q \in Providers
      PROVE  /\ Older(recentCalls[q]) \in Ages /\ Recent(Older(started[q])) \in Ages
             /\ Len(Older(recentCalls[q])) = Len(recentCalls[q])
  <2>1. recentCalls[q] \in Ages /\ started[q] \in Ages
    BY DEF BurstInv
  <2>2. Older(started[q]) \in Ages /\ Older(recentCalls[q]) \in Ages
        /\ Len(Older(recentCalls[q])) = Len(recentCalls[q])
    BY <2>1, OlderIs
  <2> QED BY <2>2, RecentIs
<1>3. ASSUME NEW q \in Providers PROVE Spare(q)' = Spare(q) /\ Spare(q) \in Nat
  <2>1. Waiting(q)' = Waiting(q)
    BY <1>1 DEF Waiting
  <2> QED BY <2>1, SpareIs DEF Spare
<1>4. ASSUME NEW q \in Providers, Rate[q] > 0
      PROVE  Paced(Recent(Older(started[q])), Older(recentCalls[q]), Rate[q], Spare(q))
  <2>1. recentCalls[q] \in Ages /\ started[q] \in Ages /\ Paced(started[q], recentCalls[q], Rate[q], Spare(q))
    BY <1>4 DEF BurstInv
  <2> QED BY <1>2, <1>3, <2>1, JustifiedTick DEF Paced
<1> QED BY <1>1, <1>2, <1>3, <1>4 DEF BurstInv

LEMMA BurstStep == SlotInv /\ BurstInv /\ [GateNext]_gateVars => BurstInv'
<1> SUFFICES ASSUME SlotInv, BurstInv, [GateNext]_gateVars PROVE BurstInv'
  OBVIOUS
<1>1. CASE UNCHANGED <<recentCalls, started>> /\ \A q \in Providers : Waiting(q)' = Waiting(q)
  BY <1>1 DEF BurstInv, Spare
<1>2. ASSUME NEW w \in Workers, Step(w) \/ \E p \in Providers : Start(w, p), ~RateSlot(w), ~AcquireGlobal(w)
      PROVE  BurstInv'
  <2>1. UNCHANGED <<recentCalls, started>>
    BY <1>2 DEF Step, Start, AcquireProvider, Awake, Finish, ReleaseGlobal, ReleaseProvider, DecideRetry, Backoff
  <2>2. stage[w] # "global" /\ \E to : to # "global" /\ stage' = [stage EXCEPT ![w] = to]
    BY <1>2 DEF Step, Start, AcquireProvider, Awake, Finish, ReleaseGlobal, ReleaseProvider, DecideRetry, Backoff,
                Moves
  <2>3. \A v \in Workers : v # w => P(v)' = P(v)
    BY <1>2 DEF Step, Start, AcquireProvider, Awake, Finish, ReleaseGlobal, ReleaseProvider, DecideRetry, Backoff,
                End, P, SlotInv, SlotTypes
  <2>4. \A q \in Providers : Waiting(q)' = Waiting(q)
    BY <2>2, <2>3 DEF Waiting, P, SlotInv, SlotTypes
  <2> QED BY <1>1, <2>1, <2>4
<1>3. CASE UNCHANGED gateVars
  BY <1>1, <1>3 DEF gateVars, Waiting, P
<1> QED BY <1>2, <1>3, RateSlotBurst, AcquireGlobalBurst, TickBurst DEF GateNext, Step

\* BurstBounded: of the last second a provider has seen at most the calls the
\* sliding window lets through and those its slots kept waiting for the global
\* semaphore (ProviderGate._wait_for_rate_slot and _run_once).
THEOREM BurstStaysBounded == GateSpec => []BurstBounded
<1>1. SlotInv /\ BurstInv => BurstBounded
  <2> SUFFICES ASSUME SlotInv, BurstInv, NEW p \in Providers, Rate[p] > 0
               PROVE  Len(started[p]) <= Rate[p] + Concurrency[p]
    BY DEF BurstBounded
  <2>1. /\ Paced(started[p], recentCalls[p], Rate[p], Spare(p)) /\ Rate[p] \in Nat /\ Concurrency[p] \in Nat
        /\ Len(started[p]) \in Nat /\ Len(recentCalls[p]) \in Nat
    BY GateAssumption, AgesAre DEF BurstInv
  <2>2. Spare(p) \in Nat /\ Spare(p) <= Concurrency[p]
    <3>1. Spare(p) \in Nat /\ Cardinality(Waiting(p)) \in Nat
      BY SpareIs
    <3> QED BY <2>1, <3>1 DEF Spare
  <2> DEFINE m == Rate[p] + 1
  <2>3. ASSUME Len(started[p]) > Rate[p] + Concurrency[p] PROVE FALSE
    <3>1. m \in 1..Len(started[p]) /\ m + Spare(p) <= Len(started[p])
      BY <2>1, <2>2, <2>3
    <3>2. m <= Len(recentCalls[p]) /\ Len(recentCalls[p]) <= Rate[p]
      BY <2>1, <3>1 DEF Paced, Justified
    <3> QED BY <2>1, <3>2
  <2> QED BY <2>1, <2>3
<1> QED BY <1>1, InitSlots, SlotStep, BurstInit, BurstStep, PTL DEF GateSpec

-------------------------------------------------------------------------------
(*****************************************************************************)
(* The pool: first the shape of the state (who holds which connection),      *)
(* then the count.                                                           *)
(*****************************************************************************)

\* A thread has a connection exactly where the code has one in its local.
Linked == \A t \in Threads : (held[t] # NoConn) <=> (place[t] \in Holding)

\* An open connection is never lost: it is queued or held.
OpenIsOwned == \A c \in open : c \in idle \/ \E t \in Threads : held[t] = c

CloserSeen == closer # "no" => ~NeverClosed

ShapeInv == PoolTypeOK /\ Linked /\ OneUser /\ QueuedIsOpen /\ OpenIsOwned /\ CloserSeen

LEMMA GotoMoves ==
    ASSUME PoolTypeOK, NEW t \in Threads, NEW l, MoveTo(t, l)
    PROVE  place'[t] = l /\ \A u \in Threads : u # t => place'[u] = place[u]
  BY DEF PoolTypeOK, MoveTo

LEMMA HoldMoves ==
    ASSUME PoolTypeOK, NEW t \in Threads, NEW c, Hold(t, c)
    PROVE  held'[t] = c /\ \A u \in Threads : u # t => held'[u] = held[u]
  BY DEF PoolTypeOK, Hold

LEMMA FaultMoves ==
    ASSUME PoolTypeOK, NEW f, Fault(f)
    PROVE  /\ faults' \in [Faults -> 0..MaxFaults]
           /\ \A g \in Faults : g # f => faults'[g] = faults[g]
           /\ f \in Faults /\ faults'[f] = faults[f] + 1 /\ faults[f] \in Nat
  BY PoolAssumption DEF PoolTypeOK, Fault, PoolAssumption

\* The fault that each action uses up, if any.
LEMMA StepFaults ==
    ASSUME PoolTypeOK, [PoolNext]_poolVars
    PROVE  \/ faults' = faults
           \/ \E f \in Faults : Fault(f)
  BY DEF PoolNext, Run, Call, Poll, Check, Decide, Connect, Wait, GiveBack, Return, Break, Drop,
         ClosePool, StartClose, CloseOne, ZeroCreated, NoFault, Fault, poolVars

LEMMA FaultsGrow ==
    ASSUME PoolTypeOK, [PoolNext]_poolVars
    PROVE  /\ faults' \in [Faults -> 0..MaxFaults]
           /\ \A f \in Faults : faults[f] \in Nat /\ faults'[f] \in Nat /\ faults[f] <= faults'[f]
           /\ NeverClosed' => NeverClosed
           /\ ~SlotFreed' => ~SlotFreed
  <1>1. faults' \in [Faults -> 0..MaxFaults]
    BY StepFaults, FaultMoves DEF PoolTypeOK
  <1>2. \A f \in Faults : faults[f] \in Nat /\ faults'[f] \in Nat
    BY <1>1, PoolAssumption DEF PoolTypeOK, PoolAssumption
  <1>3. \A f \in Faults : faults[f] <= faults'[f]
    BY <1>2, StepFaults, FaultMoves
  <1> QED
    BY <1>1, <1>2, <1>3 DEF NeverClosed, Happened, SlotFreed

-----------------------------------------------------------------------------
LEMMA ShapeInit == PoolInit => ShapeInv
  BY PoolAssumption
  DEF PoolInit, ShapeInv, PoolTypeOK, Linked, OneUser, QueuedIsOpen, OpenIsOwned, CloserSeen, Places,
      Holding, PoolAssumption

LEMMA ShapeStep == ShapeInv /\ [PoolNext]_poolVars => ShapeInv'
  <1> SUFFICES ASSUME ShapeInv, [PoolNext]_poolVars PROVE ShapeInv'
    OBVIOUS
  <1>a. PoolTypeOK /\ Linked /\ OneUser /\ QueuedIsOpen /\ OpenIsOwned /\ CloserSeen
    BY DEF ShapeInv
  <1>b. faults' \in [Faults -> 0..MaxFaults] /\ (NeverClosed' => NeverClosed)
    BY <1>a, FaultsGrow
  <1>c. CloserSeen /\ (closer' # "no" => closer # "no") => CloserSeen'
    BY <1>b DEF CloserSeen
  <1>d. NoConn \notin Conns
    BY PoolAssumption DEF PoolAssumption
  <1>1. ASSUME NEW t \in Threads, NEW c \in Conns, Take(t, c), ~(place[t] \in Holding),
               UNCHANGED <<open, created, active, closer, calls>>
        PROVE  ShapeInv'
    <2>1. place'[t] = "check" /\ \A u \in Threads : u # t => place'[u] = place[u]
      BY <1>a, <1>1, GotoMoves DEF Take
    <2>2. held'[t] = c /\ \A u \in Threads : u # t => held'[u] = held[u]
      BY <1>a, <1>1, HoldMoves DEF Take
    <2>3. c \in idle /\ idle' = idle \ {c}
      BY <1>1 DEF Take
    <2>4. PoolTypeOK'
      BY <1>a, <1>b, <1>1, <2>3 DEF PoolTypeOK, Take, MoveTo, Hold, Places
    <2>5. Linked'
      BY <1>a, <1>d, <2>1, <2>2 DEF Linked, Holding
    <2>6. OneUser'
      BY <1>a, <2>2, <2>3 DEF OneUser
    <2>7. QueuedIsOpen' /\ OpenIsOwned' /\ CloserSeen'
      <3>1. held[t] = NoConn
        BY <1>a, <1>1 DEF Linked
      <3>2. QueuedIsOpen' /\ CloserSeen'
        BY <1>a, <1>c, <1>1, <2>3 DEF QueuedIsOpen
      <3>3. open' = open /\ NoConn \notin open
        BY <1>a, <1>d, <1>1 DEF PoolTypeOK
      <3> QED
        BY <1>a, <2>2, <2>3, <3>1, <3>2, <3>3 DEF OpenIsOwned
    <2> QED
      BY <2>4, <2>5, <2>6, <2>7 DEF ShapeInv
  \* A thread moves and keeps what it has.
  <1>2. ASSUME NEW t \in Threads, NEW l \in Places, MoveTo(t, l), (l \in Holding) <=> (place[t] \in Holding),
               UNCHANGED <<idle, open, held, closer>>, created' \in Int, active' \in Int,
               calls' \in 0..MaxCalls
        PROVE  ShapeInv'
    <2>1. place'[t] = l /\ \A u \in Threads : u # t => place'[u] = place[u]
      BY <1>a, <1>2, GotoMoves
    <2>2. PoolTypeOK'
      BY <1>a, <1>b, <1>2 DEF PoolTypeOK, MoveTo
    <2>3. Linked'
      BY <1>a, <1>2, <2>1 DEF Linked
    <2>4. OneUser' /\ QueuedIsOpen' /\ OpenIsOwned' /\ CloserSeen'
      BY <1>a, <1>c, <1>2 DEF OneUser, QueuedIsOpen, OpenIsOwned
    <2> QED
      BY <2>2, <2>3, <2>4 DEF ShapeInv
  \* A thread gives its connection up: to the queue, or closed.
  <1>3. ASSUME NEW t \in Threads, NEW l \in Places, MoveTo(t, l), l \notin Holding,
               Hold(t, NoConn), place[t] \in Holding,
               \/ idle' = idle \cup {held[t]} /\ held[t] \in open /\ open' = open
               \/ idle' = idle /\ open' = open \ {held[t]},
               created' \in Int, active' \in Int, UNCHANGED <<closer, calls>>
        PROVE  ShapeInv'
    <2>1. place'[t] = l /\ \A u \in Threads : u # t => place'[u] = place[u]
      BY <1>a, <1>3, GotoMoves
    <2>2. held'[t] = NoConn /\ \A u \in Threads : u # t => held'[u] = held[u]
      BY <1>a, <1>3, HoldMoves
    <2>3. held[t] \in Conns /\ held[t] # NoConn /\ held[t] \notin idle
      BY <1>a, <1>3 DEF PoolTypeOK, Linked, OneUser
    <2>4. PoolTypeOK'
      BY <1>a, <1>b, <1>3, <2>3 DEF PoolTypeOK, MoveTo, Hold
    <2>5. Linked'
      BY <1>a, <1>3, <2>1, <2>2 DEF Linked
    <2>6. OneUser'
      BY <1>a, <1>3, <2>2, <2>3 DEF OneUser
    <2>7. QueuedIsOpen' /\ CloserSeen'
      BY <1>a, <1>c, <1>3, <2>3 DEF QueuedIsOpen
    <2>8. OpenIsOwned'
      BY <1>a, <1>3, <2>2, <2>3 DEF OpenIsOwned
    <2> QED
      BY <2>4, <2>5, <2>6, <2>7, <2>8 DEF ShapeInv
  \* Connections that nobody holds are closed, counters move.
  <1>4. ASSUME UNCHANGED <<place, held>>, calls' = calls, created' \in Int, active' \in Int,
               closer' \in {"no", "drain", "zero"}, CloserSeen',
               \/ UNCHANGED <<idle, open>>
               \/ \E c \in idle : idle' = idle \ {c} /\ open' = open \ {c}
               \/ \E t \in Threads : held[t] # NoConn /\ idle' = idle /\ open' = open \ {held[t]}
        PROVE  ShapeInv'
    <2>1. PoolTypeOK'
      BY <1>a, <1>b, <1>4 DEF PoolTypeOK
    <2>2. Linked' /\ OneUser'
      BY <1>a, <1>4 DEF Linked, OneUser
    <2>3. QueuedIsOpen'
      BY <1>a, <1>4 DEF QueuedIsOpen, OneUser
    <2>4. OpenIsOwned'
      BY <1>a, <1>4 DEF OpenIsOwned
    <2> QED
      BY <1>4, <2>1, <2>2, <2>3, <2>4 DEF ShapeInv
  <1>t. created \in Int /\ active \in Int /\ calls \in 0..MaxCalls /\ created - 1 \in Int
        /\ created + 1 \in Int /\ active + 1 \in Int /\ active - 1 \in Int /\ 0 \in Int
    BY <1>a DEF PoolTypeOK
  <1>5. ASSUME NEW t \in Threads, Call(t) \/ Run(t) \/ Break(t) \/ Drop(t) PROVE ShapeInv'
    <2>1. CASE Call(t)
      <3>1. calls' \in 0..MaxCalls
        BY <1>t, <2>1, PoolAssumption DEF Call, PoolAssumption
      <3> QED
        BY <1>2, <1>t, <2>1, <3>1 DEF Call, Places, Holding
    <2>2. CASE Poll(t) \/ Wait(t)
      <3>1. CASE \E c \in Conns : Take(t, c)
        BY <1>1, <2>2, <3>1 DEF Poll, Wait, Holding
      <3>2. CASE Poll(t) /\ MoveTo(t, "decide") /\ UNCHANGED <<idle, held>>
        BY <1>2, <1>t, <2>2, <3>2 DEF Poll, Places, Holding
      <3> QED
        BY <2>2, <3>1, <3>2 DEF Poll, Wait
    <2>3. CASE Check(t)
      <3>1. CASE held[t] \in open
        BY <1>2, <1>t, <2>3, <3>1 DEF Check, Places, Holding
      <3>2. CASE held[t] \notin open
        <4>1. open \ {held[t]} = open
          BY <3>2
        <4> QED
          BY <1>3, <1>t, <2>3, <3>2, <4>1 DEF Check, Places, Holding
      <3> QED
        BY <3>1, <3>2
    <2>4. CASE Decide(t)
      BY <1>2, <1>t, <2>4 DEF Decide, Places, Holding
    <2>5. CASE Connect(t)
      <3>1. CASE \E c \in Unused : Hold(t, c) /\ open' = open \cup {c} /\ MoveTo(t, "use")
                                   /\ UNCHANGED <<created, active>>
        <4>1. PICK c \in Unused : Hold(t, c) /\ open' = open \cup {c} /\ MoveTo(t, "use")
          BY <3>1
        <4>2. c \in Conns /\ c \notin open /\ c \notin idle /\ \A u \in Threads : held[u] # c
          BY DEF Unused
        <4>3. place'[t] = "use" /\ \A u \in Threads : u # t => place'[u] = place[u]
          BY <1>a, <4>1, GotoMoves
        <4>4. held'[t] = c /\ \A u \in Threads : u # t => held'[u] = held[u]
          BY <1>a, <4>1, HoldMoves
        <4>5. idle' = idle /\ closer' = closer /\ calls' = calls /\ place[t] = "connect"
          BY <2>5 DEF Connect
        <4>6. PoolTypeOK'
          BY <1>a, <1>b, <3>1, <4>1, <4>2, <4>5 DEF PoolTypeOK, MoveTo, Hold, Places
        <4>7. Linked'
          BY <1>a, <1>d, <4>2, <4>3, <4>4 DEF Linked, Holding
        <4>8. OneUser' /\ QueuedIsOpen' /\ CloserSeen'
          BY <1>a, <1>c, <4>1, <4>2, <4>4, <4>5 DEF OneUser, QueuedIsOpen
        <4>9. OpenIsOwned'
          <5>1. held[t] = NoConn /\ NoConn \notin open
            BY <1>a, <1>d, <4>5 DEF Linked, Holding, PoolTypeOK
          <5> QED
            BY <1>a, <4>1, <4>4, <4>5, <5>1 DEF OpenIsOwned
        <4> QED
          BY <4>6, <4>7, <4>8, <4>9 DEF ShapeInv
      <3>2. CASE MoveTo(t, "out") /\ UNCHANGED <<open, held>> /\ created' \in Int /\ active' \in Int
        BY <1>2, <1>t, <2>5, <3>2 DEF Connect, Places, Holding
      <3> QED
        BY <1>t, <2>5, <3>1, <3>2 DEF Connect
    <2>6. CASE GiveBack(t)
      BY <1>2, <1>t, <2>6 DEF GiveBack, Places, Holding
    <2>7. CASE Return(t)
      BY <1>3, <1>t, <2>7 DEF Return, Places, Holding
    <2>8. CASE Break(t)
      <3>1. held[t] # NoConn
        BY <1>a, <2>8 DEF Break, Linked, Holding
      <3> QED
        BY <1>a, <1>c, <1>4, <1>t, <2>8, <3>1 DEF Break, PoolTypeOK
    <2>9. CASE Drop(t)
      BY <1>3, <1>t, <2>9 DEF Drop, Places, Holding
    <2> QED
      BY <1>5, <2>1, <2>2, <2>3, <2>4, <2>5, <2>6, <2>7, <2>8, <2>9 DEF Run
  <1>6. CASE ClosePool
    <2>1. CASE StartClose
      <3>1. ~NeverClosed'
        BY <1>a, <2>1, FaultMoves DEF StartClose, NeverClosed, Happened
      <3> QED
        BY <1>4, <1>t, <2>1, <3>1 DEF StartClose, CloserSeen
    <2>2. CASE CloseOne \/ ZeroCreated
      <3>1. CloserSeen'
        BY <1>a, <1>c, <2>2 DEF CloseOne, ZeroCreated
      <3> QED
        BY <1>a, <1>4, <1>t, <2>2, <3>1 DEF CloseOne, ZeroCreated, PoolTypeOK
    <2> QED
      BY <1>6, <2>1, <2>2 DEF ClosePool
  <1>7. CASE UNCHANGED poolVars
    BY <1>a, <1>7
    DEF poolVars, ShapeInv, PoolTypeOK, Linked, OneUser, QueuedIsOpen, OpenIsOwned, CloserSeen, NeverClosed,
        Happened
  <1> QED
    BY <1>5, <1>6, <1>7 DEF PoolNext

\* A connection has one user, and what lies in the queue is open, with any
\* number of threads and with close_pool running at any time.
THEOREM SingleUser == PoolSpec => [](OneUser /\ QueuedIsOpen)
  <1>1. ShapeInv => OneUser /\ QueuedIsOpen
    BY DEF ShapeInv
  <1> QED
    BY <1>1, ShapeInit, ShapeStep, PTL DEF PoolSpec

-----------------------------------------------------------------------------
(* The count.                                                              *)

LEMMA SlotsFinite ==
    ASSUME PoolTypeOK
    PROVE  /\ IsFiniteSet(SlotsInUse) /\ IsFiniteSet(idle) /\ IsFiniteSet(Busy) /\ IsFiniteSet(open)
           /\ Cardinality(SlotsInUse) \in Nat /\ Cardinality(idle) \in Nat /\ Cardinality(open) \in Nat
           /\ \A x \in SlotsInUse : x \in Conns \/ x \in Threads
  <1>1. IsFiniteSet(idle) /\ IsFiniteSet(open)
    BY FS_Subset, PoolAssumption DEF PoolTypeOK, PoolAssumption
  <1>2. IsFiniteSet(Busy)
    BY FS_Subset, PoolAssumption DEF Busy, PoolAssumption
  <1>3. IsFiniteSet(SlotsInUse)
    BY <1>1, <1>2, FS_Union DEF SlotsInUse
  <1> QED
    BY <1>1, <1>2, <1>3, FS_CardinalityType DEF SlotsInUse, PoolTypeOK, Busy

LEMMA CountSwap ==
    ASSUME NEW S, IsFiniteSet(S), NEW x \in S, NEW y, y \notin S
    PROVE  Cardinality((S \ {x}) \cup {y}) = Cardinality(S)
  <1>1. IsFiniteSet(S \ {x}) /\ Cardinality(S \ {x}) = Cardinality(S) - 1
    BY FS_RemoveElement
  <1>2. Cardinality((S \ {x}) \cup {y}) = Cardinality(S \ {x}) + 1
    BY <1>1, FS_AddElement
  <1> QED
    BY <1>1, <1>2, FS_CardinalityType

\* How the set of slots in use and the counter move together: by one slot and
\* one unit, by an interrupted connect, or by an exchange of two slots.
LEMMA CountMoves ==
    ASSUME ShapeInv, [PoolNext]_poolVars, NeverClosed'
    PROVE  \/ SlotsInUse' = SlotsInUse /\ created' = created /\ Leaked' = Leaked
           \/ /\ \E x \in SlotsInUse : \E y : y \notin SlotsInUse /\ SlotsInUse' = (SlotsInUse \ {x}) \cup {y}
              /\ created' = created /\ Leaked' = Leaked
           \/ /\ \E x : x \notin SlotsInUse /\ SlotsInUse' = SlotsInUse \cup {x}
              /\ created' = created + 1 /\ created < Size /\ Leaked' = Leaked
           \/ /\ \E x \in SlotsInUse : SlotsInUse' = SlotsInUse \ {x}
              /\ \/ created' = created - 1 /\ Leaked' = Leaked
                 \/ created' = created /\ Leaked' = Leaked + 1
  <1>a. PoolTypeOK /\ Linked /\ OneUser /\ QueuedIsOpen /\ CloserSeen
    BY DEF ShapeInv
  <1>b. NeverClosed /\ closer = "no"
    BY <1>a, FaultsGrow DEF CloserSeen
  <1>c. faults' = faults => Leaked' = Leaked
    BY DEF Leaked
  <1>d. \A f \in Faults : f # "interrupt" /\ Fault(f) => Leaked' = Leaked
    BY <1>a, FaultMoves DEF Leaked
  <1>e. \A f \in Faults : RollsBack /\ Fault(f) => Leaked' = Leaked
    BY DEF Leaked
  <1>f. ~RollsBack /\ Fault("interrupt") => Leaked' = Leaked + 1
    BY <1>a, FaultMoves DEF Leaked
  <1>g. \A t \in Threads : t \notin idle
    BY <1>a, PoolAssumption DEF PoolTypeOK, PoolAssumption
  <1>s. ASSUME NEW t \in Threads, NEW l, MoveTo(t, l), idle' = idle,
               (l \in Holding \cup {"connect"}) <=> (place[t] \in Holding \cup {"connect"})
        PROVE  SlotsInUse' = SlotsInUse
    <2>1. place'[t] = l /\ \A u \in Threads : u # t => place'[u] = place[u]
      BY <1>a, <1>s, GotoMoves
    <2> QED
      BY <1>s, <2>1 DEF SlotsInUse, Busy
  <1>n. ASSUME NEW t \in Threads, NEW l, MoveTo(t, l), idle' = idle,
               l \in Holding \cup {"connect"}, place[t] \notin Holding \cup {"connect"}
        PROVE  t \notin SlotsInUse /\ SlotsInUse' = SlotsInUse \cup {t}
    <2>1. place'[t] = l /\ \A u \in Threads : u # t => place'[u] = place[u]
      BY <1>a, <1>n, GotoMoves
    <2> QED
      BY <1>g, <1>n, <2>1 DEF SlotsInUse, Busy
  <1>x. ASSUME NEW t \in Threads, NEW l, MoveTo(t, l), idle' = idle,
               l \notin Holding \cup {"connect"}, place[t] \in Holding \cup {"connect"}
        PROVE  t \in SlotsInUse /\ SlotsInUse' = SlotsInUse \ {t}
    <2>1. place'[t] = l /\ \A u \in Threads : u # t => place'[u] = place[u]
      BY <1>a, <1>x, GotoMoves
    <2> QED
      BY <1>g, <1>x, <2>1 DEF SlotsInUse, Busy
  <1>1. ASSUME NEW t \in Threads, Call(t) \/ GiveBack(t)
        PROVE  SlotsInUse' = SlotsInUse /\ created' = created /\ Leaked' = Leaked
    BY <1>c, <1>s, <1>1 DEF Call, GiveBack, Holding, NoFault
  <1>2. ASSUME NEW t \in Threads, NEW c \in Conns, Take(t, c), place[t] \in {"poll", "wait"}
        PROVE  \E x \in SlotsInUse : \E y : y \notin SlotsInUse /\ SlotsInUse' = (SlotsInUse \ {x}) \cup {y}
    <2>1. place'[t] = "check" /\ \A u \in Threads : u # t => place'[u] = place[u]
      BY <1>a, <1>2, GotoMoves DEF Take
    <2>2. c \in idle /\ idle' = idle \ {c} /\ c \notin Threads
      BY <1>2, PoolAssumption DEF Take, PoolAssumption
    <2>3. t \notin SlotsInUse
      BY <1>2, <1>g DEF SlotsInUse, Busy, Holding
    <2>4. SlotsInUse' = (SlotsInUse \ {c}) \cup {t}
      BY <1>2, <2>1, <2>2 DEF SlotsInUse, Busy, Holding
    <2> QED
      BY <2>2, <2>3, <2>4 DEF SlotsInUse
  <1>3. ASSUME NEW t \in Threads, Poll(t) \/ Wait(t)
        PROVE  /\ \/ SlotsInUse' = SlotsInUse
                  \/ \E x \in SlotsInUse : \E y : y \notin SlotsInUse /\ SlotsInUse' = (SlotsInUse \ {x}) \cup {y}
               /\ created' = created /\ Leaked' = Leaked
    <2>1. created' = created /\ Leaked' = Leaked
      BY <1>3, <1>c DEF Poll, Wait, NoFault
    <2>2. CASE \E c \in Conns : Take(t, c)
      BY <1>2, <1>3, <2>1, <2>2 DEF Poll, Wait
    <2>3. CASE place[t] = "poll" /\ MoveTo(t, "decide") /\ idle' = idle
      BY <1>s, <2>1, <2>3 DEF Holding
    <2> QED
      BY <1>3, <2>2, <2>3 DEF Poll, Wait
  <1>4. ASSUME NEW t \in Threads, Check(t)
        PROVE  /\ \/ SlotsInUse' = SlotsInUse /\ created' = created
                  \/ t \in SlotsInUse /\ SlotsInUse' = SlotsInUse \ {t} /\ created' = created - 1
               /\ Leaked' = Leaked
    BY <1>4, <1>c, <1>s, <1>x DEF Check, Holding, NoFault
  <1>5. ASSUME NEW t \in Threads, Decide(t)
        PROVE  /\ \/ SlotsInUse' = SlotsInUse /\ created' = created
                  \/ t \notin SlotsInUse /\ SlotsInUse' = SlotsInUse \cup {t} /\ created' = created + 1
                     /\ created < Size
               /\ Leaked' = Leaked
    BY <1>5, <1>c, <1>s, <1>n DEF Decide, Holding, NoFault
  <1>6. ASSUME NEW t \in Threads, Connect(t)
        PROVE  \/ SlotsInUse' = SlotsInUse /\ created' = created /\ Leaked' = Leaked
               \/ /\ t \in SlotsInUse /\ SlotsInUse' = SlotsInUse \ {t}
                  /\ \/ created' = created - 1 /\ Leaked' = Leaked
                     \/ created' = created /\ Leaked' = Leaked + 1
    <2>1. place[t] = "connect" /\ idle' = idle
      BY <1>6 DEF Connect
    <2>2. CASE MoveTo(t, "use") /\ NoFault /\ created' = created
      BY <1>c, <1>s, <2>1, <2>2 DEF NoFault, Holding
    <2>3. CASE MoveTo(t, "out")
      <3>1. t \in SlotsInUse /\ SlotsInUse' = SlotsInUse \ {t}
        BY <1>x, <2>1, <2>3 DEF Holding
      <3>2. Fault("connect") => "connect" \in Faults
        BY DEF Fault
      <3>3. Fault("interrupt") => "interrupt" \in Faults
        BY DEF Fault
      <3>4. MoveTo(t, "use") => FALSE
        BY <1>a, <2>3, GotoMoves
      <3>5. \/ (Fault("connect") \/ (RollsBack /\ Fault("interrupt"))) /\ created' = created - 1
            \/ ~RollsBack /\ Fault("interrupt") /\ created' = created
        BY <1>6, <3>4 DEF Connect
      <3> QED
        BY <1>d, <1>e, <1>f, <3>1, <3>2, <3>3, <3>5
    <2> QED
      BY <1>6, <2>2, <2>3 DEF Connect
  <1>7. ASSUME NEW t \in Threads, Return(t)
        PROVE  /\ \/ /\ \E x \in SlotsInUse : \E y : y \notin SlotsInUse /\ SlotsInUse' = (SlotsInUse \ {x}) \cup {y}
                     /\ created' = created
                  \/ t \in SlotsInUse /\ SlotsInUse' = SlotsInUse \ {t} /\ created' = created - 1
               /\ Leaked' = Leaked
    <2>1. Leaked' = Leaked /\ place[t] = "return" /\ MoveTo(t, "out")
      BY <1>7, <1>c DEF Return, NoFault
    <2>2. CASE idle' = idle \cup {held[t]} /\ created' = created
      <3>1. place'[t] = "out" /\ \A u \in Threads : u # t => place'[u] = place[u]
        BY <1>a, <2>1, GotoMoves
      <3>2. held[t] \in Conns /\ held[t] \notin idle
        BY <1>a, <2>1 DEF PoolTypeOK, Linked, OneUser, Holding
      <3>3. held[t] \notin Threads
        BY <3>2, PoolAssumption DEF PoolAssumption
      <3>4. t \in SlotsInUse /\ held[t] \notin SlotsInUse
        BY <2>1, <3>2, <3>3 DEF SlotsInUse, Busy, Holding
      <3>5. SlotsInUse' = (SlotsInUse \ {t}) \cup {held[t]}
        BY <1>g, <2>1, <2>2, <3>1, <3>3 DEF SlotsInUse, Busy, Holding
      <3> QED
        BY <2>1, <2>2, <3>4, <3>5
    <2>3. CASE idle' = idle /\ created' = created - 1
      BY <1>x, <2>1, <2>3 DEF Holding
    <2> QED
      BY <1>7, <2>2, <2>3 DEF Return
  <1>8. ASSUME NEW t \in Threads, Break(t)
        PROVE  SlotsInUse' = SlotsInUse /\ created' = created /\ Leaked' = Leaked
    <2>1. idle' = idle /\ place' = place /\ created' = created
      BY <1>8 DEF Break
    <2>2. Fault("break") /\ "break" \in Faults
      BY <1>8 DEF Break, Fault
    <2> QED
      BY <1>d, <2>1, <2>2 DEF SlotsInUse, Busy
  <1>9. ASSUME NEW t \in Threads, Drop(t)
        PROVE  t \in SlotsInUse /\ SlotsInUse' = SlotsInUse \ {t} /\ created' = created - 1 /\ Leaked' = Leaked
    <2>1. idle' = idle /\ place[t] = "use" /\ MoveTo(t, "out") /\ created' = created - 1
      BY <1>9 DEF Drop
    <2>2. Fault("cancel") /\ "cancel" \in Faults
      BY <1>9 DEF Drop, Fault
    <2> QED
      BY <1>d, <1>x, <2>1, <2>2 DEF Holding
  <1>10. ~ClosePool
    <2>1. ~StartClose
      BY <1>a, FaultMoves DEF StartClose, NeverClosed, Happened
    <2> QED
      BY <1>b, <2>1 DEF ClosePool, CloseOne, ZeroCreated
  <1>11. CASE UNCHANGED poolVars
    BY <1>c, <1>11 DEF poolVars, SlotsInUse, Busy
  <1>12. CASE \E t \in Threads : Call(t) \/ Run(t) \/ Break(t) \/ Drop(t)
    BY <1>1, <1>3, <1>4, <1>5, <1>6, <1>7, <1>8, <1>9, <1>12 DEF Run
  <1> QED
    BY <1>10, <1>11, <1>12 DEF PoolNext

CountInv == CountedExactly /\ (NeverClosed => created <= Size)

LEMMA LeakedType == ASSUME PoolTypeOK PROVE Leaked \in Nat
  BY PoolAssumption DEF PoolTypeOK, Leaked, PoolAssumption

LEMMA CountStep == ShapeInv /\ CountInv /\ [PoolNext]_poolVars => CountInv'
  <1> SUFFICES ASSUME ShapeInv, CountInv, [PoolNext]_poolVars, NeverClosed'
               PROVE  created' = Cardinality(SlotsInUse)' + Leaked' /\ created' <= Size
    BY DEF CountInv, CountedExactly
  <1>1. PoolTypeOK /\ PoolTypeOK'
    BY ShapeStep DEF ShapeInv
  <1>2. created = Cardinality(SlotsInUse) + Leaked /\ created <= Size
    BY <1>1, FaultsGrow DEF CountInv, CountedExactly
  <1>3. IsFiniteSet(SlotsInUse) /\ Cardinality(SlotsInUse) \in Nat /\ Leaked \in Nat /\ created \in Int
    BY <1>1, SlotsFinite, LeakedType DEF PoolTypeOK
  <1>4. Cardinality(SlotsInUse)' = Cardinality(SlotsInUse')
    OBVIOUS
  <1>5. Size \in Nat
    BY PoolAssumption DEF PoolAssumption
  <1>6. CASE SlotsInUse' = SlotsInUse /\ created' = created /\ Leaked' = Leaked
    BY <1>2, <1>6
  <1>7. CASE /\ \E x \in SlotsInUse : \E y : y \notin SlotsInUse /\ SlotsInUse' = (SlotsInUse \ {x}) \cup {y}
             /\ created' = created /\ Leaked' = Leaked
    BY <1>2, <1>3, <1>7, CountSwap
  <1>8. CASE /\ \E x : x \notin SlotsInUse /\ SlotsInUse' = SlotsInUse \cup {x}
             /\ created' = created + 1 /\ created < Size /\ Leaked' = Leaked
    <2>1. Cardinality(SlotsInUse') = Cardinality(SlotsInUse) + 1
      BY <1>3, <1>8, FS_AddElement
    <2> QED
      BY <1>2, <1>3, <1>5, <1>8, <2>1
  <1>9. CASE /\ \E x \in SlotsInUse : SlotsInUse' = SlotsInUse \ {x}
             /\ \/ created' = created - 1 /\ Leaked' = Leaked
                \/ created' = created /\ Leaked' = Leaked + 1
    <2>1. Cardinality(SlotsInUse') = Cardinality(SlotsInUse) - 1
      BY <1>3, <1>9, FS_RemoveElement
    <2> QED
      BY <1>2, <1>3, <1>5, <1>9, <2>1
  <1> QED
    BY <1>6, <1>7, <1>8, <1>9, CountMoves

LEMMA CountInit == PoolInit => CountInv
  <1> SUFFICES ASSUME PoolInit PROVE CountInv
    OBVIOUS
  <1>1. SlotsInUse = {} /\ created = 0
    BY DEF PoolInit, SlotsInUse, Busy, Holding
  <1>2. Leaked = 0
    BY DEF PoolInit, Leaked
  <1> QED
    BY <1>1, <1>2, FS_EmptySet, PoolAssumption DEF CountInv, CountedExactly, PoolAssumption

\* Until somebody calls close_pool, _POOL_CREATED is the number of slots in use
\* plus the slots that interrupted connects never gave back.
THEOREM Counted == PoolSpec => []CountedExactly
  <1>1. CountInv => CountedExactly
    BY DEF CountInv
  <1> QED
    BY <1>1, ShapeInit, ShapeStep, CountInit, CountStep, PTL DEF PoolSpec

LEMMA OpenFitsSlots == ShapeInv => Cardinality(open) <= Cardinality(SlotsInUse)
  <1> SUFFICES ASSUME ShapeInv PROVE Cardinality(open) <= Cardinality(SlotsInUse)
    OBVIOUS
  <1>1. PoolTypeOK /\ Linked /\ OneUser /\ OpenIsOwned
    BY DEF ShapeInv
  <1>2. IsFiniteSet(SlotsInUse)
    BY <1>1, SlotsFinite
  <1> DEFINE holder(c) == CHOOSE t \in Threads : held[t] = c
             slot == [c \in open |-> IF c \in idle THEN c ELSE holder(c)]
  <1>3. ASSUME NEW c \in open, c \notin idle
        PROVE  holder(c) \in Busy /\ held[holder(c)] = c
    <2>1. holder(c) \in Threads /\ held[holder(c)] = c
      BY <1>1, <1>3 DEF OpenIsOwned
    <2>2. c # NoConn
      BY <1>1, PoolAssumption DEF PoolTypeOK, PoolAssumption
    <2> QED
      BY <1>1, <2>1, <2>2 DEF Linked, Busy
  <1>4. slot \in [open -> SlotsInUse]
    BY <1>3 DEF SlotsInUse
  <1>5. ASSUME NEW c \in open, NEW d \in open, slot[c] = slot[d] PROVE c = d
    <2>1. \A t \in Busy : t \notin idle
      BY <1>1, PoolAssumption DEF PoolTypeOK, Busy, PoolAssumption
    <2>2. CASE c \in idle /\ d \in idle
      BY <1>5, <2>2
    <2>3. CASE c \notin idle /\ d \notin idle
      <3>1. holder(c) = holder(d)
        BY <1>5, <2>3
      <3> HIDE DEF holder
      <3> QED
        BY <1>3, <2>3, <3>1
    <2>4. CASE ~(c \in idle <=> d \in idle)
      <3> HIDE DEF holder
      <3> QED
        BY <1>3, <1>5, <2>1, <2>4
    <2> QED
      BY <2>2, <2>3, <2>4
  <1>6. slot \in Injection(open, SlotsInUse)
    <2> HIDE DEF slot
    <2> QED
      BY <1>4, <1>5 DEF Injection, IsInjective
  <1> HIDE DEF slot
  <1> QED
    BY <1>2, <1>6, FS_Injection

\* The database server never sees more connections of this pool than its size,
\* however many threads race for a slot.
THEOREM ServerStaysBounded == PoolSpec => []ServerBounded
  <1>1. ShapeInv /\ CountInv => ServerBounded
    <2> SUFFICES ASSUME ShapeInv, CountInv, NeverClosed PROVE Cardinality(open) <= Size
      BY DEF ServerBounded
    <2>1. PoolTypeOK
      BY DEF ShapeInv
    <2>2. Cardinality(open) \in Nat /\ Cardinality(SlotsInUse) \in Nat /\ Leaked \in Nat
      BY <2>1, SlotsFinite, LeakedType
    <2>3. Size \in Nat
      BY PoolAssumption DEF PoolAssumption
    <2> QED
      BY <2>2, <2>3, OpenFitsSlots DEF CountInv, CountedExactly
  <1> QED
    BY <1>1, ShapeInit, ShapeStep, CountInit, CountStep, PTL DEF PoolSpec

LEMMA RoomFollows == ShapeInv /\ CountInv => RoomToReturn
  <1> SUFFICES ASSUME ShapeInv, CountInv, NeverClosed, NEW t \in Threads, place[t] = "return"
               PROVE  Cardinality(idle) < QueueSize
    BY DEF RoomToReturn
  <1>1. PoolTypeOK
    BY DEF ShapeInv
  <1>2. IsFiniteSet(idle) /\ Cardinality(idle) \in Nat /\ Cardinality(SlotsInUse) \in Nat
        /\ IsFiniteSet(SlotsInUse) /\ Leaked \in Nat
    BY <1>1, SlotsFinite, LeakedType
  <1>3. t \notin idle
    BY <1>1, PoolAssumption DEF PoolTypeOK, PoolAssumption
  <1>4. Cardinality(idle \cup {t}) = Cardinality(idle) + 1
    BY <1>2, <1>3, FS_AddElement
  <1>5. (idle \cup {t}) \in SUBSET SlotsInUse
    BY DEF SlotsInUse, Busy, Holding
  <1>6. Cardinality(idle \cup {t}) <= Cardinality(SlotsInUse)
    BY <1>2, <1>5, FS_Subset
  <1> QED
    BY <1>2, <1>4, <1>6, PoolAssumption DEF CountInv, CountedExactly, PoolAssumption

\* A healthy connection is never closed for want of room in the queue.
THEOREM HealthyKept == PoolSpec => []RoomToReturn
  BY RoomFollows, ShapeInit, ShapeStep, CountInit, CountStep, PTL DEF PoolSpec

-----------------------------------------------------------------------------
(* Waiting threads.                                                        *)

WakeInv ==
    ~SlotFreed => /\ \A t \in Threads : held[t] # NoConn => held[t] \in open
                  /\ \A t \in Threads : place[t] = "wait" => created >= Size

LEMMA WakeStep == ShapeInv /\ CountInv /\ WakeInv /\ [PoolNext]_poolVars => WakeInv'
  <1> SUFFICES ASSUME ShapeInv, CountInv, WakeInv, [PoolNext]_poolVars, ~SlotFreed'
               PROVE  /\ \A t \in Threads : held'[t] # NoConn => held'[t] \in open'
                      /\ \A t \in Threads : place'[t] = "wait" => created' >= Size
    BY DEF WakeInv
  <1>a. PoolTypeOK /\ Linked /\ OneUser /\ QueuedIsOpen /\ CloserSeen
    BY DEF ShapeInv
  <1>b. ~SlotFreed /\ \A f : ~Fault(f)
    BY <1>a, FaultsGrow, FaultMoves DEF SlotFreed
  <1>c. NeverClosed /\ closer = "no"
    BY <1>a, <1>b, FaultsGrow DEF CloserSeen, SlotFreed, NeverClosed, Happened
  <1>d. /\ \A t \in Threads : held[t] # NoConn => held[t] \in open
        /\ \A t \in Threads : place[t] = "wait" => created >= Size
    BY <1>b DEF WakeInv
  <1>e. created \in Int /\ Size \in Nat
    BY <1>a, PoolAssumption DEF PoolTypeOK, PoolAssumption
  <1>s. ASSUME NEW t \in Threads, NEW l, MoveTo(t, l), l = "wait" => created >= Size, created' >= created,
               created' \in Int
        PROVE  \A u \in Threads : place'[u] = "wait" => created' >= Size
    <2>1. place'[t] = l /\ \A u \in Threads : u # t => place'[u] = place[u]
      BY <1>a, <1>s, GotoMoves
    <2> QED
      BY <1>d, <1>e, <1>s, <2>1
  <1>h. ASSUME NEW t \in Threads, NEW c, Hold(t, c), c = NoConn \/ c \in open', open \subseteq open'
        PROVE  \A u \in Threads : held'[u] # NoConn => held'[u] \in open'
    BY <1>a, <1>d, <1>h, HoldMoves
  <1>1. ASSUME NEW t \in Threads, Call(t) \/ GiveBack(t) PROVE WakeInv'
    BY <1>d, <1>e, <1>1, <1>s DEF Call, GiveBack, WakeInv
  <1>2. ASSUME NEW t \in Threads, Poll(t) \/ Wait(t) PROVE WakeInv'
    <2>1. open' = open /\ created' = created
      BY <1>2 DEF Poll, Wait
    <2>2. CASE \E c \in Conns : Take(t, c)
      BY <1>a, <1>e, <1>h, <1>s, <2>1, <2>2 DEF Take, QueuedIsOpen, WakeInv
    <2>3. CASE MoveTo(t, "decide") /\ held' = held
      BY <1>d, <1>e, <1>s, <2>1, <2>3 DEF WakeInv
    <2> QED
      BY <1>2, <2>2, <2>3 DEF Poll, Wait
  <1>3. ASSUME NEW t \in Threads, Check(t) PROVE WakeInv'
    <2>1. held[t] \in open
      BY <1>a, <1>d, <1>3 DEF Check, Linked, Holding
    <2> QED
      BY <1>d, <1>e, <1>s, <1>3, <2>1 DEF Check, WakeInv
  <1>4. ASSUME NEW t \in Threads, Decide(t) PROVE WakeInv'
    BY <1>d, <1>e, <1>s, <1>4 DEF Decide, WakeInv
  <1>5. ASSUME NEW t \in Threads, Connect(t) PROVE WakeInv'
    <2>1. PICK c \in Unused : Hold(t, c) /\ open' = open \cup {c} /\ MoveTo(t, "use")
                              /\ created' = created
      BY <1>b, <1>5 DEF Connect
    <2> QED
      BY <1>e, <1>h, <1>s, <2>1 DEF WakeInv
  <1>6. ASSUME NEW t \in Threads, Return(t) PROVE WakeInv'
    <2>1. held[t] \in open
      BY <1>a, <1>d, <1>6 DEF Return, Linked, Holding
    <2>2. Cardinality(idle) < QueueSize
      BY <1>c, <1>6, RoomFollows DEF RoomToReturn, Return
    <2>3. Hold(t, NoConn) /\ MoveTo(t, "out") /\ open' = open /\ created' = created
      BY <1>6, <2>1, <2>2 DEF Return
    <2> QED
      BY <1>e, <1>h, <1>s, <2>3 DEF WakeInv
  <1>7. ASSUME NEW t \in Threads PROVE ~Break(t) /\ ~Drop(t)
    BY <1>b DEF Break, Drop
  <1>8. ~ClosePool
    BY <1>b, <1>c DEF ClosePool, StartClose, CloseOne, ZeroCreated
  <1>9. CASE UNCHANGED poolVars
    BY <1>d, <1>9 DEF poolVars
  <1> QED
    BY <1>1, <1>2, <1>3, <1>4, <1>5, <1>6, <1>7, <1>8, <1>9 DEF PoolNext, Run, WakeInv

\* While every freed slot leaves a connection behind, a thread that waits on
\* the empty queue has somebody to wait for: nobody waits for ever on nobody.
THEOREM WaiterHasHope == PoolSpec => []WaiterCanWake
  <1>1. PoolInit => WakeInv
    BY DEF PoolInit, WakeInv
  <1>2. ShapeInv /\ CountInv /\ WakeInv => WaiterCanWake
    <2> SUFFICES ASSUME ShapeInv, CountInv, WakeInv, Size > 0, ~SlotFreed,
                        NEW t \in Threads, place[t] = "wait", idle = {}, Busy = {}
                 PROVE  FALSE
      BY DEF WaiterCanWake, Busy
    <2>1. PoolTypeOK
      BY DEF ShapeInv
    <2>2. NeverClosed /\ Leaked = 0
      BY <2>1, PoolAssumption DEF SlotFreed, NeverClosed, Happened, Leaked, PoolTypeOK, PoolAssumption
    <2>3. SlotsInUse = {}
      BY DEF SlotsInUse
    <2>4. created = 0
      BY <2>2, <2>3, FS_EmptySet DEF CountInv, CountedExactly
    <2>5. created >= Size
      BY DEF WakeInv
    <2> QED
      BY <2>4, <2>5, PoolAssumption DEF PoolAssumption
  <1> QED
    BY <1>1, <1>2, ShapeInit, ShapeStep, CountInit, CountStep, WakeStep, PTL DEF PoolSpec
===============================================================================
