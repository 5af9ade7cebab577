--------------------------- MODULE FallbackChainProofs ---------------------------
(***************************************************************************)
(* Theorems about FallbackChain, for any sources, keys, fields, timeouts   *)
(* and budget: the type invariant, the budget, the promise to the query,   *)
(* the priority of the sources, and that all of them have been asked when  *)
(* an answer is still incomplete.                                          *)
(***************************************************************************)
EXTENDS FallbackChain, TLAPS

-----------------------------------------------------------------------------
(* The merge.                                                              *)

LEMMA NotAbsent ==
    ASSUME NEW origins \in SUBSET (Sources \cup {Base}), NEW row \in Row(origins)
    PROVE  row # Absent /\ row \in Row(Sources \cup {Base})
BY DataAssumption DEF Row

LEMMA ItemsMonotone ==
    ASSUME NEW origins \in SUBSET (Sources \cup {Base}), NEW i \in ItemsOf(origins)
    PROVE  i \in Items
BY DEF Items, ItemsOf, Row

LEMMA NothingIsItems ==
    ASSUME NEW origins
    PROVE  Nothing \in ItemsOf(origins)
BY DEF Nothing, ItemsOf

\* The merge invents nothing.
LEMMA MergeType ==
    ASSUME NEW origins \in SUBSET (Sources \cup {Base}),
           NEW a \in ItemsOf(origins), NEW b \in ItemsOf(origins)
    PROVE  Merge(a, b) \in ItemsOf(origins)
<1> SUFFICES ASSUME NEW k \in Keys PROVE Merge(a, b)[k] \in Row(origins) \cup {Absent}
  BY DEF Merge, ItemsOf
<1>0. a[k] \in Row(origins) \cup {Absent} /\ b[k] \in Row(origins) \cup {Absent}
  BY DEF ItemsOf
<1>1. CASE b[k] = Absent \/ a[k] = Absent
  BY <1>0, <1>1 DEF Merge
<1>2. CASE b[k] # Absent /\ a[k] # Absent
  <2>1. Merge(a, b)[k] = [f \in Fields |-> IF a[k][f] = None THEN b[k][f] ELSE a[k][f]]
    BY <1>2 DEF Merge
  <2>2. a[k] \in Row(origins) /\ b[k] \in Row(origins)
    BY <1>0, <1>2
  <2> QED BY <2>1, <2>2 DEF Row
<1> QED BY <1>1, <1>2

\* A field of the merge is that of the first list, or else that of the second;
\* a row is there if one of them has it.
LEMMA MergeCell ==
    ASSUME NEW a \in Items, NEW b \in Items, NEW k \in Keys, NEW f \in Fields
    PROVE  /\ Cell(Merge(a, b), k, f) = IF Cell(a, k, f) # None THEN Cell(a, k, f) ELSE Cell(b, k, f)
           /\ Merge(a, b)[k] = Absent <=> a[k] = Absent /\ b[k] = Absent
<1>1. CASE b[k] = Absent \/ a[k] = Absent
  BY <1>1 DEF Merge, Cell
<1>2. CASE b[k] # Absent /\ a[k] # Absent
  <2>1. Merge(a, b)[k] = [g \in Fields |-> IF a[k][g] = None THEN b[k][g] ELSE a[k][g]]
    BY <1>2 DEF Merge
  <2>2. Merge(a, b)[k] # Absent
    <3>1. a[k] \in Row(Sources \cup {Base}) /\ b[k] \in Row(Sources \cup {Base})
      BY <1>2 DEF Items, ItemsOf
    <3>2. Merge(a, b)[k] \in Row(Sources \cup {Base})
      BY <2>1, <3>1 DEF Row
    <3> QED BY <3>2, NotAbsent
  <2> QED BY <1>2, <2>1, <2>2 DEF Cell
<1> QED BY <1>1, <1>2

LEMMA MergeExtends ==
    ASSUME NEW a \in Items, NEW b \in Items
    PROVE  Extends(Merge(a, b), a)
<1> SUFFICES ASSUME NEW k \in Keys
             PROVE  /\ a[k] # Absent => Merge(a, b)[k] # Absent
                    /\ \A f \in Fields : Cell(a, k, f) # None => Cell(Merge(a, b), k, f) = Cell(a, k, f)
  BY DEF Extends
<1>1. a[k] # Absent => Merge(a, b)[k] # Absent
  <2>1. CASE Fields = {}
    BY <2>1, NotAbsent DEF Merge, Items, ItemsOf, Row
  <2>2. CASE Fields # {}
    BY <2>2, MergeCell
  <2> QED BY <2>1, <2>2
<1> QED BY <1>1, MergeCell

LEMMA ExtendsTransitive ==
    ASSUME NEW a, NEW b, NEW c, Extends(b, a), Extends(c, b)
    PROVE  Extends(c, a)
BY DEF Extends

LEMMA ExtendsItself ==
    ASSUME NEW a
    PROVE  Extends(a, a)
BY DEF Extends

-----------------------------------------------------------------------------
(* Types.                                                                  *)

LEMMA AnswersAreItems ==
    ASSUME NEW s \in Sources, NEW i \in Answers(s)
    PROVE  i \in Items
BY ItemsMonotone DEF Answers

LEMMA RequestsType ==
    ASSUME NEW i
    PROVE  Requests(i) \subseteq SUBSET Keys
<1>1. Missing(i) \subseteq Keys
  BY DEF Missing
<1>2. CASE Builder = "each"
  BY <1>1, <1>2 DEF Requests
<1>3. CASE Builder = "all"
  BY <1>1, <1>3 DEF Requests
<1>4. CASE Builder = "empty"
  BY <1>4 DEF Requests
<1> QED BY <1>2, <1>3, <1>4, StrategyAssumption DEF StrategyAssumption

LEMMA CurrentType ==
    ASSUME TypeOK, at <= Len(Order)
    PROVE  /\ at \in DOMAIN Order /\ Current \in Sources
           /\ Timeout[Current] \in Nat \ {0}
BY OrderAssumption, TimeAssumption DEF OrderAssumption, TimeAssumption, TypeOK, Current

\* Every request of a step belongs to a source of the chain.
Located == pc = "fetch" => at <= Len(Order)

\* The state is well typed throughout: in particular, a source is only known to
\* have given its own values (executor.py, the whole chain).
LEMMA FetchTypes ==
    ASSUME TypeOK, Located, FetchOk
    PROVE  TypeOK' /\ Located'
<1>1. at <= Len(Order) /\ Current \in Sources /\ Timeout[Current] \in Nat
  BY CurrentType DEF Located, FetchOk
<1>2. Limit \in Int
  BY <1>1, TimeAssumption DEF Limit, TimeAssumption, TypeOK
<1>3. PICK r \in todo, d \in 0..Limit, answer \in Answers(Current), m \in Marks :
          /\ todo' = todo \ {r}
          /\ spent' = spent + d
          /\ heard' = [heard EXCEPT ![Current] = Merge(@, answer)]
          /\ mark' = [mark EXCEPT ![Current] = IF m > @ THEN m ELSE @]
          /\ IF Racing THEN UNCHANGED <<items, hits>>
             ELSE items' = Merge(items, answer) /\ hits' = Credit(answer)
  BY DEF FetchOk
<1>4. heard' \in [Sources -> Items] /\ \A s \in Sources : heard'[s] \in Answers(s)
  <2>1. Merge(heard[Current], answer) \in Answers(Current)
    BY <1>1, MergeType DEF Answers, TypeOK
  <2>2. Merge(heard[Current], answer) \in Items
    BY <1>1, <2>1, AnswersAreItems
  <2> QED BY <1>3, <2>1, <2>2 DEF TypeOK
<1>5. items' \in Items
  <2>1. answer \in Items
    BY <1>1, AnswersAreItems
  <2>2. Merge(items, answer) \in Items
    BY <2>1, MergeType DEF TypeOK, Items
  <2> QED BY <1>3, <2>2 DEF TypeOK
<1>6. hits' \subseteq Sources
  BY <1>1, <1>3 DEF Credit, TypeOK
<1>7. mark' \in [Sources -> Nat]
  BY <1>1, <1>3, TimeAssumption DEF TypeOK, TimeAssumption
<1>8. spent' \in Nat /\ todo' \subseteq SUBSET Keys
  BY <1>2, <1>3 DEF TypeOK
<1> QED BY <1>1, <1>4, <1>5, <1>6, <1>7, <1>8 DEF TypeOK, Located, FetchOk

LEMMA FinishTypes ==
    ASSUME TypeOK, Finish
    PROVE  items' \in Items /\ hits' \subseteq Sources
<1>0. Valid \subseteq Sources /\ base \in Items
  BY ItemsMonotone DEF Valid, TypeOK
<1>1. CASE strategy = "priority_fallback"
  BY <1>1 DEF Finish, TypeOK
<1>2. CASE strategy = "append_dedupe"
  BY <1>0, <1>2 DEF Finish, AdoptAll, TypeOK
<1>3. CASE strategy = "field_consensus"
  <2>1. PICK choice \in Consensus : items' = Merge(base, choice) /\ hits' = Valid
    BY <1>3 DEF Finish, AdoptConsensus
  <2>2. choice \in Items
    BY <1>0, ItemsMonotone DEF Consensus
  <2> QED BY <1>0, <2>1, <2>2, MergeType DEF Items
<1>4. CASE strategy \notin {"priority_fallback", "append_dedupe", "field_consensus"}
  <2>1. AdoptBest
    BY <1>4 DEF Finish
  <2>2. CASE Valid = {}
    BY <1>0, <2>1, <2>2 DEF AdoptBest
  <2>3. CASE Valid # {}
    <3>1. PICK best \in Best : items' = Merge(base, heard[best]) /\ hits' = {best}
      BY <2>1, <2>3 DEF AdoptBest
    <3>2. best \in Sources
      BY <1>0 DEF Best, FirstOf, Latest
    <3> QED BY <1>0, <3>1, <3>2, MergeType DEF Items, TypeOK
  <2> QED BY <2>2, <2>3
<1> QED BY <1>1, <1>2, <1>3, <1>4

LEMMA TypeStep == TypeOK /\ Located /\ [Next]_vars => TypeOK' /\ Located'
<1> SUFFICES ASSUME TypeOK, Located, [Next]_vars
             PROVE  TypeOK' /\ Located'
  OBVIOUS
<1>1. CASE Ask
  <2>1. Current \in Sources
    BY <1>1, CurrentType DEF Ask
  <2>2. Requests(items) \subseteq SUBSET Keys
    BY RequestsType
  <2> QED BY <1>1, <2>1, <2>2 DEF Ask, TypeOK, Located
<1>2. CASE NoMoreSteps
  BY <1>2 DEF NoMoreSteps, TypeOK, Located
<1>3. CASE FetchOk
  BY <1>3, FetchTypes
<1>4. CASE FetchFails
  <2>1. Limit \in Int
    BY <1>4, CurrentType, TimeAssumption DEF Limit, TimeAssumption, TypeOK, FetchFails, Located
  <2>2. spent' \in Nat /\ todo' \subseteq SUBSET Keys
    BY <1>4, <2>1 DEF FetchFails, TypeOK
  <2> QED BY <1>4, <2>2 DEF FetchFails, TypeOK, Located
<1>5. CASE FetchRefused
  BY <1>5 DEF FetchRefused, TypeOK, Located
<1>6. CASE EndStep
  <2>1. Current \in Sources /\ at <= Len(Order)
    BY <1>6, CurrentType DEF EndStep, Located
  <2>2. Merge(items, heard[Current]) \in Items
    BY <2>1, MergeType DEF TypeOK, Items
  <2>3. at' \in 1..Len(Order) + 1
    BY <1>6, <2>1, OrderAssumption DEF EndStep, TypeOK, OrderAssumption
  <2> QED BY <1>6, <2>2, <2>3 DEF EndStep, TypeOK, Located
<1>7. CASE Finish
  BY <1>7, FinishTypes DEF Finish, TypeOK, Located
<1>8. CASE UNCHANGED vars
  BY <1>8 DEF vars, TypeOK, Located
<1> QED BY <1>1, <1>2, <1>3, <1>4, <1>5, <1>6, <1>7, <1>8 DEF Next

LEMMA TypeInit == Init => TypeOK /\ Located
<1> SUFFICES ASSUME Init PROVE TypeOK /\ Located
  OBVIOUS
<1>1. items \in Items
  BY ItemsMonotone DEF Init
<1>2. \A s \in Sources : Nothing \in Answers(s) /\ Nothing \in Items
  BY NothingIsItems DEF Answers, Items
<1>3. heard \in [Sources -> Items] /\ \A s \in Sources : heard[s] \in Answers(s)
  BY <1>2 DEF Init
<1>4. at \in 1..Len(Order) + 1
  BY OrderAssumption DEF OrderAssumption, Init
<1> QED BY <1>1, <1>3, <1>4 DEF Init, TypeOK, Located

THEOREM TypeCorrect == Spec => []TypeOK
<1>1. TypeOK /\ Located /\ [Next]_vars => TypeOK' /\ Located'
  BY TypeStep
<1> QED BY <1>1, TypeInit, PTL DEF Spec

-----------------------------------------------------------------------------
(* The budget.                                                             *)

\* However many providers are asked, fail or are waited for, the waiting for all
\* of them together stays within the budget of the capability (_merge_timeout
\* in provider_timeout/runtime.py).
THEOREM BudgetKept == Spec => []WithinBudget
<1>1. Init => WithinBudget
  BY TimeAssumption DEF Init, WithinBudget, TimeAssumption
<1>2. TypeOK /\ Located /\ WithinBudget /\ [Next]_vars => WithinBudget'
  <2> SUFFICES ASSUME TypeOK, Located, WithinBudget, [Next]_vars
               PROVE  WithinBudget'
    OBVIOUS
  <2>1. CASE FetchOk \/ FetchFails
    <3>1. PICK d \in 0..Limit : spent' = spent + d
      BY <2>1 DEF FetchOk, FetchFails
    <3>2. Timeout[Current] \in Nat
      BY <2>1, CurrentType DEF Located, FetchOk, FetchFails
    <3> QED BY <3>1, <3>2, TimeAssumption DEF Limit, WithinBudget, TypeOK, TimeAssumption
  <2>2. CASE UNCHANGED spent
    BY <2>2 DEF WithinBudget
  <2> QED BY <2>1, <2>2 DEF Next, Ask, NoMoreSteps, FetchRefused, EndStep, Finish, vars
<1> QED BY <1>1, <1>2, TypeInit, TypeStep, PTL DEF Spec

-----------------------------------------------------------------------------
(* The promise.                                                            *)

BaseKept == Extends(items, base)

LEMMA FinishKeeps ==
    ASSUME TypeOK, BaseKept, Finish
    PROVE  Extends(items', base)
<1>0. Valid \subseteq Sources /\ base \in Items
  BY ItemsMonotone DEF Valid, TypeOK
<1>1. CASE strategy \in {"priority_fallback", "append_dedupe"}
  BY <1>1 DEF Finish, AdoptAll, BaseKept
<1>2. CASE strategy = "field_consensus"
  <2>1. PICK choice \in Consensus : items' = Merge(base, choice) /\ hits' = Valid
    BY <1>2 DEF Finish, AdoptConsensus
  <2>2. choice \in Items
    BY <1>0, ItemsMonotone DEF Consensus
  <2> QED BY <1>0, <2>1, <2>2, MergeExtends
<1>3. CASE strategy \notin {"priority_fallback", "append_dedupe", "field_consensus"}
  <2>1. AdoptBest
    BY <1>3 DEF Finish
  <2>2. CASE Valid = {}
    BY <2>1, <2>2, ExtendsItself DEF AdoptBest
  <2>3. CASE Valid # {}
    <3>1. PICK best \in Best : items' = Merge(base, heard[best]) /\ hits' = {best}
      BY <2>1, <2>3 DEF AdoptBest
    <3>2. best \in Sources
      BY <1>0 DEF Best, FirstOf, Latest
    <3>3. heard[best] \in Items
      BY <3>2 DEF TypeOK
    <3> QED BY <1>0, <3>1, <3>3, MergeExtends
  <2> QED BY <2>2, <2>3
<1> QED BY <1>1, <1>2, <1>3

LEMMA BaseStep == TypeOK /\ Located /\ BaseKept /\ [Next]_vars => BaseKept'
<1> SUFFICES ASSUME TypeOK, Located, BaseKept, [Next]_vars
             PROVE  BaseKept'
  OBVIOUS
<1>1. base' = base
  BY DEF Next, vars, Ask, NoMoreSteps, FetchOk, FetchFails, FetchRefused, EndStep, Finish
<1>2. CASE FetchOk
  <2>1. PICK answer \in Answers(Current) : IF Racing THEN items' = items ELSE items' = Merge(items, answer)
    BY <1>2 DEF FetchOk
  <2>2. answer \in Items
    BY <1>2, <2>1, CurrentType, AnswersAreItems DEF FetchOk, Located
  <2>3. Extends(Merge(items, answer), items)
    BY <2>2, MergeExtends DEF TypeOK
  <2> QED BY <1>1, <2>1, <2>3, ExtendsTransitive DEF BaseKept
<1>3. CASE EndStep
  <2>1. Current \in Sources
    BY <1>3, CurrentType DEF EndStep, Located
  <2>2. heard[Current] \in Items /\ items \in Items
    BY <2>1 DEF TypeOK
  <2>3. Extends(Merge(items, heard[Current]), items)
    BY <2>2, MergeExtends
  <2> QED BY <1>1, <1>3, <2>3, ExtendsTransitive DEF BaseKept, EndStep
<1>4. CASE Finish
  BY <1>1, <1>4, FinishKeeps DEF BaseKept
<1>5. CASE items' = items
  BY <1>1, <1>5 DEF BaseKept
<1> QED BY <1>2, <1>3, <1>4, <1>5 DEF Next, vars, Ask, NoMoreSteps, FetchFails, FetchRefused

\* Under every strategy the chain does for the query what QueryPromise says: one
\* answer in which nothing that was there before is lost or replaced, whichever
\* sources fail (execute_capability_query relies on it when it completes a
\* partial hit of the cache).
THEOREM PromiseKept == Spec => KeepsPromise
<1>1. Init => Promise!Init /\ BaseKept
  BY ExtendsItself DEF Init, Promise!Init, Promise!ItemsOf, Promise!Row, ItemsOf, Row, BaseKept
<1>2. TypeOK /\ Located /\ BaseKept /\ [Next]_vars
      => [Promise!Answer]_<<base, IF pc = "done" THEN items ELSE base, pc = "done">>
  <2> SUFFICES ASSUME TypeOK, Located, BaseKept, [Next]_vars
               PROVE  [Promise!Answer]_<<base, IF pc = "done" THEN items ELSE base, pc = "done">>
    OBVIOUS
  <2>1. base' = base
    BY DEF Next, vars, Ask, NoMoreSteps, FetchOk, FetchFails, FetchRefused, EndStep, Finish
  <2>2. CASE Finish
    <3>1. Extends(items', base) /\ items' \in Items
      BY <2>2, FinishKeeps, FinishTypes
    <3>2. Promise!Extends(items', base) /\ items' \in Promise!Items
      BY <3>1 DEF Promise!Extends, Promise!Cell, Extends, Cell, Promise!Items, Promise!ItemsOf, Promise!Row, Items, ItemsOf, Row
    <3> QED BY <2>1, <2>2, <3>2 DEF Promise!Answer, Finish
  <2>3. CASE ~Finish
    BY <2>1, <2>3 DEF Next, vars, Ask, NoMoreSteps, FetchOk, FetchFails, FetchRefused, EndStep
  <2> QED BY <2>2, <2>3
<1>3. TypeOK /\ Located /\ BaseKept /\ [Next]_vars => TypeOK' /\ Located' /\ BaseKept'
  BY TypeStep, BaseStep
<1> QED BY <1>1, <1>2, <1>3, TypeInit, PTL DEF Spec, KeepsPromise, Promise!Spec

-----------------------------------------------------------------------------
(* The priority of the sources.                                            *)

\* Every field is from the first of base and the answers h that has it.
FromFirst(i, h) ==
    \A k \in Keys, f \in Fields :
        LET v == Cell(i, k, f)
        IN  /\ Cell(base, k, f) # None => v = Base
            /\ v \in Sources => /\ Cell(h[v], k, f) = v
                              /\ \A t \in Sources : Before(t, v) => Cell(h[t], k, f) = None
            /\ v = None => \A t \in Sources : Cell(h[t], k, f) = None

LEMMA AnswerCell ==
    ASSUME NEW s \in Sources, NEW i \in Answers(s), NEW k \in Keys, NEW f \in Fields
    PROVE  Cell(i, k, f) \in {None, s}
BY DEF Answers, ItemsOf, Row, Cell

LEMMA ItemsCell ==
    ASSUME NEW i \in Items, NEW k \in Keys, NEW f \in Fields
    PROVE  Cell(i, k, f) \in Sources \cup {Base, None}
BY DEF Items, ItemsOf, Row, Cell

LEMMA NothingCell ==
    ASSUME NEW k \in Keys, NEW f
    PROVE  Cell(Nothing, k, f) = None
BY DEF Nothing, Cell

LEMMA NotBeforeItself ==
    ASSUME NEW s
    PROVE  ~Before(s, s)
BY OrderAssumption DEF Before, OrderAssumption

\* Merging the next answer of a source keeps the priorities, as long as the
\* sources after it have not answered.
LEMMA MergeFromFirst ==
    ASSUME NEW i \in Items, NEW h \in [Sources -> Items], FromFirst(i, h),
           NEW s \in Sources, NEW answer \in Answers(s), h[s] \in Answers(s),
           \A t \in Sources : Before(s, t) => h[t] = Nothing
    PROVE  FromFirst(Merge(i, answer), [h EXCEPT ![s] = Merge(h[s], answer)])
<1> DEFINE j == Merge(i, answer)
           g == [h EXCEPT ![s] = Merge(h[s], answer)]
<1> SUFFICES ASSUME NEW k \in Keys, NEW f \in Fields
             PROVE  /\ Cell(base, k, f) # None => Cell(j, k, f) = Base
                    /\ Cell(j, k, f) \in Sources =>
                          /\ Cell(g[Cell(j, k, f)], k, f) = Cell(j, k, f)
                          /\ \A t \in Sources : Before(t, Cell(j, k, f)) => Cell(g[t], k, f) = None
                    /\ Cell(j, k, f) = None => \A t \in Sources : Cell(g[t], k, f) = None
  BY DEF FromFirst
<1> DEFINE v == Cell(i, k, f)
           w == Cell(answer, k, f)
<1>0. answer \in Items
  BY AnswersAreItems
<1>1. Cell(j, k, f) = IF v # None THEN v ELSE w
  BY <1>0, MergeCell
<1>2. w \in {None, s} /\ Cell(h[s], k, f) \in {None, s}
  BY AnswerCell
<1>3. /\ Cell(g[s], k, f) = IF Cell(h[s], k, f) # None THEN Cell(h[s], k, f) ELSE w
      /\ \A t \in Sources : t # s => g[t] = h[t]
  BY <1>0, MergeCell
<1>4. /\ Cell(base, k, f) # None => v = Base
      /\ v \in Sources => /\ Cell(h[v], k, f) = v
                        /\ \A t \in Sources : Before(t, v) => Cell(h[t], k, f) = None
      /\ v = None => \A t \in Sources : Cell(h[t], k, f) = None
  BY DEF FromFirst
<1>5. v \in Sources \cup {Base, None}
  BY ItemsCell
<1>6. Base # None /\ None \notin Sources /\ Base \notin Sources
  BY DataAssumption DEF DataAssumption
<1> HIDE DEF j, g, v, w
<1>7. CASE v # None
  <2>1. Cell(j, k, f) = v
    BY <1>1, <1>7
  <2>2. ASSUME v \in Sources
        PROVE  /\ Cell(g[v], k, f) = v
               /\ \A t \in Sources : Before(t, v) => Cell(g[t], k, f) = None
    <3>1. ~Before(s, v)
      <4> SUFFICES ASSUME Before(s, v) PROVE FALSE
        OBVIOUS
      <4>1. h[v] = Nothing
        BY <2>2
      <4> QED BY <4>1, <1>4, <1>6, <2>2, NothingCell
    <3>2. Cell(g[v], k, f) = v
      BY <1>2, <1>3, <1>4, <1>6, <2>2
    <3>3. ASSUME NEW t \in Sources, Before(t, v) PROVE Cell(g[t], k, f) = None
      BY <1>3, <1>4, <2>2, <3>1, <3>3
    <3> QED BY <3>2, <3>3
  <2> QED BY <1>4, <1>5, <1>7, <2>1, <2>2
<1>8. CASE v = None
  <2>1. Cell(j, k, f) = w /\ Cell(base, k, f) = None
    BY <1>1, <1>4, <1>6, <1>8
  <2>2. ASSUME w = s
        PROVE  Cell(g[s], k, f) = s /\ \A t \in Sources : Before(t, s) => Cell(g[t], k, f) = None
    <3>1. ASSUME NEW t \in Sources, Before(t, s) PROVE Cell(g[t], k, f) = None
      BY <1>3, <1>4, <1>8, <3>1, NotBeforeItself
    <3> QED BY <1>2, <1>3, <2>2, <3>1
  <2>3. ASSUME w = None, NEW t \in Sources PROVE Cell(g[t], k, f) = None
    BY <1>3, <1>4, <1>8, <2>3
  <2> QED BY <1>2, <1>6, <2>1, <2>2, <2>3
<1> QED BY <1>7, <1>8 DEF j, g

Merging == strategy \in {"priority_fallback", "append_dedupe"}

\* The sources after the current one have not answered yet.
Unheard ==
    \A i \in DOMAIN Order : i > at \/ (i = at /\ pc = "step") => heard[Order[i]] = Nothing

\* The answers that have been merged: append_dedupe merges those of a step when
\* the step ends.
Told == IF Probing /\ pc = "fetch" THEN [heard EXCEPT ![Current] = Nothing] ELSE heard

Prioritised == Merging => FromFirst(items, Told)

PriorityInv == TypeOK /\ Located /\ Unheard /\ Prioritised

LEMMA UnheardStep == TypeOK /\ Located /\ Unheard /\ [Next]_vars => Unheard'
<1> SUFFICES ASSUME TypeOK, Located, Unheard, [Next]_vars
             PROVE  Unheard'
  OBVIOUS
<1>0. at \in Nat /\ \A i \in DOMAIN Order : i \in Nat
  BY OrderAssumption DEF TypeOK, OrderAssumption
<1>1. CASE FetchOk
  <2>1. PICK answer : heard' = [heard EXCEPT ![Current] = Merge(@, answer)]
    BY <1>1 DEF FetchOk
  <2>2. ASSUME NEW i \in DOMAIN Order, i > at PROVE heard'[Order[i]] = Nothing
    <3>1. Order[i] # Current /\ Order[i] \in Sources
      BY <1>0, <1>1, <2>2, CurrentType, OrderAssumption DEF Current, FetchOk, Located, OrderAssumption
    <3> QED BY <2>1, <2>2, <3>1 DEF Unheard, TypeOK
  <2> QED BY <1>1, <2>2 DEF Unheard, FetchOk
<1>2. CASE EndStep
  BY <1>0, <1>2 DEF Unheard, EndStep
<1>3. CASE UNCHANGED <<heard, at>> /\ pc' # "step"
  BY <1>3 DEF Unheard
<1>4. CASE UNCHANGED <<heard, at, pc>>
  BY <1>4 DEF Unheard
<1> QED BY <1>1, <1>2, <1>3, <1>4 DEF Next, vars, Ask, NoMoreSteps, FetchFails, FetchRefused, Finish

LEMMA UnheardAfter ==
    ASSUME TypeOK, Located, Unheard, pc = "fetch", NEW t \in Sources, Before(Current, t)
    PROVE  heard[t] = Nothing
<1>1. PICK i, j \in DOMAIN Order : i < j /\ Order[i] = Current /\ Order[j] = t
  BY DEF Before
<1>2. i = at
  BY <1>1, CurrentType, OrderAssumption DEF Current, Located, OrderAssumption
<1> QED BY <1>1, <1>2, OrderAssumption DEF Unheard, OrderAssumption

LEMMA MergeNothing ==
    ASSUME NEW i \in Items
    PROVE  Merge(Nothing, i) = i
BY DEF Merge, Nothing, Items, ItemsOf

LEMMA MergingStep ==
    ASSUME PriorityInv, [Next]_vars, Merging
    PROVE  FromFirst(items, Told)'
<1>0. TypeOK /\ Located /\ Unheard /\ FromFirst(items, Told)
  BY DEF PriorityInv, Prioritised
<1>1. base' = base /\ strategy' = strategy
  BY DEF Next, vars, Ask, NoMoreSteps, FetchOk, FetchFails, FetchRefused, EndStep, Finish
<1>2. ASSUME items' = items, Told' = Told PROVE FromFirst(items, Told)'
  BY <1>0, <1>1, <1>2 DEF FromFirst
<1>3. CASE Ask
  <2>1. heard[Current] = Nothing
    BY <1>0, <1>3, CurrentType DEF Ask, Unheard, Current
  <2>2. [heard EXCEPT ![Current] = Nothing] = heard
    BY <1>0, <2>1 DEF TypeOK
  <2>3. Told' = Told
    BY <1>3, <2>2 DEF Ask, Told, Probing, Current
  <2> QED BY <1>2, <1>3, <2>3 DEF Ask
<1>4. CASE FetchOk
  <2>1. Current \in Sources
    BY <1>0, <1>4, CurrentType DEF FetchOk, Located
  <2>2. PICK answer \in Answers(Current) :
            /\ heard' = [heard EXCEPT ![Current] = Merge(@, answer)]
            /\ IF Racing THEN UNCHANGED items ELSE items' = Merge(items, answer)
    BY <1>4 DEF FetchOk
  <2>3. at' = at /\ pc' = pc /\ pc = "fetch" /\ strategy' = strategy
    BY <1>4 DEF FetchOk
  <2>4. CASE strategy = "append_dedupe"
    <3>1. Told' = Told
      BY <1>0, <2>1, <2>2, <2>3, <2>4 DEF Told, Probing, Current, TypeOK
    <3> QED BY <1>2, <2>2, <2>4, <3>1 DEF Racing
  <2>5. CASE strategy = "priority_fallback"
    <3>1. Told = heard /\ Told' = [heard EXCEPT ![Current] = Merge(heard[Current], answer)]
      BY <2>2, <2>5, <2>3 DEF Told, Probing
    <3>2. items' = Merge(items, answer)
      BY <2>2, <2>5 DEF Racing
    <3>3. \A t \in Sources : Before(Current, t) => heard[t] = Nothing
      BY <1>0, <2>3, UnheardAfter
    <3>4. FromFirst(Merge(items, answer), [heard EXCEPT ![Current] = Merge(heard[Current], answer)])
      BY <1>0, <2>1, <3>1, <3>3, MergeFromFirst DEF TypeOK
    <3> QED BY <1>1, <3>1, <3>2, <3>4 DEF FromFirst
  <2> QED BY <2>4, <2>5 DEF Merging
<1>5. CASE FetchFails \/ FetchRefused
  <2>1. Told' = Told
    BY <1>5 DEF Told, Probing, Current, FetchFails, FetchRefused
  <2> QED BY <1>2, <1>5, <2>1 DEF FetchFails, FetchRefused
<1>6. CASE EndStep
  <2>1. Current \in Sources /\ pc = "fetch" /\ pc' # "fetch" /\ heard' = heard
    BY <1>0, <1>6, CurrentType DEF EndStep, Located
  <2>2. Told' = heard
    BY <2>1 DEF Told
  <2>3. CASE strategy = "priority_fallback"
    BY <1>2, <1>6, <2>1, <2>2, <2>3 DEF EndStep, Told, Probing
  <2>4. CASE strategy = "append_dedupe"
    <3> DEFINE h == [heard EXCEPT ![Current] = Nothing]
    <3>1. Told = h /\ items' = Merge(items, heard[Current])
      BY <1>6, <2>1, <2>4 DEF EndStep, Told, Probing
    <3>2. h \in [Sources -> Items] /\ h[Current] = Nothing /\ Nothing \in Answers(Current)
      BY <1>0, <2>1, NothingIsItems DEF TypeOK, Answers, Items
    <3>3. \A t \in Sources : Before(Current, t) => h[t] = Nothing
      BY <1>0, <2>1, UnheardAfter DEF TypeOK
    <3>4. [h EXCEPT ![Current] = Merge(h[Current], heard[Current])] = heard
      BY <1>0, <2>1, <3>2, MergeNothing DEF TypeOK
    <3>5. heard[Current] \in Answers(Current) /\ items \in Items
      BY <1>0, <2>1 DEF TypeOK
    <3> HIDE DEF h
    <3>6. FromFirst(Merge(items, heard[Current]), [h EXCEPT ![Current] = Merge(h[Current], heard[Current])])
      BY <1>0, <2>1, <3>1, <3>2, <3>3, <3>5, MergeFromFirst
    <3>7. FromFirst(items', heard)
      BY <3>1, <3>4, <3>6
    <3> QED BY <1>1, <2>2, <3>7 DEF FromFirst
  <2> QED BY <2>3, <2>4 DEF Merging
<1>7. CASE NoMoreSteps \/ UNCHANGED vars
  <2>1. Told' = Told
    BY <1>7 DEF Told, Probing, Current, NoMoreSteps, vars
  <2> QED BY <1>2, <1>7, <2>1 DEF NoMoreSteps, vars
<1>8. CASE Finish
  <2>1. items' = items
    BY <1>8 DEF Finish, AdoptAll, Merging
  <2>2. Told' = Told
    BY <1>8 DEF Told, Finish
  <2> QED BY <1>2, <2>1, <2>2
<1> QED BY <1>3, <1>4, <1>5, <1>6, <1>7, <1>8 DEF Next

LEMMA PriorityStep == PriorityInv /\ [Next]_vars => PriorityInv'
<1> SUFFICES ASSUME PriorityInv, [Next]_vars PROVE PriorityInv'
  OBVIOUS
<1>1. strategy' = strategy
  BY DEF Next, vars, Ask, NoMoreSteps, FetchOk, FetchFails, FetchRefused, EndStep, Finish
<1>2. TypeOK' /\ Located' /\ Unheard'
  BY TypeStep, UnheardStep DEF PriorityInv
<1> QED BY <1>1, <1>2, MergingStep DEF PriorityInv, Prioritised, Merging

LEMMA PriorityInit == Init => PriorityInv
<1> SUFFICES ASSUME Init PROVE PriorityInv
  OBVIOUS
<1>1. TypeOK /\ Located
  BY TypeInit
<1>2. Unheard
  BY OrderAssumption DEF Init, Unheard, OrderAssumption
<1>3. FromFirst(items, Told)
  <2>1. Told = heard /\ items = base
    BY DEF Told, Init
  <2> SUFFICES ASSUME NEW k \in Keys, NEW f \in Fields
               PROVE  /\ Cell(base, k, f) \in {Base, None}
                      /\ \A t \in Sources : Cell(heard[t], k, f) = None
    BY <2>1, DataAssumption DEF FromFirst, DataAssumption
  <2>2. Cell(base, k, f) \in {Base, None}
    BY DEF Init, ItemsOf, Row, Cell
  <2>3. \A t \in Sources : Cell(heard[t], k, f) = None
    BY NothingCell DEF Init
  <2> QED BY <2>2, <2>3
<1> QED BY <1>1, <1>2, <1>3 DEF PriorityInv, Prioritised

\* The configured order decides, field by field: a value is never taken from a
\* source while one before it has the field, whatever failed or was asked twice
\* (_merge_model_lists as the chain and append_dedupe use it).
THEOREM PriorityKept == Spec => []PriorityRespected
<1>1. PriorityInv => PriorityRespected
  <2> SUFFICES ASSUME PriorityInv, Merging, pc # "fetch",
                      NEW k \in Keys, NEW f \in Fields
               PROVE  LET v == Cell(items, k, f)
                      IN  /\ Cell(base, k, f) # None => v = Base
                          /\ v \in Sources => \A t \in Sources : Before(t, v) => Cell(heard[t], k, f) = None
                          /\ v = None => \A t \in Sources : Cell(heard[t], k, f) = None
    BY DEF PriorityRespected, Merging
  <2>1. Told = heard
    BY DEF Told
  <2> QED BY <2>1 DEF PriorityInv, Prioritised, FromFirst
<1> QED BY <1>1, PriorityInit, PriorityStep, PTL DEF Spec

-----------------------------------------------------------------------------
(* Who has been asked.                                                     *)

\* A row or a field that these items have, those have too, of whatever origin.
Covers(those, these) ==
    \A k \in Keys :
        /\ these[k] # Absent => those[k] # Absent
        /\ \A f \in Fields : Cell(these, k, f) # None => Cell(those, k, f) # None

LEMMA MergeAbsent ==
    ASSUME NEW a \in Items, NEW b \in Items, NEW k \in Keys
    PROVE  Merge(a, b)[k] = Absent <=> a[k] = Absent /\ b[k] = Absent
<1>1. CASE b[k] = Absent \/ a[k] = Absent
  BY <1>1 DEF Merge
<1>2. CASE b[k] # Absent /\ a[k] # Absent
  <2>1. Merge(a, b)[k] = [g \in Fields |-> IF a[k][g] = None THEN b[k][g] ELSE a[k][g]]
    BY <1>2 DEF Merge
  <2>2. a[k] \in Row(Sources \cup {Base}) /\ b[k] \in Row(Sources \cup {Base})
    BY <1>2 DEF Items, ItemsOf
  <2>3. Merge(a, b)[k] \in Row(Sources \cup {Base})
    BY <2>1, <2>2 DEF Row
  <2> QED BY <1>2, <2>3, NotAbsent
<1> QED BY <1>1, <1>2

LEMMA ExtendsCovers ==
    ASSUME NEW a, NEW b, Extends(b, a)
    PROVE  Covers(b, a)
BY DEF Extends, Covers

\* With more rows and fields there is not more to ask for.
LEMMA NothingLeft ==
    ASSUME NEW a \in Items, NEW b \in Items, Covers(b, a), Requests(a) = {}
    PROVE  Requests(b) = {}
<1>1. Missing(b) \subseteq Missing(a)
  <2> SUFFICES ASSUME NEW k \in Keys, k \notin Missing(a) PROVE k \notin Missing(b)
    BY DEF Missing
  <2>1. a[k] # Absent /\ \A f \in Needed : a[k][f] # None
    BY DEF Missing
  <2>2. b[k] # Absent
    BY <2>1 DEF Covers
  <2>3. \A f \in Needed : b[k][f] # None
    BY <2>1, <2>2, StrategyAssumption DEF Covers, Cell, StrategyAssumption
  <2> QED BY <2>2, <2>3 DEF Missing
<1>2. CASE Builder = "each"
  BY <1>1, <1>2 DEF Requests
<1>3. CASE Builder = "all"
  BY <1>1, <1>3 DEF Requests
<1>4. CASE Builder = "empty"
  <2>1. a # Nothing
    BY <1>4 DEF Requests
  <2>2. PICK k \in Keys : a[k] # Absent
    BY <2>1 DEF Items, ItemsOf, Nothing
  <2>3. b # Nothing
    BY <2>2 DEF Covers, Nothing
  <2> QED BY <1>4, <2>3 DEF Requests
<1> QED BY <1>2, <1>3, <1>4, StrategyAssumption DEF StrategyAssumption

\* What the probe of a race has is in the base items or in an answer.
Gathered ==
    \A k \in Keys :
        /\ items[k] # Absent => base[k] # Absent \/ \E s \in Sources : heard[s][k] # Absent
        /\ \A f \in Fields : Cell(items, k, f) # None =>
              Cell(base, k, f) # None \/ \E s \in Sources : Cell(heard[s], k, f) # None

AskedInv ==
    /\ \A i \in DOMAIN Order : i < at => Order[i] \in asked
    /\ pc = "fetch" => Current \in asked
    /\ ~Probing /\ Racing /\ pc # "done" => items = base
    /\ strategy = "field_consensus" /\ pc # "done" => Gathered
    /\ pc \in {"finish", "done"} =>
          Requests(items) = {} \/ (FirstOnly /\ Valid # {}) \/ at > Len(Order)

LEMMA FetchGathers ==
    ASSUME TypeOK, Located, Gathered, FetchOk, items' = items
    PROVE  Gathered'
<1>1. Current \in Sources /\ base' = base
  BY CurrentType DEF FetchOk, Located
<1>2. PICK answer \in Answers(Current) : heard' = [heard EXCEPT ![Current] = Merge(@, answer)]
  BY DEF FetchOk
<1>3. answer \in Items /\ heard[Current] \in Items
  BY <1>1, AnswersAreItems DEF TypeOK
<1>4. Covers(Merge(heard[Current], answer), heard[Current])
  BY <1>3, MergeExtends, ExtendsCovers
<1>5. \A s \in Sources : Covers(heard'[s], heard[s])
  BY <1>1, <1>2, <1>4 DEF TypeOK, Covers
<1> QED BY <1>1, <1>5 DEF Gathered, Covers

LEMMA EndStepGathers ==
    ASSUME TypeOK, Located, Gathered, EndStep
    PROVE  Gathered'
<1>1. Current \in Sources /\ base' = base /\ heard' = heard
  BY CurrentType DEF EndStep, Located
<1>2. items \in Items /\ heard[Current] \in Items
  BY <1>1 DEF TypeOK
<1>3. CASE items' = items
  BY <1>1, <1>3 DEF Gathered
<1>4. CASE items' = Merge(items, heard[Current])
  <2> SUFFICES ASSUME NEW k \in Keys
               PROVE  /\ items'[k] # Absent => base[k] # Absent \/ \E s \in Sources : heard[s][k] # Absent
                      /\ \A f \in Fields : Cell(items', k, f) # None =>
                            Cell(base, k, f) # None \/ \E s \in Sources : Cell(heard[s], k, f) # None
    BY <1>1 DEF Gathered
  <2>1. items'[k] = Absent <=> items[k] = Absent /\ heard[Current][k] = Absent
    BY <1>2, <1>4, MergeAbsent
  <2>2. ASSUME NEW f \in Fields, Cell(items', k, f) # None
        PROVE  Cell(items, k, f) # None \/ Cell(heard[Current], k, f) # None
    BY <1>2, <1>4, <2>2, MergeCell
  <2> QED BY <1>1, <2>1, <2>2 DEF Gathered
<1> QED BY <1>3, <1>4 DEF EndStep

\* The consensus has a row and a value wherever the probe had one.
LEMMA ConsensusCovers ==
    ASSUME TypeOK, Gathered, NEW choice \in Consensus
    PROVE  Covers(Merge(base, choice), items)
<1>0. base \in Items /\ choice \in Items
  BY ItemsMonotone DEF TypeOK, Consensus, Valid
<1>1. \A s \in Sources, k \in Keys : heard[s][k] # Absent => s \in Valid
  BY DEF Valid, Nothing
<1> SUFFICES ASSUME NEW k \in Keys
             PROVE  /\ items[k] # Absent => Merge(base, choice)[k] # Absent
                    /\ \A f \in Fields : Cell(items, k, f) # None => Cell(Merge(base, choice), k, f) # None
  BY DEF Covers
<1>2. choice[k] = Absent <=> \A s \in Valid : heard[s][k] = Absent
  BY DEF Consensus
<1>3. items[k] # Absent => Merge(base, choice)[k] # Absent
  <2>1. Merge(base, choice)[k] = Absent <=> base[k] = Absent /\ choice[k] = Absent
    BY <1>0, MergeAbsent
  <2> QED BY <1>1, <1>2, <2>1 DEF Gathered
<1>4. ASSUME NEW f \in Fields, Cell(items, k, f) # None
      PROVE  Cell(Merge(base, choice), k, f) # None
  <2>1. CASE Cell(base, k, f) # None
    BY <1>0, <2>1, MergeCell
  <2>2. CASE Cell(base, k, f) = None
    <3>1. PICK s \in Sources : Cell(heard[s], k, f) # None
      BY <1>4, <2>2 DEF Gathered
    <3>2. heard[s][k] # Absent /\ s \in Valid
      BY <1>1, <3>1 DEF Cell
    <3>3. s \in Offers(k, f)
      BY <3>1, <3>2 DEF Offers
    <3>4. choice[k] # Absent /\ choice[k][f] \in Offers(k, f)
      BY <1>2, <3>2, <3>3 DEF Consensus
    <3>5. choice[k][f] \in Sources
      BY <3>4 DEF Offers, Valid
    <3>6. Cell(choice, k, f) # None
      BY <3>4, <3>5, DataAssumption DEF Cell, DataAssumption
    <3> QED BY <1>0, <2>2, <3>6, MergeCell
  <2> QED BY <2>1, <2>2
<1> QED BY <1>3, <1>4

LEMMA FinishCovers ==
    ASSUME TypeOK, AskedInv, Finish
    PROVE  Covers(items', items)
<1>0. base \in Items /\ pc # "done"
  BY ItemsMonotone DEF TypeOK, Finish
<1>1. CASE strategy \in {"priority_fallback", "append_dedupe"}
  BY <1>1, ExtendsItself, ExtendsCovers DEF Finish, AdoptAll
<1>2. CASE strategy = "field_consensus"
  BY <1>0, <1>2, ConsensusCovers DEF Finish, AdoptConsensus, AskedInv
<1>3. CASE strategy \notin {"priority_fallback", "append_dedupe", "field_consensus"}
  <2>1. AdoptBest /\ items = base
    BY <1>0, <1>3 DEF Finish, AskedInv, Probing, Racing
  <2>2. CASE Valid = {}
    BY <2>1, <2>2, ExtendsItself, ExtendsCovers DEF AdoptBest
  <2>3. CASE Valid # {}
    <3>1. PICK best \in Best : items' = Merge(base, heard[best])
      BY <2>1, <2>3 DEF AdoptBest
    <3>2. best \in Sources
      BY DEF Best, FirstOf, Latest, Valid
    <3>3. heard[best] \in Items
      BY <3>2 DEF TypeOK
    <3> QED BY <1>0, <2>1, <3>1, <3>3, MergeExtends, ExtendsCovers
  <2> QED BY <2>2, <2>3
<1> QED BY <1>1, <1>2, <1>3

LEMMA AskedStep == TypeOK /\ Located /\ AskedInv /\ [Next]_vars => AskedInv'
<1> SUFFICES ASSUME TypeOK, Located, AskedInv, [Next]_vars
             PROVE  AskedInv'
  OBVIOUS
<1>0. /\ strategy' = strategy /\ base' = base
      /\ at \in Nat /\ \A i \in DOMAIN Order : i \in Nat /\ i <= Len(Order)
  BY OrderAssumption DEF OrderAssumption, TypeOK, Next, vars, Ask, NoMoreSteps, FetchOk, FetchFails, FetchRefused,
     EndStep, Finish
<1>1. CASE Ask
  BY <1>0, <1>1 DEF AskedInv, Ask, Current, Probing, Racing, FirstOnly, Gathered
<1>2. CASE NoMoreSteps
  BY <1>0, <1>2 DEF AskedInv, NoMoreSteps, Probing, Racing, Gathered
<1>3. CASE FetchOk
  <2>1. strategy = "field_consensus" => Gathered'
    BY <1>3, FetchGathers DEF AskedInv, FetchOk, Racing
  <2>2. Racing => items' = items
    BY <1>3 DEF FetchOk
  <2>3. UNCHANGED <<at, pc, asked>> /\ pc = "fetch"
    BY <1>3 DEF FetchOk
  <2> QED BY <1>0, <2>1, <2>2, <2>3 DEF AskedInv, Current, Probing, Racing
<1>4. CASE FetchFails \/ FetchRefused
  BY <1>0, <1>4 DEF AskedInv, FetchFails, FetchRefused, Current, Probing, Racing, Gathered
<1>5. CASE EndStep
  <2>1. strategy = "field_consensus" => Gathered'
    BY <1>5, EndStepGathers DEF AskedInv, EndStep
  <2>2. ~Probing => items' = items
    BY <1>5 DEF EndStep
  <2>3. \A i \in DOMAIN Order : i < at' => Order[i] \in asked
    BY <1>0, <1>5 DEF AskedInv, EndStep, Current
  <2>4. pc' = "finish" => FirstOnly /\ Valid # {}
    <3>1. Current \in Sources
      BY <1>5, CurrentType DEF EndStep, Located
    <3> QED BY <1>5, <3>1 DEF EndStep, Valid
  <2>5. UNCHANGED <<asked, heard>> /\ pc' \in {"step", "finish"} /\ pc = "fetch"
    BY <1>5 DEF EndStep
  <2> QED BY <1>0, <2>1, <2>2, <2>3, <2>4, <2>5 DEF AskedInv, Probing, Racing, FirstOnly, Valid
<1>6. CASE Finish
  <2>1. Requests(items) = {} => Requests(items') = {}
    BY <1>6, FinishCovers, FinishTypes, NothingLeft DEF TypeOK
  <2>2. UNCHANGED <<at, asked, heard>> /\ pc = "finish" /\ pc' = "done"
    BY <1>6 DEF Finish
  <2> QED BY <1>0, <2>1, <2>2 DEF AskedInv, FirstOnly, Valid
<1>7. CASE UNCHANGED vars
  BY <1>7 DEF vars, AskedInv, Current, Probing, Racing, FirstOnly, Valid, Gathered
<1> QED BY <1>1, <1>2, <1>3, <1>4, <1>5, <1>6, <1>7 DEF Next

\* Within the budget, no failure, timeout or refusal ends the chain early: an
\* answer that is still incomplete has been through every source, under every
\* strategy and for every builder of requests (run_fallback_chain goes on after
\* an error; the race stops at the first rows only where it must).
THEOREM AllAsked == Spec => []AllAskedInBudget
<1>1. Init => AskedInv
  <2> SUFFICES ASSUME Init PROVE AskedInv
    OBVIOUS
  <2>1. \A i \in DOMAIN Order : ~(i < at)
    BY OrderAssumption DEF Init, OrderAssumption
  <2> QED BY <2>1 DEF Init, AskedInv, Gathered
<1>2. TypeOK /\ AskedInv /\ WithinBudget => AllAskedInBudget
  <2> SUFFICES ASSUME TypeOK, AskedInv, pc = "done", at > Len(Order), NEW i \in DOMAIN Order
               PROVE  Order[i] \in asked
    BY DEF AllAskedInBudget, AskedInv
  <2>1. i < at
    BY OrderAssumption DEF OrderAssumption, TypeOK
  <2> QED BY <2>1 DEF AskedInv
<1>3. TypeOK /\ Located /\ AskedInv /\ [Next]_vars => TypeOK' /\ Located' /\ AskedInv'
  BY TypeStep, AskedStep
<1> QED BY <1>1, <1>2, <1>3, TypeInit, BudgetKept, PTL DEF Spec
=============================================================================
