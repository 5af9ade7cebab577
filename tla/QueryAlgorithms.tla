----------------------------- MODULE QueryAlgorithms -----------------------------
(***************************************************************************)
(* The pure functions a query is built from, each on every input of a      *)
(* bounded set and compared with what it is meant to compute:              *)
(*   - _merge_model_lists, on lists, which module Rows has on rows by key; *)
(*   - _order_steps, which FallbackChain takes as given;                   *)
(*   - _weighted_median of the field consensus;                            *)
(*   - build_missing_expected_date_ranges, which makes requests from gaps. *)
(* The variables hold the arguments of a call and what it returned.        *)
(***************************************************************************)
EXTENDS Integers, SequencesExt

CONSTANTS
    Keys, Fields, Values, NoValue,   \* of the merged rows
    HighLen, LowLen,              \* the longest lists that are merged
    Steps,                        \* a sequence of [id, package]
    NameLen,                      \* the longest configured order
    Weights, SampleLen, Samples,  \* of the weighted median
    CalendarLen                   \* the longest calendar of a range request

ASSUME AlgorithmAssumption ==
    /\ Steps \in Seq(ToSet(Steps))
    /\ Weights \subseteq Nat /\ Samples \subseteq Int
    /\ IsFiniteSet(Fields)
    /\ {HighLen, LowLen, NameLen, SampleLen, CalendarLen} \subseteq Nat

VARIABLES input, output
algorithmVars == <<input, output>>

-----------------------------------------------------------------------------
(* _merge_model_lists                                                      *)

RowItem == [key : Keys, row : [Fields -> Values \cup {NoValue}]]

\* index_map: the last place of a key.
Places(merged, key) == {n \in DOMAIN merged : merged[n].key = key}
PlaceOf(merged, key) == Max(Places(merged, key))

Filled(high, low) == {f \in Fields : high[f] = NoValue /\ low[f] # NoValue}
Conflicts(high, low) == {f \in Fields : high[f] # NoValue /\ low[f] # NoValue /\ high[f] # low[f]}

\* Mutant: index_map is not told of rows that the low list adds.
MergeItemForgets(acc, item) ==
    IF \A n \in Places(acc.merged, item.key) : n > acc.given
    THEN [acc EXCEPT !.merged = Append(@, item), !.added = @ + 1]
    ELSE LET n == PlaceOf(acc.merged, item.key)  row == acc.merged[n].row
         IN  [acc EXCEPT
                !.merged[n].row = [f \in Fields |-> IF row[f] = NoValue THEN item.row[f] ELSE row[f]],
                !.filled = @ + Cardinality(Filled(row, item.row)),
                !.conflicts = @ + Cardinality(Conflicts(row, item.row))]

MergeItem(acc, item) ==
    IF Places(acc.merged, item.key) = {}
    THEN [acc EXCEPT !.merged = Append(@, item), !.added = @ + 1]
    ELSE LET n == PlaceOf(acc.merged, item.key)  row == acc.merged[n].row
         IN  [acc EXCEPT
                !.merged[n].row = [f \in Fields |-> IF row[f] = NoValue THEN item.row[f] ELSE row[f]],
                !.filled = @ + Cardinality(Filled(row, item.row)),
                !.conflicts = @ + Cardinality(Conflicts(row, item.row))]

MergeLists(high, low) ==
    FoldLeft(MergeItem, [merged |-> high, given |-> Len(high), added |-> 0, filled |-> 0, conflicts |-> 0], low)

-----------------------------------------------------------------------------
(* _order_steps                                                            *)

\* The steps in wanted that are not yet in the list are appended, in their order.
AppendNew(ordered, wanted) ==
    FoldLeft(LAMBDA list, s : IF s \in wanted \ ToSet(list) THEN Append(list, s) ELSE list, ordered, Steps)

Named(name) == {s \in ToSet(Steps) : s.id = name}
OfPackage(name) == {s \in ToSet(Steps) : s.package = name}

\* Mutant: a step that is named twice is taken twice.
PlaceAgain(ordered, name) ==
    ordered \o AppendNew(<<>>, Named(name) \cup OfPackage(name))

\* A name of the configured order stands for an instance, or for all instances
\* of a package.
Place(ordered, name) == AppendNew(AppendNew(ordered, Named(name)), OfPackage(name))

OrderSteps(names) == AppendNew(FoldLeft(Place, <<>>, names), ToSet(Steps))

-----------------------------------------------------------------------------
(* _weighted_median                                                        *)

\* The weight at some places of a sample.
WeightAt(sample, places) == MapThenSumSet(LAMBDA n : sample[n].weight, places)
Below(sample, v) == {n \in DOMAIN sample : sample[n].value < v}
Above(sample, v) == {n \in DOMAIN sample : sample[n].value > v}

\* The places in the order of their values.
IsSorting(sample, order) ==
    \A n, m \in DOMAIN sample :
        n < m => order[n] # order[m] /\ sample[order[n]].value <= sample[order[m]].value
SortByValue(sample) == CHOOSE order \in [DOMAIN sample -> DOMAIN sample] : IsSorting(sample, order)

\* Mutant: the cursor must pass the middle.
WeightedMedianAbove(sample) ==
    LET order == SortByValue(sample)
        Past(n) == 2 * WeightAt(sample, {order[m] : m \in 1..n}) > WeightAt(sample, DOMAIN sample) + 1
    IN  IF \E n \in DOMAIN sample : Past(n)
        THEN sample[order[CHOOSE n \in DOMAIN sample : Past(n) /\ \A m \in 1..n - 1 : ~Past(m)]].value
        ELSE sample[order[Len(sample)]].value

\* The first value at which the weights of the smaller ones reach the half.
WeightedMedian(sample) ==
    LET order == SortByValue(sample)
        Past(n) == 2 * WeightAt(sample, {order[m] : m \in 1..n}) >= WeightAt(sample, DOMAIN sample)
    IN  sample[order[CHOOSE n \in DOMAIN sample : Past(n) /\ \A m \in 1..n - 1 : ~Past(m)]].value

-----------------------------------------------------------------------------
(* build_missing_expected_date_ranges                                      *)

\* Mutant: a day that is there does not end the range.
ScanDayOn(existing, acc, day) ==
    IF day \in existing THEN acc
    ELSE [acc EXCEPT !.start = IF @ = 0 THEN day ELSE @, !.end = day]

\* start and end are 0 while no range is open.
ScanDay(existing, acc, day) ==
    IF day \notin existing
    THEN [acc EXCEPT !.start = IF @ = 0 THEN day ELSE @, !.end = day]
    ELSE IF acc.start = 0 THEN acc
    ELSE [ranges |-> Append(acc.ranges, <<acc.start, acc.end>>), start |-> 0, end |-> 0]

MissingDateRanges(expected, existing) ==
    LET acc == FoldLeft(LAMBDA a, day : ScanDay(existing, a, day),
                        [ranges |-> <<>>, start |-> 0, end |-> 0], expected)
    IN  IF acc.start = 0 THEN acc.ranges ELSE Append(acc.ranges, <<acc.start, acc.end>>)

-----------------------------------------------------------------------------
(* Every input once.                                                       *)

Lists(S, n) == UNION {[1..m -> S] : m \in 0..n}
Calendars == {days \in Lists(1..CalendarLen, CalendarLen) : \A n, m \in DOMAIN days : n < m => days[n] < days[m]}

Calls ==
    [name : {"merge"}, high : Lists(RowItem, HighLen), low : Lists(RowItem, LowLen)]
    \cup [name : {"order"}, names : Lists(UNION {{Steps[n].id, Steps[n].package} : n \in DOMAIN Steps}, NameLen)]
    \cup [name : {"median"}, sample : Lists([value : Samples, weight : Weights], SampleLen) \ {<<>>}]
    \cup [name : {"ranges"}, expected : Calendars, existing : SUBSET (1..CalendarLen)]

Return(c) ==
    CASE c.name = "merge"  -> MergeLists(c.high, c.low)
      [] c.name = "order"  -> OrderSteps(c.names)
      [] c.name = "median" -> WeightedMedian(c.sample)
      [] c.name = "ranges" -> MissingDateRanges(c.expected, c.existing)

AlgorithmInit == input \in Calls /\ output = <<>>
AlgorithmNext == output = <<>> /\ output' = <<Return(input)>> /\ UNCHANGED input
AlgorithmSpec == AlgorithmInit /\ [][AlgorithmNext]_algorithmVars

Returned(name) == input.name = name /\ output # <<>>
Value == output[1]

-----------------------------------------------------------------------------
(* Properties.                                                             *)

\* The first row of a key that has the field, in the list; NoValue without one.
FirstValue(list, key, f) ==
    LET has == {n \in DOMAIN list : list[n].key = key /\ list[n].row[f] # NoValue}
    IN  IF has = {} THEN NoValue ELSE list[Min(has)].row[f]

KeysOf(list) == {list[n].key : n \in DOMAIN list}
Distinct(list) == \A n, m \in DOMAIN list : list[n].key = list[m].key => n = m

\* A high list without duplicate keys keeps its order, new keys follow in the
\* order of the low list, no key is there twice, and every field has the first
\* value given for it, duplicate rows of the low list included.
MergedByPriority ==
    Returned("merge") /\ Distinct(input.high) =>
        LET all == input.high \o input.low
            merged == Value.merged
        IN  /\ Distinct(merged) /\ KeysOf(merged) = KeysOf(all)
            /\ \A n, m \in DOMAIN merged : n < m =>
                  Min(Places(all, merged[n].key)) < Min(Places(all, merged[m].key))
            /\ \A n \in DOMAIN merged, f \in Fields :
                  merged[n].row[f] = FirstValue(all, merged[n].key, f)

Rank(step, names) ==
    LET as == {2 * n : n \in {m \in DOMAIN names : names[m] = step.id}}
              \cup {2 * n + 1 : n \in {m \in DOMAIN names : names[m] = step.package}}
    IN  IF as = {} THEN 2 * Len(names) + 2 ELSE Min(as)

\* Every step is asked, and once, however often the order names its instance or
\* its package, in the order of the first name that fits it.
OrderIsRanked ==
    Returned("order") =>
        /\ ToSet(Value) = ToSet(Steps)
        /\ \A n, m \in DOMAIN Value : n < m =>
              Value[n] # Value[m] /\ Rank(Value[n], input.names) <= Rank(Value[m], input.names)

\* At most half of the weight lies on either side of the median.
MedianInMiddle ==
    Returned("median") =>
        LET half(places) == 2 * WeightAt(input.sample, places) <= WeightAt(input.sample, DOMAIN input.sample)
        IN  half(Below(input.sample, Value)) /\ half(Above(input.sample, Value))

\* The ranges cover every missing day and no day that is there, and no two of
\* them could have been one request.
RangesExact ==
    Returned("ranges") =>
        LET expected == ToSet(input.expected)
            missing == expected \ input.existing
            Covered(n) == {d \in expected : Value[n][1] <= d /\ d <= Value[n][2]}
        IN  /\ UNION {Covered(n) : n \in DOMAIN Value} = missing
            /\ \A n \in DOMAIN Value : Value[n][1] \in missing /\ Value[n][2] \in missing
            /\ \A n \in 1..Len(Value) - 1 :
                  \E d \in expected \cap input.existing : Value[n][2] < d /\ d < Value[n + 1][1]

\* Each of the four returns what its reference definition says.
ResultIsReference == MergedByPriority /\ OrderIsRanked /\ MedianInMiddle /\ RangesExact
=============================================================================
