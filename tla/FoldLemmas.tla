------------------------------ MODULE FoldLemmas ------------------------------
(***************************************************************************)
(* What the proofs of several modules need of numbers, finite sets and     *)
(* folds.  The folds of the community modules are functions over the       *)
(* subsets of a finite set, chosen by the equation they satisfy.           *)
(* IteratorExists shows that there is such a function, BySubsets proves    *)
(* what holds of its values, and SumIsCount says what a fold that adds     *)
(* numbers up returns: the number of elements of a set, with as many       *)
(* tickets for each x as are added for it.  A set stands wherever an       *)
(* induction theorem would have an operator for a parameter.               *)
(***************************************************************************)
EXTENDS Integers, FiniteSets, FiniteSetTheorems, WellFoundedInduction, TLAPS

-----------------------------------------------------------------------------
(* Numbers.                                                                *)

\* A set of naturals has a least one.
LEMMA LeastOf ==
    ASSUME NEW T \in SUBSET Nat, T # {}
    PROVE  \E m \in T : \A y \in T : m <= y
<1> DEFINE R == OpToRel(<, Nat)
<1>1. \A x, y \in Nat : x < y => <<x, y>> \in R
  BY DEF OpToRel
<1>2. IsWellFoundedOn(R, Nat)
  BY NatLessThanWellFounded
<1> HIDE DEF R
<1>3. \E x \in T : \A y \in T : ~(<<y, x>> \in R)
  BY <1>2, WFMin
<1>4. PICK x \in T : \A y \in T : <<y, x>> \notin R
  BY <1>3
<1>5. \A y \in T : ~(y < x)
  BY <1>1, <1>4
<1> QED BY <1>5

LEMMA GreatestOf ==
    ASSUME NEW n \in Nat, NEW S \in SUBSET (0..n), S # {}
    PROVE  \E m \in S : \A y \in S : y <= m
<1> DEFINE T == {n - x : x \in S}
<1>1. T \in SUBSET Nat /\ T # {}
  <2>1. \A x \in S : n - x \in Nat
    OBVIOUS
  <2> QED BY <2>1
<1>2. PICK t \in T : \A u \in T : t <= u
  BY <1>1, LeastOf
<1>3. PICK m \in S : t = n - m
  BY <1>2
<1>4. \A y \in S : n - m <= n - y
  BY <1>2, <1>3
<1> QED BY <1>4

\* A set of numbers with 0 and the successor of each of its members.
LEMMA ByInduction ==
    ASSUME NEW T, 0 \in T, \A n \in Nat : n \in T => n + 1 \in T
    PROVE  \A n \in Nat : n \in T
<1> DEFINE Bad == Nat \ T
<1> SUFFICES ASSUME Bad # {} PROVE FALSE
  OBVIOUS
<1>1. PICK m \in Bad : \A y \in Bad : m <= y
  BY LeastOf
<1>2. m \in Nat /\ m # 0 /\ m - 1 \in Nat /\ m - 1 \notin Bad
  BY <1>1
<1>3. (m - 1) + 1 = m
  BY <1>2
<1> QED BY <1>1, <1>2, <1>3

-----------------------------------------------------------------------------
(* Iteration over the subsets of a finite set.                             *)

\* pick takes one element of a set, the one that a fold takes next.
Picks(pick, S) == \A s \in SUBSET S : s # {} => pick[s] \in s
StepsIn(V, S, step) == \A v \in V, x \in S : step[<<v, x>>] \in V
Iterates(g, S, base, step, pick) ==
    \A s \in SUBSET S : g[s] = IF s = {} THEN base ELSE step[<<g[s \ {pick[s]}], pick[s]>>]

\* There is a function that a fold can be, whatever it does at each element.
LEMMA IteratorExists ==
    ASSUME NEW S, IsFiniteSet(S), NEW pick, Picks(pick, S),
           NEW V, NEW base \in V, NEW step, StepsIn(V, S, step)
    PROVE  \E g \in [SUBSET S -> V] : Iterates(g, S, base, step, pick)
<1> USE DEF Picks, StepsIn
<1> DEFINE Upto(n, g) == \A s \in SUBSET S : Cardinality(s) <= n =>
              g[s] = IF s = {} THEN base ELSE step[<<g[s \ {pick[s]}], pick[s]>>]
           Good == {n \in Nat : \E g \in [SUBSET S -> V] : Upto(n, g)}
<1>1. \A s \in SUBSET S : IsFiniteSet(s) /\ Cardinality(s) \in Nat /\ Cardinality(s) <= Cardinality(S)
  BY FS_Subset, FS_CardinalityType
<1>2. 0 \in Good
  <2> DEFINE g == [s \in SUBSET S |-> base]
  <2>1. \A s \in SUBSET S : Cardinality(s) <= 0 => s = {}
    BY <1>1, FS_EmptySet
  <2>2. g \in [SUBSET S -> V] /\ Upto(0, g)
    BY <2>1
  <2> QED BY <2>2
<1>3. ASSUME NEW m \in Nat, m \in Good
      PROVE  m + 1 \in Good
  <2>1. PICK g \in [SUBSET S -> V] : Upto(m, g)
    BY <1>3
  <2> DEFINE h == [s \in SUBSET S |-> IF s = {} THEN base ELSE step[<<g[s \ {pick[s]}], pick[s]>>]]
  <2>2. h \in [SUBSET S -> V]
    OBVIOUS
  <2>3. ASSUME NEW s \in SUBSET S, Cardinality(s) <= m + 1, s # {}
        PROVE  h[s] = step[<<h[s \ {pick[s]}], pick[s]>>]
    <3>1. Cardinality(s \ {pick[s]}) = Cardinality(s) - 1
      BY <1>1, <2>3, FS_RemoveElement
    <3>2. Cardinality(s \ {pick[s]}) <= m /\ s \ {pick[s]} \in SUBSET S
      BY <1>1, <2>3, <3>1
    <3> DEFINE r == s \ {pick[s]}
    <3>3. g[r] = h[r]
      BY <2>1, <3>2
    <3> QED BY <2>3, <3>3
  <2>4. Upto(m + 1, h)
    BY <2>3
  <2> HIDE DEF h, Upto
  <2>5. \E k \in [SUBSET S -> V] : Upto(m + 1, k)
    BY <2>2, <2>4
  <2> QED BY <2>5
<1>4. \A n \in Nat : n \in Good
  <2> HIDE DEF Good
  <2> QED BY <1>2, <1>3, ByInduction
<1>5. PICK g \in [SUBSET S -> V] : Upto(Cardinality(S), g)
  BY <1>1, <1>4, FS_CardinalityType
<1> QED BY <1>1, <1>5 DEF Iterates

\* A family of subsets that has {} and every subset whose picked element can be
\* put back has them all.
LEMMA BySubsets ==
    ASSUME NEW S, IsFiniteSet(S), NEW pick, Picks(pick, S),
           NEW T, {} \in T, \A s \in SUBSET S : s # {} /\ s \ {pick[s]} \in T => s \in T
    PROVE  \A s \in SUBSET S : s \in T
<1> DEFINE Good == {n \in Nat : \A s \in SUBSET S : Cardinality(s) = n => s \in T}
<1>1. \A s \in SUBSET S : IsFiniteSet(s) /\ Cardinality(s) \in Nat
  BY FS_Subset, FS_CardinalityType
<1>2. 0 \in Good
  BY <1>1, FS_EmptySet
<1>3. ASSUME NEW m \in Nat, m \in Good
      PROVE  m + 1 \in Good
  <2> SUFFICES ASSUME NEW s \in SUBSET S, Cardinality(s) = m + 1 PROVE s \in T
    OBVIOUS
  <2>1. s # {}
    <3>1. Cardinality({}) = 0 /\ m + 1 # 0
      BY FS_EmptySet
    <3> QED BY <3>1
  <2> DEFINE x == pick[s]
  <2>2. x \in s
    BY <2>1 DEF Picks
  <2>3. IsFiniteSet(s) /\ s \ {x} \in SUBSET S
    BY <1>1
  <2> HIDE DEF x
  <2>4. Cardinality(s \ {x}) = (m + 1) - 1
    BY <2>2, <2>3, FS_RemoveElement
  <2>5. Cardinality(s \ {x}) = m
    BY <2>4
  <2>6. s \ {x} \in T
    BY <1>3, <2>3, <2>5
  <2> QED BY <2>1, <2>6 DEF x
<1>4. \A n \in Nat : n \in Good
  <2> HIDE DEF Good
  <2> QED BY <1>2, <1>3, ByInduction
<1> QED BY <1>1, <1>4

\* Of finitely many things one has the greatest value.
LEMMA GreatestValue ==
    ASSUME NEW S, IsFiniteSet(S), S # {}, NEW v, \A x \in S : v[x] \in Int
    PROVE  \E x \in S : \A y \in S : v[y] <= v[x]
<1> DEFINE pick == [s \in SUBSET S |-> CHOOSE x \in s : TRUE]
           T == {s \in SUBSET S : s # {} => \E x \in s : \A y \in s : v[y] <= v[x]}
<1>1. Picks(pick, S)
  BY DEF Picks
<1>2. {} \in T
  OBVIOUS
<1>3. ASSUME NEW s \in SUBSET S, s # {}, s \ {pick[s]} \in T
      PROVE  s \in T
  <2> DEFINE r == s \ {pick[s]}
             x == pick[s]
  <2>1. x \in s /\ s = r \cup {x} /\ r \in SUBSET S /\ (r # {} => \E z \in r : \A y \in r : v[y] <= v[z])
    BY <1>1, <1>3 DEF Picks
  <2> HIDE DEF r, x
  <2>2. \A y \in s : v[y] \in Int
    BY <2>1
  <2>3. \E z \in s : \A y \in s : v[y] <= v[z]
    BY <2>1, <2>2
  <2> QED BY <2>3
<1>4. \A s \in SUBSET S : s \in T
  <2> HIDE DEF T, pick
  <2> QED BY <1>1, <1>2, <1>3, BySubsets
<1> QED BY <1>4

\* A fold from the left, as the sequence of its results so far.
Largest(pick, n) == \A s \in SUBSET (1..n) : s # {} => pick[s] \in s /\ \A y \in s : pick[s] >= y
Folded(it, n, V, base, step, pick) ==
    /\ it[{}] = base
    /\ \A s \in SUBSET (1..n) : s # {} /\ it[s \ {pick[s]}] \in V => it[s] = step[<<it[s \ {pick[s]}], pick[s]>>]
LeftRun(f, n, V, base, step) ==
    f \in [0..n -> V] /\ f[0] = base /\ \A i \in 1..n : f[i] = step[<<f[i - 1], i>>]

LEMMA LeftFold ==
    ASSUME NEW n \in Nat, NEW V, NEW base \in V, NEW step, StepsIn(V, 1..n, step),
           NEW pick, Largest(pick, n), NEW it, Folded(it, n, V, base, step, pick)
    PROVE  \E f : LeftRun(f, n, V, base, step) /\ f[n] = it[1..n]
<1> DEFINE f == [i \in 0..n |-> it[1..i]]
           T == {i \in Nat : i <= n => f[i] \in V}
<1>1. f[0] = base
  <2>1. 1..0 = {} /\ 0 \in 0..n
    OBVIOUS
  <2>2. it[{}] = base
    BY DEF Folded
  <2> QED BY <2>1, <2>2
<1>2. ASSUME NEW i \in 1..n, f[i - 1] \in V PROVE f[i] = step[<<f[i - 1], i>>]
  <2> DEFINE s == 1..i
  <2>1. s \in SUBSET (1..n) /\ s # {} /\ s \ {i} = 1..(i - 1) /\ i - 1 \in 0..n /\ i \in 0..n
    <3>1. i \in s /\ i - 1 \in 0..n /\ i \in 0..n
      OBVIOUS
    <3>2. \A x \in s : x \in 1..n
      OBVIOUS
    <3>3. \A x : x \in s \ {i} <=> x \in 1..(i - 1)
      OBVIOUS
    <3> HIDE DEF s
    <3> QED BY <3>1, <3>2, <3>3
  <2>2. pick[s] = i
    <3>1. pick[s] \in s /\ \A y \in s : pick[s] >= y
      BY <2>1 DEF Largest
    <3>2. i \in s
      OBVIOUS
    <3> QED BY <3>1, <3>2
  <2>3. f[i - 1] = it[s \ {i}] /\ f[i] = it[s]
    BY <2>1
  <2> HIDE DEF f, s
  <2>4. it[s] = step[<<it[s \ {i}], i>>]
    BY <1>2, <2>1, <2>2, <2>3 DEF Folded
  <2> QED BY <2>3, <2>4
<1>3. 0 \in T
  BY <1>1
<1>4. \A i \in Nat : i \in T => i + 1 \in T
  <2> SUFFICES ASSUME NEW i \in Nat, i \in T, i + 1 <= n PROVE f[i + 1] \in V
    OBVIOUS
  <2>1. i + 1 \in 1..n /\ (i + 1) - 1 = i /\ f[i] \in V
    OBVIOUS
  <2> HIDE DEF f, T
  <2>2. f[i + 1] = step[<<f[i], i + 1>>]
    BY <1>2, <2>1
  <2> QED BY <2>1, <2>2 DEF StepsIn
<1>5. \A i \in Nat : i \in T
  <2> HIDE DEF T
  <2> QED BY <1>3, <1>4, ByInduction
<1>6. LeftRun(f, n, V, base, step)
  <2>1. \A i \in 0..n : f[i] \in V
    <3>1. \A i \in 0..n : i \in Nat /\ i <= n
      OBVIOUS
    <3> QED BY <1>5, <3>1
  <2>2. f \in [0..n -> V]
    <3>1. \A i \in 0..n : it[1..i] \in V
      BY <2>1
    <3> QED BY <3>1
  <2>3. \A i \in 1..n : i - 1 \in 0..n
    OBVIOUS
  <2> HIDE DEF f
  <2> QED BY <1>1, <1>2, <2>1, <2>2, <2>3 DEF LeftRun
<1>7. f[n] = it[1..n]
  OBVIOUS
<1> HIDE DEF f
<1> QED BY <1>6, <1>7

-----------------------------------------------------------------------------
(* Sums.                                                                   *)

\* As many tickets for an element as its weight.
Tickets(s, w) == UNION {{x} \X (1..w[x]) : x \in s}

LEMMA TicketsAdded ==
    ASSUME NEW s, NEW x, x \notin s, NEW w, w[x] \in Nat, IsFiniteSet(Tickets(s, w))
    PROVE  /\ IsFiniteSet(Tickets(s \cup {x}, w))
           /\ Cardinality(Tickets(s \cup {x}, w)) = w[x] + Cardinality(Tickets(s, w))
<1> DEFINE mine == {x} \X (1..w[x])
<1>1. IsFiniteSet({x}) /\ Cardinality({x}) = 1
  BY FS_Singleton
<1>2. IsFiniteSet(1..w[x]) /\ Cardinality(1..w[x]) = w[x]
  BY FS_Interval
<1>3. IsFiniteSet(mine) /\ Cardinality(mine) = 1 * w[x]
  BY <1>1, <1>2, FS_Product
<1>4. Tickets(s \cup {x}, w) = Tickets(s, w) \cup mine /\ Tickets(s, w) \cap mine = {}
  BY DEF Tickets
<1> HIDE DEF mine
<1>5. IsFiniteSet(Tickets(s, w) \cup mine)
      /\ Cardinality(Tickets(s, w) \cup mine) = Cardinality(Tickets(s, w)) + Cardinality(mine) - Cardinality({})
  BY <1>3, <1>4, FS_Union
<1>6. Cardinality({}) = 0 /\ Cardinality(Tickets(s, w)) \in Nat
  BY FS_EmptySet, FS_CardinalityType
<1>7. \A a, b, c \in Nat : a = 1 * b => c + a - 0 = b + c
  OBVIOUS
<1>8. Cardinality(mine) \in Nat
  BY <1>3, FS_CardinalityType
<1> QED BY <1>3, <1>4, <1>5, <1>6, <1>7, <1>8

LEMMA TicketsFinite ==
    ASSUME NEW S, IsFiniteSet(S), NEW w, \A x \in S : w[x] \in Nat
    PROVE  IsFiniteSet(Tickets(S, w))
<1> DEFINE pick == [s \in SUBSET S |-> CHOOSE x \in s : TRUE]
           T == {s \in SUBSET S : IsFiniteSet(Tickets(s, w))}
<1>1. Picks(pick, S)
  BY DEF Picks
<1>2. {} \in T
  BY FS_EmptySet DEF Tickets
<1>3. ASSUME NEW s \in SUBSET S, s # {}, s \ {pick[s]} \in T
      PROVE  s \in T
  <2> DEFINE r == s \ {pick[s]}
             x == pick[s]
  <2>1. x \in S /\ x \notin r /\ r \cup {x} = s /\ w[x] \in Nat /\ IsFiniteSet(Tickets(r, w))
    BY <1>1, <1>3 DEF Picks
  <2> HIDE DEF r, x
  <2>2. IsFiniteSet(Tickets(s, w))
    BY <2>1, TicketsAdded
  <2> QED BY <2>2
<1>4. \A s \in SUBSET S : s \in T
  <2> HIDE DEF T, pick
  <2> QED BY <1>1, <1>2, <1>3, BySubsets
<1> QED BY <1>4

Sums(g, S, w, pick) ==
    /\ g[{}] = 0
    /\ \A s \in SUBSET S : s # {} /\ g[s \ {pick[s]}] \in Nat => g[s] = w[pick[s]] + g[s \ {pick[s]}]

\* The union of a family.
UnionOf(f, s) == UNION {f[x] : x \in s}

\* A sum over a set counts the union of disjoint sets of the sizes added up.
LEMMA SumIsUnion ==
    ASSUME NEW S, IsFiniteSet(S), NEW pick, Picks(pick, S), NEW w, NEW f,
           \A x \in S : IsFiniteSet(f[x]) /\ Cardinality(f[x]) = w[x],
           \A x, y \in S : x # y => f[x] \cap f[y] = {},
           NEW g, Sums(g, S, w, pick)
    PROVE  \A s \in SUBSET S : IsFiniteSet(UnionOf(f, s)) /\ g[s] = Cardinality(UnionOf(f, s))
<1> DEFINE Right(s) == IsFiniteSet(UnionOf(f, s)) /\ g[s] = Cardinality(UnionOf(f, s))
           T == {s \in SUBSET S : Right(s)}
<1>1. {} \in T
  BY FS_EmptySet DEF UnionOf, Sums
<1>2. ASSUME NEW s \in SUBSET S, s # {}, s \ {pick[s]} \in T
      PROVE  s \in T
  <2> DEFINE r == s \ {pick[s]}
             x == pick[s]
  <2>1. x \in S /\ x \notin r /\ r \cup {x} = s /\ r \in SUBSET S /\ Right(r)
    BY <1>2 DEF Picks
  <2>2. g[r] \in Nat
    <3> HIDE DEF r
    <3> QED BY <2>1, FS_CardinalityType
  <2>3. g[s] = w[x] + g[r]
    BY <1>2, <2>2 DEF Sums
  <2> HIDE DEF r, x
  <2>4. UnionOf(f, s) = UnionOf(f, r) \cup f[x] /\ UnionOf(f, r) \cap f[x] = {}
    BY <2>1 DEF UnionOf
  <2>5. IsFiniteSet(f[x]) /\ Cardinality(f[x]) = w[x] /\ w[x] \in Nat
    BY <2>1, FS_CardinalityType
  <2> DEFINE A == UnionOf(f, r)
             B == f[x]
  <2> HIDE DEF A, B
  <2>6. IsFiniteSet(A \cup B) /\ Cardinality(A \cup B) = Cardinality(A) + Cardinality(B) - Cardinality({})
    BY <2>1, <2>4, <2>5, FS_Union DEF A, B
  <2>7. Cardinality({}) = 0
    BY FS_EmptySet
  <2>8. IsFiniteSet(UnionOf(f, s)) /\ Cardinality(UnionOf(f, s)) = g[r] + w[x]
    BY <2>1, <2>2, <2>4, <2>5, <2>6, <2>7 DEF A, B
  <2> QED BY <2>2, <2>3, <2>5, <2>8
<1>3. \A s \in SUBSET S : s \in T
  <2> HIDE DEF T
  <2> QED BY <1>1, <1>2, BySubsets
<1> QED BY <1>3

\* A sum over a set counts its tickets.
LEMMA SumIsCount ==
    ASSUME NEW S, IsFiniteSet(S), NEW pick, Picks(pick, S),
           NEW w, \A x \in S : w[x] \in Nat,
           NEW g, Sums(g, S, w, pick)
    PROVE  \A s \in SUBSET S : IsFiniteSet(Tickets(s, w)) /\ g[s] = Cardinality(Tickets(s, w))
<1> DEFINE f == [x \in S |-> {x} \X (1..w[x])]
<1>1. ASSUME NEW x \in S PROVE IsFiniteSet(f[x]) /\ Cardinality(f[x]) = w[x]
  <2>1. IsFiniteSet({x}) /\ Cardinality({x}) = 1
    BY FS_Singleton
  <2>2. IsFiniteSet(1..w[x]) /\ Cardinality(1..w[x]) = w[x] /\ w[x] \in Nat
    <3> DEFINE n == w[x]
    <3>1. n \in Nat
      OBVIOUS
    <3> HIDE DEF n
    <3>2. IsFiniteSet(1..n) /\ Cardinality(1..n) = n
      BY <3>1, FS_Interval
    <3> QED BY <3>1, <3>2 DEF n
  <2>3. IsFiniteSet({x} \X (1..w[x])) /\ Cardinality({x} \X (1..w[x])) = 1 * w[x]
    BY <2>1, <2>2, FS_Product
  <2> QED BY <2>2, <2>3
<1>2. \A x, y \in S : x # y => f[x] \cap f[y] = {}
  OBVIOUS
<1>3. \A s \in SUBSET S : UnionOf(f, s) = Tickets(s, w)
  BY DEF UnionOf, Tickets
<1> HIDE DEF f
<1>4. \A s \in SUBSET S : IsFiniteSet(UnionOf(f, s)) /\ g[s] = Cardinality(UnionOf(f, s))
  BY <1>1, <1>2, SumIsUnion
<1> QED BY <1>3, <1>4

=============================================================================
