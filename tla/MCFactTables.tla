---------------------------- MODULE MCFactTables ----------------------------
(***************************************************************************)
(* The four modules about fact and reference tables for TLC.  They share   *)
(* no table: a behaviour takes the steps of one of them, picked in the     *)
(* initial state, and leaves the others where they start.                  *)
(***************************************************************************)
EXTENDS LiveBars, StockReference, ConceptFacts, FactWriters

CONSTANTS w1, w2, v1, v2, k1, k2, m1, m2, x1, c1, mootdx, opentdx

VARIABLE followed

tableVars == <<liveVars, stockVars, conceptVars, factVars, followed>>

mcWorkers == {w1, w2}
mcValues  == {v1, v2}
mcKeys    == {k1, k2}
mcTexts   == {x1}   \* beside the null one
mcMembers == {m1, m2}

\* A listed and a delisted stock, one of them without a date; the other label;
\* one code in two shards; an item of another market; a shard that fails.
It(c, l, d, f) == [code |-> c, label |-> l, listed |-> d, fits |-> f]
mcAnswers ==
  {[listed |-> {It("s1", "x", NoDay, TRUE)}, pending |-> {}, delisted |-> {It("s2", "y", 0, TRUE)}],
   [listed |-> {It("s1", "y", 0, TRUE)}, pending |-> {}, delisted |-> {}],
   [listed |-> {It("s1", "x", 0, TRUE)}, pending |-> {It("s1", "x", 0, TRUE)}, delisted |-> {}],
   [listed |-> {It("s1", "x", 0, FALSE)}, pending |-> {}, delisted |-> {}],
   [listed |-> {}, pending |-> {}, delisted |-> Failed]}
mcCatalogs == {{[code |-> "s2", label |-> "y", listed |-> NoDay]},
               {[code |-> "s1", label |-> "y", listed |-> NoDay],
                [code |-> "s2", label |-> "y", listed |-> NoDay]}}

mcQuoted == mcMembers \X {1, 2}

TablesInit ==
  /\ followed \in {"live", "stock", "concept", "writers"}
  /\ LiveInit /\ StockInit /\ ConceptInit /\ FactInit
  /\ followed # "writers" => family = "catalog"

TablesNext ==
  /\ UNCHANGED followed
  /\ \/ followed = "live" /\ LiveNext /\ UNCHANGED <<stockVars, conceptVars, factVars>>
     \/ followed = "stock" /\ StockNext /\ UNCHANGED <<liveVars, conceptVars, factVars>>
     \/ followed = "concept" /\ ConceptNext /\ UNCHANGED <<liveVars, stockVars, factVars>>
     \/ followed = "writers" /\ FactNext /\ UNCHANGED <<liveVars, stockVars, conceptVars>>

TablesSpec == TablesInit /\ [][TablesNext]_tableVars

Alike == Permutations(mcWorkers) \cup Permutations(mcValues) \cup Permutations(mcMembers)
=============================================================================
