---------------------------------- MODULE Rows ----------------------------------
(***************************************************************************)
(* The items of a query: rows by key, and how two lists of items are       *)
(* merged (_merge_model_lists in runtime_core/executor.py and              *)
(* merge_model_lists in common.py).                                        *)
(*                                                                         *)
(* A row is a function from the fields besides the key to values.  Of a    *)
(* value only its origin is kept: the source that gave it, or Base for     *)
(* what was there before (rows of the cache, base items of the caller).    *)
(***************************************************************************)
CONSTANTS Sources, Keys, Fields, Base, None, Absent

ASSUME DataAssumption ==
    /\ Base \notin Sources /\ None \notin Sources /\ None # Base
    /\ Absent \notin [Fields -> Sources \cup {Base, None}]

Row(origins) == [Fields -> origins \cup {None}]
ItemsOf(origins) == [Keys -> Row(origins) \cup {Absent}]
Items == ItemsOf(Sources \cup {Base})

Nothing == [k \in Keys |-> Absent]

\* The value of a field, None if the row is missing.
Cell(items, k, f) == IF items[k] = Absent THEN None ELSE items[k][f]

\* Mutant: the later value wins.
MergeLast(high, low) ==
    [k \in Keys |->
        IF low[k] = Absent THEN high[k]
        ELSE IF high[k] = Absent THEN low[k]
        ELSE [f \in Fields |-> IF low[k][f] = None THEN high[k][f] ELSE low[k][f]]]

\* A new key is added, an empty field is filled, everything else stays.
Merge(high, low) ==
    [k \in Keys |->
        IF low[k] = Absent THEN high[k]
        ELSE IF high[k] = Absent THEN low[k]
        ELSE [f \in Fields |-> IF high[k][f] = None THEN low[k][f] ELSE high[k][f]]]

\* Nothing of these items is lost in those: no row, and no value of a field.
Extends(those, these) ==
    \A k \in Keys :
        /\ these[k] # Absent => those[k] # Absent
        /\ \A f \in Fields : Cell(these, k, f) # None => Cell(those, k, f) = Cell(these, k, f)
=============================================================================
