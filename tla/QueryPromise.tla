------------------------------ MODULE QueryPromise ------------------------------
(***************************************************************************)
(* What asking the sources promises to a capability query, whatever the    *)
(* merge strategy is and whichever sources fail: one answer, in which      *)
(* nothing of the base items is lost or replaced, and of which the rest    *)
(* comes from the sources.                                                 *)
(***************************************************************************)
EXTENDS Rows

VARIABLES base, answer, done

Init ==
    /\ base \in ItemsOf({Base}) /\ answer = base
    /\ done = FALSE

Answer ==
    /\ ~done /\ done' = TRUE
    /\ answer' \in Items /\ Extends(answer', base)
    /\ UNCHANGED base

Spec == Init /\ [][Answer]_<<base, answer, done>>
=============================================================================
