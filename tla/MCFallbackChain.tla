---------------------------- MODULE MCFallbackChain ----------------------------
(* Finite instances of FallbackChain. *)
EXTENDS FallbackChain, TLC

CONSTANTS tushare, opentdx, akshare, k1, k2, close

Three == {tushare, opentdx, akshare}
ThreeInOrder == <<tushare, opentdx, akshare>>

\* The first source may take longer than the budget, all together surely may.
Timeouts == [s \in Sources |-> IF s = tushare THEN 2 ELSE 1]

TwoKeys == {k1, k2}
OneField == {close}
Dates == {0, 1}

All == {"priority_fallback", "append_dedupe", "first_success", "raw_passthrough",
        "freshest_wins", "field_consensus"}
=============================================================================
