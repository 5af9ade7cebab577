----------------------------- MODULE MCCaptureJob -----------------------------
(* Finite instances of CaptureJob. *)
EXTENDS CaptureJob, TLC

CONSTANTS p1, p2, m1, f1, r1, r2

TwoProcs == {p1, p2}
ProcSymmetry == Permutations(TwoProcs)
OneProc == {p1}
OneMaint == {m1}
OneSlot == {1}
TwoSlots == {1, 2}
OneNow == {101}
TwoNow == {101, 102}
OneFingerprint == {f1}

\* What a capture of two requests may be given; Growing: the whole list, and the
\* list without its last request; Parts: what is left of them.
TwoRequests == {r1, r2}
Fixed == {<<r1, r2>>}
Growing == {<<r1, r2>>, <<r1>>}
Parts == {<<>>, <<r1>>, <<r2>>, <<r1, r2>>}

Bounded == {"first", "checkpoint"}
Checkpointed == {"checkpoint"}

Overlap == {"due", "repair"}
Own == {"due", "manual"}
OnlyDue == {"due"}

NoEvents == {}
ContestedEvents == {"crash", "session", "request", "policy", "list"}
LiveEvents == {"crash", "db", "request", "interrupt"}

=============================================================================
