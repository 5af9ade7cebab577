SPECIFICATION Spec
CONSTANTS
    p1 = p1 p2 = p2 m1 = m1 f1 = f1 r1 = r1 r2 = r2
    NoFp = NoFp None = None
    Slots <- OneSlot
    NowTimes <- TwoNow
    Fingerprints <- OneFingerprint
    Requests <- TwoRequests
    Procs <- TwoProcs
    Maint <- OneMaint
    Lists <- Parts
    FullLists <- Growing
    Modes <- Checkpointed
    Limit = 1
    Triggers <- Overlap
    Events <- ContestedEvents
    MaxEvents = 2
    MaxRows = 2
INVARIANTS
    OneExecutor
    SuccessIsComplete
    RepairOnce
PROPERTIES
    LiveRunNotFailed
SYMMETRY ProcSymmetry
CHECK_DEADLOCK FALSE
