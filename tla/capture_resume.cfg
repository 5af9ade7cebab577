SPECIFICATION Spec
CONSTANTS
    p1 = p1 p2 = p2 m1 = m1 f1 = f1 r1 = r1 r2 = r2
    NoFp = NoFp None = None
    Slots <- OneSlot
    NowTimes <- OneNow
    Fingerprints <- OneFingerprint
    Requests <- TwoRequests
    Procs <- TwoProcs
    Maint <- OneMaint
    Lists <- Parts
    FullLists <- Fixed
    Modes <- Checkpointed
    Limit = 1
    Triggers <- OnlyDue
    Events <- NoEvents
    MaxEvents = 3
    MaxRows = 2
PROPERTIES
    ResumesFromCheckpoint
CHECK_DEADLOCK FALSE
