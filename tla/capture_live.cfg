SPECIFICATION FairSpec
CONSTANTS
    p1 = p1 p2 = p2 m1 = m1 f1 = f1 r1 = r1 r2 = r2
    NoFp = NoFp None = None
    Slots <- TwoSlots
    NowTimes <- OneNow
    Fingerprints <- OneFingerprint
    Requests <- TwoRequests
    Procs <- OneProc
    Maint <- OneMaint
    Lists <- Parts
    FullLists <- Fixed
    Modes <- Bounded
    Limit = 1
    Triggers <- Own
    Events <- LiveEvents
    MaxEvents = 1
    MaxRows = 3
PROPERTIES
    SlotIsCaptured
    RunningRowEnds
CHECK_DEADLOCK FALSE
