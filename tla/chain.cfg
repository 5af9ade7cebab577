SPECIFICATION FairSpec
CONSTANTS
    tushare = tushare opentdx = opentdx akshare = akshare
    k1 = k1 k2 = k2 close = close
    Base = Base None = None Absent = Absent
    Sources <- Three
    Order <- ThreeInOrder
    Keys <- TwoKeys
    Fields <- OneField
    Needed <- OneField
    Builder = "each"
    Strategies <- All
    Timeout <- Timeouts
    Budget = 1
    Marks <- Dates
INVARIANTS
    PriorityRespected
    AllAskedInBudget
PROPERTIES
    KeepsPromise
    Terminates
CHECK_DEADLOCK FALSE
