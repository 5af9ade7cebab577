SPECIFICATION GapSpec
CONSTANTS
    GapCodes = {"c1"}
    GapDates = {1, 2, 3}
    Auditors = {"a"}
    Scheduler = "s"
    WindowCount = 2
    FreshDates = 2
    MaxRequests = 1
    MaxTurns = 1
INVARIANTS
    ResolvedIsWhole
PROPERTIES
    BookSettles
