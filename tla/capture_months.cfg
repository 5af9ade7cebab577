SPECIFICATION PlanSpec
CONSTANTS
    PlanCodes = {c1, c2}
    Stray = c9
    BatchSizes = {1, 2}
    Horizon = 4
    Weekend = {2}
    PlanWindow = 3
    NoScope = NoScope
    MaxOthers = 2
    YearMonths <- ThreeYears
    WeekLength = 3
INVARIANT
    MonthsOnce
