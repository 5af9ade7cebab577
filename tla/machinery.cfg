SPECIFICATION MachinerySpec
CONSTANTS
    p1 = p1 p2 = p2 a1 = a1 a2 = a2 b1 = b1 A = A B = B
    Callers <- TwoCallers
    Requests <- ThreeRequests
    Capabilities <- TwoCapabilities
    CapabilityOf <- CapabilityOfRequest
    CapLimit <- SmallLimits
    TotalLimit = 4
    Ttl <- ShortLives
    PageSizes = {1, 2, 4}
    MaxNow = 1
    NoOne = NoOne
    k1 = k1 k2 = k2 close = close u = u v = v
    tushare = tushare opentdx = opentdx t1 = t1 t2 = t2 o1 = o1
    NoValue = NoValue
    Keys = {k1, k2}
    Fields = {close}
    Values = {u, v}
    HighLen = 2
    LowLen = 3
    Steps <- BuiltSteps
    NameLen = 3
    Weights <- SmallWeights
    SampleLen = 3
    Samples <- SmallValues
    CalendarLen = 5
    PlanCodes = {k1, k2}
    Stray = opentdx
    BatchSizes = {1, 2}
    Horizon = 4
    Weekend = {2}
    PlanWindow = 3
    NoScope = NoScope
    MaxOthers = 1
    YearMonths <- ThreeYears
    WeekLength = 3
    x1 = x1 y1 = y1 server = server worker = worker v1 = v1 v2 = v2 r1 = r1 r2 = r2
    EnvThreads = {x1, y1}
    ProcessOf <- ThreadOfEach
    Versions = {v1, v2}
    Missing = Missing
    ReqsOf <- OwnReqs
    RuntimeOf <- TwoReleases
    Unset = Unset
    NoThread = NoThread
    MaxInstalls = 1
    MaxCrashes = 1
    u1 = u1 w1 = w1
    ProductCount = 2
    LastMinute = 3
    Bundle <- SmallBundle
    Staged <- SmallStaged
    ApexTables <- SmallTables
    OwnerKeys <- SomeKeys
    OwnerRows <- SomeRows
    Unsound = Unsound
    InvalidApex <- SomeInvalid
    NoBar = NoBar
    NoFrozen = NoFrozen
    ReadQueries <- SomeQueries
    MaxGeneration = 3
INVARIANTS
    BytesBounded
    HonestErrors
    ResultIsReference
    RequestsExact
    ScheduledIsLatest
    ReadyIsBuilt
    PagesAreThePublication
SYMMETRY CallersAlike
CHECK_DEADLOCK FALSE
