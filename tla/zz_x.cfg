SPECIFICATION LimitsSpec
CONSTANTS
    w1 = w1 w2 = w2 tushare = tushare akshare = akshare store_db = store_db
    Workers <- TwoWorkers
    Providers <- AllProviders
    Concurrency <- SharedConcurrency
    Global = 1
    Rate <- OneRated
    MaxRetries <- SomeRetries
    Window = 2
    MaxRuns = 3
    t1 = t1 t2 = t2
    c1 = c1 c2 = c2 c3 = c3 c4 = c4
    NoConn = NoConn
    Threads <- ThreeThreads
    Conns <- FourConns
    Size = 2
    QueueSize = 2
    RollsBack = FALSE
    Faults <- AllFaults
    MaxFaults = 1
    MaxCalls = 3
    BothRuns = 2
    BothCalls = 2
INVARIANTS
    SlotsExact
    BurstBounded
    CountedExactly
    OneUser
    WaiterCanWake
PROPERTIES
    RunEnds
    EveryCallServed
CHECK_DEADLOCK FALSE
