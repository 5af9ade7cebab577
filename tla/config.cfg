SPECIFICATION Spec
CONSTANTS
    p1 = p1 p2 = p2
    tushare = tushare extra = extra t1 = t1 t2 = t2 x1 = x1
    fresh = fresh edited = edited off = off
    calendar = calendar next_day = next_day
    Absent = Absent
    Packages <- AllPackages
    Builtin <- BuiltinPackages
    Instances <- AllInstances
    Settings <- AllSettings
    Contracts <- AllContracts
    PackageOf <- PackageOfInstance
    DefaultOf <- DefaultInstance
    SingleInstance <- Single
    NewSettings = fresh
    Disabled <- OffSettings
    Toggle <- Switched
    Root <- RootOf
    DefaultSources <- Defaults
    Supports <- Declared
    SourceSets <- Orders
    Procs <- TwoProcs
    Deployments <- AdminOrRace
    Keep = 2
    KeepLog = 2
    MaxOps = 4
INVARIANTS
    AnswerJustified
    ProfilesComplete
PROPERTIES
    PublishedKept
    SavedIsKept
CHECK_DEADLOCK FALSE
