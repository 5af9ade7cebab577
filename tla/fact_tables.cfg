SPECIFICATION TablesSpec
CONSTANTS
  w1 = w1  w2 = w2  v1 = v1  v2 = v2  k1 = k1  k2 = k2  c1 = c1
  m1 = m1  m2 = m2  x1 = x1
  mootdx = mootdx  opentdx = opentdx
  Workers <- mcWorkers
  Codes = {c1}
  Primary = mootdx
  Fallback = opentdx
  Prices <- mcValues
  Due = 1
  Window = 1
  Keep = 3
  NoBar = NoBar
  Callers <- mcWorkers
  StockCodes = {"s1", "s2"}
  Labels = {"x", "y"}
  NoLabel = NoLabel
  NoDay = NoDay
  Failed = Failed
  TushareAnswers <- mcAnswers
  Catalogs <- mcCatalogs
  OpenDays = {0}
  Moments = 1
  Refreshes = 2
  Sessions <- mcWorkers
  MaxChanges = 2
  MemberCodes <- mcMembers
  LastDate = 2
  Quoted <- mcQuoted
  StillOpen = StillOpen
  NoDaily = NoDaily
  Provided = Provided
  FactSessions <- mcWorkers
  Keys <- mcKeys
  Values <- mcTexts
  NullText = NullText
  NoFact = NoFact
SYMMETRY Alike
CHECK_DEADLOCK FALSE
INVARIANTS
  FinalizedOnce
  FactFollowsSelection
  PromotionsAudited
  OutputIsReference
  DerivedIsCurrent
  RowsHaveReference
  DayIsOneAnswer
