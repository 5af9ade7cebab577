SPECIFICATION Spec
CONSTANTS
  Callers = {p1, p2}
  s1 = s1
  s2 = s2
  Scopes <- MCScopes
  Requests <- MCRequests
  Published <- MCPublished
  LastDate = 2
  Ttl = 1
  MaxNow = 1
  MaxAsks = 3
INVARIANTS
  DatedComplete
  AnswersAskedFor
  AnswersAreStored
CHECK_DEADLOCK FALSE
SYMMETRY MCSymmetry
