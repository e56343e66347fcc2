\* A service on two days, two requests and a postponement at once.
SPECIFICATION Spec
CONSTANTS
  Slots = {t1, t2, t3}
  Services = {a}
  Days = {today, tomorrow}
  Today = today
  Before = 2
  Customers = {c}
  WalkIn = WalkIn
  Issues = {i1, i2}
  Postponers = {p1, p2}
  Capacity = 2
  MaxReach = 2
  MaxChanges = 1
  MaxMoves = 2
  None = None
SYMMETRY Alike
INVARIANT TypeOK
INVARIANT OverrunBounded
INVARIANT DuplicatesBounded
PROPERTY NewcomerLast
PROPERTY OrderKept
CHECK_DEADLOCK FALSE
