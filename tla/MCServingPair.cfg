\* Two desks, two tickets of one service, and every route that writes a ticket by its id.
SPECIFICATION Spec
CONSTANTS
  Tickets <- PairTickets
  Services <- PairServices
  ServiceOf <- PairServiceOf
  Number <- PairNumber
  Priority <- PairPriority
  Counters = {c1, c2}
  Bound <- FreePool
  Booked = {}
  Callers = {d1, d2}
  Handlers = {h1}
  MaxTxRetries = 2
  Ops = {"cancel", "cancelActive", "batch", "status", "patch", "reclaim", "skip"}
  MaxCalls = 3
  MaxRequests = 2
  None = None
INVARIANT TypeOK
INVARIANT ScreenAgrees
INVARIANT CallInv
PROPERTY HandoverFromQueue
SYMMETRY Symmetric
CHECK_DEADLOCK FALSE
