\* Order and liveness, with priorities, bound counters and a booking, from the state in which
\* two reclaimed tickets make a row deadlock possible.
SPECIFICATION FairFromNobodyCame
CONSTANTS
  Tickets <- MixedTickets
  Services <- MixedServices
  ServiceOf <- MixedServiceOf
  Number <- MixedNumber
  Priority <- MixedPriority
  Counters = {c1, c2}
  Bound <- BoundToAll
  Booked <- LastIsBooked
  Callers = {d1, d2}
  Handlers = {h1, h2}
  MaxTxRetries = 2
  Ops = {"reclaim"}
  MaxCalls = 2
  MaxRequests = 2
  None = None
INVARIANT SomeoneMoves
PROPERTY NoOvertaking
PROPERTY CallTerminates
CHECK_DEADLOCK FALSE
