\* Liveness: a client that closes for good, a request that nobody answers.
SPECIFICATION FairSpec
CONSTANTS
  Users = {owner, ann}
  Owners = {owner}
  Managers = {}
  Counters = {c1}
  Requests = {r1}
  Handlers = {h1}
  Sweepers = {s1, s2}
  TTL = 1
  Window = 0
  Closers = {ann}
  Leavers = {}
  MaxRequests = 2
  MaxCrashes = 1
  None = None
PROPERTY OrphanFreed
PROPERTY RequestResolved
