\* Claims, takeover requests and overlapping sweep passes, with a crash in between.
SPECIFICATION Spec
CONSTANTS
  Users = {owner, ann, bob}
  Owners = {owner}
  Managers = {ann}
  Counters = {c1}
  Requests = {r1}
  Handlers = {h1, h2}
  Sweepers = {s1, s2}
  TTL = 0
  Window = 0
  Closers = {}
  Leavers = {bob}
  MaxRequests = 3
  MaxCrashes = 1
  None = None
INVARIANT TypeOK
INVARIANT SweptOnce
INVARIANT ApprovedMeansGranted
PROPERTY LiveHolderKeeps
SYMMETRY Symmetric
