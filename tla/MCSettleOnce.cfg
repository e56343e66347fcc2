\* One settlement at a time, however often it is attempted, with crashes; the sweeper
\* takes one payment a pass.
SPECIFICATION FairSpec
CONSTANTS
  Payments <- MixedPayments
  Kind <- MixedKind
  Orders = {o1}
  Items <- MixedItems
  Clients = {c1}
  Settlers = {s1}
  Terms0 = 1
  Webhooks = TRUE
  Batch = 1
  MaxAttempts = 3
  MaxCrashes = 2
  None = None
PROPERTY KeepsPromise
PROPERTY TermStacked
PROPERTY PaymentResolved
CHECK_DEADLOCK FALSE
