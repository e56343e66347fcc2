\* Settlements that race for the payments of two checkouts, while these are created and
\* take a hardware order from each other.
SPECIFICATION Spec
CONSTANTS
  Payments <- MixedPayments
  Kind <- RivalKind
  Orders = {o1}
  Items <- RivalItems
  Clients = {c1, c2}
  Settlers = {s1, s2}
  Terms0 = 1
  Webhooks = TRUE
  Batch = 1
  MaxAttempts = 2
  MaxCrashes = 1
  None = None
INVARIANT TypeOK
INVARIANT LedgerInv
INVARIANT PaidOrderApproved
INVARIANT PaidIsActive
INVARIANT GrantsBounded
PROPERTY OutcomeKept
SYMMETRY Symmetric
CHECK_DEADLOCK FALSE
