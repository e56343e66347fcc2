\* A webhook and a poll of the same SMS pack.
SPECIFICATION Spec
CONSTANTS
  Payments <- OnePayment
  Kind <- OneSms
  Orders = {}
  Items <- OneWithOrders
  Clients = {c1}
  Settlers = {s1, s2}
  Terms0 = 0
  Webhooks = TRUE
  Batch = 25
  MaxAttempts = 2
  MaxCrashes = 0
  None = None
INVARIANT GrantedOnce
CHECK_DEADLOCK FALSE
