SPECIFICATION FairSpec
CONSTANTS
  None = None
  k1 = k1
  k2 = k2
  Clicks = {k1, k2}
  Online = {k1}
  Tickets = {1}
  Issued = {}
  Actions = {"complete", "recall"}
  MaxAttempts = 2
  MaxEvents = 1
INVARIANT TypeOK
INVARIANT OncePerClick
 
CHECK_DEADLOCK FALSE
 
