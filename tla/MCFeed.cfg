\* A branch and its counter, pages of two rows.
SPECIFICATION FairSpec
CONSTANTS
  Records <- BranchAndCounter
  Parent <- BranchOfCounter
  Stamped = {"branch", "counter"}
  Limit = 2
  MaxNumber = 3
  MaxFull = 1
  MaxFaults = 1
  None = None
INVARIANT TypeOK
INVARIANT MissedOnlyIfLateOrWithheld
INVARIANT CaughtUp
PROPERTY MirrorFollows
PROPERTY Converges
CHECK_DEADLOCK FALSE
