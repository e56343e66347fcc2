\* Lost requests and answers, failures, crashes of both sides.
SPECIFICATION FairSpec
CONSTANTS
  Mutations <- MakeAndEdit
  Op <- MakeAndEditOp
  Record <- OneRecord
  Records = {"branch"}
  Stamped = {"branch"}
  Requests = {q1, q2}
  MaxEvents = 1
  MaxLate = 1
  None = None
INVARIANT TypeOK
INVARIANT NoneOvertakenInReplay
PROPERTY KeepsPromise
PROPERTY Delivered
CHECK_DEADLOCK FALSE
