\* Two offline edits of one record, and the cloud logs nothing amiss.
SPECIFICATION Spec
CONSTANTS
  Mutations <- TwoEdits
  Op <- EditOp
  Record <- EditRecord
  Records = {"branch"}
  Stamped = {"branch"}
  Requests = {q1}
  MaxEvents = 0
  MaxLate = 0
  None = None
INVARIANT CompletedTookEffect
CHECK_DEADLOCK FALSE
