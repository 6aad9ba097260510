SPECIFICATION Spec
CONSTANTS
  v = v
  m = m
  Row = {v, m}
  Member <- MemberHere
  Free = {}
  Req = {q1, q2}
  MaxIntent = 1
  MaxSession = 1
  Limit = 1
SYMMETRY Perms
INVARIANTS TypeOK PaidIsPaidFor
PROPERTIES OverfullOnlyByUncheckedWrite CanceledEventStaysEmpty CanceledComesBackByRight PaidIsLostOnlyByCleanUp
CHECK_DEADLOCK FALSE
