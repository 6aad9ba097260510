SPECIFICATION FairSpec
CONSTANTS
  e = e
  f = f
  t = t
  EventRow <- EventRows
  Method <- MethodOf
  NoRow = NoRow
  Limit = 1
  After = 1
  MaxDelay = 1
  Row = {e}
  Click = {c1, c2}
  Job = {j1, j2}
INVARIANTS RefundedOnce RunningClickIsNotCleared
PROPERTIES RefundLands
