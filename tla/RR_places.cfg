SPECIFICATION Spec
CONSTANTS
  e = e
  f = f
  t = t
  EventRow <- EventRows
  Method <- MethodOf
  NoRow = NoRow
  Limit = 1
  After = 1
  MaxDelay = 1
  Row = {e, f, t}
  Click = {c1}
  Job = {j1}
INVARIANTS TypeOK RefundedMeansReturned PlacedIsValidOrRefunded
 
