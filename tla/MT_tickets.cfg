SPECIFICATION TicketsSpec
CONSTANTS
  r1 = r1
  r2 = r2
  r3 = r3
  a = a
  b = b
  Slot = {a, b}
  Row = {r1, r3}
  SlotOf <- SlotHere
  Free = {b}
  Grant = {p1}
  NoGrant = NoGrant
  Usable <- UsableHere
  Quantity <- QuantityHere
  Purchase = {p1}
  Req = {q1, q2}
  MaxStamp = 1
  MaxIntent = 1
  MaxSession = 1
SYMMETRY Perms
INVARIANTS TicketsTypeOK PaidIsPaidFor UsageAgreesWithRow
PROPERTIES LedgerSpec
CHECK_DEADLOCK FALSE
