SPECIFICATION FairSpec
CONSTANTS
  r1 = r1
  r2 = r2
  r3 = r3
  a = a
  b = b
  Slot = {a}
  Row = {r1, r2}
  SlotOf <- SlotHere
  Free = {}
  Grant = {g1}
  NoGrant = NoGrant
  Usable <- UsableHere
  Quantity <- QuantityHere
  Purchase = {}
  Req = {q1, q2}
  MaxStamp = 1
  MaxIntent = 2
  MaxSession = 2
INVARIANTS ChargedTwiceOnlyByOverlap
PROPERTIES ChargeLands
CHECK_DEADLOCK FALSE
