SPECIFICATION Spec
CONSTANTS
  v1 = v1
  v2 = v2
  a1 = a1
  a2 = a2
  b1 = b1
  Row = {a1, a2, b1}
  Trial <- TrialHere
  Person <- GuestsHere
  Who <- WhoOf
  Free = {}
  Token = {t1, t2}
  NoToken = NoToken
  Click = {c1}
  MaxSession = 3
  Limit = 2
  Life = 1
  Hold = 1
  Grace = 1
  MaxDelay = 1
SYMMETRY Perms
CONSTRAINT TwiceOrThrice
ACTION_CONSTRAINT CleanUpsEnd
INVARIANTS PaidWasCaptured SessionsCoverTheirRows PayableIsRecorded
