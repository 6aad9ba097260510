SPECIFICATION FairSpec
CONSTANTS
  v1 = v1
  v2 = v2
  a1 = a1
  a2 = a2
  b1 = b1
  Row = {v1, v2}
  Trial <- TrialHere
  Person <- GuestsHere
  Who <- WhoOf
  Free = {}
  Token = {t1, t2, t3}
  NoToken = NoToken
  Click = {c1}
  MaxSession = 2
  Limit = 1
  Life = 2
  Hold = 2
  Grace = 1
  MaxDelay = 1
PROPERTIES OverfullOnlyByLatePayment RecordedPaymentLands
