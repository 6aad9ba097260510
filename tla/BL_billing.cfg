SPECIFICATION Spec
CONSTANTS
  s1 = s1
  Sub = {s1}
  NoSub = NoSub
  Started = {s1, NoSub}
  MaxCycle = 2
  MaxCrash = 1
INVARIANTS TypeOK
PROPERTIES AskedTwiceOnlyByKnownSteps
CHECK_DEADLOCK FALSE
