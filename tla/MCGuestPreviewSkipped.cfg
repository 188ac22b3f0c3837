SPECIFICATION MCSpec
CONSTANTS
  w1 = w1
  w2 = w2
  p1 = p1
  p2 = p2
  MaxTurns = 2
  Spoken = {"said"}
  Heard = {"heard"}
  Workers = {w1, w2}
  Previewers = {p1, p2}
  MaxTries = 2
  MaxFaults = 1
INVARIANT
  SkippedIsLeftOut
CHECK_DEADLOCK FALSE
