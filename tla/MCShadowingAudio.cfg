\* A deleted recording does not come back: its behaviour ends there.
CHECK_DEADLOCK FALSE
SPECIFICATION ShadowingSpec
CONSTANTS
  d1 = d1
  d2 = d2
  w1 = w1
  w2 = w2
  t1 = t1
  t2 = t2
  t3 = t3
  o1 = o1
  o2 = o2
  v1 = v1
  v2 = v2
  Jobs <- MCJobs
  Workers <- MCWorkers
  Serves <- MCServes
  MaxAttempts <- MCMax
  Tokens <- MCTokens
  NoToken = NoToken
  Objects <- MCObjects
  Texts <- MCTexts
  NoText = NoText
  NoObject = NoObject
  NoJob = NoJob
SYMMETRY MCSymmetry
INVARIANTS
  ReadyAudioIsStored
