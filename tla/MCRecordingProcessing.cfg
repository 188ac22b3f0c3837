SPECIFICATION RecordingSpec
CONSTANTS
  p1 = p1
  p2 = p2
  q1 = q1
  q2 = q2
  s = s
  d = d
  w1 = w1
  w2 = w2
  t1 = t1
  t2 = t2
  t3 = t3
  Jobs <- MCJobs
  Workers <- MCWorkers
  Serves <- MCServes
  MaxAttempts <- MCMax
  Tokens <- MCTokens
  NoToken = NoToken
  NoJob = NoJob
  ProcessJobs <- MCProcess
  StrengthsJobs <- MCStrengths
  ShadowJobs <- MCShadow
  StrengthsOf <- MCOf
SYMMETRY MCSymmetry
INVARIANTS
  TypeOK
  PendingWorkHasItsJob
  ActiveJobIsCurrent
  FailedIsRetryable
  PublishedAgrees
PROPERTIES
  StageNeverRegresses
