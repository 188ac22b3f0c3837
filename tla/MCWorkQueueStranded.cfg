SPECIFICATION FairSpec
CONSTANTS
  j1 = j1
  j2 = j2
  w1 = w1
  w2 = w2
  Jobs <- OneJob
  Workers <- MCWorkers
  Serves <- ServesOneJob
  MaxAttempts <- OneJobMax
  Tokens = {1, 2, 3}
  NoToken = 0
PROPERTIES
  EveryJobSettles
