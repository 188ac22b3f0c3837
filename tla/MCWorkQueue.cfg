SPECIFICATION FairSpec
CONSTANTS
  j1 = j1
  j2 = j2
  w1 = w1
  w2 = w2
  Jobs <- MCJobs
  Workers <- MCWorkers
  Serves <- MCServes
  MaxAttempts <- MCMax
  Tokens = {1, 2, 3}
  NoToken = 0
INVARIANTS
  QueueTypeOK
  QueueInv
  ExclusiveHolder
PROPERTIES
  LiveLeaseIsKept
  OnlyHolderReports
  ContractKept
  LostDeliveryIsReclaimed
  SettlesOrStrands
