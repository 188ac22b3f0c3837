SPECIFICATION MCFairSpec
CONSTANTS
  u1 = u1
  u2 = u2
  p1 = p1
  w1 = w1
  w2 = w2
  r1 = r1
  r2 = r2
  k1 = k1
  k2 = k2
  e1 = e1
  e2 = e2
  d1 = d1
  d2 = d2
  Assets <- MCAssets
  Makers = {w1, w2}
  Erasers = {e1}
  DeleteJobs = {d1}
  DeleteTries = 2
  MaxFaults = 1
  Uploads <- MCUploads
  Requests = {r1, r2}
  Keys = {k1, k2}
  GuestKeys = {}
  TurnKeys = {k1, k2}
  TurnLimit = 1
  Phrases <- MCPhrases
  MaxTries = 2
INVARIANTS
  LibraryTypeOK
  AttachedIsStored
  AbortFencesCompletion
  TurnBudget
  ReadyAudioPlays
  GeneratedIsRegistered
PROPERTIES
  UnusedIsErased
  UploadSettles
CHECK_DEADLOCK FALSE
