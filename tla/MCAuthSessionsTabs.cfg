SPECIFICATION Spec
CONSTANTS
  a = a
  b = b
  s1 = s1
  s2 = s2
  k1 = k1
  k2 = k2
  k3 = k3
  Tabs <- TwoTabs
  Sessions <- MCSessions
  Tokens <- MCTokens
  NoSession = NoSession
  NoToken = NoToken
SYMMETRY MCSymmetry
INVARIANTS
  SerializedRefresh
