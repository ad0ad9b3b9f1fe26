SPECIFICATION FairSpec
CONSTANTS
  None = None
  Secret = secret
  k1 = k1
  k2 = k2
  i1 = i1
  i2 = i2
  Key = {k1, k2}
  Older <- MCOlder
  First <- MCFirst
  Isolate = {i1, i2}
  TokenTtl = 2
  RefreshSkew <- MCRefreshSkew
  AssertionTtl = 1
  RegistryTtl = 1
  Patience = 1
INVARIANTS
  AcceptedIsRecent
  BoundToTheSigner
  NeverUnbound
PROPERTIES
  RotationEnds
