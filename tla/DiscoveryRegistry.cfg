SPECIFICATION Spec
CONSTANTS
  a = a
  b = b
  q1 = q1
  q2 = q2
  k1 = k1
  Endpoint = {a, b}
  Tagged = {a}
  Edged = {}
  Request = {q1, q2}
  Key = {k1}
  Lookups <- Issuing
  CacheTTL = 1
  MaxAge = 0
  SWR = 0
  Latency = 1
  Releases = 2
  Claims <- AMayClaimB
  Horizon = 1000
VIEW View
SYMMETRY Symmetric
INVARIANTS
  CatalogConverges
  GapsAreRecent
  SnapshotsAreCoherent
