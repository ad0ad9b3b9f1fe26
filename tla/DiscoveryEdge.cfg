SPECIFICATION FairSpec
CONSTANTS
  a = a
  b = b
  q1 = q1
  q2 = q2
  k1 = k1
  Endpoint = {a}
  Tagged = {a}
  Edged = {a}
  Request = {q1, q2}
  Key = {k1}
  Lookups <- Issuing
  CacheTTL = 1
  MaxAge = 1
  SWR = 1
  Latency = 0
  Releases = 2
  Claims <- OwnId
  Horizon = 3
INVARIANTS
  CatalogConverges
PROPERTIES
  EveryLookupEnds
