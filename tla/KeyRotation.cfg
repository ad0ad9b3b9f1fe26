SPECIFICATION Spec
CONSTANTS
  old = old
  new = new
  r1 = r1
  r2 = r2
  s1 = s1
  s2 = s2
  Kid = {old, new}
  Replica = {r1, r2}
  Service = {s2}
  PoP = {p1}
  KeyLists <- RotationLists
  InitKeys <- Unrotated
  TokenTTL = 1
  MaxAge = 0
  SWR = 1
  JwksTTL = 1
  Skew = 1
  offset <- FirstAhead
  Latency = 1
  SessionLife = 1
  SessionCap = 1
  Window <- Documented
  MayRevoke = {old}
  Horizon = 1000
VIEW View
INVARIANTS
  OutstandingTokensVerify
  RetiredKeysExpire
  RotationInv
