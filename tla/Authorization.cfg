SPECIFICATION Spec
CONSTANTS
  None = None
  Plane = plane
  s1 = s1
  s2 = s2
  u1 = u1
  read = read
  write = write
  get = get
  put = put
  files = files
  mail = mail
  Service = {s1, s2}
  User = {u1}
  Target = {files, mail}
  Scope = {read, write}
  Method = {get, put}
  Request = {r1}
  Definitions <- MCDefinitions
  GrantTables <- MCGrantTables
INVARIANTS
  ServiceOnlyMeansService
  AttributionIsTrue
  IngressMeansThePlane
  CallsWithinGrants
PROPERTIES
  VerdictIsEntitlement
