SPECIFICATION Spec
CONSTANTS
  None = None
  NotFound = NotFound
  NotAllowed = NotAllowed
  Ambiguous = Ambiguous
  Refused = Refused
  Blank = ""
  Wildcard = "*"
  ReservedNames = {"then"}
  ReservedPaths <- MCReservedPaths
  MaxTimeout = 9
  Service = {"notes", "mail"}
  Written <- MCWritten
  Foreign <- MCForeign
  RequestPaths <- MCRequestPaths
  Unnamed = "other"
INVARIANTS
  DefinedIsListed
  NoMethodIsLost
  RoutesDoNotDependOnOrder
  DocumentedIsServed
  DocumentedInputIsRead
  ListedIsCalled
