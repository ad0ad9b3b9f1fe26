SPECIFICATION FairSpec
CONSTANTS
  Session = {s1, s2}
  Call = {c1, c2}
  Instance = {i1}
  None = None
  Asked = {None, 3}
  DefaultMs = 1
  MaxMs = 2
  Ceiling = 2
INVARIANTS
  HandlersAreNotShared
  LateValuesAreReleased
  StreamSourcesAreReleased
  AtMostOneLateItem
PROPERTIES
  NoAnswerPastTheDeadline
  EveryBoundedCallIsAnswered
CHECK_DEADLOCK FALSE
