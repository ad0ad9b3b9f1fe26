SPECIFICATION Spec
CONSTANTS
  Call = {c1, c2, c3}
  None = None
INVARIANTS
  HeldOnlyWhileInUse
  FailuresAreForgotten
PROPERTIES
  ForgetsOnlyFailures
  NoCallOnceDisposed
  EveryCallEnds
CHECK_DEADLOCK FALSE
