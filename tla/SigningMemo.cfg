SPECIFICATION Spec
CONSTANTS
  Request = {q1, q2}
  KeyList = {A, Dup, Bad}
  Underivable = {Bad}
  Ambiguous = {Dup}
  Error = Error
  None = None
  MaxRotations = 2
INVARIANTS
  MemosAreCoherent
PROPERTIES
  ForgetsOnlyItsOwn
  ImplementsKeyService
  EveryRequestIsAnswered
CHECK_DEADLOCK FALSE
