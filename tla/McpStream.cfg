SPECIFICATION McpSpec
CONSTANTS
  Size = {1, 2}
  MaxItems = 3
  MaxBytes = 4
  ProgressBytes = 2
  MaxMade = 4
CHECK_DEADLOCK FALSE
INVARIANTS
  AnswerIsTrue
PROPERTIES
  SessionIsReleased
