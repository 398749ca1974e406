SPECIFICATION Spec
CONSTANTS
  Machines = {m1}
  None = None
  MaxTokens = 2
INVARIANT MustReenroll
CHECK_DEADLOCK FALSE
