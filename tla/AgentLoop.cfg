SPECIFICATION LoopSpec
CONSTANTS
  Machines = {m1, m2}
  None = None
  MaxTokens = 2
  Host = m1
  Minute = 2
  Burst = 2
  Base = 5
  Jitter = 1
  MaxBackoff = 3
  Ladder = 2
  MaxSpool = 2
INVARIANTS
  TypeOK
  
  RetiredTokensDead
  OperatorWordStands
  
  SpoolOnBackoff
PROPERTIES
  ScansRecur
  SpoolEmpties
CHECK_DEADLOCK FALSE
