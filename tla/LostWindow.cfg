SPECIFICATION Spec
CONSTANTS
  Windows = {1, 2}
  NoWindow = 0
  Executions = 2
  Steps = 2
INVARIANTS
  LosingTheWindowIsHarmless
CHECK_DEADLOCK FALSE
