SPECIFICATION Spec
\* The wait ends.
CHECK_DEADLOCK FALSE
CONSTANTS
  Plans <- MCPlans
  MaxWait = 4
  CpuInterval = 2
  MaxSleep = 2
  Pauses = {1, 2}
  MaxLines = 2
  MaxGen = 1
INVARIANTS
  AnyOneFires
