SPECIFICATION Spec
CHECK_DEADLOCK FALSE
CONSTANTS
  Cpus = {0, 1, 2, 3, 4, 5, 6, 7}
  WordBits = 32
  DigitBits = 4
  Irqs = {1}
  Managed = {}
  Affinities <- MCAffinities
  IdleStates = {1}
  Deep = {1}
  CpuLists <- MCLists
  MaxMoves = 0
INVARIANT PlanIsADiff
