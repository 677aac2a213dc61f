SPECIFICATION Spec
CHECK_DEADLOCK FALSE
CONSTANTS
  Reps = 2
  Modes = 1
  Outputs <- MCOutputs
INVARIANT RunsPreserved
