SPECIFICATION FairSpec
\* The script ends.
CHECK_DEADLOCK FALSE
CONSTANTS
  MaxFiles = 2
  MaxBytes = 3
  MaxCapture = 2
  Largest = 3
  MaxRounds = 3
  MaxSignals = 2
  MaxDeletes = 1
  MaxFaults = 1
INVARIANTS
  SessionStopped
  RetentionBounded
PROPERTIES
  StopEnds
