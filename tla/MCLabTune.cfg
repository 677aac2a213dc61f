SPECIFICATION FairSpec
\* A plan that is refused leaves no state directory and nothing to do.
CHECK_DEADLOCK FALSE
CONSTANTS
  irq = irq
  knob = knob
  huge = huge
  old = old
  new = new
  foreign = foreign
  Paths <- MCPaths
  IrqPaths = {irq}
  HugePaths = {huge}
  Values = {old, new, foreign}
  Restorable = {old, new}
  Plan <- MCPlan
  Wanted <- MCWanted
  MaxFaults = 2
  MaxDeaths = 1
INVARIANTS
  RecordedBeforeWritten
  MarkedMeansRestored
PROPERTIES
  ImplementsContract
  DeathIsRecoverable
