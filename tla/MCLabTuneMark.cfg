SPECIFICATION Spec
\* A plan that is refused leaves no state directory and nothing to do.
CHECK_DEADLOCK FALSE
CONSTANTS
  irq = irq
  knob = knob
  huge = huge
  old = old
  new = new
  foreign = foreign
  Paths <- MCPaths
  IrqPaths = {irq}
  HugePaths = {}
  Values = {old, new, foreign}
  Restorable = {old, new}
  Plan <- MCPlan
  Wanted <- MCWanted
  MaxFaults = 2
  MaxDeaths = 0
INVARIANT MarkIsTrue
