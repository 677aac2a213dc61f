SPECIFICATION FairSpec
\* The supervisor ends.
CHECK_DEADLOCK FALSE
CONSTANTS
  Helpers = {h1, h2}
  Budget = 1
  MaxDisk = 2
INVARIANTS
  ReasonIsTrue
  CompleteIsWhole
  NobodyLeft
PROPERTIES
  Ends
