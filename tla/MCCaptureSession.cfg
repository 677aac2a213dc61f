SPECIFICATION FairSpec
\* The scripts end.
CHECK_DEADLOCK FALSE
CONSTANTS
  Scripts = {a, b}
  NoOne = NoOne
  MaxSignals = 2
  MaxFaults = 1
INVARIANTS
  ExitZeroIsPublished
  SessionAccounted
PROPERTIES
  Ends
