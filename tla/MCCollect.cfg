SPECIFICATION FairSpec
\* The collector exits, and so do its helpers.
CHECK_DEADLOCK FALSE
CONSTANTS
  Options <- MCOptions
  MaxSignals = 2
INVARIANTS
  EvidenceKept
  ArchiveVerifies
  StepsTellTruth
  NothingSensitiveShipped
PROPERTIES
  Terminates
