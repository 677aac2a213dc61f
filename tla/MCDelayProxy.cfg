SPECIFICATION FairSpec
\* The connection ends.
CHECK_DEADLOCK FALSE
CONSTANTS
  MaxQueue = 1
  Window = 1
  MaxChunks <- MCMaxChunks
INVARIANTS
  NoLossWhileOpen
PROPERTIES
  Delivers
  ImplementsStream
