SPECIFICATION Spec
CHECK_DEADLOCK FALSE
CONSTANTS
  Threads = {1, 2, 3}
  NameOf <- MCNames
  Monitors = {"m"}
  MaxDumps = 1
INVARIANT OwnerIsTrue
