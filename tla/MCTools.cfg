SPECIFICATION Spec
\* A tool ends; a file is as long as its bound allows.
CHECK_DEADLOCK FALSE
CONSTANTS
  \* A sealed bundle of three files, damaged twice on its way; up to three
  \* loose files whose names can collide.
  Members = {"a", "b"}
  Extra = "x"
  MaxUnpacked = 3
  MaxDamage = 2
  Stems = {"s"}
  Exts = {"jfr", "log"}
  MaxLoose = 3
  \* Two tids, each of which may be used again; three samples.
  Tids = {1, 2}
  MaxTicks = 2
  MaxBirths = 2
  MaxSamples = 3
  Threads = {1, 2, 3}
  NameOf <- MCNameOf
  Monitors = {"m"}
  MaxDumps = 2
  MaxUp <- MCMaxUp
  MaxHeap = 1
  MaxTotal = 2
  MaxStalls = 2
  MaxFiles = 2
  MaxPauses <- MCMaxPauses
  MaxIds <- MCMaxIds
  \* Three lines of two compiler threads.
  Compilers = {"c1", "c2"}
  MaxLines = 3
  \* Up to four operations, in two groups and in two blocks.
  MaxTime = 1
  MaxRows = 4
  Labels = {"a", "b"}
  Whole = 4
  Pcts = {2, 3, 4}
  BlockPct = 3
  MinBlock = 2
  Expected = 2
  \* Two repetitions, two pairs, or two JDKs.
  Reps = 2
  Modes = 1
  Outputs <- MCOutputs
  \* Four CPUs in two words of two digits, two IRQs, one of them managed.
  Cpus = {0, 1, 2, 3}
  WordBits = 2
  DigitBits = 1
  Irqs = {1, 2}
  Managed = {2}
  Affinities = {{0}, {2, 3}, {0, 1, 2, 3}}
  IdleStates = {1, 2}
  Deep = {2}
  MaxMoves = 1
  CpuLists <- MCCpuLists
  \* Two profiles of three frames, three samples in each period.
  Profiles = {1, 2}
  Frames = {1, 2, 3}
  WholePeriod = 12
  TopLimit = 2
  RowLimit = 2
  PeriodSamples = 3
  \* Two categories; the PID may be used again once.
  Categories = {1, 2}
  MaxKb = 1
  MaxLives = 2
  GapKb = 0
  \* Four units of time, a rotation.
  MaxWait = 4
  CpuInterval = 2
  MaxSleep = 2
  Pauses = {1, 2}
  LogLines = 2
  MaxGen = 1
  Plans <- MCPlans
  \* One row (the rows of a table do not meet) of two columns, three changes
  \* of the device or the CPUs.
  Rows = {1}
  Columns = {1, 2}
  First = 1
  MaxCount = 3
  MaxChanges = 3
  \* Two units of recording, two more to the deadline; three failures, two
  \* signals.
  Duration = 2
  Grace = 2
  MaxPoll = 2
  MaxFaults = 3
  MaxSignals = 2
  \* Three JVMs at once, two signals.
  Count = 3
  Refusals = {4}
  Failures = {5, 130}
  CutStatus = 143
  MaxStops = 2
  \* Three skills; three runs.
  Skills = {"a", "b", "r"}
  Ready = "r"
  Requires <- MCRequires
  MaxRuns = 3
  MaxOwn = 1
INVARIANTS
  TypeOK
  DamageIsReported
  ReportIsOfWholeInput
  SameNamesKept
  SeriesAddsUp
  DeltasInventNothing
  OwnerIsHolder
  StuckIsSameThread
  PausesTold
  AllocationIsBounded
  AlarmsTold
  TornLinesInventNothing
  
  ZeroIsEveryRun
  RecordingAccounted
  PlanIsAccepted
  AppliedIsIsolated
  ChangesAreReal
