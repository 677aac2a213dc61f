------------------------------- MODULE Readers ------------------------------
(***************************************************************************)
(* The tools that read: what was captured, a log, or, while they wait, the *)
(* host.  The first half of Tools, with their constants and variables, and *)
(* the value that the variables keep while the tool does not run.          *)
(***************************************************************************)
EXTENDS Naturals, Sequences, FiniteSets

CONSTANTS
  Members, Extra, MaxUnpacked, MaxDamage, Stems, Exts, MaxLoose,            (* Intake       *)
  Tids, MaxTicks, MaxBirths, MaxSamples,                                    (* ThreadSample *)
  Threads, NameOf, Monitors, MaxDumps,                                      (* ThreadDump   *)
  Profiles, Frames, WholePeriod, TopLimit, RowLimit, PeriodSamples,         (* Compare      *)
  Categories, MaxKb, MaxLives, GapKb,                                       (* NativeMemory *)
  Rows, Columns, First, MaxCount, MaxChanges,                               (* HostCounters *)
  MaxUp, MaxHeap, MaxTotal, MaxStalls, MaxFiles, MaxPauses, MaxIds,         (* GcLog        *)
  Compilers, MaxLines,                                                      (* JitLog       *)
  MaxWait, CpuInterval, MaxSleep, Pauses, LogLines, MaxGen, Plans           (* Triggers     *)

(* A bundle has finitely many files. *)
ASSUME BundleAssumption == IsFiniteSet(Members) /\ MaxDamage \in Nat /\ MaxLoose \in Nat

(* Threads have numbers, as they are listed; "none" is no monitor.         *)
ASSUME MonitorsAssumption == Threads \subseteq Nat /\ "none" \notin Monitors

(* Tids are numbers; a window has a beginning and an end.                  *)
ASSUME ReadingAssumption ==
  /\ IsFiniteSet(Tids) /\ Tids = 1..Cardinality(Tids) /\ Cardinality(Tids) > 0
  /\ MaxTicks \in Nat /\ MaxSamples \in Nat

(* A table has finitely many columns, and NMT's categories are in order.   *)
ASSUME CountersAssumption ==
  /\ IsFiniteSet(Columns) /\ First \in Columns /\ MaxCount \in Nat
  /\ IsFiniteSet(Categories) /\ Categories = 1..Cardinality(Categories) /\ MaxKb \in Nat /\ MaxLives \in Nat /\ GapKb \in Nat

(* compare-bundles.py: a table and a comparison have at least one row.     *)
ASSUME ComparisonAssumption ==
  /\ IsFiniteSet(Frames) /\ Profiles \subseteq Nat /\ IsFiniteSet(Profiles)
  /\ WholePeriod \in Nat /\ TopLimit \in Nat \ {0} /\ RowLimit \in Nat \ {0}

(* collect.sh: a trigger is KIND:VALUE; a round takes the second it sleeps *)
(* at least, and the CPU time is sampled every five.                       *)
ASSUME WaitAssumption ==
  /\ Plans \subseteq Seq([kind : {"file", "cpu", "gcpause"}, value : Nat])
  /\ MaxSleep \in Nat \ {0} /\ CpuInterval \in Nat \ {0} /\ Pauses \subseteq Nat

VARIABLES
  pc, input, expect, tree, sums, flaw, damage, loose, out, bundle, done,
  inventory, problems, report, exit,
  reader, process, thread, births, doing, next, readings, written, last, code,
  state, entered, on, frame, dumps,
  stage, samples, tables, result,
  life, lives, tracked, committed, outside, phase, shot, shots,
  table, counts, present, online, opened, closed, moment, before, happened, renewed, seen, changes,
  collector, up, used, total, freed, nextId, cycle, open, paused, stalls, files,
  pending, begun, output, torn,
  wait, triggers, startAt, nth, offset, size, prev, fired, ending, clock, spent, target,
  flagged, gclog, gen, armed, mark, outgrown

I == INSTANCE Intake
S == INSTANCE ThreadSample
D == INSTANCE ThreadDump
C == INSTANCE Compare WITH Whole <- WholePeriod, MaxSamples <- PeriodSamples
N == INSTANCE NativeMemory
H == INSTANCE HostCounters
G == INSTANCE GcLog
J == INSTANCE JitLog
W == INSTANCE Triggers WITH MaxLines <- LogLines

(* The log of each collector ends at some uptime. *)
ASSUME UptimeAssumption == MaxUp \in [DOMAIN G!Kinds -> Nat]

(* What else bounds the model are numbers; a thread has run and a process  *)
(* has had the PID before the tool starts, and a log has a file.           *)
ASSUME BoundsAssumption ==
  /\ MaxTicks \in Nat \ {0} /\ MaxBirths \in Nat /\ MaxLives \in Nat \ {0}
  /\ MaxDumps \in Nat /\ PeriodSamples \in Nat /\ MaxChanges \in Nat
  /\ MaxHeap \in Nat /\ MaxFiles \in Nat \ {0} /\ MaxPauses \in [DOMAIN G!Kinds -> Nat]
  /\ MaxLines \in Nat /\ LogLines \in Nat /\ MaxGen \in Nat

-----------------------------------------------------------------------------
iVars == <<pc, input, expect, tree, sums, flaw, damage, loose, out, bundle, done,
           inventory, problems, report, exit>>
sVars == <<reader, process, thread, births, doing, next, readings, written, last, code>>
dVars == <<state, entered, on, frame, dumps>>
cVars == <<stage, samples, tables, result>>
nVars == <<life, lives, tracked, committed, outside, phase, shot, shots>>
hVars == <<table, counts, present, online, opened, closed, moment, before, happened, renewed, seen,
           changes>>
gVars == <<collector, up, used, total, freed, nextId, cycle, open, paused, stalls, files>>
jVars == <<pending, begun, output, torn>>
wVars == <<wait, triggers, startAt, nth, offset, size, prev, fired, ending, clock, spent, target,
           flagged, gclog, gen, armed, mark, outgrown>>

NoIntake ==
  /\ pc = 0 /\ input = 0 /\ expect = 0 /\ tree = 0 /\ sums = 0 /\ flaw = 0 /\ damage = 0
  /\ loose = 0 /\ out = 0 /\ bundle = 0 /\ done = 0 /\ inventory = 0 /\ problems = 0
  /\ report = 0 /\ exit = 0
NoSample ==
  /\ reader = 0 /\ process = 0 /\ thread = 0 /\ births = 0 /\ doing = 0 /\ next = 0
  /\ readings = 0 /\ written = 0 /\ last = 0 /\ code = 0
NoDump == state = 0 /\ entered = 0 /\ on = 0 /\ frame = 0 /\ dumps = 0
NoCompare == stage = 0 /\ samples = 0 /\ tables = 0 /\ result = 0
NoMemory ==
  /\ life = 0 /\ lives = 0 /\ tracked = 0 /\ committed = 0 /\ outside = 0
  /\ phase = 0 /\ shot = 0 /\ shots = 0
NoCounters ==
  /\ table = 0 /\ counts = 0 /\ present = 0 /\ online = 0 /\ opened = 0 /\ closed = 0 /\ moment = 0
  /\ before = 0 /\ happened = 0 /\ renewed = 0 /\ seen = 0 /\ changes = 0
NoGcLog ==
  /\ collector = 0 /\ up = 0 /\ used = 0 /\ total = 0 /\ freed = 0 /\ nextId = 0 /\ cycle = 0
  /\ open = 0 /\ paused = 0 /\ stalls = 0 /\ files = 0
NoJitLog == pending = 0 /\ begun = 0 /\ output = 0 /\ torn = 0
NoWait ==
  /\ wait = 0 /\ triggers = 0 /\ startAt = 0 /\ nth = 0 /\ offset = 0 /\ size = 0 /\ prev = 0
  /\ fired = 0 /\ ending = 0 /\ clock = 0 /\ spent = 0 /\ target = 0 /\ flagged = 0 /\ gclog = 0
  /\ gen = 0 /\ armed = 0 /\ mark = 0 /\ outgrown = 0
=============================================================================
