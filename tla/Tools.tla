-------------------------------- MODULE Tools -------------------------------
(***************************************************************************)
(* The tools that read, summarise and compare what was captured, and the   *)
(* those that prepare one, wait for it or repeat it.  They share no state  *)
(* and call nothing of each other, so a behaviour is one run of one of     *)
(* them, chosen at the start; the variables of the others keep one value.  *)
(* The constants of the tools are those of their modules, where each is    *)
(* explained; a name that two of them have is given a second one here.     *)
(***************************************************************************)
EXTENDS Readers

CONSTANTS
  MaxTime, MaxRows, Labels, Whole, Pcts, BlockPct, MinBlock, Expected,      (* Latency      *)
  Reps, Modes, Outputs,                                                     (* Runners      *)
  Cpus, WordBits, DigitBits, Irqs, Managed, Affinities, IdleStates, Deep,
  MaxMoves, CpuLists,                                                       (* LabPlan      *)
  Duration, Grace, MaxPoll, MaxFaults, MaxSignals,                          (* JfrCapture   *)
  Count, Refusals, Failures, CutStatus, MaxStops,                           (* Collectors   *)
  Skills, Ready, Requires, MaxRuns, MaxOwn                                  (* Install      *)

(* jfr-capture.sh: --duration is a positive number.                        *)
ASSUME RecordingAssumption ==
  Duration \in Nat /\ Grace \in Nat /\ MaxPoll \in Nat /\ MaxFaults \in Nat /\ MaxSignals \in Nat

(* install.sh, lines 56-77: names and dependencies that are no skills are  *)
(* refused, and readiness is one.                                          *)
ASSUME SkillsAssumption ==
  Ready \in Skills /\ Requires \in [Skills -> SUBSET Skills] /\ MaxRuns \in Nat /\ MaxOwn \in Nat

(* collect.sh: what fails exits with a status other than 0, and a wait that*)
(* is cut short with one above 128.                                        *)
ASSUME ChildrenAssumption ==
  /\ Count \in Nat /\ MaxStops \in Nat
  /\ Refusals \subseteq Nat \ {0} /\ Failures \subseteq Nat \ {0} /\ CutStatus \in Nat \ {0}

(* The runners refuse fewer than one repetition; what is printed is lines. *)
ASSUME RunsAssumption ==
  Reps \in Nat \ {0} /\ Modes \in Nat \ {0} /\ Outputs \subseteq Seq(STRING) \X Seq(STRING)

(* make-lab-plan.py: CPU lists are ranges of numbers, a word of a mask has *)
(* bits, and the IRQs and the idle states are numbered.                    *)
ASSUME HostAssumption ==
  /\ CpuLists \subseteq Seq(Nat \X Nat) /\ WordBits \in Nat \ {0}
  /\ IsFiniteSet(Irqs) /\ Irqs = 1..Cardinality(Irqs)
  /\ IsFiniteSet(IdleStates) /\ IdleStates = 1..Cardinality(IdleStates)

(* latency-report.py: PCTS are parts of a whole, and a block has operations. *)
ASSUME PercentileAssumption ==
  /\ Whole \in Nat \ {0} /\ Pcts \subseteq 1..Whole /\ BlockPct \in Pcts
  /\ MinBlock \in Nat \ {0} /\ MaxTime \in Nat

(* The rows and the moves that a file and a log can have are numbers too. *)
ASSUME MoreBoundsAssumption == MaxRows \in Nat /\ MaxMoves \in Nat

VARIABLES
  task,      (* the tool that runs                                         *)
  header, csv,
  program, at, runs, saved, rows, summary, status,
  step, args, host, todo, plan, moves,
  place, mode, asked, queue, entry, act, verdict, theirs, tries,
  command, side, started, left, warned, jvm, undone, recording, file, recorded, seconds, faults,
  signals, cut, damaged,
  parent, index, worst, children, rc, stops

L == INSTANCE Latency
R == INSTANCE Runners
P == INSTANCE LabPlan
T == INSTANCE JfrCapture WITH
  next <- command, exit <- left, target <- jvm, queue <- undone, output <- recorded, clock <- seconds
B == INSTANCE Collectors
E == INSTANCE Install

-----------------------------------------------------------------------------
lVars == <<header, csv>>
rVars == <<program, at, runs, saved, rows, summary, status>>
pVars == <<step, args, host, todo, plan, moves>>
eVars == <<place, mode, asked, queue, entry, act, verdict, theirs, tries>>
tVars == <<command, side, started, left, warned, jvm, undone, recording, file, recorded, seconds,
           faults, signals, cut, damaged>>
bVars == <<parent, index, worst, children, rc, stops>>
vars == <<task, iVars, sVars, dVars, gVars, jVars, lVars, rVars, pVars, cVars, nVars, wVars, eVars,
          hVars, tVars, bVars>>

NoLatency == header = 0 /\ csv = 0
NoRunner ==
  program = 0 /\ at = 0 /\ runs = 0 /\ saved = 0 /\ rows = 0 /\ summary = 0 /\ status = 0
NoPlan == step = 0 /\ args = 0 /\ host = 0 /\ todo = 0 /\ plan = 0 /\ moves = 0
NoInstall ==
  /\ place = 0 /\ mode = 0 /\ asked = 0 /\ queue = 0 /\ entry = 0 /\ act = 0 /\ verdict = 0
  /\ theirs = 0 /\ tries = 0
NoRecording ==
  /\ command = 0 /\ side = 0 /\ started = 0 /\ left = 0 /\ warned = 0 /\ jvm = 0 /\ undone = 0
  /\ recording = 0 /\ file = 0 /\ recorded = 0 /\ seconds = 0 /\ faults = 0 /\ signals = 0 /\ cut = 0
  /\ damaged = 0
NoParent ==
  parent = 0 /\ index = 0 /\ worst = 0 /\ children = 0 /\ rc = 0 /\ stops = 0

Init ==
  /\ task \in {"intake", "sample", "dump", "gc", "jit", "latency", "runner", "plan", "compare",
              "memory", "wait", "install", "counters", "jfr", "parent"}
  /\ IF task = "intake" THEN I!Init ELSE NoIntake
  /\ IF task = "sample" THEN S!Init ELSE NoSample
  /\ IF task = "dump" THEN D!Init ELSE NoDump
  /\ IF task = "gc" THEN G!Init ELSE NoGcLog
  /\ IF task = "jit" THEN J!Init ELSE NoJitLog
  /\ IF task = "latency" THEN L!Init ELSE NoLatency
  /\ IF task = "runner" THEN R!Init ELSE NoRunner
  /\ IF task = "plan" THEN P!Init ELSE NoPlan
  /\ IF task = "compare" THEN C!Init ELSE NoCompare
  /\ IF task = "memory" THEN N!Init ELSE NoMemory
  /\ IF task = "wait" THEN W!Init ELSE NoWait
  /\ IF task = "install" THEN E!Init ELSE NoInstall
  /\ IF task = "counters" THEN H!Init ELSE NoCounters
  /\ IF task = "jfr" THEN T!Init ELSE NoRecording
  /\ IF task = "parent" THEN B!Init ELSE NoParent

Next ==
  /\ UNCHANGED task
  /\ IF task = "intake" THEN I!Next ELSE UNCHANGED iVars
  /\ IF task = "sample" THEN S!Next ELSE UNCHANGED sVars
  /\ IF task = "dump" THEN D!Next ELSE UNCHANGED dVars
  /\ IF task = "gc" THEN G!Next ELSE UNCHANGED gVars
  /\ IF task = "jit" THEN J!Next ELSE UNCHANGED jVars
  /\ IF task = "latency" THEN L!Next ELSE UNCHANGED lVars
  /\ IF task = "runner" THEN R!Next ELSE UNCHANGED rVars
  /\ IF task = "plan" THEN P!Next ELSE UNCHANGED pVars
  /\ IF task = "compare" THEN C!Next ELSE UNCHANGED cVars
  /\ IF task = "memory" THEN N!Next ELSE UNCHANGED nVars
  /\ IF task = "wait" THEN W!Next ELSE UNCHANGED wVars
  /\ IF task = "install" THEN E!Next ELSE UNCHANGED eVars
  /\ IF task = "counters" THEN H!Next ELSE UNCHANGED hVars
  /\ IF task = "jfr" THEN T!Next ELSE UNCHANGED tVars
  /\ IF task = "parent" THEN B!Next ELSE UNCHANGED bVars

Spec == Init /\ [][Next]_vars

-----------------------------------------------------------------------------
(* Each tool's variables have their types. *)
TypeOK ==
  /\ task = "intake" => I!TypeOK
  /\ task = "sample" => S!TypeOK
  /\ task = "dump" => D!TypeOK
  /\ task = "gc" => G!TypeOK
  /\ task = "jit" => J!TypeOK
  /\ task = "latency" => L!TypeOK
  /\ task = "runner" => R!TypeOK
  /\ task = "plan" => P!TypeOK
  /\ task = "compare" => C!TypeOK
  /\ task = "memory" => N!TypeOK
  /\ task = "wait" => W!TypeOK
  /\ task = "install" => E!TypeOK
  /\ task = "counters" => H!TypeOK
  /\ task = "jfr" => T!TypeOK
  /\ task = "parent" => B!TypeOK

(* The properties are stated and explained in the modules of the tools.    *)

(* A bundle analysed with exit 0 is the one that was sealed.               *)
DamageIsReported == task = "intake" => I!DamageIsReported

(* No report is written over a copy that was cut short, and an archive that*)
(* is refused leaves nothing.                                              *)
ReportIsOfWholeInput == task = "intake" => I!ReportIsOfWholeInput /\ I!RefusedLeavesNothing

(* What has the name of something else never replaces it: loose files all  *)
(* reach the tree, and an entry of the user survives every installation.   *)
SameNamesKept ==
  /\ task = "intake" => I!SameNamesKept
  /\ task = "install" => E!ForeignKept

(* The intervals of a thread add up although unchanged counters are left   *)
(* out, and the changes of NMT's categories although absent ones are.      *)
SeriesAddsUp ==
  /\ task = "sample" => S!SeriesAddsUp
  /\ task = "memory" => N!CategoriesAddUp

(* No difference of two readings exceeds what was run or counted between   *)
(* them, or what one process allocated, and no trigger fires for less than *)
(* it names.                                                               *)
DeltasInventNothing ==
  /\ task = "sample" => S!DeltasInventNothing
  /\ task = "memory" => N!GapIsOfOneProcess
  /\ task = "wait" => W!FiredIsTrue
  /\ task = "counters" => H!CountersAreReal

(* The owner of a contended monitor, where nobody waits on it, holds it.   *)
OwnerIsHolder == task = "dump" => D!OwnerIsHolder

(* A stuck thread is one thread, whatever its name.                        *)
StuckIsSameThread == task = "dump" => D!StuckIsSameThread

(* Every pause is told once, wherever the log was rotated, and they all    *)
(* fit into the time of the log.                                           *)
PausesTold == task = "gc" => G!PausesTold /\ G!FractionIsPossible

(* The allocation estimate is a lower bound.                               *)
AllocationIsBounded == task = "gc" => G!AllocationIsBounded

(* Stalls and full collections are counted; a pause or a load that is      *)
(* waited for is not missed.                                               *)
AlarmsTold ==
  /\ task = "gc" => G!AlarmsTold
  /\ task = "wait" => W!PauseIsHeard /\ W!LoadIsHeard

(* Torn lines are never counted as events that were not printed.           *)
TornLinesInventNothing == task = "jit" => J!TornLinesInventNothing

(* The percentiles of one report agree with each other, whatever the order *)
(* of the rows.                                                            *)
ReportAgrees == task = "latency" => L!ReportAgrees /\ L!RowOrderIsIrrelevant

(* Exit 0 means that every command or collector ran to its end, every      *)
(* skill asked for is there, or gone, whole, and OUTPUT is a whole         *)
(* recording; what is summarised can be inspected.                         *)
ZeroIsEveryRun ==
  /\ task = "runner" => R!ZeroIsEveryRun /\ R!SummaryIsBacked
  /\ task = "install" => E!ZeroIsInstalled
  /\ task = "jfr" => T!ZeroIsRecorded
  /\ task = "parent" => B!ZeroIsAll

(* No recording and no collector goes on unaccounted for.                  *)
RecordingAccounted ==
  /\ task = "jfr" => T!RecordingAccounted
  /\ task = "parent" => B!FewLeftBehind

(* A plan with entries is one that lab-tune.sh takes.                      *)
PlanIsAccepted == task = "plan" => P!PlanIsAccepted

(* A comparison misleads by no more than its tables leave out.             *)
ChangesAreReal == task = "compare" => C!ChangesAreReal /\ C!FlagsOppose

(* An applied plan leaves nothing on the hot CPUs and nothing to plan.     *)
AppliedIsIsolated == task = "plan" => P!AppliedIsIsolated
=============================================================================
