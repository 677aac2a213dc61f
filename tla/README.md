# A verification project for optimization-skills

The repository is a collection of agent skills for JVM performance work on Linux: documents, and
helper scripts in bash, Python and Java that capture profiles, collect evidence from hosts, tune a
lab host and put it back, and summarise and compare what was captured. This directory holds TLA+
models of the helpers that have something to lose (a host left tuned, a profiler left running,
evidence destroyed, secrets shipped) or something to get wrong (a report that says what did not
happen), TLC runs that check them on small instances, and TLAPS proofs that hold for every instance.

## 1. Inventory

| Component | State | Operations | What is hard | Module |
| --- | --- | --- | --- | --- |
| `lab-tune.sh` | host knobs, `rollback.tsv`, `meta.txt`, two bash arrays | `apply`, `rollback` (`plan`, `status`, `allowlist` only read) | traps between any two commands, death anywhere, refused writes, `set -u`/`set -e` | `LabTune` |
| `make-lab-plan.py` | none | host values to plan | lists and masks in the kernel's formats, values that change before the plan is applied | `LabPlan` |
| `collect.sh` | bundle directory, manifest, `.rc` files, archive, `bg_pids` | wait for a trigger, context, background helpers, sampler, wait, scrub, checksums, archive, split | three kinds of processes, signals cutting `wait` short, sealing while a helper writes; triggers that share what an earlier look has left | `Collect`, `ThreadSample`, `Triggers`, `Collectors` |
| `capture.sh` | a session in the target JVM, a staged file | start, wait, publish, stop in the EXIT trap | another capture of the target, a second signal during cleanup, target exit | `CaptureSession` |
| `jfr-capture.sh` | one recording in the target JVM, a file on its side | start, poll, copy, stop and verify in the EXIT trap | commands carried out after their `jcmd` has timed out, PID reuse, deadlines | `JfrCapture` |
| `rotating-jfr.sh` | list and total of published profiles, current child, session | capture, publish, account, prune, stop | windows between `&`, `$!`, `wait` and the trap; three limits in one loop | `RotatingJfr` |
| `bounded-capture.py` | child process group, output directory, manifest | supervise: timeout, storage limit, signal, end | several ends within one poll, `finally` overriding the reason, files that vanish while they are measured | `Supervise` |
| `TcpDelayProxy` | per direction: a bounded queue, a chunk in each thread's hands; sockets | accept, connect, read, put, take, write, close | blocking on full buffers, half-close, threads that outlive their peer | `DelayProxy` |
| `analyze-bundle.py` | a copy of the bundle, a report | intake, integrity, one section for each kind of evidence | damage in transfer, names that collide, counters of threads that come and go, counters of devices and CPUs that do, monitors and waits | `Intake`, `ThreadSample`, `ThreadDump`, `HostCounters`, `Compare` |
| `compare-bundles.py` | none | two analyses to one table | tables that are cut, profiles that do not correspond | `Compare` |
| `gc-log-summary.py`, `jit-log-summary.py` | none | logs to counts | rotation, torn lines, repeated names | `GcLog`, `JitLog` |
| `native-memory-snapshot.sh`, `nmt-compare.py` | a snapshot directory | read one file after the other, compare two | PID reuse, a `jcmd` that is stopped, what one snapshot lacks | `NativeMemory` |
| `runqueue-delta.py`, `bpf-capture.sh` | two snapshots; staged output | read, wait, read, subtract | PID reuse between the snapshots | `ThreadSample` |
| `latency-report.py`, `recovery-compare.py`, `JitterMeter` | rows; logs of runs; a bucket histogram | percentiles, groups, blocks; run again and again | ranks, order of rows, runs that are killed | `Latency`, `Runners` |
| `profile-compare.py`, `compatibility-matrix.py` | logs of runs | run pairs, run a matrix | the same | `Runners` |
| `install.sh` | entries of two skill directories, markers | link, copy, uninstall | ownership, a death between copy and marker | `Install` |
| `build-kit.sh` | a staging directory | copy, checksum, archive | - | - |
| JFR reports, readiness probes, vendor helpers, teaching programs, validation | none | read and print | text formats | - |

Interactions. `collect.sh` runs `jfr-capture.sh`, `capture.sh` and `latency-host-audit.sh` as
background processes under a subshell each (`bg_step`), talks to them only by TERM and by the files
they leave, and packages those files. The capture scripts talk to the target JVM through `jcmd` or
`asprof`, which keep a session inside the target that outlives the script. `lab-tune.sh` consumes
what `make-lab-plan.py` prints; `LabPlan` models both sides of that file format. `TcpDelayProxy`
stands between two applications under test. `analyze-bundle.py` consumes what `collect.sh` packaged,
calls `gc-log-summary.py` and `nmt-compare.py`, and hands `analysis.json` to `compare-bundles.py`.

What makes each correct: `lab-tune.sh` must be able to put the host back from any point; the
collector must never lose evidence, never ship secrets, never claim more than it did, and end; a
capture must stop the session it started, and publish only whole files; a supervisor must leave
nobody running and tell the true reason; the proxy must delay and nothing else; a report must not
say of the system what was not so, wherever its input was cut, torn, reordered or damaged.

`PROJECT.json` lists the hazards, each at its line, and the properties that cover it.

## 2. Plan

Done: 1. `LabTuneAbs`, `LabTune`, `LabTuneProofs`. 2. `Collect`, `CollectProofs`. 3. `StreamAbs`,
`DelayProxy`, `DelayProxyProofs`. 4. `RotatingJfr`, `RotatingJfrProofs`. 5. `CaptureSession`,
`CaptureSessionProofs`. 6. `Supervise`, `SuperviseProofs`. 7. The tools that read and compare:
`Intake`, `ThreadSample`, `ThreadDump`, `Compare`, `NativeMemory`, `HostCounters`, `GcLog`, `JitLog` and `Triggers`
(which waits and reads), joined by `Readers`, and `Latency`, `Runners`, `LabPlan`, joined with them by `Tools`.
8. Programs that change something, but share nothing with others, in the same `Tools`: `Collectors`, `Install`,
`JfrCapture`.
9. `ReadersProofs` and `ToolsProofs`; of `Collect` what the seal contains; the limits of `RotatingJfr`.

Left: `JitterMeter`'s buckets against a definition by sorting; the sections of `analyze-bundle.py` on processes,
pressure, crashes and class histograms.

## 3. The modules

Operators whose comment starts with "Mutant" are wrong forms of the definition that follows them.
They document which mistake each property would catch; no behaviour uses them.

### LabTune and LabTuneAbs

State: `live` (the knobs), `originals`, `record` (`rollback.tsv`), `status` (last `status=` line),
`paths` and `origs` (the two bash arrays), loop indices, and `reported` (the "FAILED to restore"
lines still standing). `pc` names the next command whose effect a trap, a death or a later run
can see. Preflight reads all originals and refuses values the allowlist could not restore; each entry
is recorded, tracked in the two arrays (two commands on one line), written and read back; a
refused IRQ is skipped, any other failure runs `rollback_applied`. `Interrupt` is the trap, possible
before every step taken while it is set; `Die` is any end without a trap. The kernel takes a value,
refuses the write, or holds something else. Restoring writes fail at most `MaxFaults` times. The
huge-page pool may hold any count and still verifies, as in `verify_value`.
Left out: two commands at once (the documented procedure is sequential), a reboot, and knobs that
change one another.

`LabTuneAbs` is the contract: a write-ahead log. A knob changes only while the log protects it, a
line leaves only while the knob has that value, a marked log is final.

### Collect

State: the collector (`pc`, `launch`, `bgPids`, `interrupted`), each helper's subshell (`sub`) and process
(`helper`), what the files below the bundle hold (`content`, `rc`), the manifest's lines (`steps`, `scrub`,
`manifest`), and the outputs (`sums`, `archived`, `dir`, `archive`, `parts`). A helper is in preflight
(no trap, TERM kills it), capturing (TERM starts its cleanup) or stopping (a second TERM aborts the
cleanup). A subshell that gets TERM before it has set its trap dies and orphans the helper; one that
waits forwards it and waits again; a second TERM ends that second wait. A signal to the collector
runs `on_interrupt` and, in `wait`, ends the wait. `lost` is a history variable: the helpers the
collector stopped waiting for while they ran, and the recorders (the JVM, the profiler in it) that did not
answer the stop of a capture that failed or was cut off; such a recorder may write its file at any later
moment (`LateWrite`). What the properties say of the seal is stated for runs in which `lost` is empty
(section 5 says what happens otherwise). Files are abstracted to
none/partial/whole/scrubbed. The GC logs, vendor artifacts and digest happen inside `WriteManifest`:
nothing else looks at them.

### DelayProxy and StreamAbs

One connection. Per direction: kernel buffer to the reader (`inbox`), the reader and the chunk it holds,
the queue, the writer and its chunk, the kernel buffer to the other application (`outbox`), what that
application has read (`received`). Closing a stream closes the socket, in both directions, drops
what was not read and may (by the reset) drop what was written. Applications write, read, shut their
output or close. The delay is not modelled: a writer may go on at any time, which includes every
delay. `StreamAbs`: the n-th chunk received is the n-th chunk sent.

### RotatingJfr

From `trap` to exit, one action per command whose effect is visible, the `asprof` process and its session
as environment: it attaches, writes, ends well or fails and may leave the session behind; TERM kills
it while it attaches and ends the capture early later. Signals run `stop_capture` between commands,
cut either `wait` short, or (Ctrl-C) kill the `sleep` of the poll loop, after which `set -e` leaves through the
EXIT trap. After `trap -` they kill. The operator may delete profiles; the target may exit.

### CaptureSession

Several `capture.sh` that share one target and one OUTPUT. Per script: `pc` (the next command), `childPid`,
`started` (`profiling_started`), `exit`, the child `asprof`, its `partial` file, `warned`; shared: `output`
(whose artifact has the name), `session` (whose asprof started it), `target`. The checks before the
traps that change nothing are in the two that matter, `CheckFree` and `CheckInactive`. A signal runs
`stop_capture` after the current command or cuts the wait short, and again when a signal comes while it
waits for the child; in the EXIT trap it ends the script there. asprof attaches or is refused (there is one
session), ends well or fails and may leave its session; `asprof stop` ends whatever session the target
has. Commands fail when the target is gone and at most `MaxFaults` times otherwise. The directory belongs
to the user and the partial's name to the script, so nobody else touches either; `rotating-jfr.sh`
and `asprof` by hand are not among the contenders, but another `capture.sh` does to a session all they do.
`cut` is a history variable: where a signal found the script.

### Supervise

`bounded-capture.py` from the launch to the exit: the poll reads the command, the signals, the size of
the output and the clock, in this order, and whatever ends it leads through SIGTERM to the group, SIGKILL
to the group, the reaping of the command and a last measurement to the manifest. The command and its
helpers fork, write, delete and exit between any two of these steps and may ignore SIGTERM. A deletion
under `size()` raises `OSError`. `full` remembers that the output had reached its budget, `ended` how the
command ended. `Die` is a signal without a handler.

### Tools and the modules it joins

These programs share no state. `Tools` chooses one of them and then behaves as its module does, so that
one run checks all of them; each has its `Init`, its `Next` and its properties in a module of its own, and
`Tools` repeats the properties by name. `Readers` is its first half: the constants, variables and instances of
the nine tools whose invariants `ReadersProofs` proves; that module does not need the others. The constants
are those of the modules, given under one name each, with the assumptions the proofs use, named for what
they are about (`BundleAssumption`, `ReadingAssumption`, `WaitAssumption`, ...); `MCTools` gives them their small
values. Totals of tables are cardinalities of sets of units, so that facts about them follow from facts
about finite sets, and what a loop over lines counts is stated of the set of lines. Where the order of tests
matters it is an IF or the guards exclude each other, as they must for a proof. The modules of `Readers` extend no more of the community modules than they use: each instance
multiplies what the prover has to look at. What they have in common is the shape of the model: the system
the program looks at is in the model (the JVM, its threads, the kernel, the transport of a bundle),
produces what the program reads, and the properties compare what the program says with what was.

- `Intake` (`analyze-bundle.py` up to the report): the sealed bundle is damaged on its way, in members,
  sums or manifest, or the archive is cut or carries a link; the run validates, copies file by file
  (each copy may fail), verifies, reports. Loose files get numbers in front of names that are taken.
- `ThreadSample` (the sampler of `collect.sh` with `section_timeseries`; `thread_deltas`; `runqueue-delta.py`):
  one thread after the other is read while threads run, end, and give their tid to new ones, and the
  process gives its PID away.
- `ThreadDump` (`parse_thread_dump`, `section_thread_dumps`, `hot_stacks`): threads enter, block, wait, are
  notified, start and end; a dump is one step, as a safepoint is.
- `GcLog` (`gc-log-summary.py`): four collectors with the pauses each prints, a log that is rotated between
  any two lines, files named in any order or twice, an uptime window.
- `JitLog` (`jit-log-summary.py`): compiler threads whose lines are torn into one another.
- `Latency` (`latency-report.py`): every small file of rows, in any order; ranks, groups, blocks, exit codes.
- `Runners` (`recovery-compare.py`, `profile-compare.py`, `compatibility-matrix.py`): each run of the command
  ends with any status and output, is killed at the limit or cannot be started. What a killed command
  printed comes back from `subprocess.run` as bytes.
- `LabPlan` (`make-lab-plan.py` with the parts of `lab-tune.sh` that take the plan): the kernel's CPU lists
  and masks, read file by file while `irqbalance` may move an IRQ, then an apply that is one step. It takes
  a plan that has an entry, no path twice and allowed values only, and changes nothing if a current value is
  one that `rollback` would not be allowed to write (KSM at 2, a `stat_interval` of 0).
- `Compare` (`collapsed_top` of `analyze-bundle.py`, `compare-bundles.py`): samples of two periods, tables cut
  to their first rows, the comparison cut again.
- `NativeMemory` (`native-memory-snapshot.sh`, `nmt-compare.py`): a JVM that commits memory inside and outside
  NMT, ends and is started anew between any two reads of a snapshot; `jcmd` may be stopped at any line.
- `HostCounters` (`snapshot_proc` of `collect.sh`, the deltas of `analyze-bundle.py`): tables of the kernel with
  rows and columns; devices are replugged and count from 0 again, CPUs go offline and come back with
  their counts, a snapshot is unreadable or lost.
- `Triggers` (the wait of `collect.sh`): the collector looks once a second at its deadline, the target and each
  trigger in turn; a `--start-at` further away than `--max-wait` is refused; the target uses its CPU, writes pauses to a log that is rotated at any point (also
  between `stat` and `tail`), and exits. `rss:` reads a condition as `file:` does and has no branch of
  its own. The clock is in the model, since the cpu trigger compares rates over it.
- `Collectors` (`collect.sh` with several `--pid`): the parent plans, starts one collector each and waits for one
  after the other; they end at any point with any status. A signal before the trap is set ends the
  parent alone; afterwards it is passed on to all and may end one `wait`. The PID of a collector that has
  ended is not used again before the parent leaves, else the trap would reach a stranger.
- `Install` (`install.sh`): links, copies and uninstalls of any set of skills, one after the other, each of
  which may fail or be killed at any command. Users make entries of the same names between the runs.
  One of the two target directories is modelled (they are treated alike, one after the other).
  `--dry-run` changes nothing.
- `JfrCapture` (`jfr-capture.sh` from its traps to its exit): the JVM carries out commands one after the other,
  also those whose `jcmd` has been stopped by its timeout, may be unable to write the file, may exit, and
  its PID may be used again by another JVM. The recording ends by its duration, whether or not the
  script is looking. `side` says whether the target has another mount namespace and the file is copied.

## 4. Runs

| Run | Question | Bounds and why they are enough |
| --- | --- | --- |
| `labtune` | Is the host always recoverable, is the contract kept? | three knobs of the three kinds, so that every kind of failure meets every position; three values (old, new, outside the allowlist); two restoring failures (one in the apply, one in the retry); one death |
| `collect` | Is evidence kept, clean, verified; do the steps tell the truth; does it end? | five command lines that meet each scrub outcome and the split; two signals, which reach the second `wait` |
| `delay_proxy` | Is each direction a stream, is what was read delivered? | queue and kernel buffers of one chunk, two chunks up and one down: every stage can be full while the next chunk waits |
| `rotating` | Session, retention, termination | limits of two files and three units, recordings of up to three units with a budget of two, so that each limit is met alone and together; two signals, one deletion, one failing command |
| `capture` | Do captures of one target respect each other's OUTPUT, and is what they leave accounted for? | two scripts (each meets the other at every command), two signals (the second reaches a cleanup), one failing command |
| `supervise` | Is the reason true, complete whole, nobody left, does it end? | two helpers (one ends while another goes on), an output that can pass its budget by one |
| `tools` | Does each tool say only what was so? | three files, two of them damaged at once; three samples of two tids; two dumps of three threads, two of one name; three pauses in two files; three lines of two compiler threads; four operations in two groups and blocks; two runs or pairs; four CPUs in two words; two profiles of three frames; two snapshots with the PID used twice; two CPUs that go and come, and a device that is replugged, in three changes; a log of two lines rotated once, and two seconds between samples of the CPU; three collectors and two signals; three runs over two skills, one of which requires the other, and readiness; a recording of two seconds with three failures and two signals. In each case the smallest number at which two of a kind can be confused with each other and with a third |
| `labtune_mark`, `trigger_shared`, `dump_owner`, `runners_lost`, `plan_diff` | Five places where a text of the repository says more than the code does (section 5) | the smallest instance that shows it |

`CHECK_DEADLOCK FALSE` stands in the configurations because every one of these programs ends. There
is no symmetry: the knobs, files and directions have roles.

What the properties of `tools` mean is written at their definitions; what they leave open is part of
them: `DamageIsReported` speaks of bundles whose sums were not touched or whose digest was given,
`SameNamesKept` of names that carry no number yet, `PausesTold` lets a concurrent cycle repeat a pause
within one file, `AllocationIsBounded` asks for pauses at different uptimes, `RowOrderIsIrrelevant` for
different intended times, `ChangesAreReal` for profiles of one name, `CategoriesAddUp` for captures that did
not fail. `PauseIsHeard` (in `AlarmsTold`) says that a line was compared with the value of some gcpause trigger,
not of each (section 5: in rising order even the first one may see less), and is not for what a rotation has
taken away or hidden in a file already as long as what was read of the one before. `CountersAreReal` (in
`DeltasInventNothing`) allows what a CPU that came online had counted before, and asks for `proc-start` where
the code takes a missing row as 0. `ZeroIsRecorded` (in `ZeroIsEveryRun`) excepts a target that could not write
its file, which the script cannot see; `RecordingAccounted` excepts what was warned of, a target that is gone,
and a second signal in the cleanup.

Fairness. A started script keeps running (the scheduler), a capture ends at its duration (`-d`,
`duration=`), threads that can run do (the JVM), applications read, a deadline passes, SIGKILL kills.
`lab-tune.sh rollback` is rerun until the directory is marked, which is what its last message asks for;
only `DeathIsRecoverable` uses it. Signals, deaths, deletions, sends, target exits and everything a
supervised command does are never fair. The tools of `tools` have no liveness property: each is a loop
over a file.

## 5. Where the code departs from its texts

Shown by a run:

- `MarkIsTrue`: a failed restore followed by an interrupt is marked as rolled back
  (`lab-tune.sh:150,176-187,208`), so the retry the operator needs is refused.
- `AnyOneFires`: of several gcpause triggers only one sees a line of the log, since each look moves the offset
  that all of them share (`collect.sh:470`), while `collect.sh:30` says that any one fires. The cpu triggers
  share their sample in the same way (line 461).
- `OwnerIsTrue`: a thread in `Object.wait()` is named as the owner of the monitor it has released
  (`analyze-bundle.py:1148`).
- `RunsPreserved`: a run that is killed after it has printed something stops `recovery-compare.py` with a
  `TypeError` (line 40), without a log of that run and without results. `profile-compare.py:52` is alike.
- `PlanIsADiff`: the workqueue mask is planned again though it is as planned, because `hexmask` prints
  fewer digits than the kernel (`make-lab-plan.py:122`), and `lab-tune.sh` then fails to verify it.

Met while modelling and visible in the models, but not stated as a property of a run:

- A trap between the two appends of `lab-tune.sh:194` restores nothing and leaves; `rollback.tsv` is complete
  (`RecordedBeforeWritten`), so a later `rollback` still works.
- A signal at `collect.sh:778` lets a helper write while the bundle is sealed, and so does a JVM that answers
  `JFR.stop` too late (`jfr-capture.sh:99` warns of it); `ArchiveVerifies` excludes both.
- An interrupt before the window does not stop the launches (`collect.sh:727`).
- The manifest's `interrupted` line is written before the seal (`collect.sh:847`).
- A parent of several collectors leaves after one signal for each of them, with 143 for TERM (130 for INT),
  while they still write their bundles (`collect.sh:191`; README.txt:135 names 130 only). A signal before
  line 190 ends the parent and none of those it has started.
- A half-close loses the other direction's data (`TcpDelayProxy.java:110`).
- A signal between `capture.sh:109` and `:110` leaves asprof running after exit 130; `rotating-jfr.sh` has the
  same window, and one more after `trap -` at line 158.
- A capture whose asprof is refused because another one came first stops that one's session in its
  cleanup (`capture.sh:74,92,108`).
- A loose file that already carries a number can be overwritten by one that gets it
  (`analyze-bundle.py:184`).
- `compare-bundles.py:68` takes the first profile of each side by name, of whatever event it is.
- A file that the command deletes while `size()` walks the output (`bounded-capture.py:38`) ends a running
  capture as `launch_failed`.
- A copy that is killed before its marker is written is refused from then on as not installed from this
  repository (`install.sh:142-143`): nobody's entry is touched, but the user has to remove it.
- `install.sh --uninstall` of some skills also removes readiness and what they require, though others
  that stay may need it (`install.sh:64-84`).
- `allocstall_total` and the memory events of the cgroup show the counts since boot if `proc-start` is lost
  (`analyze-bundle.py:812,754`); an interrupt's delta contains the earlier counts of a CPU that came online.
- A PID that is used again between `jfr-capture.sh:107` and `:109` gets a recording in another JVM, which the
  cleanup leaves alone without a warning. A failed `cp` (line 140) leaves a partial OUTPUT while the trap
  removes the file it was copied from.
- `nmt-compare.py` does not look at `meta.txt`: the categories that a stopped `jcmd` did not print seem to
  have shrunk to nothing.

## 6. Proofs

`LabTuneProofs` proves, for every plan, host, set of values and bound that satisfy `PlanAssumption` and
`HostAssumption`: the type invariant, five safety invariants and the refinement of `LabTuneAbs`. Two of the
invariants are checked by the run, too (`RecordedBeforeWritten`, `MarkedMeansRestored`). Proved only: entries
are undone newest first, and every later entry is back or reported (`NewestFirst`); after exit 0 of `apply`
every entry is in force, or was skipped and is unchanged (`AppliedIsInForce`); a directory that an interrupt
has marked belongs to a host whose unrestored knobs were all reported (`InterruptIsHonest`).
The safety invariants are not inductive. `RecordedBeforeWritten` needs that the arrays name recorded
entries only; that needs the last line of `rollback.tsv` to be the current entry's between recording and
writing, or `sed '$d'` could take another line; and that needs that entries behind the loop index are
other knobs (no duplicates in a plan). `IInv` collects this: `LogInv` (the file), `ArrayInv` (the
arrays), `AheadInv` (nothing is written ahead of the index), `UndoInv` (where a knob that is not back can
be), `MarkInv` (a marked directory is out of reach), `AppliedInv` (the part of the plan behind the index
is in force). Each has a lemma for the step, and the step lemma one case per action.

`DelayProxyProofs` proves, for every `MaxQueue`, `Window` and `MaxChunks`: `TypeCorrect` (with the bound of
the queue), `OrderIsKept` (`InOrder`), `NothingLostWhileOpen` (`NoLossWhileOpen`) and
`StreamsAreImplemented` (`ImplementsStream`). `InOrder` is not inductive: nothing in it says what a writer
is about to write. `Pipe(d)` does. A chunk of direction d is in one of five places (the buffer behind the
writer, the writer, the queue, the reader, the buffer before the reader); while the direction can still
write (`Live`), these hold consecutive numbers, counted by `Past`, `Taken` and `ReadSoFar`, up to `sent`.
Once `To(d)` is closed or the writer has given up, only what has left the proxy matters (`OutPart`), and
nothing enters it again: that is why a cut stream is still an initial part. `EndPart` ties the reader's
state to its socket, `WriterLeft` says why a writer may have left while both sockets are open, and
`Unstarted` that no thread runs before the target has accepted. The refinement needs one fact of the
invariant, that the head of a kernel buffer is the next number.

`CaptureSessionProofs` proves, for every set of scripts and every bound: `TypeCorrect`, `PublishedByMe`
(`ExitZeroIsPublished`), `SessionsAccounted` (`SessionAccounted`), `PartialsRemoved` (`NoPartialLeft`) and
`OutputKept` (`OutputIsKept`). `IInv` is a conjunction over the scripts of `ChildPart` (where the child can
be), `FilePart` (what is moved is whole and disappears only by becoming OUTPUT) and `SessionPart` (a
session belongs to a capture that runs, or to a failed one on its way to cleanup). `Frame` and
`OthersStep` show that another script's step touches them only through OUTPUT and the session,
`OwnStep` goes through the script's own actions.

`RotatingJfrProofs` proves, for all limits and bounds: `SessionsStopped` (`SessionStopped`), `WholePublished`
(`PublishedIsWhole`) and `PartialsRemoved` (`NoPartialLeft`). The argument is about the child: an attaching
one exists only between `&` and the end of the wait (`ChildPart`), so no session begins and no partial file
appears once cleanup runs; a session belongs to a child that runs or failed, whose `profiling_started`
is still set, so cleanup asks for it (`CleanupPart`). `TypeCorrect` is proved, too, and
`Retention` (`RetentionBounded`) from `RetentionPart`: the list knows every profile of the directory, and the total
is at least their size, since a deletion by the user lowers the one and not the other; between two rounds
both are within the limits, and only while the oldest profiles are dropped may they not be. The size of
a set of profiles is a number of units; that adding and dropping a profile changes it as the code's
`total` are lemmas about finite sets.

`CollectProofs` proves, for every set of options and number of signals, `TypeCorrect` and `EvidenceSurvives`
(`EvidenceKept`: the collector removes the directory only past a whole archive, and the archive only past
whole parts), and of the seal `ArchiveMatches` (`ArchiveVerifies`), `StepsAreTrue` (`StepsTellTruth`) and
`ShipsNothingSensitive` (`NothingSensitiveShipped`). The
last three are about an order, and hold while nothing that writes was given up on (`lost = {}`). `ProcPart` says that a
subshell that is gone has left no active helper behind; `LaunchPart` that every helper is started once
and known to the traps from `Register` on; `ReapPart` that the collector has waited for the first of them,
and past the wait for all; `RecorderPart` that a recorder which may write on is that of a helper that has
failed. So from the scrub on only the collector changes the contents: `StatusPart`
ties a status of 0 to what was there, `SealPart` the scrub, the sums and the archive to one another.

`SuperviseProofs` proves, for every set of helpers, storage limit and size of the output: `TypeCorrect`,
`ReasonsAreTrue` (`ReasonIsTrue`), `CompleteMeansWhole` (`CompleteIsWhole`) and `GroupIsKilled` (`NobodyLeft`).
`GroupPart` says who runs: past SIGKILL nobody does, so nobody forks again, which is why one SIGKILL is
enough for any number of helpers. `EndedPart` separates an end of the command's own from one it was sent;
`ReasonPart` ties each reason to its cause already before the manifest is written (`launch_failed` is the
reason from the start, and what leaves the loop with it has written `error.txt`); `ManifestPart` says that
nothing changes the verdict after the manifest.

`ReadersProofs` and `ToolsProofs` prove the properties of the tools. The tools share nothing, so each has an
invariant of its own about the variables of its module (in `ReadersProofs` for the tools of `Readers`); for
every tool X a lemma `XAlways` says that a step of `Tools` is a step of the tool that runs. From these follow

- `NothingUnaccounted` (`RecordingAccounted`) and, for `jfr-capture.sh`, a part of `ZeroMeansDone`. The argument is about
  `recording_started`: it is set before the target is asked and cleared when the target was seen without the
  recording, so while it is 0 nothing runs and nothing waits in the target (`IdlePart`), and whoever leaves
  while it is 1 asks for the stop and either sees the end or warns (`CleanupPart`). `PollPart` and `TakePart` say
  that a file is taken only after its recording was gone in the same process. For the parent of several
  collectors a signal can be spent on one `wait` only, so those it has passed by are no more than its signals.
- `ZeroMeansDone` (`ZeroIsEveryRun`). Of `install.sh` neither this nor `ForeignKept` is inductive: `EntryPart` says that
  the entry at hand is none of the user's between the look and the last command on it, `RunPart` that a run
  which has refused nothing has made every entry behind it what was wanted, and that what it was asked for is
  closed under `requires.txt`. The runners keep a row of results in step with the runs they have made.
- `DamageSeen` (`DamageIsReported`), `WholeInput` (`ReportIsOfWholeInput`) and `NamesKept` (`SameNamesKept`). `SealPart` follows
  the damage, `CopyPart` says that the copy is a part of the tree whose size is the loop's index, so a whole
  one at the end, and `ImportPart` that a loose file is where no other is: the counters of a kind only grow.
- `OwnerHolds` (`OwnerIsHolder`) and `StuckIsOne` (`StuckIsSameThread`), from what a dump may contain: `ThreadPart` says
  that at most one thread has entered a monitor without waiting on it, in every state, and `DumpPart` that a
  dump, which is taken at once, says so of its threads.
- `ChangesReal` (`ChangesAreReal`). Cutting a sorted table is modelled as taking the greatest few, and
  `TableIsTrue` says what a cut keeps: whatever is left out is no greater than what is listed.
- `DeltasAreTrue` (`DeltasInventNothing`): of threads from the monotony of the counters along a tid's births
  (`RisePart`), of memory because a snapshot whose identity was checked at both ends is of one life (`ShotPart`), of
  the host's counters because what a row shows is what it had and what has happened since, unless it was
  renewed (`WindowPart`), and of the trigger because the last sample is one of a moment since the arming
  (`ClockPart`) and, while the log is the one it was armed with, what was read reaches past the lines it had (`LogPart`).
- `PlansAreAccepted` (`PlanIsAccepted`) and `AppliedPlansIsolate` (`AppliedIsIsolated`). That the
  values are allowed (`PlannedIsAllowed`) rests on every list or mask being one of housekeeping CPUs that exist; that no file is planned twice, on
  the list of files having no repetitions (`CpuFilesOnce`, `LooksOnce`; `ListedOnce` and `Expands` say that `InOrder` returns every CPU
  of the lists once, whatever ranges they have), and on `LinePart`, which says that an entry is of a file behind
  the loop's index. `CoverPart` says that while no IRQ moved each file behind the index is planned or needs no change, and
  that after the apply only what the kernel refused does. The mask of the workqueues is the one value that is written in
  another way than it is read: `MaskShows` says that the kernel reads the CPUs back from the words that `hexmask` prints, for any
  width of a word.
- `PausesAreAllTold` (`PausesTold`) and `AllocationIsALowerBound` (`AllocationIsBounded`). The dictionary keeps one line for each
  key; the lines of one pause share the key and two pauses have the same one only as the repeats of a
  concurrent cycle (`IdPart`, with `EndLinePart` for the lines a pause has). So the sum is one over pauses, each in its own part of the
  time line (`TimePart`), which is why it fits into the span of the log: the pauses are disjoint sets of units of
  it. `HeapPart` bounds what is allocated between any two pauses by the difference of what they show plus what was freed; along the
  pauses with sizes the bounds add up.
- `TornLinesAreSafe` (`TornLinesInventNothing`). The bounds need no invariant: a line is counted only for a piece that
  stands in it (`CountedShows`), lines are disjoint intervals of the output (`LinesApart`), so lines of a kind map
  one to one to pieces (`EachHasOne`), whoever printed them. That what is not torn is counted exactly is `WholePart`:
  one thread at most is within a line, the line that is open and what that thread has still to print are
  one line of one kind, and per kind the lines that have ended and those still owed are those begun.
- `ReportsAgree` (`ReportAgrees`). The model has the percentile as the least value whose rank suffices, and the stable sort as the
  place each row gets, so that neither needs induction. `PercentileIs` turns the rank, rounded up, into: so large a part of the values
  does not exceed v exactly when v is not below the percentile. Lesser values have therefore a lesser percentile (service below
  response), what is enough in every part is enough in all and what is too little in every part is too little in
  all (`PartsAdd`, by a least counterexample; groups and blocks are such parts), and the order of the values
  does not count (`OrderCounts`). Places are all different (`PlaceOfEach`), and exchanging neighbours exchanges their
  places only (`NeighboursSort`).
- `IntervalsAddUp` (`SeriesAddsUp`). `SeriesPart` says that what the sampler remembers of a tid (`last`) is what its last row says
  (`Told`), and that a thread that was there without getting a row still shows what was told last. Along the samples
  the rows then add up (`AddsUp`, by a least counterexample), from a first sample in which whoever has no row shows
  nothing. A sum of integers is the units above zero less those below (`BalanceOfDifference`). For NMT, `TablePart` says that a capture
  that did not fail has printed a total and exactly the categories above zero of the same amounts; a category
  that one side lacks is zero there.
- `AlarmsHeard` (`AlarmsTold`). Of the GC log `PrintPart` says which pauses have lines in which files, `OwnPart` that
  a full collection shares its id with no other, and `StallPart` that the lines of stalls are as many as the
  stalls; so the keys of `Dedupe` stand in a bijection to the collections and the files each was printed to,
  whatever the order in which the files are named. Of the wait `HeardPart` says that every line up to the offset was
  compared with a trigger's value, `RoundPart` that past the first gcpause trigger of a round the offset has reached
  what the log had when the round began, `SincePart` bounds the age of the CPU sample, and `UnusedPart` says that
  the time before it was not used up; `LoadIsHeard` then holds for the span that two samples can cover.

They assume what the scripts check of their arguments and what a host is: finitely many files, frames,
columns, categories, IRQs and idle states, the last two numbered as the kernel does; CPU lists are ranges of numbers; percentiles are parts of a whole, and a block has operations; threads and tids are numbers; `--duration` and the number of repetitions are positive;
triggers have one of the kinds and a number, a round of the wait takes time; a log ends at some uptime; statuses of what fails are not 0; `requires.txt` names skills;
and the bounds that cap the models are numbers (`BoundsAssumption`, `MoreBoundsAssumption`), without an upper limit.

Proved only, besides the three named above, because what they say is implied by a property a run checks or
is cheaper to prove than to check: the type invariants, `InOrder`, `NoPartialLeft`, `OutputIsKept`,
`PublishedIsWhole`. (`ForeignKept`, `ZeroIsInstalled` and `ZeroIsRecorded` are conjuncts of properties of `tools`.)

`TypesAreKept` is the type invariant of `Tools`. The tools' invariants contain most of the types; what they
leave open are the counters that the code or the system bounds (damage, readings, pauses, rows, the heap),
the kinds of an exit status and where a walk through the input can stand. Each tool has a `...Bound` for
these, which is inductive beside its invariant; `Bounds` collects them. Two bounds needed more than the types
say: the files an import has counted are no more than those in the tree or in the archive, and what a heap
gives back was allocated.

Only model-checked: `DeathIsRecoverable` and the other liveness properties, because fairness is out of the
prover's reach. Every safety invariant that a passing run checks is stated by a theorem.

## 7. Not modelled

Left out of the modules above: checks that refuse before anything was changed; text formats, logs and the
layout of reports; time, except as an order of events and in the uptimes of the GC log; two `lab-tune.sh` at
once; failures of the file system other than those the modules name; several connections of the proxy
(they share two counters only, and the one acceptor thread).

Components or parts without a module, with the reason:

- `JitterMeter`: buckets of a histogram, arithmetic on one array.
- `build-kit.sh`: file-system operations one after the other, in a directory of its own.
- The sections of `analyze-bundle.py` on processes, pressure, crashes, class histograms and service evidence; `offline-runbook.py`,
  `service-evidence.py`, the JFR reports: text in, text out.
- `vendor-capture.sh`, `bpf-capture.sh`, `java-perf-capture.sh`: launchers of one command with checks before it.
- `native-memory-snapshot.sh`'s other files (smaps, cgroup, heap, metaspace): nothing compares them.
- The safepoint lines of the GC log; the rate and ratio lines of `latency-report.py` and its comparison with
  a baseline.
- Readiness and debug probes, `latency-host-audit.sh`: they read and print.
- Teaching programs, validation and tests: not part of what is shipped to a host.
