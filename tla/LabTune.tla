------------------------------ MODULE LabTune ------------------------------
(***************************************************************************)
(* skills/linux-low-latency-tuning/scripts/lab-tune.sh: `apply` of one     *)
(* plan to a host, then any number of `rollback`s of its state directory.  *)
(*                                                                         *)
(* One command runs at a time (references/lab-mode.md, "Procedure"), so    *)
(* one program counter serves both: pc names the next simple command of    *)
(* the script whose effect another command, a trap or a later run can see. *)
(* A bash trap runs between two simple commands; it may run before any     *)
(* step taken while the trap is set.  The process may also die at any      *)
(* step: kill -9, power, SIGPIPE on its output, or `set -e` on a failed    *)
(* write to the state directory (no EXIT trap exists to undo anything).    *)
(***************************************************************************)
EXTENDS Integers, Sequences

CONSTANTS
  Paths,          (* the allowlisted knobs                                 *)
  IrqPaths,       (* those matching /proc/irq/N/smp_affinity_list          *)
  HugePaths,      (* /proc/sys/vm/nr_hugepages: may take fewer than asked  *)
  Values,         (* what a knob can hold                                  *)
  Restorable,     (* the values the allowlist lets the script write        *)
  Plan,           (* the paths of PLAN_FILE, in order                      *)
  Wanted,         (* Wanted[p]: the value PLAN_FILE sets                   *)
  MaxFaults,      (* bound: how often the kernel fails a restoring write   *)
  MaxDeaths       (* bound: how often the process dies                     *)

(* load_plan refuses an empty plan, a duplicate path and a value outside   *)
(* the allowlist.                                                          *)
ASSUME PlanAssumption ==
  /\ Plan \in Seq(Paths) /\ Len(Plan) > 0
  /\ \A a, b \in 1..Len(Plan) : Plan[a] = Plan[b] => a = b
  /\ Restorable \subseteq Values
  /\ Wanted \in [Paths -> Restorable]

ASSUME HostAssumption ==
  /\ IrqPaths \subseteq Paths /\ HugePaths \subseteq Paths
  /\ MaxFaults \in Nat /\ MaxDeaths \in Nat

VARIABLES
  live,       (* the host: live[p]                                         *)
  originals,  (* the values read before anything is written                *)
  record,     (* rollback.tsv: the lines <<path, original>>                *)
  status,     (* the last status= line of meta.txt                         *)
  pc,         (* next command; "idle": no command of the script is running *)
  idx,        (* loop index of cmd_apply                                   *)
  paths,      (* applied_paths                                             *)
  origs,      (* applied_originals                                         *)
  j,          (* loop index of rollback_applied, one based                 *)
  bad,        (* `status` of rollback_applied                              *)
  reported,   (* knobs whose last restore printed "FAILED to restore"      *)
  exit,       (* how the last command ended                                *)
  faults,     (* restoring writes the kernel has failed so far             *)
  deaths

vars == <<live, originals, record, status, pc, idx, paths, origs, j, bad,
          reported, exit, faults, deaths>>

session == <<originals, record>>
arrays == <<paths, origs>>
env == <<faults, deaths>>

(* Mutants: an operator whose comment starts with "Mutant" is a wrong form *)
(* of the definition below it; no behaviour of this module uses one.       *)

(* Mutant: a directory without a status line counts as rolled back. *)
NoStatusIsDone ==
  {"rolled_back", "rolled_back_after_failure", "rolled_back_after_interrupt",
   "none"}

(* The statuses for which cmd_rollback answers "state already rolled back". *)
RolledBack ==
  {"rolled_back", "rolled_back_after_failure", "rolled_back_after_interrupt"}

Statuses == RolledBack \cup
  {"absent", "none", "applied", "partial_rollback_failure", "rollback_incomplete"}

Exits == {"none", "0", "6", "7", "130", "killed", "nounset"}

(* Where `trap on_interrupt HUP INT TERM` is in force. *)
Trapped ==
  {"record", "trackPath", "trackOrig", "write", "refused", "unrecord",
   "undo", "undoFailed", "undoMark", "undoExit6", "undoExit7", "disarm"}

(* Where on_interrupt runs, with the signals ignored. *)
Handling == {"intUndo", "intMark"}

(* The three callers of rollback_applied. *)
Undoing == {"undo", "intUndo", "restore"}

Running == Trapped \cup Handling \cup {"mark", "restore", "restoreMark"}

Init ==
  /\ live \in [Paths -> Values]
  /\ originals = live
  /\ record = <<>>
  /\ status = "absent"
  /\ pc = "start"
  /\ idx = 1
  /\ paths = <<>> /\ origs = <<>>
  /\ j = 0 /\ bad = 0
  /\ reported = {}
  /\ exit = "none"
  /\ faults = 0 /\ deaths = 0

Entry == Plan[idx]

(* write_value and verify_value: what the kernel makes of writing v to p.  *)
(* It takes v, refuses the write, or holds something else than was asked.  *)
Kernel(p, v, mayFail) ==
  {[rc |-> 0, value |-> v]}
  \cup (IF mayFail THEN {[rc |-> 1, value |-> live[p]]} ELSE {})
  \cup (IF mayFail \/ p \in HugePaths
        THEN {[rc |-> 0, value |-> w] : w \in Values} ELSE {})

(* A short huge-page allocation is a note, not a failure. *)
Verified(r, p, v) == r.rc = 0 /\ (r.value = v \/ p \in HugePaths)

-----------------------------------------------------------------------------
(* cmd_apply *)

(* Refuse originals that could not be restored; otherwise make the state   *)
(* directory with an empty rollback.tsv and set the trap.                  *)
Preflight ==
  /\ pc = "start"
  /\ originals' = live
  /\ IF \A k \in 1..Len(Plan) : live[Plan[k]] \in Restorable
     THEN pc' = "record" /\ status' = "none" /\ exit' = exit
     ELSE pc' = "idle" /\ status' = status /\ exit' = "6"
  /\ UNCHANGED <<live, record, idx, arrays, j, bad, reported, env>>

RecordEntry ==
  /\ pc = "record"
  /\ record' = Append(record, <<Entry, originals[Entry]>>)
  /\ pc' = "trackPath"
  /\ UNCHANGED <<live, originals, status, idx, arrays, j, bad, reported, exit, env>>

(* applied_paths+=(...) and applied_originals+=(...) are two commands. *)
TrackPath ==
  /\ pc = "trackPath"
  /\ paths' = Append(paths, Entry)
  /\ pc' = "trackOrig"
  /\ UNCHANGED <<live, session, status, idx, origs, j, bad, reported, exit, env>>

TrackOriginal ==
  /\ pc = "trackOrig"
  /\ origs' = Append(origs, originals[Entry])
  /\ pc' = "write"
  /\ UNCHANGED <<live, session, status, idx, paths, j, bad, reported, exit, env>>

(* The next plan entry, or the end of the loop. *)
Advance ==
  /\ idx' = idx + 1
  /\ pc' = IF idx < Len(Plan) THEN "record" ELSE "disarm"

WriteEntry ==
  /\ pc = "write"
  /\ \E r \in Kernel(Entry, Wanted[Entry], TRUE) :
       /\ live' = [live EXCEPT ![Entry] = r.value]
       /\ IF Verified(r, Entry, Wanted[Entry])
          THEN Advance
          ELSE pc' = "refused" /\ idx' = idx
  /\ UNCHANGED <<session, status, arrays, j, bad, reported, exit, env>>

(* Mutant: the value is not read again. *)
NotReread == TRUE

(* The failed write left the value the file had. *)
Untouched == live[Entry] = originals[Entry]

(* unset 'applied_paths[-1]' 'applied_originals[-1]' *)
DropEntry ==
  /\ paths' = SubSeq(paths, 1, Len(paths) - 1)
  /\ origs' = SubSeq(origs, 1, Len(origs) - 1)

(* The failed entry is dropped from the arrays if its value is unchanged;  *)
(* then a managed IRQ is skipped and anything else ends the apply.         *)
WriteFailed ==
  /\ pc = "refused"
  /\ IF Untouched THEN DropEntry ELSE UNCHANGED arrays
  /\ IF Untouched /\ Entry \in IrqPaths
     THEN pc' = "unrecord" /\ j' = j
     ELSE pc' = "undo" /\ j' = Len(paths')
  /\ bad' = 0
  /\ UNCHANGED <<live, session, status, idx, reported, exit, env>>

(* sed -i '$d' rollback.tsv; continue *)
UnrecordEntry ==
  /\ pc = "unrecord"
  /\ record' = SubSeq(record, 1, Len(record) - 1)
  /\ Advance
  /\ UNCHANGED <<live, originals, status, arrays, j, bad, reported, exit, env>>

Disarm ==
  /\ pc = "disarm"
  /\ pc' = "mark"
  /\ UNCHANGED <<live, session, status, idx, arrays, j, bad, reported, exit, env>>

End(code) == pc' = "idle" /\ exit' = code

MarkApplied ==
  /\ pc = "mark"
  /\ status' = "applied"
  /\ End("0")
  /\ UNCHANGED <<live, session, idx, arrays, j, bad, reported, env>>

-----------------------------------------------------------------------------
(* rollback_applied, run by a failed apply, by on_interrupt and by         *)
(* cmd_rollback: newest entry first, going on after one that fails.        *)

RestoreEntry ==
  /\ pc \in Undoing
  /\ j \in 1..Len(origs)
  /\ \E r \in Kernel(paths[j], origs[j], faults < MaxFaults) :
       /\ live' = [live EXCEPT ![paths[j]] = r.value]
       /\ IF Verified(r, paths[j], origs[j])
          THEN /\ bad' = bad /\ faults' = faults
               /\ reported' = reported \ {paths[j]}
          ELSE /\ bad' = 1 /\ faults' = faults + 1
               /\ reported' = reported \cup {paths[j]}
  /\ j' = j - 1
  /\ UNCHANGED <<session, status, pc, idx, arrays, exit, deaths>>

(* `set -u`: ${applied_originals[$i]} was never appended; the shell exits. *)
RestoreUnbound ==
  /\ pc \in Undoing
  /\ j > Len(origs)
  /\ End("nounset")
  /\ UNCHANGED <<live, session, status, idx, arrays, j, bad, reported, env>>

(* The loop ends, the arrays are emptied and the caller is told. *)
RestoreDone ==
  /\ pc \in Undoing
  /\ j = 0
  /\ paths' = <<>> /\ origs' = <<>>
  /\ pc' = CASE pc = "undo" -> IF bad = 1 THEN "undoFailed" ELSE "undoMark"
             [] pc = "intUndo" -> "intMark"
             [] pc = "restore" -> "restoreMark"
  /\ UNCHANGED <<live, session, status, idx, j, bad, reported, exit, env>>

(* The apply that failed: exit 6 if all was restored, else exit 7. *)
MarkFailure ==
  /\ pc \in {"undoMark", "undoFailed"}
  /\ IF pc = "undoMark"
     THEN status' = "rolled_back_after_failure" /\ pc' = "undoExit6"
     ELSE status' = "partial_rollback_failure" /\ pc' = "undoExit7"
  /\ UNCHANGED <<live, session, idx, arrays, j, bad, reported, exit, env>>

ExitFailure ==
  /\ pc \in {"undoExit6", "undoExit7"}
  /\ End(IF pc = "undoExit6" THEN "6" ELSE "7")
  /\ UNCHANGED <<live, session, status, idx, arrays, j, bad, reported, env>>

-----------------------------------------------------------------------------
(* on_interrupt *)

Interrupt ==
  /\ pc \in Trapped
  /\ pc' = "intUndo"
  /\ j' = Len(paths) /\ bad' = 0
  /\ UNCHANGED <<live, session, status, idx, arrays, reported, exit, env>>

MarkInterrupted ==
  /\ pc = "intMark"
  /\ status' = IF bad = 1 THEN "rollback_incomplete" ELSE "rolled_back_after_interrupt"
  /\ End(IF bad = 1 THEN "7" ELSE "130")
  /\ UNCHANGED <<live, session, idx, arrays, j, bad, reported, env>>

-----------------------------------------------------------------------------
(* cmd_rollback, a process of its own with no trap *)

Rollback ==
  /\ pc = "idle" /\ status # "absent"
  /\ IF status \in RolledBack
     THEN exit' = "0" /\ UNCHANGED <<pc, arrays, j, bad>>
     ELSE /\ paths' = [k \in 1..Len(record) |-> record[k][1]]
          /\ origs' = [k \in 1..Len(record) |-> record[k][2]]
          /\ j' = Len(record) /\ bad' = 0
          /\ pc' = "restore"
          /\ exit' = exit
  /\ UNCHANGED <<live, session, status, idx, reported, env>>

(* Mutant: the result of rollback_applied is ignored. *)
MarkRegardless ==
  /\ pc = "restoreMark"
  /\ status' = "rolled_back"
  /\ End("0")
  /\ UNCHANGED <<live, session, idx, arrays, j, bad, reported, env>>

MarkRolledBack ==
  /\ pc = "restoreMark"
  /\ status' = IF bad = 1 THEN "rollback_incomplete" ELSE "rolled_back"
  /\ End(IF bad = 1 THEN "7" ELSE "0")
  /\ UNCHANGED <<live, session, idx, arrays, j, bad, reported, env>>

-----------------------------------------------------------------------------

(* The process dies where it is; an untrapped signal is one of the ways. *)
Die ==
  /\ pc \in Running /\ deaths < MaxDeaths
  /\ deaths' = deaths + 1
  /\ End("killed")
  /\ UNCHANGED <<live, session, status, idx, arrays, j, bad, reported, faults>>

Apply ==
  \/ Preflight \/ RecordEntry \/ TrackPath \/ TrackOriginal \/ WriteEntry
  \/ WriteFailed \/ UnrecordEntry \/ Disarm \/ MarkApplied

Undo == RestoreEntry \/ RestoreUnbound \/ RestoreDone

Finish == MarkFailure \/ ExitFailure \/ MarkInterrupted \/ MarkRolledBack

Next == Apply \/ Undo \/ Finish \/ Interrupt \/ Rollback \/ Die

Spec == Init /\ [][Next]_vars

(* A started command keeps running, and the operator reruns `rollback`      *)
(* until the state directory is marked (the script asks for that in its     *)
(* last message: "retry rollback with this state directory").               *)
FairSpec ==
  /\ Spec
  /\ WF_vars(Apply \/ Undo \/ Finish)
  /\ WF_vars(Rollback /\ status \notin RolledBack)
-----------------------------------------------------------------------------
(* Correctness *)

Restored(p) == live[p] = originals[p]

(* Every variable has the shape the script gives it; the program counter,  *)
(* the statuses and the exit codes are those that appear in lab-tune.sh.   *)
TypeOK ==
  /\ live \in [Paths -> Values]
  /\ originals \in [Paths -> Values]
  /\ record \in Seq(Paths \X Values)
  /\ status \in Statuses
  /\ pc \in Running \cup {"start", "idle"}
  /\ idx \in 1..(Len(Plan) + 1)
  /\ paths \in Seq(Paths) /\ origs \in Seq(Values)
  /\ Len(origs) \in {Len(paths), Len(paths) - 1}
  /\ j \in Nat /\ (pc \in Undoing => j <= Len(paths))
  /\ bad \in {0, 1}
  /\ reported \subseteq Paths
  /\ exit \in Exits
  /\ faults \in 0..MaxFaults /\ deaths \in 0..MaxDeaths

(* "Record before writing so a crash leaves a usable rollback file": at    *)
(* every instant, and so wherever the process dies, each knob that differs *)
(* from its original has a rollback.tsv line with exactly that original.   *)
RecordedBeforeWritten ==
  \A p \in Paths : ~Restored(p) =>
    \E k \in 1..Len(record) : record[k] = <<p, originals[p]>>

(* Entries are undone newest first: while a rollback stands at entry j,    *)
(* every later entry is back or was reported as failed, whatever           *)
(* interrupts and deaths came before.                                      *)
NewestFirst ==
  pc \in Undoing =>
    \A k \in (j + 1)..Len(origs) :
      Restored(paths[k]) \/ paths[k] \in reported \cup HugePaths

(* Exit 0 of apply: every entry of the plan is in force, or was skipped    *)
(* with its value unchanged and is out of rollback.tsv.                    *)
AppliedIsInForce ==
  pc = "idle" /\ status = "applied" /\ exit = "0" =>
    \A i \in 1..Len(Plan) :
      LET p == Plan[i] IN
      IF \E k \in 1..Len(record) : record[k][1] = p
      THEN live[p] = Wanted[p] \/ p \in HugePaths
      ELSE Restored(p) /\ p \in IrqPaths

(* A directory marked by a rollback, or by an apply that failed, belongs   *)
(* to a restored host (huge pages apart: verify_value accepts any count).  *)
MarkedMeansRestored ==
  status \in {"rolled_back", "rolled_back_after_failure"} =>
    \A p \in Paths \ HugePaths : Restored(p)

(* A directory marked by the interrupt handler belongs to a host whose     *)
(* every unrestored knob was named in a "FAILED to restore" line.          *)
InterruptIsHonest ==
  status = "rolled_back_after_interrupt" =>
    \A p \in Paths \ HugePaths : Restored(p) \/ p \in reported

(* The contract of the state directory: see LabTuneAbs. *)
Contract == INSTANCE LabTuneAbs WITH
  saved <- {record[k] : k \in 1..Len(record)},
  marked <- status \in RolledBack

ImplementsContract == Contract!Spec

(* A process that died anywhere leaves a directory from which rerunning    *)
(* `rollback` brings the host back, up to knobs the kernel refused and the *)
(* script named.                                                           *)
DeathIsRecoverable ==
  (pc = "idle" /\ exit \in {"killed", "nounset"})
    ~> (\A p \in Paths \ HugePaths : Restored(p) \/ p \in reported)

(* lab-mode.md:79-80: the mark says that the recorded values are back.     *)
MarkIsTrue ==
  status \in RolledBack => \A p \in Paths : Restored(p)
=============================================================================
