------------------------------ MODULE Supervise ------------------------------
(***************************************************************************)
(* skills/java-linux-perf/scripts/bounded-capture.py: one supervised       *)
(* command in a process group of its own.                                  *)
(*                                                                         *)
(* The supervisor polls the command, the received signals, the size of the *)
(* output directory and the clock, in this order, every 50 ms; whatever    *)
(* ends the loop, it terminates and then kills the group, reaps the        *)
(* command, measures the output again and writes the manifest.  Meanwhile  *)
(* the command and the helpers it starts in its group write, delete and    *)
(* exit as they like, and may ignore SIGTERM.  A file or directory that is *)
(* deleted while size() walks the tree raises OSError there.               *)
(***************************************************************************)
EXTENDS Naturals

CONSTANTS
  Helpers,    (* the processes the command may start in its group          *)
  Budget,     (* --max-mb                                                  *)
  MaxDisk     (* bound: how far the output can grow                        *)

ASSUME BudgetAssumption == Budget \in Nat \ {0} /\ MaxDisk \in Nat /\ MaxDisk >= Budget

VARIABLES
  pc,
  status,      (* the exit status: "1" until something else is known       *)
  reason,
  interrupted, (* the first entry of interrupted                           *)
  manifest,    (* manifest.json, NoManifest before it is written           *)
  errorTxt,    (* 1: error.txt was written                                 *)
  command,     (* none, run, doomed (SIGKILL sent), zombie, reaped         *)
  ended,       (* how the command ended: its own 0 or failure, or by us    *)
  helper,      (* none, run, doomed, gone                                  *)
  termed,      (* 1: the group got SIGTERM                                 *)
  disk,        (* content of the output directory                          *)
  full,        (* history: 1 once the output had reached the budget        *)
  late         (* 1: the duration has passed                               *)

vars == <<pc, status, reason, interrupted, manifest, errorTxt, command, ended, helper,
          termed, disk, full, late>>

verdict == <<status, reason>>
group == <<command, ended, helper, termed>>
output == <<disk, full>>
outside == <<interrupted, output, late>>

NoManifest == [reason |-> "none", complete |-> 0]

Signals == {"INT", "TERM"}
Reasons == {"launch_failed", "interrupted", "storage_limit", "timeout", "completed",
            "command_failed"}
(* "own": what the command itself returned; 130 and 143: 128 + the signal. *)
Statuses == {"1", "130", "143", "125", "124", "0", "own"}

Init ==
  /\ pc = "launch" /\ status = "1" /\ reason = "launch_failed"
  /\ interrupted = "none" /\ manifest = NoManifest /\ errorTxt = 0
  /\ command = "none" /\ ended = "not" /\ helper = [h \in Helpers |-> "none"]
  /\ termed = 0 /\ disk = 0 /\ full = 0 /\ late = 0

-----------------------------------------------------------------------------
(* The process group *)

CommandAlive == command \in {"run", "doomed"}
Living == {h \in Helpers : helper[h] \in {"run", "doomed"}}
SomeoneRuns == CommandAlive \/ Living # {}

(* killpg finds the group: a command that was not reaped counts.           *)
GroupExists == CommandAlive \/ command = "zombie" \/ Living # {}

(* A process of the group starts a helper. *)
Fork(h) ==
  /\ helper[h] = "none"
  /\ command = "run" \/ \E g \in Helpers : helper[g] = "run"
  /\ helper' = [helper EXCEPT ![h] = "run"]
  /\ UNCHANGED <<pc, verdict, manifest, errorTxt, command, ended, termed, outside>>

(* A process writes; RLIMIT_FSIZE bounds its files, not their number.  One *)
(* that is being killed may still be inside its last system call.          *)
Write ==
  /\ SomeoneRuns /\ disk < MaxDisk
  /\ disk' = disk + 1
  /\ full' = IF disk' >= Budget THEN 1 ELSE full
  /\ UNCHANGED <<pc, verdict, interrupted, manifest, errorTxt, group, late>>

(* A process removes what it had written. *)
Remove ==
  /\ SomeoneRuns /\ disk > 0
  /\ disk' = disk - 1
  /\ UNCHANGED <<pc, verdict, interrupted, manifest, errorTxt, group, full, late>>

(* The command ends, by itself or because of SIGTERM. *)
CommandExits ==
  /\ command = "run" /\ command' = "zombie"
  /\ \/ termed = 0 /\ ended' \in {"zero", "failed"}
     \/ termed = 1 /\ ended' = "stopped"
  /\ UNCHANGED <<pc, verdict, manifest, errorTxt, helper, termed, outside>>

HelperExits(h) ==
  /\ helper[h] = "run"
  /\ helper' = [helper EXCEPT ![h] = "gone"]
  /\ UNCHANGED <<pc, verdict, manifest, errorTxt, command, ended, termed, outside>>

(* SIGKILL takes effect. *)
CommandDies ==
  /\ command = "doomed" /\ command' = "zombie" /\ ended' = "stopped"
  /\ UNCHANGED <<pc, verdict, manifest, errorTxt, helper, termed, outside>>

HelperDies(h) ==
  /\ helper[h] = "doomed"
  /\ helper' = [helper EXCEPT ![h] = "gone"]
  /\ UNCHANGED <<pc, verdict, manifest, errorTxt, command, ended, termed, outside>>

-----------------------------------------------------------------------------
(* The supervisor *)

Stop(s, r) == pc' = "term" /\ status' = s /\ reason' = r

(* Popen, with setsid and RLIMIT_FSIZE in the child. *)
Launch ==
  /\ pc = "launch" /\ pc' = "poll" /\ command' = "run"
  /\ UNCHANGED <<verdict, manifest, errorTxt, ended, helper, termed, outside>>

(* Popen raises: OSError leaves error.txt, SubprocessError (setrlimit)     *)
(* passes through the finally block.                                       *)
LaunchFails ==
  /\ pc = "launch" /\ pc' = "recheck" /\ errorTxt' \in {0, 1}
  /\ UNCHANGED <<verdict, manifest, group, outside>>

(* child.poll() and the else branch of the loop *)
Poll ==
  /\ pc = "poll"
  /\ \/ /\ command = "zombie" /\ command' = "reaped"
        /\ IF ended = "zero" THEN Stop("0", "completed") ELSE Stop("own", "command_failed")
     \/ /\ command \in {"run", "doomed"} /\ pc' = "signals"
        /\ UNCHANGED <<verdict, command>>
  /\ UNCHANGED <<manifest, errorTxt, ended, helper, termed, outside>>

CheckSignals ==
  /\ pc = "signals"
  /\ IF interrupted # "none" THEN Stop(IF interrupted = "INT" THEN "130" ELSE "143", "interrupted")
                             ELSE pc' = "size" /\ UNCHANGED verdict
  /\ UNCHANGED <<manifest, errorTxt, group, outside>>

CheckSize ==
  /\ pc = "size"
  /\ IF disk >= Budget THEN Stop("125", "storage_limit")
                       ELSE pc' = "clock" /\ UNCHANGED verdict
  /\ UNCHANGED <<manifest, errorTxt, group, outside>>

(* Something vanished under size(): except OSError, with the reason as it  *)
(* was before the launch.                                                  *)
ScanFails ==
  /\ pc = "size" /\ SomeoneRuns
  /\ pc' = "term" /\ errorTxt' = 1
  /\ UNCHANGED <<verdict, manifest, group, outside>>

CheckClock ==
  /\ pc = "clock"
  /\ IF late = 1 THEN Stop("124", "timeout") ELSE pc' = "poll" /\ UNCHANGED verdict
  /\ UNCHANGED <<manifest, errorTxt, group, outside>>

(* os.killpg(child.pid, SIGTERM) *)
Terminate ==
  /\ pc = "term"
  /\ IF GroupExists THEN pc' = "kill" /\ termed' = 1 ELSE pc' = "reap" /\ UNCHANGED termed
  /\ UNCHANGED <<verdict, manifest, errorTxt, command, ended, helper, outside>>

(* Mutant: SIGKILL goes to the command alone. *)
KillCommand ==
  /\ pc = "kill" /\ pc' = "reap"
  /\ command' = IF command = "run" THEN "doomed" ELSE command
  /\ UNCHANGED <<verdict, manifest, errorTxt, ended, helper, termed, outside>>

(* Mutant: SIGTERM was enough. *)
KillNobody ==
  /\ pc = "kill" /\ pc' = "reap"
  /\ UNCHANGED <<verdict, manifest, errorTxt, group, outside>>

(* 0.2 s later: os.killpg(child.pid, SIGKILL), or ProcessLookupError *)
Kill ==
  /\ pc = "kill" /\ pc' = "reap"
  /\ command' = IF command = "run" THEN "doomed" ELSE command
  /\ helper' = [h \in Helpers |-> IF helper[h] = "run" THEN "doomed" ELSE helper[h]]
  /\ UNCHANGED <<verdict, manifest, errorTxt, ended, termed, outside>>

(* child.wait() *)
Reap ==
  /\ pc = "reap" /\ command \in {"zombie", "reaped"}
  /\ pc' = "recheck" /\ command' = "reaped"
  /\ UNCHANGED <<verdict, manifest, errorTxt, ended, helper, termed, outside>>

(* Mutant: the status the command left counts, whoever ended it. *)
RecheckOwn ==
  /\ pc = "recheck" /\ pc' = "manifest"
  /\ IF ended # "not" THEN status' = "0" /\ reason' = "completed" ELSE UNCHANGED verdict
  /\ UNCHANGED <<manifest, errorTxt, group, outside>>

(* The storage check that overrides any other reason *)
Recheck ==
  /\ pc = "recheck" /\ pc' = "manifest"
  /\ IF disk >= Budget THEN status' = "125" /\ reason' = "storage_limit"
                       ELSE UNCHANGED verdict
  /\ UNCHANGED <<manifest, errorTxt, group, outside>>

(* Mutant: complete is written for every command that ended by itself. *)
WriteAnyEnd ==
  /\ pc = "manifest" /\ pc' = "exit"
  /\ manifest' = [reason |-> reason, complete |-> IF ended \in {"zero", "failed"} THEN 1 ELSE 0]
  /\ UNCHANGED <<verdict, errorTxt, group, outside>>

(* manifest.json, then return *)
WriteManifest ==
  /\ pc = "manifest" /\ pc' = "exit"
  /\ manifest' = [reason |-> reason, complete |-> IF status = "0" THEN 1 ELSE 0]
  /\ UNCHANGED <<verdict, errorTxt, group, outside>>

(* size() raises in the finally block, which nothing catches: a killed     *)
(* helper was still in its last system call.  Python exits with 1.         *)
FinalScanFails ==
  /\ pc \in {"recheck", "manifest"} /\ SomeoneRuns
  /\ pc' = "exit" /\ status' = "1"
  /\ UNCHANGED <<reason, manifest, errorTxt, group, outside>>

(* SIGINT or SIGTERM: interrupted.append; only its first entry is read.    *)
Signal ==
  /\ pc \notin {"exit", "dead"} /\ interrupted = "none"
  /\ interrupted' \in Signals
  /\ UNCHANGED <<pc, verdict, manifest, errorTxt, group, output, late>>

(* The duration is over. *)
Deadline ==
  /\ late = 0 /\ late' = 1
  /\ UNCHANGED <<pc, verdict, interrupted, manifest, errorTxt, group, output>>

(* A signal the supervisor does not handle: SIGHUP, SIGKILL. *)
Die ==
  /\ pc \notin {"exit", "dead"} /\ pc' = "dead"
  /\ UNCHANGED <<verdict, manifest, errorTxt, group, outside>>

Supervisor ==
  \/ Launch \/ LaunchFails \/ Poll \/ CheckSignals \/ CheckSize \/ ScanFails \/ CheckClock
  \/ Terminate \/ Kill \/ Reap \/ Recheck \/ WriteManifest \/ FinalScanFails

Dying == CommandDies \/ \E h \in Helpers : HelperDies(h)

Next ==
  \/ Supervisor \/ Dying
  \/ Write \/ Remove \/ CommandExits
  \/ \E h \in Helpers : Fork(h) \/ HelperExits(h)
  \/ Signal \/ Deadline \/ Die

Spec == Init /\ [][Next]_vars

(* The supervisor is scheduled, time passes, and SIGKILL kills.  Nothing   *)
(* is assumed of the command.                                              *)
FairSpec == Spec /\ WF_vars(Supervisor) /\ WF_vars(Deadline) /\ WF_vars(Dying)

-----------------------------------------------------------------------------
TypeOK ==
  /\ pc \in {"launch", "poll", "signals", "size", "clock", "term", "kill", "reap",
             "recheck", "manifest", "exit", "dead"}
  /\ status \in Statuses /\ reason \in Reasons
  /\ interrupted \in Signals \cup {"none"}
  /\ manifest \in [reason : Reasons \cup {"none"}, complete : {0, 1}]
  /\ errorTxt \in {0, 1} /\ termed \in {0, 1} /\ full \in {0, 1} /\ late \in {0, 1}
  /\ command \in {"none", "run", "doomed", "zombie", "reaped"}
  /\ ended \in {"not", "zero", "failed", "stopped"}
  /\ helper \in [Helpers -> {"none", "run", "doomed", "gone"}]
  /\ disk \in 0..MaxDisk

(* The reason the manifest gives is what happened: a completed command     *)
(* ended with 0 by itself before anything was sent to its group, a failed  *)
(* one with its own status, a timeout had passed its deadline, an          *)
(* interrupt had arrived, the output had reached the budget; and           *)
(* launch_failed always comes with a command that never ran or with        *)
(* error.txt.                                                              *)
ReasonIsTrue ==
  manifest # NoManifest =>
    CASE manifest.reason = "completed"      -> ended = "zero"
      [] manifest.reason = "command_failed" -> ended = "failed"
      [] manifest.reason = "timeout"        -> late = 1
      [] manifest.reason = "interrupted"    -> interrupted # "none"
      [] manifest.reason = "storage_limit"  -> full = 1
      [] manifest.reason = "launch_failed"  -> command = "none" \/ errorTxt = 1

(* A capture is called complete, and the supervisor exits with 0, only for *)
(* a command that ended with 0 by itself: what a deadline, a signal, the   *)
(* storage limit, a failed scan or its own failure cut short is not.       *)
CompleteIsWhole ==
  /\ manifest.complete = 1 => ended = "zero" /\ reason = "completed" /\ status = "0"
  /\ pc = "exit" /\ status = "0" => manifest.complete = 1

(* When the supervisor exits, no process of the group goes on: each one    *)
(* has ended or has SIGKILL pending, whatever it did with SIGTERM and      *)
(* however many there were; and the command was reaped.                    *)
NobodyLeft ==
  pc = "exit" =>
    /\ command \in {"none", "reaped"}
    /\ \A h \in Helpers : helper[h] # "run"

(* The supervisor ends, with a command that never exits and ignores        *)
(* SIGTERM too, unless it is killed itself; and then the group dies.       *)
Ends == <>(pc \in {"exit", "dead"}) /\ [](pc = "exit" => <>~SomeoneRuns)
=============================================================================
