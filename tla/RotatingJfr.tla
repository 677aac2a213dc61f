---------------------------- MODULE RotatingJfr ----------------------------
(***************************************************************************)
(* skills/java-async-profiler/scripts/rotating-jfr.sh from the moment its  *)
(* traps are set: one asprof capture after another, each published and     *)
(* accounted, the oldest profiles dropped, until a signal or a failure     *)
(* ends the loop and cleanup stops the session in the target.              *)
(*                                                                         *)
(* The script, the asprof process it starts, the profiling session inside  *)
(* the target JVM and the operator (signals, deleted files) all move on    *)
(* their own.  A trap runs between two commands and cuts a `wait` short;   *)
(* Ctrl-C also kills the `sleep 1` of the poll loop, and `set -e` then     *)
(* leaves through the EXIT trap.                                           *)
(***************************************************************************)
EXTENDS Integers, Sequences, FiniteSets

CONSTANTS
  MaxFiles, MaxBytes, MaxCapture,  (* the operator's limits                *)
  Largest,      (* bound: size of the largest recording, in units          *)
  MaxRounds,    (* bound: captures                                         *)
  MaxSignals,   (* bound: signals sent to the script                       *)
  MaxDeletes,   (* bound: profiles the operator removes meanwhile          *)
  MaxFaults     (* bound: asprof status/stop commands that fail            *)

ASSUME LimitsAssumption ==
  /\ MaxFiles \in Nat \ {0} /\ MaxCapture \in Nat \ {0} /\ MaxBytes \in Nat
  /\ MaxCapture <= MaxBytes
  /\ {Largest, MaxRounds, MaxSignals, MaxDeletes, MaxFaults} \subseteq Nat

VARIABLES
  pc, stopping,
  childPid,     (* 1: child_pid is set                                     *)
  started,      (* profiling_started                                       *)
  status,       (* capture_status: "ok" or "failed"                        *)
  budget,       (* budget_exceeded                                         *)
  sequence, profiles, total,
  trapped,      (* 1: HUP, INT and TERM are trapped                        *)
  bad,          (* cleanup_status                                          *)
  exit,
  asprof,       (* the child process                                       *)
  session,      (* 1: the profiler is active in the target                 *)
  target,       (* 1: the PID still is the target                          *)
  size,         (* bytes written to the partial file                       *)
  partial,      (* 1: the partial file is in the directory                 *)
  disk,         (* the published profiles in the directory                 *)
  signals, deletes, faults

vars == <<pc, stopping, childPid, started, status, budget, sequence, profiles,
          total, trapped, bad, exit, asprof, session, target, size, partial,
          disk, signals, deletes, faults>>

loop == <<started, status, budget, sequence>>
kept == <<profiles, total, disk>>
file == <<size, partial>>
env == <<target, signals, deletes, faults>>
child == <<asprof, session>>

Alive == {"attaching", "running", "ending"}

Init ==
  /\ pc = "loop" /\ stopping = 0 /\ childPid = 0 /\ started = 0
  /\ status = "ok" /\ budget = 0
  /\ sequence = 0 /\ profiles = <<>> /\ total = 0
  /\ trapped = 1 /\ bad = 0 /\ exit = "none"
  /\ asprof = "none" /\ session = 0 /\ target = 1
  /\ size = 0 /\ partial = 0 /\ disk = {}
  /\ signals = 0 /\ deletes = 0 /\ faults = 0

Goto(from, to) == pc = from /\ pc' = to

(* `exit code` runs the EXIT trap, with the other traps still set. *)
Leave(code) == pc' = "clTerm" /\ exit' = code

(* What TERM does to asprof: while it attaches it dies; once it waits for  *)
(* the end of the capture it ends the capture early.                       *)
Termed ==
  CASE asprof = "attaching" -> "failed"
    [] asprof = "running" -> "ending"
    [] OTHER -> asprof

(* kill -TERM "$child_pid", if it is set *)
TermChild == asprof' = IF childPid = 1 THEN Termed ELSE asprof

-----------------------------------------------------------------------------
(* One round of the loop *)

(* The target is checked, the free space is checked, and a name is made    *)
(* for the partial file; or one of the checks fails.                       *)
Begin ==
  /\ pc = "loop" /\ stopping = 0
  /\ \/ /\ target = 1 /\ sequence < MaxRounds
        /\ pc' = "spawn" /\ exit' = exit
        /\ sequence' = sequence + 1 /\ started' = 1
        /\ budget' = 0 /\ status' = "ok"
     \/ /\ Leave("6") /\ UNCHANGED loop
     \/ /\ target = 0 /\ Leave("5") /\ UNCHANGED loop
  /\ UNCHANGED <<stopping, childPid, kept, trapped, bad, child, file, env>>

(* "$asprof_bin" ... & *)
Spawn ==
  /\ Goto("spawn", "register")
  /\ asprof' = "attaching" /\ size' = 0
  /\ UNCHANGED <<stopping, childPid, loop, kept, trapped, bad, exit, session, partial, env>>

(* child_pid=$! *)
Register ==
  /\ Goto("register", "poll")
  /\ childPid' = 1
  /\ UNCHANGED <<stopping, loop, kept, trapped, bad, exit, child, file, env>>

(* while kill -0: the child is gone, or over its budget; else sleep 1. *)
Poll ==
  /\ Goto("poll", "wait")
  /\ \/ asprof \notin Alive /\ UNCHANGED <<asprof, budget>>
     \/ /\ asprof \in Alive /\ partial = 1 /\ size > MaxCapture
        /\ budget' = 1
        /\ asprof' = Termed
  /\ UNCHANGED <<stopping, childPid, started, status, sequence, kept, trapped, bad, exit,
                 session, file, env>>

(* wait "$child_pid" || capture_status=$?; child_pid= *)
Wait ==
  /\ Goto("wait", "decide")
  /\ asprof \notin Alive
  /\ status' = asprof
  /\ childPid' = 0
  /\ UNCHANGED <<stopping, started, budget, sequence, kept, trapped, bad, exit, child, file, env>>

(* Mutant: the session is counted as stopped whatever asprof's status. *)
DecideClears ==
  /\ pc = "decide"
  /\ started' = 0
  /\ IF budget = 1 THEN Leave("6")
     ELSE IF status = "failed"
     THEN IF stopping = 1 THEN pc' = "untrap" /\ exit' = exit ELSE Leave("5")
     ELSE IF partial = 1 /\ size > 0 THEN pc' = "publish" /\ exit' = exit ELSE Leave("5")
  /\ UNCHANGED <<stopping, childPid, status, budget, sequence, kept, trapped, bad, child, file, env>>

Decide ==
  /\ pc = "decide"
  /\ IF budget = 1 THEN Leave("6") /\ started' = started
     ELSE IF status = "failed"
     THEN /\ started' = started
          /\ IF stopping = 1 THEN pc' = "untrap" /\ exit' = exit ELSE Leave("5")
     ELSE /\ started' = 0
          /\ IF partial = 1 /\ size > 0 THEN pc' = "publish" /\ exit' = exit ELSE Leave("5")
  /\ UNCHANGED <<stopping, childPid, status, budget, sequence, kept, trapped, bad, child, file, env>>

(* mv -- "$partial" "$final" *)
Publish ==
  /\ Goto("publish", "account")
  /\ disk' = disk \cup {[id |-> sequence, bytes |-> size]}
  /\ partial' = 0
  /\ UNCHANGED <<stopping, childPid, loop, profiles, total, trapped, bad, exit, child, size, env>>

(* stat -c %s "$final": without the file `set -e` ends the script.         *)
Account ==
  /\ pc = "account"
  /\ LET new == [id |-> sequence, bytes |-> size] IN
     IF new \notin disk THEN Leave("1") /\ UNCHANGED kept
     ELSE IF size > MaxCapture
     THEN /\ disk' = disk \ {new} /\ Leave("6") /\ UNCHANGED <<profiles, total>>
     ELSE /\ profiles' = Append(profiles, new)
          /\ total' = total + size
          /\ pc' = "prune"
          /\ UNCHANGED <<disk, exit>>
  /\ UNCHANGED <<stopping, childPid, loop, trapped, bad, child, file, env>>

(* Mutant: only the number of files is limited. *)
OverFiles == Len(profiles) > MaxFiles

OverLimit == Len(profiles) > MaxFiles \/ total > MaxBytes

(* Mutant: the dropped profile stays at the head of the list. *)
PruneHead ==
  /\ pc = "prune"
  /\ IF ~OverLimit THEN pc' = "loop" /\ UNCHANGED <<kept, exit>>
     ELSE IF profiles = <<>> THEN Leave("1") /\ UNCHANGED kept
     ELSE LET oldest == Head(profiles) IN
          /\ disk' = disk \ {oldest}
          /\ total' = total - (IF oldest \in disk THEN oldest.bytes ELSE 0)
          /\ UNCHANGED <<pc, exit, profiles>>
  /\ UNCHANGED <<stopping, childPid, loop, trapped, bad, child, file, env>>

(* Drop the oldest while over a limit.  A file that is no longer there     *)
(* counts for 0 bytes; with no profile left `set -u` ends the script.      *)
Prune ==
  /\ pc = "prune"
  /\ IF ~OverLimit THEN pc' = "loop" /\ UNCHANGED <<kept, exit>>
     ELSE IF profiles = <<>> THEN Leave("1") /\ UNCHANGED kept
     ELSE LET oldest == Head(profiles) IN
          /\ disk' = disk \ {oldest}
          /\ total' = total - (IF oldest \in disk THEN oldest.bytes ELSE 0)
          /\ profiles' = Tail(profiles)
          /\ UNCHANGED <<pc, exit>>
  /\ UNCHANGED <<stopping, childPid, loop, trapped, bad, child, file, env>>

(* The loop is over: trap - EXIT HUP INT TERM; cleanup *)
Untrap ==
  /\ \/ pc = "untrap"
     \/ pc = "loop" /\ stopping = 1
  /\ pc' = "clTerm"
  /\ trapped' = 0 /\ exit' = "0"
  /\ UNCHANGED <<stopping, childPid, loop, kept, bad, child, file, env>>

-----------------------------------------------------------------------------
(* cleanup *)

ClTerm ==
  /\ Goto("clTerm", "clWait")
  /\ stopping' = 1 /\ TermChild
  /\ UNCHANGED <<childPid, loop, kept, trapped, bad, exit, session, file, env>>

ClWait ==
  /\ Goto("clWait", "clStatus")
  /\ childPid = 1 => asprof \notin Alive
  /\ UNCHANGED <<stopping, childPid, loop, kept, trapped, bad, exit, child, file, env>>

(* An asprof command that may fail to reach the target. *)
Command(Effect, Failure) ==
  \/ /\ target = 1 /\ Effect /\ faults' = faults
  \/ /\ target = 0 /\ Failure /\ faults' = faults
  \/ /\ faults < MaxFaults /\ Failure /\ faults' = faults + 1

ClStatus ==
  /\ pc = "clStatus"
  /\ IF started = 1 /\ target = 1
     THEN Command(pc' = IF session = 1 THEN "clStop" ELSE "clRm", pc' = "clStop")
     ELSE pc' = "clRm" /\ faults' = faults
  /\ UNCHANGED <<stopping, childPid, loop, kept, trapped, bad, exit, child, file,
                 target, signals, deletes>>

ClStop ==
  /\ Goto("clStop", "clVerify")
  /\ Command(session' = 0 /\ bad' = bad, session' = session /\ bad' = 1)
  /\ UNCHANGED <<stopping, childPid, loop, kept, trapped, exit, asprof, file,
                 target, signals, deletes>>

ClVerify ==
  /\ Goto("clVerify", "clRm")
  /\ Command(bad' = (IF session = 1 THEN 1 ELSE bad), bad' = 1)
  /\ UNCHANGED <<stopping, childPid, loop, kept, trapped, exit, child, file,
                 target, signals, deletes>>

(* rm -f -- "$partial"; the WARNING; under set -e a failed cleanup ends    *)
(* the script with 1, from the EXIT trap as well.                          *)
ClRm ==
  /\ Goto("clRm", "exit")
  /\ partial' = 0
  /\ exit' = IF bad = 1 THEN "1" ELSE exit
  /\ UNCHANGED <<stopping, childPid, loop, kept, trapped, bad, child, size, env>>

Script ==
  \/ Begin \/ Spawn \/ Register \/ Poll \/ Wait \/ Decide \/ Publish
  \/ Account \/ Prune \/ Untrap
  \/ ClTerm \/ ClWait \/ ClStatus \/ ClStop \/ ClVerify \/ ClRm

-----------------------------------------------------------------------------
(* The asprof process and the target *)

script == <<pc, stopping, childPid, loop, kept, trapped, bad, exit>>

Attach ==
  /\ asprof = "attaching"
  /\ \/ target = 1 /\ asprof' = "running" /\ session' = 1 /\ partial' = 1
     \/ asprof' = "failed" /\ UNCHANGED <<session, partial>>
  /\ UNCHANGED <<script, size, env>>

Grow ==
  /\ asprof \in {"running", "ending"} /\ session = 1 /\ size < Largest
  /\ size' = size + 1
  /\ UNCHANGED <<script, child, partial, env>>

(* The capture ends: asprof stops the session and succeeds, or it fails    *)
(* and may leave the session behind.                                       *)
EndCapture ==
  /\ asprof \in {"running", "ending"}
  /\ \/ asprof' = "ok" /\ target = 1 /\ session' = 0
     \/ asprof' = "failed" /\ session' \in {0, session}
  /\ UNCHANGED <<script, file, env>>

(* The target exits, and another process may get its PID. *)
TargetExits ==
  /\ target = 1
  /\ target' = 0 /\ session' = 0
  /\ UNCHANGED <<script, asprof, file, signals, deletes, faults>>

(* The operator removes a profile. *)
Delete ==
  /\ deletes < MaxDeletes
  /\ \E f \in disk : disk' = disk \ {f}
  /\ deletes' = deletes + 1
  /\ UNCHANGED <<pc, stopping, childPid, loop, profiles, total, trapped, bad, exit,
                 child, file, target, signals, faults>>

-----------------------------------------------------------------------------
(* Signals *)

Signalled == pc # "exit" /\ signals < MaxSignals /\ signals' = signals + 1

(* stop_capture between two commands *)
Interrupt ==
  /\ Signalled /\ trapped = 1
  /\ stopping' = 1 /\ TermChild
  /\ UNCHANGED <<pc, childPid, loop, kept, trapped, bad, exit, session, file,
                 target, deletes, faults>>

(* stop_capture in one of the two waits, which returns at once *)
InterruptWait ==
  /\ Signalled /\ trapped = 1 /\ asprof \in Alive
  /\ stopping' = 1 /\ TermChild
  /\ \/ /\ Goto("wait", "decide")
        /\ status' = "failed" /\ childPid' = 0
     \/ /\ Goto("clWait", "clStatus") /\ childPid = 1
        /\ UNCHANGED <<status, childPid>>
  /\ UNCHANGED <<started, budget, sequence, kept, trapped, bad, exit, session, file,
                 target, deletes, faults>>

(* Ctrl-C in the poll loop kills the `sleep` as well. *)
InterruptSleep ==
  /\ Signalled /\ trapped = 1 /\ pc = "poll"
  /\ stopping' = 1 /\ TermChild
  /\ Leave("130")
  /\ UNCHANGED <<childPid, loop, kept, trapped, bad, session, file, target, deletes, faults>>

(* Without a trap the signal ends the script. *)
Kill ==
  /\ Signalled /\ trapped = 0
  /\ pc' = "exit" /\ exit' = "signal"
  /\ UNCHANGED <<stopping, childPid, loop, kept, trapped, bad, child, file,
                 target, deletes, faults>>

Next ==
  \/ Script
  \/ Attach \/ Grow \/ EndCapture \/ TargetExits \/ Delete
  \/ Interrupt \/ InterruptWait \/ InterruptSleep \/ Kill

Spec == Init /\ [][Next]_vars

(* The script and asprof keep running; a capture ends at its duration. *)
FairSpec ==
  /\ Spec
  /\ WF_vars(Script)
  /\ WF_vars(Attach \/ EndCapture)
-----------------------------------------------------------------------------
(* Correctness *)

PcType ==
  {"loop", "spawn", "register", "poll", "wait", "decide", "publish", "account",
   "prune", "untrap", "clTerm", "clWait", "clStatus", "clStop", "clVerify",
   "clRm", "exit"}

(* One element for each unit of each profile of S. *)
Units(S) == UNION {{f} \X (1..f.bytes) : f \in S}

BytesOf(S) == Cardinality(Units(S))

ProfileType == [id : 1..MaxRounds, bytes : 1..Largest]

(* The variables hold what the script puts in them. *)
TypeOK ==
  /\ pc \in PcType
  /\ {stopping, childPid, started, budget, trapped, bad, session, target, partial}
       \subseteq {0, 1}
  /\ status \in {"ok", "failed"}
  /\ sequence \in 0..MaxRounds
  /\ profiles \in Seq(ProfileType) /\ total \in Nat
  /\ exit \in {"none", "0", "1", "5", "6", "130", "signal"}
  /\ asprof \in Alive \cup {"none", "ok", "failed"}
  /\ size \in 0..Largest
  /\ disk \subseteq ProfileType
  /\ signals \in 0..MaxSignals /\ deletes \in 0..MaxDeletes /\ faults \in 0..MaxFaults

(* SKILL.md:60, where the traps reach: a script that has ended by itself   *)
(* left no active session in the target, or it printed the WARNING.        *)
SessionStopped ==
  pc = "exit" /\ exit # "signal" /\ session = 1 => bad = 1

(* SKILL.md:47: no more than MAX_FILES profiles and MAX_TOTAL_BYTES are    *)
(* retained whenever a round ends, whatever the operator removes.          *)
RetentionBounded ==
  pc \in {"loop", "untrap"} =>
    /\ Cardinality(disk) <= MaxFiles
    /\ BytesOf(disk) <= MaxBytes

(* Only whole captures are published: asprof had ended well, within budget. *)
PublishedIsWhole == pc = "publish" => asprof = "ok" /\ budget = 0 /\ size > 0

(* No partial file outlives a script that has ended by itself. *)
NoPartialLeft == pc = "exit" /\ exit # "signal" => partial = 0

(* Once asked to stop, the script ends. *)
StopEnds == stopping = 1 ~> pc = "exit"
=============================================================================
