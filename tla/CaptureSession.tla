--------------------------- MODULE CaptureSession ---------------------------
(***************************************************************************)
(* skills/java-async-profiler/scripts/capture.sh: any number of captures   *)
(* of one target JVM, all asked to write the same OUTPUT.                  *)
(*                                                                         *)
(* Each script looks for an active profiler, starts asprof in the          *)
(* background, waits, checks and publishes the artifact without            *)
(* overwriting; whatever ends it, the EXIT trap stops an active session    *)
(* and removes the partial file.  A signal runs stop_capture between two   *)
(* commands or cuts the wait short; one that arrives while the EXIT trap   *)
(* runs ends the script there.  The target has one profiler: the asprof    *)
(* processes, and the scripts' own asprof commands, meet in it.            *)
(***************************************************************************)
EXTENDS Naturals

CONSTANTS
  Scripts,      (* the running capture.sh                                  *)
  NoOne,        (* the owner of no session, and of no output               *)
  MaxSignals,   (* bound: signals sent to the scripts                      *)
  MaxFaults     (* bound: asprof status/stop commands that fail            *)

ASSUME NoOneAssumption == NoOne \notin Scripts
ASSUME BoundsAssumption == MaxSignals \in Nat /\ MaxFaults \in Nat

VARIABLES
  pc,
  childPid,     (* 1: child_pid is set                                     *)
  started,      (* profiling_started                                       *)
  exit,         (* exit status, "none" while the script runs               *)
  warned,       (* 1: "could not verify that the target profiler stopped"  *)
  cut,          (* history: where a signal found no child or cut cleanup   *)
  asprof,       (* the child process of each script                        *)
  partial,      (* the partial file of each script                         *)
  output,       (* whose artifact has the name OUTPUT                      *)
  session,      (* whose asprof started the session active in the target   *)
  target,       (* 1: the PID still is the target                          *)
  signals, faults

vars == <<pc, childPid, started, exit, warned, cut, asprof, partial, output,
          session, target, signals, faults>>

(* What a script reports, and the bounds. *)
report == <<warned, cut>>
spent == <<signals, faults>>

Alive == {"attaching", "running", "ending"}

Init ==
  /\ pc = [i \in Scripts |-> "free"]
  /\ childPid = [i \in Scripts |-> 0] /\ started = [i \in Scripts |-> 0]
  /\ exit = [i \in Scripts |-> "none"]
  /\ warned = [i \in Scripts |-> 0] /\ cut = [i \in Scripts |-> "no"]
  /\ asprof = [i \in Scripts |-> "none"] /\ partial = [i \in Scripts |-> "none"]
  /\ output = NoOne /\ session = NoOne /\ target = 1
  /\ signals = 0 /\ faults = 0

At(i, from) == pc[i] = from
Goto(i, to) == pc' = [pc EXCEPT ![i] = to] /\ UNCHANGED exit

(* exit before the traps are set *)
Refuse(i, code) ==
  pc' = [pc EXCEPT ![i] = "exit"] /\ exit' = [exit EXCEPT ![i] = code]

(* exit through the EXIT trap *)
Leave(i, code) ==
  pc' = [pc EXCEPT ![i] = "clStatus"] /\ exit' = [exit EXCEPT ![i] = code]

(* An asprof status or stop command, which may fail to reach the target. *)
Command(Effect, Failure) ==
  \/ target = 1 /\ Effect /\ UNCHANGED faults
  \/ target = 0 /\ Failure /\ UNCHANGED faults
  \/ faults < MaxFaults /\ Failure /\ faults' = faults + 1

-----------------------------------------------------------------------------
(* The script *)

(* OUTPUT exists; refusing overwrite. *)
CheckFree(i) ==
  /\ At(i, "free")
  /\ IF output = NoOne THEN Goto(i, "status") ELSE Refuse(i, "4")
  /\ UNCHANGED <<childPid, started, report, asprof, partial, output, session, target, spent>>

(* A profiler session may already be active; refusing to interfere.  Then  *)
(* the traps are set.                                                      *)
CheckInactive(i) ==
  /\ At(i, "status")
  /\ Command(IF session = NoOne THEN Goto(i, "arm") ELSE Refuse(i, "4"), Refuse(i, "4"))
  /\ UNCHANGED <<childPid, started, report, asprof, partial, output, session, target, signals>>

(* profiling_started=1 *)
Arm(i) ==
  /\ At(i, "arm") /\ Goto(i, "spawn")
  /\ started' = [started EXCEPT ![i] = 1]
  /\ UNCHANGED <<childPid, report, asprof, partial, output, session, target, spent>>

(* "$asprof_bin" -d ... & *)
Spawn(i) ==
  /\ At(i, "spawn") /\ Goto(i, "register")
  /\ asprof' = [asprof EXCEPT ![i] = "attaching"]
  /\ UNCHANGED <<childPid, started, warned, cut, partial, output, session, target, spent>>

(* child_pid=$! *)
Register(i) ==
  /\ At(i, "register") /\ Goto(i, "wait")
  /\ childPid' = [childPid EXCEPT ![i] = 1]
  /\ UNCHANGED <<started, report, asprof, partial, output, session, target, spent>>

(* Mutant: the session is taken for stopped whatever the status. *)
WaitClears(i) ==
  /\ At(i, "wait") /\ asprof[i] \notin Alive
  /\ childPid' = [childPid EXCEPT ![i] = 0]
  /\ started' = [started EXCEPT ![i] = 0]
  /\ IF asprof[i] = "ok" THEN Goto(i, "settle") ELSE Leave(i, "5")
  /\ UNCHANGED <<report, asprof, partial, output, session, target, spent>>

(* wait "$child_pid"; child_pid= *)
Wait(i) ==
  /\ At(i, "wait") /\ asprof[i] \notin Alive
  /\ childPid' = [childPid EXCEPT ![i] = 0]
  /\ IF asprof[i] = "ok" THEN Goto(i, "settle") ELSE Leave(i, "5")
  /\ UNCHANGED <<started, report, asprof, partial, output, session, target, spent>>

(* profiling_started=0: a capture that ended well has ended its session.   *)
Settle(i) ==
  /\ At(i, "settle") /\ Goto(i, "verify")
  /\ started' = [started EXCEPT ![i] = 0]
  /\ UNCHANGED <<childPid, report, asprof, partial, output, session, target, spent>>

(* The artifact is there, the PID was not reused, OUTPUT is still free.    *)
(* What asprof wrote may be empty.                                         *)
Verify(i) ==
  /\ At(i, "verify")
  /\ \/ partial[i] = "whole" /\ output = NoOne /\ Goto(i, "move")
     \/ Leave(i, "5")
  /\ UNCHANGED <<childPid, started, report, asprof, partial, output, session, target, spent>>

(* mv -n -- "$partial" "$output": if OUTPUT has appeared nothing moves,    *)
(* and mv may say so by its status, which ends the script.                 *)
Move(i) ==
  /\ At(i, "move")
  /\ IF output = NoOne
     THEN Goto(i, "confirm") /\ output' = i /\ partial' = [partial EXCEPT ![i] = "none"]
     ELSE (Goto(i, "confirm") \/ Leave(i, "1")) /\ UNCHANGED <<output, partial>>
  /\ UNCHANGED <<childPid, started, report, asprof, session, target, spent>>

(* Mutant: OUTPUT is there, so it is taken for published. *)
ConfirmOutput(i) ==
  /\ At(i, "confirm")
  /\ IF output # NoOne
     THEN pc' = [pc EXCEPT ![i] = "exit"] /\ exit' = [exit EXCEPT ![i] = "0"]
     ELSE Leave(i, "5")
  /\ UNCHANGED <<childPid, started, report, asprof, partial, output, session, target, spent>>

(* [[ -s "$output" && ! -e "$partial" ]]; the traps are removed. *)
Confirm(i) ==
  /\ At(i, "confirm")
  /\ IF output # NoOne /\ partial[i] = "none"
     THEN pc' = [pc EXCEPT ![i] = "exit"] /\ exit' = [exit EXCEPT ![i] = "0"]
     ELSE Leave(i, "5")
  /\ UNCHANGED <<childPid, started, report, asprof, partial, output, session, target, spent>>

(* stop_capture has sent TERM: wait "$child_pid"; exit 130 *)
StopWait(i) ==
  /\ At(i, "stop")
  /\ childPid[i] = 1 => asprof[i] \notin Alive
  /\ Leave(i, "130")
  /\ UNCHANGED <<childPid, started, report, asprof, partial, output, session, target, spent>>

(* cleanup_capture: a child that is known has ended by now. *)
ClStatus(i) ==
  /\ At(i, "clStatus")
  /\ IF started[i] = 1 /\ target = 1
     THEN Command(Goto(i, IF session = NoOne THEN "clRm" ELSE "clStop"), Goto(i, "clStop"))
     ELSE Goto(i, "clRm") /\ UNCHANGED faults
  /\ UNCHANGED <<childPid, started, report, asprof, partial, output, session, target, signals>>

(* asprof stop ends the session of the target, whoever started it. *)
ClStop(i) ==
  /\ At(i, "clStop") /\ Goto(i, "clVerify")
  /\ Command(session' = NoOne, UNCHANGED session)
  /\ UNCHANGED <<childPid, started, report, asprof, partial, output, target, signals>>

(* Mutant: stop again until it is verified. *)
ClVerifyRetry(i) ==
  /\ At(i, "clVerify")
  /\ Command(Goto(i, IF session = NoOne THEN "clRm" ELSE "clStop"), Goto(i, "clStop"))
  /\ UNCHANGED <<childPid, started, report, asprof, partial, output, session, target, signals>>

ClVerify(i) ==
  /\ At(i, "clVerify") /\ Goto(i, "clRm")
  /\ Command(warned' = [warned EXCEPT ![i] = IF session = NoOne THEN @ ELSE 1],
             warned' = [warned EXCEPT ![i] = 1])
  /\ UNCHANGED <<childPid, started, cut, asprof, partial, output, session, target, signals>>

(* rm -f -- "$partial" *)
ClRm(i) ==
  /\ At(i, "clRm") /\ Goto(i, "exit")
  /\ partial' = [partial EXCEPT ![i] = "none"]
  /\ UNCHANGED <<childPid, started, report, asprof, output, session, target, spent>>

Script(i) ==
  \/ CheckFree(i) \/ CheckInactive(i) \/ Arm(i) \/ Spawn(i) \/ Register(i) \/ Wait(i)
  \/ Settle(i) \/ Verify(i) \/ Move(i) \/ Confirm(i) \/ StopWait(i)
  \/ ClStatus(i) \/ ClStop(i) \/ ClVerify(i) \/ ClRm(i)

-----------------------------------------------------------------------------
(* Signals *)

(* What TERM does to asprof: while it attaches it dies; once it waits for  *)
(* the end of the capture it ends the capture early.                       *)
Termed(a) == IF a = "attaching" THEN "failed" ELSE IF a = "running" THEN "ending" ELSE a

(* trap stop_capture HUP INT TERM: a signal cuts the wait short, or is     *)
(* handled after the command; stop_capture itself is entered again.        *)
Signal(i) ==
  /\ signals < MaxSignals
  /\ pc[i] \in {"arm", "spawn", "register", "wait", "settle", "verify", "move",
               "confirm", "stop"}
  /\ Goto(i, "stop")
  /\ asprof' = [asprof EXCEPT ![i] = IF childPid[i] = 1 THEN Termed(@) ELSE @]
  /\ cut' = [cut EXCEPT ![i] = IF pc[i] = "register" THEN "unregistered" ELSE @]
  /\ signals' = signals + 1
  /\ UNCHANGED <<childPid, started, warned, partial, output, session, target, faults>>

(* stop_capture is still trapped while the EXIT trap runs; its exit ends   *)
(* the script, and bash does not start the EXIT trap again.                *)
SignalInCleanup(i) ==
  /\ signals < MaxSignals
  /\ pc[i] \in {"clStatus", "clStop", "clVerify", "clRm"}
  /\ Refuse(i, "130")
  /\ cut' = [cut EXCEPT ![i] = "cleanup"]
  /\ signals' = signals + 1
  /\ UNCHANGED <<childPid, started, warned, asprof, partial, output, session, target, faults>>

-----------------------------------------------------------------------------
(* The asprof processes and the target *)

(* Only one session can be active. *)
Attach(i) ==
  /\ asprof[i] = "attaching"
  /\ \/ /\ target = 1 /\ session = NoOne
        /\ asprof' = [asprof EXCEPT ![i] = "running"]
        /\ session' = i /\ partial' = [partial EXCEPT ![i] = "part"]
     \/ /\ asprof' = [asprof EXCEPT ![i] = "failed"]
        /\ UNCHANGED <<session, partial>>
  /\ UNCHANGED <<pc, childPid, started, exit, report, output, target, spent>>

(* The capture ends: asprof stops the active session and writes what it    *)
(* recorded, or fails and may leave the session behind.                    *)
EndCapture(i) ==
  /\ asprof[i] \in {"running", "ending"}
  /\ \/ /\ target = 1 /\ session # NoOne
        /\ asprof' = [asprof EXCEPT ![i] = "ok"]
        /\ session' = NoOne /\ partial' = [partial EXCEPT ![i] = "whole"]
     \/ /\ asprof' = [asprof EXCEPT ![i] = "failed"]
        /\ session' = session \/ (session = i /\ session' = NoOne)
        /\ UNCHANGED partial
  /\ UNCHANGED <<pc, childPid, started, exit, report, output, target, spent>>

Asprof(i) == Attach(i) \/ EndCapture(i)

(* The target exits, and another process may get its PID. *)
TargetExits ==
  /\ target = 1
  /\ target' = 0 /\ session' = NoOne
  /\ UNCHANGED <<pc, childPid, started, exit, report, asprof, partial, output, spent>>

Next ==
  \/ \E i \in Scripts : Script(i) \/ Signal(i) \/ SignalInCleanup(i) \/ Asprof(i)
  \/ TargetExits

Spec == Init /\ [][Next]_vars

(* A script runs on, and a capture ends after its -d seconds. *)
FairSpec ==
  Spec /\ \A i \in Scripts : WF_vars(Script(i)) /\ WF_vars(Asprof(i))
-----------------------------------------------------------------------------
(* Correctness *)

(* The variables hold what the scripts put in them; child_pid names the    *)
(* asprof of this script, and between the start of asprof and the end of   *)
(* the wait profiling_started is set.                                      *)
TypeOK ==
  /\ pc \in [Scripts -> {"free", "status", "arm", "spawn", "register", "wait", "settle", "verify",
                         "move", "confirm", "stop", "clStatus", "clStop", "clVerify", "clRm", "exit"}]
  /\ exit \in [Scripts -> {"none", "0", "1", "4", "5", "130"}]
  /\ childPid \in [Scripts -> {0, 1}] /\ started \in [Scripts -> {0, 1}]
  /\ warned \in [Scripts -> {0, 1}]
  /\ cut \in [Scripts -> {"no", "unregistered", "cleanup"}]
  /\ asprof \in [Scripts -> Alive \cup {"none", "ok", "failed"}]
  /\ partial \in [Scripts -> {"none", "part", "whole"}]
  /\ output \in Scripts \cup {NoOne} /\ session \in Scripts \cup {NoOne}
  /\ target \in {0, 1} /\ signals \in 0..MaxSignals /\ faults \in 0..MaxFaults
  /\ \A i \in Scripts :
       /\ childPid[i] = 1 => asprof[i] # "none"
       /\ pc[i] \in {"spawn", "register", "wait"} => started[i] = 1

(* Exit 0 means that OUTPUT is the artifact of this very capture, and no   *)
(* other capture then ends with exit 0.                                    *)
ExitZeroIsPublished == \A i \in Scripts : exit[i] = "0" => output = i

(* "refuse output overwrites" (SKILL.md:57): an artifact that has the name *)
(* OUTPUT keeps it.                                                        *)
OutputIsKept == [][output # NoOne => output' = output]_vars

(* When every script and every asprof has ended, an active session was     *)
(* reported, or a signal found a script without its child, or in cleanup.  *)
SessionAccounted ==
  (\A i \in Scripts : pc[i] = "exit" /\ asprof[i] \notin Alive) /\ session # NoOne =>
    \E i \in Scripts : warned[i] = 1 \/ cut[i] # "no"

(* A script that was not cut short leaves no partial file. *)
NoPartialLeft ==
  \A i \in Scripts : pc[i] = "exit" /\ cut[i] = "no" => partial[i] = "none"

(* Every capture ends. *)
Ends == \A i \in Scripts : <>(pc[i] = "exit")
=============================================================================
