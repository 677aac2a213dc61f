----------------------------- MODULE JfrCapture -----------------------------
(***************************************************************************)
(* jfr-capture.sh from its traps (line 104) to its exit: a recording is    *)
(* started in the target, polled until it has ended by itself, and its     *)
(* file taken; whatever ends the script first has the recording stopped.   *)
(*                                                                         *)
(* jcmd may be stopped by its timeout; the target then has not got the     *)
(* command, or carries it out later, before any later one (its attach      *)
(* listener takes one after the other).  The target writes the file when   *)
(* the recording stops, and may exit at any point; its PID may be used     *)
(* again by another JVM, in which no recording of that name is found.      *)
(***************************************************************************)
EXTENDS Naturals, Sequences

CONSTANTS
  Duration,   (* DURATION_SECONDS                                          *)
  Grace,      (* the 60 seconds more until the deadline                    *)
  MaxPoll,    (* bound: what one poll takes                                *)
  MaxFaults,  (* bound: commands and dumps that fail                       *)
  MaxSignals  (* bound: HUP, INT, TERM                                     *)

VARIABLES
  next,       (* the next command, one of Commands                         *)
  side,       (* whether target_side is set: another mount namespace       *)
  started,    (* recording_started                                         *)
  exit,       (* the exit status                                           *)
  warned,     (* whether the warning of stop_recording was printed         *)
  target,     (* same, gone, reused                                        *)
  queue,      (* commands the target has not carried out yet               *)
  recording,  (* none, running, stopping, closed                           *)
  file,       (* jvm_file: none, empty, partial, whole                     *)
  output,     (* OUTPUT; with target_side, a copy of file                  *)
  clock, faults, signals,
  cut,        (* history: a signal ended the EXIT trap                     *)
  damaged     (* history: the target could not write the file              *)

vars == <<next, side, started, exit, warned, target, queue, recording, file, output, clock, faults,
          signals, cut, damaged>>
jvm == <<target, queue, recording, file, damaged>>
spent == <<clock, faults, signals, cut>>

Commands == {"identity", "mark", "launch", "poll", "check", "finish", "clear", "copy", "remove", "judge",
             "stop", "verify", "clean", "end"}

Init ==
  /\ next = "identity" /\ side \in {0, 1} /\ started = 0 /\ exit = 0 /\ warned = 0
  /\ target = "same" /\ queue = <<>> /\ recording = "none" /\ file = "none" /\ output = "none"
  /\ clock = 0 /\ faults = 0 /\ signals = 0 /\ cut = 0 /\ damaged = 0

-----------------------------------------------------------------------------
(* exit, and the EXIT trap: stop_recording *)
Leave(status) ==
  /\ exit' = status
  /\ next' = IF started = 1 /\ target = "same" THEN "stop" ELSE "clean"

Goto(command) == next' = command /\ UNCHANGED exit

(* run_jcmd: it answers when everything before it is done; or it fails,    *)
(* and what it asked for may be waiting in the target.                     *)
Answers == target # "gone" /\ queue = <<>>
Fails(command) ==
  \/ target = "gone" /\ UNCHANGED <<queue, faults>>
  \/ /\ faults < MaxFaults /\ faults' = faults + 1
     /\ \/ UNCHANGED queue
        \/ target = "same" /\ command # "check" /\ queue' = Append(queue, command)

-----------------------------------------------------------------------------
(* The script *)

Identity ==
  /\ next = "identity" /\ (IF target = "same" THEN Goto("mark") ELSE Leave(5))
  /\ UNCHANGED <<side, started, warned, jvm, output, spent>>

(* Mutant: the recording counts as started once JFR.start has said so. *)
MarkLater ==
  /\ next = "mark" /\ Goto("launch")
  /\ UNCHANGED <<side, started, warned, jvm, output, spent>>

(* recording_started=1, before JFR.start *)
Mark ==
  /\ next = "mark" /\ Goto("launch") /\ started' = 1
  /\ UNCHANGED <<side, warned, jvm, output, spent>>

(* JFR.start duration=... filename=...; the target creates the file. *)
Launch ==
  /\ next = "launch"
  /\ \/ /\ Answers /\ Goto("poll") /\ UNCHANGED <<queue, faults>>
        /\ IF target = "same" THEN recording' = "running" /\ file' = "empty" ELSE UNCHANGED <<recording, file>>
     \/ Leave(5) /\ Fails("start") /\ UNCHANGED <<recording, file>>
  /\ UNCHANGED <<side, started, warned, target, damaged, output, clock, signals, cut>>

(* while (( SECONDS < deadline )); sleep 1; start_time *)
Poll ==
  /\ next = "poll"
  /\ \/ clock >= Duration + Grace /\ Leave(5) /\ UNCHANGED clock
     \/ /\ clock < Duration + Grace /\ \E n \in 1..MaxPoll : clock' = clock + n
        /\ IF target = "same" THEN Goto("check") ELSE Leave(5)
  /\ UNCHANGED <<side, started, warned, jvm, output, faults, signals, cut>>

(* JFR.check name=...: "Could not find", or one of the states of a         *)
(* recording that is not finished.                                         *)
Check ==
  /\ next = "check"
  /\ \/ /\ Answers /\ UNCHANGED <<queue, faults>>
        /\ Goto(IF target = "same" /\ recording \in {"running", "stopping"} THEN "poll" ELSE "finish")
     \/ Leave(5) /\ Fails("check")
  /\ UNCHANGED <<side, started, warned, target, recording, file, damaged, output, clock, signals, cut>>

(* Mutant: a recording that is not found has finished. *)
FinishUnchecked ==
  /\ next = "finish" /\ Goto("clear")
  /\ UNCHANGED <<side, started, warned, jvm, output, spent>>

(* Target changed during recording. *)
Finish ==
  /\ next = "finish" /\ (IF target = "same" THEN Goto("clear") ELSE Leave(5))
  /\ UNCHANGED <<side, started, warned, jvm, output, spent>>

Clear ==
  /\ next = "clear" /\ started' = 0 /\ Goto(IF side = 1 THEN "copy" ELSE "judge")
  /\ UNCHANGED <<side, warned, jvm, output, spent>>

(* cp from /proc/PID/root, which may be the same directory if another      *)
(* process has the PID                                                     *)
Copy ==
  /\ next = "copy"
  /\ \/ target # "gone" /\ file # "none" /\ output' = file /\ Goto("remove") /\ UNCHANGED faults
     \/ target # "same" /\ Leave(5) /\ UNCHANGED <<output, faults>>
     \/ /\ faults < MaxFaults /\ faults' = faults + 1 /\ Leave(5)
        /\ output' \in {"none", "partial"}
  /\ UNCHANGED <<side, started, warned, jvm, clock, signals, cut>>

Removed ==
  (IF side = 1 /\ target # "gone" THEN {"none"} ELSE {}) \cup
  (IF side = 0 \/ target # "same" THEN {file} ELSE {})

(* rm -f *)
Remove ==
  /\ next = "remove" /\ file' \in Removed /\ Goto("judge")
  /\ UNCHANGED <<side, started, warned, target, queue, recording, damaged, output, spent>>

Artifact == IF side = 1 THEN output ELSE file

(* trap -; [[ -s OUTPUT ]] *)
Judge ==
  /\ next = "judge" /\ next' = "end"
  /\ exit' = IF Artifact \in {"none", "empty"} THEN 5 ELSE 0
  /\ UNCHANGED <<side, started, warned, jvm, output, spent>>

-----------------------------------------------------------------------------
(* stop_recording *)

(* JFR.stop returns when the file is written; it fails for a recording     *)
(* that is not found, or is stopping already.                              *)
Stop ==
  /\ next = "stop" /\ UNCHANGED exit
  /\ \/ /\ Answers /\ target = "same" /\ recording = "running"
        /\ next' = "verify" /\ recording' = "closed" /\ file' = "whole"
        /\ UNCHANGED <<warned, queue, faults>>
        /\ UNCHANGED damaged
     \/ /\ next' = "clean" /\ warned' = 1
        /\ \/ Fails("stop") /\ UNCHANGED <<recording, damaged>>
           \/ /\ Answers /\ (target = "reused" \/ recording # "running")
              /\ UNCHANGED <<recording, damaged, queue, faults>>
           \/ /\ Answers /\ recording = "running" /\ faults < MaxFaults
              /\ recording' = "closed" /\ damaged' = 1 /\ faults' = faults + 1 /\ UNCHANGED queue
        /\ UNCHANGED file
  /\ UNCHANGED <<side, started, target, output, clock, signals, cut>>

(* JFR.check says "Could not find". *)
Verify ==
  /\ next = "verify" /\ next' = "clean" /\ UNCHANGED exit
  /\ \/ Answers /\ UNCHANGED <<warned, queue, faults>>
     \/ Fails("check") /\ warned' = 1
  /\ UNCHANGED <<side, started, target, recording, file, damaged, output, clock, signals, cut>>

(* rm -f "$target_side" *)
Clean ==
  /\ next = "clean" /\ next' = "end" /\ file' \in Removed
  /\ UNCHANGED <<side, started, exit, warned, target, queue, recording, damaged, output, spent>>

(* trap 'exit 130': after the command that runs; in the EXIT trap it ends  *)
(* the script.                                                             *)
Signal ==
  /\ next # "end" /\ signals < MaxSignals /\ signals' = signals + 1
  /\ IF next \in {"stop", "verify", "clean"}
     THEN next' = "end" /\ exit' = 130 /\ cut' = 1
     ELSE Leave(130) /\ UNCHANGED cut
  /\ UNCHANGED <<side, started, warned, jvm, output, clock, faults>>

Script ==
  \/ Identity \/ Mark \/ Launch \/ Poll \/ Check \/ Finish \/ Clear \/ Copy \/ Remove \/ Judge
  \/ Stop \/ Verify \/ Clean

-----------------------------------------------------------------------------
(* The target *)

(* A command whose jcmd is gone is carried out. *)
CarryOut ==
  /\ target = "same" /\ queue # <<>> /\ queue' = Tail(queue)
  /\ \/ Head(queue) = "start" /\ recording' = "running" /\ file' = "empty"
     \/ /\ Head(queue) = "stop" /\ UNCHANGED file
        /\ recording' = IF recording = "running" THEN "stopping" ELSE recording
  /\ UNCHANGED <<next, side, started, exit, warned, target, output, damaged, spent>>

(* The duration is over. *)
Expire ==
  /\ target = "same" /\ recording = "running" /\ clock >= Duration /\ recording' = "stopping"
  /\ UNCHANGED <<next, side, started, exit, warned, target, queue, file, output, damaged, spent>>

(* The file is written, and then the recording is gone. *)
WriteFile ==
  /\ target = "same" /\ recording = "stopping"
  /\ \/ file # "partial" /\ file' = "partial" /\ UNCHANGED <<recording, damaged, faults>>
     \/ file' = "whole" /\ recording' = "closed" /\ UNCHANGED <<damaged, faults>>
     \/ /\ faults < MaxFaults /\ faults' = faults + 1
        /\ damaged' = 1 /\ recording' = "closed" /\ UNCHANGED file
  /\ UNCHANGED <<next, side, started, exit, warned, target, queue, output, clock, signals, cut>>

Exits ==
  /\ target = "same" /\ target' \in {"gone", "reused"}
  /\ queue' = <<>> /\ recording' = "none"
  /\ UNCHANGED <<next, side, started, exit, warned, file, output, damaged, spent>>

Next == Script \/ Signal \/ CarryOut \/ Expire \/ WriteFile \/ Exits

Spec == Init /\ [][Next]_vars

-----------------------------------------------------------------------------
TypeOK ==
  /\ next \in Commands /\ side \in {0, 1} /\ started \in {0, 1} /\ exit \in {0, 5, 130}
  /\ warned \in {0, 1} /\ target \in {"same", "gone", "reused"}
  /\ queue \in Seq({"start", "stop"}) /\ recording \in {"none", "running", "stopping", "closed"}
  /\ {file, output} \subseteq {"none", "empty", "partial", "whole"}
  /\ clock \in 0..Duration + Grace + MaxPoll /\ faults \in 0..MaxFaults /\ signals \in 0..MaxSignals
  /\ cut \in {0, 1} /\ damaged \in {0, 1}

(* Exit 0 means that OUTPUT is the whole recording, unless the target      *)
(* could not write it: what a target that exited, or was replaced by       *)
(* another of its PID, has left is never taken for a recording.            *)
ZeroIsRecorded == next = "end" /\ exit = 0 => Artifact = "whole" \/ damaged = 1

(* What the script leaves in the target is accounted for: when it has      *)
(* ended, no recording runs on or is about to begin, and no file is left   *)
(* on the target's side, unless the operator was warned, the target is     *)
(* gone, or a second signal has ended the cleanup.                         *)
RecordingAccounted ==
  next = "end" /\ warned = 0 /\ cut = 0 /\ target = "same" =>
    /\ recording \in {"none", "closed"} /\ queue = <<>>
    /\ side = 1 => file = "none"
=============================================================================
