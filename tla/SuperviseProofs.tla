--------------------------- MODULE SuperviseProofs ---------------------------
(***************************************************************************)
(* Proofs about Supervise for every set of helpers, budget and size of the *)
(* output: what the manifest says is what happened, and nobody is left.    *)
(***************************************************************************)
EXTENDS Supervise, TLAPS

(* Before anything is sent to the group. *)
Loop == {"launch", "poll", "signals", "size", "clock", "term"}

(* After SIGKILL, or once the group was found empty. *)
Past == {"reap", "recheck", "manifest", "exit"}

(* Who runs.  Past SIGKILL nobody does, and so nobody starts another one:  *)
(* that is why no later signal to the group is needed.                     *)
GroupPart ==
  /\ command = "none" => pc \notin {"poll", "signals", "size", "clock", "term", "kill", "reap"}
  /\ pc = "launch" => command = "none"
  /\ command = "none" => \A h \in Helpers : helper[h] = "none"
  /\ pc \in Past => command # "run" /\ \A h \in Helpers : helper[h] # "run"
  /\ pc \in {"recheck", "manifest", "exit"} => command \in {"none", "reaped"}

(* How the command ended: by itself until the group was sent a signal.     *)
EndedPart ==
  /\ command \in {"none", "run", "doomed"} => ended = "not"
  /\ ended = "not" => command \in {"none", "run", "doomed"}
  /\ pc \in Loop => termed = 0
  /\ pc = "kill" => termed = 1
  /\ ended = "stopped" \/ command = "doomed" => termed = 1
  /\ disk >= Budget => full = 1

(* Why the loop was left.  The reason is launch_failed from the start, so  *)
(* that an end nobody accounted for is called that; error.txt tells it     *)
(* from a command that never ran.                                          *)
ReasonPart ==
  /\ reason = "completed" => ended = "zero"
  /\ reason = "command_failed" => ended = "failed"
  /\ reason = "timeout" => late = 1
  /\ reason = "interrupted" => interrupted # "none"
  /\ reason = "storage_limit" => full = 1
  /\ reason = "launch_failed" /\ pc \in {"term", "kill"} \cup Past => command = "none" \/ errorTxt = 1
  /\ status = "0" => reason = "completed"

(* The manifest is the last thing written. *)
ManifestPart ==
  /\ manifest # NoManifest => pc = "exit" /\ manifest = [reason |-> reason, complete |-> IF status = "0" THEN 1 ELSE 0]
  /\ pc = "exit" /\ status = "0" => manifest # NoManifest

IInv == TypeOK /\ GroupPart /\ EndedPart /\ ReasonPart /\ ManifestPart

-----------------------------------------------------------------------------
(* The initial state satisfies the invariant. *)
LEMMA InitOK == Init => IInv
  <1> SUFFICES ASSUME Init PROVE IInv
    OBVIOUS
  <1>1. TypeOK
    BY BudgetAssumption DEF Init, TypeOK, NoManifest, Statuses, Reasons, Signals
  <1>2. GroupPart /\ EndedPart /\ ReasonPart /\ ManifestPart
    BY BudgetAssumption DEF Init, GroupPart, EndedPart, ReasonPart, ManifestPart, Past, Loop, NoManifest
  <1> QED
    BY <1>1, <1>2 DEF IInv

(* A step of the supervisor preserves the invariant. *)
LEMMA SupervisorOK == IInv /\ Supervisor => IInv'
  <1> SUFFICES ASSUME IInv, Supervisor PROVE IInv'
    OBVIOUS
  <1>0. TypeOK /\ GroupPart /\ EndedPart /\ ReasonPart /\ ManifestPart
    BY DEF IInv
  <1> USE <1>0
  <1>1. CASE Launch
    <2>1. TypeOK'
      BY <1>1 DEF Launch, TypeOK, Statuses, Reasons, Signals, verdict, group, output, outside
    <2>2. GroupPart'
      BY <1>1 DEF Launch, GroupPart, Past, Loop, TypeOK, verdict, group, output, outside
    <2>3. EndedPart'
      BY <1>1 DEF Launch, EndedPart, GroupPart, Loop, TypeOK, verdict, group, output, outside
    <2>4. ReasonPart'
      BY <1>1 DEF Launch, ReasonPart, EndedPart, GroupPart, Past, Loop, TypeOK, verdict, group, output, outside
    <2>5. ManifestPart'
      BY <1>1 DEF Launch, ManifestPart, ReasonPart, TypeOK, verdict, group, output, outside
    <2> QED
      BY <2>1, <2>2, <2>3, <2>4, <2>5 DEF IInv
  <1>2. CASE LaunchFails
    <2>1. TypeOK'
      BY <1>2 DEF LaunchFails, TypeOK, Statuses, Reasons, Signals, verdict, group, output, outside
    <2>2. GroupPart'
      BY <1>2 DEF LaunchFails, GroupPart, Past, Loop, TypeOK, verdict, group, output, outside
    <2>3. EndedPart'
      BY <1>2 DEF LaunchFails, EndedPart, GroupPart, Loop, TypeOK, verdict, group, output, outside
    <2>4. ReasonPart'
      BY <1>2 DEF LaunchFails, ReasonPart, EndedPart, GroupPart, Past, Loop, TypeOK, verdict, group, output, outside
    <2>5. ManifestPart'
      BY <1>2 DEF LaunchFails, ManifestPart, ReasonPart, TypeOK, verdict, group, output, outside
    <2> QED
      BY <2>1, <2>2, <2>3, <2>4, <2>5 DEF IInv
  <1>3. CASE Poll
    <2>1. TypeOK'
      BY <1>3 DEF Poll, Stop, TypeOK, Statuses, Reasons, Signals, verdict, group, output, outside
    <2>2. GroupPart'
      BY <1>3 DEF Poll, Stop, GroupPart, Past, Loop, TypeOK, verdict, group, output, outside
    <2>3. EndedPart'
      BY <1>3 DEF Poll, Stop, EndedPart, GroupPart, Loop, TypeOK, verdict, group, output, outside
    <2>4. ReasonPart'
      BY <1>3 DEF Poll, Stop, ReasonPart, EndedPart, GroupPart, Past, Loop, TypeOK, verdict, group, output, outside
    <2>5. ManifestPart'
      BY <1>3 DEF Poll, Stop, ManifestPart, ReasonPart, TypeOK, verdict, group, output, outside
    <2> QED
      BY <2>1, <2>2, <2>3, <2>4, <2>5 DEF IInv
  <1>4. CASE CheckSignals
    <2>1. TypeOK'
      BY <1>4 DEF CheckSignals, Stop, TypeOK, Statuses, Reasons, Signals, verdict, group, output, outside
    <2>2. GroupPart'
      BY <1>4 DEF CheckSignals, Stop, GroupPart, Past, Loop, TypeOK, verdict, group, output, outside
    <2>3. EndedPart'
      BY <1>4 DEF CheckSignals, Stop, EndedPart, GroupPart, Loop, TypeOK, verdict, group, output, outside
    <2>4. ReasonPart'
      BY <1>4 DEF CheckSignals, Stop, ReasonPart, EndedPart, GroupPart, Past, Loop, TypeOK, verdict, group, output, outside
    <2>5. ManifestPart'
      BY <1>4 DEF CheckSignals, Stop, ManifestPart, ReasonPart, TypeOK, verdict, group, output, outside
    <2> QED
      BY <2>1, <2>2, <2>3, <2>4, <2>5 DEF IInv
  <1>5. CASE CheckSize
    <2>1. TypeOK'
      BY BudgetAssumption, <1>5 DEF CheckSize, Stop, TypeOK, Statuses, Reasons, Signals, verdict, group, output, outside
    <2>2. GroupPart'
      BY <1>5 DEF CheckSize, Stop, GroupPart, Past, Loop, TypeOK, verdict, group, output, outside
    <2>3. EndedPart'
      BY BudgetAssumption, <1>5 DEF CheckSize, Stop, EndedPart, GroupPart, Loop, TypeOK, verdict, group, output, outside
    <2>4. ReasonPart'
      BY BudgetAssumption, <1>5 DEF CheckSize, Stop, ReasonPart, EndedPart, GroupPart, Past, Loop, TypeOK, verdict, group, output, outside
    <2>5. ManifestPart'
      BY <1>5 DEF CheckSize, Stop, ManifestPart, ReasonPart, TypeOK, verdict, group, output, outside
    <2> QED
      BY <2>1, <2>2, <2>3, <2>4, <2>5 DEF IInv
  <1>6. CASE ScanFails
    <2>1. TypeOK'
      BY <1>6 DEF ScanFails, TypeOK, Statuses, Reasons, Signals, verdict, group, output, outside
    <2>2. GroupPart'
      BY <1>6 DEF ScanFails, SomeoneRuns, CommandAlive, Living, GroupPart, Past, Loop, TypeOK, verdict, group, output, outside
    <2>3. EndedPart'
      BY <1>6 DEF ScanFails, EndedPart, GroupPart, Loop, TypeOK, verdict, group, output, outside
    <2>4. ReasonPart'
      BY <1>6 DEF ScanFails, ReasonPart, EndedPart, GroupPart, Past, Loop, TypeOK, verdict, group, output, outside
    <2>5. ManifestPart'
      BY <1>6 DEF ScanFails, ManifestPart, ReasonPart, TypeOK, verdict, group, output, outside
    <2> QED
      BY <2>1, <2>2, <2>3, <2>4, <2>5 DEF IInv
  <1>7. CASE CheckClock
    <2>1. TypeOK'
      BY <1>7 DEF CheckClock, Stop, TypeOK, Statuses, Reasons, Signals, verdict, group, output, outside
    <2>2. GroupPart'
      BY <1>7 DEF CheckClock, Stop, GroupPart, Past, Loop, TypeOK, verdict, group, output, outside
    <2>3. EndedPart'
      BY <1>7 DEF CheckClock, Stop, EndedPart, GroupPart, Loop, TypeOK, verdict, group, output, outside
    <2>4. ReasonPart'
      BY <1>7 DEF CheckClock, Stop, ReasonPart, EndedPart, GroupPart, Past, Loop, TypeOK, verdict, group, output, outside
    <2>5. ManifestPart'
      BY <1>7 DEF CheckClock, Stop, ManifestPart, ReasonPart, TypeOK, verdict, group, output, outside
    <2> QED
      BY <2>1, <2>2, <2>3, <2>4, <2>5 DEF IInv
  <1>8. CASE Terminate
    <2>1. TypeOK'
      BY <1>8 DEF Terminate, GroupExists, CommandAlive, Living, TypeOK, Statuses, Reasons, Signals, verdict, group, output, outside
    <2>2. GroupPart'
      BY <1>8 DEF Terminate, GroupExists, CommandAlive, Living, GroupPart, Past, Loop, TypeOK, verdict, group, output, outside
    <2>3. EndedPart'
      BY <1>8 DEF Terminate, GroupExists, CommandAlive, Living, EndedPart, GroupPart, Loop, TypeOK, verdict, group, output, outside
    <2>4. ReasonPart'
      BY <1>8 DEF Terminate, GroupExists, CommandAlive, Living, ReasonPart, EndedPart, GroupPart, Past, Loop, TypeOK, verdict, group, output, outside
    <2>5. ManifestPart'
      BY <1>8 DEF Terminate, GroupExists, CommandAlive, Living, ManifestPart, ReasonPart, TypeOK, verdict, group, output, outside
    <2> QED
      BY <2>1, <2>2, <2>3, <2>4, <2>5 DEF IInv
  <1>9. CASE Kill
    <2>1. TypeOK'
      BY <1>9 DEF Kill, TypeOK, Statuses, Reasons, Signals, verdict, group, output, outside
    <2>2. GroupPart'
      BY <1>9 DEF Kill, GroupPart, Past, Loop, TypeOK, verdict, group, output, outside
    <2>3. EndedPart'
      BY <1>9 DEF Kill, EndedPart, GroupPart, Loop, TypeOK, verdict, group, output, outside
    <2>4. ReasonPart'
      BY <1>9 DEF Kill, ReasonPart, EndedPart, GroupPart, Past, Loop, TypeOK, verdict, group, output, outside
    <2>5. ManifestPart'
      BY <1>9 DEF Kill, ManifestPart, ReasonPart, TypeOK, verdict, group, output, outside
    <2> QED
      BY <2>1, <2>2, <2>3, <2>4, <2>5 DEF IInv
  <1>10. CASE Reap
    <2>1. TypeOK'
      BY <1>10 DEF Reap, TypeOK, Statuses, Reasons, Signals, verdict, group, output, outside
    <2>2. GroupPart'
      BY <1>10 DEF Reap, GroupPart, Past, Loop, TypeOK, verdict, group, output, outside
    <2>3. EndedPart'
      BY <1>10 DEF Reap, EndedPart, GroupPart, Loop, TypeOK, verdict, group, output, outside
    <2>4. ReasonPart'
      BY <1>10 DEF Reap, ReasonPart, EndedPart, GroupPart, Past, Loop, TypeOK, verdict, group, output, outside
    <2>5. ManifestPart'
      BY <1>10 DEF Reap, ManifestPart, ReasonPart, TypeOK, verdict, group, output, outside
    <2> QED
      BY <2>1, <2>2, <2>3, <2>4, <2>5 DEF IInv
  <1>11. CASE Recheck
    <2>1. TypeOK'
      BY BudgetAssumption, <1>11 DEF Recheck, TypeOK, Statuses, Reasons, Signals, verdict, group, output, outside
    <2>2. GroupPart'
      BY <1>11 DEF Recheck, GroupPart, Past, Loop, TypeOK, verdict, group, output, outside
    <2>3. EndedPart'
      BY BudgetAssumption, <1>11 DEF Recheck, EndedPart, GroupPart, Loop, TypeOK, verdict, group, output, outside
    <2>4. ReasonPart'
      BY BudgetAssumption, <1>11 DEF Recheck, ReasonPart, EndedPart, GroupPart, Past, Loop, TypeOK, verdict, group, output, outside
    <2>5. ManifestPart'
      BY <1>11 DEF Recheck, ManifestPart, ReasonPart, TypeOK, verdict, group, output, outside
    <2> QED
      BY <2>1, <2>2, <2>3, <2>4, <2>5 DEF IInv
  <1>12. CASE WriteManifest
    <2>1. TypeOK'
      BY <1>12 DEF WriteManifest, TypeOK, Statuses, Reasons, Signals, verdict, group, output, outside
    <2>2. GroupPart'
      BY <1>12 DEF WriteManifest, GroupPart, Past, Loop, TypeOK, verdict, group, output, outside
    <2>3. EndedPart'
      BY <1>12 DEF WriteManifest, EndedPart, GroupPart, Loop, TypeOK, verdict, group, output, outside
    <2>4. ReasonPart'
      BY <1>12 DEF WriteManifest, ReasonPart, EndedPart, GroupPart, Past, Loop, TypeOK, verdict, group, output, outside
    <2>5. ManifestPart'
      BY <1>12 DEF WriteManifest, ManifestPart, ReasonPart, TypeOK, NoManifest, Reasons, verdict, group, output, outside
    <2> QED
      BY <2>1, <2>2, <2>3, <2>4, <2>5 DEF IInv
  <1>13. CASE FinalScanFails
    <2>1. TypeOK'
      BY <1>13 DEF FinalScanFails, TypeOK, Statuses, Reasons, Signals, verdict, group, output, outside
    <2>2. GroupPart'
      BY <1>13 DEF FinalScanFails, SomeoneRuns, CommandAlive, Living, GroupPart, Past, Loop, TypeOK, verdict, group, output, outside
    <2>3. EndedPart'
      BY <1>13 DEF FinalScanFails, EndedPart, GroupPart, Loop, TypeOK, verdict, group, output, outside
    <2>4. ReasonPart'
      BY <1>13 DEF FinalScanFails, ReasonPart, EndedPart, GroupPart, Past, Loop, TypeOK, verdict, group, output, outside
    <2>5. ManifestPart'
      BY <1>13 DEF FinalScanFails, ManifestPart, ReasonPart, TypeOK, verdict, group, output, outside
    <2> QED
      BY <2>1, <2>2, <2>3, <2>4, <2>5 DEF IInv
  <1> QED
    BY <1>1, <1>2, <1>3, <1>4, <1>5, <1>6, <1>7, <1>8, <1>9, <1>10, <1>11, <1>12, <1>13 DEF Supervisor

(* A step of the group or of the environment preserves the invariant. *)
LEMMA GroupOK == IInv /\ (Next \/ UNCHANGED vars) /\ ~Supervisor => IInv'
  <1> SUFFICES ASSUME IInv, (Next \/ UNCHANGED vars) /\ ~Supervisor PROVE IInv'
    OBVIOUS
  <1>0. TypeOK /\ GroupPart /\ EndedPart /\ ReasonPart /\ ManifestPart
    BY DEF IInv
  <1> USE <1>0
  <1>1. CASE Write
    <2>1. TypeOK'
      BY BudgetAssumption, <1>1 DEF Write, TypeOK, Statuses, Reasons, Signals, verdict, group, output, outside
    <2>2. GroupPart'
      BY <1>1 DEF Write, SomeoneRuns, CommandAlive, Living, GroupPart, Past, Loop, TypeOK, verdict, group, output, outside
    <2>3. EndedPart'
      BY BudgetAssumption, <1>1 DEF Write, EndedPart, GroupPart, Loop, TypeOK, verdict, group, output, outside
    <2>4. ReasonPart'
      BY BudgetAssumption, <1>1 DEF Write, ReasonPart, EndedPart, GroupPart, Past, Loop, TypeOK, verdict, group, output, outside
    <2>5. ManifestPart'
      BY <1>1 DEF Write, ManifestPart, ReasonPart, TypeOK, verdict, group, output, outside
    <2> QED
      BY <2>1, <2>2, <2>3, <2>4, <2>5 DEF IInv
  <1>2. CASE Remove
    <2>1. TypeOK'
      BY BudgetAssumption, <1>2 DEF Remove, TypeOK, Statuses, Reasons, Signals, verdict, group, output, outside
    <2>2. GroupPart'
      BY <1>2 DEF Remove, SomeoneRuns, CommandAlive, Living, GroupPart, Past, Loop, TypeOK, verdict, group, output, outside
    <2>3. EndedPart'
      BY BudgetAssumption, <1>2 DEF Remove, EndedPart, GroupPart, Loop, TypeOK, verdict, group, output, outside
    <2>4. ReasonPart'
      BY BudgetAssumption, <1>2 DEF Remove, ReasonPart, EndedPart, GroupPart, Past, Loop, TypeOK, verdict, group, output, outside
    <2>5. ManifestPart'
      BY <1>2 DEF Remove, ManifestPart, ReasonPart, TypeOK, verdict, group, output, outside
    <2> QED
      BY <2>1, <2>2, <2>3, <2>4, <2>5 DEF IInv
  <1>3. CASE CommandExits
    <2>1. TypeOK'
      BY <1>3 DEF CommandExits, TypeOK, Statuses, Reasons, Signals, verdict, group, output, outside
    <2>2. GroupPart'
      BY <1>3 DEF CommandExits, GroupPart, Past, Loop, TypeOK, verdict, group, output, outside
    <2>3. EndedPart'
      BY <1>3 DEF CommandExits, EndedPart, GroupPart, Loop, TypeOK, verdict, group, output, outside
    <2>4. ReasonPart'
      BY <1>3 DEF CommandExits, ReasonPart, EndedPart, GroupPart, Past, Loop, TypeOK, verdict, group, output, outside
    <2>5. ManifestPart'
      BY <1>3 DEF CommandExits, ManifestPart, ReasonPart, TypeOK, verdict, group, output, outside
    <2> QED
      BY <2>1, <2>2, <2>3, <2>4, <2>5 DEF IInv
  <1>4. CASE CommandDies
    <2>1. TypeOK'
      BY <1>4 DEF CommandDies, TypeOK, Statuses, Reasons, Signals, verdict, group, output, outside
    <2>2. GroupPart'
      BY <1>4 DEF CommandDies, GroupPart, Past, Loop, TypeOK, verdict, group, output, outside
    <2>3. EndedPart'
      BY <1>4 DEF CommandDies, EndedPart, GroupPart, Loop, TypeOK, verdict, group, output, outside
    <2>4. ReasonPart'
      BY <1>4 DEF CommandDies, ReasonPart, EndedPart, GroupPart, Past, Loop, TypeOK, verdict, group, output, outside
    <2>5. ManifestPart'
      BY <1>4 DEF CommandDies, ManifestPart, ReasonPart, TypeOK, verdict, group, output, outside
    <2> QED
      BY <2>1, <2>2, <2>3, <2>4, <2>5 DEF IInv
  <1>5. ASSUME NEW h \in Helpers, Fork(h) PROVE IInv'
    <2>1. TypeOK'
      BY <1>5 DEF Fork, TypeOK, Statuses, Reasons, Signals, verdict, group, output, outside
    <2>2. GroupPart'
      BY <1>5 DEF Fork, GroupPart, Past, Loop, TypeOK, verdict, group, output, outside
    <2>3. EndedPart'
      BY <1>5 DEF Fork, EndedPart, GroupPart, Loop, TypeOK, verdict, group, output, outside
    <2>4. ReasonPart'
      BY <1>5 DEF Fork, ReasonPart, EndedPart, GroupPart, Past, Loop, TypeOK, verdict, group, output, outside
    <2>5. ManifestPart'
      BY <1>5 DEF Fork, ManifestPart, ReasonPart, TypeOK, verdict, group, output, outside
    <2> QED
      BY <2>1, <2>2, <2>3, <2>4, <2>5 DEF IInv
  <1>6. ASSUME NEW h \in Helpers, HelperExits(h) PROVE IInv'
    <2>1. TypeOK'
      BY <1>6 DEF HelperExits, TypeOK, Statuses, Reasons, Signals, verdict, group, output, outside
    <2>2. GroupPart'
      BY <1>6 DEF HelperExits, GroupPart, Past, Loop, TypeOK, verdict, group, output, outside
    <2>3. EndedPart'
      BY <1>6 DEF HelperExits, EndedPart, GroupPart, Loop, TypeOK, verdict, group, output, outside
    <2>4. ReasonPart'
      BY <1>6 DEF HelperExits, ReasonPart, EndedPart, GroupPart, Past, Loop, TypeOK, verdict, group, output, outside
    <2>5. ManifestPart'
      BY <1>6 DEF HelperExits, ManifestPart, ReasonPart, TypeOK, verdict, group, output, outside
    <2> QED
      BY <2>1, <2>2, <2>3, <2>4, <2>5 DEF IInv
  <1>7. ASSUME NEW h \in Helpers, HelperDies(h) PROVE IInv'
    <2>1. TypeOK'
      BY <1>7 DEF HelperDies, TypeOK, Statuses, Reasons, Signals, verdict, group, output, outside
    <2>2. GroupPart'
      BY <1>7 DEF HelperDies, GroupPart, Past, Loop, TypeOK, verdict, group, output, outside
    <2>3. EndedPart'
      BY <1>7 DEF HelperDies, EndedPart, GroupPart, Loop, TypeOK, verdict, group, output, outside
    <2>4. ReasonPart'
      BY <1>7 DEF HelperDies, ReasonPart, EndedPart, GroupPart, Past, Loop, TypeOK, verdict, group, output, outside
    <2>5. ManifestPart'
      BY <1>7 DEF HelperDies, ManifestPart, ReasonPart, TypeOK, verdict, group, output, outside
    <2> QED
      BY <2>1, <2>2, <2>3, <2>4, <2>5 DEF IInv
  <1>8. CASE Signal
    <2>1. TypeOK'
      BY <1>8 DEF Signal, TypeOK, Statuses, Reasons, Signals, verdict, group, output, outside
    <2>2. GroupPart'
      BY <1>8 DEF Signal, GroupPart, Past, Loop, TypeOK, verdict, group, output, outside
    <2>3. EndedPart'
      BY <1>8 DEF Signal, EndedPart, GroupPart, Loop, TypeOK, verdict, group, output, outside
    <2>4. ReasonPart'
      BY <1>8 DEF Signal, ReasonPart, EndedPart, GroupPart, Past, Loop, TypeOK, verdict, group, output, outside
    <2>5. ManifestPart'
      BY <1>8 DEF Signal, ManifestPart, ReasonPart, TypeOK, verdict, group, output, outside
    <2> QED
      BY <2>1, <2>2, <2>3, <2>4, <2>5 DEF IInv
  <1>9. CASE Deadline
    <2>1. TypeOK'
      BY <1>9 DEF Deadline, TypeOK, Statuses, Reasons, Signals, verdict, group, output, outside
    <2>2. GroupPart'
      BY <1>9 DEF Deadline, GroupPart, Past, Loop, TypeOK, verdict, group, output, outside
    <2>3. EndedPart'
      BY <1>9 DEF Deadline, EndedPart, GroupPart, Loop, TypeOK, verdict, group, output, outside
    <2>4. ReasonPart'
      BY <1>9 DEF Deadline, ReasonPart, EndedPart, GroupPart, Past, Loop, TypeOK, verdict, group, output, outside
    <2>5. ManifestPart'
      BY <1>9 DEF Deadline, ManifestPart, ReasonPart, TypeOK, verdict, group, output, outside
    <2> QED
      BY <2>1, <2>2, <2>3, <2>4, <2>5 DEF IInv
  <1>10. CASE Die
    <2>1. TypeOK'
      BY <1>10 DEF Die, TypeOK, Statuses, Reasons, Signals, verdict, group, output, outside
    <2>2. GroupPart'
      BY <1>10 DEF Die, GroupPart, Past, Loop, TypeOK, verdict, group, output, outside
    <2>3. EndedPart'
      BY <1>10 DEF Die, EndedPart, GroupPart, Loop, TypeOK, verdict, group, output, outside
    <2>4. ReasonPart'
      BY <1>10 DEF Die, ReasonPart, EndedPart, GroupPart, Past, Loop, TypeOK, verdict, group, output, outside
    <2>5. ManifestPart'
      BY <1>10 DEF Die, ManifestPart, ReasonPart, TypeOK, verdict, group, output, outside
    <2> QED
      BY <2>1, <2>2, <2>3, <2>4, <2>5 DEF IInv
  <1>11. CASE UNCHANGED vars
    <2>1. TypeOK'
      BY <1>11 DEF vars, TypeOK
    <2>2. GroupPart' /\ EndedPart'
      BY <1>11 DEF vars, GroupPart, EndedPart
    <2>3. ReasonPart' /\ ManifestPart'
      BY <1>11 DEF vars, ReasonPart, ManifestPart
    <2> QED
      BY <2>1, <2>2, <2>3 DEF IInv
  <1> QED
    BY <1>1, <1>2, <1>3, <1>4, <1>5, <1>6, <1>7, <1>8, <1>9, <1>10, <1>11 DEF Next, Dying

(* The invariant holds throughout. *)
LEMMA Invariance == Spec => []IInv
  <1>1. IInv /\ [Next]_vars => IInv'
    <2>1. CASE Supervisor
      BY <2>1, SupervisorOK
    <2>2. CASE ~Supervisor
      BY <2>2, GroupOK
    <2> QED
      BY <2>1, <2>2
  <1> QED
    BY <1>1, InitOK, PTL DEF Spec

-----------------------------------------------------------------------------
(* What the supervisor promises *)

(* Every variable keeps its type, and the output its bound.                *)
THEOREM TypeCorrect == Spec => []TypeOK
  <1>1. IInv => TypeOK
    BY DEF IInv
  <1> QED
    BY <1>1, Invariance, PTL

(* Whatever ends the command, the poll and the recheck in the finally      *)
(* block in which order, the manifest's reason is what happened            *)
(* (bounded-capture.py:52-65,78-80).                                       *)
THEOREM ReasonsAreTrue == Spec => []ReasonIsTrue
  <1>1. IInv => ReasonIsTrue
    <2> SUFFICES ASSUME IInv, manifest # NoManifest
                 PROVE  ReasonIsTrue
      BY DEF ReasonIsTrue
    <2>1. pc = "exit" /\ manifest.reason = reason /\ reason \in Reasons
      BY DEF IInv, ManifestPart, TypeOK
    <2>2. ReasonPart
      BY DEF IInv
    <2> QED
      BY <2>1, <2>2 DEF ReasonIsTrue, ReasonPart, Reasons, Past
  <1> QED
    BY <1>1, Invariance, PTL

(* Complete is said, and 0 returned, of a command that ended with 0 by     *)
(* itself and of no other (bounded-capture.py:80,87).                      *)
THEOREM CompleteMeansWhole == Spec => []CompleteIsWhole
  <1>1. IInv => CompleteIsWhole
    <2> SUFFICES ASSUME IInv
                 PROVE  CompleteIsWhole
      OBVIOUS
    <2>1. manifest = NoManifest => manifest.complete = 0
      BY DEF NoManifest
    <2>2. manifest # NoManifest => manifest.complete = IF status = "0" THEN 1 ELSE 0
      BY DEF IInv, ManifestPart
    <2>3. status = "0" => reason = "completed" /\ ended = "zero"
      BY DEF IInv, ReasonPart
    <2>4. pc = "exit" /\ status = "0" => manifest # NoManifest
      BY DEF IInv, ManifestPart
    <2> QED
      BY <2>1, <2>2, <2>3, <2>4 DEF CompleteIsWhole
  <1> QED
    BY <1>1, Invariance, PTL

(* One SIGKILL to the group is enough, however many helpers there are and  *)
(* however they start each other (bounded-capture.py:69-77).               *)
THEOREM GroupIsKilled == Spec => []NobodyLeft
  <1>1. IInv => NobodyLeft
    BY DEF IInv, GroupPart, NobodyLeft, Past
  <1> QED
    BY <1>1, Invariance, PTL
=============================================================================
