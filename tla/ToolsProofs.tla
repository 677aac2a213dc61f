------------------------------ MODULE ToolsProofs -----------------------------
(***************************************************************************)
(* The tools that start something and must account for it: jfr-capture.sh  *)
(* and its recording, the parent of collect.sh and its collectors, the     *)
(* runners and their commands, install.sh and its entries, make-lab-plan.py*)
(* and its plan; and what follows for all the tools, for every value of    *)
(* the constants that their checks of the arguments let through.           *)
(*                                                                         *)
(* The tools share nothing, so each has an invariant of its own, and a     *)
(* step of Tools is a step of the tool that runs.                          *)
(***************************************************************************)
EXTENDS Tools, ReadersProofs

-----------------------------------------------------------------------------
(* jfr-capture.sh.  The properties speak of the end, which can be reached  *)
(* from everywhere: for every step of the script IdlePart says whether the *)
(* recording counts as started, PollPart and TakePart what the target and  *)
(* its file may be then, and CleanupPart what the cleanup has achieved.    *)

NothingRuns == recording \in {"none", "closed"} /\ undone = <<>>
FileReady == file = "whole" \/ damaged = 1

IdlePart ==
  /\ command \in {"launch", "poll", "check", "finish", "clear", "stop", "verify"} => started = 1
  /\ command \in {"identity", "mark", "copy", "remove", "judge"} => started = 0
  /\ started = 0 /\ jvm = "same" => NothingRuns
  /\ command \in {"identity", "mark", "launch"} /\ jvm = "same" => recording = "none" /\ undone = <<>>

PollPart ==
  /\ command \in {"poll", "check", "finish"} /\ jvm = "same" =>
       undone = <<>> /\ recording # "none" /\ (recording = "closed" => FileReady)
  /\ command = "finish" /\ jvm = "same" => recording = "closed"

TakePart ==
  /\ command \in {"clear", "copy"} => FileReady
  /\ command = "clear" /\ jvm = "same" => recording = "closed" /\ undone = <<>>
  /\ command \in {"copy", "remove"} => side = 1
  /\ command = "remove" => recorded = "whole" \/ damaged = 1
  /\ command = "judge" => T!Artifact = "whole" \/ damaged = 1
  /\ command = "judge" /\ side = 1 /\ jvm = "same" => file = "none"

CleanupPart ==
  /\ command \in {"stop", "verify", "clean"} => left # 0
  /\ command = "verify" /\ jvm = "same" => NothingRuns
  /\ command = "clean" /\ warned = 0 /\ jvm = "same" => NothingRuns

EndPart == command = "end" /\ left = 0 => started = 0

JfrInv ==
  /\ T!TypeOK /\ IdlePart /\ PollPart /\ TakePart /\ CleanupPart /\ EndPart
  /\ T!ZeroIsRecorded /\ T!RecordingAccounted

LEMMA JfrInit == T!Init => JfrInv
  BY RecordingAssumption DEF T!Init, JfrInv, T!TypeOK, T!Commands, IdlePart, PollPart, TakePart, CleanupPart, EndPart,
    T!ZeroIsRecorded, T!RecordingAccounted, NothingRuns, FileReady, T!Artifact

LEMMA JfrStep == ASSUME JfrInv, [T!Next]_T!vars PROVE JfrInv'
<1> USE RecordingAssumption DEF JfrInv, T!TypeOK, T!Commands, IdlePart, PollPart, TakePart, CleanupPart, EndPart,
            T!ZeroIsRecorded, T!RecordingAccounted, NothingRuns, FileReady, T!Artifact,
            T!Leave, T!Goto, T!Answers, T!Fails, T!Removed, T!jvm, T!spent
<1>1. CASE T!Identity
  BY <1>1 DEF T!Identity
<1>2. CASE T!Mark
  BY <1>2 DEF T!Mark
<1>3. CASE T!Launch
  BY <1>3 DEF T!Launch
<1>4. CASE T!Poll
  BY <1>4 DEF T!Poll
<1>5. CASE T!Check
  BY <1>5 DEF T!Check
<1>6. CASE T!Finish
  BY <1>6 DEF T!Finish
<1>7. CASE T!Clear
  BY <1>7 DEF T!Clear
<1>8. CASE T!Copy
  BY <1>8 DEF T!Copy
<1>9. CASE T!Remove
  BY <1>9 DEF T!Remove
<1>10. CASE T!Judge
  BY <1>10 DEF T!Judge
<1>11. CASE T!Stop
  <2>1. CASE command' = "verify"
    BY <1>11, <2>1 DEF T!Stop
  <2>2. CASE command' = "clean"
    <3>1. command = "stop" /\ warned' = 1 /\ UNCHANGED <<left, file, side, started, jvm, recorded, seconds, signals, cut>>
      BY <1>11, <2>2 DEF T!Stop
    <3>2. CASE T!Fails("stop") /\ UNCHANGED <<recording, damaged>>
      BY <2>2, <3>1, <3>2
    <3>3. CASE UNCHANGED <<undone, recording, damaged, faults>>
      BY <2>2, <3>1, <3>3
    <3>4. CASE UNCHANGED undone /\ recording' = "closed" /\ damaged' = 1 /\ faults < MaxFaults /\ faults' = faults + 1
      BY <2>2, <3>1, <3>4
    <3>5. QED
      BY <1>11, <2>2, <3>2, <3>3, <3>4 DEF T!Stop
  <2>3. QED
    BY <1>11, <2>1, <2>2 DEF T!Stop
<1>12. CASE T!Verify
  BY <1>12 DEF T!Verify
<1>13. CASE T!Clean
  BY <1>13 DEF T!Clean
<1>14. CASE T!Signal
  BY <1>14 DEF T!Signal
<1>15. CASE T!CarryOut
  BY <1>15 DEF T!CarryOut
<1>16. CASE T!Expire
  BY <1>16 DEF T!Expire
<1>17. CASE T!WriteFile
  BY <1>17 DEF T!WriteFile
<1>18. CASE T!Exits
  BY <1>18 DEF T!Exits
<1>19. CASE UNCHANGED T!vars
  BY <1>19 DEF T!vars
<1>20. QED
  BY <1>1, <1>2, <1>3, <1>4, <1>5, <1>6, <1>7, <1>8, <1>9, <1>10, <1>11, <1>12, <1>13, <1>14, <1>15,
     <1>16, <1>17, <1>18, <1>19 DEF T!Next, T!Script
LEMMA JfrAlways == Spec => [](task = "jfr" => JfrInv)
<1>1. Init => (task = "jfr" => JfrInv)
  BY JfrInit DEF Init
<1>2. (task = "jfr" => JfrInv) /\ [Next]_vars => (task = "jfr" => JfrInv)'
  <2>1. task' = "jfr" /\ [Next]_vars => task = "jfr" /\ [T!Next]_T!vars
    BY DEF Next, vars, tVars, T!vars
  <2>2. QED
    BY <2>1, JfrStep
<1>3. QED
  BY <1>1, <1>2, PTL DEF Spec

-----------------------------------------------------------------------------
(* install.sh.  Both properties need to know of the entry at hand that it  *)
(* is none of the user's, between the look and the last command on it      *)
(* (EntryPart), which holds as users change entries between the runs only; *)
(* and of a run that has refused nothing that every entry it has passed is *)
(* as wanted (RunPart).                                                    *)

AtEntry == act \in {"look", "remove", "put", "mark"}

EntryPart == act \in {"remove", "put", "mark"} => entry \notin theirs

RunPart ==
  act # "idle" =>
    /\ Ready \in asked /\ E!Closed(asked)
    /\ AtEntry => entry \in asked /\ entry \notin queue
    /\ act = "done" => queue = {}
    /\ act = "put" => mode # "uninstall"
    /\ act = "mark" => mode = "copy"
    /\ verdict = 0 => \A n \in asked \ queue : (AtEntry /\ n = entry) \/ place[n] = E!Wanted

InstallInv == E!TypeOK /\ E!ForeignKept /\ EntryPart /\ RunPart

-----------------------------------------------------------------------------
(* What is installed contains readiness and everything it requires.        *)
LEMMA SkillsForClosed ==
  ASSUME NEW names \in SUBSET Skills
  PROVE  E!SkillsFor(names) \subseteq Skills /\ Ready \in E!SkillsFor(names) /\ E!Closed(E!SkillsFor(names))
<1>1. E!Closed(Skills)
  BY SkillsAssumption DEF E!Closed
<1>2. CASE names = {}
  BY <1>1, <1>2, SkillsAssumption DEF E!SkillsFor
<1>3. CASE names # {}
  <2>1. E!SkillsFor(names) = {n \in Skills : \A s \in E!Candidates(names) : n \in s}
    BY <1>3 DEF E!SkillsFor
  <2>2. Ready \in E!SkillsFor(names)
    BY <2>1, SkillsAssumption DEF E!Candidates
  <2>3. ASSUME NEW n \in E!SkillsFor(names), NEW m \in Requires[n] PROVE m \in E!SkillsFor(names)
    <3>1. n \in Skills /\ m \in Skills
      BY <2>1, <2>3, SkillsAssumption
    <3>2. \A s \in E!Candidates(names) : m \in s
      BY <2>1, <2>3 DEF E!Candidates, E!Closed
    <3>3. QED
      BY <2>1, <3>1, <3>2
  <2>4. QED
    BY <2>1, <2>2, <2>3 DEF E!Closed
<1>4. QED
  BY <1>2, <1>3

LEMMA InstallInit == E!Init => InstallInv
  BY SkillsAssumption DEF E!Init, InstallInv, E!TypeOK, E!Kinds, E!None, E!ForeignKept, EntryPart, RunPart

-----------------------------------------------------------------------------
(* Only the installer's own entries are touched. *)
LEMMA OwnEntry ==
  ASSUME E!TypeOK, E!ForeignKept, entry \in Skills, place[entry] = E!None \/ E!OwnedByUs(place[entry])
  PROVE  entry \notin theirs
  BY DEF E!TypeOK, E!ForeignKept, E!None, E!OwnedByUs

LEMMA InstallStep == ASSUME InstallInv, [E!Next]_E!vars PROVE InstallInv'
<1> USE DEF InstallInv, E!TypeOK, E!ForeignKept, EntryPart, RunPart, AtEntry, E!given
<1>1. ASSUME NEW n \in Skills, E!MakeOwn(n) PROVE InstallInv'
  BY <1>1 DEF E!MakeOwn, E!Kinds, E!None
<1>2. CASE E!Start
  <2>1. PICK names \in SUBSET Skills : asked' = E!SkillsFor(names)
    BY <1>2 DEF E!Start
  <2>2. asked' \subseteq Skills /\ Ready \in asked' /\ E!Closed(asked)'
    <3>1. asked' \subseteq Skills /\ Ready \in asked' /\ E!Closed(asked')
      BY <2>1, SkillsForClosed
    <3>2. QED
      BY <3>1 DEF E!Closed
  <2>3. tries' \in 0..MaxRuns
    BY <1>2, SkillsAssumption DEF E!Start
  <2>4. QED
    BY <1>2, <2>2, <2>3 DEF E!Start
<1>3. CASE E!NextSkill
  <2>1. CASE queue = {} /\ act' = "done" /\ UNCHANGED <<queue, entry>>
    BY <1>3, <2>1 DEF E!NextSkill, E!Wanted, E!Closed
  <2>2. CASE \E n \in queue : entry' = n /\ queue' = queue \ {n} /\ act' = "look"
    BY <1>3, <2>2 DEF E!NextSkill, E!Wanted, E!Closed
  <2>3. QED
    BY <1>3, <2>1, <2>2 DEF E!NextSkill
<1>4. CASE E!Look
  <2>1. place[entry] = E!None \/ E!OwnedByUs(place[entry]) => entry \notin theirs
    BY OwnEntry
  <2>2. CASE place[entry] = E!None /\ act' = (IF mode = "uninstall" THEN "loop" ELSE "put") /\ UNCHANGED verdict
    BY <1>4, <2>1, <2>2 DEF E!Look, E!Wanted, E!Closed
  <2>3. CASE ~E!OwnedByUs(place[entry]) /\ act' = "loop" /\ verdict' = 1
    BY <1>4, <2>3 DEF E!Look, E!Closed
  <2>4. CASE E!OwnedByUs(place[entry]) /\ act' = (IF E!Already(place[entry]) THEN "loop" ELSE "remove") /\ UNCHANGED verdict
    BY <1>4, <2>1, <2>4 DEF E!Look, E!Already, E!Wanted, E!Closed
  <2>5. QED
    BY <1>4, <2>2, <2>3, <2>4 DEF E!Look
<1>5. CASE E!Remove
  BY <1>5 DEF E!Remove, E!Wanted, E!Kinds, E!None, E!Closed
<1>6. CASE E!Put
  BY <1>6 DEF E!Put, E!Wanted, E!Kinds, E!None, E!Closed
<1>7. CASE E!Mark
  BY <1>7 DEF E!Mark, E!Wanted, E!Kinds, E!None, E!Closed
<1>8. CASE E!Stop
  <2>1. act \in {"loop", "look"} => E!Halfway = {place[entry]}
    BY DEF E!Halfway
  <2>2. E!Halfway \subseteq E!Kinds
    BY DEF E!Halfway, E!Kinds, E!None
  <2>3. QED
    BY <1>8, <2>1, <2>2 DEF E!Stop
<1>9. CASE UNCHANGED E!vars
  BY <1>9 DEF E!vars, E!Wanted, E!Closed
<1>10. QED
  BY <1>1, <1>2, <1>3, <1>4, <1>5, <1>6, <1>7, <1>8, <1>9 DEF E!Next

LEMMA InstallAlways == Spec => [](task = "install" => InstallInv)
<1>1. Init => (task = "install" => InstallInv)
  BY InstallInit DEF Init
<1>2. (task = "install" => InstallInv) /\ [Next]_vars => (task = "install" => InstallInv)'
  <2>1. task' = "install" /\ [Next]_vars => task = "install" /\ [E!Next]_E!vars
    BY DEF Next, vars, eVars, E!vars
  <2>2. QED
    BY <2>1, InstallStep
<1>3. QED
  BY <1>1, <1>2, PTL DEF Spec

-----------------------------------------------------------------------------
(* The parent of collect.sh.  Until the trap is set a child runs for every *)
(* index that was passed and none for another; from then on one that was   *)
(* passed has ended with a status that counts, or a signal has cut its     *)
(* wait short, and of these there are no more than signals.                *)

Settled(n) ==
  \/ children[n] = "ended" /\ rc[n] <= worst
  \/ children[n] \in {"told", "ended"} /\ worst >= CutStatus

Passed == {n \in 1..(index - 1) : children[n] \in {"runs", "told"}}

Waiting ==
  /\ \A n \in B!Order : children[n] # "off"
  /\ \A n \in 1..(index - 1) : Settled(n)
  /\ Cardinality(Passed) <= stops

LaunchPart ==
  /\ parent = "plan" => \A n \in B!Order : children[n] = "off"
  /\ parent = "launch" => worst = 0 /\ \A n \in 1..(index - 1) : children[n] # "off"
  /\ parent \in {"plan", "launch"} => stops = 0

OverPart ==
  parent = "over" =>
    \/ worst >= 1 /\ \A n \in B!Order : children[n] = "off"
    \/ index = Count + 1 /\ Waiting

ParentInv == B!TypeOK /\ LaunchPart /\ (parent = "wait" => Waiting) /\ OverPart

LEMMA PassedIsFinite == ASSUME B!TypeOK PROVE IsFiniteSet(Passed) /\ Cardinality(Passed) \in Nat
<1>1. IsFiniteSet(1..(index - 1)) /\ Passed \subseteq 1..(index - 1)
  BY FS_Interval, ChildrenAssumption DEF B!TypeOK, Passed
<1>2. QED
  BY <1>1, FS_Subset, FS_CardinalityType

LEMMA PassedIsFiniteNext == ASSUME B!TypeOK' PROVE IsFiniteSet(Passed') /\ Cardinality(Passed') \in Nat
<1>1. index' - 1 \in Int
  BY ChildrenAssumption DEF B!TypeOK
<1>2. IsFiniteSet(1..(index' - 1)) /\ Passed' \subseteq 1..(index' - 1)
  BY <1>1, FS_Interval DEF Passed
<1>3. QED
  BY <1>2, FS_Subset, FS_CardinalityType

LEMMA ParentNumbers ==
  ASSUME B!TypeOK
  PROVE  index \in Nat /\ worst \in Nat /\ stops \in Nat /\ \A n \in B!Order : rc[n] \in Nat
<1>1. index \in Nat /\ stops \in Nat
  BY ChildrenAssumption DEF B!TypeOK
<1>2. worst \in Nat
  BY ChildrenAssumption DEF B!TypeOK
<1>3. {0} \cup Failures \subseteq Nat
  BY ChildrenAssumption
<1>4. QED
  BY <1>1, <1>2, <1>3 DEF B!TypeOK

(* No more are left when some have ended, and one more for a wait cut short.*)
LEMMA NoMorePassed ==
  ASSUME B!TypeOK, B!TypeOK', Passed' \subseteq Passed
  PROVE  Cardinality(Passed') <= Cardinality(Passed)
  BY PassedIsFinite, FS_Subset

LEMMA OneMorePassed ==
  ASSUME B!TypeOK, NEW n \in Nat, B!TypeOK', Passed' \subseteq Passed \cup {n}
  PROVE  Cardinality(Passed') <= Cardinality(Passed) + 1
<1>1. IsFiniteSet(Passed) /\ IsFiniteSet(Passed \cup {n}) /\ Cardinality(Passed) \in Nat
  BY PassedIsFinite, FS_AddElement
<1>2. Cardinality(Passed \cup {n}) <= Cardinality(Passed) + 1 /\ Cardinality(Passed \cup {n}) \in Nat
  BY <1>1, FS_AddElement, FS_CardinalityType
<1>3. Cardinality(Passed') <= Cardinality(Passed \cup {n}) /\ Cardinality(Passed') \in Nat
  <2>1. IsFiniteSet(Passed')
    BY <1>1, FS_Subset
  <2>2. QED
    BY <1>1, <2>1, FS_Subset, FS_CardinalityType
<1>4. QED
  BY <1>1, <1>2, <1>3

LEMMA ParentInit == B!Init => ParentInv
  BY ChildrenAssumption DEF B!Init, B!Order, ParentInv, B!TypeOK, LaunchPart, OverPart

LEMMA ParentTyped == ASSUME ParentInv, [B!Next]_B!vars PROVE B!TypeOK'
<1> USE ChildrenAssumption DEF ParentInv, B!TypeOK, B!Order, LaunchPart, B!Larger
<1>1. CASE B!PlanOne
  BY <1>1 DEF B!PlanOne
<1>2. CASE B!Confirm
  BY <1>2 DEF B!Confirm
<1>3. CASE B!Launch
  BY <1>3 DEF B!Launch
<1>4. CASE B!SetTrap
  BY <1>4 DEF B!SetTrap
<1>5. CASE B!Wait
  BY <1>5 DEF B!Wait
<1>6. CASE B!Leave \/ B!Killed \/ UNCHANGED B!vars
  BY <1>6 DEF B!Leave, B!Killed, B!vars
<1>7. CASE B!Signal
  BY <1>7 DEF B!Signal, B!Cut, B!PassOn
<1>8. ASSUME NEW n \in B!Order, B!ChildEnds(n) PROVE B!TypeOK'
  BY <1>8 DEF B!ChildEnds
<1>9. QED
  BY <1>1, <1>2, <1>3, <1>4, <1>5, <1>6, <1>7, <1>8 DEF B!Next

LEMMA IndexBefore == \A k \in 1..(Count + 1) : \A n \in 1..(k - 1) : n \in 1..Count
  BY ChildrenAssumption

LEMMA SignalKeeps ==
  ASSUME B!TypeOK, B!TypeOK', B!Signal
  PROVE  worst' \in Nat /\ worst' >= worst /\ \A n \in 1..(index' - 1) : n \in B!Order
<1>1. worst' \in {worst, B!Larger(worst, CutStatus)}
  BY DEF B!Signal, B!Cut
<1>2. index' \in 1..(Count + 1)
  BY DEF B!TypeOK
<1>3. \A n \in 1..(index' - 1) : n \in B!Order
  BY <1>2, ChildrenAssumption, IndexBefore DEF B!Order
<1>4. QED
  BY <1>1, <1>3, ParentNumbers, ChildrenAssumption DEF B!Larger

LEMMA ParentStep == ASSUME ParentInv, [B!Next]_B!vars PROVE ParentInv'
<1>1. B!TypeOK' /\ index \in Nat /\ worst \in Nat /\ stops \in Nat /\ \A n \in B!Order : rc[n] \in Nat
  BY ParentTyped, ParentNumbers DEF ParentInv
<1> USE ChildrenAssumption DEF ParentInv, B!TypeOK, B!Order, LaunchPart, OverPart, Waiting, Settled, B!Larger
<1>2. CASE B!PlanOne
  BY <1>1, <1>2 DEF B!PlanOne
<1>3. CASE B!Confirm
  <2>1. parent' = "launch" \/ (parent' = "over" /\ worst' >= 1 /\ children' = children)
    BY <1>1, <1>3 DEF B!Confirm
  <2>2. CASE parent' = "launch"
    BY <1>1, <1>3, <2>2 DEF B!Confirm
  <2>3. CASE parent' = "over"
    BY <1>1, <1>3, <2>1, <2>3 DEF B!Confirm
  <2>4. QED
    BY <2>1, <2>2, <2>3
<1>4. CASE B!Launch
  BY <1>1, <1>4 DEF B!Launch
<1>5. CASE B!SetTrap
  <2>1. Passed' = {}
    BY <1>5 DEF B!SetTrap, Passed
  <2>2. QED
    BY <1>1, <1>5, <2>1, FS_EmptySet DEF B!SetTrap
<1>6. CASE B!Wait
  <2>1. Passed' \subseteq Passed
    BY <1>6 DEF B!Wait, Passed
  <2>2. Cardinality(Passed') <= Cardinality(Passed)
    BY <1>1, <2>1, NoMorePassed
  <2>3. Cardinality(Passed') \in Nat /\ Cardinality(Passed) \in Nat
    BY <1>1, PassedIsFinite, PassedIsFiniteNext
  <2>4. ASSUME NEW n \in 1..(index' - 1) PROVE Settled(n)'
    <3>1. n \in B!Order /\ (n \in 1..(index - 1) \/ n = index) /\ rc[index] \in Nat
      BY <1>1, <1>6, <2>4 DEF B!Wait
    <3>2. UNCHANGED <<children, rc>> /\ worst' \in Nat /\ worst' >= worst /\ worst' >= rc[index] /\ children[index] = "ended"
      BY <1>1, <1>6, <3>1 DEF B!Wait
    <3>3. QED
      BY <1>1, <1>6, <3>1, <3>2 DEF B!Wait
  <2>5. QED
    BY <1>1, <1>6, <2>2, <2>3, <2>4 DEF B!Wait
<1>7. CASE B!Leave \/ B!Killed \/ UNCHANGED B!vars
  <2>1. Passed' = Passed
    BY <1>7 DEF B!Leave, B!Killed, B!vars, Passed
  <2>2. Waiting' <=> Waiting
    BY <1>7, <2>1 DEF B!Leave, B!Killed, B!vars
  <2>3. CASE B!Leave
    BY <1>1, <2>2, <2>3 DEF B!Leave
  <2>4. CASE B!Killed
    BY <1>1, <2>2, <2>4 DEF B!Killed
  <2>5. CASE UNCHANGED B!vars
    BY <1>1, <2>2, <2>5 DEF B!vars
  <2>6. QED
    BY <1>7, <2>3, <2>4, <2>5
<1>8. CASE B!Signal
  <2>1. parent = "wait" /\ parent' = "wait" /\ stops' = stops + 1 /\ rc' = rc /\ index \in Nat
    BY <1>8 DEF B!Signal
  <2>2. \A n \in B!Order : children'[n] # "off" /\ (children'[n] = "ended" <=> children[n] = "ended")
    BY <1>8 DEF B!Signal, B!PassOn
  <2>3. Passed' \subseteq Passed \cup {index}
    BY <1>1, <1>8, <2>2 DEF B!Signal, B!Cut, Passed
  <2>4. Cardinality(Passed') <= Cardinality(Passed) + 1
    BY <1>1, <2>1, <2>3, OneMorePassed
  <2>5. Cardinality(Passed') \in Nat /\ Cardinality(Passed) \in Nat
    BY <1>1, PassedIsFinite, PassedIsFiniteNext
  <2>6. ASSUME NEW n \in 1..(index' - 1) PROVE Settled(n)'
    <3>1. n \in B!Order /\ worst' \in Nat /\ worst' >= worst
      BY <1>1, <1>8, <2>6, SignalKeeps
    <3>0. children'[n] # "runs" /\ children'[n] # "off"
      BY <1>8, <2>2, <3>1 DEF B!Signal, B!PassOn
    <3>2. children'[n] \in {"told", "ended"}
      BY <1>1, <3>0, <3>1
    <3>3. CASE n \in 1..(index - 1)
      BY <1>1, <2>1, <2>2, <3>1, <3>2, <3>3
    <3>4. CASE n \notin 1..(index - 1)
      <4>1. index' # index
        BY <1>1, <2>6, <3>4
      <4>2. worst' = B!Larger(worst, CutStatus)
        BY <1>8, <4>1 DEF B!Signal, B!Cut
      <4>3. QED
        BY <1>1, <3>2, <4>2
    <3>5. QED
      BY <3>3, <3>4
  <2>7. Cardinality(Passed') <= stops'
    BY <1>1, <2>1, <2>4, <2>5
  <2>8. QED
    BY <1>1, <2>1, <2>2, <2>6, <2>7
<1>9. ASSUME NEW n \in B!Order, B!ChildEnds(n) PROVE ParentInv'
  <2>1. children[n] \in {"runs", "told"} /\ UNCHANGED <<parent, index, worst, stops>>
    BY <1>9 DEF B!ChildEnds
  <2>2. children'[n] = "ended" /\ \A m \in B!Order \ {n} : children'[m] = children[m] /\ rc'[m] = rc[m]
    BY <1>9 DEF B!ChildEnds
  <2>3. Passed' \subseteq Passed
    BY <1>1, <2>1, <2>2 DEF Passed
  <2>4. Cardinality(Passed') <= Cardinality(Passed)
    BY <1>1, <2>3, NoMorePassed
  <2>5. Cardinality(Passed') \in Nat /\ Cardinality(Passed) \in Nat
    BY <1>1, PassedIsFinite, PassedIsFiniteNext
  <2>6. Waiting => Waiting'
    BY <1>1, <2>1, <2>2, <2>4, <2>5
  <2>7. QED
    BY <1>1, <2>1, <2>2, <2>6
<1>10. QED
  BY <1>2, <1>3, <1>4, <1>5, <1>6, <1>7, <1>8, <1>9 DEF B!Next

(* Counting within an instance is counting. *)
LEMMA CardinalityOfParent == ASSUME NEW all PROVE B!Cardinality(all) = Cardinality(all)
  BY DEF B!Cardinality, Cardinality, B!IsFiniteSet, IsFiniteSet

LEMMA ParentAnswers == ASSUME ParentInv PROVE B!ZeroIsAll /\ B!FewLeftBehind
<1> USE ChildrenAssumption DEF ParentInv, B!TypeOK, B!Order, OverPart, Waiting, Settled
<1> index \in Nat /\ worst \in Nat /\ stops \in Nat /\ \A n \in B!Order : rc[n] \in Nat
  BY ParentNumbers
<1>1. B!ZeroIsAll
  <2>1. SUFFICES ASSUME parent = "over", worst = 0 PROVE \A n \in B!Order : children[n] = "ended" /\ rc[n] = 0
    BY DEF B!ZeroIsAll
  <2>2. index = Count + 1 /\ Waiting
    BY <2>1
  <2>3. QED
    BY <2>1, <2>2
<1>2. CASE parent = "over" /\ \A n \in B!Order : children[n] = "off"
  <2>1. B!Going = {}
    BY <1>2 DEF B!Going
  <2>2. B!Cardinality(B!Going) <= stops
    BY <2>1, FS_EmptySet, CardinalityOfParent
  <2>3. B!FewLeftBehind
    BY <2>1, <2>2 DEF B!FewLeftBehind
  <2>4. QED
    BY <1>1, <2>3
<1>3. CASE parent = "over" /\ index = Count + 1 /\ Waiting
  <2>1. B!Going = Passed /\ B!Cardinality(Passed) <= stops
    BY <1>3, CardinalityOfParent DEF B!Going, Passed
  <2>2. \A n \in B!Going : children[n] = "told" /\ worst >= CutStatus
    BY <1>3 DEF B!Going
  <2>3. B!Going # {} => worst >= CutStatus
    BY <2>2
  <2>4. B!FewLeftBehind
    BY <2>1, <2>2, <2>3 DEF B!FewLeftBehind
  <2>5. QED
    BY <1>1, <2>4
<1>4. QED
  BY <1>1, <1>2, <1>3 DEF B!FewLeftBehind

LEMMA ParentAlways == Spec => [](task = "parent" => ParentInv)
<1>1. Init => (task = "parent" => ParentInv)
  BY ParentInit DEF Init
<1>2. (task = "parent" => ParentInv) /\ [Next]_vars => (task = "parent" => ParentInv)'
  <2>1. task' = "parent" /\ [Next]_vars => task = "parent" /\ [B!Next]_B!vars
    BY DEF Next, vars, bVars, B!vars
  <2>2. QED
    BY <2>1, ParentStep
<1>3. QED
  BY <1>1, <1>2, PTL DEF Spec

(* What jfr-capture.sh leaves in the target, and the parent of collect.sh  *)
(* among its collectors, is accounted for.                                 *)
THEOREM NothingUnaccounted == Spec => []RecordingAccounted
<1>1. (task = "jfr" => JfrInv) /\ (task = "parent" => ParentInv) => RecordingAccounted
  BY ParentAnswers DEF JfrInv, RecordingAccounted
<1>2. QED
  BY <1>1, JfrAlways, ParentAlways, PTL

-----------------------------------------------------------------------------
(* The runners.  A row that says complete stands for a run that ended with *)
(* 0 and printed a result, and while the program goes on the rows and the  *)
(* runs correspond: one by one, two runs to a row, or, once a JDK was not  *)
(* there, no longer, but then not all rows are complete.  What was printed *)
(* is kept up to the run on which recovery-compare.py fails.               *)

Fine(r) == r.end = "0" /\ \E found \in R!Results : R!Shows(r, found)
Alike(r, q) == \E found \in R!Results : R!Shows(r, found) /\ R!Shows(q, found)
AllComplete(list) == \A i \in DOMAIN list : list[i] = "complete"
RowsTell(list, told) == Len(list) = Len(told) /\ \A i \in DOMAIN list : list[i] = "complete" => Fine(told[i])

Paired(told, n) ==
  /\ Len(told) = 2 * n \/ Len(told) = 2 * n + 1
  /\ \A i \in DOMAIN told : told[i].end = "0" /\ R!HasResult(told[i])
  /\ \A k \in 1..n : Alike(told[2 * k - 1], told[2 * k])

Alive == at # "exit" \/ status = "0"
Through == at = "summary" \/ status = "0"

RunsPart ==
  /\ program \in {"recovery", "pairs", "matrix"} /\ at \in {"jdk", "run", "summary", "exit"}
  /\ status \in {"none", "0", "1", "5", "died"} /\ (status = "none" <=> at # "exit")
  /\ runs \in Seq(R!Runs) /\ DOMAIN saved = DOMAIN runs
  /\ rows \in Seq({"complete", "incomplete", "failed", "unavailable"})
  /\ summary \in {0, 1} /\ (at # "exit" => summary = 0)
  /\ status = "0" => summary = 1 /\ AllComplete(rows)

BackedPart ==
  summary = 1 \/ program = "matrix" \/ at # "exit" => \A i \in DOMAIN runs : R!KeptWhole(i)

RecoveryPart ==
  program = "recovery" /\ Alive =>
    /\ at # "jdk" /\ RowsTell(rows, runs)
    /\ at = "run" => Len(rows) < Reps
    /\ Through => Len(rows) = Reps

PairsPart ==
  program = "pairs" /\ Alive =>
    /\ at # "jdk" /\ Paired(runs, Len(rows))
    /\ at = "run" => Len(rows) < Reps
    /\ Through => Len(rows) = Reps /\ Len(runs) = 2 * Reps

MatrixPart ==
  program = "matrix" /\ Alive =>
    /\ AllComplete(rows) => RowsTell(rows, runs)
    /\ Through => Len(rows) = Reps * Modes

RunnerInv == RunsPart /\ BackedPart /\ RecoveryPart /\ PairsPart /\ MatrixPart

-----------------------------------------------------------------------------
LEMMA RunParts ==
  ASSUME NEW r \in R!Runs
  PROVE  /\ r.end \in {"0", "1", "timeout", "unstarted"}
         /\ r.stdout \in Seq(STRING) /\ r.stderr \in Seq(STRING) /\ R!Printed(r) \in Seq(STRING)
         /\ r.end = "unstarted" => r.stdout = <<>> /\ r.stderr = <<>>
<1>1. CASE r = [end |-> "unstarted", stdout |-> <<>>, stderr |-> <<>>]
  BY <1>1 DEF R!Printed
<1>2. ASSUME NEW e \in R!Ends \ {"unstarted"}, NEW o \in Outputs, r = [end |-> e, stdout |-> o[1], stderr |-> o[2]]
      PROVE  /\ r.end \in {"0", "1", "timeout"}
             /\ r.stdout \in Seq(STRING) /\ r.stderr \in Seq(STRING) /\ R!Printed(r) \in Seq(STRING)
  <2>1. o \in Seq(STRING) \X Seq(STRING)
    BY <1>2, RunsAssumption
  <2>2. r.stdout \in Seq(STRING) /\ r.stderr \in Seq(STRING)
    BY <1>2, <2>1
  <2>3. QED
    BY <1>2, <2>2 DEF R!Ends, R!Printed
<1>3. QED
  BY <1>1, <1>2 DEF R!Runs

LEMMA ConcatStart ==
  ASSUME NEW front \in Seq(STRING), NEW back \in Seq(STRING), NEW i \in DOMAIN front
  PROVE  i \in DOMAIN (front \o back) /\ (front \o back)[i] = front[i]
<1>1. Len(front) \in Nat /\ Len(back) \in Nat /\ i \in 1..Len(front)
  OBVIOUS
<1>2. i \in 1..(Len(front) + Len(back))
  BY <1>1
<1>3. QED
  BY <1>2

(* A result is shown by whatever prints it. *)
LEMMA FieldsShown ==
  ASSUME NEW r \in R!Runs, NEW found, R!Fields(r) = {found}
  PROVE  R!Shows(r, found)
<1>1. PICK i \in DOMAIN r.stdout : r.stdout[i] = found
  BY DEF R!Fields
<1>2. i \in DOMAIN R!Printed(r) /\ R!Printed(r)[i] = r.stdout[i]
  BY <1>1, RunParts, ConcatStart DEF R!Printed
<1>3. QED
  BY <1>1, <1>2 DEF R!Shows

LEMMA ResultIsFine == ASSUME NEW r \in R!Runs, r.end = "0", R!HasResult(r) PROVE Fine(r)
  BY FieldsShown DEF Fine, R!HasResult

LEMMA CompleteIsFine == ASSUME NEW r \in R!Runs, R!IsComplete(r) PROVE Fine(r)
  BY DEF Fine, R!IsComplete, R!Shows

LEMMA PairIsAlike ==
  ASSUME NEW r \in R!Runs, NEW q \in R!Runs, R!HasResult(q), R!PairAgrees(r, q)
  PROVE  Alike(r, q)
  BY FieldsShown DEF Alike, R!HasResult, R!PairAgrees

(* What each program saves of a run holds all that was printed. *)
LEMMA HeldWhole ==
  ASSUME NEW r \in R!Runs
  PROVE  /\ R!Held(<<R!Printed(r)>>) = R!Printed(r)
         /\ R!Held(R!MatrixFiles(r)) = R!Printed(r)
         /\ r.end = "0" => R!Held(R!PairFiles(r)) = R!Printed(r)
<1>1. R!Held(<<R!Printed(r)>>) = R!Printed(r)
  BY DEF R!Held
<1>2. R!Held(<<r.stdout, r.stderr>>) = R!Printed(r)
  <2>1. <<r.stdout, r.stderr>> # <<>> /\ Len(<<r.stdout, r.stderr>>) # 1
    OBVIOUS
  <2>2. QED
    BY <2>1 DEF R!Held, R!Printed
<1>3. r.end = "unstarted" => R!Held(<<>>) = R!Printed(r)
  <2>1. r.end = "unstarted" => R!Printed(r) = <<>> \o <<>>
    BY RunParts DEF R!Printed
  <2>2. <<>> \o <<>> = <<>>
    OBVIOUS
  <2>3. R!Held(<<>>) = <<>>
    BY DEF R!Held
  <2>4. QED
    BY <2>1, <2>2, <2>3
<1>4. QED
  BY <1>1, <1>2, <1>3 DEF R!MatrixFiles, R!PairFiles

LEMMA RunnerInit == R!Init => RunnerInv
  BY RunsAssumption DEF R!Init, RunnerInv, RunsPart, BackedPart, RecoveryPart, PairsPart, MatrixPart, Alive,
    Through, AllComplete, RowsTell, Paired

-----------------------------------------------------------------------------
(* Appending to what corresponds *)

LEMMA OneMoreItem ==
  ASSUME NEW all, NEW list \in Seq(all), NEW item \in all
  PROVE  /\ Append(list, item) \in Seq(all) /\ Len(list) \in Nat /\ Len(Append(list, item)) = Len(list) + 1
         /\ DOMAIN list = 1..Len(list) /\ DOMAIN Append(list, item) = 1..(Len(list) + 1)
         /\ Append(list, item)[Len(list) + 1] = item
         /\ \A i \in 1..Len(list) : Append(list, item)[i] = list[i]
  OBVIOUS

States == {"complete", "incomplete", "failed", "unavailable"}

LEMMA MoreComplete ==
  ASSUME NEW list \in Seq(States), NEW item \in States
  PROVE  AllComplete(Append(list, item)) <=> AllComplete(list) /\ item = "complete"
<1>1. ASSUME AllComplete(Append(list, item)) PROVE AllComplete(list) /\ item = "complete"
  <2>1. Len(list) + 1 \in DOMAIN Append(list, item) /\ \A i \in 1..Len(list) : i \in DOMAIN Append(list, item)
    BY OneMoreItem
  <2>2. QED
    BY <1>1, <2>1, OneMoreItem DEF AllComplete
<1>2. ASSUME AllComplete(list), item = "complete" PROVE AllComplete(Append(list, item))
  BY <1>2, OneMoreItem DEF AllComplete
<1>3. QED
  BY <1>1, <1>2

LEMMA RowsTellMore ==
  ASSUME NEW list \in Seq(States), NEW told \in Seq(R!Runs), RowsTell(list, told),
         NEW item \in States, NEW r \in R!Runs, item = "complete" => Fine(r)
  PROVE  RowsTell(Append(list, item), Append(told, r))
<1>1. Len(Append(list, item)) = Len(Append(told, r))
  BY OneMoreItem DEF RowsTell
<1>2. ASSUME NEW i \in DOMAIN Append(list, item), Append(list, item)[i] = "complete" PROVE Fine(Append(told, r)[i])
  <2>1. CASE i \in 1..Len(list)
    BY <1>2, <2>1, OneMoreItem DEF RowsTell
  <2>2. CASE i = Len(list) + 1
    <3>1. i = Len(told) + 1 /\ Append(told, r)[i] = r /\ Append(list, item)[i] = item
      BY <2>2, OneMoreItem DEF RowsTell
    <3>2. QED
      BY <1>2, <3>1
  <2>3. i \in 1..(Len(list) + 1) /\ Len(list) \in Nat
    BY <1>2, OneMoreItem
  <2>4. i \in 1..Len(list) \/ i = Len(list) + 1
    BY <2>3
  <2>5. QED
    BY <2>1, <2>2, <2>4
<1>3. QED
  BY <1>1, <1>2 DEF RowsTell

(* The baseline, and the profiled command after it *)
LEMMA PairedFirst ==
  ASSUME NEW told \in Seq(R!Runs), NEW n \in Nat, Paired(told, n), Len(told) = 2 * n,
         NEW r \in R!Runs, r.end = "0", R!HasResult(r)
  PROVE  Paired(Append(told, r), n) /\ Len(Append(told, r)) % 2 # 0
<1>1. Len(Append(told, r)) = 2 * n + 1 /\ DOMAIN Append(told, r) = 1..(2 * n + 1) /\ DOMAIN told = 1..(2 * n)
  BY OneMoreItem
<1>2. Append(told, r)[2 * n + 1] = r /\ \A i \in 1..(2 * n) : Append(told, r)[i] = told[i]
  BY OneMoreItem
<1>3. \A i \in DOMAIN Append(told, r) : Append(told, r)[i].end = "0" /\ R!HasResult(Append(told, r)[i])
  BY <1>1, <1>2 DEF Paired
<1>4. \A k \in 1..n : Alike(Append(told, r)[2 * k - 1], Append(told, r)[2 * k])
  <2>1. ASSUME NEW k \in 1..n PROVE 2 * k - 1 \in 1..(2 * n) /\ 2 * k \in 1..(2 * n)
    OBVIOUS
  <2>2. QED
    BY <1>2, <2>1 DEF Paired
<1>5. (2 * n + 1) % 2 # 0
  OBVIOUS
<1>6. QED
  BY <1>1, <1>3, <1>4, <1>5 DEF Paired

LEMMA PairedSecond ==
  ASSUME NEW told \in Seq(R!Runs), NEW n \in Nat, Paired(told, n), Len(told) = 2 * n + 1,
         NEW r \in R!Runs, r.end = "0", R!HasResult(r)
  PROVE  /\ Len(Append(told, r)) = 2 * (n + 1) /\ Len(Append(told, r)) % 2 = 0
         /\ R!PairAgrees(told[Len(told)], r) => Paired(Append(told, r), n + 1)
<1>1. /\ Len(Append(told, r)) = 2 * (n + 1) /\ DOMAIN Append(told, r) = 1..(2 * n + 2)
      /\ DOMAIN told = 1..(2 * n + 1)
  BY OneMoreItem
<1>2. Append(told, r)[2 * n + 2] = r /\ \A i \in 1..(2 * n + 1) : Append(told, r)[i] = told[i]
  BY OneMoreItem
<1>3. \A i \in DOMAIN Append(told, r) : Append(told, r)[i].end = "0" /\ R!HasResult(Append(told, r)[i])
  BY <1>1, <1>2 DEF Paired
<1>4. ASSUME R!PairAgrees(told[Len(told)], r), NEW k \in 1..(n + 1)
      PROVE  Alike(Append(told, r)[2 * k - 1], Append(told, r)[2 * k])
  <2>1. CASE k \in 1..n
    <3>1. 2 * k - 1 \in 1..(2 * n + 1) /\ 2 * k \in 1..(2 * n + 1)
      BY <2>1
    <3>2. QED
      BY <1>2, <2>1, <3>1 DEF Paired
  <2>2. CASE k = n + 1
    <3>1. 2 * k - 1 = 2 * n + 1 /\ 2 * k = 2 * n + 2 /\ 2 * n + 1 \in 1..(2 * n + 1)
      BY <2>2
    <3>2. told[2 * n + 1] \in R!Runs
      BY <1>1, <3>1
    <3>3. Alike(told[2 * n + 1], r)
      BY <1>4, <3>2, PairIsAlike
    <3>4. QED
      BY <1>2, <3>1, <3>3
  <2>3. QED
    BY <1>4, <2>1, <2>2
<1>5. (2 * (n + 1)) % 2 = 0
  OBVIOUS
<1>6. QED
  BY <1>1, <1>3, <1>4, <1>5 DEF Paired

-----------------------------------------------------------------------------
(* One run more, and what is saved of it *)
LEMMA OneMoreRun ==
  ASSUME RunsPart, NEW r \in R!Runs, NEW fs, runs' = Append(runs, r), saved' = Append(saved, fs)
  PROVE  /\ runs' \in Seq(R!Runs) /\ DOMAIN saved' = DOMAIN runs'
         /\ (\A i \in DOMAIN runs : R!KeptWhole(i)) /\ R!Held(fs) = R!Printed(r) =>
              \A i \in DOMAIN runs' : R!KeptWhole(i)'
<1>1. runs \in Seq(R!Runs) /\ DOMAIN saved = DOMAIN runs
  BY DEF RunsPart
<1>2. /\ runs' \in Seq(R!Runs) /\ Len(runs) \in Nat
      /\ DOMAIN runs = 1..Len(runs) /\ DOMAIN runs' = 1..(Len(runs) + 1)
      /\ runs'[Len(runs) + 1] = r /\ \A i \in DOMAIN runs : runs'[i] = runs[i]
  BY <1>1
<1>3. DOMAIN saved' = DOMAIN runs' /\ saved'[Len(runs) + 1] = fs /\ \A i \in DOMAIN runs : saved'[i] = saved[i]
  BY <1>1, <1>2
<1>4. QED
  BY <1>2, <1>3 DEF R!KeptWhole

LEMMA RecoverStep == ASSUME RunnerInv, R!Recover PROVE RunnerInv'
<1> DEFINE item(r) == IF R!IsComplete(r) THEN "complete" ELSE "incomplete"
<1>1. PICK r \in R!Runs :
        /\ runs' = Append(runs, r)
        /\ IF R!RecoveryCrashes(r)
           THEN R!Leave("1") /\ R!Save(<<>>) /\ UNCHANGED rows
           ELSE /\ R!Save(<<R!Printed(r)>>) /\ rows' = Append(rows, item(r))
                /\ R!Goto(IF Len(rows') = Reps THEN "summary" ELSE "run")
  BY DEF R!Recover
<1>2. program = "recovery" /\ at = "run" /\ UNCHANGED <<program, summary>> /\ summary = 0 /\ status = "none"
  BY DEF R!Recover, RunnerInv, RunsPart
<1>3. runs \in Seq(R!Runs) /\ rows \in Seq(States) /\ RowsTell(rows, runs) /\ Len(rows) < Reps
      /\ \A i \in DOMAIN runs : R!KeptWhole(i)
  BY <1>2 DEF RunnerInv, RunsPart, RecoveryPart, BackedPart, Alive, States
<1>4. CASE R!RecoveryCrashes(r)
  <2>1. runs' \in Seq(R!Runs) /\ DOMAIN saved' = DOMAIN runs'
    BY <1>1, <1>4, OneMoreRun DEF R!Save, RunnerInv
  <2>2. at' = "exit" /\ status' = "1" /\ rows' = rows
    BY <1>1, <1>4 DEF R!Leave
  <2>3. QED
    BY <1>2, <1>3, <2>1, <2>2
    DEF RunnerInv, RunsPart, BackedPart, RecoveryPart, PairsPart, MatrixPart, Alive, States
<1>5. CASE ~R!RecoveryCrashes(r)
  <2>1. runs' \in Seq(R!Runs) /\ DOMAIN saved' = DOMAIN runs' /\ \A i \in DOMAIN runs' : R!KeptWhole(i)'
    BY <1>1, <1>3, <1>5, OneMoreRun, HeldWhole DEF R!Save, RunnerInv
  <2>2. item(r) \in States /\ (item(r) = "complete" => Fine(r))
    BY CompleteIsFine DEF States
  <2>3. rows' \in Seq(States) /\ RowsTell(rows', runs')
    <3> HIDE DEF item
    <3>1. Append(rows, item(r)) \in Seq(States)
      BY <1>3, <2>2, OneMoreItem
    <3>2. RowsTell(Append(rows, item(r)), Append(runs, r))
      BY <1>3, <2>2, RowsTellMore
    <3>3. QED
      BY <1>1, <1>5, <3>1, <3>2
  <2>4. at' = (IF Len(rows') = Reps THEN "summary" ELSE "run") /\ status' = "none"
    BY <1>1, <1>2, <1>5 DEF R!Goto
  <2>5. Len(Append(rows, item(r))) = Reps \/ Len(Append(rows, item(r))) < Reps
    BY <1>3, <2>2, OneMoreItem, RunsAssumption
  <2>6. Len(rows') = Reps \/ Len(rows') < Reps
    BY <1>1, <1>5, <2>5
  <2>7. QED
    BY <1>2, <2>1, <2>3, <2>4, <2>6
    DEF RunnerInv, RunsPart, BackedPart, RecoveryPart, PairsPart, MatrixPart, Alive, Through, States
<1>6. QED
  BY <1>4, <1>5

LEMMA PairStep == ASSUME RunnerInv, R!RunOfPair PROVE RunnerInv'
<1> DEFINE second == Len(runs') % 2 = 0
           wrong(r) == r.end # "0" \/ ~R!HasResult(r) \/ (second /\ ~R!PairAgrees(runs[Len(runs)], r))
<1>1. PICK r \in R!Runs :
        /\ runs' = Append(runs, r) /\ R!Save(R!PairFiles(r))
        /\ IF wrong(r)
           THEN R!Leave("1") /\ UNCHANGED rows
           ELSE /\ rows' = IF second THEN Append(rows, "complete") ELSE rows
                /\ R!Goto(IF Len(rows') = Reps THEN "summary" ELSE "run")
  BY DEF R!RunOfPair
<1>2. program = "pairs" /\ at = "run" /\ UNCHANGED <<program, summary>> /\ summary = 0 /\ status = "none"
  BY DEF R!RunOfPair, RunnerInv, RunsPart
<1>3. runs \in Seq(R!Runs) /\ rows \in Seq(States) /\ Paired(runs, Len(rows)) /\ Len(rows) < Reps /\ Len(rows) \in Nat
      /\ \A i \in DOMAIN runs : R!KeptWhole(i)
  BY <1>2 DEF RunnerInv, RunsPart, PairsPart, BackedPart, Alive, States
<1>4. runs' \in Seq(R!Runs) /\ DOMAIN saved' = DOMAIN runs'
  BY <1>1, OneMoreRun DEF R!Save, RunnerInv
<1>5. CASE wrong(r)
  <2>1. at' = "exit" /\ status' = "1" /\ rows' = rows
    BY <1>1, <1>5 DEF R!Leave
  <2>2. QED
    BY <1>2, <1>3, <1>4, <2>1
    DEF RunnerInv, RunsPart, BackedPart, RecoveryPart, PairsPart, MatrixPart, Alive, States
<1>6. CASE ~wrong(r)
  <2>1. \A i \in DOMAIN runs' : R!KeptWhole(i)'
    BY <1>1, <1>3, <1>6, OneMoreRun, HeldWhole DEF R!Save, RunnerInv
  <2>2. at' = (IF Len(rows') = Reps THEN "summary" ELSE "run") /\ status' = "none"
    BY <1>1, <1>2, <1>6 DEF R!Goto
  <2>3. CASE Len(runs) = 2 * Len(rows)
    <3>1. Paired(Append(runs, r), Len(rows)) /\ Len(Append(runs, r)) % 2 # 0
      BY <1>3, <1>6, <2>3, PairedFirst
    <3>2. rows' = rows /\ Paired(runs', Len(rows'))
      BY <1>1, <1>6, <3>1
    <3>3. at' = "run"
      BY <1>3, <2>2, <3>2, RunsAssumption
    <3>4. QED
      BY <1>2, <1>3, <1>4, <2>1, <2>2, <3>2, <3>3
      DEF RunnerInv, RunsPart, BackedPart, RecoveryPart, PairsPart, MatrixPart, Alive, Through, States
  <2>4. CASE Len(runs) = 2 * Len(rows) + 1
    <3>1. /\ Len(Append(runs, r)) = 2 * (Len(rows) + 1) /\ Len(Append(runs, r)) % 2 = 0
          /\ R!PairAgrees(runs[Len(runs)], r) => Paired(Append(runs, r), Len(rows) + 1)
      BY <1>3, <1>6, <2>4, PairedSecond
    <3>2. second /\ R!PairAgrees(runs[Len(runs)], r)
      BY <1>1, <1>6, <3>1
    <3>3. rows' = Append(rows, "complete")
      BY <1>1, <1>6, <3>2
    <3>4. Append(rows, "complete") \in Seq(States) /\ Len(Append(rows, "complete")) = Len(rows) + 1
      BY <1>3, OneMoreItem DEF States
    <3>5. rows' \in Seq(States) /\ Paired(runs', Len(rows')) /\ Len(runs') = 2 * Len(rows')
      BY <1>1, <3>1, <3>2, <3>3, <3>4
    <3>6. Len(rows') = Reps \/ Len(rows') < Reps
      BY <1>3, <3>3, <3>4, RunsAssumption
    <3>7. Len(rows') = Reps => Len(runs') = 2 * Reps
      BY <3>5
    <3>8. QED
      BY <1>2, <1>4, <2>1, <2>2, <3>5, <3>6, <3>7
      DEF RunnerInv, RunsPart, BackedPart, RecoveryPart, PairsPart, MatrixPart, Alive, Through, States
  <2>5. QED
    BY <1>3, <2>3, <2>4 DEF Paired
<1>7. QED
  BY <1>5, <1>6

LEMMA JdkStep == ASSUME RunnerInv, R!NextJdk PROVE RunnerInv'
<1>1. program = "matrix" /\ at = "jdk" /\ UNCHANGED <<program, runs, saved, summary>> /\ summary = 0 /\ status = "none"
  BY DEF R!NextJdk, RunnerInv, RunsPart
<1>2. CASE R!Goto("run") /\ UNCHANGED rows
  BY <1>1, <1>2
  DEF RunnerInv, RunsPart, BackedPart, RecoveryPart, PairsPart, MatrixPart, Alive, Through, R!Goto, R!KeptWhole
<1>3. ASSUME NEW s \in {"unavailable", "failed"}, rows' = rows \o [m \in 1..Modes |-> s], R!Goto(R!AfterRow(rows'))
      PROVE  RunnerInv'
  <2> DEFINE none == [m \in 1..Modes |-> s]
  <2>1. rows \in Seq(States) /\ none \in Seq(States) /\ Len(rows) \in Nat /\ Len(none) = Modes
    BY RunsAssumption DEF RunnerInv, RunsPart, States
  <2>2. rows \o none \in Seq(States) /\ Len(rows) + 1 \in DOMAIN (rows \o none) /\ (rows \o none)[Len(rows) + 1] = s
    BY <2>1, RunsAssumption
  <2>3. rows' \in Seq(States) /\ ~AllComplete(rows')
    BY <1>3, <2>2 DEF AllComplete
  <2>4. /\ at' \in {"summary", "jdk", "run"} /\ status' = "none"
        /\ at' = "summary" => Len(rows') = Reps * Modes
    BY <1>1, <1>3 DEF R!Goto, R!AfterRow
  <2>5. QED
    BY <1>1, <2>3, <2>4
    DEF RunnerInv, RunsPart, BackedPart, RecoveryPart, PairsPart, MatrixPart, Alive, Through, States, R!KeptWhole
<1>4. QED
  BY <1>2, <1>3 DEF R!NextJdk

LEMMA ModeStep == ASSUME RunnerInv, R!RunMode PROVE RunnerInv'
<1> DEFINE item(r) == IF R!Verified(r) THEN "complete" ELSE "failed"
<1>1. PICK r \in R!Runs :
        /\ runs' = Append(runs, r) /\ R!Save(R!MatrixFiles(r))
        /\ rows' = Append(rows, item(r)) /\ R!Goto(R!AfterRow(rows'))
  BY DEF R!RunMode
<1>2. program = "matrix" /\ at = "run" /\ UNCHANGED <<program, summary>> /\ summary = 0 /\ status = "none"
  BY DEF R!RunMode, RunnerInv, RunsPart
<1>3. runs \in Seq(R!Runs) /\ rows \in Seq(States) /\ (AllComplete(rows) => RowsTell(rows, runs))
      /\ \A i \in DOMAIN runs : R!KeptWhole(i)
  BY <1>2 DEF RunnerInv, RunsPart, MatrixPart, BackedPart, Alive, States
<1>4. runs' \in Seq(R!Runs) /\ DOMAIN saved' = DOMAIN runs' /\ \A i \in DOMAIN runs' : R!KeptWhole(i)'
  BY <1>1, <1>3, OneMoreRun, HeldWhole DEF R!Save, RunnerInv
<1>5. item(r) \in States /\ (item(r) = "complete" => Fine(r))
  BY ResultIsFine DEF R!Verified, States
<1>6. rows' \in Seq(States) /\ (AllComplete(rows') => RowsTell(rows', runs'))
  <2> HIDE DEF item
  <2>1. Append(rows, item(r)) \in Seq(States)
    BY <1>3, <1>5, OneMoreItem
  <2>2. AllComplete(Append(rows, item(r))) => AllComplete(rows)
    BY <1>3, <1>5, MoreComplete
  <2>3. AllComplete(Append(rows, item(r))) => RowsTell(Append(rows, item(r)), Append(runs, r))
    BY <1>3, <1>5, <2>2, RowsTellMore
  <2>4. QED
    BY <1>1, <2>1, <2>3
<1>7. /\ at' \in {"summary", "jdk", "run"} /\ status' = "none"
      /\ at' = "summary" => Len(rows') = Reps * Modes
  BY <1>1, <1>2 DEF R!Goto, R!AfterRow
<1>8. QED
  BY <1>2, <1>4, <1>6, <1>7
  DEF RunnerInv, RunsPart, BackedPart, RecoveryPart, PairsPart, MatrixPart, Alive, Through, States

LEMMA RunnerStep == ASSUME RunnerInv, [R!Next]_R!vars PROVE RunnerInv'
<1>1. CASE R!Summarise
  <2>1. /\ at = "summary" /\ summary' = 1 /\ at' = "exit" /\ UNCHANGED <<program, runs, saved, rows>>
        /\ status' \in {"0", "1", "5"} /\ (status' = "0" => AllComplete(rows))
    BY <1>1 DEF R!Summarise, R!Leave, AllComplete
  <2>2. QED
    BY <2>1
    DEF RunnerInv, RunsPart, BackedPart, RecoveryPart, PairsPart, MatrixPart, Alive, Through, R!KeptWhole
<1>2. CASE R!Dies
  BY <1>2 DEF R!Dies, R!Leave, RunnerInv, RunsPart, BackedPart, RecoveryPart, PairsPart, MatrixPart, Alive,
    Through, R!KeptWhole
<1>3. CASE UNCHANGED R!vars
  BY <1>3 DEF R!vars, RunnerInv, RunsPart, BackedPart, RecoveryPart, PairsPart, MatrixPart, Alive,
    Through, R!KeptWhole
<1>4. QED
  BY <1>1, <1>2, <1>3, RecoverStep, PairStep, JdkStep, ModeStep DEF R!Next

LEMMA RunnerAnswers == ASSUME RunnerInv PROVE R!ZeroIsEveryRun /\ R!SummaryIsBacked
<1>1. R!SummaryIsBacked
  BY DEF RunnerInv, BackedPart, R!SummaryIsBacked
<1>2. ASSUME status = "0" PROVE R!ZeroIsEveryRun
  <2>1. Alive /\ Through /\ summary = 1 /\ AllComplete(rows) /\ runs \in Seq(R!Runs) /\ rows \in Seq(States)
    BY <1>2 DEF RunnerInv, RunsPart, Alive, Through, States
  <2>2. CASE program = "pairs"
    <3>1. Paired(runs, Len(rows)) /\ Len(rows) = Reps /\ Len(runs) = 2 * Reps
      BY <2>1, <2>2 DEF RunnerInv, PairsPart
    <3>2. \A i \in DOMAIN runs : Fine(runs[i])
      BY <2>1, <3>1, ResultIsFine DEF Paired
    <3>3. \A k \in 1..Reps : Alike(runs[2 * k - 1], runs[2 * k])
      BY <3>1 DEF Paired
    <3>4. Len(runs) = R!Wanted
      BY <2>2, <3>1 DEF R!Wanted
    <3>5. \A i \in DOMAIN runs : runs[i].end = "0" /\ \E found \in R!Results : R!Shows(runs[i], found)
      BY <3>2 DEF Fine
    <3>6. QED
      BY <2>1, <3>3, <3>4, <3>5 DEF Alike, R!ZeroIsEveryRun
  <2>3. CASE program # "pairs"
    <3>1. RowsTell(rows, runs) /\ Len(rows) = (IF program = "recovery" THEN Reps ELSE Reps * Modes)
      BY <2>1, <2>3 DEF RunnerInv, RunsPart, RecoveryPart, MatrixPart
    <3>2. DOMAIN runs = DOMAIN rows
      <4>1. DOMAIN runs = 1..Len(runs) /\ DOMAIN rows = 1..Len(rows)
        BY <2>1
      <4>2. Len(runs) = Len(rows)
        BY <3>1 DEF RowsTell
      <4>3. QED
        BY <4>1, <4>2
    <3>3. \A i \in DOMAIN runs : Fine(runs[i])
      BY <2>1, <3>1, <3>2 DEF RowsTell, AllComplete
    <3>4. QED
      BY <2>1, <2>3, <3>1, <3>3 DEF RowsTell, Fine, R!ZeroIsEveryRun, R!Wanted
  <2>4. QED
    BY <2>2, <2>3
<1>3. QED
  BY <1>1, <1>2 DEF R!ZeroIsEveryRun

LEMMA RunnerAlways == Spec => [](task = "runner" => RunnerInv)
<1>1. Init => (task = "runner" => RunnerInv)
  BY RunnerInit DEF Init
<1>2. (task = "runner" => RunnerInv) /\ [Next]_vars => (task = "runner" => RunnerInv)'
  <2>1. task' = "runner" /\ [Next]_vars => task = "runner" /\ [R!Next]_R!vars
    BY DEF Next, vars, rVars, R!vars
  <2>2. QED
    BY <2>1, RunnerStep
<1>3. QED
  BY <1>1, <1>2, PTL DEF Spec

(* Whatever ends with 0 has run every command or collector to its end, put *)
(* or removed every entry asked for, or holds a whole recording.           *)
THEOREM ZeroMeansDone == Spec => []ZeroIsEveryRun
<1>1. InstallInv => E!ZeroIsInstalled
  BY DEF InstallInv, RunPart, AtEntry, E!TypeOK, E!ZeroIsInstalled
<1>2. /\ task = "jfr" => JfrInv
      /\ task = "install" => InstallInv
      /\ task = "parent" => ParentInv
      /\ task = "runner" => RunnerInv
      => ZeroIsEveryRun
  BY <1>1, ParentAnswers, RunnerAnswers DEF JfrInv, ZeroIsEveryRun
<1>3. QED
  BY <1>2, JfrAlways, InstallAlways, ParentAlways, RunnerAlways, PTL

-----------------------------------------------------------------------------
(* CPU lists and masks: what make-lab-plan.py writes is what the kernel      *)
(* understands.  A list names its CPUs in order, compact and expand are the  *)
(* inverses of each other on sets, and a mask shows the CPUs it was made of. *)

LEMMA CardinalityOfPlan == ASSUME NEW all PROVE P!Cardinality(all) = Cardinality(all)
  BY DEF P!Cardinality, Cardinality

(* A finite set of numbers has one list in order.                            *)
LEMMA ListedInOrder ==
  ASSUME NEW all, all \subseteq Nat, IsFiniteSet(all)
  PROVE  LET list == P!InOrder(all)
         IN  /\ Cardinality(all) \in Nat /\ list \in Seq(all) /\ Len(list) = Cardinality(all)
             /\ DOMAIN list = 1..Cardinality(all)
             /\ \A i \in DOMAIN list : list[i] \in all
             /\ \A c \in all : \E i \in DOMAIN list : list[i] = c
             /\ \A i, j \in DOMAIN list : i < j => list[i] < list[j]
<1> DEFINE n == Cardinality(all)
           below(c) == {d \in all : d < c}
           rank == [c \in all |-> Cardinality(below(c))]
           list == [i \in 1..n |-> CHOOSE c \in all : Cardinality(below(c)) = i - 1]
<1>1. n \in Nat
  BY FS_CardinalityType
<1>2. P!InOrder(all) = list
  BY DEF P!InOrder, P!Cardinality, Cardinality
<1>3. ASSUME NEW c \in all PROVE Cardinality(below(c)) \in 0..(n - 1)
  <2> DEFINE part == below(c)
  <2>1. part \in SUBSET all /\ c \notin part
    OBVIOUS
  <2> HIDE DEF part
  <2>2. part # all
    BY <2>1
  <2>3. IsFiniteSet(part) /\ Cardinality(part) <= n /\ Cardinality(part) # n
    BY <2>1, <2>2, FS_Subset
  <2>4. Cardinality(part) \in Nat
    BY <2>3, FS_CardinalityType
  <2>5. Cardinality(part) \in 0..(n - 1)
    BY <1>1, <2>3, <2>4
  <2>6. QED
    BY <2>5 DEF part
<1>4. ASSUME NEW c \in all, NEW e \in all, c < e PROVE Cardinality(below(c)) < Cardinality(below(e))
  <2> DEFINE part == below(c)
             more == below(e)
  <2>a. ASSUME NEW d \in all, d < c PROVE d < e
    <3>1. d \in Nat /\ c \in Nat /\ e \in Nat
      OBVIOUS
    <3>2. QED
      BY <1>4, <2>a, <3>1
  <2>b. ~ (c < c)
    <3>1. c \in Nat
      OBVIOUS
    <3>2. QED
      BY <3>1
  <2>1. part \in SUBSET more /\ c \notin part /\ c \in more /\ more \in SUBSET all
    BY <1>4, <2>a, <2>b
  <2>2. Cardinality(part) \in Nat /\ Cardinality(more) \in Nat
    BY <1>1, <1>3
  <2> HIDE DEF part, more
  <2>3. IsFiniteSet(more)
    BY <2>1, FS_Subset
  <2>4. Cardinality(part) <= Cardinality(more) /\ Cardinality(part) # Cardinality(more)
    BY <2>1, <2>3, FS_Subset
  <2>5. Cardinality(part) < Cardinality(more)
    BY <2>2, <2>4
  <2>6. QED
    BY <2>5 DEF part, more
<1>5. rank \in [all -> 0..(n - 1)] /\ \A c \in all : rank[c] = Cardinality(below(c))
  BY <1>3
<1> HIDE DEF rank
<1>6. \A c, e \in all : c < e => rank[c] < rank[e]
  BY <1>4, <1>5
<1>7. \A c, e \in all : rank[c] = rank[e] => c = e
  <2>1. ASSUME NEW c \in all, NEW e \in all, rank[c] = rank[e] PROVE c = e
    <3>1. c \in Nat /\ e \in Nat /\ rank[c] \in 0..(n - 1) /\ rank[e] \in 0..(n - 1)
      BY <1>5
    <3>2. ~ (c < e) /\ ~ (e < c)
      BY <1>1, <1>6, <2>1, <3>1
    <3>3. QED
      BY <3>1, <3>2
  <2>2. QED
    BY <2>1
<1>8. rank \in Surjection(all, 0..(n - 1))
  <2>1. rank \in Injection(all, 0..(n - 1))
    BY <1>5, <1>7 DEF Injection, IsInjective
  <2>2. IsFiniteSet(0..(n - 1)) /\ Cardinality(0..(n - 1)) = n
    <3>1. 0 \in Int /\ n - 1 \in Int
      BY <1>1
    <3>2. IsFiniteSet(0..(n - 1)) /\ Cardinality(0..(n - 1)) = IF 0 > n - 1 THEN 0 ELSE (n - 1) - 0 + 1
      BY <3>1, FS_Interval
    <3>3. QED
      BY <1>1, <3>2
  <2> HIDE DEF n
  <2>3. QED
    BY <2>1, <2>2, FS_Injection DEF n
<1>9. ASSUME NEW i \in 1..n PROVE list[i] \in all /\ rank[list[i]] = i - 1
  <2>1. i - 1 \in 0..(n - 1)
    BY <1>1
  <2>2. \E c \in all : rank[c] = i - 1
    BY <1>8, <2>1 DEF Surjection
  <2>3. \E c \in all : Cardinality(below(c)) = i - 1
    BY <1>5, <2>2
  <2>4. list[i] \in all /\ Cardinality(below(list[i])) = i - 1
    BY <2>3
  <2>5. QED
    BY <1>5, <2>4
<1>10. list \in Seq(all) /\ Len(list) = n /\ DOMAIN list = 1..n
  <2>1. list \in [1..n -> all]
    BY <1>9
  <2> HIDE DEF list
  <2>2. QED
    BY <1>1, <2>1
<1> HIDE DEF list
<1>11. ASSUME NEW c \in all PROVE \E i \in 1..n : list[i] = c
  <2>1. rank[c] \in 0..(n - 1)
    BY <1>5
  <2>2. rank[c] + 1 \in 1..n /\ (rank[c] + 1) - 1 = rank[c]
    BY <1>1, <2>1
  <2>3. list[rank[c] + 1] \in all /\ rank[list[rank[c] + 1]] = rank[c]
    BY <1>9, <2>2
  <2>4. list[rank[c] + 1] = c
    BY <1>7, <2>3
  <2>5. QED
    BY <2>2, <2>4
<1>12. ASSUME NEW i \in 1..n, NEW j \in 1..n, i < j PROVE list[i] < list[j]
  <2>1. list[i] \in all /\ list[j] \in all /\ rank[list[i]] = i - 1 /\ rank[list[j]] = j - 1
    BY <1>9
  <2>2. rank[list[i]] < rank[list[j]] /\ i \in Nat /\ j \in Nat
    BY <1>1, <1>12, <2>1
  <2>3. ~ (list[j] < list[i]) /\ list[i] # list[j]
    <3>1. ~ (rank[list[j]] < rank[list[i]]) /\ rank[list[i]] # rank[list[j]]
      BY <1>1, <1>12, <2>1, <2>2
    <3>2. QED
      BY <1>6, <2>1, <3>1
  <2>4. list[i] \in Nat /\ list[j] \in Nat
    BY <2>1
  <2>5. QED
    BY <2>3, <2>4
<1>13. QED
  BY <1>1, <1>2, <1>9, <1>10, <1>11, <1>12

LEMMA ListedOnce ==
  ASSUME NEW all, all \subseteq Nat, IsFiniteSet(all)
  PROVE  /\ P!Range(P!InOrder(all)) = all
         /\ \A i, j \in DOMAIN P!InOrder(all) : P!InOrder(all)[i] = P!InOrder(all)[j] => i = j
         /\ Len(P!InOrder(all)) \in Nat /\ DOMAIN P!InOrder(all) = 1..Len(P!InOrder(all))
<1> DEFINE list == P!InOrder(all)
<1>1. /\ Cardinality(all) \in Nat /\ list \in Seq(all) /\ Len(list) = Cardinality(all) /\ DOMAIN list = 1..Cardinality(all)
      /\ \A i \in DOMAIN list : list[i] \in all
      /\ \A c \in all : \E i \in DOMAIN list : list[i] = c
      /\ \A i, j \in DOMAIN list : i < j => list[i] < list[j]
  BY ListedInOrder
<1> HIDE DEF list
<1>2. ASSUME NEW i \in DOMAIN list, NEW j \in DOMAIN list, list[i] = list[j] PROVE i = j
  <2>1. i \in Nat /\ j \in Nat
    BY <1>1
  <2>2. ~ (i < j) /\ ~ (j < i)
    <3>1. ASSUME NEW k \in DOMAIN list, NEW l \in DOMAIN list, k < l PROVE list[k] # list[l]
      <4>1. list[k] < list[l] /\ list[k] \in Nat /\ list[l] \in Nat
        BY <1>1, <3>1
      <4>2. QED
        BY <4>1
    <3>2. QED
      BY <1>2, <3>1
  <2>3. QED
    BY <2>1, <2>2
<1>3. P!Range(list) = all
  BY <1>1 DEF P!Range
<1>4. QED
  BY <1>1, <1>2, <1>3 DEF list

(* expand: the CPUs that a list names, each once, in order.                  *)
LEMMA Expands ==
  ASSUME NEW list, list \in Seq(Nat \X Nat)
  PROVE  LET named == UNION {list[i][1]..list[i][2] : i \in DOMAIN list}
         IN  /\ named \subseteq Nat /\ IsFiniteSet(named) /\ P!Expand(list) = P!InOrder(named)
             /\ P!Range(P!Expand(list)) = named
<1> DEFINE pieces == {list[i][1]..list[i][2] : i \in DOMAIN list}
           named == UNION pieces
           piece == [i \in DOMAIN list |-> list[i][1]..list[i][2]]
<1>1. Len(list) \in Nat /\ DOMAIN list = 1..Len(list) /\ \A i \in DOMAIN list : list[i][1] \in Nat /\ list[i][2] \in Nat
  <2>1. Len(list) \in Nat /\ DOMAIN list = 1..Len(list) /\ \A i \in DOMAIN list : list[i] \in Nat \X Nat
    OBVIOUS
  <2>2. QED
    BY <2>1
<1>2. named \subseteq Nat
  BY <1>1
<1>3. IsFiniteSet(named)
  <2>1. IsFiniteSet(DOMAIN list)
    BY <1>1, FS_Interval
  <2>2. piece \in Surjection(DOMAIN list, pieces)
    BY DEF Surjection
  <2>3. \A t \in pieces : IsFiniteSet(t)
    <3>1. ASSUME NEW i \in DOMAIN list PROVE IsFiniteSet(list[i][1]..list[i][2])
      <4>1. list[i][1] \in Int /\ list[i][2] \in Int
        BY <1>1
      <4>2. QED
        BY <4>1, FS_Interval
    <3>2. QED
      BY <3>1
  <2> HIDE DEF pieces, piece
  <2>4. IsFiniteSet(pieces)
    BY <2>1, <2>2, FS_Surjection
  <2>5. QED
    BY <2>3, <2>4, FS_UNION
<1>4. P!Expand(list) = P!InOrder(named)
  BY DEF P!Expand
<1> HIDE DEF named
<1>5. P!Range(P!Expand(list)) = named
  BY <1>2, <1>3, <1>4, ListedOnce
<1>6. QED
  BY <1>2, <1>3, <1>4, <1>5 DEF named

(* compact: the runs of a set of numbers.                                    *)
LEMMA RunBelow ==
  ASSUME NEW all, all \subseteq Nat, NEW x \in all
  PROVE  \E c \in all : c <= x /\ c - 1 \notin all /\ \A y \in c..x : y \in all
<1> DEFINE starts == {c \in all : c <= x /\ \A y \in c..x : y \in all}
<1>1. starts \subseteq Nat /\ x \in starts
  <2>1. x \in Nat
    OBVIOUS
  <2>2. x <= x /\ \A y \in x..x : y = x
    BY <2>1
  <2>3. QED
    BY <2>2
<1>2. \E c \in starts : \A d \in starts : c <= d
  <2> HIDE DEF starts
  <2>1. starts # {}
    BY <1>1
  <2>2. QED
    BY <1>1, <2>1, LeastNumber
<1>3. PICK c \in starts : \A d \in starts : c <= d
  BY <1>2
<1>4. c \in Nat /\ x \in Nat /\ c \in all /\ c <= x /\ \A y \in c..x : y \in all
  OBVIOUS
<1>5. ASSUME c - 1 \in all PROVE FALSE
  <2>1. c - 1 \in Nat /\ c - 1 <= x
    BY <1>4, <1>5
  <2>2. ASSUME NEW y \in (c - 1)..x PROVE y \in all
    <3>1. y = c - 1 \/ y \in c..x
      BY <1>4, <2>1
    <3>2. QED
      BY <1>4, <1>5, <3>1
  <2>3. c - 1 \in starts
    BY <1>5, <2>1, <2>2
  <2>4. c <= c - 1
    BY <1>3, <2>3
  <2>5. QED
    BY <1>4, <2>4
<1>6. QED
  BY <1>4, <1>5

LEMMA RunAbove ==
  ASSUME NEW all, all \subseteq Nat, IsFiniteSet(all), NEW c \in all
  PROVE  LET ends == {d \in all : d >= c /\ d + 1 \notin all}
         IN  P!Min(ends) \in ends /\ \A y \in c..P!Min(ends) : y \in all
<1> DEFINE ends == {d \in all : d >= c /\ d + 1 \notin all}
           end == P!Min(ends)
<1>1. c \in Nat /\ ends \subseteq Nat
  OBVIOUS
<1>2. ends # {}
  <2> DEFINE list == P!InOrder(all)
             n == Cardinality(all)
  <2>1. /\ n \in Nat /\ DOMAIN list = 1..n
        /\ \A i \in DOMAIN list : list[i] \in all
        /\ \A d \in all : \E i \in DOMAIN list : list[i] = d
        /\ \A i, j \in DOMAIN list : i < j => list[i] < list[j]
    BY ListedInOrder
  <2> HIDE DEF list, n
  <2>2. n \in DOMAIN list
    <3>1. PICK i \in DOMAIN list : list[i] = c
      BY <2>1
    <3>2. QED
      BY <2>1
  <2>3. list[n] \in all /\ list[n] \in Nat
    BY <2>1, <2>2
  <2>4. ASSUME NEW d \in all PROVE d <= list[n]
    <3>1. PICK i \in DOMAIN list : list[i] = d
      BY <2>1
    <3>2. i = n \/ i < n
      BY <2>1
    <3>3. d = list[n] \/ d < list[n]
      BY <2>1, <2>2, <3>1, <3>2
    <3>4. d \in Nat
      OBVIOUS
    <3>5. QED
      BY <2>3, <3>3, <3>4
  <2>5. list[n] >= c
    BY <1>1, <2>3, <2>4
  <2>6. list[n] + 1 \notin all
    <3>1. ~ (list[n] + 1 <= list[n])
      BY <2>3
    <3>2. QED
      BY <2>4, <3>1
  <2>7. list[n] \in ends
    BY <2>3, <2>5, <2>6
  <2>8. QED
    BY <2>7
<1>3. \E d \in ends : \A e \in ends : d <= e
  <2> HIDE DEF ends
  <2>1. QED
    BY <1>1, <1>2, LeastNumber
<1>4. end \in ends /\ \A e \in ends : end <= e
  BY <1>3 DEF P!Min
<1> HIDE DEF end
<1>5. end \in Nat /\ end \in all /\ end >= c /\ end + 1 \notin all
  BY <1>1, <1>4
<1>6. ASSUME NEW y \in c..end, y \notin all PROVE FALSE
  <2> DEFINE holes == {z \in c..end : z \notin all}
  <2>1. holes \subseteq Nat /\ holes # {}
    BY <1>1, <1>5, <1>6
  <2>2. \E z \in holes : \A v \in holes : z <= v
    <3> HIDE DEF holes
    <3>1. QED
      BY <2>1, LeastNumber
  <2>3. PICK z \in holes : \A v \in holes : z <= v
    BY <2>2
  <2>4. z \in Nat /\ c <= z /\ z <= end /\ z \notin all /\ z # c
    BY <1>1, <1>5, <2>3
  <2>5. z - 1 \in c..end /\ ~ (z <= z - 1) /\ (z - 1) + 1 = z /\ z - 1 >= c /\ z - 1 \in Nat
    BY <1>1, <1>5, <2>4
  <2>6. z - 1 \in all
    BY <2>3, <2>5
  <2>7. z - 1 \in ends
    BY <2>4, <2>5, <2>6
  <2>8. end <= z - 1
    BY <1>4, <2>7
  <2>9. QED
    BY <1>5, <2>4, <2>8
<1>7. QED
  BY <1>4, <1>6 DEF end

(* expand(compact(s)) is s.                                                  *)
LEMMA CompactShows ==
  ASSUME NEW all, all \subseteq Nat, IsFiniteSet(all)
  PROVE  P!Compact(all) \in Seq(Nat \X Nat) /\ P!Range(P!Expand(P!Compact(all))) = all
<1> DEFINE starts == {c \in all : c - 1 \notin all}
           firsts == P!InOrder(starts)
           ends(c) == {d \in all : d >= c /\ d + 1 \notin all}
           list == P!Compact(all)
<1>1. starts \subseteq Nat /\ starts \in SUBSET all
  OBVIOUS
<1>2. IsFiniteSet(starts)
  <2> HIDE DEF starts
  <2>1. QED
    BY <1>1, FS_Subset
<1>3. /\ firsts \in Seq(starts) /\ Len(firsts) \in Nat /\ DOMAIN firsts = 1..Len(firsts)
      /\ \A i \in DOMAIN firsts : firsts[i] \in starts
      /\ \A c \in starts : \E i \in DOMAIN firsts : firsts[i] = c
  <2> HIDE DEF starts
  <2>1. QED
    BY <1>1, <1>2, ListedInOrder
<1>4. list = [i \in DOMAIN firsts |-> <<firsts[i], P!Min(ends(firsts[i]))>>]
  BY DEF P!Compact
<1> HIDE DEF list, firsts
<1>5. ASSUME NEW i \in DOMAIN firsts
      PROVE  /\ list[i][1] = firsts[i] /\ list[i][2] = P!Min(ends(firsts[i])) /\ list[i] \in Nat \X Nat
             /\ P!Min(ends(firsts[i])) \in ends(firsts[i])
             /\ \A y \in list[i][1]..list[i][2] : y \in all
  <2>1. firsts[i] \in all
    BY <1>1, <1>3
  <2>2. P!Min(ends(firsts[i])) \in ends(firsts[i]) /\ \A y \in firsts[i]..P!Min(ends(firsts[i])) : y \in all
    BY <2>1, RunAbove
  <2>3. list[i] = <<firsts[i], P!Min(ends(firsts[i]))>>
    BY <1>4
  <2>4. P!Min(ends(firsts[i])) \in Nat /\ firsts[i] \in Nat
    BY <2>1, <2>2
  <2>5. QED
    BY <2>2, <2>3, <2>4
<1>6. list \in Seq(Nat \X Nat) /\ DOMAIN list = DOMAIN firsts
  <2>1. DOMAIN list = DOMAIN firsts /\ list = [i \in 1..Len(firsts) |-> list[i]] /\ \A i \in 1..Len(firsts) : list[i] \in Nat \X Nat
    BY <1>3, <1>4, <1>5
  <2>2. list \in [1..Len(firsts) -> Nat \X Nat]
    BY <2>1
  <2>3. QED
    BY <1>3, <2>1, <2>2
<1> DEFINE named == UNION {list[i][1]..list[i][2] : i \in DOMAIN list}
<1>7. P!Range(P!Expand(list)) = named
  BY <1>6, Expands
<1>8. \A y \in named : y \in all
  BY <1>5, <1>6
<1>9. ASSUME NEW x \in all PROVE x \in named
  <2>1. PICK c \in all : c <= x /\ c - 1 \notin all /\ \A y \in c..x : y \in all
    BY RunBelow
  <2>2. PICK i \in DOMAIN firsts : firsts[i] = c
    BY <1>3, <2>1
  <2> DEFINE end == P!Min(ends(c))
  <2>3. end \in ends(c) /\ list[i][1] = c /\ list[i][2] = end
    BY <1>5, <2>2
  <2>4. end \in Nat /\ end >= c /\ end + 1 \notin all /\ c \in Nat /\ x \in Nat
    BY <2>3
  <2> HIDE DEF end
  <2>5. x <= end
    <3>1. SUFFICES ASSUME ~ (x <= end) PROVE FALSE
      OBVIOUS
    <3>2. end + 1 \in c..x
      BY <2>4, <3>1
    <3>3. QED
      BY <2>1, <2>4, <3>2
  <2>6. x \in list[i][1]..list[i][2]
    BY <2>1, <2>3, <2>4, <2>5
  <2>7. QED
    BY <1>6, <2>6
<1>10. named = all
  BY <1>8, <1>9
<1>11. QED
  BY <1>6, <1>7, <1>10 DEF list

(* hexmask: a mask shows the CPUs it was made of.                            *)
LEMMA Divided ==
  ASSUME NEW w \in Nat \ {0}, NEW c \in Nat
  PROVE  c \div w \in Nat /\ c % w \in Nat /\ c % w < w /\ c = (c \div w) * w + (c % w)
<1> DEFINE Splits(d) == \E v, r \in Nat : d = v * w + r /\ r < w
           others == {d \in Nat : ~ Splits(d)}
<1>1. Splits(c)
  <2>1. SUFFICES ASSUME ~ Splits(c) PROVE FALSE
    OBVIOUS
  <2>2. others \subseteq Nat /\ others # {}
    BY <2>1
  <2>3. \E d \in others : \A e \in others : d <= e
    <3> HIDE DEF others
    <3>1. QED
      BY <2>2, LeastNumber
  <2>4. PICK d \in others : \A e \in others : d <= e
    BY <2>3
  <2>5. d \in Nat /\ ~ Splits(d)
    OBVIOUS
  <2>6. CASE d < w
    <3>1. d = 0 * w + d /\ 0 \in Nat
      BY <2>5
    <3>2. QED
      BY <2>5, <2>6, <3>1
  <2>7. CASE ~ (d < w)
    <3> DEFINE rest == d - w
    <3>1. rest \in Nat /\ rest < d /\ d = rest + w
      BY <2>5, <2>7
    <3> HIDE DEF rest
    <3>2. Splits(rest)
      <4>1. rest \notin others
        BY <2>4, <2>5, <3>1
      <4>2. QED
        BY <3>1, <4>1
    <3>3. PICK v \in Nat, r \in Nat : rest = v * w + r /\ r < w
      BY <3>2
    <3>4. (v + 1) * w = v * w + w /\ v * w \in Nat
      OBVIOUS
    <3>5. d = (v + 1) * w + r /\ v + 1 \in Nat
      BY <3>1, <3>3, <3>4
    <3>6. QED
      BY <2>5, <3>3, <3>5
  <2>8. QED
    BY <2>6, <2>7
<1>2. PICK v \in Nat, r \in Nat : c = v * w + r /\ r < w
  BY <1>1
<1> DEFINE q == c \div w
           m == c % w
<1>3. m = r /\ q = v
  BY <1>2
<1> HIDE DEF q, m
<1>4. q \in Nat /\ m \in Nat /\ m < w /\ c = q * w + m
  BY <1>2, <1>3
<1>5. QED
  BY <1>4 DEF q, m

LEMMA DivisionGrows ==
  ASSUME NEW w \in Nat \ {0}, NEW c \in Nat, NEW m \in Nat, c <= m
  PROVE  c \div w <= m \div w
  OBVIOUS

LEMMA ProductGrows == ASSUME NEW w \in Nat, NEW c \in Nat, NEW m \in Nat, c <= m PROVE w * c <= w * m
  OBVIOUS

LEMMA MaskShows ==
  ASSUME NEW all, all \subseteq Nat, IsFiniteSet(all), all # {}
  PROVE  P!MaskCpus(P!HexMask(all)) = all
<1> DEFINE most == P!Max(all)
           top == most \div WordBits
           text == P!HexMask(all)
           word(v) == {c % WordBits : c \in {x \in all : x \div WordBits = v}}
<1>1. WordBits \in Nat \ {0}
  BY HostAssumption
<1>2. most \in all /\ most \in Nat /\ \A c \in all : c <= most
  <2> DEFINE list == P!InOrder(all)
             n == Cardinality(all)
  <2>1. /\ n \in Nat /\ DOMAIN list = 1..n
        /\ \A i \in DOMAIN list : list[i] \in all
        /\ \A d \in all : \E i \in DOMAIN list : list[i] = d
        /\ \A i, j \in DOMAIN list : i < j => list[i] < list[j]
    BY ListedInOrder
  <2> HIDE DEF list, n
  <2>2. n \in DOMAIN list
    <3>1. PICK d \in all : TRUE
      OBVIOUS
    <3>2. PICK i \in DOMAIN list : list[i] = d
      BY <2>1
    <3>3. QED
      BY <2>1
  <2>3. list[n] \in all /\ list[n] \in Nat
    BY <2>1, <2>2
  <2>4. ASSUME NEW d \in all PROVE list[n] >= d
    <3>1. PICK i \in DOMAIN list : list[i] = d
      BY <2>1
    <3>2. i = n \/ i < n
      BY <2>1
    <3>3. d = list[n] \/ d < list[n]
      BY <2>1, <2>2, <3>1, <3>2
    <3>4. d \in Nat
      OBVIOUS
    <3>5. QED
      BY <2>3, <3>3, <3>4
  <2>5. \E x \in all : \A y \in all : x >= y
    BY <2>3, <2>4
  <2>6. most \in all /\ \A y \in all : most >= y
    BY <2>5 DEF P!Max
  <2> HIDE DEF most
  <2>7. QED
    BY <2>6
<1> HIDE DEF most
<1>3. top \in Nat /\ (most + 1) - 1 = most
  BY <1>1, <1>2, Divided
<1>4. /\ Len(text) = top + 1 /\ DOMAIN text = 1..top + 1
      /\ \A i \in 1..top + 1 : text[i].bits = word(top + 1 - i)
  <2>1. text = P!MaskText(all, most + 1)
    BY DEF P!HexMask, most
  <2> DEFINE seq == [i \in 1..top + 1 |->
                       [digits |-> P!Digits(IF i = 1 THEN (most + 1) - top * WordBits ELSE WordBits),
                        bits |-> P!WordOf(all, top + 1 - i)]]
  <2>2. text = seq
    BY <1>3, <2>1 DEF P!MaskText
  <2>3. Len(seq) = top + 1 /\ DOMAIN seq = 1..top + 1 /\ \A i \in 1..top + 1 : seq[i].bits = P!WordOf(all, top + 1 - i)
    <3> HIDE DEF top
    <3>1. DOMAIN seq = 1..top + 1 /\ \A i \in 1..top + 1 : seq[i].bits = P!WordOf(all, top + 1 - i)
      OBVIOUS
    <3>2. Len(seq) = top + 1
      BY <1>3, <3>1
    <3>3. QED
      BY <3>1, <3>2
  <2>4. QED
    BY <2>2, <2>3 DEF P!WordOf
<1> HIDE DEF text, top, word
<1>10. Len(text) = top + 1
  BY <1>4
<1>11. ASSUME NEW i \in 1..top + 1 PROVE Len(text) - i = top + 1 - i
  <2> DEFINE n == Len(text)
  <2>1. n = top + 1 /\ top \in Nat
    BY <1>3, <1>10
  <2> HIDE DEF n
  <2>2. n - i = top + 1 - i
    BY <2>1
  <2>3. QED
    BY <2>2 DEF n
<1> DEFINE shown(i) == {(Len(text) - i) * WordBits + b : b \in text[i].bits}
<1>5. P!MaskCpus(text) = UNION {shown(i) : i \in 1..top + 1}
  BY <1>4 DEF P!MaskCpus
<1>6. \A c \in all : c \div WordBits \in Nat /\ c \div WordBits <= top /\ c = (c \div WordBits) * WordBits + (c % WordBits)
  <2>1. ASSUME NEW c \in all
        PROVE  c \div WordBits \in Nat /\ c \div WordBits <= top /\ c = (c \div WordBits) * WordBits + (c % WordBits)
    <3>1. c \in Nat /\ c <= most
      BY <1>2
    <3>2. QED
      BY <1>1, <1>2, <3>1, Divided, DivisionGrows DEF top
  <2>2. QED
    BY <2>1
<1>7. ASSUME NEW x \in P!MaskCpus(text) PROVE x \in all
  <2>1. PICK i \in 1..top + 1 : x \in shown(i)
    <3> HIDE DEF shown
    <3>1. QED
      BY <1>5, <1>7
  <2>2. PICK b \in text[i].bits : x = (Len(text) - i) * WordBits + b
    BY <2>1
  <2> DEFINE v == Len(text) - i
  <2>3. v = top + 1 - i /\ b \in word(top + 1 - i)
    BY <1>4, <1>11, <2>2
  <2>8. PICK c \in all : c \div WordBits = top + 1 - i /\ b = c % WordBits
    BY <2>3 DEF word
  <2> DEFINE q == c \div WordBits
             m == c % WordBits
  <2>4. x = v * WordBits + b /\ q = v /\ b = m
    BY <2>2, <2>3, <2>8
  <2>5. c = q * WordBits + m
    BY <1>6
  <2> HIDE DEF v, q, m
  <2>6. x = c
    BY <2>4, <2>5
  <2>7. QED
    BY <2>6
<1>8. ASSUME NEW c \in all PROVE c \in P!MaskCpus(text)
  <2> DEFINE i == top + 1 - (c \div WordBits)
  <2>1. i \in 1..top + 1 /\ top + 1 - i = c \div WordBits
    <3>1. c \div WordBits \in Nat /\ c \div WordBits <= top
      BY <1>6
    <3> DEFINE v == c \div WordBits
    <3> HIDE DEF v
    <3>2. v \in Nat /\ v <= top
      BY <3>1 DEF v
    <3>3. top + 1 - v \in 1..top + 1 /\ top + 1 - (top + 1 - v) = v
      BY <1>3, <3>2
    <3>4. QED
      BY <3>3 DEF v
  <2> HIDE DEF i
  <2>2. c % WordBits \in word(top + 1 - i)
    BY <2>1 DEF word
  <2>3. c \div WordBits = Len(text) - i /\ c % WordBits \in text[i].bits
    <3>1. text[i].bits = word(top + 1 - i) /\ Len(text) - i = top + 1 - i
      BY <1>4, <1>11, <2>1
    <3>2. QED
      BY <2>1, <2>2, <3>1
  <2>4. c \in shown(i)
    <3> DEFINE m == c % WordBits
               v == Len(text) - i
    <3>1. m \in text[i].bits /\ c = v * WordBits + m
      BY <1>6, <2>3
    <3> HIDE DEF m
    <3>2. QED
      BY <3>1
  <2> HIDE DEF shown
  <2>5. QED
    BY <1>5, <2>1, <2>4
<1>9. QED
  BY <1>7, <1>8 DEF text

LEMMA NothingShown == P!Range(P!Expand(P!Absent)) = {} /\ P!MaskCpus(P!Absent) = {}
<1> DEFINE list == P!Absent
<1>1. list = <<>> /\ list \in Seq(Nat \X Nat) /\ DOMAIN list = {}
  BY DEF P!Absent
<1> HIDE DEF list
<1>2. P!Range(P!Expand(list)) = UNION {list[i][1]..list[i][2] : i \in DOMAIN list}
  BY <1>1, Expands
<1>3. P!MaskCpus(list) = {}
  BY <1>1 DEF P!MaskCpus
<1>4. QED
  BY <1>1, <1>2, <1>3 DEF list

-----------------------------------------------------------------------------
(* make-lab-plan.py.  ArgsPart types the arguments; LookPart says that what  *)
(* is left to look at is the rest of the files; LinePart that the entries   *)
(* are of files that were looked at, each once; CoverPart that none that     *)
(* wants a change was left out, until an IRQ is moved.                       *)

ArgsPart == args \in [profile : P!ProfileNames, cpus : CpuLists, housekeeping : CpuLists \cup {<<>>}]

Looked == Len(P!Looks) - Len(todo)

LookPart ==
  /\ step \in {"start", "usage"} => todo = <<>> /\ plan = <<>>
  /\ step \notin {"start", "usage"} => ~ P!Refused /\ todo \in Seq(P!Knobs) /\ Len(todo) <= Len(P!Looks)
  /\ step \notin {"start", "usage"} => \A i \in DOMAIN todo : todo[i] = P!Looks[Looked + i]
  /\ step # "plan" => todo = <<>>

LinePart ==
  /\ Len(plan) \in Nat /\ DOMAIN plan = 1..Len(plan) /\ plan = [a \in DOMAIN plan |-> plan[a]]
  /\ \A a \in DOMAIN plan : \E i \in 1..Looked : plan[a].knob = P!Looks[i]
  /\ \A k : \A a \in DOMAIN plan : plan[a].knob = k => plan[a].value = P!Value(k)
  /\ \A a, b \in DOMAIN plan : plan[a].knob = plan[b].knob => a = b

CoverPart ==
  /\ moves \in Nat
  /\ moves = 0 /\ step \in {"plan", "apply"} =>
       \A i \in 1..Looked : P!Wants(P!Looks[i]) => \E a \in DOMAIN plan : plan[a].knob = P!Looks[i]
  /\ moves = 0 /\ step = "applied" =>
       \A i \in DOMAIN P!Looks : P!Wants(P!Looks[i]) => \E m \in Managed : P!Looks[i] = P!IrqKnob(m)

PlanInv == ArgsPart /\ LookPart /\ LinePart /\ CoverPart

(* A list without repetitions.                                               *)
Once(list) == \A i, j \in DOMAIN list : list[i] = list[j] => i = j

LEMMA OnceJoined ==
  ASSUME NEW all, NEW s \in Seq(all), NEW t \in Seq(all), Once(s), Once(t),
         \A i \in DOMAIN s : \A j \in DOMAIN t : s[i] # t[j]
  PROVE  s \o t \in Seq(all) /\ Once(s \o t)
<1> DEFINE both == s \o t
<1>1. both \in Seq(all) /\ Len(both) = Len(s) + Len(t) /\ Len(s) \in Nat /\ Len(t) \in Nat
      /\ DOMAIN both = 1..Len(both) /\ DOMAIN s = 1..Len(s) /\ DOMAIN t = 1..Len(t)
  OBVIOUS
<1>2. \A i \in 1..Len(s) : both[i] = s[i]
  OBVIOUS
<1>3. \A i \in 1..Len(t) : both[Len(s) + i] = t[i]
  OBVIOUS
<1> HIDE DEF both
<1>4. ASSUME NEW i \in DOMAIN both
      PROVE  \/ i \in DOMAIN s /\ both[i] = s[i]
             \/ i - Len(s) \in DOMAIN t /\ both[i] = t[i - Len(s)] /\ i \in Nat
  <2>1. CASE i \in 1..Len(s)
    BY <1>1, <1>2, <2>1
  <2>2. CASE i \notin 1..Len(s)
    <3>1. i - Len(s) \in 1..Len(t) /\ Len(s) + (i - Len(s)) = i /\ i \in Nat
      BY <1>1, <2>2
    <3>2. both[Len(s) + (i - Len(s))] = t[i - Len(s)]
      BY <1>3, <3>1
    <3>3. QED
      BY <1>1, <3>1, <3>2
  <2>3. QED
    BY <2>1, <2>2
<1>5. ASSUME NEW i \in DOMAIN both, NEW j \in DOMAIN both, both[i] = both[j] PROVE i = j
  <2>1. CASE i \in DOMAIN s /\ both[i] = s[i] /\ j \in DOMAIN s /\ both[j] = s[j]
    BY <1>5, <2>1 DEF Once
  <2>2. CASE i \in DOMAIN s /\ both[i] = s[i] /\ j - Len(s) \in DOMAIN t /\ both[j] = t[j - Len(s)]
    BY <1>5, <2>2
  <2>3. CASE j \in DOMAIN s /\ both[j] = s[j] /\ i - Len(s) \in DOMAIN t /\ both[i] = t[i - Len(s)]
    BY <1>5, <2>3
  <2>4. CASE /\ i - Len(s) \in DOMAIN t /\ both[i] = t[i - Len(s)] /\ i \in Nat
             /\ j - Len(s) \in DOMAIN t /\ both[j] = t[j - Len(s)] /\ j \in Nat
    <3>1. i - Len(s) = j - Len(s)
      BY <1>5, <2>4 DEF Once
    <3>2. QED
      BY <1>1, <2>4, <3>1
  <2>5. QED
    BY <1>4, <2>1, <2>2, <2>3, <2>4
<1>6. QED
  BY <1>1, <1>5 DEF Once, both

LEMMA JoinedAt ==
  ASSUME NEW all, NEW s \in Seq(all), NEW t \in Seq(all)
  PROVE  /\ Len(s \o t) = Len(s) + Len(t) /\ DOMAIN (s \o t) = 1..(Len(s) + Len(t))
         /\ \A i \in 1..Len(s) : (s \o t)[i] = s[i]
         /\ \A i \in 1..Len(t) : (s \o t)[Len(s) + i] = t[i]
  OBVIOUS

LEMMA JoinedShow ==
  ASSUME NEW all, NEW s \in Seq(all), NEW t \in Seq(all), NEW i \in DOMAIN (s \o t)
  PROVE  (\E j \in DOMAIN s : (s \o t)[i] = s[j]) \/ \E j \in DOMAIN t : (s \o t)[i] = t[j]
<1> DEFINE both == s \o t
<1>1. both \in Seq(all) /\ Len(both) = Len(s) + Len(t) /\ Len(s) \in Nat /\ Len(t) \in Nat
      /\ DOMAIN both = 1..Len(both) /\ DOMAIN s = 1..Len(s) /\ DOMAIN t = 1..Len(t)
  OBVIOUS
<1>2. (\A j \in 1..Len(s) : both[j] = s[j]) /\ \A j \in 1..Len(t) : both[Len(s) + j] = t[j]
  OBVIOUS
<1>3. CASE i \in 1..Len(s)
  BY <1>1, <1>2, <1>3
<1>4. CASE i \notin 1..Len(s)
  <2>1. i \in 1..Len(both)
    BY <1>1
  <2> HIDE DEF both
  <2>2. i - Len(s) \in 1..Len(t) /\ Len(s) + (i - Len(s)) = i
    BY <1>1, <1>4, <2>1
  <2>3. both[Len(s) + (i - Len(s))] = t[i - Len(s)]
    BY <1>2, <2>2
  <2>4. QED
    BY <1>1, <2>2, <2>3 DEF both
<1>5. QED
  BY <1>3, <1>4

LEMMA HotListed ==
  ASSUME ArgsPart
  PROVE  /\ P!Hot \in Seq(Nat) /\ Len(P!Hot) \in Nat /\ DOMAIN P!Hot = 1..Len(P!Hot) /\ Once(P!Hot)
         /\ P!Range(P!Housekeeping) \subseteq Nat /\ IsFiniteSet(P!Range(P!Housekeeping))
         /\ P!Housekeeping # <<>> => P!Range(P!Housekeeping) # {}
<1>1. args.cpus \in Seq(Nat \X Nat) /\ args.housekeeping \in Seq(Nat \X Nat)
  <2>1. args.cpus \in CpuLists /\ (args.housekeeping \in CpuLists \/ args.housekeeping = <<>>)
    BY DEF ArgsPart
  <2>2. <<>> \in Seq(Nat \X Nat)
    OBVIOUS
  <2>3. QED
    BY <2>1, <2>2, HostAssumption
<1> DEFINE named(list) == UNION {list[i][1]..list[i][2] : i \in DOMAIN list}
           hot == named(args.cpus)
           keep == named(args.housekeeping)
<1>2. hot \subseteq Nat /\ IsFiniteSet(hot) /\ P!Hot = P!InOrder(hot)
  BY <1>1, Expands DEF P!Hot
<1>3. keep \subseteq Nat /\ IsFiniteSet(keep) /\ P!Housekeeping = P!InOrder(keep) /\ P!Range(P!Housekeeping) = keep
  BY <1>1, Expands DEF P!Housekeeping
<1> HIDE DEF hot, keep
<1>4. P!Hot \in Seq(Nat) /\ Len(P!Hot) \in Nat /\ DOMAIN P!Hot = 1..Len(P!Hot)
  <2> DEFINE list == P!InOrder(hot)
  <2>1. list \in Seq(hot)
    BY <1>2, ListedInOrder
  <2> HIDE DEF list
  <2>2. Len(list) \in Nat /\ DOMAIN list = 1..Len(list) /\ list = [i \in 1..Len(list) |-> list[i]]
    BY <2>1
  <2>3. \A i \in 1..Len(list) : list[i] \in Nat
    BY <1>2, <2>1, <2>2
  <2>4. list \in Seq(Nat)
    BY <2>2, <2>3
  <2>5. QED
    BY <1>2, <2>2, <2>4 DEF list
<1>5. Once(P!Hot)
  BY <1>2, ListedOnce DEF Once
<1>6. P!Housekeeping # <<>> => keep # {}
  <2>1. P!InOrder(keep) \in Seq(keep)
    BY <1>3, ListedInOrder
  <2>2. keep = {} => P!InOrder(keep) = <<>>
    BY <2>1
  <2>3. QED
    BY <1>3, <2>2
<1>7. QED
  BY <1>3, <1>4, <1>5, <1>6

(* The files of the hot CPUs: each once.                                     *)
LEMMA CpuFilesOnce ==
  ASSUME ArgsPart, ~ P!Refused
  PROVE  /\ P!CpuFiles \in Seq(P!Knobs) /\ Once(P!CpuFiles)
         /\ \A i \in DOMAIN P!CpuFiles : P!CpuFiles[i][1] \in {"governor", "idle"}
<1> DEFINE n == Cardinality(IdleStates) + 1
           hot == P!Hot
           list == P!CpuFiles
           most == Len(hot) * n
           q(i) == (i - 1) \div n
           r(i) == (i - 1) % n
<1>1. n \in Nat \ {0} /\ IdleStates = 1..(n - 1)
  <2>1. Cardinality(IdleStates) \in Nat
    BY HostAssumption, FS_CardinalityType
  <2>2. QED
    BY <2>1, HostAssumption
<1>2. hot \in Seq(Nat) /\ Len(hot) \in Nat /\ DOMAIN hot = 1..Len(hot) /\ Once(hot) /\ \A h \in DOMAIN hot : hot[h] \in Cpus
  <2>1. P!Range(hot) \subseteq Cpus
    BY DEF P!Refused
  <2>2. \A h \in DOMAIN hot : hot[h] \in P!Range(hot)
    BY DEF P!Range
  <2>3. QED
    BY <2>1, <2>2, HotListed
<1>3. list = [i \in 1..most |-> IF r(i) = 0 THEN <<"governor", hot[q(i) + 1]>> ELSE <<"idle", hot[q(i) + 1], r(i)>>]
  BY DEF P!CpuFiles, P!Cardinality, Cardinality
<1> HIDE DEF list, hot, n
<1>4. most \in Nat
  BY <1>1, <1>2
<1>5. ASSUME NEW i \in 1..most
      PROVE  /\ q(i) \in Nat /\ r(i) \in Nat /\ r(i) < n /\ i - 1 = q(i) * n + r(i) /\ i \in Nat
             /\ q(i) + 1 \in DOMAIN hot
  <2> DEFINE c == i - 1
             v == q(i)
  <2>1. c \in Nat /\ i \in Nat /\ c < most
    BY <1>4
  <2> HIDE DEF c
  <2>2. c \div n \in Nat /\ c % n \in Nat /\ c % n < n /\ c = (c \div n) * n + (c % n)
    BY <1>1, <2>1, Divided
  <2>3. v \in Nat /\ r(i) \in Nat /\ r(i) < n /\ c = v * n + r(i)
    BY <2>2 DEF c
  <2> HIDE DEF v
  <2>4. v < Len(hot)
    <3>1. SUFFICES ASSUME Len(hot) <= v PROVE FALSE
      BY <1>2, <2>3
    <3>2. n * Len(hot) <= n * v
      BY <1>1, <1>2, <2>3, <3>1, ProductGrows
    <3>3. most = n * Len(hot) /\ v * n = n * v /\ n * v \in Nat /\ n * Len(hot) \in Nat
      BY <1>1, <1>2, <2>3
    <3> HIDE DEF most
    <3>4. QED
      BY <2>1, <2>3, <3>2, <3>3
  <2>5. v + 1 \in DOMAIN hot
    BY <1>2, <2>3, <2>4
  <2>6. QED
    BY <2>1, <2>3, <2>5 DEF v, c
<1> HIDE DEF most
<1>6. ASSUME NEW i \in 1..most
      PROVE  list[i] \in P!Knobs /\ list[i][1] \in {"governor", "idle"}
  <2>1. q(i) + 1 \in DOMAIN hot /\ hot[q(i) + 1] \in Cpus /\ r(i) \in Nat /\ r(i) < n
    BY <1>2, <1>5
  <2> DEFINE c == hot[q(i) + 1]
             s == r(i)
  <2>2. list[i] = IF s = 0 THEN <<"governor", c>> ELSE <<"idle", c, s>>
    BY <1>3
  <2>3. c \in Cpus /\ s \in Nat /\ s < n
    BY <2>1
  <2> HIDE DEF c, s
  <2>4. s # 0 => s \in IdleStates
    BY <1>1, <2>3
  <2>5. <<"governor", c>> \in P!Governors /\ (s # 0 => <<"idle", c, s>> \in P!IdleKnobs)
    BY <2>3, <2>4 DEF P!Governors, P!IdleKnobs
  <2>6. QED
    BY <2>2, <2>5 DEF P!Knobs
<1>7. list \in Seq(P!Knobs) /\ DOMAIN list = 1..most
  <2>1. DOMAIN list = 1..most /\ list = [i \in 1..most |-> list[i]]
    BY <1>3
  <2>2. list \in [1..most -> P!Knobs]
    BY <1>6, <2>1
  <2>3. QED
    BY <1>4, <2>1, <2>2
<1>8. ASSUME NEW i \in 1..most, NEW j \in 1..most, list[i] = list[j] PROVE i = j
  <2> DEFINE c == hot[q(i) + 1]
             s == r(i)
             e == hot[q(j) + 1]
             t == r(j)
  <2>1. /\ list[i] = IF s = 0 THEN <<"governor", c>> ELSE <<"idle", c, s>>
        /\ list[j] = IF t = 0 THEN <<"governor", e>> ELSE <<"idle", e, t>>
    BY <1>3
  <2>2. c = e /\ s = t
    <3> HIDE DEF c, s, e, t
    <3>1. (IF s = 0 THEN <<"governor", c>> ELSE <<"idle", c, s>>) = (IF t = 0 THEN <<"governor", e>> ELSE <<"idle", e, t>>)
      BY <1>8, <2>1
    <3>2. <<"governor", c>>[1] # <<"idle", e, t>>[1] /\ <<"governor", e>>[1] # <<"idle", c, s>>[1]
      OBVIOUS
    <3>3. s = 0 <=> t = 0
      BY <3>1, <3>2
    <3>4. CASE s = 0
      <4>1. <<"governor", c>> = <<"governor", e>>
        BY <3>1, <3>3, <3>4
      <4>2. <<"governor", c>>[2] = <<"governor", e>>[2]
        BY <4>1
      <4>3. QED
        BY <3>3, <3>4, <4>2
    <3>5. CASE s # 0
      <4>1. <<"idle", c, s>> = <<"idle", e, t>>
        BY <3>1, <3>3, <3>5
      <4>2. <<"idle", c, s>>[2] = <<"idle", e, t>>[2] /\ <<"idle", c, s>>[3] = <<"idle", e, t>>[3]
        BY <4>1
      <4>3. QED
        BY <4>2
    <3>6. QED
      BY <3>4, <3>5
  <2>3. q(i) + 1 \in DOMAIN hot /\ q(j) + 1 \in DOMAIN hot /\ q(i) \in Nat /\ q(j) \in Nat
    BY <1>5
  <2>4. q(i) + 1 = q(j) + 1
    <3> DEFINE x == q(i) + 1
               y == q(j) + 1
    <3>1. x \in DOMAIN hot /\ y \in DOMAIN hot /\ hot[x] = hot[y]
      BY <2>2, <2>3
    <3> HIDE DEF x, y
    <3>2. x = y
      BY <1>2, <3>1 DEF Once
    <3>3. QED
      BY <3>2 DEF x, y
  <2>5. i - 1 = q(i) * n + r(i) /\ j - 1 = q(j) * n + r(j) /\ i \in Nat /\ j \in Nat
    BY <1>5
  <2> DEFINE v == q(i)
             w == q(j)
             m == r(i)
             l == r(j)
  <2>6. v = w /\ m = l /\ i - 1 = v * n + m /\ j - 1 = w * n + l
    <3>1. v \in Nat /\ w \in Nat /\ v + 1 = w + 1 /\ m = l
      BY <2>2, <2>3, <2>4
    <3>2. i - 1 = v * n + m /\ j - 1 = w * n + l
      BY <2>5
    <3> HIDE DEF v, w, m, l
    <3>3. v = w
      BY <3>1
    <3>4. QED
      BY <3>1, <3>2, <3>3
  <2> HIDE DEF v, w, m, l
  <2>7. i - 1 = j - 1
    BY <2>6
  <2>8. QED
    BY <2>5, <2>7
<1>9. QED
  BY <1>6, <1>7, <1>8 DEF Once, list

(* A file is known by the first part of its name.                            *)
KnobNames ==
  {"governor", "idle", "thp", "switch", "nmi_watchdog", "stat_interval", "workqueue", "watchdog", "irq"}

LEMMA KnobKinds == ASSUME NEW k \in P!Knobs PROVE k[1] \in KnobNames
<1>1. \A i \in DOMAIN P!Thp : P!Thp[i][1] = "thp"
  BY DEF P!Thp
<1>2. \A i \in DOMAIN P!Switches : P!Switches[i][1] = "switch"
  BY DEF P!Switches
<1>3. CASE k \in P!Range(P!Thp) \cup P!Range(P!Switches)
  BY <1>1, <1>2, <1>3 DEF P!Range, KnobNames
<1>4. CASE k \in P!Governors \cup P!IdleKnobs
  BY <1>4 DEF P!Governors, P!IdleKnobs, KnobNames
<1>5. CASE k \in {P!IrqKnob(i) : i \in Irqs} \cup {P!Stat, P!Workqueue, P!Watchdog, P!Nmi}
  BY <1>5 DEF P!IrqKnob, P!Stat, P!Workqueue, P!Watchdog, P!Nmi, KnobNames
<1>6. QED
  BY <1>3, <1>4, <1>5 DEF P!Knobs

(* Each profile looks at files that there may be, at none of them twice, and *)
(* at those that take a list or a mask only if there is housekeeping.        *)
LEMMA LooksOnce ==
  ASSUME ArgsPart, ~ P!Refused
  PROVE  /\ P!Looks \in Seq(P!Knobs) /\ Len(P!Looks) \in Nat /\ DOMAIN P!Looks = 1..Len(P!Looks) /\ Once(P!Looks)
         /\ \A i \in DOMAIN P!Looks : P!Looks[i] \in P!Knobs
         /\ args.profile = "irq-isolation" =>
              /\ \A k \in {P!IrqKnob(j) : j \in Irqs} \cup {P!Workqueue, P!Watchdog} :
                   \E i \in DOMAIN P!Looks : P!Looks[i] = k
              /\ P!Housekeeping # <<>>
         /\ P!Housekeeping # <<>> \/ \A i \in DOMAIN P!Looks : P!Looks[i][1] \notin {"workqueue", "watchdog", "irq"}
<1> DEFINE all == P!Knobs
<1>1. /\ P!Stat \in all /\ P!Nmi \in all /\ P!Workqueue \in all /\ P!Watchdog \in all
      /\ \A i \in Irqs : P!IrqKnob(i) \in all
      /\ \A i \in 1..2 : P!Thp[i] \in all
      /\ \A i \in 1..3 : P!Switches[i] \in all
  <2>1. \A i \in 1..2 : P!Thp[i] \in P!Range(P!Thp)
    BY DEF P!Range, P!Thp
  <2>2. \A i \in 1..3 : P!Switches[i] \in P!Range(P!Switches)
    BY DEF P!Range, P!Switches
  <2>3. QED
    BY <2>1, <2>2 DEF P!Knobs
<1>2. /\ P!Stat[1] = "stat_interval" /\ P!Nmi[1] = "nmi_watchdog" /\ P!Workqueue[1] = "workqueue" /\ P!Watchdog[1] = "watchdog"
      /\ \A i : P!IrqKnob(i)[1] = "irq" /\ P!IrqKnob(i)[2] = i
  BY DEF P!Stat, P!Nmi, P!Workqueue, P!Watchdog, P!IrqKnob
<1>3. args.profile \in {"benchmark-host", "irq-isolation", "quiet-watchdogs"}
  BY DEF ArgsPart, P!ProfileNames
<1>4. CASE args.profile = "benchmark-host"
  <2> DEFINE s == P!CpuFiles
             t == P!Thp
             u == P!Switches
             v == <<P!Stat>>
  <2>1. P!Looks = s \o t \o u \o v
    BY <1>4 DEF P!Looks
  <2>2. s \in Seq(all) /\ Once(s) /\ \A i \in DOMAIN s : s[i][1] \in {"governor", "idle"}
    BY CpuFilesOnce
  <2>3. /\ DOMAIN t = 1..2 /\ t[1] = <<"thp", "enabled">> /\ t[2] = <<"thp", "defrag">> /\ t = <<t[1], t[2]>>
        /\ DOMAIN u = 1..3 /\ u[1] = <<"switch", "numa_balancing">> /\ u[2] = <<"switch", "ksm">>
        /\ u[3] = <<"switch", "timer_migration">> /\ u = <<u[1], u[2], u[3]>>
        /\ DOMAIN v = 1..1 /\ v[1] = P!Stat
    BY DEF P!Thp, P!Switches
  <2>4. t \in Seq(all) /\ u \in Seq(all) /\ v \in Seq(all)
    <3>1. t[1] \in all /\ t[2] \in all /\ u[1] \in all /\ u[2] \in all /\ u[3] \in all
      BY <1>1
    <3> HIDE DEF all, t, u
    <3>2. <<t[1], t[2]>> \in Seq(all) /\ <<u[1], u[2], u[3]>> \in Seq(all) /\ v \in Seq(all)
      BY <1>1, <3>1
    <3>3. QED
      BY <2>3, <3>2
  <2>5. t[1] # t[2] /\ u[1] # u[2] /\ u[1] # u[3] /\ u[2] # u[3]
    <3>1. t[1][2] # t[2][2] /\ u[1][2] # u[2][2] /\ u[1][2] # u[3][2] /\ u[2][2] # u[3][2]
      BY <2>3
    <3>2. QED
      BY <3>1
  <2>6. Once(t) /\ Once(u) /\ Once(v)
    <3>1. Once(t)
      <4>1. \A i \in 1..2 : i = 1 \/ i = 2
        OBVIOUS
      <4> HIDE DEF t
      <4>2. QED
        BY <2>3, <2>5, <4>1 DEF Once
    <3>2. Once(u)
      <4>1. \A i \in 1..3 : i = 1 \/ i = 2 \/ i = 3
        OBVIOUS
      <4> HIDE DEF u
      <4>2. QED
        BY <2>3, <2>5, <4>1 DEF Once
    <3>3. Once(v)
      BY <2>3 DEF Once
    <3>4. QED
      BY <3>1, <3>2, <3>3
  <2>7. /\ \A i \in DOMAIN t : t[i][1] = "thp"
        /\ \A i \in DOMAIN u : u[i][1] = "switch"
        /\ \A i \in DOMAIN v : v[i][1] = "stat_interval"
    <3>1. (\A i \in 1..2 : i = 1 \/ i = 2) /\ (\A i \in 1..3 : i = 1 \/ i = 2 \/ i = 3) /\ \A i \in 1..1 : i = 1
      OBVIOUS
    <3>2. t[1][1] = "thp" /\ t[2][1] = "thp" /\ u[1][1] = "switch" /\ u[2][1] = "switch" /\ u[3][1] = "switch"
      BY <2>3
    <3> HIDE DEF t, u, v
    <3>3. QED
      BY <1>2, <2>3, <3>1, <3>2
  <2> HIDE DEF s, t, u, v, all
  <2>8. \A i \in DOMAIN s : s[i][1] \notin {"thp", "switch", "stat_interval"}
    BY <2>2
  <2>9. u \o v \in Seq(all) /\ Once(u \o v) /\ \A i \in DOMAIN (u \o v) : (u \o v)[i][1] \in {"switch", "stat_interval"}
    <3>1. \A i \in DOMAIN u : \A j \in DOMAIN v : u[i] # v[j]
      BY <2>7
    <3>2. u \o v \in Seq(all) /\ Once(u \o v)
      BY <2>4, <2>6, <3>1, OnceJoined
    <3>3. \A i \in DOMAIN (u \o v) : (u \o v)[i][1] \in {"switch", "stat_interval"}
      BY <2>4, <2>7, JoinedShow
    <3>4. QED
      BY <3>2, <3>3
  <2>10. /\ t \o (u \o v) \in Seq(all) /\ Once(t \o (u \o v))
         /\ \A i \in DOMAIN (t \o (u \o v)) : (t \o (u \o v))[i][1] \in {"thp", "switch", "stat_interval"}
    <3> DEFINE w == u \o v
    <3>1. w \in Seq(all) /\ Once(w) /\ \A i \in DOMAIN w : w[i][1] \in {"switch", "stat_interval"}
      BY <2>9
    <3> HIDE DEF w
    <3>2. \A i \in DOMAIN t : \A j \in DOMAIN w : t[i] # w[j]
      BY <2>7, <3>1
    <3>3. t \o w \in Seq(all) /\ Once(t \o w)
      BY <2>4, <2>6, <3>1, <3>2, OnceJoined
    <3>4. \A i \in DOMAIN (t \o w) : (t \o w)[i][1] \in {"thp", "switch", "stat_interval"}
      BY <2>4, <2>7, <3>1, JoinedShow
    <3>5. QED
      BY <3>3, <3>4 DEF w
  <2>11. /\ s \o (t \o (u \o v)) \in Seq(all) /\ Once(s \o (t \o (u \o v)))
         /\ \A i \in DOMAIN (s \o (t \o (u \o v))) :
              (s \o (t \o (u \o v)))[i][1] \in {"governor", "idle", "thp", "switch", "stat_interval"}
    <3> DEFINE w == t \o (u \o v)
    <3>1. w \in Seq(all) /\ Once(w) /\ \A i \in DOMAIN w : w[i][1] \in {"thp", "switch", "stat_interval"}
      BY <2>10
    <3> HIDE DEF w
    <3>2. \A i \in DOMAIN s : \A j \in DOMAIN w : s[i] # w[j]
      BY <2>8, <3>1
    <3>3. s \o w \in Seq(all) /\ Once(s \o w)
      BY <2>2, <3>1, <3>2, OnceJoined
    <3>4. \A i \in DOMAIN (s \o w) : (s \o w)[i][1] \in {"governor", "idle", "thp", "switch", "stat_interval"}
      BY <2>2, <3>1, JoinedShow
    <3>5. QED
      BY <3>3, <3>4 DEF w
  <2>12. s \o t \o u \o v = s \o (t \o (u \o v))
    BY SMTT(40), <2>2, <2>4
  <2>13. /\ P!Looks \in Seq(all) /\ Once(P!Looks)
         /\ \A i \in DOMAIN P!Looks : P!Looks[i][1] \in {"governor", "idle", "thp", "switch", "stat_interval"}
    BY <2>1, <2>11, <2>12
  <2>14. QED
    BY <1>4, <2>13 DEF all
<1>5. CASE args.profile = "irq-isolation"
  <2> DEFINE s == [i \in Irqs |-> P!IrqKnob(i)]
             t == <<P!Workqueue, P!Watchdog>>
             n == Cardinality(Irqs)
  <2>1. P!Looks = s \o t
    BY <1>5 DEF P!Looks
  <2>2. n \in Nat /\ Irqs = 1..n
    BY HostAssumption, FS_CardinalityType
  <2> HIDE DEF n
  <2>3. s \in Seq(all) /\ Once(s) /\ Len(s) = n /\ DOMAIN s = 1..n /\ \A i \in DOMAIN s : s[i][1] = "irq" /\ s[i] = P!IrqKnob(i)
    <3>1. DOMAIN s = 1..n /\ \A i \in DOMAIN s : s[i] = P!IrqKnob(i)
      BY <2>2
    <3>2. s \in [1..n -> all]
      BY <1>1, <2>2
    <3> HIDE DEF s, all
    <3>3. s \in Seq(all) /\ Len(s) = n
      BY <2>2, <3>1, <3>2
    <3>4. Once(s)
      BY <1>2, <3>1 DEF Once
    <3>5. QED
      BY <1>2, <3>1, <3>3, <3>4
  <2>4. /\ DOMAIN t = 1..2 /\ t[1] = P!Workqueue /\ t[2] = P!Watchdog /\ t \in Seq(all) /\ Len(t) = 2
        /\ \A i \in DOMAIN t : t[i][1] \in {"workqueue", "watchdog"}
    <3>1. DOMAIN t = 1..2 /\ t[1] = P!Workqueue /\ t[2] = P!Watchdog /\ Len(t) = 2
      OBVIOUS
    <3>2. t \in Seq(all)
      <4> HIDE DEF all
      <4>1. QED
        BY <1>1
    <3>3. \A i \in 1..2 : i = 1 \/ i = 2
      OBVIOUS
    <3> HIDE DEF t
    <3>4. QED
      BY <1>2, <3>1, <3>2, <3>3
  <2>5. Once(t)
    <3>1. \A i \in 1..2 : i = 1 \/ i = 2
      OBVIOUS
    <3>2. t[1] # t[2]
      BY <1>2, <2>4
    <3> HIDE DEF t
    <3>3. QED
      BY <2>4, <3>1, <3>2 DEF Once
  <2> HIDE DEF s, t, all
  <2>6. \A i \in DOMAIN s : \A j \in DOMAIN t : s[i] # t[j]
    BY <2>3, <2>4
  <2>7. s \o t \in Seq(all) /\ Once(s \o t)
    BY <2>3, <2>4, <2>5, <2>6, OnceJoined
  <2>8. Len(s \o t) = n + 2 /\ DOMAIN (s \o t) = 1..(n + 2) /\ (\A i \in 1..n : (s \o t)[i] = s[i])
        /\ (s \o t)[n + 1] = t[1] /\ (s \o t)[n + 2] = t[2]
    <3>0. s \in Seq(all) /\ t \in Seq(all)
      BY <2>3, <2>4
    <3>1. /\ Len(s \o t) = Len(s) + Len(t) /\ DOMAIN (s \o t) = 1..(Len(s) + Len(t))
          /\ \A i \in 1..Len(s) : (s \o t)[i] = s[i]
          /\ \A i \in 1..Len(t) : (s \o t)[Len(s) + i] = t[i]
      BY <3>0, JoinedAt
    <3>2. 1 \in 1..Len(t) /\ 2 \in 1..Len(t)
      BY <2>4
    <3> DEFINE both == s \o t
    <3> HIDE DEF both
    <3>3. /\ Len(both) = n + 2 /\ DOMAIN both = 1..(n + 2)
          /\ \A i \in 1..n : both[i] = s[i]
          /\ both[n + 1] = t[1] /\ both[n + 2] = t[2]
      BY <2>2, <2>3, <2>4, <3>1, <3>2 DEF both
    <3>4. QED
      BY <3>3 DEF both
  <2>9. ASSUME NEW k \in {P!IrqKnob(j) : j \in Irqs} \cup {P!Workqueue, P!Watchdog}
        PROVE  \E i \in DOMAIN (s \o t) : (s \o t)[i] = k
    <3> DEFINE both == s \o t
    <3>1. n + 1 \in 1..(n + 2) /\ n + 2 \in 1..(n + 2) /\ 1..n \subseteq 1..(n + 2)
      BY <2>2
    <3>2. CASE k = P!Workqueue
      BY <2>4, <2>8, <3>1, <3>2
    <3>3. CASE k = P!Watchdog
      BY <2>4, <2>8, <3>1, <3>3
    <3>4. CASE k \in {P!IrqKnob(j) : j \in Irqs}
      <4>1. PICK j \in Irqs : k = P!IrqKnob(j)
        BY <3>4
      <4>2. j \in 1..n /\ s[j] = k
        BY <2>2, <2>3, <4>1
      <4>3. QED
        BY <2>8, <3>1, <4>2
    <3>5. QED
      BY <3>2, <3>3, <3>4
  <2>10. P!Housekeeping # <<>>
    BY <1>5 DEF P!Refused
  <2>11. P!Looks \in Seq(all) /\ Once(P!Looks)
    BY <2>1, <2>7
  <2>12. Len(P!Looks) \in Nat /\ DOMAIN P!Looks = 1..Len(P!Looks) /\ \A i \in DOMAIN P!Looks : P!Looks[i] \in all
    BY <2>11
  <2>13. \A k \in {P!IrqKnob(j) : j \in Irqs} \cup {P!Workqueue, P!Watchdog} : \E i \in DOMAIN P!Looks : P!Looks[i] = k
    BY <2>1, <2>9
  <2>14. QED
    BY <2>10, <2>11, <2>12, <2>13 DEF all
<1>6. CASE args.profile = "quiet-watchdogs"
  <2> DEFINE s == <<P!Nmi>>
             t == IF P!Housekeeping = <<>> THEN <<>> ELSE <<P!Watchdog>>
  <2>1. P!Looks = s \o t
    BY <1>6 DEF P!Looks
  <2>2. /\ s \in Seq(all) /\ Once(s) /\ \A i \in DOMAIN s : s[i][1] = "nmi_watchdog"
    <3>1. DOMAIN s = 1..1 /\ s[1] = P!Nmi /\ \A i \in 1..1 : i = 1
      OBVIOUS
    <3> HIDE DEF all
    <3>2. s \in Seq(all)
      BY <1>1
    <3> HIDE DEF s
    <3>3. QED
      BY <1>2, <3>1, <3>2 DEF Once
  <2>3. /\ t \in Seq(all) /\ Once(t) /\ \A i \in DOMAIN t : t[i][1] = "watchdog"
    <3>1. CASE P!Housekeeping = <<>>
      <4>1. t = <<>> /\ DOMAIN t = {}
        BY <3>1
      <4> HIDE DEF t
      <4>2. QED
        BY <4>1 DEF Once
    <3>2. CASE P!Housekeeping # <<>>
      <4>1. t = <<P!Watchdog>> /\ DOMAIN t = 1..1 /\ t[1] = P!Watchdog /\ \A i \in 1..1 : i = 1
        BY <3>2
      <4> HIDE DEF t, all
      <4>2. t \in Seq(all)
        BY <1>1, <4>1
      <4>3. QED
        BY <1>2, <4>1, <4>2 DEF Once
    <3>3. QED
      BY <3>1, <3>2
  <2> HIDE DEF s, t, all
  <2>4. \A i \in DOMAIN s : \A j \in DOMAIN t : s[i] # t[j]
    BY <2>2, <2>3
  <2>5. s \o t \in Seq(all) /\ Once(s \o t)
    BY <2>2, <2>3, <2>4, OnceJoined
  <2>6. P!Housekeeping # <<>> \/ \A i \in DOMAIN (s \o t) : (s \o t)[i][1] \notin {"workqueue", "watchdog", "irq"}
    <3>1. CASE P!Housekeeping = <<>>
      <4>1. t = <<>>
        BY <3>1 DEF t
      <4>2. s \o t = s
        BY <2>2, <4>1
      <4>3. QED
        BY <2>2, <4>2
    <3>2. QED
      BY <3>1
  <2>7. QED
    BY <1>6, <2>1, <2>5, <2>6 DEF all
<1>7. QED
  BY <1>3, <1>4, <1>5, <1>6

LEMMA PlanInit == P!Init => PlanInv
<1>1. SUFFICES ASSUME P!Init PROVE PlanInv
  OBVIOUS
<1>2. step = "start" /\ todo = <<>> /\ plan = <<>> /\ moves = 0 /\ ArgsPart
  BY <1>1 DEF P!Init, ArgsPart
<1>3. LookPart
  BY <1>2 DEF LookPart
<1>4. LinePart
  BY <1>2 DEF LinePart
<1>5. CoverPart
  BY <1>2 DEF CoverPart
<1>6. QED
  BY <1>2, <1>3, <1>4, <1>5 DEF PlanInv

(* What is looked at depends on the arguments alone.                         *)
LEMMA ArgsKept ==
  ASSUME args' = args
  PROVE  /\ P!Looks' = P!Looks /\ (P!Refused <=> P!Refused') /\ (ArgsPart => ArgsPart')
         /\ P!Hot' = P!Hot /\ P!Housekeeping' = P!Housekeeping /\ \A k : P!Value(k)' = P!Value(k)
<1>1. P!Hot' = P!Hot /\ P!Housekeeping' = P!Housekeeping
  BY DEF P!Hot, P!Housekeeping
<1>2. P!CpuFiles' = P!CpuFiles
  BY <1>1 DEF P!CpuFiles
<1>3. P!Looks' = P!Looks
  BY <1>1, <1>2 DEF P!Looks
<1>4. P!Refused <=> P!Refused'
  BY <1>1 DEF P!Refused
<1>5. \A k : P!Value(k)' = P!Value(k)
  BY <1>1 DEF P!Value
<1>6. ArgsPart => ArgsPart'
  BY DEF ArgsPart
<1>7. QED
  BY <1>1, <1>3, <1>4, <1>5, <1>6

LEMMA PlanStarts == ASSUME PlanInv, P!Start PROVE PlanInv'
<1>1. /\ step = "start" /\ args' = args /\ plan' = plan /\ moves' = moves /\ plan = <<>> /\ todo = <<>> /\ moves \in Nat
      /\ ArgsPart
      /\ \/ P!Refused /\ step' = "usage" /\ todo' = todo
         \/ ~ P!Refused /\ step' = "plan" /\ todo' = P!Looks
  BY DEF P!Start, PlanInv, LookPart, CoverPart
<1>2. P!Looks' = P!Looks /\ (P!Refused <=> P!Refused') /\ ArgsPart'
  BY <1>1, ArgsKept
<1>3. CASE P!Refused /\ step' = "usage" /\ todo' = todo
  <2>1. LookPart'
    BY <1>1, <1>3 DEF LookPart
  <2>2. LinePart'
    BY <1>1 DEF LinePart
  <2>3. CoverPart'
    BY <1>1, <1>3 DEF CoverPart
  <2>4. QED
    BY <1>2, <2>1, <2>2, <2>3 DEF PlanInv
<1>4. CASE ~ P!Refused /\ step' = "plan" /\ todo' = P!Looks
  <2>1. P!Looks \in Seq(P!Knobs) /\ Len(P!Looks) \in Nat /\ DOMAIN P!Looks = 1..Len(P!Looks)
    BY <1>1, <1>4, LooksOnce
  <2>2. Looked' = 0
    BY <1>2, <1>4, <2>1 DEF Looked
  <2>3. LookPart'
    <3>1. \A i \in DOMAIN todo' : todo'[i] = P!Looks[0 + i]
      BY <1>4, <2>1
    <3>2. todo' \in Seq(P!Knobs') /\ Len(todo') <= Len(P!Looks)
      BY <1>4, <2>1 DEF P!Knobs, P!Governors, P!IdleKnobs
    <3>3. QED
      BY <1>2, <1>4, <2>2, <3>1, <3>2 DEF LookPart
  <2>4. LinePart'
    BY <1>1 DEF LinePart
  <2>5. CoverPart'
    <3>1. 1..0 = {}
      OBVIOUS
    <3>2. QED
      BY <1>1, <1>4, <2>2, <3>1 DEF CoverPart
  <2>6. QED
    BY <1>2, <2>3, <2>4, <2>5 DEF PlanInv
<1>5. QED
  BY <1>1, <1>3, <1>4

(* A file is looked at, and planned when it wants a change.                  *)
LEMMA PlanLooks == ASSUME PlanInv, P!LookAtFile PROVE PlanInv'
<1>1. /\ step = "plan" /\ step' = step /\ args' = args /\ host' = host /\ moves' = moves /\ todo # <<>> /\ todo' = Tail(todo)
      /\ ArgsPart /\ LookPart /\ LinePart /\ CoverPart
      /\ plan' = IF P!Wants(Head(todo))
                 THEN Append(plan, [knob |-> Head(todo), value |-> P!Value(Head(todo)), shown |-> host[Head(todo)]])
                 ELSE plan
  BY DEF P!LookAtFile, PlanInv
<1>2. P!Looks' = P!Looks /\ (P!Refused <=> P!Refused') /\ ArgsPart' /\ \A k : P!Value(k)' = P!Value(k)
  BY <1>1, ArgsKept
<1>3. ~ P!Refused /\ todo \in Seq(P!Knobs) /\ Len(todo) <= Len(P!Looks) /\ \A i \in DOMAIN todo : todo[i] = P!Looks[Looked + i]
  BY <1>1 DEF LookPart
<1>4. Len(P!Looks) \in Nat /\ DOMAIN P!Looks = 1..Len(P!Looks) /\ Once(P!Looks)
  BY <1>1, <1>3, LooksOnce
<1> DEFINE k == Head(todo)
           n == Len(todo)
           m == Looked
<1>5. /\ n \in Nat /\ n > 0 /\ k = todo[1] /\ Len(todo') = n - 1 /\ todo' \in Seq(P!Knobs) /\ DOMAIN todo = 1..n
      /\ DOMAIN todo' = 1..(n - 1) /\ \A i \in 1..(n - 1) : todo'[i] = todo[i + 1]
  BY <1>1, <1>3
<1>6. m \in Nat /\ Looked' = m + 1 /\ m + 1 <= Len(P!Looks) /\ m + 1 \in DOMAIN P!Looks
  BY <1>2, <1>3, <1>4, <1>5 DEF Looked
<1>7. k = P!Looks[m + 1]
  BY <1>3, <1>5
<1>8. \A x : P!Wants(x)' <=> P!Wants(x)
  <2>1. P!Hot' = P!Hot
    BY <1>1, ArgsKept
  <2>2. \A x : P!Applies(x)' <=> P!Applies(x)
    BY <1>1, <2>1 DEF P!Applies
  <2>3. QED
    BY <1>1, <1>2, <2>2 DEF P!Wants
<1> DEFINE line == [knob |-> k, value |-> P!Value(k), shown |-> host[k]]
<1>9. line.knob = k /\ line.value = P!Value(k)
  OBVIOUS
<1>10. plan' = IF P!Wants(k) THEN Append(plan, line) ELSE plan
  BY <1>1
<1>11. /\ Len(plan) \in Nat /\ DOMAIN plan = 1..Len(plan) /\ plan = [a \in DOMAIN plan |-> plan[a]]
       /\ \A a \in DOMAIN plan : (\E i \in 1..m : plan[a].knob = P!Looks[i]) /\ plan[a].value = P!Value(plan[a].knob)
       /\ \A a, b \in DOMAIN plan : plan[a].knob = plan[b].knob => a = b
  BY <1>1 DEF LinePart
<1>12. moves = 0 => \A i \in 1..m : P!Wants(P!Looks[i]) => \E a \in DOMAIN plan : plan[a].knob = P!Looks[i]
  BY <1>1 DEF CoverPart
<1>13. moves \in Nat
  BY <1>1 DEF CoverPart
<1> HIDE DEF k, n, m, line
<1>14. LookPart'
  <2>1. ASSUME NEW i \in 1..(n - 1) PROVE todo'[i] = P!Looks[(m + 1) + i]
    <3>1. i + 1 \in 1..n /\ m + (i + 1) = (m + 1) + i
      BY <1>5, <1>6
    <3>2. todo'[i] = todo[i + 1] /\ todo[i + 1] = P!Looks[m + (i + 1)]
      BY <1>3, <1>5, <3>1 DEF m
    <3>3. QED
      BY <3>1, <3>2
  <2>2. todo' \in Seq(P!Knobs') /\ Len(todo') <= Len(P!Looks)
    <3>1. P!Knobs' = P!Knobs
      BY DEF P!Knobs, P!Governors, P!IdleKnobs
    <3>2. n - 1 <= Len(P!Looks)
      BY <1>3, <1>4, <1>5 DEF n
    <3>3. QED
      BY <1>5, <3>1, <3>2
  <2>3. \A i \in DOMAIN todo' : todo'[i] = P!Looks'[Looked' + i]
    BY <1>2, <1>5, <1>6, <2>1
  <2>4. QED
    BY <1>1, <1>2, <1>3, <2>2, <2>3 DEF LookPart
<1>15. CASE ~ P!Wants(k)
  <2>1. plan' = plan
    BY <1>10, <1>15
  <2>2. \A i \in 1..m : i \in 1..(m + 1)
    BY <1>6
  <2>3. LinePart'
    BY <1>2, <1>6, <1>11, <2>1, <2>2 DEF LinePart
  <2>4. \A i \in 1..(m + 1) : i \in 1..m \/ i = m + 1
    BY <1>6
  <2>5. CoverPart'
    BY <1>1, <1>2, <1>6, <1>7, <1>8, <1>12, <1>13, <1>15, <2>1, <2>4 DEF CoverPart
  <2>6. QED
    BY <1>2, <1>14, <2>3, <2>5 DEF PlanInv
<1>16. CASE P!Wants(k)
  <2> DEFINE l == Len(plan)
  <2>1. plan' = Append(plan, line)
    BY <1>10, <1>16
  <2>2. plan \in Seq({plan[a] : a \in DOMAIN plan} \cup {line})
    <3>1. plan \in [1..l -> {plan[a] : a \in DOMAIN plan} \cup {line}]
      <4>1. plan = [a \in 1..l |-> plan[a]]
        BY <1>11
      <4>2. QED
        BY <1>11, <4>1
    <3>2. QED
      BY <1>11, <3>1
  <2>3. /\ Len(plan') = l + 1 /\ DOMAIN plan' = 1..(l + 1) /\ plan'[l + 1] = line /\ plan' = [a \in DOMAIN plan' |-> plan'[a]]
        /\ \A a \in 1..l : plan'[a] = plan[a]
    <3>1. /\ Len(plan') = l + 1 /\ DOMAIN plan' = 1..(l + 1) /\ plan'[l + 1] = line
          /\ \A a \in 1..l : plan'[a] = plan[a]
      BY <1>11, <2>1, <2>2
    <3>2. plan' \in Seq({plan[a] : a \in DOMAIN plan} \cup {line})
      BY <2>1, <2>2
    <3>3. plan' = [a \in DOMAIN plan' |-> plan'[a]]
      BY <3>2
    <3>4. QED
      BY <3>1, <3>3
  <2> HIDE DEF l
  <2>4. l \in Nat /\ DOMAIN plan = 1..l
    BY <1>11 DEF l
  <2>5. \A a \in 1..(l + 1) : a = l + 1 \/ a \in 1..l
    BY <2>4
  <2>6. ASSUME NEW a \in 1..(l + 1)
        PROVE  (\E i \in 1..(m + 1) : plan'[a].knob = P!Looks[i]) /\ plan'[a].value = P!Value(plan'[a].knob)
    <3>1. CASE a = l + 1
      <4>1. m + 1 \in 1..(m + 1)
        BY <1>6
      <4>2. QED
        BY <1>7, <1>9, <2>3, <3>1, <4>1
    <3>2. CASE a \in 1..l
      <4>1. \A i \in 1..m : i \in 1..(m + 1)
        BY <1>6
      <4>2. QED
        BY <1>11, <2>3, <2>4, <3>2, <4>1
    <3>3. QED
      BY <2>5, <3>1, <3>2
  <2>7. ASSUME NEW a \in 1..l PROVE plan[a].knob # k
    <3>1. PICK i \in 1..m : plan[a].knob = P!Looks[i]
      BY <1>11, <2>4
    <3>2. i \in DOMAIN P!Looks /\ i # m + 1
      BY <1>4, <1>6
    <3>3. QED
      BY <1>4, <1>6, <1>7, <3>1, <3>2 DEF Once
  <2>8. ASSUME NEW a \in 1..(l + 1), NEW b \in 1..(l + 1), plan'[a].knob = plan'[b].knob PROVE a = b
    <3>1. (a = l + 1 \/ a \in 1..l) /\ (b = l + 1 \/ b \in 1..l)
      BY <2>5
    <3>2. a \in 1..l /\ b \in 1..l => a = b
      BY <1>11, <2>3, <2>4, <2>8
    <3>3. QED
      BY <1>9, <2>3, <2>7, <2>8, <3>1, <3>2
  <2>9. LinePart'
    <3>1. l + 1 \in Nat
      BY <2>4
    <3>2. ASSUME NEW x, NEW a \in 1..(l + 1), plan'[a].knob = x PROVE plan'[a].value = P!Value(x)'
      <4>1. plan'[a].value = P!Value(x)
        BY <2>6, <3>2
      <4>2. P!Value(x)' = P!Value(x)
        BY <1>2
      <4>3. QED
        BY <4>1, <4>2
    <3>3. QED
      BY <1>2, <1>6, <2>3, <2>6, <2>8, <3>1, <3>2 DEF LinePart
  <2>10. ASSUME NEW i \in 1..(m + 1), moves = 0, P!Wants(P!Looks[i])
         PROVE  \E a \in 1..(l + 1) : plan'[a].knob = P!Looks[i]
    <3>1. i = m + 1 \/ i \in 1..m
      BY <1>6
    <3>2. CASE i = m + 1
      <4>1. l + 1 \in 1..(l + 1)
        BY <2>4
      <4>2. QED
        BY <1>7, <1>9, <2>3, <3>2, <4>1
    <3>3. CASE i \in 1..m
      <4>1. PICK a \in 1..l : plan[a].knob = P!Looks[i]
        BY <1>12, <2>4, <2>10, <3>3
      <4>2. a \in 1..(l + 1) /\ plan'[a] = plan[a]
        BY <2>3, <2>4
      <4>3. QED
        BY <4>1, <4>2
    <3>4. QED
      BY <3>1, <3>2, <3>3
  <2>11. CoverPart'
    BY <1>1, <1>2, <1>6, <1>8, <1>13, <2>3, <2>10 DEF CoverPart
  <2>12. QED
    BY <1>2, <1>14, <2>9, <2>11 DEF PlanInv
<1>17. QED
  BY <1>15, <1>16

(* Whether a file wants a change depends on what it shows.                   *)
LEMMA WantsKept ==
  ASSUME NEW k, args' = args, host'[k] = host[k]
  PROVE  P!Wants(k)' <=> P!Wants(k)
<1>1. P!Hot' = P!Hot /\ P!Value(k)' = P!Value(k)
  BY ArgsKept
<1>2. P!Applies(k)' <=> P!Applies(k)
  BY <1>1 DEF P!Applies
<1>3. QED
  BY <1>1, <1>2 DEF P!Wants

LEMMA PlanMoves == ASSUME PlanInv, P!IrqMoves PROVE PlanInv'
<1>1. /\ step' = step /\ args' = args /\ todo' = todo /\ plan' = plan /\ moves' = moves + 1 /\ moves \in Nat
      /\ ArgsPart /\ LookPart /\ LinePart
  BY DEF P!IrqMoves, PlanInv, CoverPart
<1>2. P!Looks' = P!Looks /\ (P!Refused <=> P!Refused') /\ ArgsPart' /\ (\A k : P!Value(k)' = P!Value(k))
  BY <1>1, ArgsKept
<1>3. Looked' = Looked /\ P!Knobs' = P!Knobs
  BY <1>1, <1>2 DEF Looked, P!Knobs, P!Governors, P!IdleKnobs
<1>4. LookPart'
  BY <1>1, <1>2, <1>3 DEF LookPart
<1>5. LinePart'
  BY <1>1, <1>2, <1>3 DEF LinePart
<1>6. CoverPart'
  BY <1>1 DEF CoverPart
<1>7. QED
  BY <1>2, <1>4, <1>5, <1>6 DEF PlanInv

LEMMA PlanPrints == ASSUME PlanInv, P!PrintPlan PROVE PlanInv'
<1>1. /\ step = "plan" /\ step' = "apply" /\ args' = args /\ host' = host /\ todo' = todo /\ plan' = plan /\ moves' = moves
      /\ todo = <<>> /\ ArgsPart /\ LookPart /\ LinePart /\ CoverPart
  BY DEF P!PrintPlan, PlanInv
<1>2. P!Looks' = P!Looks /\ (P!Refused <=> P!Refused') /\ ArgsPart' /\ (\A k : P!Value(k)' = P!Value(k))
  BY <1>1, ArgsKept
<1>3. Looked' = Looked /\ P!Knobs' = P!Knobs
  BY <1>1, <1>2 DEF Looked, P!Knobs, P!Governors, P!IdleKnobs
<1>4. LookPart'
  BY <1>1, <1>2, <1>3 DEF LookPart
<1>5. LinePart'
  BY <1>1, <1>2, <1>3 DEF LinePart
<1>6. \A k : P!Wants(k)' <=> P!Wants(k)
  BY <1>1, WantsKept
<1>7. CoverPart'
  BY <1>1, <1>2, <1>3, <1>6 DEF CoverPart
<1>8. QED
  BY <1>2, <1>4, <1>5, <1>7 DEF PlanInv

(* What was applied shows what was planned, and the rest what it did.        *)
LEMMA PlanApplies == ASSUME PlanInv, P!Apply PROVE PlanInv'
<1>1. /\ step = "apply" /\ step' \in {"applied", "undone", "rejected", "refused"} /\ args' = args /\ todo' = todo /\ plan' = plan
      /\ moves' = moves /\ moves \in Nat /\ todo = <<>> /\ ~ P!Refused
      /\ ArgsPart /\ LookPart /\ LinePart /\ CoverPart
  BY DEF P!Apply, PlanInv, LookPart, CoverPart
<1>2. P!Looks' = P!Looks /\ (P!Refused <=> P!Refused') /\ ArgsPart' /\ (\A k : P!Value(k)' = P!Value(k))
  BY <1>1, ArgsKept
<1>3. Looked' = Looked /\ P!Knobs' = P!Knobs
  BY <1>1, <1>2 DEF Looked, P!Knobs, P!Governors, P!IdleKnobs
<1>4. LookPart'
  BY <1>1, <1>2, <1>3 DEF LookPart
<1>5. LinePart'
  BY <1>1, <1>2, <1>3 DEF LinePart
<1>6. ASSUME moves = 0, step' = "applied", NEW i \in DOMAIN P!Looks, P!Wants(P!Looks[i])'
      PROVE  \E m \in Managed : P!Looks[i] = P!IrqKnob(m)
  <2>1. /\ \A a \in DOMAIN plan : P!Verifies(plan[a])
        /\ host' = [x \in P!Knobs |->
                      IF \E a \in DOMAIN plan : plan[a].knob = x /\ ~ P!IsSkipped(plan[a])
                      THEN P!Taken(plan[CHOOSE a \in DOMAIN plan : plan[a].knob = x]) ELSE host[x]]
    BY <1>1, <1>6 DEF P!Apply
  <2>2. Looked = Len(P!Looks) /\ DOMAIN P!Looks = 1..Looked /\ P!Looks[i] \in P!Knobs
    <3>1. Len(P!Looks) \in Nat /\ DOMAIN P!Looks = 1..Len(P!Looks) /\ P!Looks[i] \in P!Knobs
      BY <1>1, LooksOnce
    <3>2. Looked = Len(P!Looks)
      BY <1>1, <3>1 DEF Looked
    <3>3. QED
      BY <3>1, <3>2
  <2>3. PICK k : k = P!Looks[i]
    OBVIOUS
  <2>4. P!Wants(k)'
    BY <1>2, <1>6, <2>3
  <2>5. CASE \E a \in DOMAIN plan : plan[a].knob = k /\ ~ P!IsSkipped(plan[a])
    <3>1. PICK a \in DOMAIN plan : plan[a].knob = k /\ ~ P!IsSkipped(plan[a])
      BY <2>5
    <3>2. (CHOOSE b \in DOMAIN plan : plan[b].knob = k) = a
      <4>1. \A b \in DOMAIN plan : plan[b].knob = k => b = a
        BY <1>1, <3>1 DEF LinePart
      <4>2. QED
        BY <3>1, <4>1
    <3>3. host'[k] = P!Taken(plan[a])
      BY <2>1, <2>2, <2>3, <2>5, <3>2
    <3>4. P!Taken(plan[a]) = plan[a].value
      BY <2>1, <3>1 DEF P!Verifies
    <3>5. plan[a].value = P!Value(k)
      BY <1>1, <3>1 DEF LinePart
    <3>6. host'[k] = P!Value(k)'
      BY <1>2, <3>3, <3>4, <3>5
    <3>7. QED
      BY <2>4, <3>6 DEF P!Wants
  <2>6. CASE ~ \E a \in DOMAIN plan : plan[a].knob = k /\ ~ P!IsSkipped(plan[a])
    <3>1. host'[k] = host[k]
      BY <2>1, <2>2, <2>3, <2>6
    <3>2. P!Wants(k)
      BY <1>1, <2>4, <3>1, WantsKept
    <3>3. PICK a \in DOMAIN plan : plan[a].knob = k
      BY <1>1, <1>6, <2>2, <2>3, <3>2 DEF CoverPart
    <3>4. P!IsSkipped(plan[a])
      BY <2>6, <3>3
    <3>5. QED
      BY <2>3, <3>3, <3>4 DEF P!IsSkipped
  <2>7. QED
    BY <2>5, <2>6
<1>7. CoverPart'
  BY <1>1, <1>2, <1>6 DEF CoverPart
<1>8. QED
  BY <1>2, <1>4, <1>5, <1>7 DEF PlanInv

LEMMA PlanStep == ASSUME PlanInv, [P!Next]_P!vars PROVE PlanInv'
<1>1. CASE UNCHANGED P!vars
  <2>1. step' = step /\ args' = args /\ host' = host /\ todo' = todo /\ plan' = plan /\ moves' = moves
    BY <1>1 DEF P!vars
  <2>2. P!Looks' = P!Looks /\ (P!Refused <=> P!Refused') /\ ArgsPart' /\ (\A k : P!Value(k)' = P!Value(k))
    BY <2>1, ArgsKept DEF PlanInv
  <2>3. \A k : P!Wants(k)' <=> P!Wants(k)
    BY <2>1, WantsKept
  <2>4. Looked' = Looked /\ P!Knobs' = P!Knobs
    BY <2>1, <2>2 DEF Looked, P!Knobs, P!Governors, P!IdleKnobs
  <2>5. LookPart'
    BY <2>1, <2>2, <2>4 DEF LookPart, PlanInv
  <2>6. LinePart'
    BY <2>1, <2>2, <2>4 DEF LinePart, PlanInv
  <2>7. CoverPart'
    BY <2>1, <2>2, <2>3, <2>4 DEF CoverPart, PlanInv
  <2>8. QED
    BY <2>2, <2>5, <2>6, <2>7 DEF PlanInv
<1>2. QED
  BY <1>1, PlanMoves, PlanStarts, PlanLooks, PlanPrints, PlanApplies DEF P!Next

(* The numbers and names of the profiles are on the list of lab-tune.sh, and *)
(* a list or a mask is written only for housekeeping CPUs there are.         *)
LEMMA PlannedIsAllowed ==
  ASSUME PlanInv, NEW a \in DOMAIN plan
  PROVE  P!Allowed(plan[a].knob, plan[a].value)
<1>1. ArgsPart /\ LookPart /\ LinePart
  BY DEF PlanInv
<1>2. step \notin {"start", "usage"}
  BY <1>1 DEF LookPart
<1>3. ~ P!Refused /\ Len(todo) \in Nat
  BY <1>1, <1>2 DEF LookPart
<1>4. PICK k : k = plan[a].knob
  OBVIOUS
<1>5. plan[a].value = P!Value(k)
  BY <1>1, <1>4 DEF LinePart
<1>6. /\ k \in P!Knobs
      /\ P!Housekeeping # <<>> \/ k[1] \notin {"workqueue", "watchdog", "irq"}
  <2>1. PICK i \in 1..Looked : k = P!Looks[i]
    BY <1>1, <1>4 DEF LinePart
  <2>2. i \in DOMAIN P!Looks /\ P!Looks[i] \in P!Knobs
    BY <1>1, <1>3, <2>1, LooksOnce DEF Looked
  <2>3. args.profile = "irq-isolation" => P!Housekeeping # <<>>
    BY <1>1, <1>3, LooksOnce
  <2>4. P!Housekeeping # <<>> \/ P!Looks[i][1] \notin {"workqueue", "watchdog", "irq"}
    BY <1>1, <1>3, <2>2, LooksOnce
  <2>5. QED
    BY <2>1, <2>2, <2>3, <2>4
<1>7. k[1] \in KnobNames
  BY <1>6, KnobKinds
<1>8. CASE k[1] \in {"workqueue", "watchdog", "irq"}
  <2> DEFINE keep == P!Range(P!Housekeeping)
  <2>1. P!Housekeeping # <<>>
    BY <1>6, <1>8
  <2>2. keep \subseteq Nat /\ IsFiniteSet(keep) /\ keep # {}
    BY <1>1, <2>1, HotListed
  <2>3. P!Compact(keep) # P!Absent /\ P!HexMask(keep) # P!Absent
    <3> HIDE DEF keep
    <3>1. P!Range(P!Expand(P!Compact(keep))) = keep /\ P!MaskCpus(P!HexMask(keep)) = keep
      BY <2>2, CompactShows, MaskShows
    <3>2. QED
      BY <2>2, <3>1, NothingShown
  <2>4. P!Value(k) \in {P!Compact(keep), P!HexMask(keep)}
    BY <1>8 DEF P!Value
  <2> HIDE DEF keep
  <2>5. P!Value(k) # P!Absent
    BY <2>3, <2>4
  <2>6. QED
    <3>1. PICK v : v = P!Value(k)
      OBVIOUS
    <3>2. P!Allowed(k, v)
      <4>1. v # P!Absent
        BY <2>5, <3>1
      <4>2. ~ (k[1] = "governor") /\ ~ (k[1] = "thp") /\ ~ (k[1] = "switch") /\ ~ (k[1] = "stat_interval")
        BY <1>8
      <4>3. ~ (k[1] \in {"idle", "nmi_watchdog"})
        BY <1>8
      <4>4. QED
        BY SMTT(60), <4>1, <4>2, <4>3 DEF P!Allowed
    <3>3. QED
      BY <1>4, <1>5, <3>1, <3>2
<1>9. CASE k[1] \notin {"workqueue", "watchdog", "irq"}
  <2>1. CASE k[1] = "governor"
    BY <1>4, <1>5, <2>1 DEF P!Allowed, P!Value, P!Absent
  <2>2. CASE k[1] = "idle"
    BY <1>4, <1>5, <2>2 DEF P!Allowed, P!Value, P!Absent
  <2>3. CASE k[1] = "thp"
    BY <1>4, <1>5, <2>3 DEF P!Allowed, P!Value, P!Absent
  <2>4. CASE k[1] = "switch"
    BY <1>4, <1>5, <2>4 DEF P!Allowed, P!Value, P!Absent
  <2>5. CASE k[1] = "nmi_watchdog"
    BY <1>4, <1>5, <2>5 DEF P!Allowed, P!Value, P!Absent
  <2>6. CASE k[1] = "stat_interval"
    BY <1>4, <1>5, <2>6 DEF P!Allowed, P!Value, P!Absent
  <2>7. QED
    BY <1>7, <1>9, <2>1, <2>2, <2>3, <2>4, <2>5, <2>6 DEF KnobNames
<1>10. QED
  BY <1>8, <1>9

LEMMA PlanAnswers == ASSUME PlanInv PROVE P!PlanIsAccepted /\ P!AppliedIsIsolated
<1>1. P!PlanIsAccepted
  BY PlannedIsAllowed DEF PlanInv, LinePart, P!PlanIsAccepted, P!Accepted
<1>2. ASSUME step = "applied", moves = 0 PROVE \A i \in DOMAIN P!Looks : P!Wants(P!Looks[i]) => \E m \in Managed : P!Looks[i] = P!IrqKnob(m)
  BY <1>2 DEF PlanInv, CoverPart
<1>3. ASSUME step = "applied", moves = 0, args.profile = "irq-isolation"
      PROVE  /\ \A i \in Irqs \ Managed : P!Range(P!Expand(host[P!IrqKnob(i)])) \cap P!Range(P!Hot) = {}
             /\ P!MaskCpus(host[P!Workqueue]) \cap P!Range(P!Hot) = {}
             /\ P!Range(P!Expand(host[P!Watchdog])) \cap P!Range(P!Hot) = {}
  <2>1. ArgsPart /\ ~ P!Refused
    BY <1>3 DEF PlanInv, LookPart
  <2>2. /\ \A k \in {P!IrqKnob(j) : j \in Irqs} \cup {P!Workqueue, P!Watchdog} : \E i \in DOMAIN P!Looks : P!Looks[i] = k
        /\ P!Housekeeping # <<>>
    BY <1>3, <2>1, LooksOnce
  <2> DEFINE keep == P!Range(P!Housekeeping)
             hot == P!Range(P!Hot)
  <2>3. hot \cap keep = {} /\ keep \subseteq Nat /\ IsFiniteSet(keep) /\ keep # {}
    BY <2>1, <2>2, HotListed DEF P!Refused
  <2>4. /\ P!Workqueue[1] = "workqueue" /\ P!Watchdog[1] = "watchdog"
        /\ \A i : P!IrqKnob(i)[1] = "irq" /\ P!IrqKnob(i)[2] = i
    BY DEF P!Workqueue, P!Watchdog, P!IrqKnob
  <2>5. ASSUME NEW k \in {P!IrqKnob(j) : j \in Irqs} \cup {P!Workqueue, P!Watchdog}, P!Wants(k)
        PROVE  \E m \in Managed : k = P!IrqKnob(m)
    BY <1>2, <1>3, <2>2, <2>5
  <2>6. P!Range(P!Expand(P!Compact(keep))) \cap hot = {}
    BY <2>3, CompactShows
  <2>7. P!MaskCpus(P!HexMask(keep)) \cap hot = {}
    BY <2>3, MaskShows
  <2>8. P!Range(P!Expand(P!Absent)) = {} /\ P!MaskCpus(P!Absent) = {}
    BY NothingShown
  <2>9. ASSUME NEW i \in Irqs \ Managed PROVE P!Range(P!Expand(host[P!IrqKnob(i)])) \cap hot = {}
    <3> DEFINE k == P!IrqKnob(i)
    <3>1. ~ P!Wants(k)
      BY <2>4, <2>5
    <3>2. k[1] = "irq"
      BY <2>4
    <3> HIDE DEF k
    <3>3. /\ P!Applies(k) <=> P!Range(P!Expand(host[k])) \cap hot # {}
          /\ P!Value(k) = P!Compact(keep)
      BY <3>2 DEF P!Applies, P!Value
    <3>4. \/ P!Range(P!Expand(host[k])) \cap hot = {} \/ host[k] = P!Absent \/ host[k] = P!Compact(keep)
      BY <3>1, <3>3 DEF P!Wants
    <3>5. QED
      BY <2>6, <2>8, <3>4 DEF k
  <2>10. P!MaskCpus(host[P!Workqueue]) \cap hot = {}
    <3> DEFINE k == P!Workqueue
    <3>1. ~ P!Wants(k) /\ k[1] = "workqueue"
      BY <2>4, <2>5
    <3> HIDE DEF k
    <3>2. P!Applies(k) /\ P!Value(k) = P!HexMask(keep)
      BY <3>1 DEF P!Applies, P!Value
    <3>3. host[k] = P!Absent \/ host[k] = P!HexMask(keep)
      BY <3>1, <3>2 DEF P!Wants
    <3>4. QED
      BY <2>7, <2>8, <3>3 DEF k
  <2>11. P!Range(P!Expand(host[P!Watchdog])) \cap hot = {}
    <3> DEFINE k == P!Watchdog
    <3>1. ~ P!Wants(k) /\ k[1] = "watchdog"
      BY <2>4, <2>5
    <3> HIDE DEF k
    <3>2. P!Applies(k) /\ P!Value(k) = P!Compact(keep)
      BY <3>1 DEF P!Applies, P!Value
    <3>3. host[k] = P!Absent \/ host[k] = P!Compact(keep)
      BY <3>1, <3>2 DEF P!Wants
    <3>4. QED
      BY <2>6, <2>8, <3>3 DEF k
  <2>12. QED
    BY <2>9, <2>10, <2>11
<1>4. QED
  BY <1>1, <1>2, <1>3 DEF P!AppliedIsIsolated

LEMMA PlanAlways == Spec => [](task = "plan" => PlanInv)
<1>1. Init => (task = "plan" => PlanInv)
  BY PlanInit DEF Init
<1>2. (task = "plan" => PlanInv) /\ [Next]_vars => (task = "plan" => PlanInv)'
  <2>1. task' = "plan" /\ [Next]_vars => task = "plan" /\ [P!Next]_P!vars
    BY DEF Next, vars, pVars, P!vars
  <2>2. QED
    BY <2>1, PlanStep
<1>3. QED
  BY <1>1, <1>2, PTL DEF Spec

(* make-lab-plan.py: whatever CPU lists are given, with CPUs named twice, in *)
(* any order or backwards, no file is planned twice and every value is on    *)
(* the allowlist, so that a plan with an entry is one that load_plan of      *)
(* lab-tune.sh takes.                                                        *)
THEOREM PlansAreAccepted == Spec => []PlanIsAccepted
<1>1. PlanInv => P!PlanIsAccepted
  BY PlanAnswers
<1>2. QED
  BY PlanAlways, <1>1, PTL DEF PlanIsAccepted

(* make-lab-plan.py and lab-tune.sh: when no IRQ was moved in between, an    *)
(* applied plan has done what was asked: of the files the profile looks at   *)
(* none wants a change any longer but managed IRQs, and no other IRQ,        *)
(* workqueue or watchdog is left on a hot CPU.                               *)
THEOREM AppliedPlansIsolate == Spec => []AppliedIsIsolated
<1>1. PlanInv => P!AppliedIsIsolated
  BY PlanAnswers
<1>2. QED
  BY PlanAlways, <1>1, PTL DEF AppliedIsIsolated

-----------------------------------------------------------------------------
(* latency-report.py.  The percentile of some values is the least number     *)
(* that enough of them do not exceed (PercentileIs), so what is known of the *)
(* values, of their parts and of their order is known of the percentile.     *)

LEMMA CardinalityOfLatency == ASSUME NEW all PROVE L!Cardinality(all) = Cardinality(all)
  BY DEF L!Cardinality, Cardinality

Numbers(f) == IsFiniteSet(DOMAIN f) /\ DOMAIN f # {} /\ \A i \in DOMAIN f : f[i] \in Nat
NoMore(f, v) == {i \in DOMAIN f : f[i] <= v}
Enough(f, v, p) == Whole * L!UpTo(f, v) >= p * L!Size(f)

LEMMA CountedValues ==
  ASSUME NEW f, Numbers(f), NEW v
  PROVE  /\ L!UpTo(f, v) = Cardinality(NoMore(f, v)) /\ L!UpTo(f, v) \in Nat
         /\ L!Size(f) = Cardinality(DOMAIN f) /\ L!Size(f) \in Nat \ {0}
         /\ L!UpTo(f, v) <= L!Size(f)
         /\ IsFiniteSet(NoMore(f, v))
         /\ L!UpTo(f, v) > 0 => NoMore(f, v) # {}
         /\ NoMore(f, v) = DOMAIN f => L!UpTo(f, v) = L!Size(f)
<1>1. L!UpTo(f, v) = Cardinality(NoMore(f, v)) /\ L!Size(f) = Cardinality(DOMAIN f)
  BY CardinalityOfLatency DEF L!UpTo, L!Size, NoMore
<1>2. NoMore(f, v) \in SUBSET DOMAIN f
  BY DEF NoMore
<1>3. IsFiniteSet(DOMAIN f) /\ DOMAIN f # {}
  BY DEF Numbers
<1>4. IsFiniteSet(NoMore(f, v)) /\ Cardinality(NoMore(f, v)) <= Cardinality(DOMAIN f)
  BY <1>2, <1>3, FS_Subset
<1>5. Cardinality(NoMore(f, v)) \in Nat /\ Cardinality(DOMAIN f) \in Nat
  BY <1>3, <1>4, FS_CardinalityType
<1>6. Cardinality(DOMAIN f) # 0
  BY <1>3, FS_EmptySet
<1>7. NoMore(f, v) = {} => Cardinality(NoMore(f, v)) = 0
  BY FS_EmptySet
<1>8. QED
  BY <1>1, <1>4, <1>5, <1>6, <1>7

(* More of the lesser values are below the greater bound. *)
LEMMA MoreBelow ==
  ASSUME NEW f, Numbers(f), NEW v, NEW g, Numbers(g), NEW w, DOMAIN f = DOMAIN g,
         \A i \in DOMAIN f : f[i] <= v => g[i] <= w
  PROVE  L!UpTo(f, v) <= L!UpTo(g, w)
<1>1. NoMore(f, v) \in SUBSET NoMore(g, w)
  BY DEF NoMore
<1>2. Cardinality(NoMore(f, v)) <= Cardinality(NoMore(g, w))
  BY <1>1, CountedValues, FS_Subset
<1>3. QED
  BY <1>2, CountedValues

(* The rank is rounded up: so many operations are the part p of n.           *)
LEMMA RankIs ==
  ASSUME NEW n \in Nat \ {0}, NEW p \in 1..Whole, NEW k \in Nat
  PROVE  k >= L!Rank(n, p) <=> Whole * k >= p * n
<1>1. Whole \in Nat \ {0} /\ p \in Nat \ {0}
  BY PercentileAssumption
<1> DEFINE a == p * n + Whole - 1
           q == a \div Whole
           r == a % Whole
<1>2. p * n \in Nat /\ p * n >= 1
  <2>1. p * 1 <= p * n /\ p * n \in Nat
    BY <1>1, ProductGrows
  <2>2. QED
    BY <1>1, <2>1
<1>3. a \in Nat /\ a = p * n + Whole - 1
  BY <1>1, <1>2
<1>4. q \in Nat /\ r \in Nat /\ r < Whole /\ a = q * Whole + r
  <2> HIDE DEF a
  <2>1. QED
    BY <1>1, <1>3, Divided
<1>5. L!Rank(n, p) = L!Max({1, q})
  BY DEF L!Rank
<1> HIDE DEF a, q, r
<1>6. q * Whole = Whole * q /\ Whole * q \in Nat
  BY <1>1, <1>4
<1>7. q >= 1
  <2>1. q = 0 => Whole * q = 0
    BY <1>1
  <2>2. QED
    BY <1>1, <1>2, <1>3, <1>4, <1>6, <2>1
<1>8. L!Rank(n, p) = q
  <2>1. q \in {1, q} /\ \A y \in {1, q} : q >= y
    BY <1>4, <1>7
  <2>2. \A x \in {1, q} : (\A y \in {1, q} : x >= y) => x = q
    BY <1>4, <1>7
  <2>3. L!Max({1, q}) = q
    BY <2>1, <2>2 DEF L!Max
  <2>4. QED
    BY <1>5, <2>3
<1>9. ASSUME k >= q PROVE Whole * k >= p * n
  <2>1. Whole * q <= Whole * k /\ Whole * k \in Nat
    BY <1>1, <1>4, <1>9, ProductGrows
  <2>2. QED
    BY <1>1, <1>2, <1>3, <1>4, <1>6, <2>1
<1>10. ASSUME k < q PROVE Whole * k < p * n
  <2>1. Whole * (k + 1) <= Whole * q
    <3>1. k + 1 \in Nat /\ k + 1 <= q
      BY <1>4, <1>10
    <3>2. QED
      BY <1>1, <1>4, <3>1, ProductGrows
  <2>2. Whole * (k + 1) = Whole * k + Whole /\ Whole * k \in Nat
    BY <1>1
  <2>3. QED
    BY <1>1, <1>2, <1>3, <1>4, <1>6, <2>1, <2>2
<1>11. QED
  <2>1. Whole * k \in Nat
    BY <1>1
  <2>2. QED
    BY <1>2, <1>4, <1>8, <1>9, <1>10, <2>1

(* The number of the greatest value. *)
LEMMA GreatestOf ==
  ASSUME NEW all, all \subseteq Nat, IsFiniteSet(all), all # {}
  PROVE  \E x \in all : \A y \in all : y <= x
<1> DEFINE below == [x \in all |-> Cardinality({y \in all : y <= x})]
           n == Cardinality(all)
           ranks == {below[x] : x \in all}
<1>1. n \in Nat
  BY FS_CardinalityType
<1>2. ASSUME NEW x \in all PROVE /\ IsFiniteSet({y \in all : y <= x}) /\ below[x] \in 1..n
                                 /\ below[x] = Cardinality({y \in all : y <= x})
  <2> DEFINE part == {y \in all : y <= x}
  <2>1. part \in SUBSET all /\ x \in part
    OBVIOUS
  <2>2. below[x] = Cardinality(part)
    OBVIOUS
  <2> HIDE DEF part, below
  <2>3. IsFiniteSet(part) /\ Cardinality(part) <= n
    BY <2>1, FS_Subset
  <2>4. Cardinality(part) \in Nat /\ Cardinality(part) # 0
    BY <2>1, <2>3, FS_CardinalityType, FS_EmptySet
  <2>5. IsFiniteSet(part) /\ Cardinality(part) \in 1..n
    BY <1>1, <2>3, <2>4
  <2>6. QED
    BY <2>2, <2>5 DEF part
<1>3. ranks \subseteq 1..n /\ ranks # {}
  BY <1>2
<1>4. \E m \in ranks : \A k \in ranks : k <= m
  <2> HIDE DEF ranks, n, below
  <2>1. QED
    BY <1>1, <1>3, GreatestNumber
<1>5. PICK x \in all : \A y \in all : below[y] <= below[x]
  BY <1>4
<1>6. ASSUME NEW y \in all, ~ (y <= x) PROVE FALSE
  <2> DEFINE few == {z \in all : z <= x}
             many == {z \in all : z <= y}
  <2>1. x \in Nat /\ y \in Nat /\ y \notin few /\ y \in many
    BY <1>6
  <2>2. few \in SUBSET many
    <3>1. \A z \in all : z <= x => z <= y
      BY <1>6, <2>1
    <3>2. QED
      BY <3>1
  <2>3. /\ IsFiniteSet(many) /\ below[x] = Cardinality(few) /\ below[y] = Cardinality(many)
        /\ below[x] \in Nat /\ below[y] \in Nat
    BY <1>1, <1>2
  <2> HIDE DEF few, many, below
  <2>4. Cardinality(few) <= Cardinality(many) /\ Cardinality(few) # Cardinality(many)
    BY <2>1, <2>2, <2>3, FS_Subset
  <2>5. below[y] <= below[x]
    BY <1>5
  <2>6. QED
    BY <2>3, <2>4, <2>5
<1>7. QED
  BY <1>6

LEMMA ExtremesOf ==
  ASSUME NEW all, all \subseteq Nat, IsFiniteSet(all), all # {}
  PROVE  /\ L!Max(all) \in all /\ \A y \in all : y <= L!Max(all)
         /\ L!Min(all) \in all /\ \A y \in all : L!Min(all) <= y
<1>1. \E x \in all : \A y \in all : x >= y
  <2>1. PICK x \in all : \A y \in all : y <= x
    BY GreatestOf
  <2>2. \A y \in all : x >= y
    BY <2>1
  <2>3. QED
    BY <2>2
<1>2. L!Max(all) \in all /\ \A y \in all : L!Max(all) >= y
  BY <1>1 DEF L!Max
<1>3. \E x \in all : \A y \in all : x <= y
  BY LeastNumber
<1>4. L!Min(all) \in all /\ \A y \in all : L!Min(all) <= y
  BY <1>3 DEF L!Min
<1>5. \A x, y \in all : x >= y => y <= x
  OBVIOUS
<1>6. QED
  BY <1>2, <1>4, <1>5

(* The percentile is one of the values, and the least that is enough.        *)
LEMMA PercentileIs ==
  ASSUME NEW f, Numbers(f), NEW p \in 1..Whole
  PROVE  /\ \E i \in DOMAIN f : L!Percentile(f, p) = f[i]
         /\ L!Percentile(f, p) \in Nat
         /\ \A v \in Nat : Enough(f, v, p) <=> L!Percentile(f, p) <= v
<1> DEFINE values == {f[i] : i \in DOMAIN f}
           fit == {v \in values : Enough(f, v, p)}
           least == L!Percentile(f, p)
<1>0. Whole \in Nat \ {0} /\ p \in Nat /\ p <= Whole
  BY PercentileAssumption
<1>1. values \subseteq Nat /\ values # {} /\ IsFiniteSet(values)
  <2>1. IsFiniteSet(values)
    BY FamilyIsFinite DEF Numbers
  <2>2. QED
    BY <2>1 DEF Numbers
<1>2. ASSUME NEW v PROVE L!UpTo(f, v) >= L!Rank(L!Size(f), p) <=> Enough(f, v, p)
  BY CountedValues, RankIs DEF Enough
<1>3. least = L!Min(fit)
  <2>1. {v \in values : L!UpTo(f, v) >= L!Rank(L!Size(f), p)} = fit
    BY <1>2
  <2>2. L!Range(f) = values
    BY DEF L!Range
  <2>3. QED
    BY <2>1, <2>2 DEF L!Percentile
<1>4. ASSUME NEW v \in Nat, NEW w \in Nat, v <= w, Enough(f, v, p) PROVE Enough(f, w, p)
  <2>1. L!UpTo(f, v) <= L!UpTo(f, w)
    <3>1. \A i \in DOMAIN f : f[i] <= v => f[i] <= w
      BY <1>4 DEF Numbers
    <3>2. QED
      BY <3>1, MoreBelow
  <2>2. L!UpTo(f, v) \in Nat /\ L!UpTo(f, w) \in Nat /\ L!Size(f) \in Nat
    BY CountedValues
  <2>3. Whole * L!UpTo(f, v) <= Whole * L!UpTo(f, w)
    BY <1>0, <2>1, <2>2, ProductGrows
  <2>4. Whole * L!UpTo(f, v) \in Nat /\ Whole * L!UpTo(f, w) \in Nat /\ p * L!Size(f) \in Nat
    BY <1>0, <2>2
  <2>5. Whole * L!UpTo(f, v) >= p * L!Size(f)
    BY <1>4 DEF Enough
  <2>6. Whole * L!UpTo(f, w) >= p * L!Size(f)
    BY <2>3, <2>4, <2>5
  <2>7. QED
    BY <2>6 DEF Enough
<1>5. ASSUME NEW v \in Nat, Enough(f, v, p) PROVE \E w \in fit : w <= v
  <2> DEFINE low == {f[i] : i \in NoMore(f, v)}
  <2>1. NoMore(f, v) # {} /\ IsFiniteSet(NoMore(f, v))
    <3>1. L!UpTo(f, v) \in Nat /\ L!Size(f) \in Nat \ {0}
      BY CountedValues
    <3>2. p * L!Size(f) >= 1 /\ p * L!Size(f) \in Nat
      <4>1. L!Size(f) * 1 <= L!Size(f) * p /\ L!Size(f) * p = p * L!Size(f) /\ p * L!Size(f) \in Nat
        BY <1>0, <3>1, ProductGrows
      <4>2. QED
        BY <3>1, <4>1
    <3>3. L!UpTo(f, v) = 0 => Whole * L!UpTo(f, v) = 0
      BY <1>0
    <3>4. L!UpTo(f, v) > 0
      BY <1>5, <3>1, <3>2, <3>3 DEF Enough
    <3>5. QED
      BY <3>4, CountedValues
  <2>2. low \subseteq Nat /\ low # {} /\ low \subseteq values /\ \A w \in low : w <= v
    BY <2>1 DEF NoMore, Numbers
  <2>3. IsFiniteSet(low)
    BY <2>1, FamilyIsFinite
  <2>4. \E w \in low : \A u \in low : u <= w
    <3> HIDE DEF low
    <3>1. QED
      BY <2>2, <2>3, GreatestOf
  <2>5. PICK w \in low : \A u \in low : u <= w
    BY <2>4
  <2>6. L!UpTo(f, v) <= L!UpTo(f, w)
    <3>1. \A i \in DOMAIN f : f[i] <= v => f[i] <= w
      BY <2>5 DEF NoMore
    <3>2. QED
      BY <3>1, MoreBelow
  <2>7. L!UpTo(f, v) \in Nat /\ L!UpTo(f, w) \in Nat /\ L!Size(f) \in Nat
    BY CountedValues
  <2>8. Whole * L!UpTo(f, v) <= Whole * L!UpTo(f, w)
    BY <1>0, <2>6, <2>7, ProductGrows
  <2>9. Whole * L!UpTo(f, v) \in Nat /\ Whole * L!UpTo(f, w) \in Nat /\ p * L!Size(f) \in Nat
    BY <1>0, <2>7
  <2>10. Enough(f, w, p)
    BY <1>5, <2>8, <2>9 DEF Enough
  <2>11. w \in values /\ w <= v
    BY <2>2, <2>5
  <2>12. QED
    BY <2>10, <2>11
<1>6. PICK top \in values : \A y \in values : y <= top
  <2> HIDE DEF values
  <2>1. QED
    BY <1>1, GreatestOf
<1>7. Enough(f, top, p) /\ top \in Nat
  <2>1. NoMore(f, top) = DOMAIN f
    BY <1>6 DEF NoMore
  <2>2. L!UpTo(f, top) = L!Size(f) /\ L!Size(f) \in Nat
    BY <2>1, CountedValues
  <2>3. L!Size(f) * p <= L!Size(f) * Whole
    BY <1>0, <2>2, ProductGrows
  <2>4. Whole * L!Size(f) >= p * L!Size(f)
    BY <1>0, <2>2, <2>3
  <2>5. top \in Nat
    BY <1>1
  <2>6. QED
    BY <2>2, <2>4, <2>5 DEF Enough
<1>8. fit \subseteq Nat /\ fit # {} /\ IsFiniteSet(fit) /\ fit \subseteq values
  <2>1. fit \in SUBSET values /\ fit # {}
    BY <1>7
  <2>2. QED
    BY <1>1, <2>1, FS_Subset
<1>9. least \in fit /\ \A y \in fit : least <= y
  <2> HIDE DEF fit, least
  <2>1. QED
    BY <1>3, <1>8, ExtremesOf
<1>10. least \in Nat /\ Enough(f, least, p) /\ \E i \in DOMAIN f : least = f[i]
  BY <1>8, <1>9
<1>11. ASSUME NEW v \in Nat PROVE Enough(f, v, p) <=> least <= v
  <2>1. ASSUME Enough(f, v, p) PROVE least <= v
    <3>1. PICK w \in fit : w <= v
      BY <1>5, <2>1
    <3>2. least <= w /\ w \in Nat
      BY <1>8, <1>9
    <3>3. QED
      BY <1>10, <3>1, <3>2
  <2>2. QED
    BY <1>4, <1>10, <2>1
<1>12. QED
  BY <1>10, <1>11

(* Lesser values have a lesser percentile. *)
LEMMA LesserPercentile ==
  ASSUME NEW f, Numbers(f), NEW g, Numbers(g), DOMAIN f = DOMAIN g, \A i \in DOMAIN f : f[i] <= g[i],
         NEW p \in 1..Whole
  PROVE  L!Percentile(f, p) <= L!Percentile(g, p)
<1> DEFINE v == L!Percentile(g, p)
<1>0. Whole \in Nat \ {0} /\ p \in Nat
  BY PercentileAssumption
<1>1. v \in Nat /\ Enough(g, v, p)
  <2>1. v \in Nat /\ (Enough(g, v, p) <=> v <= v)
    BY PercentileIs
  <2>2. QED
    BY <2>1
<1> HIDE DEF v
<1>2. L!UpTo(g, v) <= L!UpTo(f, v)
  <2>1. \A i \in DOMAIN g : g[i] <= v => f[i] <= v
    BY <1>1 DEF Numbers
  <2>2. QED
    BY <2>1, MoreBelow
<1>3. L!UpTo(g, v) \in Nat /\ L!UpTo(f, v) \in Nat /\ L!Size(f) \in Nat /\ L!Size(f) = L!Size(g)
  BY CountedValues
<1>4. Whole * L!UpTo(g, v) <= Whole * L!UpTo(f, v)
  BY <1>0, <1>2, <1>3, ProductGrows
<1>5. Whole * L!UpTo(g, v) \in Nat /\ Whole * L!UpTo(f, v) \in Nat /\ p * L!Size(f) \in Nat
  BY <1>0, <1>3
<1>6. Enough(f, v, p)
  BY <1>1, <1>3, <1>4, <1>5 DEF Enough
<1>7. QED
  BY <1>1, <1>6, PercentileIs DEF v

(* Numbers of things that are apart add up. *)
Joined(x, k) == UNION {x[l] : l \in k}
Apart(x, keys) ==
  /\ \A l \in keys : IsFiniteSet(x[l])
  /\ \A l, m \in keys : l # m => x[l] \cap x[m] = {}

LEMMA JoinedOneMore ==
  ASSUME NEW x, NEW keys, IsFiniteSet(keys), Apart(x, keys), NEW k \in SUBSET keys, NEW l \in keys \ k
  PROVE  /\ Cardinality(Joined(x, k \cup {l})) = Cardinality(Joined(x, k)) + Cardinality(x[l])
         /\ Cardinality(Joined(x, k)) \in Nat /\ Cardinality(x[l]) \in Nat
<1>1. IsFiniteSet(k)
  BY FS_Subset
<1>2. IsFiniteSet(Joined(x, k)) /\ Cardinality(Joined(x, k)) \in Nat
  BY <1>1, UnionIsFinite DEF Apart, Joined
<1>3. IsFiniteSet(x[l]) /\ Cardinality(x[l]) \in Nat
  BY FS_CardinalityType DEF Apart
<1>4. Joined(x, k \cup {l}) = Joined(x, k) \cup x[l] /\ Joined(x, k) \cap x[l] = {}
  BY DEF Joined, Apart
<1>5. Cardinality(Joined(x, k) \cup x[l]) =
        Cardinality(Joined(x, k)) + Cardinality(x[l]) - Cardinality(Joined(x, k) \cap x[l])
  BY <1>2, <1>3, FS_Union
<1>6. Cardinality(Joined(x, k) \cap x[l]) = 0
  BY <1>4, FS_EmptySet
<1>7. Cardinality(Joined(x, k \cup {l})) = Cardinality(Joined(x, k) \cup x[l])
  BY <1>4
<1>8. QED
  BY <1>2, <1>3, <1>5, <1>6, <1>7

LEMMA Distributes == ASSUME NEW a \in Nat, NEW m \in Nat, NEW n \in Nat PROVE a * (m + n) = a * m + a * n
  OBVIOUS

LEMMA PartsAdd ==
  ASSUME NEW a \in Nat, NEW b \in Nat, NEW keys, IsFiniteSet(keys), NEW x, Apart(x, keys),
         NEW y, Apart(y, keys), \A l \in keys : a * Cardinality(x[l]) <= b * Cardinality(y[l])
  PROVE  a * Cardinality(Joined(x, keys)) <= b * Cardinality(Joined(y, keys))
<1> DEFINE Good(k) == a * Cardinality(Joined(x, k)) <= b * Cardinality(Joined(y, k))
           bad == {k \in SUBSET keys : ~ Good(k)}
           sizes == {Cardinality(k) : k \in bad}
<1>1. SUFFICES ASSUME ~ Good(keys) PROVE FALSE
  OBVIOUS
<1>2. \A k \in SUBSET keys : IsFiniteSet(k) /\ Cardinality(k) \in Nat
  BY FS_Subset, FS_CardinalityType
<1>3. sizes \subseteq Nat /\ sizes # {}
  BY <1>1, <1>2
<1>4. \E m \in sizes : \A n \in sizes : m <= n
  <2> HIDE DEF sizes
  <2>1. QED
    BY <1>3, LeastNumber
<1>5. PICK k \in bad : \A n \in sizes : Cardinality(k) <= n
  BY <1>4
<1>6. k \in SUBSET keys /\ ~ Good(k)
  OBVIOUS
<1>7. k # {}
  <2>1. Joined(x, {}) = {} /\ Joined(y, {}) = {}
    BY DEF Joined
  <2>2. Cardinality(Joined(x, {})) = 0 /\ Cardinality(Joined(y, {})) = 0
    BY <2>1, FS_EmptySet
  <2>3. Good({})
    BY <2>2
  <2>4. QED
    BY <1>6, <2>3
<1>8. PICK l \in k : TRUE
  BY <1>7
<1> DEFINE rest == k \ {l}
<1>9. rest \in SUBSET keys /\ l \in keys \ rest /\ rest \cup {l} = k
  BY <1>6
<1>10. Cardinality(rest) < Cardinality(k)
  <2>1. IsFiniteSet(k) /\ Cardinality(k) \in Nat /\ Cardinality(rest) \in Nat
    BY <1>2, <1>6, <1>9
  <2>2. Cardinality(rest) = Cardinality(k) - 1
    BY <2>1, FS_RemoveElement
  <2>3. QED
    BY <2>1, <2>2
<1>11. Good(rest)
  <2>1. Cardinality(rest) \in Nat /\ Cardinality(k) \in Nat
    BY <1>2, <1>6, <1>9
  <2>2. rest \notin bad
    <3>1. rest \in bad => Cardinality(rest) \in sizes
      OBVIOUS
    <3>2. Cardinality(rest) \in sizes => Cardinality(k) <= Cardinality(rest)
      <4> HIDE DEF sizes, bad
      <4>1. QED
        BY <1>5
    <3>3. ~ (Cardinality(k) <= Cardinality(rest))
      BY <1>10, <2>1
    <3>4. QED
      BY <3>1, <3>2, <3>3
  <2>3. QED
    BY <1>9, <2>2
<1> HIDE DEF rest
<1>12. /\ Cardinality(Joined(x, k)) = Cardinality(Joined(x, rest)) + Cardinality(x[l])
       /\ Cardinality(Joined(x, rest)) \in Nat /\ Cardinality(x[l]) \in Nat
  BY <1>9, JoinedOneMore
<1>13. /\ Cardinality(Joined(y, k)) = Cardinality(Joined(y, rest)) + Cardinality(y[l])
       /\ Cardinality(Joined(y, rest)) \in Nat /\ Cardinality(y[l]) \in Nat
  BY <1>9, JoinedOneMore
<1>14. a * Cardinality(x[l]) <= b * Cardinality(y[l])
  BY <1>9
<1>15. a * Cardinality(Joined(x, k)) = a * Cardinality(Joined(x, rest)) + a * Cardinality(x[l])
  BY <1>12, Distributes
<1>16. b * Cardinality(Joined(y, k)) = b * Cardinality(Joined(y, rest)) + b * Cardinality(y[l])
  BY <1>13, Distributes
<1>17. /\ a * Cardinality(Joined(x, rest)) \in Nat /\ a * Cardinality(x[l]) \in Nat
       /\ b * Cardinality(Joined(y, rest)) \in Nat /\ b * Cardinality(y[l]) \in Nat
  BY <1>12, <1>13
<1>18. Good(k)
  BY <1>11, <1>14, <1>15, <1>16, <1>17
<1>19. QED
  BY <1>6, <1>18

(* The values of some places, for each of some keys; every place has one key.*)
PartsOf(g, f, keys) ==
  /\ IsFiniteSet(keys) /\ keys # {}
  /\ \A l \in keys : DOMAIN g[l] \subseteq DOMAIN f /\ DOMAIN g[l] # {} /\ \A i \in DOMAIN g[l] : g[l][i] = f[i]
  /\ \A l, m \in keys : l # m => DOMAIN g[l] \cap DOMAIN g[m] = {}
  /\ \A i \in DOMAIN f : \E l \in keys : i \in DOMAIN g[l]

LowPlaces(g, keys, v) == [l \in keys |-> NoMore(g[l], v)]
PlacesOf(g, keys) == [l \in keys |-> DOMAIN g[l]]

LEMMA PartsCounted ==
  ASSUME NEW f, Numbers(f), NEW keys, NEW g, PartsOf(g, f, keys), NEW v
  PROVE  /\ Apart(LowPlaces(g, keys, v), keys) /\ Joined(LowPlaces(g, keys, v), keys) = NoMore(f, v)
         /\ Apart(PlacesOf(g, keys), keys) /\ Joined(PlacesOf(g, keys), keys) = DOMAIN f
         /\ \A l \in keys : Numbers(g[l])
<1> DEFINE x == [l \in keys |-> NoMore(g[l], v)]
           y == [l \in keys |-> DOMAIN g[l]]
<1>1. \A l \in keys : IsFiniteSet(DOMAIN g[l])
  BY FS_Subset DEF Numbers, PartsOf
<1>2. \A l \in keys : Numbers(g[l])
  BY <1>1 DEF Numbers, PartsOf
<1>3. \A l \in keys : IsFiniteSet(NoMore(g[l], v))
  BY <1>2, CountedValues
<1>4. Apart(x, keys) /\ Apart(y, keys)
  BY <1>1, <1>3 DEF Apart, PartsOf, NoMore
<1>5. Joined(y, keys) = DOMAIN f
  <2>1. ASSUME NEW i \in DOMAIN f PROVE i \in Joined(y, keys)
    <3>1. PICK l \in keys : i \in DOMAIN g[l]
      BY DEF PartsOf
    <3>2. i \in y[l]
      BY <3>1
    <3>3. QED
      BY <3>2 DEF Joined
  <2>2. ASSUME NEW i \in Joined(y, keys) PROVE i \in DOMAIN f
    <3>1. PICK l \in keys : i \in DOMAIN g[l]
      BY DEF Joined
    <3>2. QED
      BY <3>1 DEF PartsOf
  <2>3. QED
    BY <2>1, <2>2
<1>6. Joined(x, keys) = NoMore(f, v)
  <2>1. ASSUME NEW i \in NoMore(f, v) PROVE i \in Joined(x, keys)
    <3>1. i \in DOMAIN f /\ f[i] <= v
      BY DEF NoMore
    <3>2. PICK l \in keys : i \in DOMAIN g[l]
      BY <3>1 DEF PartsOf
    <3>3. i \in x[l]
      BY <3>1, <3>2 DEF PartsOf, NoMore
    <3>4. QED
      BY <3>3 DEF Joined
  <2>2. ASSUME NEW i \in Joined(x, keys) PROVE i \in NoMore(f, v)
    <3>1. PICK l \in keys : i \in NoMore(g[l], v)
      BY DEF Joined
    <3>2. QED
      BY <3>1 DEF PartsOf, NoMore
  <2>3. QED
    BY <2>1, <2>2
<1>7. QED
  BY <1>2, <1>4, <1>5, <1>6 DEF LowPlaces, PlacesOf

(* The percentile of all lies between those of the parts. *)
LEMMA PartsEnclose ==
  ASSUME NEW f, Numbers(f), NEW keys, NEW g, PartsOf(g, f, keys), NEW p \in 1..Whole
  PROVE  L!Within(L!Percentile(f, p), {L!Percentile(g[l], p) : l \in keys})
<1> DEFINE parts == {L!Percentile(g[l], p) : l \in keys}
           top == L!Max(parts)
           low == L!Min(parts)
           all == L!Percentile(f, p)
<1>0. Whole \in Nat \ {0} /\ p \in Nat /\ IsFiniteSet(keys)
  BY PercentileAssumption DEF PartsOf
<1>1. \A l \in keys : Numbers(g[l])
  BY PartsCounted
<1>2. \A l \in keys : L!Percentile(g[l], p) \in Nat /\ \A v \in Nat : Enough(g[l], v, p) <=> L!Percentile(g[l], p) <= v
  BY <1>1, PercentileIs
<1>3. parts \subseteq Nat /\ parts # {} /\ IsFiniteSet(parts)
  <2> DEFINE h == [l \in keys |-> L!Percentile(g[l], p)]
  <2>1. parts = {h[l] : l \in keys}
    OBVIOUS
  <2>2. IsFiniteSet({h[l] : l \in keys})
    <3> HIDE DEF h
    <3>1. QED
      BY <1>0, FamilyIsFinite
  <2>3. keys # {}
    BY DEF PartsOf
  <2>4. QED
    BY <1>2, <2>1, <2>2, <2>3
<1>4. top \in parts /\ (\A y \in parts : y <= top) /\ low \in parts /\ \A y \in parts : low <= y
  <2> HIDE DEF parts
  <2>1. QED
    BY <1>3, ExtremesOf
<1>5. all \in Nat /\ \A v \in Nat : Enough(f, v, p) <=> all <= v
  BY PercentileIs
<1>6. top \in Nat /\ low \in Nat /\ \A l \in keys : L!Percentile(g[l], p) <= top /\ low <= L!Percentile(g[l], p)
  BY <1>3, <1>4
<1> HIDE DEF parts, top, low, all
<1>7. ASSUME NEW v, NEW l \in keys PROVE /\ L!UpTo(g[l], v) = Cardinality(NoMore(g[l], v)) /\ L!UpTo(g[l], v) \in Nat
                                         /\ L!Size(g[l]) = Cardinality(DOMAIN g[l]) /\ L!Size(g[l]) \in Nat
  BY <1>1, CountedValues
<1>8. ASSUME NEW v PROVE L!UpTo(f, v) = Cardinality(NoMore(f, v)) /\ L!Size(f) = Cardinality(DOMAIN f)
  BY CountedValues
<1>9. all <= top
  <2> DEFINE x == LowPlaces(g, keys, top)
             y == PlacesOf(g, keys)
  <2>1. Apart(x, keys) /\ Joined(x, keys) = NoMore(f, top) /\ Apart(y, keys) /\ Joined(y, keys) = DOMAIN f
    BY PartsCounted
  <2>2. ASSUME NEW l \in keys PROVE p * Cardinality(y[l]) <= Whole * Cardinality(x[l])
    <3>1. Enough(g[l], top, p)
      BY <1>2, <1>6
    <3>2. Whole * Cardinality(NoMore(g[l], top)) >= p * Cardinality(DOMAIN g[l])
      BY <1>7, <3>1 DEF Enough
    <3>3. Cardinality(NoMore(g[l], top)) \in Nat /\ Cardinality(DOMAIN g[l]) \in Nat
      BY <1>7
    <3>4. Whole * Cardinality(NoMore(g[l], top)) \in Nat /\ p * Cardinality(DOMAIN g[l]) \in Nat
      BY <1>0, <3>3
    <3>5. p * Cardinality(DOMAIN g[l]) <= Whole * Cardinality(NoMore(g[l], top))
      BY <3>2, <3>4
    <3>6. QED
      BY <3>5 DEF LowPlaces, PlacesOf
  <2> HIDE DEF x, y
  <2>3. p * Cardinality(Joined(y, keys)) <= Whole * Cardinality(Joined(x, keys))
    BY <1>0, <2>1, <2>2, PartsAdd
  <2>4. p * L!Size(f) <= Whole * L!UpTo(f, top)
    BY <1>8, <2>1, <2>3
  <2>5. L!Size(f) \in Nat /\ L!UpTo(f, top) \in Nat
    BY CountedValues
  <2>6. p * L!Size(f) \in Nat /\ Whole * L!UpTo(f, top) \in Nat
    BY <1>0, <2>5
  <2>7. Enough(f, top, p)
    BY <2>4, <2>6 DEF Enough
  <2>8. QED
    BY <1>5, <1>6, <2>7
<1>10. low <= all
  <2>1. SUFFICES ASSUME all < low PROVE FALSE
    BY <1>5, <1>6
  <2> DEFINE x == LowPlaces(g, keys, all)
             y == PlacesOf(g, keys)
  <2>2. Apart(x, keys) /\ Joined(x, keys) = NoMore(f, all) /\ Apart(y, keys) /\ Joined(y, keys) = DOMAIN f
    BY PartsCounted
  <2>3. ASSUME NEW l \in keys PROVE Whole * Cardinality(x[l]) < p * Cardinality(y[l])
    <3>1. ~ Enough(g[l], all, p)
      <4>1. L!Percentile(g[l], p) \in Nat /\ low <= L!Percentile(g[l], p)
        BY <1>2, <1>6
      <4>2. ~ (L!Percentile(g[l], p) <= all)
        BY <1>5, <1>6, <2>1, <4>1
      <4>3. QED
        BY <1>2, <1>5, <4>2
    <3>2. ~ (Whole * Cardinality(NoMore(g[l], all)) >= p * Cardinality(DOMAIN g[l]))
      BY <1>7, <3>1 DEF Enough
    <3>3. Cardinality(NoMore(g[l], all)) \in Nat /\ Cardinality(DOMAIN g[l]) \in Nat
      BY <1>7
    <3>4. Whole * Cardinality(NoMore(g[l], all)) \in Nat /\ p * Cardinality(DOMAIN g[l]) \in Nat
      BY <1>0, <3>3
    <3>5. Whole * Cardinality(NoMore(g[l], all)) < p * Cardinality(DOMAIN g[l])
      BY <3>2, <3>4
    <3>6. QED
      BY <3>5 DEF LowPlaces, PlacesOf
  <2>a. \A l \in keys : x[l] = NoMore(g[l], all) /\ y[l] = DOMAIN g[l]
    BY DEF LowPlaces, PlacesOf
  <2> HIDE DEF x, y
  <2>4. PICK one \in keys : TRUE
    BY DEF PartsOf
  <2> DEFINE others == keys \ {one}
  <2>5. others \in SUBSET keys /\ one \in keys \ others /\ others \cup {one} = keys
    OBVIOUS
  <2> HIDE DEF others
  <2>6. IsFiniteSet(others) /\ Apart(x, others) /\ Apart(y, others)
    <3>1. IsFiniteSet(others)
      BY <1>0, <2>5, FS_Subset
    <3>2. QED
      BY <2>2, <2>5, <3>1 DEF Apart
  <2>b. ASSUME NEW l \in keys PROVE Whole * Cardinality(x[l]) \in Nat /\ p * Cardinality(y[l]) \in Nat
    <3>1. Cardinality(x[l]) \in Nat /\ Cardinality(y[l]) \in Nat
      BY <1>7, <2>a
    <3>2. QED
      BY <1>0, <3>1
  <2>7. \A l \in others : Whole * Cardinality(x[l]) <= p * Cardinality(y[l])
    <3>1. ASSUME NEW l \in others PROVE Whole * Cardinality(x[l]) <= p * Cardinality(y[l])
      <4>1. l \in keys
        BY <2>5
      <4>2. QED
        BY <2>3, <2>b, <4>1
    <3>2. QED
      BY <3>1
  <2>8. Whole * Cardinality(Joined(x, others)) <= p * Cardinality(Joined(y, others))
    BY <1>0, <2>6, <2>7, PartsAdd
  <2>9. /\ Cardinality(Joined(x, keys)) = Cardinality(Joined(x, others)) + Cardinality(x[one])
        /\ Cardinality(Joined(x, others)) \in Nat /\ Cardinality(x[one]) \in Nat
    BY <1>0, <2>2, <2>5, JoinedOneMore
  <2>10. /\ Cardinality(Joined(y, keys)) = Cardinality(Joined(y, others)) + Cardinality(y[one])
         /\ Cardinality(Joined(y, others)) \in Nat /\ Cardinality(y[one]) \in Nat
    BY <1>0, <2>2, <2>5, JoinedOneMore
  <2>11. Whole * Cardinality(Joined(x, keys)) = Whole * Cardinality(Joined(x, others)) + Whole * Cardinality(x[one])
    BY <1>0, <2>9, Distributes
  <2>12. p * Cardinality(Joined(y, keys)) = p * Cardinality(Joined(y, others)) + p * Cardinality(y[one])
    BY <1>0, <2>10, Distributes
  <2>13. /\ Whole * Cardinality(Joined(x, others)) \in Nat /\ p * Cardinality(Joined(y, others)) \in Nat
         /\ Whole * Cardinality(x[one]) \in Nat /\ p * Cardinality(y[one]) \in Nat
    BY <1>0, <2>9, <2>10
  <2>14. Whole * Cardinality(x[one]) < p * Cardinality(y[one])
    BY <2>3, <2>4
  <2>15. Whole * Cardinality(Joined(x, keys)) < p * Cardinality(Joined(y, keys))
    BY <2>8, <2>11, <2>12, <2>13, <2>14
  <2>16. ~ (Whole * Cardinality(Joined(x, keys)) >= p * Cardinality(Joined(y, keys)))
    BY <2>11, <2>12, <2>13, <2>15
  <2>17. ~ Enough(f, all, p)
    BY <1>8, <2>2, <2>16 DEF Enough
  <2>18. QED
    BY <1>5, <2>17
<1>11. QED
  BY <1>9, <1>10 DEF L!Within, parts, top, low, all

(* load: a stable sort gives every row a place of its own. *)
Ahead(rs, i) ==
  {k \in DOMAIN rs : \/ rs[k].cells[1] < rs[i].cells[1]
                     \/ rs[k].cells[1] = rs[i].cells[1] /\ k <= i}
Keyed(rs, n) == DOMAIN rs = 1..n /\ \A i \in 1..n : rs[i].cells[1] \in Nat
Orders(pi, n) ==
  /\ pi \in [1..n -> 1..n]
  /\ \A i, k \in 1..n : pi[i] = pi[k] => i = k
  /\ \A k \in 1..n : \E i \in 1..n : pi[i] = k

LEMMA PlaceOfEach ==
  ASSUME NEW n \in Nat, NEW rs, Keyed(rs, n)
  PROVE  /\ Orders([i \in 1..n |-> L!Place(rs, i)], n)
         /\ \A i \in 1..n : L!Place(rs, i) = Cardinality(Ahead(rs, i)) /\ IsFiniteSet(Ahead(rs, i))
<1> DEFINE f == [i \in 1..n |-> L!Place(rs, i)]
<1>1. DOMAIN rs = 1..n /\ IsFiniteSet(1..n) /\ Cardinality(1..n) = n
  <2>1. 1 \in Int /\ n \in Int
    OBVIOUS
  <2>2. IsFiniteSet(1..n) /\ Cardinality(1..n) = IF 1 > n THEN 0 ELSE n - 1 + 1
    BY <2>1, FS_Interval
  <2>3. QED
    BY <2>2 DEF Keyed
<1>2. ASSUME NEW i \in 1..n PROVE L!Place(rs, i) = Cardinality(Ahead(rs, i))
  BY CardinalityOfLatency DEF L!Place, Ahead
<1>3. ASSUME NEW i \in 1..n PROVE IsFiniteSet(Ahead(rs, i)) /\ L!Place(rs, i) \in 1..n /\ i \in Ahead(rs, i)
  <2>1. Ahead(rs, i) \in SUBSET (1..n) /\ i \in Ahead(rs, i)
    BY <1>1 DEF Ahead
  <2>2. IsFiniteSet(Ahead(rs, i)) /\ Cardinality(Ahead(rs, i)) <= n
    BY <1>1, <2>1, FS_Subset
  <2>3. Cardinality(Ahead(rs, i)) \in Nat /\ Cardinality(Ahead(rs, i)) # 0
    BY <2>1, <2>2, FS_CardinalityType, FS_EmptySet
  <2>4. QED
    BY <1>2, <2>1, <2>2, <2>3
<1>4. ASSUME NEW i \in 1..n, NEW k \in 1..n, i # k, i \in Ahead(rs, k) PROVE L!Place(rs, i) < L!Place(rs, k)
  <2>1. rs[i].cells[1] \in Nat /\ rs[k].cells[1] \in Nat
    BY DEF Keyed
  <2>2. k \notin Ahead(rs, i)
    BY <1>1, <1>4, <2>1 DEF Ahead
  <2>3. Ahead(rs, i) \in SUBSET Ahead(rs, k)
    <3>1. SUFFICES ASSUME NEW j \in Ahead(rs, i) PROVE j \in Ahead(rs, k)
      OBVIOUS
    <3>2. j \in 1..n /\ rs[j].cells[1] \in Nat
      BY <1>1, <3>1 DEF Ahead, Keyed
    <3>3. QED
      BY <1>1, <1>4, <2>1, <3>1, <3>2 DEF Ahead
  <2>4. Ahead(rs, i) # Ahead(rs, k) /\ IsFiniteSet(Ahead(rs, k))
    BY <1>3, <2>2
  <2>5. /\ Cardinality(Ahead(rs, i)) <= Cardinality(Ahead(rs, k))
        /\ Cardinality(Ahead(rs, i)) # Cardinality(Ahead(rs, k))
    BY <2>3, <2>4, FS_Subset
  <2>6. L!Place(rs, i) \in Nat /\ L!Place(rs, k) \in Nat
    BY <1>3
  <2>7. QED
    BY <1>2, <2>5, <2>6
<1>5. \A i, k \in 1..n : L!Place(rs, i) = L!Place(rs, k) => i = k
  <2>1. SUFFICES ASSUME NEW i \in 1..n, NEW k \in 1..n, L!Place(rs, i) = L!Place(rs, k), i # k PROVE FALSE
    OBVIOUS
  <2>2. i \in Ahead(rs, k) \/ k \in Ahead(rs, i)
    <3>1. rs[i].cells[1] \in Nat /\ rs[k].cells[1] \in Nat /\ i \in Nat /\ k \in Nat
      BY DEF Keyed
    <3>2. QED
      BY <1>1, <3>1 DEF Ahead
  <2>3. L!Place(rs, i) \in Nat /\ L!Place(rs, k) \in Nat
    BY <1>3
  <2>4. L!Place(rs, i) < L!Place(rs, k) \/ L!Place(rs, k) < L!Place(rs, i)
    BY <1>4, <2>1, <2>2
  <2>5. QED
    BY <2>1, <2>3, <2>4
<1>6. f \in [1..n -> 1..n] /\ \A i \in 1..n : f[i] = L!Place(rs, i)
  BY <1>3
<1> HIDE DEF f
<1>7. f \in Surjection(1..n, 1..n)
  <2>1. f \in Injection(1..n, 1..n)
    BY <1>5, <1>6 DEF Injection, IsInjective
  <2>2. QED
    BY <1>1, <2>1, FS_Injection
<1>8. \A k \in 1..n : \E i \in 1..n : f[i] = k
  BY <1>7 DEF Surjection
<1>9. Orders(f, n)
  BY <1>5, <1>6, <1>8 DEF Orders
<1>10. QED
  BY <1>2, <1>3, <1>9 DEF f

LEMMA SortedIs ==
  ASSUME NEW n \in Nat, NEW rs, Keyed(rs, n), rs # <<>>, L!IsTimed(rs[1])
  PROVE  /\ DOMAIN L!SortedRows(rs) = 1..n
         /\ \E pi : /\ Orders(pi, n)
                    /\ \A q \in 1..n : L!SortedRows(rs)[q] = rs[pi[q]] /\ L!Place(rs, pi[q]) = q
<1> DEFINE f == [i \in 1..n |-> L!Place(rs, i)]
           pi == [q \in 1..n |-> CHOOSE i \in 1..n : L!Place(rs, i) = q]
<1>1. DOMAIN rs = 1..n
  BY DEF Keyed
<1>2. L!SortedRows(rs) = [q \in 1..n |-> rs[CHOOSE i \in 1..n : L!Place(rs, i) = q]]
  BY <1>1 DEF L!SortedRows
<1>3. Orders(f, n) /\ \A i \in 1..n : f[i] = L!Place(rs, i)
  BY PlaceOfEach
<1> HIDE DEF f
<1>4. ASSUME NEW q \in 1..n PROVE pi[q] \in 1..n /\ L!Place(rs, pi[q]) = q
  <2>1. \E i \in 1..n : L!Place(rs, i) = q
    BY <1>3 DEF Orders
  <2>2. QED
    BY <2>1
<1>5. pi \in [1..n -> 1..n] /\ \A q \in 1..n : L!SortedRows(rs)[q] = rs[pi[q]] /\ L!Place(rs, pi[q]) = q
  BY <1>2, <1>4
<1>6. DOMAIN L!SortedRows(rs) = 1..n
  BY <1>2
<1> HIDE DEF pi
<1>7. \A i, k \in 1..n : pi[i] = pi[k] => i = k
  BY <1>5
<1>8. ASSUME NEW k \in 1..n PROVE \E q \in 1..n : pi[q] = k
  <2>1. f[k] \in 1..n
    BY <1>3 DEF Orders
  <2>2. pi[f[k]] \in 1..n /\ f[pi[f[k]]] = f[k]
    BY <1>3, <1>5, <2>1
  <2>3. pi[f[k]] = k
    BY <1>3, <2>2 DEF Orders
  <2>4. QED
    BY <2>1, <2>3
<1>9. Orders(pi, n)
  BY <1>5, <1>7, <1>8 DEF Orders
<1>10. QED
  BY <1>5, <1>6, <1>9

(* The order of the values does not matter to what is counted. *)
LEMMA OrderCounts ==
  ASSUME NEW n \in Nat, NEW pi, Orders(pi, n), NEW f, Numbers(f), DOMAIN f = 1..n, NEW g, DOMAIN g = 1..n,
         \A q \in 1..n : g[q] = f[pi[q]], NEW v
  PROVE  Numbers(g) /\ L!UpTo(g, v) = L!UpTo(f, v) /\ L!Size(g) = L!Size(f)
<1>1. Numbers(g)
  BY DEF Numbers, Orders
<1> DEFINE h == [q \in NoMore(g, v) |-> pi[q]]
<1>2. h \in [NoMore(g, v) -> NoMore(f, v)]
  BY DEF NoMore, Orders
<1>3. \A a, b \in NoMore(g, v) : h[a] = h[b] => a = b
  BY DEF NoMore, Orders
<1>4. ASSUME NEW k \in NoMore(f, v) PROVE \E q \in NoMore(g, v) : h[q] = k
  <2>1. k \in 1..n /\ f[k] <= v
    BY DEF NoMore
  <2>2. PICK q \in 1..n : pi[q] = k
    BY <2>1 DEF Orders
  <2>3. q \in NoMore(g, v)
    BY <2>1, <2>2 DEF NoMore
  <2>4. QED
    BY <2>2, <2>3
<1> HIDE DEF h
<1>5. h \in Surjection(NoMore(g, v), NoMore(f, v)) /\ h \in Injection(NoMore(g, v), NoMore(f, v))
  BY <1>2, <1>3, <1>4 DEF Surjection, Injection, IsInjective
<1>6. Cardinality(NoMore(f, v)) = Cardinality(NoMore(g, v))
  BY <1>1, <1>5, CountedValues, FS_Surjection
<1>7. QED
  BY <1>1, <1>6, CountedValues

(* Two neighbours that were meant to start at different times can change     *)
(* places in the file.                                                       *)
LEMMA NeighboursSort ==
  ASSUME NEW n \in Nat, NEW rs, Keyed(rs, n), rs # <<>>, L!IsTimed(rs[1]), NEW i \in 1..(n - 1),
         rs[i].cells[1] # rs[i + 1].cells[1],
         NEW other, Keyed(other, n), other # <<>>, L!IsTimed(other[1]),
         other[i] = rs[i + 1], other[i + 1] = rs[i], \A k \in 1..n : k # i /\ k # i + 1 => other[k] = rs[k]
  PROVE  L!SortedRows(other) = L!SortedRows(rs)
<1> DEFINE turn == [k \in 1..n |-> IF k = i THEN i + 1 ELSE IF k = i + 1 THEN i ELSE k]
<1>1. turn \in [1..n -> 1..n] /\ \A k \in 1..n : turn[turn[k]] = k
  OBVIOUS
<1>2. \A k \in 1..n : other[k] = rs[turn[k]] /\ rs[k] = other[turn[k]]
  OBVIOUS
<1>3. \A j, k \in 1..n : rs[turn[j]].cells[1] = rs[turn[k]].cells[1] => (j <= k <=> turn[j] <= turn[k])
  <2>1. SUFFICES ASSUME NEW j \in 1..n, NEW k \in 1..n, rs[turn[j]].cells[1] = rs[turn[k]].cells[1],
                        ~ (j <= k <=> turn[j] <= turn[k])
                 PROVE  FALSE
    OBVIOUS
  <2>2. (j = i /\ k = i + 1) \/ (j = i + 1 /\ k = i)
    BY <2>1
  <2>3. QED
    BY <2>1, <2>2
<1> HIDE DEF turn
<1>4. ASSUME NEW j \in 1..n PROVE L!Place(other, j) = L!Place(rs, turn[j])
  <2> DEFINE h == [k \in Ahead(other, j) |-> turn[k]]
  <2>1. DOMAIN rs = 1..n /\ DOMAIN other = 1..n
    BY DEF Keyed
  <2>2. ASSUME NEW k \in 1..n PROVE k \in Ahead(other, j) <=> turn[k] \in Ahead(rs, turn[j])
    <3>1. other[k] = rs[turn[k]] /\ other[j] = rs[turn[j]] /\ turn[k] \in 1..n
      BY <1>1, <1>2
    <3>2. rs[turn[k]].cells[1] = rs[turn[j]].cells[1] => (k <= j <=> turn[k] <= turn[j])
      BY <1>3
    <3>3. QED
      BY <2>1, <3>1, <3>2 DEF Ahead
  <2>3. Ahead(other, j) \subseteq 1..n /\ Ahead(rs, turn[j]) \subseteq 1..n
    BY <2>1 DEF Ahead
  <2>4. h \in [Ahead(other, j) -> Ahead(rs, turn[j])]
    BY <2>2, <2>3
  <2>5. \A a, b \in Ahead(other, j) : h[a] = h[b] => a = b
    BY <1>1, <2>3
  <2>6. ASSUME NEW k \in Ahead(rs, turn[j]) PROVE \E a \in Ahead(other, j) : h[a] = k
    <3>1. k \in 1..n /\ turn[k] \in 1..n /\ turn[turn[k]] = k
      BY <1>1, <2>3
    <3>2. turn[k] \in Ahead(other, j)
      BY <2>2, <3>1
    <3>3. QED
      BY <3>1, <3>2
  <2> HIDE DEF h
  <2>7. h \in Surjection(Ahead(other, j), Ahead(rs, turn[j])) /\ h \in Injection(Ahead(other, j), Ahead(rs, turn[j]))
    BY <2>4, <2>5, <2>6 DEF Surjection, Injection, IsInjective
  <2>8. IsFiniteSet(Ahead(other, j)) /\ L!Place(other, j) = Cardinality(Ahead(other, j))
    BY PlaceOfEach
  <2>9. L!Place(rs, turn[j]) = Cardinality(Ahead(rs, turn[j]))
    <3>1. turn[j] \in 1..n
      BY <1>1
    <3>2. QED
      BY <3>1, PlaceOfEach
  <2>10. QED
    BY <2>7, <2>8, <2>9, FS_Surjection
<1>5. ASSUME NEW q \in 1..n PROVE L!SortedRows(other)[q] = L!SortedRows(rs)[q]
  <2>1. PICK pi : Orders(pi, n) /\ \A k \in 1..n : L!SortedRows(rs)[k] = rs[pi[k]] /\ L!Place(rs, pi[k]) = k
    BY SortedIs
  <2>2. PICK nu : Orders(nu, n) /\ \A k \in 1..n : L!SortedRows(other)[k] = other[nu[k]] /\ L!Place(other, nu[k]) = k
    BY SortedIs
  <2>3. pi[q] \in 1..n /\ nu[q] \in 1..n
    BY <2>1, <2>2 DEF Orders
  <2>4. turn[nu[q]] \in 1..n /\ other[nu[q]] = rs[turn[nu[q]]]
    BY <1>1, <1>2, <2>3
  <2>5. L!Place(rs, turn[nu[q]]) = q /\ L!Place(rs, pi[q]) = q
    BY <1>4, <2>1, <2>2, <2>3
  <2>6. \A a, b \in 1..n : L!Place(rs, a) = L!Place(rs, b) => a = b
    <3> DEFINE f == [k \in 1..n |-> L!Place(rs, k)]
    <3>1. Orders(f, n) /\ \A k \in 1..n : f[k] = L!Place(rs, k)
      BY PlaceOfEach
    <3> HIDE DEF f
    <3>2. QED
      BY <3>1 DEF Orders
  <2>7. turn[nu[q]] = pi[q]
    BY <2>3, <2>4, <2>5, <2>6
  <2>8. QED
    BY <2>1, <2>2, <2>4, <2>7
<1>6. DOMAIN L!SortedRows(rs) = 1..n /\ DOMAIN L!SortedRows(other) = 1..n
  BY SortedIs
<1>7. QED
  <2>1. L!SortedRows(rs) = [q \in 1..n |-> L!SortedRows(rs)[q]]
    <3>1. L!SortedRows(rs) = [q \in DOMAIN rs |-> rs[CHOOSE k \in DOMAIN rs : L!Place(rs, k) = q]]
      BY DEF L!SortedRows
    <3>2. QED
      BY <1>6, <3>1
  <2>2. L!SortedRows(other) = [q \in 1..n |-> L!SortedRows(other)[q]]
    <3>1. L!SortedRows(other) = [q \in DOMAIN other |-> other[CHOOSE k \in DOMAIN other : L!Place(other, k) = q]]
      BY DEF L!SortedRows
    <3>2. QED
      BY <1>6, <3>1
  <2>3. QED
    BY <1>5, <2>1, <2>2

(* load: the rows of a report have all their times, in order, or one each.   *)
TimedRow(r) ==
  /\ L!IsTimed(r) /\ Len(r.cells) = 3
  /\ r.cells[1] \in Nat /\ r.cells[2] \in Nat /\ r.cells[3] \in Nat
  /\ r.cells[1] <= r.cells[2] /\ r.cells[2] <= r.cells[3]
SingleRow(r) == ~ L!IsTimed(r) /\ Len(r.cells) = 1 /\ r.cells[1] \in Nat /\ r.label = L!NoLabel

LatencyInv == header \in L!Headers /\ csv \in Seq(L!AllRows)

LEMMA LatencyInit == L!Init => LatencyInv
  BY DEF L!Init, LatencyInv

LEMMA LatencyStep == LatencyInv /\ [L!Next]_L!vars => LatencyInv'
<1>1. SUFFICES ASSUME LatencyInv, [L!Next]_L!vars PROVE LatencyInv'
  OBVIOUS
<1>2. CASE UNCHANGED L!vars
  BY <1>1, <1>2 DEF L!vars, LatencyInv
<1>3. CASE L!Next
  <2>1. PICK r \in L!AllRows : csv' = Append(csv, r)
    BY <1>3 DEF L!Next, L!Write
  <2>2. header' = header
    BY <1>3 DEF L!Next, L!Write
  <2>3. csv' \in Seq(L!AllRows)
    <3> HIDE DEF L!AllRows
    <3>1. QED
      BY <1>1, <2>1 DEF LatencyInv
  <2>4. QED
    BY <1>1, <2>2, <2>3 DEF LatencyInv
<1>4. QED
  BY <1>1, <1>2, <1>3

LEMMA ThreeTimes ==
  ASSUME NEW all, all \subseteq Nat, NEW c \in [1..3 -> all]
  PROVE  Len(c) = 3 /\ c[1] \in Nat /\ c[2] \in Nat /\ c[3] \in Nat
<1>1. ASSUME NEW n \in Nat, NEW d \in [1..n -> all] PROVE Len(d) = n
  OBVIOUS
<1>2. Len(c) = 3
  BY <1>1
<1>3. \A i \in 1..3 : c[i] \in Nat
  OBVIOUS
<1>4. 1 \in 1..3 /\ 2 \in 1..3 /\ 3 \in 1..3
  OBVIOUS
<1>5. QED
  BY <1>2, <1>3, <1>4

LEMMA RowIs ==
  ASSUME NEW r \in L!AllRows, ~ L!IsRefused(r)
  PROVE  TimedRow(r) \/ SingleRow(r)
<1>1. L!Times \subseteq Nat
  BY PercentileAssumption DEF L!Times
<1>2. Len(r.cells) \in {1, 3}
  BY DEF L!IsRefused
<1>3. CASE r.cells \in [1..3 -> L!Times]
  <2>1. Len(r.cells) = 3
    BY <1>1, <1>3, ThreeTimes
  <2>2. r.cells[1] \in Nat /\ r.cells[2] \in Nat /\ r.cells[3] \in Nat
    BY <1>1, <1>3, ThreeTimes
  <2>3. L!Ordered(r.cells)
    BY <2>1 DEF L!IsRefused
  <2>4. QED
    BY <2>1, <2>2, <2>3 DEF TimedRow, L!IsTimed, L!Ordered
<1>4. CASE r.cells \notin [1..3 -> L!Times]
  <2>1. r.label = L!NoLabel /\ r.cells \in L!Cells
    BY <1>4 DEF L!AllRows
  <2>2. (\E x \in {-1} \cup L!Times : r.cells = <<x>>) \/ r.cells = <<>> \/ r.cells = <<0, 0>>
    BY <1>4, <2>1 DEF L!Cells
  <2>3. PICK x \in {-1} \cup L!Times : r.cells = <<x>>
    <3>1. Len(<<>>) = 0 /\ Len(<<0, 0>>) = 2
      OBVIOUS
    <3>2. QED
      BY <1>2, <2>2, <3>1
  <2>4. Len(r.cells) = 1 /\ r.cells[1] = x /\ x \in Int
    BY <1>1, <2>3
  <2>5. r.cells[1] \in Nat
    <3>1. ~ (r.cells[1] < 0)
      BY <2>4 DEF L!IsRefused
    <3>2. QED
      BY <2>4, <3>1
  <2>6. QED
    BY <2>1, <2>4, <2>5 DEF SingleRow, L!IsTimed
<1>5. QED
  BY <1>3, <1>4

RowsTimed(rs, m) == \A i \in 1..m : TimedRow(rs[i])
RowsSingle(rs, m) == \A i \in 1..m : SingleRow(rs[i])
RowsLabelled(rs, m) == \A i \in 1..m : rs[i].label # L!NoLabel
RowsPlain(rs, m) == \A i \in 1..m : rs[i].label = L!NoLabel

LEMMA ReportedRows ==
  ASSUME LatencyInv, L!Reported
  PROVE  \E m \in Nat \ {0} :
           /\ DOMAIN csv = 1..m /\ Len(csv) = m /\ csv # <<>>
           /\ RowsTimed(csv, m) \/ RowsSingle(csv, m)
           /\ RowsLabelled(csv, m) \/ RowsPlain(csv, m)
<1>1. L!Loads /\ csv # <<>>
  <2>1. ~ L!Loads => L!Outcome = "1"
    BY DEF L!Outcome
  <2>2. L!Loads /\ csv = <<>> => L!Outcome = "4"
    BY DEF L!Outcome
  <2>3. L!Outcome \in {"0", "5"}
    BY DEF L!Reported
  <2>4. QED
    BY <2>1, <2>2, <2>3
<1>2. PICK m \in Nat : Len(csv) = m
  BY DEF LatencyInv
<1>3. csv \in Seq(L!AllRows)
  BY DEF LatencyInv
<1>4. DOMAIN csv = 1..m /\ m # 0 /\ \A i \in 1..m : csv[i] \in L!AllRows
  <2> HIDE DEF L!AllRows
  <2>1. QED
    BY <1>1, <1>2, <1>3
<1>5. \A i \in 1..m : TimedRow(csv[i]) \/ SingleRow(csv[i])
  <2>1. SUFFICES ASSUME NEW i \in 1..m PROVE TimedRow(csv[i]) \/ SingleRow(csv[i])
    OBVIOUS
  <2>2. csv[i] \in L!AllRows /\ ~ L!IsRefused(csv[i])
    BY <1>1, <1>4 DEF L!Loads
  <2>3. QED
    BY <2>2, RowIs
<1>6. RowsTimed(csv, m) \/ RowsSingle(csv, m)
  <2>1. \A i, k \in 1..m : L!IsTimed(csv[i]) => L!IsTimed(csv[k])
    BY <1>1, <1>4 DEF L!Loads, L!IsMixed
  <2>2. \A i \in 1..m : L!IsTimed(csv[i]) <=> ~ SingleRow(csv[i])
    BY <1>5 DEF TimedRow, SingleRow
  <2>3. QED
    BY <1>5, <2>1, <2>2 DEF RowsTimed, RowsSingle, TimedRow
<1>7. RowsLabelled(csv, m) \/ RowsPlain(csv, m)
  <2>1. CASE RowsSingle(csv, m)
    BY <2>1 DEF RowsSingle, SingleRow, RowsPlain
  <2>2. CASE RowsTimed(csv, m)
    <3>1. \A i \in 1..m : L!IsTimed(csv[i])
      BY <2>2 DEF RowsTimed, TimedRow
    <3>2. \A i, k \in 1..m : ~ (csv[i].label = L!NoLabel /\ csv[k].label # L!NoLabel)
      BY <1>1, <1>4, <3>1 DEF L!Loads, L!IsMixed
    <3>3. QED
      BY <3>2 DEF RowsLabelled, RowsPlain
  <2>3. QED
    BY <1>6, <2>1, <2>2
<1>8. QED
  BY <1>1, <1>2, <1>4, <1>6, <1>7

(* The rows of a report, in the order of the report. *)
Arranged(rs, m, pi) ==
  /\ Orders(pi, m) /\ DOMAIN L!SortedRows(rs) = 1..m
  /\ \A q \in 1..m : L!SortedRows(rs)[q] = rs[pi[q]]

LEMMA RowsArranged ==
  ASSUME NEW m \in Nat \ {0}, NEW rs, DOMAIN rs = 1..m, rs # <<>>, RowsTimed(rs, m) \/ RowsSingle(rs, m)
  PROVE  \E pi : Arranged(rs, m, pi)
<1>1. CASE RowsTimed(rs, m)
  <2>1. Keyed(rs, m) /\ L!IsTimed(rs[1]) /\ m \in Nat
    BY <1>1 DEF Keyed, RowsTimed, TimedRow
  <2>2. QED
    BY <2>1, SortedIs DEF Arranged
<1>2. CASE RowsSingle(rs, m)
  <2>1. ~ L!IsTimed(rs[1])
    BY <1>2 DEF RowsSingle, SingleRow
  <2>2. L!SortedRows(rs) = rs
    BY <2>1 DEF L!SortedRows
  <2>3. Arranged(rs, m, [q \in 1..m |-> q])
    BY <2>2 DEF Arranged, Orders
  <2>4. QED
    BY <2>3
<1>3. QED
  BY <1>1, <1>2

LEMMA ResponseIs ==
  ASSUME NEW r, TimedRow(r) \/ SingleRow(r)
  PROVE  L!Response(r) \in Nat /\ (TimedRow(r) => L!Response(r) = r.cells[3] - r.cells[1])
<1>1. CASE TimedRow(r)
  BY <1>1 DEF TimedRow, L!Response
<1>2. CASE SingleRow(r)
  <2>1. L!Response(r) = r.cells[1] - 0
    BY <1>2 DEF SingleRow, L!Response
  <2>2. QED
    BY <1>2, <2>1 DEF SingleRow, TimedRow
<1>3. QED
  BY <1>1, <1>2

(* The values of the report are those of the rows in another order.          *)
LEMMA ValuesArranged ==
  ASSUME NEW m \in Nat \ {0}, NEW rs, DOMAIN rs = 1..m, RowsTimed(rs, m) \/ RowsSingle(rs, m),
         NEW pi, Arranged(rs, m, pi)
  PROVE  LET f == L!Responses(rs)
             g == L!Responses(L!SortedRows(rs))
         IN  /\ Numbers(f) /\ Numbers(g) /\ DOMAIN f = 1..m /\ DOMAIN g = 1..m
             /\ \A v : L!UpTo(g, v) = L!UpTo(f, v)
             /\ L!Size(g) = m /\ L!Size(f) = m
<1> DEFINE s == L!SortedRows(rs)
           f == L!Responses(rs)
           g == L!Responses(s)
<1>1. DOMAIN f = 1..m /\ DOMAIN g = 1..m
  BY DEF L!Responses, Arranged
<1>2. \A i \in 1..m : f[i] = L!Response(rs[i]) /\ g[i] = L!Response(rs[pi[i]])
  BY <1>1 DEF L!Responses, Arranged
<1>3. \A i \in 1..m : f[i] \in Nat
  BY <1>2, ResponseIs DEF RowsTimed, RowsSingle
<1>4. IsFiniteSet(1..m) /\ Cardinality(1..m) = m /\ 1 \in 1..m
  <2>1. 1 \in Int /\ m \in Int
    OBVIOUS
  <2>2. IsFiniteSet(1..m) /\ Cardinality(1..m) = IF 1 > m THEN 0 ELSE m - 1 + 1
    BY <2>1, FS_Interval
  <2>3. QED
    BY <2>2
<1> HIDE DEF f, g
<1>5. Numbers(f)
  BY <1>1, <1>3, <1>4 DEF Numbers
<1>6. \A q \in 1..m : g[q] = f[pi[q]]
  BY <1>2 DEF Arranged, Orders
<1>7. ASSUME NEW v PROVE Numbers(g) /\ L!UpTo(g, v) = L!UpTo(f, v) /\ L!Size(g) = L!Size(f)
  <2>1. Orders(pi, m) /\ m \in Nat
    BY DEF Arranged
  <2>2. QED
    BY <1>1, <1>5, <1>6, <2>1, OrderCounts
<1>8. L!Size(f) = m
  BY <1>1, <1>4, <1>5, CountedValues
<1>9. QED
  BY <1>1, <1>5, <1>7, <1>8 DEF f, g

(* analyse, by the rows in the order of the report. *)
TableOf(s, timed, n) ==
  [response |-> L!Dist(L!Responses(s)),
   service |-> IF timed THEN L!Dist(L!Services(s)) ELSE L!Dist(<<0>>),
   queue |-> IF timed THEN L!Dist(L!QueueDelays(s)) ELSE L!Dist(<<0>>),
   groups |-> [l \in L!GroupsOf(s) |-> L!Dist(L!Group(s, l))],
   blocks |-> L!Blocks(L!Responses(s), n, BlockPct)]

LEMMA AnalyseIs ==
  ASSUME NEW rs, NEW n
  PROVE  L!Analyse(rs, n) = TableOf(L!SortedRows(rs), L!IsTimed(rs[1]), n)
  BY DEF L!Analyse, TableOf

LEMMA DistIs ==
  ASSUME NEW f
  PROVE  /\ L!Dist(f).max = L!Max(L!Range(f))
         /\ \A p \in Pcts : L!Dist(f).at[p] = L!Percentile(f, p)
  BY DEF L!Dist

LEMMA PartOfWhole == ASSUME NEW p \in Pcts PROVE p \in 1..Whole /\ p \in Nat /\ Whole \in Nat
  BY PercentileAssumption

(* A percentile is the least value that enough of the operations do not      *)
(* exceed, in whatever order they are written.                               *)
LEMMA PercentileTold ==
  ASSUME NEW m \in Nat \ {0}, NEW f, Numbers(f), NEW g, Numbers(g), L!Size(f) = m, L!Size(g) = m,
         \A v : L!UpTo(g, v) = L!UpTo(f, v), NEW p \in Pcts
  PROVE  /\ Whole * L!UpTo(f, L!Percentile(g, p)) >= p * m
         /\ \A v \in L!Range(f) : v < L!Percentile(g, p) => Whole * L!UpTo(f, v) < p * m
<1> DEFINE all == L!Percentile(g, p)
<1>1. all \in Nat /\ \A v \in Nat : Enough(g, v, p) <=> all <= v
  BY PercentileIs, PartOfWhole
<1> HIDE DEF all
<1>2. Enough(g, all, p)
  BY <1>1
<1>3. ASSUME NEW v \in L!Range(f), v < all PROVE Whole * L!UpTo(f, v) < p * m
  <2>1. v \in Nat
    BY DEF L!Range, Numbers
  <2>2. ~ Enough(g, v, p)
    BY <1>1, <1>3, <2>1
  <2>3. ~ (Whole * L!UpTo(f, v) >= p * m)
    BY <2>2 DEF Enough
  <2>4. L!UpTo(f, v) \in Nat
    BY CountedValues
  <2>5. Whole * L!UpTo(f, v) \in Nat /\ p * m \in Nat
    BY <2>4, PartOfWhole
  <2>6. QED
    BY <2>3, <2>5
<1>4. Whole * L!UpTo(f, all) >= p * m
  BY <1>2 DEF Enough
<1>5. QED
  BY <1>3, <1>4 DEF all

(* The rows of a report have finitely many places. *)
LEMMA RowsAreFinite ==
  ASSUME NEW m \in Nat \ {0}
  PROVE  IsFiniteSet(1..m) /\ 1 \in 1..m
<1>1. 1 \in Int /\ m \in Int
  OBVIOUS
<1>2. IsFiniteSet(1..m)
  BY <1>1, FS_Interval
<1>3. QED
  BY <1>2

LEMMA GreatestValue ==
  ASSUME NEW f, Numbers(f)
  PROVE  L!Max(L!Range(f)) \in Nat /\ \A i \in DOMAIN f : f[i] <= L!Max(L!Range(f))
<1>1. L!Range(f) = {f[i] : i \in DOMAIN f}
  BY DEF L!Range
<1>2. IsFiniteSet({f[i] : i \in DOMAIN f})
  BY FamilyIsFinite DEF Numbers
<1>3. L!Range(f) \subseteq Nat /\ L!Range(f) # {} /\ IsFiniteSet(L!Range(f))
  BY <1>1, <1>2 DEF Numbers
<1>4. L!Max(L!Range(f)) \in L!Range(f) /\ \A y \in L!Range(f) : y <= L!Max(L!Range(f))
  BY <1>3, ExtremesOf
<1>5. QED
  BY <1>1, <1>3, <1>4

(* A response is the wait for its turn and the service, so its percentile    *)
(* lies between that of the service and the worst of both.                   *)
LEMMA ServiceBounds ==
  ASSUME NEW m \in Nat \ {0}, NEW s, DOMAIN s = 1..m, RowsTimed(s, m), NEW p \in Pcts
  PROVE  L!Within(L!Percentile(L!Responses(s), p),
                  {L!Percentile(L!Services(s), p),
                   L!Max(L!Range(L!Services(s))) + L!Max(L!Range(L!QueueDelays(s)))})
<1> DEFINE f == L!Responses(s)
           g == L!Services(s)
           h == L!QueueDelays(s)
           all == L!Percentile(f, p)
           least == L!Percentile(g, p)
           most == L!Max(L!Range(g)) + L!Max(L!Range(h))
<1>1. DOMAIN f = 1..m /\ DOMAIN g = 1..m /\ DOMAIN h = 1..m
  BY DEF L!Responses, L!Services, L!QueueDelays
<1>2. ASSUME NEW i \in 1..m PROVE /\ f[i] \in Nat /\ g[i] \in Nat /\ h[i] \in Nat
                                  /\ f[i] = g[i] + h[i]
  <2>1. TimedRow(s[i])
    BY DEF RowsTimed
  <2>2. f[i] = s[i].cells[3] - s[i].cells[1]
    BY <2>1, ResponseIs DEF L!Responses
  <2>3. g[i] = s[i].cells[3] - s[i].cells[2] /\ h[i] = s[i].cells[2] - s[i].cells[1]
    BY DEF L!Services, L!QueueDelays
  <2> HIDE DEF f, g, h
  <2>4. QED
    BY <2>1, <2>2, <2>3 DEF TimedRow
<1> HIDE DEF f, g, h
<1>3. Numbers(f) /\ Numbers(g) /\ Numbers(h)
  BY <1>1, <1>2, RowsAreFinite DEF Numbers
<1>4. least <= all
  <2>1. \A i \in 1..m : g[i] <= f[i]
    <3>1. SUFFICES ASSUME NEW i \in 1..m PROVE g[i] <= f[i]
      OBVIOUS
    <3>2. f[i] = g[i] + h[i] /\ g[i] \in Nat /\ h[i] \in Nat
      BY <1>2
    <3>3. QED
      BY <3>2
  <2>2. QED
    BY <1>1, <1>3, <2>1, LesserPercentile, PartOfWhole
<1>5. least \in Nat /\ all \in Nat /\ \E i \in 1..m : all = f[i]
  BY <1>1, <1>3, PercentileIs, PartOfWhole
<1>6. most \in Nat /\ all <= most
  <2>1. PICK i \in 1..m : all = f[i]
    BY <1>5
  <2>2. L!Max(L!Range(g)) \in Nat /\ g[i] <= L!Max(L!Range(g))
    BY <1>1, <1>3, GreatestValue
  <2>3. L!Max(L!Range(h)) \in Nat /\ h[i] <= L!Max(L!Range(h))
    BY <1>1, <1>3, GreatestValue
  <2>4. f[i] = g[i] + h[i] /\ g[i] \in Nat /\ h[i] \in Nat
    BY <1>2
  <2> HIDE DEF all
  <2>5. QED
    BY <2>1, <2>2, <2>3, <2>4
<1> HIDE DEF all, least, most
<1>7. L!Within(all, {least, most})
  <2>1. {least, most} \subseteq Nat /\ {least, most} # {} /\ IsFiniteSet({least, most})
    <3>1. IsFiniteSet({least}) /\ IsFiniteSet({most})
      BY FS_Singleton
    <3>2. {least, most} = {least} \cup {most}
      OBVIOUS
    <3>3. IsFiniteSet({least} \cup {most})
      BY <3>1, FS_Union
    <3>4. QED
      BY <1>5, <1>6, <3>2, <3>3
  <2>2. /\ L!Min({least, most}) \in Nat /\ L!Min({least, most}) <= least
        /\ L!Max({least, most}) \in Nat /\ most <= L!Max({least, most})
    BY <2>1, ExtremesOf
  <2> DEFINE low == L!Min({least, most})
             top == L!Max({least, most})
  <2>3. low \in Nat /\ low <= least /\ top \in Nat /\ most <= top
    BY <2>2
  <2> HIDE DEF low, top
  <2>4. low <= all /\ all <= top
    BY <1>4, <1>5, <1>6, <2>3
  <2>5. QED
    BY <2>4 DEF L!Within, low, top
<1>8. QED
  BY <1>7 DEF all, least, most, f, g, h

(* Every operation is in one group.                                          *)
LEMMA GroupsEnclose ==
  ASSUME NEW m \in Nat \ {0}, NEW s, DOMAIN s = 1..m, RowsLabelled(s, m), Numbers(L!Responses(s)),
         NEW p \in Pcts
  PROVE  L!Within(L!Percentile(L!Responses(s), p),
                  {L!Percentile(L!Group(s, l), p) : l \in L!GroupsOf(s)})
<1> DEFINE f == L!Responses(s)
           keys == L!GroupsOf(s)
           g == [l \in keys |-> L!Group(s, l)]
           named == {s[i].label : i \in 1..m}
<1>1. keys = named
  <2>1. keys = {r.label : r \in {s[i] : i \in 1..m}} \ {L!NoLabel}
    BY DEF L!GroupsOf, L!Range
  <2>2. QED
    BY <2>1 DEF RowsLabelled
<1>2. IsFiniteSet(keys) /\ keys # {}
  <2> DEFINE h == [i \in 1..m |-> s[i].label]
  <2>1. {h[i] : i \in 1..m} = named
    OBVIOUS
  <2>2. IsFiniteSet({h[i] : i \in 1..m})
    <3> HIDE DEF h
    <3>1. QED
      BY RowsAreFinite, FamilyIsFinite
  <2>3. 1 \in 1..m
    BY RowsAreFinite
  <2>4. named # {}
    BY <2>3
  <2> HIDE DEF keys, h, named
  <2>5. QED
    BY <1>1, <2>1, <2>2, <2>4
<1>3. ASSUME NEW l \in keys
      PROVE  /\ DOMAIN g[l] = {i \in 1..m : s[i].label = l}
             /\ \A i \in DOMAIN g[l] : g[l][i] = f[i]
  <2>1. g[l] = [i \in {k \in 1..m : s[k].label = l} |-> L!Response(s[i])]
    BY DEF L!Group
  <2>2. \A i \in 1..m : f[i] = L!Response(s[i])
    BY DEF L!Responses
  <2> HIDE DEF f, g
  <2>3. DOMAIN g[l] = {i \in 1..m : s[i].label = l}
    BY <2>1
  <2>4. \A i \in {k \in 1..m : s[k].label = l} : g[l][i] = L!Response(s[i])
    BY <2>1
  <2>5. QED
    BY <2>2, <2>3, <2>4
<1>4. DOMAIN f = 1..m
  BY DEF L!Responses
<1> HIDE DEF f, g
<1>5. PartsOf(g, f, keys)
  <2>1. \A l \in keys : DOMAIN g[l] # {}
    <3>1. SUFFICES ASSUME NEW l \in keys PROVE DOMAIN g[l] # {}
      OBVIOUS
    <3>2. \E i \in 1..m : s[i].label = l
      BY <1>1
    <3>3. QED
      BY <1>3, <3>2
  <2>2. \A i \in 1..m : \E l \in keys : i \in DOMAIN g[l]
    <3>1. SUFFICES ASSUME NEW i \in 1..m PROVE \E l \in keys : i \in DOMAIN g[l]
      OBVIOUS
    <3>2. s[i].label \in keys
      BY <1>1
    <3>3. QED
      BY <1>3, <3>2
  <2>3. \A l, k \in keys : l # k => DOMAIN g[l] \cap DOMAIN g[k] = {}
    BY <1>3
  <2>4. \A l \in keys : DOMAIN g[l] \subseteq 1..m
    BY <1>3
  <2> HIDE DEF keys, named
  <2>5. QED
    BY <1>2, <1>3, <1>4, <2>1, <2>2, <2>3, <2>4 DEF PartsOf
<1>6. Numbers(f)
  BY DEF f
<1> HIDE DEF keys, named
<1>7. L!Within(L!Percentile(f, p), {L!Percentile(g[l], p) : l \in keys})
  BY <1>5, <1>6, PartsEnclose, PartOfWhole
<1>8. {L!Percentile(g[l], p) : l \in keys} = {L!Percentile(L!Group(s, l), p) : l \in keys}
  <2>1. \A l \in keys : g[l] = L!Group(s, l)
    BY DEF g
  <2>2. QED
    BY <2>1
<1>9. QED
  BY <1>7, <1>8 DEF f, keys

(* Without a remainder every operation is in one block.                      *)
LEMMA BlocksEnclose ==
  ASSUME NEW m \in Nat \ {0}, NEW f, Numbers(f), DOMAIN f = 1..m, L!Size(f) = m, NEW n \in 1..2, m % n = 0,
         L!Blocks(f, n, BlockPct) # <<>>
  PROVE  L!Within(L!Percentile(f, BlockPct), L!Range(L!Blocks(f, n, BlockPct)))
<1> DEFINE keys == 1..n
           g == [b \in keys |-> L!Block(f, n, b)]
           w == m \div n
<1>1. w \in Nat \ {0} /\ m = w * n /\ n \in Nat \ {0}
  <2>1. n \in Nat \ {0} /\ m \in Nat
    OBVIOUS
  <2>2. w \in Nat /\ m = w * n + 0
    BY <2>1, Divided
  <2> HIDE DEF w
  <2>3. w # 0
    BY <2>1, <2>2
  <2>4. QED
    BY <2>1, <2>2, <2>3
<1>2. L!Blocks(f, n, BlockPct) = [b \in keys |-> L!Percentile(L!Block(f, n, b), BlockPct)]
  BY DEF L!Blocks
<1>3. ASSUME NEW b \in keys PROVE g[b] = [i \in ((b - 1) * w + 1)..(b * w) |-> f[i]]
  BY DEF L!Block
<1> HIDE DEF g, w
<1>4. ASSUME NEW b \in keys PROVE /\ DOMAIN g[b] = ((b - 1) * w + 1)..(b * w)
                                  /\ \A i \in DOMAIN g[b] : g[b][i] = f[i]
  <2> DEFINE x == ((b - 1) * w + 1)..(b * w)
  <2>1. g[b] = [i \in x |-> f[i]]
    BY <1>3
  <2> HIDE DEF x
  <2>2. DOMAIN g[b] = x /\ \A i \in x : g[b][i] = f[i]
    BY <2>1
  <2>3. QED
    BY <2>2 DEF x
<1>5. PartsOf(g, f, keys)
  <2>1. IsFiniteSet(keys) /\ keys # {}
    <3>1. 1 \in Int /\ n \in Int /\ 1 \in 1..n
      OBVIOUS
    <3>2. QED
      BY <3>1, FS_Interval
  <2>2. CASE n = 1
    <3>1. keys = {1} /\ m = w
      BY <1>1, <2>2
    <3>2. (1 - 1) * w + 1 = 1 /\ 1 * w = w
      BY <1>1
    <3>3. DOMAIN g[1] = 1..m /\ \A i \in 1..m : g[1][i] = f[i]
      BY <1>4, <3>1, <3>2
    <3>4. QED
      BY <2>1, <3>1, <3>3 DEF PartsOf
  <2>3. CASE n = 2
    <3>1. keys = {1, 2} /\ m = w + w
      BY <1>1, <2>3
    <3>2. (1 - 1) * w + 1 = 1 /\ 1 * w = w /\ (2 - 1) * w + 1 = w + 1 /\ 2 * w = w + w
      BY <1>1
    <3>3. DOMAIN g[1] = 1..w /\ DOMAIN g[2] = (w + 1)..m
      <4>1. 1 \in keys /\ 2 \in keys
        BY <3>1
      <4>2. DOMAIN g[1] = ((1 - 1) * w + 1)..(1 * w) /\ DOMAIN g[2] = ((2 - 1) * w + 1)..(2 * w)
        BY <1>4, <4>1
      <4>3. QED
        BY <3>1, <3>2, <4>2
    <3>4. /\ 1..w \subseteq 1..m /\ (w + 1)..m \subseteq 1..m /\ 1..w # {} /\ (w + 1)..m # {}
          /\ (1..w) \cap ((w + 1)..m) = {} /\ \A i \in 1..m : i \in 1..w \/ i \in (w + 1)..m
      <4>1. w \in Nat \ {0} /\ m \in Nat /\ m = w + w
        BY <1>1, <3>1
      <4>2. 1 \in 1..w /\ m \in (w + 1)..m
        BY <4>1
      <4>3. \A i \in 1..m : i \in 1..w \/ i \in (w + 1)..m
        BY <4>1
      <4>4. 1..w \subseteq 1..m /\ (w + 1)..m \subseteq 1..m
        BY <4>1
      <4>5. (1..w) \cap ((w + 1)..m) = {}
        BY <4>1
      <4>6. QED
        BY <4>2, <4>3, <4>4, <4>5
    <3> HIDE DEF keys
    <3>5. QED
      BY <1>4, <2>1, <3>1, <3>3, <3>4 DEF PartsOf
  <2>4. QED
    BY <2>2, <2>3
<1>6. BlockPct \in 1..Whole
  BY PercentileAssumption
<1>7. L!Within(L!Percentile(f, BlockPct), {L!Percentile(g[b], BlockPct) : b \in keys})
  <2> HIDE DEF keys
  <2>1. QED
    BY <1>5, <1>6, PartsEnclose
<1>8. L!Range(L!Blocks(f, n, BlockPct)) = {L!Percentile(g[b], BlockPct) : b \in keys}
  <2> DEFINE h == L!Blocks(f, n, BlockPct)
  <2>1. \A b \in keys : g[b] = L!Block(f, n, b)
    BY DEF g
  <2>2. DOMAIN h = keys /\ \A b \in keys : h[b] = L!Percentile(g[b], BlockPct)
    BY <1>2, <2>1
  <2> HIDE DEF h, keys
  <2>3. L!Range(h) = {h[b] : b \in keys}
    BY <2>2 DEF L!Range
  <2>4. QED
    BY <2>2, <2>3 DEF h
<1>9. QED
  BY <1>7, <1>8

LEMMA LatencyAgrees == LatencyInv => L!ReportAgrees
<1>1. SUFFICES ASSUME LatencyInv, L!Reported PROVE L!ReportAgrees
  BY DEF L!ReportAgrees
<1>2. PICK m \in Nat \ {0} :
        /\ DOMAIN csv = 1..m /\ Len(csv) = m /\ csv # <<>>
        /\ RowsTimed(csv, m) \/ RowsSingle(csv, m)
        /\ RowsLabelled(csv, m) \/ RowsPlain(csv, m)
  BY <1>1, ReportedRows
<1>3. PICK pi : Arranged(csv, m, pi)
  BY <1>2, RowsArranged
<1> DEFINE s == L!SortedRows(csv)
           f == L!Responses(csv)
           g == L!Responses(s)
<1>4. /\ Numbers(f) /\ Numbers(g) /\ DOMAIN f = 1..m /\ DOMAIN g = 1..m
      /\ \A v : L!UpTo(g, v) = L!UpTo(f, v)
      /\ L!Size(g) = m /\ L!Size(f) = m
  BY <1>2, <1>3, ValuesArranged
<1>5. /\ DOMAIN s = 1..m
      /\ RowsTimed(csv, m) => RowsTimed(s, m)
      /\ RowsLabelled(csv, m) => RowsLabelled(s, m)
      /\ RowsPlain(csv, m) => RowsPlain(s, m)
  <2>1. DOMAIN s = 1..m
    BY <1>3 DEF Arranged
  <2>2. \A q \in 1..m : \E i \in 1..m : s[q] = csv[i]
    BY <1>3 DEF Arranged, Orders
  <2> HIDE DEF s, f, g
  <2>3. RowsTimed(csv, m) => RowsTimed(s, m)
    BY <2>2 DEF RowsTimed
  <2>4. RowsLabelled(csv, m) => RowsLabelled(s, m)
    BY <2>2 DEF RowsLabelled
  <2>5. RowsPlain(csv, m) => RowsPlain(s, m)
    BY <2>2 DEF RowsPlain
  <2>6. QED
    BY <2>1, <2>3, <2>4, <2>5
<1> HIDE DEF s, f, g
<1>6. SUFFICES ASSUME NEW n \in 1..2
               PROVE  LET a == L!Analyse(csv, n)
                      IN  /\ \A p \in Pcts :
                               /\ Whole * L!UpTo(f, a.response.at[p]) >= p * m
                               /\ \A v \in L!Range(f) : v < a.response.at[p] => Whole * L!UpTo(f, v) < p * m
                               /\ L!IsTimed(csv[1]) =>
                                    L!Within(a.response.at[p], {a.service.at[p], a.service.max + a.queue.max})
                               /\ DOMAIN a.groups # {} =>
                                    L!Within(a.response.at[p], {a.groups[l].at[p] : l \in DOMAIN a.groups})
                          /\ a.blocks # <<>> /\ m % n = 0 =>
                               L!Within(a.response.at[BlockPct], L!Range(a.blocks))
  BY <1>2 DEF L!ReportAgrees, f
<1> DEFINE a == L!Analyse(csv, n)
<1>7. a = TableOf(s, L!IsTimed(csv[1]), n)
  BY AnalyseIs DEF s
<1> HIDE DEF a
<1>8. \A p \in Pcts : a.response.at[p] = L!Percentile(g, p)
  <2>1. a.response = L!Dist(g)
    BY <1>7 DEF TableOf, g
  <2>2. QED
    BY <2>1, DistIs
<1>9. ASSUME NEW p \in Pcts
      PROVE  /\ Whole * L!UpTo(f, a.response.at[p]) >= p * m
             /\ \A v \in L!Range(f) : v < a.response.at[p] => Whole * L!UpTo(f, v) < p * m
  BY <1>4, <1>8, PercentileTold
<1>10. ASSUME NEW p \in Pcts, L!IsTimed(csv[1])
       PROVE  L!Within(a.response.at[p], {a.service.at[p], a.service.max + a.queue.max})
  <2>1. RowsTimed(s, m)
    <3>1. 1 \in 1..m
      BY RowsAreFinite
    <3>2. ~ RowsSingle(csv, m)
      BY <1>10, <3>1 DEF RowsSingle, SingleRow
    <3>3. QED
      BY <1>2, <1>5, <3>2
  <2>2. a.service = L!Dist(L!Services(s)) /\ a.queue = L!Dist(L!QueueDelays(s))
    BY <1>7, <1>10 DEF TableOf
  <2>3. /\ a.service.at[p] = L!Percentile(L!Services(s), p)
        /\ a.service.max = L!Max(L!Range(L!Services(s)))
        /\ a.queue.max = L!Max(L!Range(L!QueueDelays(s)))
    BY <2>2, DistIs
  <2>4. a.response.at[p] = L!Percentile(L!Responses(s), p)
    BY <1>8 DEF g
  <2>5. QED
    BY <1>5, <2>1, <2>3, <2>4, ServiceBounds
<1>11. ASSUME NEW p \in Pcts, DOMAIN a.groups # {}
       PROVE  L!Within(a.response.at[p], {a.groups[l].at[p] : l \in DOMAIN a.groups})
  <2>1. a.groups = [l \in L!GroupsOf(s) |-> L!Dist(L!Group(s, l))]
    BY <1>7 DEF TableOf
  <2>2. DOMAIN a.groups = L!GroupsOf(s) /\ \A l \in L!GroupsOf(s) : a.groups[l] = L!Dist(L!Group(s, l))
    BY <2>1
  <2>3. \A l \in L!GroupsOf(s) : a.groups[l].at[p] = L!Percentile(L!Group(s, l), p)
    BY <2>2, DistIs
  <2>4. RowsLabelled(s, m)
    <3>1. L!GroupsOf(s) # {}
      BY <1>11, <2>2
    <3>2. PICK i \in 1..m : s[i].label # L!NoLabel
      BY <1>5, <3>1 DEF L!GroupsOf, L!Range
    <3>3. ~ RowsPlain(s, m)
      BY <3>2 DEF RowsPlain
    <3>4. QED
      BY <1>2, <1>5, <3>3
  <2>5. L!Within(L!Percentile(g, p), {L!Percentile(L!Group(s, l), p) : l \in L!GroupsOf(s)})
    BY <1>4, <1>5, <2>4, GroupsEnclose DEF g
  <2>6. {a.groups[l].at[p] : l \in DOMAIN a.groups} = {L!Percentile(L!Group(s, l), p) : l \in L!GroupsOf(s)}
    BY <2>2, <2>3
  <2>7. QED
    BY <1>8, <2>5, <2>6
<1>12. ASSUME a.blocks # <<>>, m % n = 0 PROVE L!Within(a.response.at[BlockPct], L!Range(a.blocks))
  <2>1. a.blocks = L!Blocks(g, n, BlockPct)
    BY <1>7 DEF TableOf, g
  <2>2. a.response.at[BlockPct] = L!Percentile(g, BlockPct)
    BY <1>8, PercentileAssumption
  <2>3. QED
    BY <1>4, <1>12, <2>1, <2>2, BlocksEnclose
<1>13. QED
  BY <1>9, <1>10, <1>11, <1>12 DEF a

(* The sort undoes any exchange of two operations that start apart.          *)
LEMMA RowOrderLost == LatencyInv => L!RowOrderIsIrrelevant
<1>1. SUFFICES ASSUME LatencyInv, L!Reported, L!IsTimed(csv[1]), NEW i \in 1..(Len(csv) - 1), NEW n \in 1..2,
                      csv[i].cells[1] # csv[i + 1].cells[1]
               PROVE  L!Analyse(L!Swapped(i), n) = L!Analyse(csv, n)
  BY DEF L!RowOrderIsIrrelevant
<1>2. PICK m \in Nat \ {0} :
        /\ DOMAIN csv = 1..m /\ Len(csv) = m /\ csv # <<>>
        /\ RowsTimed(csv, m) \/ RowsSingle(csv, m)
  BY <1>1, ReportedRows
<1>3. RowsTimed(csv, m)
  <2>1. 1 \in 1..m
    BY RowsAreFinite
  <2>2. QED
    BY <1>1, <1>2, <2>1 DEF RowsSingle, SingleRow
<1> DEFINE other == L!Swapped(i)
<1>4. i \in 1..m /\ i + 1 \in 1..m /\ i # i + 1
  BY <1>1, <1>2
<1>5. other = [csv EXCEPT ![i] = csv[i + 1], ![i + 1] = csv[i]]
  BY DEF L!Swapped
<1> HIDE DEF other
<1>6. /\ DOMAIN other = 1..m /\ other[i] = csv[i + 1] /\ other[i + 1] = csv[i]
      /\ \A k \in 1..m : k # i /\ k # i + 1 => other[k] = csv[k]
  BY <1>2, <1>4, <1>5
<1>7. RowsTimed(other, m)
  <2>1. \A k \in 1..m : \E j \in 1..m : other[k] = csv[j]
    BY <1>4, <1>6
  <2>2. QED
    BY <1>3, <2>1 DEF RowsTimed
<1>8. 1 \in 1..m
  BY RowsAreFinite
<1>9. other # <<>> /\ Keyed(other, m) /\ L!IsTimed(other[1]) /\ Keyed(csv, m)
  BY <1>2, <1>3, <1>6, <1>7, <1>8 DEF Keyed, RowsTimed, TimedRow
<1>10. L!SortedRows(other) = L!SortedRows(csv)
  <2>1. i \in 1..(m - 1)
    BY <1>1, <1>2
  <2>2. QED
    BY <1>1, <1>2, <1>6, <1>9, <2>1, NeighboursSort
<1>11. L!IsTimed(other[1]) = L!IsTimed(csv[1])
  BY <1>1, <1>9 DEF L!IsTimed
<1>12. TableOf(L!SortedRows(other), L!IsTimed(other[1]), n) = TableOf(L!SortedRows(csv), L!IsTimed(csv[1]), n)
  BY <1>10, <1>11
<1>13. QED
  BY <1>12, AnalyseIs DEF other

-----------------------------------------------------------------------------
(* The tools that read: a step of Tools is a step of the tool that runs, so  *)
(* the invariants of ReadersProofs hold of every behaviour.                  *)

LEMMA WaitAlways == Spec => [](task = "wait" => WaitInv /\ AlarmInv)
<1>1. Init => (task = "wait" => WaitInv /\ AlarmInv)
  BY WaitInit, AlarmInit DEF Init
<1>2. (task = "wait" => WaitInv /\ AlarmInv) /\ [Next]_vars => (task = "wait" => WaitInv /\ AlarmInv)'
  <2>1. SUFFICES ASSUME task = "wait" => WaitInv /\ AlarmInv, [Next]_vars, task' = "wait" PROVE WaitInv' /\ AlarmInv'
    OBVIOUS
  <2>2. task = "wait" /\ [W!Next]_W!vars
    BY <2>1 DEF Next, vars, wVars, W!vars
  <2>3. QED
    BY <2>1, <2>2, WaitStep, AlarmStep
<1>3. QED
  BY <1>1, <1>2, PTL DEF Spec

LEMMA IntakeAlways == Spec => [](task = "intake" => IntakeInv)
<1>1. Init => (task = "intake" => IntakeInv)
  BY IntakeInit DEF Init
<1>2. (task = "intake" => IntakeInv) /\ [Next]_vars => (task = "intake" => IntakeInv)'
  <2>1. task' = "intake" /\ [Next]_vars => task = "intake" /\ [I!Next]_I!vars
    BY DEF Next, vars, iVars, I!vars
  <2>2. QED
    BY <2>1, IntakeStep
<1>3. QED
  BY <1>1, <1>2, PTL DEF Spec

(* A bundle that is analysed with exit 0 is the one that was sealed, however *)
(* many of its files were damaged, lost or added on the way: verify_sums     *)
(* looks in both directions, and the digest of an archive lets nothing else  *)
(* pass (analyze-bundle.py).                                                 *)
THEOREM DamageSeen == Spec => []DamageIsReported
<1>1. IntakeInv => I!DamageIsReported
  BY IntakeAnswers
<1>2. QED
  BY IntakeAlways, <1>1, PTL DEF DamageIsReported

(* No analysis is written over a copy that a refusal or a full disk cut      *)
(* short, and an archive that is refused has nothing of it written           *)
(* (safe_extract looks at every member before it writes the first).          *)
THEOREM WholeInput == Spec => []ReportIsOfWholeInput
<1>1. IntakeInv => I!ReportIsOfWholeInput /\ I!RefusedLeavesNothing
  BY IntakeAnswers
<1>2. QED
  BY IntakeAlways, <1>1, PTL DEF ReportIsOfWholeInput

(* Loose files of one name all reach the analysed tree, since import_loose   *)
(* numbers the second by a counter that only grows; and install.sh leaves    *)
(* every entry that it did not make.                                         *)
THEOREM NamesKept == Spec => []SameNamesKept
<1>1. IntakeInv => I!SameNamesKept
  BY IntakeAnswers
<1>2. InstallInv => E!ForeignKept
  BY DEF InstallInv
<1>3. QED
  BY IntakeAlways, InstallAlways, <1>1, <1>2, PTL DEF SameNamesKept

LEMMA LogAlways == Spec => [](task = "gc" => GcInv /\ PauseInv)
<1>1. Init => (task = "gc" => GcInv /\ PauseInv)
  BY LogInit, PausesInit DEF Init
<1>2. (task = "gc" => GcInv /\ PauseInv) /\ [Next]_vars => (task = "gc" => GcInv /\ PauseInv)'
  <2>1. SUFFICES ASSUME task = "gc" => GcInv /\ PauseInv, [Next]_vars, task' = "gc" PROVE (GcInv /\ PauseInv)'
    OBVIOUS
  <2>2. task = "gc" /\ [G!Next]_G!vars
    BY <2>1 DEF Next, vars, gVars, G!vars, G!heap, G!log
  <2>3. QED
    BY <2>1, <2>2, LogStep, PauseStep
<1>3. QED
  BY <1>1, <1>2, PTL DEF Spec

(* gc-log-summary.py: however the log was rotated and in whatever order its  *)
(* files are named, the pauses of the summary are those of the JVM, each     *)
(* once with its own duration, but for the repeats of a concurrent cycle;    *)
(* and they fill no more time than the log spans (PAUSE_RE, parse_log).      *)
THEOREM PausesAreAllTold == Spec => []PausesTold
<1>1. (task = "gc" => GcInv /\ PauseInv) => PausesTold
  BY PausesAreTold, FractionFits DEF PausesTold
<1>2. QED
  BY <1>1, LogAlways, PTL

(* gc-log-summary.py: the allocation estimate never exceeds what was         *)
(* allocated between the first and the last pause with sizes, and is exact   *)
(* when nothing was freed outside the pauses (approx_allocation_mib_per_s).  *)
THEOREM AllocationIsALowerBound == Spec => []AllocationIsBounded
<1>1. (task = "gc" => GcInv /\ PauseInv) => AllocationIsBounded
  BY AllocationIsSound DEF AllocationIsBounded
<1>2. QED
  BY <1>1, LogAlways, PTL

(* gc-log-summary.py and the triggers of collect.sh: stalls and full         *)
(* collections are counted whatever the rotation of the log and the order of *)
(* its files, and a round of the wait that ends with nothing has compared    *)
(* every pause it had to see and has missed no load that was sustained.      *)
THEOREM AlarmsHeard == Spec => []AlarmsTold
<1>1. (task = "gc" => GcInv /\ PauseInv) /\ (task = "wait" => WaitInv /\ AlarmInv) => AlarmsTold
  BY LogAnswers, AlarmAnswers DEF AlarmsTold
<1>2. QED
  BY <1>1, LogAlways, WaitAlways, PTL

LEMMA JitAlways == Spec => [](task = "jit" => JitInv)
<1>1. Init => (task = "jit" => JitInv)
  BY JitInit DEF Init
<1>2. (task = "jit" => JitInv) /\ [Next]_vars => (task = "jit" => JitInv)'
  <2>1. task' = "jit" /\ [Next]_vars => task = "jit" /\ [J!Next]_J!vars
    BY DEF Next, vars, jVars, J!vars
  <2>2. QED
    BY <2>1, JitStep
<1>3. QED
  BY <1>1, <1>2, PTL DEF Spec

(* However the lines of the compiler threads are torn into each other, the  *)
(* summary counts no event more often than it was printed, and when none is *)
(* torn every line exactly once under its own kind (jit-log-summary.py).    *)
THEOREM TornLinesAreSafe == Spec => []TornLinesInventNothing
<1>1. (task = "jit" => JitInv) => TornLinesInventNothing
  BY JitAnswers DEF TornLinesInventNothing
<1>2. QED
  BY JitAlways, <1>1, PTL

LEMMA LatencyAlways == Spec => [](task = "latency" => LatencyInv)
<1>1. Init => (task = "latency" => LatencyInv)
  BY LatencyInit DEF Init
<1>2. (task = "latency" => LatencyInv) /\ [Next]_vars => (task = "latency" => LatencyInv)'
  <2>1. task' = "latency" /\ [Next]_vars => task = "latency" /\ [L!Next]_L!vars
    BY DEF Next, vars, lVars, L!vars
  <2>2. QED
    BY <2>1, LatencyStep
<1>3. QED
  BY <1>1, <1>2, PTL DEF Spec

(* latency-report.py: a percentile is the least value that so large a part  *)
(* of the operations does not exceed, lies between that of the service and  *)
(* the worst of service and queueing, and between those of the groups and   *)
(* of the blocks; and the order in which threads wrote the operations does  *)
(* not show (percentile, analyse).                                          *)
THEOREM ReportsAgree == Spec => []ReportAgrees
<1>1. (task = "latency" => LatencyInv) => ReportAgrees
  BY LatencyAgrees, RowOrderLost DEF ReportAgrees
<1>2. QED
  BY LatencyAlways, <1>1, PTL

LEMMA DumpAlways == Spec => [](task = "dump" => DumpInv)
<1>1. Init => (task = "dump" => DumpInv)
  BY DumpInit DEF Init
<1>2. (task = "dump" => DumpInv) /\ [Next]_vars => (task = "dump" => DumpInv)'
  <2>1. task' = "dump" /\ [Next]_vars => task = "dump" /\ [D!Next]_D!vars
    BY DEF Next, vars, dVars, D!vars
  <2>2. DumpInv /\ [D!Next]_D!vars => DumpInv'
    BY ThreadStep, DumpPartStep DEF DumpInv
  <2>3. QED
    BY <2>1, <2>2
<1>3. QED
  BY <1>1, <1>2, PTL DEF Spec

(* The report names as the owner of a monitor who holds it: a dump is taken  *)
(* at once, and of the threads that show "- locked" only those in            *)
(* Object.wait() do not hold it (section_thread_dumps).                      *)
THEOREM OwnerHolds == Spec => []OwnerIsHolder
  BY DumpAlways, DumpOwners, PTL DEF OwnerIsHolder

(* A thread is stuck when that very thread is in every dump with one stack,  *)
(* since it is looked for by name and native id, and the section on hot      *)
(* threads, by native id alone, tells of nobody else without a reason        *)
(* (section_thread_dumps, hot_stacks).                                       *)
THEOREM StuckIsOne == Spec => []StuckIsSameThread
  BY DumpAlways, DumpStuck, PTL DEF StuckIsSameThread

LEMMA CompareAlways == Spec => [](task = "compare" => CompareInv)
<1>1. Init => (task = "compare" => CompareInv)
  BY CompareInit DEF Init
<1>2. (task = "compare" => CompareInv) /\ [Next]_vars => (task = "compare" => CompareInv)'
  <2>1. task' = "compare" /\ [Next]_vars => task = "compare" /\ [C!Next]_C!vars
    BY DEF Next, vars, cVars, C!vars
  <2>2. QED
    BY <2>1, CompareStep
<1>3. QED
  BY <1>1, <1>2, PTL DEF Spec

(* Both tables list the frames with the greatest shares only, and so does    *)
(* the comparison; yet a change it prints is off by no more than the least   *)
(* share listed, one it does not print is no greater than that beyond the    *)
(* last row, and no metric is worse in both directions (compare-bundles.py). *)
THEOREM ChangesReal == Spec => []ChangesAreReal
<1>1. CompareInv => C!ChangesAreReal
  <2>1. ~(result.by = "main" /\ C!SamePicked) => C!ChangesAreReal
    BY DEF C!ChangesAreReal
  <2>2. QED
    BY <2>1, CompareRows
<1>2. QED
  BY CompareAlways, CompareFlags, <1>1, PTL DEF ChangesAreReal

LEMMA MemoryAlways == Spec => [](task = "memory" => MemoryInv /\ TablePart)
<1>1. Init => (task = "memory" => MemoryInv /\ TablePart)
  BY MemoryInit, TableInit DEF Init
<1>2. (task = "memory" => MemoryInv /\ TablePart) /\ [Next]_vars => (task = "memory" => MemoryInv /\ TablePart)'
  <2>1. task' = "memory" /\ [Next]_vars => task = "memory" /\ [N!Next]_N!vars
    BY DEF Next, vars, nVars, N!vars
  <2>2. QED
    BY <2>1, MemoryStep, TableStep
<1>3. QED
  BY <1>1, <1>2, PTL DEF Spec

LEMMA SampleAlways == Spec => [](task = "sample" => SampleInv /\ SeriesPart)
<1>1. Init => (task = "sample" => SampleInv /\ SeriesPart)
  BY SampleInit, SeriesInit DEF Init
<1>2. (task = "sample" => SampleInv /\ SeriesPart) /\ [Next]_vars => (task = "sample" => SampleInv /\ SeriesPart)'
  <2>1. task' = "sample" /\ [Next]_vars => task = "sample" /\ [S!Next]_S!vars
    BY DEF Next, vars, sVars, S!vars
  <2>2. QED
    BY <2>1, SampleStep, SeriesStep
<1>3. QED
  BY <1>1, <1>2, PTL DEF Spec

(* The rows of a thread that the report takes for intervals add up to what   *)
(* its counter shows more than in the first sample, although the sampler     *)
(* writes only the counters that changed and tids are used again (collect.sh:*)
(* sampler, section_timeseries); and the changes of NMT's categories add up  *)
(* to the change of the total (nmt-compare.py).                              *)
THEOREM IntervalsAddUp == Spec => []SeriesAddsUp
<1>1. (task = "sample" => SampleInv /\ SeriesPart) /\ (task = "memory" => MemoryInv /\ TablePart) => SeriesAddsUp
  BY SeriesAnswers, MemoryAddsUp DEF SeriesAddsUp
<1>2. QED
  BY <1>1, SampleAlways, MemoryAlways, PTL

LEMMA CounterAlways == Spec => [](task = "counters" => CounterInv)
<1>1. Init => (task = "counters" => CounterInv)
  BY CounterInit DEF Init
<1>2. (task = "counters" => CounterInv) /\ [Next]_vars => (task = "counters" => CounterInv)'
  <2>1. task' = "counters" /\ [Next]_vars => task = "counters" /\ [H!Next]_H!vars
    BY DEF Next, vars, hVars, H!vars
  <2>2. QED
    BY <2>1, CounterStep
<1>3. QED
  BY <1>1, <1>2, PTL DEF Spec

(* A delta is of one thread, one process or one device, and what has started *)
(* the window has happened (collect.sh: sampler, proc and system counters,   *)
(* the wait; runqueue-delta.py; native-memory-snapshot.sh and nmt-compare.py).*)
THEOREM DeltasAreTrue == Spec => []DeltasInventNothing
<1>1. /\ task = "sample" => SampleInv /\ SeriesPart
      /\ task = "memory" => MemoryInv /\ TablePart
      /\ task = "wait" => WaitInv
      /\ task = "counters" => CounterInv
      => DeltasInventNothing
  BY SampleDeltas, MemoryGap, CounterDeltas DEF WaitInv, DeltasInventNothing
<1>2. QED
  BY <1>1, SampleAlways, MemoryAlways, WaitAlways, CounterAlways, PTL
-----------------------------------------------------------------------------
(* What the invariants leave open of the types: the bounds of the counters, *)
(* the kinds of an exit status, where a walk through the input can stand.   *)

(* The files of a directory that are counted are those that were imported. *)
IntakeBound ==
  /\ DOMAIN sums \subseteq Members \cup {I!Manifest}
  /\ flaw \in {"none", "truncated", "link"} /\ damage \in 0..MaxDamage
  /\ done <= Cardinality(DOMAIN tree) \/ done <= Len(loose)
  /\ inventory \in 0..Len(loose)
  /\ exit \in {"none", "0", "1", "2", "5", "6", "7"}
  /\ pc \in {"way", "loose", "validate"} => inventory = 0
  /\ pc = "import" => inventory = done

LEMMA IntakeBoundInit == I!Init => IntakeBound
<1> SUFFICES ASSUME I!Init
             PROVE  IntakeBound
  OBVIOUS
<1>1. DOMAIN sums \subseteq Members \cup {I!Manifest}
  BY DEF I!Init, I!Sealed
<1>2. done <= Len(loose) /\ inventory \in 0..Len(loose)
  BY DEF I!Init
<1>3. QED
  BY <1>1, <1>2, BundleAssumption DEF I!Init, IntakeBound

LEMMA IntakeBoundStep == ASSUME IntakeInv, IntakeInv', IntakeBound, [I!Next]_I!vars PROVE IntakeBound'
<1>1. IntakeTyped /\ IntakeTyped' /\ SealPart /\ CopyPart /\ Len(loose) \in Nat /\ Len(loose') \in Nat
  BY DEF IntakeInv, IntakeTyped
<1>2. CASE I!Damage
  <2>1. /\ pc = "way" /\ damage < MaxDamage /\ damage' = damage + 1
        /\ UNCHANGED <<pc, loose, done, inventory, exit>>
    BY <1>2 DEF I!Damage
  <2>2. DOMAIN sums' \subseteq Members \cup {I!Manifest}
    <3>1. sums' = sums \/ sums' \in I!DamagedSums
      BY <1>2 DEF I!Damage
    <3>2. ASSUME NEW one \in I!DamagedSums
          PROVE  DOMAIN one \subseteq DOMAIN sums
      <4>1. CASE one = I!NoSums
        BY <4>1 DEF I!NoSums
      <4>2. ASSUME NEW m \in DOMAIN sums, one \in {I!Without(sums, m), I!With(sums, m, "damaged")}
            PROVE  DOMAIN one \subseteq DOMAIN sums
        BY <4>2 DEF I!Without, I!With
      <4>3. QED
        BY <3>2, <4>1, <4>2 DEF I!DamagedSums
    <3>3. QED
      BY <3>1, <3>2 DEF IntakeBound
  <2>3. flaw' \in {"none", "truncated", "link"}
    BY <1>2 DEF I!Damage, I!Flaws, IntakeBound
  <2>4. done' <= Len(loose')
    BY <1>1, <2>1 DEF IntakeTyped
  <2>5. QED
    BY <2>1, <2>2, <2>3, <2>4, BundleAssumption DEF IntakeBound
<1>3. CASE I!Collect
  <2>1. /\ pc = "way" /\ Len(loose) < MaxLoose
        /\ UNCHANGED <<pc, sums, flaw, damage, done, inventory, exit>>
    BY <1>3 DEF I!Collect
  <2>2. done' <= Len(loose') /\ inventory' \in 0..Len(loose')
    BY <1>1, <2>1 DEF IntakeTyped, IntakeBound
  <2>3. QED
    BY <2>1, <2>2 DEF IntakeBound
<1>4. CASE I!TakeAsLoose
  <2>1. /\ pc = "loose" /\ pc' = "import" /\ exit' = exit
        /\ UNCHANGED <<sums, flaw, damage, done, inventory>>
    BY <1>4 DEF I!TakeAsLoose, I!Goto
  <2>2. done' = 0 /\ inventory' = 0
    BY <1>1, <2>1 DEF IntakeTyped, IntakeBound
  <2>3. QED
    BY <1>1, <2>1, <2>2 DEF IntakeBound
<1>5. CASE I!CopyMember
  <2>1. /\ pc = "copy" /\ pc' \in {"format", "copy"} /\ exit' = exit /\ done' = done + 1
        /\ UNCHANGED <<tree, sums, flaw, damage, loose, inventory>>
    BY <1>5 DEF I!CopyMember, I!Goto, I!evidence
  <2>2. PICK m \in DOMAIN tree : m \notin DOMAIN bundle
    BY <1>5 DEF I!CopyMember, I!Left
  <2>3. DOMAIN bundle \subseteq DOMAIN tree /\ done = Cardinality(DOMAIN bundle)
    BY <1>1, <2>1 DEF SealPart, CopyPart
  <2>4. IsFiniteSet(DOMAIN tree) /\ Cardinality(DOMAIN tree) \in Nat
    BY <1>1, TreeIsFinite
  <2>5. done < Cardinality(DOMAIN tree)
    <3> DEFINE few == DOMAIN bundle
               all == DOMAIN tree
    <3>1. few \in SUBSET all /\ few # all
      BY <2>2, <2>3
    <3>2. IsFiniteSet(few) /\ Cardinality(few) \in Nat /\ Cardinality(few) <= Cardinality(all) /\ (Cardinality(few) = Cardinality(all) => few = all)
      <4> HIDE DEF few, all
      <4>1. QED
        BY <2>4, <3>1, FS_Subset, FS_CardinalityType DEF all
    <3>3. QED
      BY <2>3, <2>4, <3>1, <3>2
  <2>6. done' <= Cardinality(DOMAIN tree')
    BY <2>1, <2>3, <2>4, <2>5, <1>1 DEF IntakeTyped
  <2>7. QED
    BY <2>1, <2>6 DEF IntakeBound
<1>6. CASE I!ImportFile
  <2>1. /\ pc = "import" /\ done < Len(loose) /\ pc' \in {"import", "exit"} /\ exit' \in {exit, "1"}
        /\ \/ done' = done + 1 /\ inventory' = inventory + 1
           \/ done' = done /\ inventory' = inventory
        /\ UNCHANGED <<tree, sums, flaw, damage, loose>>
    BY <1>6 DEF I!ImportFile, I!Leave, I!evidence
  <2>2. done \in Nat /\ inventory = done
    BY <1>1, <2>1 DEF IntakeTyped, IntakeBound
  <2>3. done' <= Len(loose') /\ inventory' \in 0..Len(loose') /\ inventory' = done'
    BY <1>1, <2>1, <2>2
  <2>4. QED
    BY <2>1, <2>3 DEF IntakeBound
<1>7. CASE I!Start
  <2>1. /\ pc = "way" /\ pc' \in {"import", "exit", "copy", "loose", "validate"} /\ exit' \in {exit, "2", "5"}
        /\ UNCHANGED <<tree, sums, flaw, damage, loose, done, inventory>>
    BY <1>1, <1>7 DEF I!Start, I!Goto, I!Leave, I!evidence, IntakeTyped
  <2>2. done' = inventory'
    BY <1>1, <2>1 DEF IntakeTyped, IntakeBound
  <2>3. QED
    BY <2>1, <2>2 DEF IntakeBound
<1>8. CASE I!Validate
  <2>1. /\ pc' \in {"exit", "copy"} /\ exit' \in {exit, "1"}
        /\ UNCHANGED <<tree, sums, flaw, damage, loose, done, inventory>>
    BY <1>8 DEF I!Validate, I!Goto, I!Leave, I!evidence
  <2>2. QED
    BY <2>1 DEF IntakeBound
<1>9. CASE I!CopyRefused \/ I!WriteFails \/ I!ImportDone
  <2>1. /\ pc' \in {"exit", "report"} /\ exit' \in {exit, "1"}
        /\ UNCHANGED <<tree, sums, flaw, damage, loose, done, inventory>>
    BY <1>9 DEF I!CopyRefused, I!WriteFails, I!ImportDone, I!Goto, I!Leave, I!evidence
  <2>2. QED
    BY <2>1 DEF IntakeBound
<1>10. CASE I!CheckFormat \/ I!VerifySums \/ I!WriteReport
  <2>1. /\ pc' \in {"exit", "verify", "report"} /\ exit' \in {exit, "0", "6", "7"}
        /\ UNCHANGED <<tree, sums, flaw, damage, loose, done, inventory>>
    BY <1>10 DEF I!CheckFormat, I!VerifySums, I!WriteReport, I!Goto, I!Leave, I!evidence
  <2>2. QED
    BY <2>1 DEF IntakeBound
<1>11. CASE UNCHANGED I!vars
  BY <1>11 DEF IntakeBound, I!vars
<1>12. QED
  BY <1>2, <1>3, <1>4, <1>5, <1>6, <1>7, <1>8, <1>9, <1>10, <1>11 DEF I!Next

LEMMA IntakeHasTypes == IntakeInv /\ IntakeBound => I!TypeOK
<1> SUFFICES ASSUME IntakeInv, IntakeBound
             PROVE  I!TypeOK
  OBVIOUS
<1>1. done <= I!Cardinality(DOMAIN tree) \/ done <= Len(loose)
  BY CardinalityOfIntake DEF IntakeBound
<1>2. QED
  BY <1>1 DEF IntakeInv, IntakeTyped, Stages, IntakeBound, I!TypeOK

-----------------------------------------------------------------------------
Reclaimed == [i \in DOMAIN paused |-> paused[i].line.pause.before - paused[i].line.after]

LogBound ==
  /\ used <= MaxHeap /\ Len(files) <= MaxFiles /\ Len(paused) <= MaxPauses[collector]
  /\ open # G!NoPause => Len(paused) < MaxPauses[collector]
  /\ \A i \in DOMAIN paused : Reclaimed[i] \in Nat
  /\ total = used + freed + G!SumOf(Reclaimed)

LEMMA ReclaimedUnits ==
  ASSUME NEW one
  PROVE  G!SumOf(one) = Cardinality(UnitsOf(one, DOMAIN one))
<1>1. G!Units(one) = UnitsOf(one, DOMAIN one)
  BY DEF G!Units, UnitsOf
<1>2. QED
  BY <1>1, CardinalityOfLog DEF G!SumOf

LEMMA PrintKeepsFiles ==
  ASSUME JvmPart, NEW line
  PROVE  Len(G!PrintTo(files, line)) = Len(files)
  BY DEF G!PrintTo, JvmPart

LEMMA LogBoundInit == G!Init => LogBound
<1> SUFFICES ASSUME G!Init
             PROVE  LogBound
  OBVIOUS
<1>1. /\ collector \in DOMAIN G!Kinds /\ paused = <<>> /\ open = G!NoPause
      /\ used = 0 /\ total = 0 /\ freed = 0
      /\ Len(paused) = 0 /\ DOMAIN paused = {}
  BY DEF G!Init
<1>2. Len(files) = 1
  BY DEF G!Init
<1>3. G!SumOf(Reclaimed) = 0
  <2>1. DOMAIN Reclaimed = {}
    BY <1>1 DEF Reclaimed
  <2>2. UnitsOf(Reclaimed, {}) = {}
    BY DEF UnitsOf
  <2>3. G!SumOf(Reclaimed) = Cardinality({})
    BY <2>1, <2>2, ReclaimedUnits
  <2>4. QED
    BY <2>3, FS_EmptySet
<1>4. QED
  BY <1>1, <1>2, <1>3, BoundsAssumption DEF LogBound

LEMMA LogBoundStep == ASSUME GcInv, PauseInv, GcInv', LogBound, [G!Next]_G!vars PROVE LogBound'
<1>1. /\ JvmPart /\ JvmPart' /\ HeapPart /\ Len(files) \in Nat /\ Len(paused) \in Nat /\ Len(files') \in Nat
      /\ DOMAIN paused = 1..Len(paused) /\ MaxPauses[collector] \in Nat
  <2>1. JvmPart /\ JvmPart' /\ HeapPart
    BY DEF GcInv, PauseInv
  <2>2. QED
    BY SMTT(40), <2>1, BoundsAssumption DEF JvmPart
<1>2. IsFiniteSet(DOMAIN paused) /\ G!SumOf(Reclaimed) \in Nat
  <2>1. IsFiniteSet(DOMAIN paused) /\ DOMAIN Reclaimed = DOMAIN paused
    BY <1>1, FS_Interval DEF Reclaimed
  <2>2. \A i \in DOMAIN paused : Reclaimed[i] \in Nat
    BY DEF LogBound
  <2>3. QED
    BY <2>1, <2>2, UnitsAreFinite, ReclaimedUnits
<1>3. ASSUME UNCHANGED <<paused, collector>>
      PROVE  Reclaimed' = Reclaimed /\ MaxPauses[collector]' = MaxPauses[collector]
  BY <1>3 DEF Reclaimed
<1>4. CASE G!Tick \/ G!StartCycle \/ G!EndCycle \/ UNCHANGED G!vars
  <2>1. UNCHANGED <<collector, used, total, freed, open, paused, files>>
    BY <1>4 DEF G!Tick, G!StartCycle, G!EndCycle, G!vars, G!heap, G!log
  <2>2. QED
    BY <1>3, <2>1 DEF LogBound
<1>5. CASE G!Allocate \/ G!FreeConcurrently
  <2>1. UNCHANGED <<collector, open, paused, files>>
    BY <1>5 DEF G!Allocate, G!FreeConcurrently, G!log
  <2>2. \/ used < MaxHeap /\ used' = used + 1 /\ total' = total + 1 /\ freed' = freed
        \/ used > 0 /\ used' = used - 1 /\ freed' = freed + 1 /\ total' = total
    BY <1>5 DEF G!Allocate, G!FreeConcurrently
  <2>3. used' <= MaxHeap /\ total' = used' + freed' + G!SumOf(Reclaimed)
    <3> DEFINE sum == G!SumOf(Reclaimed)
    <3>1. /\ used \in Nat /\ freed \in Nat /\ total \in Nat /\ sum \in Nat /\ MaxHeap \in Nat
          /\ used <= MaxHeap /\ total = used + freed + sum
      BY <1>1, <1>2, BoundsAssumption DEF LogBound, JvmPart
    <3> HIDE DEF sum
    <3>2. used' <= MaxHeap /\ total' = used' + freed' + sum
      BY <2>2, <3>1
    <3>3. QED
      BY <3>2 DEF sum
  <2>4. QED
    BY <1>3, <2>1, <2>3 DEF LogBound
<1>6. CASE G!StartPause
  <2>1. UNCHANGED <<collector, used, total, freed, paused>> /\ Len(paused) < MaxPauses[collector]
    BY <1>6 DEF G!StartPause, G!heap
  <2>2. files' = files \/ \E line : files' = G!PrintTo(files, line)
    BY <1>6 DEF G!StartPause
  <2>3. Len(files') = Len(files)
    BY <1>1, <2>2, PrintKeepsFiles
  <2>4. QED
    BY <1>3, <2>1, <2>3 DEF LogBound
<1>7. CASE G!Stall
  <2>1. UNCHANGED <<collector, used, total, freed, open, paused>>
    BY <1>7 DEF G!Stall, G!heap
  <2>2. Len(files') = Len(files)
    BY <1>1, <1>7, PrintKeepsFiles DEF G!Stall
  <2>3. QED
    BY <1>3, <2>1, <2>2 DEF LogBound
<1>8. CASE G!Rotate
  <2>1. UNCHANGED <<collector, used, total, freed, open, paused>> /\ Len(files) < MaxFiles /\ files' = Append(files, <<>>)
    BY <1>8 DEF G!Rotate, G!heap
  <2>2. Len(files') = Len(files) + 1
    BY <1>1, <2>1 DEF JvmPart
  <2>3. Len(files') <= MaxFiles
    BY <1>1, <2>1, <2>2, BoundsAssumption
  <2>4. QED
    BY <1>3, <2>1, <2>3 DEF LogBound
<1>9. CASE G!EndPause
  <2>1. open # G!NoPause /\ open' = G!NoPause /\ UNCHANGED <<collector, total, freed>>
    BY <1>9 DEF G!EndPause
  <2>2. PICK after \in (IF open.kind.sized = 1 THEN 0..used ELSE {used}) :
          /\ used' = after /\ files' = G!PrintTo(files, G!Line("end", open, after))
          /\ paused' = Append(paused, [line |-> G!Line("end", open, after), file |-> Len(files)])
    BY <1>9 DEF G!EndPause
  <2>3. used \in Nat /\ after \in Nat /\ after <= used /\ open.before = used
    BY <1>1, <2>1, <2>2 DEF JvmPart, HeapPart
  <2>4. Len(files') = Len(files)
    BY <1>1, <2>2, PrintKeepsFiles
  <2> DEFINE n == Len(paused) + 1
             later == Reclaimed'
  <2>5. /\ Len(paused') = n /\ DOMAIN paused' = DOMAIN paused \cup {n} /\ n \notin DOMAIN paused
        /\ \A i \in DOMAIN paused : paused'[i] = paused[i]
        /\ paused'[n] = [line |-> G!Line("end", open, after), file |-> Len(files)]
    <3> DEFINE one == [line |-> G!Line("end", open, after), file |-> Len(files)]
    <3>1. paused \in Seq([line : GcLine, file : Nat]) /\ paused' = Append(paused, one)
      BY <1>1, <2>2 DEF JvmPart
    <3> HIDE DEF one
    <3>2. one \in [line : GcLine, file : Nat]
      <4>1. G!Line("end", open, after) \in GcLine
        BY <1>1, <2>1, <2>3, LineTyped DEF JvmPart
      <4>2. QED
        BY <1>1, <4>1 DEF one
    <3>3. Len(paused') = n /\ DOMAIN paused' = DOMAIN paused \cup {n} /\ n \notin DOMAIN paused
          /\ (\A i \in DOMAIN paused : paused'[i] = paused[i]) /\ paused'[n] = one
      BY <1>1, <3>1, <3>2
    <3>4. QED
      BY <3>3 DEF one
  <2>6. /\ DOMAIN later = DOMAIN paused \cup {n} /\ \A i \in DOMAIN paused : later[i] = Reclaimed[i]
        /\ later[n] = used - after
    <3>1. paused'[n].line.pause = open /\ paused'[n].line.after = after
      BY <2>5 DEF G!Line
    <3>2. QED
      BY <2>3, <2>5, <3>1 DEF Reclaimed
  <2>7. \A i \in DOMAIN paused : later[i] \in Nat
    BY <2>6 DEF LogBound
  <2>8. later[n] \in Nat
    BY <2>3, <2>6
  <2> HIDE DEF later
  <2>9. G!SumOf(later) = G!SumOf(Reclaimed) + (used - after)
    <3>1. G!SumOf(later) = Cardinality(UnitsOf(later, DOMAIN paused \cup {n}))
      BY <2>6, ReclaimedUnits
    <3>2. G!SumOf(Reclaimed) = Cardinality(UnitsOf(Reclaimed, DOMAIN paused))
      <4>1. DOMAIN Reclaimed = DOMAIN paused
        BY DEF Reclaimed
      <4>2. QED
        BY <4>1, ReclaimedUnits
    <3>3. UnitsOf(later, DOMAIN paused) = UnitsOf(Reclaimed, DOMAIN paused)
      BY <2>6 DEF UnitsOf
    <3>4. Cardinality(UnitsOf(later, DOMAIN paused \cup {n})) = Cardinality(UnitsOf(later, DOMAIN paused)) + later[n]
      <4> HIDE DEF n
      <4>1. QED
        BY <1>2, <2>5, <2>7, <2>8, UnitsOfOneMore
    <3>5. QED
      BY <2>6, <3>1, <3>2, <3>3, <3>4
  <2>10. total' = used' + freed' + G!SumOf(later)
    <3> DEFINE sum == G!SumOf(Reclaimed)
               more == G!SumOf(later)
    <3>1. /\ used \in Nat /\ freed \in Nat /\ total \in Nat /\ sum \in Nat
          /\ total = used + freed + sum /\ more = sum + (used - after)
      BY <1>1, <1>2, <2>9 DEF LogBound, JvmPart
    <3> HIDE DEF sum, more
    <3>2. total' = used' + freed' + more
      BY <2>1, <2>2, <2>3, <3>1
    <3>3. QED
      BY <3>2 DEF more
  <2>11. used' <= MaxHeap /\ Len(paused') <= MaxPauses[collector]
    BY <1>1, <2>1, <2>2, <2>3, <2>5, BoundsAssumption DEF LogBound
  <2>12. \A i \in DOMAIN paused' : Reclaimed'[i] \in Nat
    BY <2>5, <2>7, <2>8 DEF later
  <2>13. QED
    BY <2>1, <2>4, <2>10, <2>11, <2>12 DEF LogBound, later
<1>10. QED
  BY <1>4, <1>5, <1>6, <1>7, <1>8, <1>9 DEF G!Next

LEMMA LogTyped == GcInv /\ LogBound => G!TypeOK
<1> SUFFICES ASSUME GcInv, LogBound
             PROVE  G!TypeOK
  OBVIOUS
<1>1. JvmPart
  BY DEF GcInv
<1>2. up \in 0..MaxUp[collector] /\ used \in 0..MaxHeap
  BY <1>1, UptimeAssumption, BoundsAssumption DEF JvmPart, LogBound
<1>3. Len(files) \in 1..MaxFiles
  BY <1>1, BoundsAssumption DEF JvmPart, LogBound
<1>4. QED
  BY <1>1, <1>2, <1>3 DEF JvmPart, LogBound, Reclaimed, G!TypeOK

-----------------------------------------------------------------------------
WaitBound ==
  /\ wait \in {"delay", "arm", "deadline", "alive", "sleep", "check", "tail", "go", "over"}
  /\ triggers \in Plans /\ nth \in 0..Len(triggers)
  /\ offset \in 0..LogLines /\ size \in 0..LogLines /\ ending \in {0, 4, 6, 130}
  /\ target \in {0, 1} /\ flagged \in {0, 1} /\ Len(gclog) <= LogLines /\ gen \in 0..MaxGen
  /\ wait = "go" => fired # W!Nothing

LEMMA WaitBoundInit == W!Init => WaitBound
<1> SUFFICES ASSUME W!Init
             PROVE  WaitBound
  OBVIOUS
<1>1. triggers \in Plans /\ Len(triggers) \in Nat
  BY WaitAssumption DEF W!Init
<1>2. QED
  BY <1>1, BoundsAssumption DEF W!Init, WaitBound

LEMMA WaitBoundStep == ASSUME WaitInv, WaitBound, [W!Next]_W!vars PROVE WaitBound'
<1> USE BoundsAssumption
<1>1. TargetPart /\ ClockPart /\ LogPart /\ Len(triggers) \in Nat /\ Len(gclog) \in Nat
  BY DEF WaitInv, TargetPart, LogPart
<1>2. triggers # <<>> => Len(triggers) > 0
  BY <1>1 DEF TargetPart
<1> DEFINE Steps == {"delay", "arm", "deadline", "alive", "sleep", "check", "tail", "go", "over"}
<1>3. CASE W!Pause \/ W!Rotate \/ W!TouchFile \/ W!TargetExits
  <2>1. /\ UNCHANGED <<wait, triggers, nth, offset, size, fired, ending>>
        /\ target' \in {target, 0} /\ flagged' \in {flagged, 1}
    BY <1>3 DEF W!Pause, W!Rotate, W!TouchFile, W!TargetExits, W!given, W!watch
  <2>2. \/ UNCHANGED <<gclog, gen>>
        \/ gen < MaxGen /\ gen' = gen + 1 /\ gclog' = <<>>
        \/ Len(gclog) < LogLines /\ gen' = gen /\ \E ms \in Pauses : gclog' = Append(gclog, ms)
    BY <1>3 DEF W!Pause, W!Rotate, W!TouchFile, W!TargetExits
  <2>3. gen' \in 0..MaxGen
    BY <2>2 DEF WaitBound
  <2>4. Len(gclog') <= LogLines
    BY <1>1, <2>2 DEF WaitBound, LogPart
  <2>5. QED
    BY <2>1, <2>3, <2>4 DEF WaitBound
<1>4. CASE W!Delay \/ W!Arm \/ W!Deadline \/ W!Alive \/ W!Sleep \/ W!Interrupt
  <2>1. UNCHANGED <<triggers, size, target, flagged, gclog, gen>>
    BY <1>4 DEF W!Delay, W!Arm, W!Deadline, W!Alive, W!Sleep, W!Interrupt, W!given, W!watch, W!host
  <2>2. offset' \in {offset, Len(gclog), 0}
    BY <1>4 DEF W!Delay, W!Arm, W!Deadline, W!Alive, W!Sleep, W!Interrupt, W!watch
  <2>3. nth' = nth \/ (wait = "sleep" /\ nth' = 1)
    BY <1>4 DEF W!Delay, W!Arm, W!Deadline, W!Alive, W!Sleep, W!Interrupt
  <2>4. wait' \in Steps /\ ending' \in {ending, 4, 6, 130}
    BY <1>4 DEF W!Delay, W!Arm, W!Deadline, W!Alive, W!Sleep, W!Interrupt, W!Die
  <2>5. wait' = "go" => fired' = W!StartAt
    BY <1>4 DEF W!Delay, W!Arm, W!Deadline, W!Alive, W!Sleep, W!Interrupt, W!Die
  <2>6. nth' \in 0..Len(triggers)
    BY <1>1, <1>2, <2>3 DEF WaitBound, TargetPart
  <2>7. offset' \in 0..LogLines
    BY <1>1, <2>2 DEF WaitBound
  <2>8. W!StartAt # W!Nothing
    BY DEF W!StartAt, W!Nothing
  <2>9. QED
    BY <2>1, <2>4, <2>5, <2>6, <2>7, <2>8 DEF WaitBound
<1>5. CASE W!CheckFile \/ W!CheckCpu \/ W!StatLog \/ W!TailLog
  <2>1. /\ UNCHANGED <<triggers, ending, target, flagged, gclog, gen>> /\ wait \in {"check", "tail"}
    BY <1>5 DEF W!CheckFile, W!CheckCpu, W!StatLog, W!TailLog, W!given, W!watch, W!host
  <2>2. size' \in {size, Len(gclog)} /\ offset' \in {offset, size, 0}
    BY <1>5 DEF W!CheckFile, W!CheckCpu, W!StatLog, W!TailLog, W!watch
  <2>3. \/ nth' = nth
        \/ nth < Len(triggers) /\ nth' = nth + 1
        \/ nth' = 0
    BY <1>5 DEF W!CheckFile, W!CheckCpu, W!StatLog, W!TailLog, W!Fire, W!Pass, W!NextTrigger
  <2>4. wait' \in {"check", "tail", "deadline", "go"}
    BY <1>5 DEF W!CheckFile, W!CheckCpu, W!StatLog, W!TailLog, W!Fire, W!Pass, W!NextTrigger
  <2>5. wait' = "go" => fired'.kind \in {triggers[nth].kind, "gcpause"}
    BY <1>5 DEF W!CheckFile, W!CheckCpu, W!StatLog, W!TailLog, W!Fire, W!Pass, W!NextTrigger
  <2>6. triggers[nth].kind \in {"file", "cpu", "gcpause"}
    BY <1>1, <2>1, TriggerLooked DEF Trigger
  <2>7. wait' = "go" => fired' # W!Nothing
    BY <2>5, <2>6 DEF W!Nothing
  <2>8. size' \in 0..LogLines /\ offset' \in 0..LogLines
    BY <1>1, <2>2 DEF WaitBound
  <2>9. nth' \in 0..Len(triggers)
    BY <1>1, <2>3 DEF WaitBound
  <2>10. QED
    BY <2>1, <2>4, <2>7, <2>8, <2>9 DEF WaitBound
<1>6. CASE UNCHANGED W!vars
  BY <1>6 DEF WaitBound, W!vars
<1>7. QED
  BY <1>3, <1>4, <1>5, <1>6 DEF W!Next

LEMMA WaitTyped == WaitInv /\ WaitBound => W!TypeOK
<1> SUFFICES ASSUME WaitInv, WaitBound
             PROVE  W!TypeOK
  OBVIOUS
<1>1. ClockPart
  BY DEF WaitInv
<1>2. clock \in Nat /\ prev.time \in Nat /\ prev.time <= clock /\ prev.ticks = Cardinality(Busy(spent, 0, prev.time))
  BY <1>1 DEF ClockPart
<1>3. prev.ticks <= W!ProcTicks
  <2>1. W!ProcTicks = Cardinality(Busy(spent, 0, clock))
    BY TicksAreBusy DEF W!ProcTicks
  <2>2. /\ Cardinality(Busy(spent, 0, prev.time)) \in Nat /\ Cardinality(Busy(spent, prev.time, clock)) \in Nat
        /\ Cardinality(Busy(spent, 0, clock)) = Cardinality(Busy(spent, 0, prev.time)) + Cardinality(Busy(spent, prev.time, clock))
    BY <1>2, BusyAdds
  <2>3. QED
    BY <1>2, <2>1, <2>2
<1>4. clock = Len(spent)
  BY <1>1 DEF ClockPart
<1>5. QED
  BY <1>2, <1>3, <1>4 DEF WaitBound, W!TypeOK

-----------------------------------------------------------------------------
LEMMA AtMostOneElement ==
  ASSUME NEW all, \A x, y \in all : x = y
  PROVE  IsFiniteSet(all) /\ Cardinality(all) \in {0, 1}
<1>1. CASE all = {}
  BY <1>1, FS_EmptySet
<1>2. ASSUME NEW x \in all
      PROVE  IsFiniteSet(all) /\ Cardinality(all) \in {0, 1}
  <2>1. all = {x}
    OBVIOUS
  <2>2. QED
    BY <2>1, FS_Singleton
<1>3. QED
  BY <1>1, <1>2

DumpBound == Len(dumps) <= MaxDumps

LEMMA DumpBoundKept ==
  /\ D!Init => DumpBound
  /\ DumpInv /\ DumpBound /\ [D!Next]_D!vars => DumpBound'
<1>1. D!Init => DumpBound
  BY BoundsAssumption DEF D!Init, DumpBound
<1>2. ASSUME DumpInv, DumpBound, [D!Next]_D!vars
      PROVE  DumpBound'
  <2>1. Len(dumps) \in Nat /\ \A d : Len(Append(dumps, d)) = Len(dumps) + 1
    <3>1. PICK all : dumps \in Seq(all)
      BY <1>2 DEF DumpInv, DumpPart
    <3>2. \A d : dumps \in Seq(all \cup {d})
      BY <3>1
    <3>3. QED
      BY <3>1, <3>2
  <2>2. dumps' = dumps \/ (Len(dumps) < MaxDumps /\ \E d : dumps' = Append(dumps, d))
    BY <1>2 DEF D!Next, D!vars, D!Start, D!End, D!Acquire, D!Notified, D!Step, D!Enter, D!Exit, D!Wait, D!Dump, D!Put
  <2>3. QED
    BY <1>2, <2>1, <2>2, BoundsAssumption DEF DumpBound
<1>3. QED
  BY <1>1, <1>2

LEMMA DumpTyped == DumpInv /\ DumpBound => D!TypeOK
<1> SUFFICES ASSUME DumpInv, DumpBound
             PROVE  D!TypeOK
  OBVIOUS
<1>1. ASSUME NEW m \in Monitors
      PROVE  D!Cardinality({t \in Threads : D!Holds(t, m)}) <= 1
  <2> DEFINE holders == {t \in Threads : D!Holds(t, m)}
  <2>1. \A t, u \in holders : t = u
    BY DEF DumpInv, ThreadPart, Owns, D!Holds
  <2>2. Cardinality(holders) \in {0, 1}
    BY <2>1, AtMostOneElement
  <2>3. QED
    BY <2>2, CardinalityOfDump
<1>2. ASSUME NEW t \in Threads
      PROVE  /\ state[t] \in {"NEW", "RUNNABLE", "BLOCKED", "WAITING", "TERMINATED"}
             /\ entered[t] \subseteq Monitors /\ on[t] \in Monitors \cup {D!NoMonitor}
             /\ (state[t] \in {"BLOCKED", "WAITING"} <=> on[t] # D!NoMonitor)
             /\ frame[t] \in D!StackFrames
  BY DEF DumpInv, ThreadPart, DumpStates
<1>3. QED
  BY <1>1, <1>2 DEF D!TypeOK, DumpBound

-----------------------------------------------------------------------------
SampleBound ==
  /\ process \in 0..2 /\ births \in 1..(MaxBirths + 1)
  /\ \A t \in Tids : thread[t].born \in 0..births /\ thread[t].ticks \in 0..MaxTicks
  /\ Len(readings) <= S!Samples /\ (doing \in {"check"} /\ reader # "series" => Len(readings) < S!Samples)
  /\ code \in {"none", "0", "1", "2"}

MemoryBound ==
  /\ lives \in 1..MaxLives /\ tracked \in BOOLEAN /\ committed \in [Categories -> 0..MaxKb]
  /\ outside \in 0..MaxKb /\ Len(shots) <= 2 /\ (phase # "none" => Len(shots) < 2)

CounterBound ==
  /\ counts \in [Rows -> [Columns -> 0..MaxCount]] /\ changes \in 0..MaxChanges
  /\ DOMAIN opened \subseteq Rows /\ DOMAIN closed \subseteq Rows

LEMMA MemoryBoundKept ==
  /\ N!Init => MemoryBound
  /\ MemoryInv /\ MemoryBound /\ [N!Next]_N!vars => MemoryBound'
<1> USE CountersAssumption, BoundsAssumption
<1>1. N!Init => MemoryBound
  BY DEF N!Init, MemoryBound, N!Nothing
<1>2. ASSUME MemoryInv, MemoryBound, N!Next
      PROVE  MemoryBound'
  <2> USE <1>2 DEF MemoryBound
  <2>0. MemoryPart /\ ShotsPart
    BY DEF MemoryInv
  <2>1. CASE N!Commit
    BY <2>1 DEF N!Commit, N!Works, N!script
  <2>2. CASE N!AllocateOutside
    BY <2>2 DEF N!AllocateOutside, N!Works, N!script
  <2>3. CASE N!Ends
    BY <2>3 DEF N!Ends, N!script, N!Nothing
  <2>4. CASE N!Starts
    BY <2>0, <2>4 DEF N!Starts, N!script, MemoryPart
  <2>5. CASE N!Begin
    BY <2>5 DEF N!Begin, N!jvm
  <2>6. CASE N!ReadStatus
    BY <2>6 DEF N!ReadStatus, N!jvm
  <2>7. CASE N!ReadNmt
    BY <2>7 DEF N!ReadNmt, N!jvm
  <2>8. CASE N!Check
    <3>1. Len(shots) \in Nat /\ \A s : Len(Append(shots, s)) = Len(shots) + 1
      BY <2>0 DEF ShotsPart
    <3>2. shots' = shots \/ shots' = Append(shots, shot)
      BY <2>8 DEF N!Check
    <3>3. phase = "check" /\ phase' = "none" /\ UNCHANGED N!jvm
      BY <2>8 DEF N!Check
    <3>4. Len(shots') <= 2
      BY <3>1, <3>2, <3>3
    <3>5. QED
      BY <3>3, <3>4 DEF N!jvm
  <2>9. QED
    BY <2>1, <2>2, <2>3, <2>4, <2>5, <2>6, <2>7, <2>8 DEF N!Next
<1>3. ASSUME MemoryBound, UNCHANGED N!vars
      PROVE  MemoryBound'
  BY <1>3 DEF MemoryBound, N!vars
<1>4. QED
  BY <1>1, <1>2, <1>3

LEMMA MemoryTyped == MemoryInv /\ MemoryBound => N!TypeOK
  BY DEF MemoryInv, MemoryPart, ShotPart, MemoryBound, N!TypeOK

LEMMA CounterBoundKept ==
  /\ H!Init => CounterBound
  /\ CounterInv /\ CounterBound /\ [H!Next]_H!vars => CounterBound'
<1> USE CountersAssumption, BoundsAssumption
<1>1. H!Init => CounterBound
  BY DEF H!Init, CounterBound, H!Zero, H!None
<1>2. ASSUME CounterInv, CounterBound, H!Next
      PROVE  CounterBound'
  <2> USE <1>2 DEF CounterBound
  <2>1. ASSUME NEW r \in Rows, NEW c \in Columns, H!Happen(r, c)
        PROVE  CounterBound'
    <3> DEFINE row == [counts[r] EXCEPT ![c] = @ + 1]
    <3>1. counts[r] \in [Columns -> 0..MaxCount] /\ counts[r][c] < MaxCount /\ changes' = changes
          /\ counts' = [counts EXCEPT ![r][c] = @ + 1] /\ opened' = opened /\ closed' = closed
      BY <2>1 DEF H!Happen
    <3>2. row \in [Columns -> 0..MaxCount]
      BY <3>1
    <3>3. counts' = [counts EXCEPT ![r] = row]
      BY <3>1
    <3> HIDE DEF row
    <3>4. QED
      BY <3>1, <3>2, <3>3
  <2>2. ASSUME NEW r \in Rows, H!Replug(r)
        PROVE  CounterBound'
    BY <2>2 DEF H!Replug, H!Zero
  <2>3. ASSUME NEW c \in Columns, H!Hotplug(c)
        PROVE  CounterBound'
    BY <2>3 DEF H!Hotplug
  <2>4. CASE H!ReadStart \/ H!ReadEnd
    BY <2>4 DEF CounterInv, CounterPart, H!ReadStart, H!ReadEnd, H!Shown, H!None
  <2>5. QED
    BY <2>1, <2>2, <2>3, <2>4 DEF H!Next
<1>3. ASSUME CounterBound, UNCHANGED H!vars
      PROVE  CounterBound'
  BY <1>3 DEF CounterBound, H!vars
<1>4. QED
  BY <1>1, <1>2, <1>3

LEMMA CounterTyped == CounterInv /\ CounterBound => H!TypeOK
  BY DEF CounterInv, CounterPart, CounterBound, H!TypeOK

LEMMA SampleBoundKept ==
  /\ S!Init => SampleBound
  /\ SampleInv /\ SampleInv' /\ SampleBound /\ [S!Next]_S!vars => SampleBound'
<1> USE ReadingAssumption, BoundsAssumption
<1>1. S!Init => SampleBound
  <2> SUFFICES ASSUME S!Init
               PROVE  SampleBound
    OBVIOUS
  <2>1. readings = <<>> /\ Len(readings) = 0 /\ reader \in S!Readers /\ births = 1
    BY DEF S!Init
  <2>2. \A t \in Tids : thread[t].born \in 0..births /\ thread[t].ticks \in 0..MaxTicks
    BY DEF S!Init
  <2>3. QED
    BY <2>1, <2>2 DEF S!Init, S!Samples, S!Readers, SampleBound
<1>2. ASSUME SampleInv, SampleInv', SampleBound, S!Next
      PROVE  SampleBound'
  <2>0. /\ SystemPart /\ ReadPart /\ SystemPart' /\ ReadPart'
        /\ Len(readings) \in Nat
    BY <1>2 DEF SampleInv, ReadPart
  <2>1. CASE S!Run
    <3>1. UNCHANGED <<process, births, readings, doing, reader, code>>
      BY <2>1 DEF S!Run, S!reading
    <3>a. PICK u \in Tids : /\ thread[u].ticks < MaxTicks
                           /\ thread' = [thread EXCEPT ![u].ticks = @ + 1, ![u].ran = @ + 1]
      BY <2>1 DEF S!Run
    <3>b. \A t \in Tids : thread[t].born \in 0..births /\ thread[t].ticks \in 0..MaxTicks
      BY <1>2 DEF SampleBound
    <3>2. ASSUME NEW t \in Tids
          PROVE  thread'[t].born \in 0..births /\ thread'[t].ticks \in 0..MaxTicks
      <4>1. thread'[t].born = thread[t].born
        BY <2>0, <3>a DEF SystemPart, Looks
      <4>2. thread'[t].ticks = IF t = u THEN thread[t].ticks + 1 ELSE thread[t].ticks
        BY <2>0, <3>a DEF SystemPart, Looks
      <4>3. thread[t].ticks + 1 \in 0..MaxTicks \/ t # u
        BY SMTT(40), <3>a, <3>b
      <4>4. QED
        BY <3>b, <4>1, <4>2, <4>3
    <3>3. QED
      BY <1>2, <3>1, <3>2 DEF SampleBound, S!Samples
  <2>2. CASE S!Begin \/ S!PidReused
    <3>1. UNCHANGED <<readings, doing, reader, code>> /\ births' = births + 1 /\ births <= MaxBirths /\ process' \in 0..2
      BY <1>2, <2>2 DEF S!Begin, S!PidReused, S!reading, SampleBound
    <3>2. PICK u : thread' = [thread EXCEPT ![u] = S!Born(u)]
      BY <2>2 DEF S!Begin, S!PidReused
    <3>3. ASSUME NEW t \in Tids
          PROVE  thread'[t].born \in 0..births' /\ thread'[t].ticks \in 0..MaxTicks
      BY <1>2, <2>0, <3>1, <3>2 DEF SampleBound, SystemPart, Looks, S!Born
    <3>4. QED
      BY <1>2, <3>1, <3>3 DEF SampleBound, S!Samples
  <2>3. CASE S!End \/ S!ProcessEnds
    <3>1. UNCHANGED <<births, readings, doing, reader, code>> /\ process' \in 0..2
      BY <1>2, <2>3 DEF S!End, S!ProcessEnds, S!reading, SampleBound
    <3>2. ASSUME NEW t \in Tids
          PROVE  thread'[t].born \in 0..births /\ thread'[t].ticks \in 0..MaxTicks
      BY SMTT(40), <1>2, <2>0, <2>3 DEF S!End, S!ProcessEnds, S!Gone, SampleBound, SystemPart, Looks
    <3>3. QED
      BY <1>2, <3>1, <3>2 DEF SampleBound, S!Samples
  <2>4. CASE S!Check
    <3>1. UNCHANGED <<process, births, thread, reader>> /\ doing' \in {"exit", "read"}
      BY <2>4 DEF S!Check, S!system, S!Leave
    <3>2. \/ readings' = readings
          \/ readings' = Append(readings, thread) /\ (reader = "series" => Len(readings) # S!Samples)
      BY <2>4 DEF S!Check, S!Leave
    <3>3. S!Samples \in Nat /\ S!Samples' = S!Samples
      BY <3>1 DEF S!Samples
    <3>4. Len(readings') \in {Len(readings), Len(readings) + 1} /\ (Len(readings') # Len(readings) /\ reader = "series" => Len(readings) # S!Samples)
      BY <2>0, <3>2 DEF ReadPart
    <3>5. Len(readings') <= S!Samples
      BY SMTT(40), <1>2, <2>0, <2>4, <3>3, <3>4 DEF SampleBound, S!Check
    <3>6. code' \in {"none", "0", "1", "2"}
      BY <1>2, <2>4 DEF SampleBound, S!Check, S!Leave
    <3>7. QED
      BY <1>2, <3>1, <3>3, <3>5, <3>6 DEF SampleBound
  <2>5. CASE S!ReadThread
    <3>1. UNCHANGED <<process, births, thread, reader, code>> /\ doing' \in {"pause", "read"}
      BY <2>5 DEF S!ReadThread, S!system
    <3>2. Len(readings') = Len(readings)
      BY <2>0, <2>5 DEF S!ReadThread, ReadPart
    <3>3. QED
      BY <1>2, <3>1, <3>2 DEF SampleBound, S!Samples
  <2>6. CASE S!Pause
    <3>1. UNCHANGED <<process, births, thread, reader, readings>>
      BY <2>6 DEF S!Pause, S!system, S!Leave
    <3>2. S!Samples \in Nat /\ S!Samples' = S!Samples
      BY <3>1 DEF S!Samples
    <3>3. doing' \in {"check"} /\ reader # "series" => Len(readings) # S!Samples
      BY <2>6 DEF S!Pause, S!Leave
    <3>4. code' \in {"none", "0", "1", "2"}
      BY <1>2, <2>6 DEF SampleBound, S!Pause, S!Leave
    <3>5. QED
      BY <1>2, <2>0, <3>1, <3>2, <3>3, <3>4 DEF SampleBound
  <2>7. QED
    BY <1>2, <2>1, <2>2, <2>3, <2>4, <2>5, <2>6 DEF S!Next
<1>3. ASSUME SampleBound, UNCHANGED S!vars
      PROVE  SampleBound'
  BY <1>3 DEF SampleBound, S!vars, S!Samples
<1>4. QED
  BY <1>1, <1>2, <1>3

LEMMA SampleTyped == SampleInv /\ SampleBound => S!TypeOK
<1> SUFFICES ASSUME SampleInv, SampleBound
             PROVE  S!TypeOK
  OBVIOUS
<1>1. DOMAIN written = DOMAIN readings /\ \A i \in DOMAIN written : written[i] \subseteq Tids
  BY DEF SampleInv, ReadPart
<1>2. QED
  BY <1>1 DEF SampleInv, ReadPart, SystemPart, SampleBound, S!TypeOK

-----------------------------------------------------------------------------
LEMMA RunnerTyped == RunnerInv => R!TypeOK
<1> SUFFICES ASSUME RunnerInv
             PROVE  R!TypeOK
  OBVIOUS
<1>1. RunsPart
  BY DEF RunnerInv
<1>2. \A i \in DOMAIN runs : runs[i] \in R!Runs
  BY <1>1 DEF RunsPart
<1>3. \A i \in DOMAIN rows : rows[i] \in {"complete", "incomplete", "failed", "unavailable"}
  BY <1>1 DEF RunsPart
<1>4. QED
  BY <1>1, <1>2, <1>3 DEF RunsPart, R!TypeOK

CsvBound == Len(csv) <= MaxRows

LEMMA CsvBoundKept ==
  /\ L!Init => CsvBound
  /\ LatencyInv /\ CsvBound /\ [L!Next]_L!vars => CsvBound'
<1>1. L!Init => CsvBound
  BY MoreBoundsAssumption DEF L!Init, CsvBound
<1>2. LatencyInv /\ CsvBound /\ L!Next => CsvBound'
  <2> SUFFICES ASSUME LatencyInv, CsvBound, L!Next
               PROVE  CsvBound'
    OBVIOUS
  <2>1. PICK r \in L!AllRows : csv' = Append(csv, r) /\ Len(csv) < MaxRows
    BY DEF L!Next, L!Write
  <2>2. csv \in Seq(L!AllRows)
    BY DEF LatencyInv
  <2>3. Len(csv') = Len(csv) + 1 /\ Len(csv) \in Nat
    BY <2>1, <2>2
  <2>4. QED
    BY <2>1, <2>3, MoreBoundsAssumption DEF CsvBound
<1>3. CsvBound /\ UNCHANGED L!vars => CsvBound'
  BY DEF CsvBound, L!vars
<1>4. QED
  BY <1>1, <1>2, <1>3

LEMMA LatencyTyped == LatencyInv /\ CsvBound => L!TypeOK
  BY DEF LatencyInv, CsvBound, L!TypeOK

PlanBound ==
  /\ step \in {"start", "usage", "plan", "apply", "applied", "rejected", "refused", "undone"}
  /\ DOMAIN host = P!Knobs /\ moves \in 0..MaxMoves

LEMMA PlanBoundKept ==
  /\ P!Init => PlanBound
  /\ PlanInv /\ PlanBound /\ [P!Next]_P!vars => PlanBound'
<1> USE MoreBoundsAssumption
<1>1. P!Init => PlanBound
  <2> SUFFICES ASSUME P!Init
               PROVE  PlanBound
    OBVIOUS
  <2>1. DOMAIN host = P!Knobs
    BY DEF P!Init
  <2>2. QED
    BY <2>1 DEF P!Init, PlanBound
<1>2. P!Knobs' = P!Knobs
  BY DEF P!Knobs, P!Governors, P!IdleKnobs
<1>3. PlanBound /\ P!Next => PlanBound'
  <2> SUFFICES ASSUME PlanBound, P!Next
               PROVE  PlanBound'
    OBVIOUS
  <2>1. CASE P!IrqMoves
    <3>1. DOMAIN host' = DOMAIN host
      BY <2>1 DEF P!IrqMoves
    <3>2. step' = step /\ moves < MaxMoves /\ moves' = moves + 1
      BY <2>1 DEF P!IrqMoves
    <3>3. QED
      BY <1>2, <3>1, <3>2 DEF PlanBound
  <2>2. CASE P!Apply
    <3>1. DOMAIN host' \in {DOMAIN host, P!Knobs}
      BY <2>2 DEF P!Apply
    <3>2. step' \in {"applied", "rejected", "refused", "undone"} /\ moves' = moves
      BY <2>2 DEF P!Apply
    <3>3. QED
      BY <1>2, <3>1, <3>2 DEF PlanBound
  <2>3. CASE P!Start \/ P!LookAtFile \/ P!PrintPlan
    <3>1. step' \in {step, "usage", "plan", "apply"} /\ host' = host /\ moves' = moves
      BY <2>3 DEF P!Start, P!LookAtFile, P!PrintPlan
    <3>2. QED
      BY <1>2, <3>1 DEF PlanBound
  <2>4. QED
    BY <2>1, <2>2, <2>3 DEF P!Next
<1>4. PlanBound /\ UNCHANGED P!vars => PlanBound'
  BY <1>2 DEF PlanBound, P!vars
<1>5. QED
  BY <1>1, <1>3, <1>4

LEMMA PlanTyped == PlanInv /\ PlanBound => P!TypeOK
<1> SUFFICES ASSUME PlanInv, PlanBound
             PROVE  P!TypeOK
  OBVIOUS
<1>1. ASSUME NEW i \in DOMAIN plan
      PROVE  plan[i].knob \in P!Knobs
  <2>1. LookPart /\ LinePart /\ ArgsPart
    BY DEF PlanInv
  <2>2. step \notin {"start", "usage"}
    BY <1>1, <2>1 DEF LookPart
  <2>3. ~ P!Refused /\ Len(todo) \in Nat
    BY <2>1, <2>2 DEF LookPart
  <2>4. Len(P!Looks) \in Nat /\ DOMAIN P!Looks = 1..Len(P!Looks) /\ \A j \in DOMAIN P!Looks : P!Looks[j] \in P!Knobs
    BY <2>1, <2>3, LooksOnce
  <2>5. PICK j \in 1..Looked : plan[i].knob = P!Looks[j]
    BY <2>1 DEF LinePart
  <2>6. j \in DOMAIN P!Looks
    BY <2>3, <2>4, <2>5 DEF Looked
  <2>7. QED
    BY <2>4, <2>5, <2>6
<1>2. QED
  BY <1>1 DEF PlanBound, P!TypeOK

JitBound == Len(begun) <= MaxLines

LEMMA JitBoundKept ==
  /\ J!Init => JitBound
  /\ JitInv /\ JitBound /\ [J!Next]_J!vars => JitBound'
<1> USE BoundsAssumption
<1>1. J!Init => JitBound
  BY DEF J!Init, JitBound
<1>2. JitInv /\ JitBound /\ J!Next => JitBound'
  <2> SUFFICES ASSUME JitInv, JitBound, J!Next
               PROVE  JitBound'
    OBVIOUS
  <2>1. begun \in Seq(J!LineKinds) /\ Len(begun) \in Nat
    BY DEF JitInv, PieceTyped
  <2>2. begun' = begun \/ (Len(begun) < MaxLines /\ \E k \in J!LineKinds : begun' = Append(begun, k))
    BY DEF J!Next, J!Begin, J!PrintPiece
  <2>3. QED
    BY <2>1, <2>2 DEF JitBound
<1>3. JitBound /\ UNCHANGED J!vars => JitBound'
  BY DEF JitBound, J!vars
<1>4. QED
  BY <1>1, <1>2, <1>3

LEMMA JitTyped == JitInv /\ JitBound => J!TypeOK
<1> SUFFICES ASSUME JitInv, JitBound
             PROVE  J!TypeOK
  OBVIOUS
<1>1. PieceTyped
  BY DEF JitInv
<1>2. ASSUME NEW k \in J!LineKinds
      PROVE  DOMAIN J!Pieces[k] = 1..Len(J!Pieces[k]) /\ 1 \in DOMAIN J!Pieces[k]
             /\ J!Pieces[k] = SubSeq(J!Pieces[k], 1, Len(J!Pieces[k]))
  <2> DEFINE line == J!Pieces[k]
  <2>1. line \in Seq(Tokens) /\ Len(line) \in Nat
    BY PiecesTyped
  <2>2. Len(line) \in {2, 3}
    BY PiecesAre, KindsAre DEF Prints
  <2> HIDE DEF line
  <2>3. line = SubSeq(line, 1, Len(line))
    <3>1. SubSeq(line, 1, Len(line)) \in Seq(Tokens) /\ Len(SubSeq(line, 1, Len(line))) = Len(line)
          /\ \A i \in 1..Len(line) : SubSeq(line, 1, Len(line))[i] = line[i]
      BY <2>1, <2>2
    <3>2. QED
      BY <2>1, <3>1, SeqEqual
  <2>4. QED
    BY <2>1, <2>2, <2>3 DEF line
<1>3. ASSUME NEW c \in Compilers
      PROVE  \E k \in J!LineKinds : \E n \in DOMAIN J!Pieces[k] :
               pending[c] \in {<<>>, SubSeq(J!Pieces[k], n, Len(J!Pieces[k]))}
  <2>1. CASE pending[c] = <<>>
    <3>1. "compile" \in J!LineKinds
      BY KindsAre
    <3>2. QED
      BY <1>2, <2>1, <3>1
  <2>2. CASE Within(pending[c])
    <3>a. PICK k \in J!LineKinds : \E n \in 2..Len(J!Pieces[k]) : pending[c] = SubSeq(J!Pieces[k], n, Len(J!Pieces[k]))
      BY <2>2 DEF Within, Rest
    <3>1. PICK n \in 2..Len(J!Pieces[k]) : pending[c] = SubSeq(J!Pieces[k], n, Len(J!Pieces[k]))
      BY <3>a
    <3>2. n \in DOMAIN J!Pieces[k]
      BY <1>2, <3>1, PiecesTyped
    <3>3. QED
      BY <3>1, <3>2
  <2>3. ASSUME NEW k \in J!LineKinds, pending[c] = J!Pieces[k]
        PROVE  \E n \in DOMAIN J!Pieces[k] : pending[c] = SubSeq(J!Pieces[k], n, Len(J!Pieces[k]))
    BY <1>2, <2>3
  <2>4. QED
    BY <1>1, <2>1, <2>2, <2>3 DEF PieceTyped
<1>4. \A i \in DOMAIN begun : begun[i] \in J!LineKinds
  BY <1>1 DEF PieceTyped
<1>5. QED
  BY <1>1, <1>3, <1>4 DEF PieceTyped, JitBound, J!TypeOK

CompareBound == samples \in [C!Periods -> [Profiles -> [Frames -> 0..PeriodSamples]]] /\ result.by \in {"nobody", "load", "main"}

LEMMA SampleCounts ==
  ASSUME Counted, NEW p \in C!Periods
  PROVE  C!CpuOf(p) \in Nat /\ \A q \in Profiles, f \in Frames : samples[p][q][f] <= C!CpuOf(p)
<1> DEFINE of(q) == C!SamplesOf(samples[p][q])
           g == [q \in Profiles |-> {q} \X of(q)]
           all == UNION {g[q] : q \in Profiles}
<1>1. ASSUME NEW q \in Profiles
      PROVE  IsFiniteSet(g[q])
  <2>1. samples[p][q] \in [Frames -> Nat]
    BY DEF Counted
  <2>2. of(q) = UnitsOf(samples[p][q], Frames)
    BY DEF C!SamplesOf, UnitsOf
  <2>3. IsFiniteSet(of(q)) /\ IsFiniteSet({q})
    BY SMTT(40), <2>1, <2>2, ComparisonAssumption, UnitsAreFinite, FS_Singleton
  <2>4. IsFiniteSet({q} \X of(q))
    <3> HIDE DEF of
    <3>1. QED
      BY <2>3, FS_Product
  <2>5. QED
    BY <2>4
<1>2. IsFiniteSet(all) /\ Cardinality(all) \in Nat
  <2> HIDE DEF g
  <2>1. QED
    BY <1>1, ComparisonAssumption, UnionIsFinite
<1>3. C!CpuOf(p) = Cardinality(all)
  <2>1. UNION {{q} \X of(q) : q \in Profiles} = all
    OBVIOUS
  <2>2. QED
    BY <2>1, CardinalityOfCompare DEF C!CpuOf
<1>4. ASSUME NEW q \in Profiles, NEW f \in Frames
      PROVE  samples[p][q][f] <= Cardinality(all)
  <2> DEFINE n == samples[p][q][f]
             chosen == [k \in 1..n |-> <<q, <<f, k>> >>]
  <2>1. n \in Nat
    BY DEF Counted
  <2>2. \A k \in 1..n : <<q, <<f, k>> >> \in all
    BY DEF C!SamplesOf
  <2> HIDE DEF all, n
  <2>3. chosen \in Injection(1..n, all)
    BY <2>2 DEF Injection, IsInjective
  <2>4. Cardinality(1..n) = n
    BY <2>1, FS_Interval
  <2>5. QED
    <3> HIDE DEF chosen
    <3>1. QED
      BY <1>2, <2>3, <2>4, FS_Injection DEF n
<1>5. QED
  BY <1>2, <1>3, <1>4

LEMMA CompareBoundKept ==
  /\ C!Init => CompareBound
  /\ CompareInv /\ CompareBound /\ [C!Next]_C!vars => CompareBound'
<1> USE BoundsAssumption
<1>1. C!Init => CompareBound
  BY DEF C!Init, CompareBound
<1>2. CompareInv /\ CompareBound /\ C!Next => CompareBound'
  <2> SUFFICES ASSUME CompareInv, CompareBound, C!Next
               PROVE  CompareBound'
    OBVIOUS
  <2>1. CASE C!Sample
    <3>1. PICK q \in Profiles, f \in Frames : samples' = [samples EXCEPT ![stage][q][f] = @ + 1]
      BY <2>1 DEF C!Sample
    <3>2. stage \in C!Periods /\ C!CpuOf(stage) < PeriodSamples /\ result' = result
      BY <2>1 DEF C!Sample
    <3>3. C!CpuOf(stage) \in Nat /\ samples[stage][q][f] <= C!CpuOf(stage)
      BY <3>2, SampleCounts DEF CompareInv
    <3>4. samples[stage] \in [Profiles -> [Frames -> 0..PeriodSamples]]
      BY <3>2 DEF CompareBound
    <3> DEFINE one == [samples[stage][q] EXCEPT ![f] = @ + 1]
               two == [samples[stage] EXCEPT ![q] = one]
    <3>5. one \in [Frames -> 0..PeriodSamples]
      BY <3>2, <3>3, <3>4
    <3>6. two \in [Profiles -> [Frames -> 0..PeriodSamples]]
      <4> HIDE DEF one
      <4>1. QED
        BY <3>4, <3>5
    <3>7. samples' = [samples EXCEPT ![stage] = two]
      BY <3>1
    <3> HIDE DEF two, one
    <3>8. QED
      BY <3>2, <3>6, <3>7 DEF CompareBound
  <2>2. CASE C!Analyse \/ C!LoadFails \/ C!Compare
    <3>1. samples' = samples /\ (result' = result \/ result'.by \in {"load", "main"})
      BY <2>2 DEF C!Analyse, C!LoadFails, C!Compare
    <3>2. QED
      BY <3>1 DEF CompareBound
  <2>3. QED
    BY <2>1, <2>2 DEF C!Next
<1>3. CompareBound /\ UNCHANGED C!vars => CompareBound'
  BY DEF CompareBound, C!vars
<1>4. QED
  BY <1>1, <1>2, <1>3

LEMMA CompareTyped == CompareInv /\ CompareBound => C!TypeOK
<1> SUFFICES ASSUME CompareInv, CompareBound
             PROVE  C!TypeOK
  OBVIOUS
<1>1. ASSUME NEW p \in C!Periods
      PROVE  DOMAIN tables[p] \subseteq Profiles
  BY DEF CompareInv, TablesPart
<1>2. QED
  BY <1>1 DEF CompareInv, TablesPart, CompareBound, C!TypeOK

-----------------------------------------------------------------------------
(* The invariants of the tools, and what they leave open of the types.      *)
ReaderInvariants ==
  /\ task = "intake" => IntakeInv
  /\ task = "sample" => SampleInv
  /\ task = "dump" => DumpInv
  /\ task = "compare" => CompareInv
  /\ task = "memory" => MemoryInv
  /\ task = "counters" => CounterInv
LogInvariants ==
  /\ task = "gc" => GcInv /\ PauseInv
  /\ task = "jit" => JitInv
  /\ task = "latency" => LatencyInv
  /\ task = "wait" => WaitInv
  /\ task = "plan" => PlanInv
RunInvariants ==
  /\ task = "runner" => RunnerInv
  /\ task = "install" => InstallInv
  /\ task = "jfr" => JfrInv
  /\ task = "parent" => ParentInv

Invariants == ReaderInvariants /\ LogInvariants /\ RunInvariants

Bounds ==
  /\ task = "intake" => IntakeBound
  /\ task = "sample" => SampleBound
  /\ task = "dump" => DumpBound
  /\ task = "gc" => LogBound
  /\ task = "jit" => JitBound
  /\ task = "latency" => CsvBound
  /\ task = "plan" => PlanBound
  /\ task = "compare" => CompareBound
  /\ task = "memory" => MemoryBound
  /\ task = "wait" => WaitBound
  /\ task = "counters" => CounterBound

LEMMA InvariantsAlways == Spec => []Invariants
<1>1. Spec => []ReaderInvariants
  <2>1. /\ task = "intake" => IntakeInv
        /\ task = "sample" => SampleInv /\ SeriesPart
        /\ task = "dump" => DumpInv
        /\ task = "compare" => CompareInv
        /\ task = "memory" => MemoryInv /\ TablePart
        /\ task = "counters" => CounterInv
        => ReaderInvariants
    BY DEF ReaderInvariants
  <2>2. QED
    BY <2>1, IntakeAlways, SampleAlways, DumpAlways, CompareAlways, MemoryAlways, CounterAlways, PTL
<1>2. Spec => []LogInvariants
  <2>1. /\ task = "gc" => GcInv /\ PauseInv
        /\ task = "jit" => JitInv
        /\ task = "latency" => LatencyInv
        /\ task = "wait" => WaitInv /\ AlarmInv
        /\ task = "plan" => PlanInv
        => LogInvariants
    BY DEF LogInvariants
  <2>2. QED
    BY <2>1, LogAlways, JitAlways, LatencyAlways, WaitAlways, PlanAlways, PTL
<1>3. Spec => []RunInvariants
  <2>1. /\ task = "runner" => RunnerInv
        /\ task = "install" => InstallInv
        /\ task = "jfr" => JfrInv
        /\ task = "parent" => ParentInv
        => RunInvariants
    BY DEF RunInvariants
  <2>2. QED
    BY <2>1, RunnerAlways, InstallAlways, JfrAlways, ParentAlways, PTL
<1>4. QED
  BY <1>1, <1>2, <1>3, PTL DEF Invariants

LEMMA BoundsAlways == Spec => []Bounds
<1>1. Init => Bounds
  <2> SUFFICES ASSUME Init
               PROVE  Bounds
    OBVIOUS
  <2>1. task = "intake" => IntakeBound
    BY IntakeBoundInit DEF Init
  <2>2. task = "sample" => SampleBound
    BY SampleBoundKept DEF Init
  <2>3. task = "dump" => DumpBound
    BY DumpBoundKept DEF Init
  <2>4. task = "gc" => LogBound
    BY LogBoundInit DEF Init
  <2>5. task = "jit" => JitBound
    BY JitBoundKept DEF Init
  <2>6. task = "latency" => CsvBound
    BY CsvBoundKept DEF Init
  <2>7. task = "plan" => PlanBound
    BY PlanBoundKept DEF Init
  <2>8. task = "compare" => CompareBound
    BY CompareBoundKept DEF Init
  <2>9. task = "memory" => MemoryBound
    BY MemoryBoundKept DEF Init
  <2>10. task = "wait" => WaitBound
    BY WaitBoundInit DEF Init
  <2>11. task = "counters" => CounterBound
    BY CounterBoundKept DEF Init
  <2>12. QED
    BY <2>1, <2>2, <2>3, <2>4, <2>5, <2>6, <2>7, <2>8, <2>9, <2>10, <2>11 DEF Bounds
<1>2. Invariants /\ Invariants' /\ Bounds /\ [Next]_vars => Bounds'
  <2> SUFFICES ASSUME Invariants, Invariants', Bounds, [Next]_vars
               PROVE  Bounds'
    OBVIOUS
  <2>1. ASSUME task' = "intake"
        PROVE  IntakeBound'
    <3>1. task = "intake" /\ [I!Next]_I!vars
      BY <2>1 DEF Next, vars, iVars, I!vars
    <3>2. IntakeInv /\ (IntakeInv)' /\ IntakeBound
      BY <2>1, <3>1 DEF Invariants, ReaderInvariants, LogInvariants, RunInvariants, Bounds
    <3>3. QED
      BY <3>1, <3>2, IntakeBoundStep
  <2>2. ASSUME task' = "sample"
        PROVE  SampleBound'
    <3>1. task = "sample" /\ [S!Next]_S!vars
      BY <2>2 DEF Next, vars, sVars, S!vars
    <3>2. SampleInv /\ (SampleInv)' /\ SampleBound
      BY <2>2, <3>1 DEF Invariants, ReaderInvariants, LogInvariants, RunInvariants, Bounds
    <3>3. QED
      BY <3>1, <3>2, SampleBoundKept
  <2>3. ASSUME task' = "dump"
        PROVE  DumpBound'
    <3>1. task = "dump" /\ [D!Next]_D!vars
      BY <2>3 DEF Next, vars, dVars, D!vars
    <3>2. DumpInv /\ (DumpInv)' /\ DumpBound
      BY <2>3, <3>1 DEF Invariants, ReaderInvariants, LogInvariants, RunInvariants, Bounds
    <3>3. QED
      BY <3>1, <3>2, DumpBoundKept
  <2>4. ASSUME task' = "gc"
        PROVE  LogBound'
    <3>1. task = "gc" /\ [G!Next]_G!vars
      BY <2>4 DEF Next, vars, gVars, G!vars
    <3>2. GcInv /\ PauseInv /\ (GcInv /\ PauseInv)' /\ LogBound
      BY <2>4, <3>1 DEF Invariants, ReaderInvariants, LogInvariants, RunInvariants, Bounds
    <3>3. QED
      BY <3>1, <3>2, LogBoundStep
  <2>5. ASSUME task' = "jit"
        PROVE  JitBound'
    <3>1. task = "jit" /\ [J!Next]_J!vars
      BY <2>5 DEF Next, vars, jVars, J!vars
    <3>2. JitInv /\ (JitInv)' /\ JitBound
      BY <2>5, <3>1 DEF Invariants, ReaderInvariants, LogInvariants, RunInvariants, Bounds
    <3>3. QED
      BY <3>1, <3>2, JitBoundKept
  <2>6. ASSUME task' = "latency"
        PROVE  CsvBound'
    <3>1. task = "latency" /\ [L!Next]_L!vars
      BY <2>6 DEF Next, vars, lVars, L!vars
    <3>2. LatencyInv /\ (LatencyInv)' /\ CsvBound
      BY <2>6, <3>1 DEF Invariants, ReaderInvariants, LogInvariants, RunInvariants, Bounds
    <3>3. QED
      BY <3>1, <3>2, CsvBoundKept
  <2>7. ASSUME task' = "plan"
        PROVE  PlanBound'
    <3>1. task = "plan" /\ [P!Next]_P!vars
      BY <2>7 DEF Next, vars, pVars, P!vars
    <3>2. PlanInv /\ (PlanInv)' /\ PlanBound
      BY <2>7, <3>1 DEF Invariants, ReaderInvariants, LogInvariants, RunInvariants, Bounds
    <3>3. QED
      BY <3>1, <3>2, PlanBoundKept
  <2>8. ASSUME task' = "compare"
        PROVE  CompareBound'
    <3>1. task = "compare" /\ [C!Next]_C!vars
      BY <2>8 DEF Next, vars, cVars, C!vars
    <3>2. CompareInv /\ (CompareInv)' /\ CompareBound
      BY <2>8, <3>1 DEF Invariants, ReaderInvariants, LogInvariants, RunInvariants, Bounds
    <3>3. QED
      BY <3>1, <3>2, CompareBoundKept
  <2>9. ASSUME task' = "memory"
        PROVE  MemoryBound'
    <3>1. task = "memory" /\ [N!Next]_N!vars
      BY <2>9 DEF Next, vars, nVars, N!vars
    <3>2. MemoryInv /\ (MemoryInv)' /\ MemoryBound
      BY <2>9, <3>1 DEF Invariants, ReaderInvariants, LogInvariants, RunInvariants, Bounds
    <3>3. QED
      BY <3>1, <3>2, MemoryBoundKept
  <2>10. ASSUME task' = "wait"
        PROVE  WaitBound'
    <3>1. task = "wait" /\ [W!Next]_W!vars
      BY <2>10 DEF Next, vars, wVars, W!vars
    <3>2. WaitInv /\ (WaitInv)' /\ WaitBound
      BY <2>10, <3>1 DEF Invariants, ReaderInvariants, LogInvariants, RunInvariants, Bounds
    <3>3. QED
      BY <3>1, <3>2, WaitBoundStep
  <2>11. ASSUME task' = "counters"
        PROVE  CounterBound'
    <3>1. task = "counters" /\ [H!Next]_H!vars
      BY <2>11 DEF Next, vars, hVars, H!vars
    <3>2. CounterInv /\ (CounterInv)' /\ CounterBound
      BY <2>11, <3>1 DEF Invariants, ReaderInvariants, LogInvariants, RunInvariants, Bounds
    <3>3. QED
      BY <3>1, <3>2, CounterBoundKept
  <2>12. QED
    BY <2>1, <2>2, <2>3, <2>4, <2>5, <2>6, <2>7, <2>8, <2>9, <2>10, <2>11 DEF Bounds
<1>3. QED
  BY <1>1, <1>2, InvariantsAlways, PTL DEF Spec

(* Each tool's variables have their types: the counters stay within what can *)
(* be read, the heap grows by what is allocated and shrinks by what is given *)
(* back, and no tool ends in a state or with an exit status of its own making.*)
THEOREM TypesAreKept == Spec => []TypeOK
<1>1. Invariants /\ Bounds => TypeOK
  <2> SUFFICES ASSUME Invariants, Bounds
               PROVE  TypeOK
    OBVIOUS
  <2>1. task = "intake" => I!TypeOK
    BY IntakeHasTypes DEF Invariants, ReaderInvariants, LogInvariants, RunInvariants, Bounds
  <2>2. task = "sample" => S!TypeOK
    BY SampleTyped DEF Invariants, ReaderInvariants, LogInvariants, RunInvariants, Bounds
  <2>3. task = "dump" => D!TypeOK
    BY DumpTyped DEF Invariants, ReaderInvariants, LogInvariants, RunInvariants, Bounds
  <2>4. task = "gc" => G!TypeOK
    BY LogTyped DEF Invariants, ReaderInvariants, LogInvariants, RunInvariants, Bounds
  <2>5. task = "jit" => J!TypeOK
    BY JitTyped DEF Invariants, ReaderInvariants, LogInvariants, RunInvariants, Bounds
  <2>6. task = "latency" => L!TypeOK
    BY LatencyTyped DEF Invariants, ReaderInvariants, LogInvariants, RunInvariants, Bounds
  <2>7. task = "runner" => R!TypeOK
    BY RunnerTyped DEF Invariants, ReaderInvariants, LogInvariants, RunInvariants, Bounds
  <2>8. task = "plan" => P!TypeOK
    BY PlanTyped DEF Invariants, ReaderInvariants, LogInvariants, RunInvariants, Bounds
  <2>9. task = "compare" => C!TypeOK
    BY CompareTyped DEF Invariants, ReaderInvariants, LogInvariants, RunInvariants, Bounds
  <2>10. task = "memory" => N!TypeOK
    BY MemoryTyped DEF Invariants, ReaderInvariants, LogInvariants, RunInvariants, Bounds
  <2>11. task = "wait" => W!TypeOK
    BY WaitTyped DEF Invariants, ReaderInvariants, LogInvariants, RunInvariants, Bounds
  <2>12. task = "counters" => H!TypeOK
    BY CounterTyped DEF Invariants, ReaderInvariants, LogInvariants, RunInvariants, Bounds
  <2>13. task = "install" => E!TypeOK
    BY DEF Invariants, ReaderInvariants, LogInvariants, RunInvariants, InstallInv
  <2>14. task = "jfr" => T!TypeOK
    BY DEF Invariants, ReaderInvariants, LogInvariants, RunInvariants, JfrInv
  <2>15. task = "parent" => B!TypeOK
    BY DEF Invariants, ReaderInvariants, LogInvariants, RunInvariants, ParentInv
  <2>16. QED
    BY <2>1, <2>2, <2>3, <2>4, <2>5, <2>6, <2>7, <2>8, <2>9, <2>10, <2>11, <2>12, <2>13, <2>14, <2>15 DEF TypeOK
<1>2. QED
  BY <1>1, InvariantsAlways, BoundsAlways, PTL
=============================================================================
