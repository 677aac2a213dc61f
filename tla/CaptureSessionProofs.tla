------------------------ MODULE CaptureSessionProofs ------------------------
(***************************************************************************)
(* Proofs about CaptureSession for every set of scripts and every bound.   *)
(*                                                                         *)
(* The invariant is a conjunction over the scripts.  What a script does    *)
(* disturbs another one's part only through OUTPUT and the session of the  *)
(* target, so each action is looked at twice: Frame is about the others,   *)
(* OwnStep about the script itself.                                        *)
(***************************************************************************)
EXTENDS CaptureSession, TLAPS

(* Where the child of a script can be.  Only a signal that found no child  *)
(* number, or one in cleanup, leaves it alive beyond the wait.             *)
ChildPart(i) ==
  /\ pc[i] \in {"free", "status", "arm", "spawn"} => asprof[i] = "none"
  /\ pc[i] = "register" => asprof[i] # "none"
  /\ pc[i] = "wait" => childPid[i] = 1
  /\ asprof[i] \in Alive => pc[i] \in {"register", "wait", "stop"} \/ cut[i] # "no"
  /\ asprof[i] \in Alive /\ pc[i] = "stop" /\ childPid[i] = 0 => cut[i] # "no"
  /\ pc[i] \in {"settle", "verify", "move", "confirm"} => asprof[i] = "ok"
  /\ asprof[i] \notin {"none", "ok"} => started[i] = 1

(* The files: what is moved is whole, and it is gone only by becoming      *)
(* OUTPUT.                                                                 *)
FilePart(i) ==
  /\ asprof[i] = "none" => partial[i] = "none"
  /\ pc[i] = "move" => partial[i] = "whole"
  /\ pc[i] = "confirm" => partial[i] # "none" \/ output = i
  /\ exit[i] = "0" => output = i
  /\ pc[i] = "exit" /\ cut[i] = "no" => partial[i] = "none"

(* A session belongs to a capture that runs, or to one that has failed and *)
(* still comes to its cleanup, has said so, or was cut short.              *)
SessionPart(i) ==
  session = i =>
    \/ asprof[i] \in {"running", "ending"}
    \/ /\ asprof[i] = "failed"
       /\ \/ cut[i] # "no"
          \/ warned[i] = 1
          \/ pc[i] \in {"register", "wait", "stop", "clStatus", "clStop", "clVerify"}

Mine(i) == ChildPart(i) /\ FilePart(i) /\ SessionPart(i)

IInv ==
  /\ TypeOK
  /\ session # NoOne => target = 1
  /\ \A i \in Scripts : Mine(i)
-----------------------------------------------------------------------------
(* Nothing that Mine(k) is about changes, but for OUTPUT and the session   *)
(* getting out of the hands of others.                                     *)
Same(k) ==
  /\ pc'[k] = pc[k] /\ childPid'[k] = childPid[k] /\ started'[k] = started[k]
  /\ exit'[k] = exit[k] /\ warned'[k] = warned[k] /\ cut'[k] = cut[k]
  /\ asprof'[k] = asprof[k] /\ partial'[k] = partial[k]
  /\ output = k => output' = k
  /\ session' = k => session = k

(* A script's part of the invariant survives the steps of the others. *)
LEMMA Frame ==
  ASSUME NEW k \in Scripts, Mine(k), Same(k)
  PROVE  Mine(k)'
  BY DEF Mine, Same, ChildPart, FilePart, SessionPart

(* The initial state satisfies the invariant. *)
LEMMA InitOK == Init => IInv
  <1> SUFFICES ASSUME Init PROVE IInv
    OBVIOUS
  <1>1. TypeOK
    BY BoundsAssumption DEF Init, TypeOK, Alive
  <1>2. ASSUME NEW k \in Scripts PROVE Mine(k)
    BY NoOneAssumption DEF Init, Mine, ChildPart, FilePart, SessionPart, Alive
  <1>3. session = NoOne
    BY DEF Init
  <1> QED
    BY <1>1, <1>2, <1>3 DEF IInv

(* Types survive every step. *)
LEMMA TypeStep == IInv /\ [Next]_vars => TypeOK'
  <1> SUFFICES ASSUME IInv, [Next]_vars PROVE TypeOK'
    OBVIOUS
  <1>0. TypeOK /\ \A i \in Scripts : pc[i] = "register" => asprof[i] # "none"
    BY DEF IInv, Mine, ChildPart
  <1> USE <1>0, NoOneAssumption, BoundsAssumption
  <1>1. ASSUME NEW i \in Scripts, CheckFree(i) PROVE TypeOK'
    BY <1>1 DEF TypeOK, Alive, CheckFree, At, Goto, Refuse, report, spent
  <1>2. ASSUME NEW i \in Scripts, CheckInactive(i) PROVE TypeOK'
    BY <1>2 DEF TypeOK, Alive, CheckInactive, At, Goto, Refuse, Command, report
  <1>3. ASSUME NEW i \in Scripts, Arm(i) PROVE TypeOK'
    BY <1>3 DEF TypeOK, Alive, Arm, At, Goto, report, spent
  <1>4. ASSUME NEW i \in Scripts, Spawn(i) PROVE TypeOK'
    BY <1>4 DEF TypeOK, Alive, Spawn, At, Goto, spent
  <1>5. ASSUME NEW i \in Scripts, Register(i) PROVE TypeOK'
    BY <1>5 DEF TypeOK, Alive, Register, At, Goto, report, spent
  <1>6. ASSUME NEW i \in Scripts, Wait(i) PROVE TypeOK'
    BY <1>6 DEF TypeOK, Alive, Wait, At, Goto, Leave, report, spent
  <1>7. ASSUME NEW i \in Scripts, Settle(i) PROVE TypeOK'
    BY <1>7 DEF TypeOK, Alive, Settle, At, Goto, report, spent
  <1>8. ASSUME NEW i \in Scripts, Verify(i) PROVE TypeOK'
    BY <1>8 DEF TypeOK, Alive, Verify, At, Goto, Leave, report, spent
  <1>9. ASSUME NEW i \in Scripts, Move(i) PROVE TypeOK'
    BY <1>9 DEF TypeOK, Alive, Move, At, Goto, Leave, report, spent
  <1>10. ASSUME NEW i \in Scripts, Confirm(i) PROVE TypeOK'
    BY <1>10 DEF TypeOK, Alive, Confirm, At, Leave, report, spent
  <1>11. ASSUME NEW i \in Scripts, StopWait(i) PROVE TypeOK'
    BY <1>11 DEF TypeOK, Alive, StopWait, At, Leave, report, spent
  <1>12. ASSUME NEW i \in Scripts, ClStatus(i) PROVE TypeOK'
    BY <1>12 DEF TypeOK, Alive, ClStatus, At, Goto, Command, report
  <1>13. ASSUME NEW i \in Scripts, ClStop(i) PROVE TypeOK'
    BY <1>13 DEF TypeOK, Alive, ClStop, At, Goto, Command, report
  <1>14. ASSUME NEW i \in Scripts, ClVerify(i) PROVE TypeOK'
    BY <1>14 DEF TypeOK, Alive, ClVerify, At, Goto, Command
  <1>15. ASSUME NEW i \in Scripts, ClRm(i) PROVE TypeOK'
    BY <1>15 DEF TypeOK, Alive, ClRm, At, Goto, report, spent
  <1>16. ASSUME NEW i \in Scripts, Signal(i) PROVE TypeOK'
    BY <1>16 DEF TypeOK, Alive, Signal, Goto, Termed
  <1>17. ASSUME NEW i \in Scripts, SignalInCleanup(i) PROVE TypeOK'
    BY <1>17 DEF TypeOK, Alive, SignalInCleanup, Refuse
  <1>18. ASSUME NEW i \in Scripts, Attach(i) PROVE TypeOK'
    BY <1>18 DEF TypeOK, Alive, Attach, report, spent
  <1>19. ASSUME NEW i \in Scripts, EndCapture(i) PROVE TypeOK'
    BY <1>19 DEF TypeOK, Alive, EndCapture, report, spent
  <1>20. CASE TargetExits
    BY <1>20 DEF TypeOK, Alive, TargetExits, report, spent
  <1>21. CASE UNCHANGED vars
    BY <1>21 DEF TypeOK, vars, report, spent
  <1> QED
    BY <1>1, <1>2, <1>3, <1>4, <1>5, <1>6, <1>7, <1>8, <1>9, <1>10, <1>11, <1>12, <1>13, <1>14, <1>15, <1>16, <1>17, <1>18, <1>19, <1>20, <1>21 DEF Next, Script, Asprof

(* The other scripts see nothing of a step but OUTPUT and the session. *)
LEMMA OthersStep ==
  ASSUME TypeOK, NEW i \in Scripts, NEW k \in Scripts, k # i,
         Script(i) \/ Signal(i) \/ SignalInCleanup(i) \/ Asprof(i)
  PROVE  Same(k)
  <1> USE NoOneAssumption DEF Same
  <1>1. CASE CheckFree(i)
    BY <1>1 DEF TypeOK, CheckFree, At, Goto, Refuse, report, spent
  <1>2. CASE CheckInactive(i)
    BY <1>2 DEF TypeOK, CheckInactive, At, Goto, Refuse, Command, report
  <1>3. CASE Arm(i)
    BY <1>3 DEF TypeOK, Arm, At, Goto, report, spent
  <1>4. CASE Spawn(i)
    BY <1>4 DEF TypeOK, Spawn, At, Goto, spent
  <1>5. CASE Register(i)
    BY <1>5 DEF TypeOK, Register, At, Goto, report, spent
  <1>6. CASE Wait(i)
    BY <1>6 DEF TypeOK, Wait, At, Goto, Leave, report, spent
  <1>7. CASE Settle(i)
    BY <1>7 DEF TypeOK, Settle, At, Goto, report, spent
  <1>8. CASE Verify(i)
    BY <1>8 DEF TypeOK, Verify, At, Goto, Leave, report, spent
  <1>9. CASE Move(i)
    BY <1>9 DEF TypeOK, Move, At, Goto, Leave, report, spent
  <1>10. CASE Confirm(i)
    BY <1>10 DEF TypeOK, Confirm, At, Leave, report, spent
  <1>11. CASE StopWait(i)
    BY <1>11 DEF TypeOK, StopWait, At, Leave, report, spent
  <1>12. CASE ClStatus(i)
    BY <1>12 DEF TypeOK, ClStatus, At, Goto, Command, report
  <1>13. CASE ClStop(i)
    BY <1>13 DEF TypeOK, ClStop, At, Goto, Command, report
  <1>14. CASE ClVerify(i)
    BY <1>14 DEF TypeOK, ClVerify, At, Goto, Command
  <1>15. CASE ClRm(i)
    BY <1>15 DEF TypeOK, ClRm, At, Goto, report, spent
  <1>16. CASE Signal(i)
    BY <1>16 DEF TypeOK, Signal, Goto, Termed
  <1>17. CASE SignalInCleanup(i)
    BY <1>17 DEF TypeOK, SignalInCleanup, Refuse
  <1>18. CASE Attach(i)
    BY <1>18 DEF TypeOK, Attach, report, spent
  <1>19. CASE EndCapture(i)
    BY <1>19 DEF TypeOK, EndCapture, report, spent
  <1> QED
    BY <1>1, <1>2, <1>3, <1>4, <1>5, <1>6, <1>7, <1>8, <1>9, <1>10, <1>11, <1>12, <1>13, <1>14, <1>15, <1>16, <1>17, <1>18, <1>19 DEF Script, Asprof

(* A script's own step keeps its part. *)
LEMMA OwnStep ==
  ASSUME IInv, NEW i \in Scripts,
         Script(i) \/ Signal(i) \/ SignalInCleanup(i) \/ Asprof(i)
  PROVE  Mine(i)'
  <1>0. TypeOK /\ Mine(i) /\ (session # NoOne => target = 1)
    BY DEF IInv
  <1> USE <1>0, NoOneAssumption DEF Mine, Alive
  <1>1. CASE CheckFree(i)
    <2>1. ChildPart(i)'
      BY <1>1 DEF TypeOK, ChildPart, CheckFree, At, Goto, Refuse, report, spent
    <2>2. FilePart(i)'
      BY <1>1 DEF TypeOK, ChildPart, FilePart, CheckFree, At, Goto, Refuse, report, spent
    <2>3. SessionPart(i)'
      BY <1>1 DEF TypeOK, ChildPart, SessionPart, CheckFree, At, Goto, Refuse, report, spent
    <2> QED
      BY <2>1, <2>2, <2>3
  <1>2. CASE CheckInactive(i)
    <2>1. ChildPart(i)'
      BY <1>2 DEF TypeOK, ChildPart, CheckInactive, At, Goto, Refuse, Command, report
    <2>2. FilePart(i)'
      BY <1>2 DEF TypeOK, ChildPart, FilePart, CheckInactive, At, Goto, Refuse, Command, report
    <2>3. SessionPart(i)'
      BY <1>2 DEF TypeOK, ChildPart, SessionPart, CheckInactive, At, Goto, Refuse, Command, report
    <2> QED
      BY <2>1, <2>2, <2>3
  <1>3. CASE Arm(i)
    <2>1. ChildPart(i)'
      BY <1>3 DEF TypeOK, ChildPart, Arm, At, Goto, report, spent
    <2>2. FilePart(i)'
      BY <1>3 DEF TypeOK, ChildPart, FilePart, Arm, At, Goto, report, spent
    <2>3. SessionPart(i)'
      BY <1>3 DEF TypeOK, ChildPart, SessionPart, Arm, At, Goto, report, spent
    <2> QED
      BY <2>1, <2>2, <2>3
  <1>4. CASE Spawn(i)
    <2>1. ChildPart(i)'
      BY <1>4 DEF TypeOK, ChildPart, Spawn, At, Goto, spent
    <2>2. FilePart(i)'
      BY <1>4 DEF TypeOK, ChildPart, FilePart, Spawn, At, Goto, spent
    <2>3. SessionPart(i)'
      BY <1>4 DEF TypeOK, ChildPart, SessionPart, Spawn, At, Goto, spent
    <2> QED
      BY <2>1, <2>2, <2>3
  <1>5. CASE Register(i)
    <2>1. ChildPart(i)'
      BY <1>5 DEF TypeOK, ChildPart, Register, At, Goto, report, spent
    <2>2. FilePart(i)'
      BY <1>5 DEF TypeOK, ChildPart, FilePart, Register, At, Goto, report, spent
    <2>3. SessionPart(i)'
      BY <1>5 DEF TypeOK, ChildPart, SessionPart, Register, At, Goto, report, spent
    <2> QED
      BY <2>1, <2>2, <2>3
  <1>6. CASE Wait(i)
    <2>1. ChildPart(i)'
      BY <1>6 DEF TypeOK, ChildPart, Wait, At, Goto, Leave, report, spent
    <2>2. FilePart(i)'
      BY <1>6 DEF TypeOK, ChildPart, FilePart, Wait, At, Goto, Leave, report, spent
    <2>3. SessionPart(i)'
      BY <1>6 DEF TypeOK, ChildPart, SessionPart, Wait, At, Goto, Leave, report, spent
    <2> QED
      BY <2>1, <2>2, <2>3
  <1>7. CASE Settle(i)
    <2>1. ChildPart(i)'
      BY <1>7 DEF TypeOK, ChildPart, Settle, At, Goto, report, spent
    <2>2. FilePart(i)'
      BY <1>7 DEF TypeOK, ChildPart, FilePart, Settle, At, Goto, report, spent
    <2>3. SessionPart(i)'
      BY <1>7 DEF TypeOK, ChildPart, SessionPart, Settle, At, Goto, report, spent
    <2> QED
      BY <2>1, <2>2, <2>3
  <1>8. CASE Verify(i)
    <2>1. ChildPart(i)'
      BY <1>8 DEF TypeOK, ChildPart, Verify, At, Goto, Leave, report, spent
    <2>2. FilePart(i)'
      BY <1>8 DEF TypeOK, ChildPart, FilePart, Verify, At, Goto, Leave, report, spent
    <2>3. SessionPart(i)'
      BY <1>8 DEF TypeOK, ChildPart, SessionPart, Verify, At, Goto, Leave, report, spent
    <2> QED
      BY <2>1, <2>2, <2>3
  <1>9. CASE Move(i)
    <2>1. ChildPart(i)'
      BY <1>9 DEF TypeOK, ChildPart, Move, At, Goto, Leave, report, spent
    <2>2. FilePart(i)'
      BY <1>9 DEF TypeOK, ChildPart, FilePart, Move, At, Goto, Leave, report, spent
    <2>3. SessionPart(i)'
      BY <1>9 DEF TypeOK, ChildPart, SessionPart, Move, At, Goto, Leave, report, spent
    <2> QED
      BY <2>1, <2>2, <2>3
  <1>10. CASE Confirm(i)
    <2>1. ChildPart(i)'
      BY <1>10 DEF TypeOK, ChildPart, Confirm, At, Leave, report, spent
    <2>2. FilePart(i)'
      BY <1>10 DEF TypeOK, ChildPart, FilePart, Confirm, At, Leave, report, spent
    <2>3. SessionPart(i)'
      BY <1>10 DEF TypeOK, ChildPart, SessionPart, Confirm, At, Leave, report, spent
    <2> QED
      BY <2>1, <2>2, <2>3
  <1>11. CASE StopWait(i)
    <2>1. ChildPart(i)'
      BY <1>11 DEF TypeOK, ChildPart, StopWait, At, Leave, report, spent
    <2>2. FilePart(i)'
      BY <1>11 DEF TypeOK, ChildPart, FilePart, StopWait, At, Leave, report, spent
    <2>3. SessionPart(i)'
      BY <1>11 DEF TypeOK, ChildPart, SessionPart, StopWait, At, Leave, report, spent
    <2> QED
      BY <2>1, <2>2, <2>3
  <1>12. CASE ClStatus(i)
    <2>1. ChildPart(i)'
      BY <1>12 DEF TypeOK, ChildPart, ClStatus, At, Goto, Command, report
    <2>2. FilePart(i)'
      BY <1>12 DEF TypeOK, ChildPart, FilePart, ClStatus, At, Goto, Command, report
    <2>3. SessionPart(i)'
      BY <1>12 DEF TypeOK, ChildPart, SessionPart, ClStatus, At, Goto, Command, report
    <2> QED
      BY <2>1, <2>2, <2>3
  <1>13. CASE ClStop(i)
    <2>1. ChildPart(i)'
      BY <1>13 DEF TypeOK, ChildPart, ClStop, At, Goto, Command, report
    <2>2. FilePart(i)'
      BY <1>13 DEF TypeOK, ChildPart, FilePart, ClStop, At, Goto, Command, report
    <2>3. SessionPart(i)'
      BY <1>13 DEF TypeOK, ChildPart, SessionPart, ClStop, At, Goto, Command, report
    <2> QED
      BY <2>1, <2>2, <2>3
  <1>14. CASE ClVerify(i)
    <2>1. ChildPart(i)'
      BY <1>14 DEF TypeOK, ChildPart, ClVerify, At, Goto, Command
    <2>2. FilePart(i)'
      BY <1>14 DEF TypeOK, ChildPart, FilePart, ClVerify, At, Goto, Command
    <2>3. SessionPart(i)'
      BY <1>14 DEF TypeOK, ChildPart, SessionPart, ClVerify, At, Goto, Command
    <2> QED
      BY <2>1, <2>2, <2>3
  <1>15. CASE ClRm(i)
    <2>1. ChildPart(i)'
      BY <1>15 DEF TypeOK, ChildPart, ClRm, At, Goto, report, spent
    <2>2. FilePart(i)'
      BY <1>15 DEF TypeOK, ChildPart, FilePart, ClRm, At, Goto, report, spent
    <2>3. SessionPart(i)'
      BY <1>15 DEF TypeOK, ChildPart, SessionPart, ClRm, At, Goto, report, spent
    <2> QED
      BY <2>1, <2>2, <2>3
  <1>16. CASE Signal(i)
    <2>1. ChildPart(i)'
      BY <1>16 DEF TypeOK, ChildPart, Signal, Goto, Termed
    <2>2. FilePart(i)'
      BY <1>16 DEF TypeOK, ChildPart, FilePart, Signal, Goto, Termed
    <2>3. SessionPart(i)'
      BY <1>16 DEF TypeOK, ChildPart, SessionPart, Signal, Goto, Termed
    <2> QED
      BY <2>1, <2>2, <2>3
  <1>17. CASE SignalInCleanup(i)
    <2>1. ChildPart(i)'
      BY <1>17 DEF TypeOK, ChildPart, SignalInCleanup, Refuse
    <2>2. FilePart(i)'
      BY <1>17 DEF TypeOK, ChildPart, FilePart, SignalInCleanup, Refuse
    <2>3. SessionPart(i)'
      BY <1>17 DEF TypeOK, ChildPart, SessionPart, SignalInCleanup, Refuse
    <2> QED
      BY <2>1, <2>2, <2>3
  <1>18. CASE Attach(i)
    <2>1. ChildPart(i)'
      BY <1>18 DEF TypeOK, ChildPart, Attach, report, spent
    <2>2. FilePart(i)'
      BY <1>18 DEF TypeOK, ChildPart, FilePart, Attach, report, spent
    <2>3. SessionPart(i)'
      BY <1>18 DEF TypeOK, ChildPart, SessionPart, Attach, report, spent
    <2> QED
      BY <2>1, <2>2, <2>3
  <1>19. CASE EndCapture(i)
    <2>1. ChildPart(i)'
      BY <1>19 DEF TypeOK, ChildPart, EndCapture, report, spent
    <2>2. FilePart(i)'
      BY <1>19 DEF TypeOK, ChildPart, FilePart, EndCapture, report, spent
    <2>3. SessionPart(i)'
      BY <1>19 DEF TypeOK, ChildPart, SessionPart, EndCapture, report, spent
    <2> QED
      BY <2>1, <2>2, <2>3
  <1> QED
    BY <1>1, <1>2, <1>3, <1>4, <1>5, <1>6, <1>7, <1>8, <1>9, <1>10, <1>11, <1>12, <1>13, <1>14, <1>15, <1>16, <1>17, <1>18, <1>19 DEF Script, Asprof

(* A session is one of the target. *)
LEMMA TargetStep ==
  ASSUME TypeOK, session # NoOne => target = 1, [Next]_vars
  PROVE  (session # NoOne => target = 1)'
  <1>1. ASSUME NEW i \in Scripts, Script(i) \/ Signal(i) \/ SignalInCleanup(i)
        PROVE  target' = target /\ session' \in {session, NoOne}
    <2>1. CASE ClStop(i)
      BY <2>1 DEF ClStop, Goto, Command
    <2>2. CASE ~ClStop(i)
      BY <1>1, <2>2
      DEF Script, CheckFree, CheckInactive, Arm, Spawn, Register, Wait, Settle, Verify, Move,
          Confirm, StopWait, ClStatus, ClVerify, ClRm, Signal, SignalInCleanup, Command
    <2> QED
      BY <2>1, <2>2
  <1>2. ASSUME NEW i \in Scripts, Asprof(i) PROVE target' = target /\ (target = 0 => session' \in {session, NoOne})
    BY <1>2 DEF Asprof, Attach, EndCapture
  <1>3. CASE TargetExits
    BY <1>3 DEF TargetExits
  <1>4. CASE UNCHANGED vars
    BY <1>4 DEF vars
  <1> QED
    BY <1>1, <1>2, <1>3, <1>4 DEF Next, TypeOK

(* The invariant is inductive. *)
LEMMA NextOK == IInv /\ [Next]_vars => IInv'
  <1> SUFFICES ASSUME IInv, [Next]_vars PROVE IInv'
    OBVIOUS
  <1>1. TypeOK'
    BY TypeStep DEF IInv
  <1>2. (session # NoOne => target = 1)'
    BY TargetStep DEF IInv
  <1>3. ASSUME NEW k \in Scripts PROVE Mine(k)'
    <2>0. TypeOK /\ Mine(k)
      BY DEF IInv
    <2>1. ASSUME NEW i \in Scripts, Script(i) \/ Signal(i) \/ SignalInCleanup(i) \/ Asprof(i)
          PROVE  Mine(k)'
      <3>1. CASE k = i
        BY <2>1, <3>1, OwnStep
      <3>2. CASE k # i
        BY <2>0, <2>1, <3>2, OthersStep, Frame
      <3> QED
        BY <3>1, <3>2
    <2>2. CASE TargetExits
      <3>1. Same(k)
        BY <2>2, NoOneAssumption DEF TargetExits, Same, report, spent
      <3> QED
        BY <2>0, <3>1, Frame
    <2>3. CASE UNCHANGED vars
      <3>1. Same(k)
        BY <2>3 DEF vars, Same, report, spent
      <3> QED
        BY <2>0, <3>1, Frame
    <2> QED
      BY <2>1, <2>2, <2>3 DEF Next
  <1> QED
    BY <1>1, <1>2, <1>3 DEF IInv

LEMMA Invariance == Spec => []IInv
  BY InitOK, NextOK, PTL DEF Spec

-----------------------------------------------------------------------------
(* What the scripts promise *)

(* Types are right for every number of scripts. *)
THEOREM TypeCorrect == Spec => []TypeOK
  <1>1. IInv => TypeOK
    BY DEF IInv
  <1> QED
    BY <1>1, Invariance, PTL

(* Whatever the number of captures that race for one OUTPUT, exit 0 of a   *)
(* script means that the artifact there is its own (capture.sh:125-130).   *)
THEOREM PublishedByMe == Spec => []ExitZeroIsPublished
  <1>1. IInv => ExitZeroIsPublished
    BY DEF IInv, Mine, FilePart, ExitZeroIsPublished
  <1> QED
    BY <1>1, Invariance, PTL

(* A session left behind was reported, or a signal came where the script   *)
(* could not see its child or was in its cleanup (capture.sh:85-112).      *)
THEOREM SessionsAccounted == Spec => []SessionAccounted
  <1>1. IInv => SessionAccounted
    <2> SUFFICES ASSUME IInv, session # NoOne,
                        \A i \in Scripts : pc[i] = "exit" /\ asprof[i] \notin Alive
                 PROVE  \E i \in Scripts : warned[i] = 1 \/ cut[i] # "no"
      BY DEF SessionAccounted
    <2>1. session \in Scripts
      BY DEF IInv, TypeOK
    <2>2. SessionPart(session)
      BY <2>1 DEF IInv, Mine
    <2> QED
      BY <2>1, <2>2 DEF SessionPart, Alive
  <1> QED
    BY <1>1, Invariance, PTL

(* A script that was not cut short in its cleanup or between asprof and    *)
(* its number leaves no partial file (capture.sh:98,127).                  *)
THEOREM PartialsRemoved == Spec => []NoPartialLeft
  <1>1. IInv => NoPartialLeft
    BY DEF IInv, Mine, FilePart, NoPartialLeft
  <1> QED
    BY <1>1, Invariance, PTL

(* An artifact that has the name OUTPUT keeps it (capture.sh:125-126).     *)
THEOREM OutputKept == Spec => OutputIsKept
  <1>1. [Next]_vars => (output # NoOne => output' = output)
    <2> SUFFICES ASSUME [Next]_vars, output # NoOne PROVE output' = output
      OBVIOUS
    <2>1. ASSUME NEW i \in Scripts, Script(i) PROVE output' = output
      <3>1. CASE Move(i)
        BY <3>1 DEF Move
      <3>2. CASE ~Move(i)
        BY <2>1, <3>2
        DEF Script, CheckFree, CheckInactive, Arm, Spawn, Register, Wait, Settle, Verify,
            Confirm, StopWait, ClStatus, ClStop, ClVerify, ClRm
      <3> QED
        BY <3>1, <3>2
    <2>2. ASSUME NEW i \in Scripts, Signal(i) \/ SignalInCleanup(i) \/ Asprof(i)
          PROVE  output' = output
      BY <2>2 DEF Signal, SignalInCleanup, Asprof, Attach, EndCapture
    <2>3. CASE TargetExits
      BY <2>3 DEF TargetExits
    <2>4. CASE UNCHANGED vars
      BY <2>4 DEF vars
    <2> QED
      BY <2>1, <2>2, <2>3, <2>4 DEF Next
  <1> QED
    BY <1>1, PTL DEF Spec, OutputIsKept
=============================================================================
