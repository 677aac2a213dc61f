-------------------------- MODULE RotatingJfrProofs --------------------------
(***************************************************************************)
(* Proofs about RotatingJfr for all limits and bounds: what becomes of the *)
(* session, and of the partial file, whenever signals and failures come;   *)
(* and that the retained profiles stay within the limits.  For the latter  *)
(* the sum of the sizes is the number of the units of all profiles, so     *)
(* that the facts about cardinalities are the facts about sums.            *)
(***************************************************************************)
EXTENDS RotatingJfr, FiniteSetTheorems, TLAPS

(* The variables of the control; the counters and lists are not needed.    *)
Control ==
  /\ pc \in PcType
  /\ stopping \in {0, 1} /\ childPid \in {0, 1} /\ started \in {0, 1} /\ budget \in {0, 1}
  /\ trapped \in {0, 1} /\ bad \in {0, 1} /\ session \in {0, 1} /\ target \in {0, 1}
  /\ partial \in {0, 1}
  /\ status \in {"ok", "failed"}
  /\ asprof \in Alive \cup {"none", "ok", "failed"}

(* A captured profile is on its way into the list. *)
Keeping == {"publish", "account", "prune"}

(* The child of a round.  An attaching one is never left to itself: TERM   *)
(* ends it, and only a script that knows no number yet sends none.         *)
ChildPart ==
  /\ pc \in {"loop", "spawn"} => asprof \in {"none", "ok"}
  /\ pc \in Keeping => asprof = "ok"
  /\ pc \in {"register", "poll", "wait", "decide"} => asprof # "none"
  /\ pc \in {"poll", "wait"} => childPid = 1
  /\ asprof = "attaching" => pc \in {"register", "poll", "wait"}
  /\ pc = "decide" /\ status = "ok" => asprof = "ok"
  /\ asprof \notin {"none", "ok"} => started = 1
  /\ pc = "spawn" => started = 1

(* Past the loop. *)
Cleaning == {"clTerm", "clWait", "clStatus", "clStop", "clVerify", "clRm", "exit"}

(* A session belongs to a child that runs or has failed; cleanup stops it  *)
(* or notes that it could not.                                             *)
CleanupPart ==
  /\ session = 1 => target = 1 /\ asprof \in {"running", "ending", "failed"}
  /\ trapped = 0 => pc \in Cleaning
  /\ pc = "clRm" /\ session = 1 => bad = 1
  /\ pc = "exit" /\ exit # "signal" /\ session = 1 => bad = 1

(* Only a whole capture is published; cleanup removes the partial file,    *)
(* and no child is left that would write a new one.                        *)
FilePart ==
  /\ pc = "publish" => budget = 0 /\ size > 0
  /\ pc = "exit" /\ exit # "signal" => partial = 0

IInv == Control /\ ChildPart /\ CleanupPart /\ FilePart

-----------------------------------------------------------------------------
(* The initial state satisfies the invariant. *)
LEMMA InitOK == Init => IInv
  BY DEF Init, IInv, Control, ChildPart, CleanupPart, FilePart, PcType, Alive, Keeping, Cleaning

(* Every step preserves the invariant. *)
LEMMA NextOK == IInv /\ [Next]_vars => IInv'
  <1> SUFFICES ASSUME IInv, [Next]_vars PROVE IInv'
    OBVIOUS
  <1>0. Control /\ ChildPart /\ CleanupPart /\ FilePart
    BY DEF IInv
  <1> USE <1>0 DEF Control, PcType, Alive, Keeping, Cleaning
  <1>1. CASE Begin
    <2>1. Control'
      BY <1>1 DEF Begin, Leave, loop, kept, child, file, env
    <2>2. ChildPart'
      BY <1>1 DEF ChildPart, Begin, Leave, loop, kept, child, file, env
    <2>3. CleanupPart'
      BY <1>1 DEF ChildPart, CleanupPart, Begin, Leave, loop, kept, child, file, env
    <2>4. FilePart'
      BY <1>1 DEF ChildPart, FilePart, Begin, Leave, loop, kept, child, file, env
    <2> QED
      BY <2>1, <2>2, <2>3, <2>4 DEF IInv
  <1>2. CASE Spawn
    <2>1. Control'
      BY <1>2 DEF Spawn, Goto, loop, kept, env
    <2>2. ChildPart'
      BY <1>2 DEF ChildPart, Spawn, Goto, loop, kept, env
    <2>3. CleanupPart'
      BY <1>2 DEF ChildPart, CleanupPart, Spawn, Goto, loop, kept, env
    <2>4. FilePart'
      BY <1>2 DEF ChildPart, FilePart, Spawn, Goto, loop, kept, env
    <2> QED
      BY <2>1, <2>2, <2>3, <2>4 DEF IInv
  <1>3. CASE Register
    <2>1. Control'
      BY <1>3 DEF Register, Goto, loop, kept, child, file, env
    <2>2. ChildPart'
      BY <1>3 DEF ChildPart, Register, Goto, loop, kept, child, file, env
    <2>3. CleanupPart'
      BY <1>3 DEF ChildPart, CleanupPart, Register, Goto, loop, kept, child, file, env
    <2>4. FilePart'
      BY <1>3 DEF ChildPart, FilePart, Register, Goto, loop, kept, child, file, env
    <2> QED
      BY <2>1, <2>2, <2>3, <2>4 DEF IInv
  <1>4. CASE Poll
    <2>1. Control'
      BY <1>4 DEF Poll, Goto, Termed, kept, file, env
    <2>2. ChildPart'
      BY <1>4 DEF ChildPart, Poll, Goto, Termed, kept, file, env
    <2>3. CleanupPart'
      BY <1>4 DEF ChildPart, CleanupPart, Poll, Goto, Termed, kept, file, env
    <2>4. FilePart'
      BY <1>4 DEF ChildPart, FilePart, Poll, Goto, Termed, kept, file, env
    <2> QED
      BY <2>1, <2>2, <2>3, <2>4 DEF IInv
  <1>5. CASE Wait
    <2>1. Control'
      BY <1>5 DEF Wait, ChildPart, Goto, kept, child, file, env
    <2>2. ChildPart'
      BY <1>5 DEF ChildPart, Wait, Goto, kept, child, file, env
    <2>3. CleanupPart'
      BY <1>5 DEF ChildPart, CleanupPart, Wait, Goto, kept, child, file, env
    <2>4. FilePart'
      BY <1>5 DEF ChildPart, FilePart, Wait, Goto, kept, child, file, env
    <2> QED
      BY <2>1, <2>2, <2>3, <2>4 DEF IInv
  <1>6. CASE Decide
    <2>1. Control'
      BY <1>6 DEF Decide, Leave, kept, child, file, env
    <2>2. ChildPart'
      BY <1>6 DEF ChildPart, Decide, Leave, kept, child, file, env
    <2>3. CleanupPart'
      BY <1>6 DEF ChildPart, CleanupPart, Decide, Leave, kept, child, file, env
    <2>4. FilePart'
      BY <1>6 DEF ChildPart, FilePart, Decide, Leave, kept, child, file, env
    <2> QED
      BY <2>1, <2>2, <2>3, <2>4 DEF IInv
  <1>7. CASE Publish
    <2>1. Control'
      BY <1>7 DEF Publish, Goto, loop, child, env
    <2>2. ChildPart'
      BY <1>7 DEF ChildPart, Publish, Goto, loop, child, env
    <2>3. CleanupPart'
      BY <1>7 DEF ChildPart, CleanupPart, Publish, Goto, loop, child, env
    <2>4. FilePart'
      BY <1>7 DEF ChildPart, FilePart, Publish, Goto, loop, child, env
    <2> QED
      BY <2>1, <2>2, <2>3, <2>4 DEF IInv
  <1>8. CASE Account
    <2>1. Control'
      BY <1>8 DEF Account, Leave, loop, child, file, env
    <2>2. ChildPart'
      BY <1>8 DEF ChildPart, Account, Leave, loop, child, file, env
    <2>3. CleanupPart'
      BY <1>8 DEF ChildPart, CleanupPart, Account, Leave, loop, child, file, env
    <2>4. FilePart'
      BY <1>8 DEF ChildPart, FilePart, Account, Leave, loop, child, file, env
    <2> QED
      BY <2>1, <2>2, <2>3, <2>4 DEF IInv
  <1>9. CASE Prune
    <2>1. Control'
      BY <1>9 DEF Prune, Leave, loop, child, file, env
    <2>2. ChildPart'
      BY <1>9 DEF ChildPart, Prune, Leave, loop, child, file, env
    <2>3. CleanupPart'
      BY <1>9 DEF ChildPart, CleanupPart, Prune, Leave, loop, child, file, env
    <2>4. FilePart'
      BY <1>9 DEF ChildPart, FilePart, Prune, Leave, loop, child, file, env
    <2> QED
      BY <2>1, <2>2, <2>3, <2>4 DEF IInv
  <1>10. CASE Untrap
    <2>1. Control'
      BY <1>10 DEF Untrap, loop, kept, child, file, env
    <2>2. ChildPart'
      BY <1>10 DEF ChildPart, Untrap, loop, kept, child, file, env
    <2>3. CleanupPart'
      BY <1>10 DEF ChildPart, CleanupPart, Untrap, loop, kept, child, file, env
    <2>4. FilePart'
      BY <1>10 DEF ChildPart, FilePart, Untrap, loop, kept, child, file, env
    <2> QED
      BY <2>1, <2>2, <2>3, <2>4 DEF IInv
  <1>11. CASE ClTerm
    <2>1. Control'
      BY <1>11 DEF ClTerm, Goto, TermChild, Termed, loop, kept, file, env
    <2>2. ChildPart'
      BY <1>11 DEF ChildPart, ClTerm, Goto, TermChild, Termed, loop, kept, file, env
    <2>3. CleanupPart'
      BY <1>11 DEF ChildPart, CleanupPart, ClTerm, Goto, TermChild, Termed, loop, kept, file, env
    <2>4. FilePart'
      BY <1>11 DEF ChildPart, FilePart, ClTerm, Goto, TermChild, Termed, loop, kept, file, env
    <2> QED
      BY <2>1, <2>2, <2>3, <2>4 DEF IInv
  <1>12. CASE ClWait
    <2>1. Control'
      BY <1>12 DEF ClWait, Goto, loop, kept, child, file, env
    <2>2. ChildPart'
      BY <1>12 DEF ChildPart, ClWait, Goto, loop, kept, child, file, env
    <2>3. CleanupPart'
      BY <1>12 DEF ChildPart, CleanupPart, ClWait, Goto, loop, kept, child, file, env
    <2>4. FilePart'
      BY <1>12 DEF ChildPart, FilePart, ClWait, Goto, loop, kept, child, file, env
    <2> QED
      BY <2>1, <2>2, <2>3, <2>4 DEF IInv
  <1>13. CASE ClStatus
    <2>1. Control'
      BY <1>13 DEF ClStatus, Command, loop, kept, child, file
    <2>2. ChildPart'
      BY <1>13 DEF ChildPart, ClStatus, Command, loop, kept, child, file
    <2>3. CleanupPart'
      BY <1>13 DEF ChildPart, CleanupPart, ClStatus, Command, loop, kept, child, file
    <2>4. FilePart'
      BY <1>13 DEF ChildPart, FilePart, ClStatus, Command, loop, kept, child, file
    <2> QED
      BY <2>1, <2>2, <2>3, <2>4 DEF IInv
  <1>14. CASE ClStop
    <2>1. Control'
      BY <1>14 DEF ClStop, Goto, Command, loop, kept, file
    <2>2. ChildPart'
      BY <1>14 DEF ChildPart, ClStop, Goto, Command, loop, kept, file
    <2>3. CleanupPart'
      BY <1>14 DEF ChildPart, CleanupPart, ClStop, Goto, Command, loop, kept, file
    <2>4. FilePart'
      BY <1>14 DEF ChildPart, FilePart, ClStop, Goto, Command, loop, kept, file
    <2> QED
      BY <2>1, <2>2, <2>3, <2>4 DEF IInv
  <1>15. CASE ClVerify
    <2>1. Control'
      BY <1>15 DEF ClVerify, Goto, Command, loop, kept, child, file
    <2>2. ChildPart'
      BY <1>15 DEF ChildPart, ClVerify, Goto, Command, loop, kept, child, file
    <2>3. CleanupPart'
      BY <1>15 DEF ChildPart, CleanupPart, ClVerify, Goto, Command, loop, kept, child, file
    <2>4. FilePart'
      BY <1>15 DEF ChildPart, FilePart, ClVerify, Goto, Command, loop, kept, child, file
    <2> QED
      BY <2>1, <2>2, <2>3, <2>4 DEF IInv
  <1>16. CASE ClRm
    <2>1. Control'
      BY <1>16 DEF ClRm, Goto, loop, kept, child, env
    <2>2. ChildPart'
      BY <1>16 DEF ChildPart, ClRm, Goto, loop, kept, child, env
    <2>3. CleanupPart'
      BY <1>16 DEF ChildPart, CleanupPart, ClRm, Goto, loop, kept, child, env
    <2>4. FilePart'
      BY <1>16 DEF ChildPart, FilePart, ClRm, Goto, loop, kept, child, env
    <2> QED
      BY <2>1, <2>2, <2>3, <2>4 DEF IInv
  <1>17. CASE Attach
    <2>1. Control'
      BY <1>17 DEF Attach, script, loop, kept, env
    <2>2. ChildPart'
      BY <1>17 DEF ChildPart, Attach, script, loop, kept, env
    <2>3. CleanupPart'
      BY <1>17 DEF ChildPart, CleanupPart, Attach, script, loop, kept, env
    <2>4. FilePart'
      BY <1>17 DEF ChildPart, FilePart, Attach, script, loop, kept, env
    <2> QED
      BY <2>1, <2>2, <2>3, <2>4 DEF IInv
  <1>18. CASE Grow
    <2>1. Control'
      BY <1>18 DEF Grow, script, loop, kept, child, env
    <2>2. ChildPart'
      BY <1>18 DEF ChildPart, Grow, script, loop, kept, child, env
    <2>3. CleanupPart'
      BY <1>18 DEF ChildPart, CleanupPart, Grow, script, loop, kept, child, env
    <2>4. FilePart'
      BY <1>18 DEF ChildPart, FilePart, Grow, script, loop, kept, child, env
    <2> QED
      BY <2>1, <2>2, <2>3, <2>4 DEF IInv
  <1>19. CASE EndCapture
    <2>1. Control'
      BY <1>19 DEF EndCapture, script, loop, kept, file, env
    <2>2. ChildPart'
      BY <1>19 DEF ChildPart, EndCapture, script, loop, kept, file, env
    <2>3. CleanupPart'
      BY <1>19 DEF ChildPart, CleanupPart, EndCapture, script, loop, kept, file, env
    <2>4. FilePart'
      BY <1>19 DEF ChildPart, FilePart, EndCapture, script, loop, kept, file, env
    <2> QED
      BY <2>1, <2>2, <2>3, <2>4 DEF IInv
  <1>20. CASE TargetExits
    <2>1. Control'
      BY <1>20 DEF TargetExits, script, loop, kept, file
    <2>2. ChildPart'
      BY <1>20 DEF ChildPart, TargetExits, script, loop, kept, file
    <2>3. CleanupPart'
      BY <1>20 DEF ChildPart, CleanupPart, TargetExits, script, loop, kept, file
    <2>4. FilePart'
      BY <1>20 DEF ChildPart, FilePart, TargetExits, script, loop, kept, file
    <2> QED
      BY <2>1, <2>2, <2>3, <2>4 DEF IInv
  <1>21. CASE Delete
    <2>1. Control'
      BY <1>21 DEF Delete, loop, child, file
    <2>2. ChildPart'
      BY <1>21 DEF ChildPart, Delete, loop, child, file
    <2>3. CleanupPart'
      BY <1>21 DEF ChildPart, CleanupPart, Delete, loop, child, file
    <2>4. FilePart'
      BY <1>21 DEF ChildPart, FilePart, Delete, loop, child, file
    <2> QED
      BY <2>1, <2>2, <2>3, <2>4 DEF IInv
  <1>22. CASE Interrupt
    <2>1. Control'
      BY <1>22 DEF Interrupt, Signalled, TermChild, Termed, loop, kept, file
    <2>2. ChildPart'
      BY <1>22 DEF ChildPart, Interrupt, Signalled, TermChild, Termed, loop, kept, file
    <2>3. CleanupPart'
      BY <1>22 DEF ChildPart, CleanupPart, Interrupt, Signalled, TermChild, Termed, loop, kept, file
    <2>4. FilePart'
      BY <1>22 DEF ChildPart, FilePart, Interrupt, Signalled, TermChild, Termed, loop, kept, file
    <2> QED
      BY <2>1, <2>2, <2>3, <2>4 DEF IInv
  <1>23. CASE InterruptWait
    <2>1. Control'
      BY <1>23 DEF InterruptWait, Signalled, TermChild, Termed, Goto, kept, file
    <2>2. ChildPart'
      BY <1>23 DEF ChildPart, InterruptWait, Signalled, TermChild, Termed, Goto, kept, file
    <2>3. CleanupPart'
      BY <1>23 DEF ChildPart, CleanupPart, InterruptWait, Signalled, TermChild, Termed, Goto, kept, file
    <2>4. FilePart'
      BY <1>23 DEF ChildPart, FilePart, InterruptWait, Signalled, TermChild, Termed, Goto, kept, file
    <2> QED
      BY <2>1, <2>2, <2>3, <2>4 DEF IInv
  <1>24. CASE InterruptSleep
    <2>1. Control'
      BY <1>24 DEF InterruptSleep, Signalled, TermChild, Termed, Leave, loop, kept, file
    <2>2. ChildPart'
      BY <1>24 DEF ChildPart, InterruptSleep, Signalled, TermChild, Termed, Leave, loop, kept, file
    <2>3. CleanupPart'
      BY <1>24 DEF ChildPart, CleanupPart, InterruptSleep, Signalled, TermChild, Termed, Leave, loop, kept, file
    <2>4. FilePart'
      BY <1>24 DEF ChildPart, FilePart, InterruptSleep, Signalled, TermChild, Termed, Leave, loop, kept, file
    <2> QED
      BY <2>1, <2>2, <2>3, <2>4 DEF IInv
  <1>25. CASE Kill
    <2>1. Control'
      BY <1>25 DEF Kill, Signalled, loop, kept, child, file
    <2>2. ChildPart'
      BY <1>25 DEF ChildPart, CleanupPart, Kill, Signalled, loop, kept, child, file
    <2>3. CleanupPart'
      BY <1>25 DEF ChildPart, CleanupPart, Kill, Signalled, loop, kept, child, file
    <2>4. FilePart'
      BY <1>25 DEF ChildPart, FilePart, Kill, Signalled, loop, kept, child, file
    <2> QED
      BY <2>1, <2>2, <2>3, <2>4 DEF IInv
  <1>26. CASE UNCHANGED vars
    BY <1>26 DEF vars, IInv, ChildPart, CleanupPart, FilePart
  <1> QED
    BY <1>1, <1>2, <1>3, <1>4, <1>5, <1>6, <1>7, <1>8, <1>9, <1>10, <1>11, <1>12, <1>13, <1>14, <1>15, <1>16, <1>17, <1>18, <1>19, <1>20, <1>21, <1>22, <1>23, <1>24, <1>25, <1>26 DEF Next, Script

(* The invariant holds throughout. *)
LEMMA Invariance == Spec => []IInv
  BY InitOK, NextOK, PTL DEF Spec

-----------------------------------------------------------------------------
(* What the script promises *)

(* Wherever signals cut in while the traps are set, and whatever asprof    *)
(* answers, the session is stopped or the WARNING is printed (line 84).    *)
THEOREM SessionsStopped == Spec => []SessionStopped
  <1>1. IInv => SessionStopped
    BY DEF IInv, CleanupPart, SessionStopped
  <1> QED
    BY <1>1, Invariance, PTL

(* A wait that a signal ended is never taken for a capture that ended:     *)
(* what is published had come from an asprof that left with status 0, and  *)
(* was within its budget (rotating-jfr.sh:125-138).                        *)
THEOREM WholePublished == Spec => []PublishedIsWhole
  <1>1. IInv => PublishedIsWhole
    BY DEF IInv, ChildPart, FilePart, PublishedIsWhole, Keeping
  <1> QED
    BY <1>1, Invariance, PTL

(* The last command of cleanup leaves no partial file, and no child that   *)
(* could write one follows it (rotating-jfr.sh:70-86).                     *)
THEOREM PartialsRemoved == Spec => []NoPartialLeft
  <1>1. IInv => NoPartialLeft
    BY DEF IInv, FilePart, NoPartialLeft
  <1> QED
    BY <1>1, Invariance, PTL

-----------------------------------------------------------------------------
(* Bytes of sets of profiles *)

(* Profiles are finitely many, and so are their units.                     *)
LEMMA BytesType ==
  ASSUME NEW S, S \subseteq ProfileType
  PROVE  /\ IsFiniteSet(S) /\ IsFiniteSet(Units(S))
         /\ Cardinality(S) \in Nat /\ BytesOf(S) \in Nat
  <1> DEFINE P == (1..MaxRounds) \X (1..Largest)
             f == [p \in P |-> [id |-> p[1], bytes |-> p[2]]]
  <1>1. MaxRounds \in Nat /\ Largest \in Nat
    BY LimitsAssumption
  <1>2. IsFiniteSet(1..MaxRounds) /\ IsFiniteSet(1..Largest)
    BY <1>1, FS_Interval
  <1>3. IsFiniteSet(P)
    BY <1>2, FS_Product
  <1>4. f \in Surjection(P, ProfileType)
    <2>1. \A x \in ProfileType : <<x.id, x.bytes>> \in P /\ f[<<x.id, x.bytes>>] = x
      BY DEF ProfileType
    <2>2. f \in [P -> ProfileType]
      BY DEF ProfileType
    <2> QED
      BY <2>1, <2>2 DEF Surjection
  <1>5. IsFiniteSet(ProfileType)
    BY <1>3, <1>4, FS_Surjection
  <1>6. IsFiniteSet(S)
    BY <1>5, FS_Subset
  <1>7. IsFiniteSet(S \X (1..Largest))
    BY <1>2, <1>6, FS_Product
  <1>8. Units(S) \subseteq S \X (1..Largest)
    <2> SUFFICES ASSUME NEW x \in S, NEW u \in {x} \X (1..x.bytes) PROVE u \in S \X (1..Largest)
      BY DEF Units
    <2>1. x.bytes \in 1..Largest
      BY DEF ProfileType
    <2> QED
      BY <1>1, <2>1
  <1>9. IsFiniteSet(Units(S))
    BY <1>7, <1>8, FS_Subset
  <1> QED
    BY <1>6, <1>9, FS_CardinalityType DEF BytesOf

(* Fewer profiles hold no more bytes.                                      *)
LEMMA BytesMonotone ==
  ASSUME NEW T, T \subseteq ProfileType, NEW S, S \subseteq T
  PROVE  BytesOf(S) <= BytesOf(T)
  <1>1. IsFiniteSet(Units(T))
    BY BytesType
  <1>2. Units(S) \subseteq Units(T)
    BY DEF Units
  <1> QED
    BY <1>1, <1>2, FS_Subset DEF BytesOf

(* A profile that goes takes its bytes with it.                            *)
LEMMA BytesRemove ==
  ASSUME NEW S, S \subseteq ProfileType, NEW x \in S
  PROVE  BytesOf(S) = BytesOf(S \ {x}) + x.bytes
  <1> DEFINE R == Units(S \ {x})
             X == {x} \X (1..x.bytes)
  <1>1. x.bytes \in Nat
    BY DEF ProfileType
  <1>2. IsFiniteSet(R) /\ BytesOf(S \ {x}) \in Nat
    BY BytesType
  <1>3. IsFiniteSet(X) /\ Cardinality(X) = x.bytes
    <2> DEFINE n == x.bytes
    <2>1. IsFiniteSet(1..n) /\ Cardinality(1..n) = n
      <3>1. 1 \in Int /\ n \in Int /\ n \in Nat
        BY <1>1
      <3> HIDE DEF n
      <3>2. IsFiniteSet(1..n) /\ Cardinality(1..n) = IF 1 > n THEN 0 ELSE n - 1 + 1
        BY <3>1, FS_Interval
      <3>3. QED
        BY <3>1, <3>2
    <2>2. IsFiniteSet({x}) /\ Cardinality({x}) = 1
      BY FS_Singleton
    <2>3. IsFiniteSet(X) /\ Cardinality(X) = 1 * x.bytes
      <3> DEFINE one == {x}
                 all == 1..n
      <3>1. IsFiniteSet(one) /\ IsFiniteSet(all) /\ Cardinality(one) = 1 /\ Cardinality(all) = n
        BY <2>1, <2>2
      <3> HIDE DEF one, all, n
      <3>2. IsFiniteSet(one \X all) /\ Cardinality(one \X all) = 1 * n
        BY <3>1, FS_Product
      <3>3. QED
        BY <3>2 DEF one, all, n
    <2> QED
      BY <1>1, <2>3
  <1>4. Units(S) = R \cup X
    BY DEF Units
  <1>5. R \cap X = {}
    BY DEF Units
  <1>6. Cardinality(R \cap X) = 0
    BY <1>5, FS_EmptySet
  <1>7. Cardinality(R \cup X) = Cardinality(R) + Cardinality(X) - Cardinality(R \cap X)
    BY <1>2, <1>3, FS_Union
  <1> QED
    BY <1>1, <1>2, <1>3, <1>4, <1>6, <1>7 DEF BytesOf

(* The files in the directory are no more than the entries of the list.    *)
LEMMA ListedFiles ==
  ASSUME NEW S, S \subseteq ProfileType, NEW s \in Seq(ProfileType),
         \A x \in S : \E i \in DOMAIN s : s[i] = x
  PROVE  Cardinality(S) <= Len(s)
  <1> DEFINE T == {s[i] : i \in DOMAIN s}
  <1>1. Len(s) \in Nat /\ DOMAIN s = 1..Len(s)
    OBVIOUS
  <1>2. [i \in 1..Len(s) |-> s[i]] \in Surjection(1..Len(s), T)
    BY <1>1 DEF Surjection
  <1>3. Cardinality(T) <= Len(s)
    BY <1>1, <1>2, FS_SurjCardinalityBound DEF ExistsSurjection
  <1>4. T \subseteq ProfileType
    BY <1>1
  <1>5. IsFiniteSet(T) /\ Cardinality(T) \in Nat /\ Cardinality(S) \in Nat
    BY <1>4, BytesType
  <1>6. S \subseteq T
    OBVIOUS
  <1>7. Cardinality(S) <= Cardinality(T)
    BY <1>5, <1>6, FS_Subset
  <1> QED
    BY <1>1, <1>3, <1>5, <1>7

-----------------------------------------------------------------------------
(* Retention *)

Limited == {"loop", "spawn", "register", "poll", "wait", "decide", "publish", "account", "untrap"}

(* The profiles the list is to know of: all but the one that was just      *)
(* published.                                                              *)
New == [id |-> sequence, bytes |-> size]
Listed == IF pc = "account" THEN disk \ {New} ELSE disk

(* The list and the total never say less than the directory holds, and are *)
(* within the limits except while the oldest profiles are dropped.         *)
RetentionPart ==
  /\ pc \in {"spawn", "register", "poll", "wait", "decide", "publish", "account"} => sequence >= 1
  /\ pc \in {"publish", "account"} => size > 0
  /\ \A x \in Listed : \E i \in DOMAIN profiles : profiles[i] = x
  /\ BytesOf(Listed) <= total
  /\ pc \in Limited => Len(profiles) <= MaxFiles /\ total <= MaxBytes

(* The variables have their types at the start ...                         *)
LEMMA TypeInit == Init => TypeOK /\ RetentionPart
  <1> SUFFICES ASSUME Init PROVE TypeOK /\ RetentionPart
    OBVIOUS
  <1>1. Units({}) = {}
    BY DEF Units
  <1>2. BytesOf({}) = 0
    BY <1>1, FS_EmptySet DEF BytesOf
  <1>3. disk = {} /\ Listed = {} /\ profiles = <<>> /\ total = 0 /\ pc = "loop"
    BY DEF Init, Listed
  <1>4. RetentionPart
    BY <1>2, <1>3, LimitsAssumption DEF RetentionPart
  <1>5. MaxRounds \in Nat /\ Largest \in Nat /\ MaxSignals \in Nat /\ MaxDeletes \in Nat /\ MaxFaults \in Nat
    BY LimitsAssumption
  <1>6. TypeOK
    BY <1>3, <1>5 DEF Init, TypeOK, PcType, Alive
  <1> QED
    BY <1>4, <1>6

(* ... and keep them; the limits hold again when a round ends.             *)
LEMMA TypeNext == IInv /\ TypeOK /\ RetentionPart /\ [Next]_vars => TypeOK' /\ RetentionPart'
  <1> SUFFICES ASSUME IInv, TypeOK, RetentionPart, [Next]_vars PROVE TypeOK' /\ RetentionPart'
    OBVIOUS
  <1>a. /\ MaxRounds \in Nat /\ Largest \in Nat /\ MaxSignals \in Nat /\ MaxDeletes \in Nat
        /\ MaxFaults \in Nat /\ MaxFiles \in Nat /\ MaxBytes \in Nat
    BY LimitsAssumption
  <1>b. disk \subseteq ProfileType /\ profiles \in Seq(ProfileType) /\ total \in Nat
        /\ size \in 0..Largest /\ sequence \in 0..MaxRounds
    BY DEF TypeOK
  <1>c. IInv'
    BY NextOK
  <1>1. CASE Begin
    BY <1>1, <1>a, <1>c DEF Begin, Leave, loop, kept, child, file, env, TypeOK, RetentionPart, Listed,
                            Limited, IInv, Control
  <1>2. CASE Spawn
    BY <1>2, <1>a, <1>c DEF Spawn, Goto, loop, kept, env, TypeOK, RetentionPart, Listed, Limited, IInv, Control
  <1>3. CASE Publish
    <2>1. /\ disk' = disk \cup {New} /\ pc = "publish" /\ pc' = "account"
          /\ UNCHANGED <<sequence, size, profiles, total>>
      BY <1>3 DEF Publish, Goto, loop, New
    <2>2. New \in ProfileType
      BY <1>b, <2>1 DEF New, ProfileType, RetentionPart
    <2>3. TypeOK'
      BY <1>3, <1>c, <2>1, <2>2 DEF Publish, loop, child, env, TypeOK, IInv, Control
    <2>4. Listed' \subseteq disk /\ Listed = disk
      BY <2>1 DEF Listed, New
    <2>5. BytesOf(Listed') <= total
      <3>1. BytesOf(Listed') <= BytesOf(disk)
        BY <1>b, <2>4, BytesMonotone
      <3>2. BytesOf(disk) <= total
        BY <2>4 DEF RetentionPart
      <3>3. BytesOf(Listed') \in Nat /\ BytesOf(disk) \in Nat
        BY <1>b, <2>4, BytesType
      <3> QED
        BY <1>b, <3>1, <3>2, <3>3
    <2>6. RetentionPart'
      BY <2>1, <2>4, <2>5 DEF RetentionPart, Limited
    <2> QED
      BY <2>3, <2>6
  <1>4. CASE Account
    <2>1. pc = "account" /\ Listed = disk \ {New} /\ UNCHANGED <<size, sequence>>
      BY <1>4 DEF Account, Listed, loop, file
    <2>2. New \in ProfileType
      BY <1>b, <2>1 DEF New, ProfileType, RetentionPart
    <2>3. CASE New \notin disk \/ size > MaxCapture
      <3>1. /\ pc' = "clTerm" /\ exit' \in {"1", "6"} /\ disk' = Listed
            /\ UNCHANGED <<profiles, total>>
        BY <1>4, <2>1, <2>3 DEF Account, Leave, New, kept
      <3>2. RetentionPart'
        BY <2>1, <3>1 DEF RetentionPart, Listed, Limited
      <3> QED
        BY <1>4, <1>c, <2>1, <3>1, <3>2 DEF Account, loop, child, file, env, TypeOK, IInv, Control
    <2>4. CASE New \in disk /\ ~(size > MaxCapture)
      <3>1. /\ profiles' = Append(profiles, New) /\ total' = total + size /\ pc' = "prune"
            /\ UNCHANGED <<disk, exit>>
        BY <1>4, <2>4 DEF Account, New
      <3>2. TypeOK'
        BY <1>4, <1>b, <1>c, <2>1, <2>2, <3>1 DEF Account, loop, child, file, env, TypeOK, IInv, Control
      <3>3. BytesOf(disk) <= total'
        <4>1. BytesOf(disk) = BytesOf(Listed) + size
          BY <1>b, <2>1, <2>4, BytesRemove DEF New
        <4>2. BytesOf(Listed) <= total
          BY DEF RetentionPart
        <4>3. BytesOf(Listed) \in Nat
          BY <1>b, <2>1, BytesType
        <4> QED
          BY <1>b, <3>1, <4>1, <4>2, <4>3
      <3>4. \A x \in disk : \E i \in DOMAIN profiles' : profiles'[i] = x
        <4>1. \A i \in DOMAIN profiles : i \in DOMAIN profiles' /\ profiles'[i] = profiles[i]
          BY <1>b, <2>2, <3>1
        <4>2. Len(profiles) + 1 \in DOMAIN profiles' /\ profiles'[Len(profiles) + 1] = New
          BY <1>b, <2>2, <3>1
        <4> QED
          BY <2>1, <4>1, <4>2 DEF RetentionPart
      <3>5. RetentionPart'
        BY <3>1, <3>3, <3>4 DEF RetentionPart, Listed, Limited
      <3> QED
        BY <3>2, <3>5
    <2> QED
      BY <2>3, <2>4
  <1>5. CASE Prune
    <2>1. pc = "prune" /\ Listed = disk /\ pc' # "account" /\ Listed' = disk'
          /\ UNCHANGED <<size, sequence>>
      BY <1>5 DEF Prune, Listed, Leave, loop, file
    <2>2. CASE ~OverLimit
      <3>1. pc' = "loop" /\ UNCHANGED <<profiles, total, disk, exit>>
        BY <1>5, <2>2 DEF Prune, kept
      <3>2. RetentionPart'
        BY <1>a, <1>b, <2>1, <2>2, <3>1 DEF RetentionPart, OverLimit
      <3> QED
        BY <1>5, <1>c, <2>1, <3>1, <3>2 DEF Prune, loop, child, file, env, TypeOK, IInv, Control
    <2>3. CASE OverLimit /\ profiles = <<>>
      <3>1. pc' = "clTerm" /\ exit' = "1" /\ UNCHANGED <<profiles, total, disk>>
        BY <1>5, <2>3 DEF Prune, kept, Leave
      <3>2. RetentionPart'
        BY <2>1, <3>1 DEF RetentionPart, Limited
      <3> QED
        BY <1>5, <1>c, <2>1, <3>1, <3>2 DEF Prune, loop, child, file, env, TypeOK, IInv, Control
    <2>4. CASE OverLimit /\ profiles # <<>>
      <3> DEFINE oldest == Head(profiles)
      <3>1. /\ disk' = disk \ {oldest} /\ profiles' = Tail(profiles)
            /\ total' = total - (IF oldest \in disk THEN oldest.bytes ELSE 0)
            /\ UNCHANGED <<pc, exit>>
        BY <1>5, <2>4 DEF Prune
      <3>2. oldest = profiles[1] /\ oldest.bytes \in Nat
        <4>1. oldest = profiles[1] /\ profiles[1] \in ProfileType
          BY <1>b, <2>4
        <4> QED
          BY <4>1 DEF ProfileType
      <3>3. /\ profiles' \in Seq(ProfileType)
            /\ \A i \in DOMAIN profiles : i # 1 => i - 1 \in DOMAIN profiles' /\ profiles'[i - 1] = profiles[i]
        BY <1>b, <2>4, <3>1
      <3> HIDE DEF oldest
      <3>4. BytesOf(disk) <= total /\ BytesOf(disk) \in Nat /\ BytesOf(disk') \in Nat
        BY <1>b, <2>1, <3>1, BytesType DEF RetentionPart
      <3>5. total' \in Nat /\ BytesOf(disk') <= total'
        <4>1. CASE oldest \in disk
          <5>1. BytesOf(disk) = BytesOf(disk') + oldest.bytes
            BY <1>b, <3>1, <4>1, BytesRemove
          <5>2. total' = total - oldest.bytes
            BY <3>1, <4>1
          <5> QED
            BY <1>b, <3>2, <3>4, <5>1, <5>2
        <4>2. CASE oldest \notin disk
          <5>1. disk' = disk
            BY <3>1, <4>2
          <5>2. total' = total - 0
            BY <3>1, <4>2
          <5> QED
            BY <1>b, <3>4, <5>1, <5>2
        <4> QED
          BY <4>1, <4>2
      <3>6. ASSUME NEW x \in disk' PROVE \E i \in DOMAIN profiles' : profiles'[i] = x
        <4>1. PICK i \in DOMAIN profiles : profiles[i] = x
          BY <2>1, <3>1 DEF RetentionPart
        <4>2. i # 1
          BY <3>1, <3>2, <4>1
        <4> QED
          BY <3>3, <4>1, <4>2
      <3>7. RetentionPart'
        BY <2>1, <3>1, <3>5, <3>6 DEF RetentionPart, Limited
      <3> QED
        BY <1>5, <1>b, <1>c, <2>1, <3>1, <3>3, <3>5, <3>7 DEF Prune, loop, child, file, env, TypeOK, IInv, Control
    <2> QED
      BY <2>2, <2>3, <2>4
  <1>6. CASE Decide
    BY <1>6, <1>a, <1>c DEF Decide, Leave, kept, child, file, env, TypeOK, RetentionPart, Listed, Limited,
                            IInv, Control
  <1>7. CASE Grow
    <2>1. pc \notin Keeping /\ pc' = pc /\ size' = size + 1 /\ size < Largest
      BY <1>7 DEF Grow, script, IInv, ChildPart
    <2> QED
      BY <1>7, <1>a, <1>b, <1>c, <2>1 DEF Grow, script, loop, kept, child, env, TypeOK, RetentionPart,
                                          Listed, Limited, Keeping, IInv, Control
  <1>8. CASE Delete
    <2>1. PICK f \in disk : disk' = disk \ {f}
      BY <1>8 DEF Delete
    <2>2. /\ deletes' = deletes + 1 /\ deletes < MaxDeletes
          /\ UNCHANGED <<pc, sequence, size, profiles, total>>
      BY <1>8 DEF Delete, loop, file
    <2>3. TypeOK'
      BY <1>8, <1>a, <1>b, <1>c, <2>1, <2>2 DEF Delete, loop, child, file, TypeOK, IInv, Control
    <2>4. Listed' \subseteq Listed /\ Listed \subseteq ProfileType
      BY <1>b, <2>1, <2>2 DEF Listed, New
    <2>5. BytesOf(Listed') <= BytesOf(Listed) /\ BytesOf(Listed') \in Nat /\ BytesOf(Listed) \in Nat
      BY <2>4, BytesMonotone, BytesType
    <2>6. RetentionPart'
      BY <1>b, <2>2, <2>4, <2>5 DEF RetentionPart
    <2> QED
      BY <2>3, <2>6
  <1>9. ASSUME UNCHANGED <<sequence, size, profiles, total, disk>>,
               \/ pc' = pc
               \/ pc # "account" /\ pc' \in Cleaning
               \/ pc \in {"register", "poll", "wait"} /\ pc' \in {"poll", "wait", "decide"}
        PROVE  RetentionPart'
    BY <1>9 DEF RetentionPart, Listed, New, Limited, Cleaning
  <1>10. CASE UNCHANGED vars
    <2>1. UNCHANGED <<sequence, size, profiles, total, disk>> /\ (pc' = pc \/ (pc # "account" /\ pc' \in Cleaning))
      BY <1>10 DEF vars
    <2>2. RetentionPart'
      BY <1>9, <2>1
    <2>3. TypeOK'
      BY <1>10, <1>a, <1>c, <2>1 DEF vars, TypeOK, IInv, Control
    <2> QED
      BY <2>2, <2>3
  <1>11. CASE Register
    BY <1>9, <1>11, <1>a, <1>c DEF Register, Goto, loop, kept, child, file, env, TypeOK, Cleaning, IInv, Control
  <1>12. CASE Poll
    BY <1>9, <1>12, <1>a, <1>c DEF Poll, Goto, Termed, Alive, kept, file, env, TypeOK, Cleaning, IInv, Control
  <1>13. CASE Wait
    BY <1>9, <1>13, <1>a, <1>c DEF Wait, Goto, kept, child, file, env, TypeOK, Cleaning, IInv, Control
  <1>14. CASE Untrap
    BY <1>9, <1>14, <1>a, <1>c DEF Untrap, loop, kept, child, file, env, TypeOK, Cleaning, IInv, Control
  <1>15. CASE ClTerm
    BY <1>9, <1>15, <1>a, <1>c DEF ClTerm, Goto, TermChild, Termed, Alive, loop, kept, file, env, TypeOK, Cleaning, IInv, Control
  <1>16. CASE ClWait
    BY <1>9, <1>16, <1>a, <1>c DEF ClWait, Goto, loop, kept, child, file, env, TypeOK, Cleaning, IInv, Control
  <1>17. CASE ClStatus
    BY <1>9, <1>17, <1>a, <1>c DEF ClStatus, Command, loop, kept, child, file, TypeOK, Cleaning, IInv, Control
  <1>18. CASE ClStop
    BY <1>9, <1>18, <1>a, <1>c DEF ClStop, Goto, Command, loop, kept, file, TypeOK, Cleaning, IInv, Control
  <1>19. CASE ClVerify
    BY <1>9, <1>19, <1>a, <1>c DEF ClVerify, Goto, Command, loop, kept, child, file, TypeOK, Cleaning, IInv, Control
  <1>20. CASE ClRm
    BY <1>9, <1>20, <1>a, <1>c DEF ClRm, Goto, loop, kept, child, env, TypeOK, Cleaning, IInv, Control
  <1>21. CASE Attach
    <2>1. UNCHANGED <<sequence, size, profiles, total, disk>> /\ (pc' = pc \/ (pc # "account" /\ pc' \in Cleaning))
      BY <1>21 DEF Attach, script, loop, kept, env
    <2>2. RetentionPart'
      BY <1>9, <2>1
    <2>3. TypeOK'
      BY <1>21, <1>a, <1>c, <2>1 DEF Attach, script, loop, kept, env, TypeOK, IInv, Control
    <2> QED
      BY <2>2, <2>3
  <1>22. CASE EndCapture
    <2>1. UNCHANGED <<sequence, size, profiles, total, disk>> /\ (pc' = pc \/ (pc # "account" /\ pc' \in Cleaning))
      BY <1>22 DEF EndCapture, script, loop, kept, file, env
    <2>2. RetentionPart'
      BY <1>9, <2>1
    <2>3. TypeOK'
      BY <1>22, <1>a, <1>c, <2>1 DEF EndCapture, script, loop, kept, file, env, TypeOK, IInv, Control
    <2> QED
      BY <2>2, <2>3
  <1>23. CASE TargetExits
    <2>1. UNCHANGED <<sequence, size, profiles, total, disk>> /\ (pc' = pc \/ (pc # "account" /\ pc' \in Cleaning))
      BY <1>23 DEF TargetExits, script, loop, kept, file
    <2>2. RetentionPart'
      BY <1>9, <2>1
    <2>3. TypeOK'
      BY <1>23, <1>a, <1>c, <2>1 DEF TargetExits, script, loop, kept, file, TypeOK, IInv, Control
    <2> QED
      BY <2>2, <2>3
  <1>24. CASE Interrupt
    <2>1. UNCHANGED <<sequence, size, profiles, total, disk>> /\ (pc' = pc \/ (pc # "account" /\ pc' \in Cleaning))
      BY <1>24 DEF Interrupt, Signalled, TermChild, Termed, Alive, loop, kept, file
    <2>2. RetentionPart'
      BY <1>9, <2>1
    <2>3. TypeOK'
      BY <1>24, <1>a, <1>c, <2>1 DEF Interrupt, Signalled, TermChild, Termed, Alive, loop, kept, file, TypeOK, IInv, Control
    <2> QED
      BY <2>2, <2>3
  <1>25. CASE InterruptWait
    BY <1>9, <1>25, <1>a, <1>c DEF InterruptWait, Signalled, TermChild, Termed, Alive, Goto, kept, file, TypeOK, Cleaning, IInv, Control
  <1>26. CASE InterruptSleep
    BY <1>9, <1>26, <1>a, <1>c DEF InterruptSleep, Signalled, TermChild, Termed, Alive, Leave, loop, kept, file, TypeOK, Cleaning, IInv, Control
  <1>27. CASE Kill
    <2>1. UNCHANGED <<sequence, size, profiles, total, disk>> /\ (pc' = pc \/ (pc # "account" /\ pc' \in Cleaning))
      BY <1>27 DEF Kill, Signalled, loop, kept, child, file, IInv, CleanupPart, Cleaning
    <2>2. RetentionPart'
      BY <1>9, <2>1
    <2>3. TypeOK'
      BY <1>27, <1>a, <1>c, <2>1 DEF Kill, Signalled, loop, kept, child, file, TypeOK, IInv, Control
    <2> QED
      BY <2>2, <2>3
  <1> QED
    BY <1>1, <1>2, <1>3, <1>4, <1>5, <1>6, <1>7, <1>8, <1>10, <1>11, <1>12, <1>13, <1>14, <1>15, <1>16, <1>17, <1>18, <1>19, <1>20, <1>21, <1>22, <1>23, <1>24, <1>25, <1>26, <1>27 DEF Next, Script

(* In every run the variables hold what the script puts in them.           *)
THEOREM TypeCorrect == Spec => []TypeOK
  BY InitOK, NextOK, TypeInit, TypeNext, PTL DEF Spec

(* Whenever a round ends no more than MAX_FILES profiles and no more than  *)
(* MAX_TOTAL_BYTES are in the directory (rotating-jfr.sh:149-155), also    *)
(* when the operator has removed some of them.                             *)
THEOREM Retention == Spec => []RetentionBounded
  <1>1. TypeOK /\ RetentionPart => RetentionBounded
    <2> SUFFICES ASSUME TypeOK, RetentionPart, pc \in {"loop", "untrap"}
                 PROVE  Cardinality(disk) <= MaxFiles /\ BytesOf(disk) <= MaxBytes
      BY DEF RetentionBounded
    <2>1. /\ disk \subseteq ProfileType /\ profiles \in Seq(ProfileType) /\ total \in Nat
          /\ Len(profiles) <= MaxFiles /\ total <= MaxBytes /\ BytesOf(disk) <= total
          /\ \A x \in disk : \E i \in DOMAIN profiles : profiles[i] = x
      BY DEF TypeOK, RetentionPart, Listed, Limited
    <2>2. Cardinality(disk) <= Len(profiles)
      BY <2>1, ListedFiles
    <2>3. Cardinality(disk) \in Nat /\ BytesOf(disk) \in Nat /\ Len(profiles) \in Nat
      BY <2>1, BytesType
    <2> QED
      BY <2>1, <2>2, <2>3, LimitsAssumption
  <1> QED
    BY <1>1, InitOK, NextOK, TypeInit, TypeNext, PTL DEF Spec
=============================================================================
