--------------------------- MODULE LabTuneProofs ---------------------------
(***************************************************************************)
(* Proofs about LabTune for every plan, host and bound.                    *)
(*                                                                         *)
(* The safety invariants are not inductive by themselves: what protects    *)
(* the host is that the two arrays and rollback.tsv stay in step with the  *)
(* loop index.  IInv says how.                                             *)
(***************************************************************************)
EXTENDS LabTune, SequenceTheorems, TLAPS

(* cmd_apply works on the entry idx ... *)
OnEntry == {"trackPath", "trackOrig", "write", "refused", "unrecord"}
(* ... which is the last element of applied_paths ... *)
EntryTracked == {"trackOrig", "write", "refused"}
(* ... and is anywhere in its loop. *)
Looping == OnEntry \cup {"record", "disarm"}

Before(p) == \E i \in 1..(idx - 1) : Plan[i] = p
Recorded(p) == \E k \in 1..Len(record) : record[k] = <<p, originals[p]>>
InPaths(p, n) == \E k \in 1..n : paths[k] = p

(* rollback.tsv holds true originals; its lines come from entries before   *)
(* the current one, whose own line is the last.                            *)
LogInv ==
  /\ \A k \in 1..Len(record) : record[k][2] = originals[record[k][1]]
  /\ pc = "record" => \A k \in 1..Len(record) : Before(record[k][1])
  /\ pc \in OnEntry =>
       /\ Len(record) > 0
       /\ record[Len(record)] = <<Entry, originals[Entry]>>
       /\ \A k \in 1..(Len(record) - 1) : Before(record[k][1])

(* The arrays agree with each other and name recorded entries only. *)
ArrayInv ==
  /\ \A k \in 1..Len(origs) : origs[k] = originals[paths[k]]
  /\ pc # "start" => \A k \in 1..Len(paths) : Recorded(paths[k])
  /\ pc \in {"record", "trackPath", "unrecord"} =>
       \A k \in 1..Len(paths) : Before(paths[k])
  /\ pc \in EntryTracked =>
       /\ Len(paths) > 0 /\ paths[Len(paths)] = Entry
       /\ \A k \in 1..(Len(paths) - 1) : Before(paths[k])
  /\ pc = "trackOrig" => Len(origs) = Len(paths) - 1
  /\ pc \in Looping \ {"trackOrig"} => Len(origs) = Len(paths)

(* Nothing at or after the loop index has been written yet. *)
AheadInv ==
  /\ pc = "start" =>
       /\ live = originals /\ record = <<>> /\ status = "absent" /\ idx = 1
       /\ paths = <<>> /\ origs = <<>>
  /\ pc \in OnEntry \cup {"record"} => idx \in 1..Len(Plan)
  /\ pc \in {"record", "trackPath", "trackOrig", "write"} =>
       \A i \in idx..Len(Plan) : Restored(Plan[i])
  /\ pc \in {"refused", "unrecord"} =>
       \A i \in (idx + 1)..Len(Plan) : Restored(Plan[i])
  /\ pc = "unrecord" => Restored(Entry)

(* Where the knobs that are not back can be: still in the part of the      *)
(* arrays to be undone, or named in a "FAILED to restore" line.            *)
UndoInv ==
  /\ pc \in Looping =>
       \A p \in Paths \ HugePaths : Restored(p) \/ InPaths(p, Len(paths))
  /\ pc \in Undoing =>
       \A p \in Paths \ HugePaths :
         Restored(p) \/ InPaths(p, j) \/ p \in reported
  /\ pc \in Undoing \ {"intUndo"} /\ bad = 0 =>
       \A p \in Paths \ HugePaths : Restored(p) \/ InPaths(p, j)
  /\ pc \in {"undoMark", "undoExit6"} \/ (pc = "restoreMark" /\ bad = 0) =>
       \A p \in Paths \ HugePaths : Restored(p)
  /\ pc \in {"undoFailed", "undoExit7", "intMark"} =>
       \A p \in Paths \ HugePaths : Restored(p) \/ p \in reported

(* A marked directory is out of reach: only an interrupt after the failure *)
(* rollback can still run the loop, over arrays it finds empty.            *)
MarkInv ==
  /\ pc \in {"undoMark", "undoFailed", "undoExit6", "undoExit7"} =>
       paths = <<>> /\ origs = <<>>
  /\ status \in RolledBack =>
       /\ pc \in {"undoExit6", "intUndo", "intMark", "idle"}
       /\ pc = "intUndo" => paths = <<>> /\ origs = <<>>
       /\ pc \in {"intUndo", "intMark"} => bad = 0

InForce(i) ==
  IF \E k \in 1..Len(record) : record[k][1] = Plan[i]
  THEN live[Plan[i]] = Wanted[Plan[i]] \/ Plan[i] \in HugePaths
  ELSE Restored(Plan[i]) /\ Plan[i] \in IrqPaths

(* The part of the plan the loop has passed is in force or skipped. *)
AppliedInv ==
  /\ pc \in OnEntry \cup {"record"} => \A i \in 1..(idx - 1) : InForce(i)
  /\ pc = "unrecord" => Entry \in IrqPaths
  /\ pc \in {"disarm", "mark"} => \A i \in 1..Len(Plan) : InForce(i)
  /\ status = "applied" => pc \in {"idle", "restore", "restoreMark"}

IInv ==
  /\ TypeOK /\ LogInv /\ ArrayInv /\ AheadInv /\ UndoInv /\ MarkInv /\ AppliedInv
  /\ RecordedBeforeWritten /\ NewestFirst /\ AppliedIsInForce
  /\ MarkedMeansRestored /\ InterruptIsHonest
-----------------------------------------------------------------------------

(* The kernel answers a write with a value the knob can hold. *)
LEMMA KernelType ==
  ASSUME NEW p \in Paths, NEW v \in Values, NEW f \in BOOLEAN,
         live \in [Paths -> Values], NEW r \in Kernel(p, v, f)
  PROVE  r.rc \in {0, 1} /\ r.value \in Values
<1>1. CASE r = [rc |-> 0, value |-> v]
  BY <1>1
<1>2. CASE r = [rc |-> 1, value |-> live[p]]
  BY <1>2
<1>3. CASE \E w \in Values : r = [rc |-> 0, value |-> w]
  BY <1>3
<1> QED
  BY <1>1, <1>2, <1>3 DEF Kernel

(* A write that verified left the value asked for, huge pages apart. *)
LEMMA KernelVerified ==
  ASSUME NEW p, NEW v, NEW r, Verified(r, p, v), p \notin HugePaths
  PROVE  r.value = v
  BY DEF Verified

(* The loop index names a knob of the plan. *)
LEMMA EntryType ==
  ASSUME IInv, pc \in OnEntry \cup {"record"}
  PROVE  /\ idx \in 1..Len(Plan) /\ Len(Plan) \in Nat
         /\ Entry \in Paths /\ Wanted[Entry] \in Values /\ originals[Entry] \in Values
  BY PlanAssumption DEF PlanAssumption, IInv, TypeOK, AheadInv, Entry

(* A line of rollback.tsv is a knob and a value. *)
LEMMA RecordType ==
  ASSUME TypeOK, NEW k \in 1..Len(record)
  PROVE  record[k] = <<record[k][1], record[k][2]>>
         /\ record[k][1] \in Paths /\ record[k][2] \in Values
<1>1. record[k] \in Paths \X Values
  BY DEF TypeOK
<1> QED
  BY <1>1

(* What cmd_rollback reads from rollback.tsv is two sequences. *)
LEMMA FunctionIsSequence ==
  ASSUME NEW S, NEW n \in Nat, NEW f \in [1..n -> S]
  PROVE  f \in Seq(S) /\ Len(f) = n
<1>1. f \in Seq(S)
  BY SeqDef
<1>2. 1..n = 1..Len(f) /\ Len(f) \in Nat
  BY <1>1, LenProperties
<1> QED
  BY <1>1, <1>2

(* What `sed -i '$d'` and `unset 'array[-1]'` leave. *)
LEMMA DropLast ==
  ASSUME NEW S, NEW s \in Seq(S), Len(s) > 0
  PROVE  LET t == SubSeq(s, 1, Len(s) - 1)
         IN  /\ t \in Seq(S) /\ Len(t) = Len(s) - 1
             /\ \A k \in 1..(Len(s) - 1) : t[k] = s[k]
<1>1. Len(s) \in Nat /\ \A i \in 1..(Len(s) - 1) : s[i] \in S
  BY ElementOfSeq, LenProperties
<1> DEFINE n == Len(s) - 1
<1>2. n \in Int /\ 1 \in Int /\ n \in Nat
  BY <1>1
<1>3. \A i \in 1..n : s[i] \in S
  BY <1>1
<1> HIDE DEF n
<1>4. /\ SubSeq(s, 1, n) \in Seq(S)
      /\ Len(SubSeq(s, 1, n)) = IF 1 <= n THEN n - 1 + 1 ELSE 0
      /\ \A i \in 1..(n - 1 + 1) : SubSeq(s, 1, n)[i] = s[1 + i - 1]
  BY <1>2, <1>3, SubSeqProperties
<1>5. /\ SubSeq(s, 1, n) \in Seq(S) /\ Len(SubSeq(s, 1, n)) = n
      /\ \A i \in 1..n : SubSeq(s, 1, n)[i] = s[i]
  BY <1>2, <1>4
<1> QED
  BY <1>5 DEF n

(* The initial host and an empty state directory have the right types. *)
LEMMA TypeInit == Init => TypeOK
<1> SUFFICES ASSUME Init PROVE TypeOK
  OBVIOUS
<1> USE PlanAssumption, HostAssumption DEF PlanAssumption, HostAssumption, Init
<1>1. originals \in [Paths -> Values] /\ record \in Seq(Paths \X Values)
  OBVIOUS
<1>2. paths \in Seq(Paths) /\ origs \in Seq(Values) /\ Len(origs) = Len(paths)
  OBVIOUS
<1>3. idx \in 1..(Len(Plan) + 1)
  OBVIOUS
<1>4. live \in [Paths -> Values] /\ pc = "start" /\ status = "absent" /\ exit = "none"
  OBVIOUS
<1>5. /\ j = 0 /\ bad = 0 /\ reported = {} /\ faults \in 0..MaxFaults
      /\ deaths \in 0..MaxDeaths
  OBVIOUS
<1>6. Len(origs) \in {Len(paths), Len(paths) - 1}
  BY <1>2
<1>7. status \in Statuses /\ exit \in Exits /\ (pc \in Undoing => j <= Len(paths))
  BY <1>4 DEF Statuses, Exits, Undoing
<1> QED
  BY <1>1, <1>2, <1>3, <1>4, <1>5, <1>6, <1>7 DEF TypeOK

(* No command of the script leaves the types. *)
LEMMA TypeStep == IInv /\ [Next]_vars => TypeOK'
<1> SUFFICES ASSUME IInv, [Next]_vars PROVE TypeOK'
  OBVIOUS
<1> USE PlanAssumption, HostAssumption
<1> USE DEF PlanAssumption, HostAssumption
<1> USE DEF IInv, TypeOK, Statuses, RolledBack, Exits, Running, Trapped, Handling, Undoing
<1>0. Len(paths) \in Nat /\ Len(origs) \in Nat /\ Len(record) \in Nat
  OBVIOUS
<1>1. CASE Preflight
  BY <1>1 DEF Preflight, session, arrays, env
<1>2. CASE RecordEntry
  BY <1>2, EntryType DEF RecordEntry, session, arrays, env
<1>3. CASE TrackPath
  BY <1>3, EntryType DEF TrackPath, ArrayInv, OnEntry, Looping, session, arrays, env
<1>4. CASE TrackOriginal
  BY <1>4, EntryType DEF TrackOriginal, ArrayInv, OnEntry, session, arrays, env
<1>5. CASE WriteEntry
  <2> PICK r \in Kernel(Entry, Wanted[Entry], TRUE) :
        live' = [live EXCEPT ![Entry] = r.value]
    BY <1>5 DEF WriteEntry
  <2>1. Entry \in Paths /\ Wanted[Entry] \in Values /\ idx \in 1..Len(Plan)
    BY <1>5, EntryType DEF WriteEntry, OnEntry
  <2>2. live' \in [Paths -> Values]
    BY <2>1, KernelType
  <2>3. idx' \in 1..(Len(Plan) + 1) /\ pc' \in Running
    BY <1>5, <2>1 DEF WriteEntry, Advance
  <2> QED
    BY <2>2, <2>3, <1>5 DEF WriteEntry, Advance, session, arrays, env
<1>6. CASE WriteFailed
  <2>1. Len(origs) = Len(paths) /\ Len(paths) \in Nat \ {0}
    BY <1>6 DEF WriteFailed, Untouched, DropEntry, ArrayInv, EntryTracked, Looping, OnEntry
  <2>2. /\ paths' \in Seq(Paths) /\ origs' \in Seq(Values)
        /\ Len(origs') = Len(paths')
    <3>1. CASE UNCHANGED arrays
      BY <2>1, <3>1 DEF arrays
    <3>2. CASE /\ paths' = SubSeq(paths, 1, Len(paths) - 1)
               /\ origs' = SubSeq(origs, 1, Len(origs) - 1)
      <4>1. paths' \in Seq(Paths) /\ Len(paths') = Len(paths) - 1
        BY <2>1, <3>2
      <4>2. origs' \in Seq(Values) /\ Len(origs') = Len(origs) - 1
        BY <2>1, <3>2
      <4> QED
        BY <4>1, <4>2, <2>1
    <3> QED
      BY <1>6, <3>1, <3>2 DEF WriteFailed, Untouched, DropEntry
  <2>3. j' \in Nat /\ (pc' = "undo" => j' = Len(paths'))
    BY <1>0, <1>6, <2>2 DEF WriteFailed, Untouched, DropEntry
  <2>4. UNCHANGED <<live, session, status, idx, reported, exit, env>> /\ bad' = 0
    BY <1>6 DEF WriteFailed, Untouched, DropEntry
  <2>5. pc' \in {"undo", "unrecord"}
    BY <1>6 DEF WriteFailed, Untouched, DropEntry
  <2> QED
    BY <2>2, <2>3, <2>4, <2>5 DEF session, env
<1>7. CASE UnrecordEntry
  BY <1>7 DEF UnrecordEntry, LogInv, AheadInv, OnEntry, Advance, session, arrays, env
<1>8. CASE Disarm
  BY <1>8 DEF Disarm, session, arrays, env
<1>9. CASE MarkApplied
  BY <1>9 DEF MarkApplied, End, session, arrays, env
<1>10. CASE RestoreEntry
  <2>1. paths[j] \in Paths /\ origs[j] \in Values /\ j - 1 \in Nat
    BY <1>10 DEF RestoreEntry
  <2> PICK r \in Kernel(paths[j], origs[j], faults < MaxFaults) :
        /\ live' = [live EXCEPT ![paths[j]] = r.value]
        /\ IF Verified(r, paths[j], origs[j])
           THEN /\ bad' = bad /\ faults' = faults
                /\ reported' = reported \ {paths[j]}
           ELSE /\ bad' = 1 /\ faults' = faults + 1
                /\ reported' = reported \cup {paths[j]}
    BY <1>10 DEF RestoreEntry
  <2>2. live' \in [Paths -> Values]
    <3>1. (faults < MaxFaults) \in BOOLEAN
      OBVIOUS
    <3>2. r.value \in Values
      BY <2>1, <3>1, KernelType
    <3> QED
      BY <3>2
  <2>3. faults' \in 0..MaxFaults
    BY <2>1 DEF Kernel, Verified
  <2>4. bad' \in {0, 1} /\ reported' \subseteq Paths
    BY <2>1
  <2>5. UNCHANGED <<session, status, pc, idx, arrays, exit, deaths>> /\ j' = j - 1
    BY <1>10 DEF RestoreEntry
  <2> QED
    BY <2>1, <2>2, <2>3, <2>4, <2>5 DEF session, arrays
<1>11. CASE RestoreUnbound
  BY <1>11 DEF RestoreUnbound, End, session, arrays, env
<1>12. CASE RestoreDone
  BY <1>12 DEF RestoreDone, session, arrays, env
<1>13. CASE MarkFailure
  BY <1>13 DEF MarkFailure, session, arrays, env
<1>14. CASE ExitFailure
  BY <1>14 DEF ExitFailure, End, session, arrays, env
<1>15. CASE Interrupt
  BY <1>0, <1>15 DEF Interrupt, session, arrays, env
<1>16. CASE MarkInterrupted
  BY <1>16 DEF MarkInterrupted, End, session, arrays, env
<1>17. CASE Rollback
  <2>1. CASE status \in RolledBack
    BY <1>17, <2>1 DEF Rollback, session, arrays, env
  <2>2. CASE status \notin RolledBack
    <3>1. \A k \in 1..Len(record) : record[k][1] \in Paths /\ record[k][2] \in Values
      BY RecordType
    <3>2. paths' \in [1..Len(record) -> Paths] /\ origs' \in [1..Len(record) -> Values]
      BY <1>17, <2>2, <3>1 DEF Rollback
    <3>3. /\ paths' \in Seq(Paths) /\ Len(paths') = Len(record)
          /\ origs' \in Seq(Values) /\ Len(origs') = Len(record)
      BY <1>0, <3>2, FunctionIsSequence
    <3>4. /\ UNCHANGED <<live, session, status, idx, reported, exit, env>>
          /\ pc' = "restore" /\ bad' = 0 /\ j' = Len(record)
      BY <1>17, <2>2 DEF Rollback
    <3> QED
      BY <1>0, <3>3, <3>4 DEF session, env
  <2> QED
    BY <2>1, <2>2
<1>18. CASE MarkRolledBack
  BY <1>18 DEF MarkRolledBack, End, session, arrays, env
<1>19. CASE Die
  BY <1>19 DEF Die, End, session, arrays, env
<1>20. CASE UNCHANGED vars
  BY <1>20 DEF vars
<1> QED
  BY <1>1, <1>2, <1>3, <1>4, <1>5, <1>6, <1>7, <1>8, <1>9, <1>10, <1>11, <1>12,
     <1>13, <1>14, <1>15, <1>16, <1>17, <1>18, <1>19, <1>20
     DEF Next, Apply, Undo, Finish
-----------------------------------------------------------------------------

(* The steps outside the loop of cmd_apply leave rollback.tsv alone. *)
Outside ==
  \/ Disarm \/ MarkApplied \/ Undo \/ Finish \/ Interrupt \/ Rollback \/ Die

LEMMA OutsideLoop ==
  ASSUME Outside
  PROVE  /\ originals' = originals /\ record' = record /\ idx' = idx
         /\ pc' \notin Looping \cup {"start"}
         /\ live' = live \/ RestoreEntry
<1> USE DEF Looping, OnEntry, session, arrays, env
<1>1. CASE Disarm \/ MarkApplied \/ Die
  BY <1>1 DEF Disarm, MarkApplied, Die, End
<1>2. CASE Undo
  BY <1>2 DEF Undo, RestoreEntry, RestoreUnbound, RestoreDone, Undoing, End
<1>3. CASE Finish
  BY <1>3 DEF Finish, MarkFailure, ExitFailure, MarkInterrupted, MarkRolledBack, End
<1>4. CASE Interrupt \/ Rollback
  BY <1>4 DEF Interrupt, Rollback
<1> QED
  BY <1>1, <1>2, <1>3, <1>4 DEF Outside

(* Every command keeps rollback.tsv true to the originals. *)
LEMMA LogStep == IInv /\ [Next]_vars => LogInv'
<1> SUFFICES ASSUME IInv, [Next]_vars PROVE LogInv'
  OBVIOUS
<1> USE DEF LogInv, OnEntry, Before
<1>0. TypeOK /\ LogInv /\ AheadInv /\ Len(record) \in Nat /\ idx \in Nat
  BY DEF IInv, TypeOK
<1>1. CASE Preflight
  BY <1>0, <1>1 DEF Preflight, AheadInv
<1>2. CASE RecordEntry
  <2>1. /\ record' = Append(record, <<Entry, originals[Entry]>>)
        /\ Len(record') = Len(record) + 1
        /\ \A k \in 1..Len(record) : record'[k] = record[k]
        /\ record'[Len(record')] = <<Entry, originals[Entry]>>
    BY <1>0, <1>2, EntryType DEF RecordEntry, TypeOK
  <2>2. UNCHANGED <<originals, idx>> /\ pc = "record" /\ pc' = "trackPath" /\ Entry' = Entry
    BY <1>2 DEF RecordEntry, Entry
  <2> QED
    BY <1>0, <2>1, <2>2
<1>3. CASE TrackPath \/ TrackOriginal \/ WriteFailed
  BY <1>0, <1>3 DEF TrackPath, TrackOriginal, WriteFailed, Untouched, DropEntry, session, Entry
<1>4. CASE WriteEntry
  <2>1. CASE pc' = "refused"
    BY <1>0, <1>4, <2>1 DEF WriteEntry, Advance, session, Entry
  <2>2. CASE Advance
    <3>1. UNCHANGED <<record, originals>> /\ idx' = idx + 1 /\ pc' \in {"record", "disarm"}
      BY <1>4, <2>2 DEF WriteEntry, Advance, session
    <3>2. record[Len(record)][1] = Plan[idx] /\ idx > 0
      BY <1>0, <1>4 DEF WriteEntry, Entry, TypeOK
    <3>3. \A k \in 1..Len(record) : \E i \in 1..idx : Plan[i] = record[k][1]
      BY <1>0, <1>4, <3>2 DEF WriteEntry
    <3> QED
      BY <1>0, <3>1, <3>3
  <2> QED
    BY <1>4, <2>1, <2>2 DEF WriteEntry
<1>5. CASE UnrecordEntry
  <2>1. /\ Len(record') = Len(record) - 1
        /\ \A k \in 1..Len(record') : record'[k] = record[k]
    <3>1. Len(record) > 0 /\ record' = SubSeq(record, 1, Len(record) - 1)
      BY <1>0, <1>5 DEF UnrecordEntry
    <3> QED
      BY <1>0, <3>1, DropLast DEF TypeOK
  <2>2. idx' = idx + 1 /\ originals' = originals /\ pc' \in {"record", "disarm"}
    BY <1>5 DEF UnrecordEntry, Advance
  <2> QED
    BY <1>0, <1>5, <2>1, <2>2 DEF UnrecordEntry
<1>6. CASE Outside
  BY <1>0, <1>6, OutsideLoop DEF Looping
<1>7. CASE UNCHANGED vars
  BY <1>0, <1>7 DEF vars, Entry
<1> QED
  BY <1>1, <1>2, <1>3, <1>4, <1>5, <1>6, <1>7 DEF Next, Apply, Outside

(* Appending a line to rollback.tsv keeps the lines that are there. *)
LEMMA RecordGrows ==
  ASSUME TypeOK, RecordEntry, Entry \in Paths, originals[Entry] \in Values
  PROVE  /\ Len(record') = Len(record) + 1 /\ Len(record) \in Nat
         /\ record'[Len(record')] = <<Entry, originals[Entry]>>
         /\ \A k \in 1..Len(record) : record'[k] = record[k]
  BY DEF RecordEntry, TypeOK

(* The line removed for a skipped entry is that entry's own: a line of any *)
(* knob that precedes it in the plan stays.                                *)
LEMMA UnrecordKeeps ==
  ASSUME IInv, UnrecordEntry, NEW p, Recorded(p), p # Entry
  PROVE  Recorded(p)'
<1>1. PICK m \in 1..Len(record) : record[m] = <<p, originals[p]>>
  BY DEF Recorded
<1>2. /\ Len(record) > 0 /\ Len(record) \in Nat
      /\ record[Len(record)] = <<Entry, originals[Entry]>>
  BY DEF UnrecordEntry, IInv, LogInv, OnEntry, TypeOK
<1>3. m \in 1..(Len(record) - 1)
  BY <1>1, <1>2
<1>4. Len(record') = Len(record) - 1 /\ record'[m] = record[m]
  BY <1>2, <1>3, DropLast DEF UnrecordEntry, IInv, TypeOK
<1>5. originals' = originals
  BY DEF UnrecordEntry
<1> QED
  BY <1>1, <1>3, <1>4, <1>5 DEF Recorded

(* A knob that precedes the current entry in the plan is another knob. *)
LEMMA BeforeIsOther ==
  ASSUME IInv, pc \in OnEntry \cup {"record"}, NEW p, Before(p)
  PROVE  p # Entry
<1>1. PICK i \in 1..(idx - 1) : Plan[i] = p
  BY DEF Before
<1>2. idx \in 1..Len(Plan) /\ Len(Plan) \in Nat
  BY EntryType
<1>3. i \in 1..Len(Plan) /\ i # idx
  BY <1>2
<1> QED
  BY <1>1, <1>2, <1>3, PlanAssumption DEF PlanAssumption, Entry

(* Every command keeps the two arrays in step with each other and the log. *)
LEMMA ArrayStep == IInv /\ [Next]_vars => ArrayInv'
<1> SUFFICES ASSUME IInv, [Next]_vars PROVE ArrayInv'
  OBVIOUS
<1> USE DEF ArrayInv, OnEntry, EntryTracked, Looping
<1>0. /\ TypeOK /\ LogInv /\ ArrayInv /\ AheadInv
      /\ Len(record) \in Nat /\ Len(paths) \in Nat /\ Len(origs) \in Nat /\ idx \in Nat
  BY DEF IInv, TypeOK
<1>1. CASE Preflight
  BY <1>0, <1>1 DEF Preflight, AheadInv, arrays
<1>2. CASE RecordEntry
  <2>1. \A p : Recorded(p) => Recorded(p)'
    <3>1. originals' = originals
      BY <1>2 DEF RecordEntry
    <3>2. Entry \in Paths /\ originals[Entry] \in Values
      BY <1>2, EntryType DEF RecordEntry
    <3> QED
      BY <1>0, <1>2, <3>1, <3>2, RecordGrows DEF Recorded
  <2>2. UNCHANGED <<originals, idx, paths, origs>> /\ pc = "record" /\ pc' = "trackPath"
    BY <1>2 DEF RecordEntry, arrays
  <2> QED
    BY <1>0, <2>1, <2>2 DEF Before
<1>3. CASE TrackPath
  <2>1. Entry \in Paths
    BY <1>3, EntryType DEF TrackPath
  <2>2. /\ Len(paths') = Len(paths) + 1 /\ paths'[Len(paths')] = Entry
        /\ \A k \in 1..Len(paths) : paths'[k] = paths[k]
    BY <1>0, <1>3, <2>1 DEF TrackPath, TypeOK
  <2>3. /\ UNCHANGED <<originals, record, idx, origs>> /\ Entry' = Entry
        /\ pc = "trackPath" /\ pc' = "trackOrig"
    BY <1>3 DEF TrackPath, session, Entry
  <2>4. Recorded(Entry)
    BY <1>0, <2>3 DEF LogInv, Recorded
  <2>5. \A k \in 1..Len(paths') : Recorded(paths'[k])
    BY <1>0, <2>2, <2>3, <2>4
  <2>6. \A k \in 1..Len(origs) : origs[k] = originals[paths'[k]]
    BY <1>0, <2>2, <2>3
  <2>7. \A k \in 1..Len(paths') :
          \E m \in 1..Len(record) : record[m] = <<paths'[k], originals[paths'[k]]>>
    BY <2>5 DEF Recorded
  <2>8. \A k \in 1..(Len(paths') - 1) : \E i \in 1..(idx - 1) : Plan[i] = paths'[k]
    BY <1>0, <2>2, <2>3 DEF Before
  <2>9. Len(paths') > 0 /\ Len(origs) = Len(paths') - 1
    BY <1>0, <2>2, <2>3
  <2> QED
    BY <2>2, <2>3, <2>6, <2>7, <2>8, <2>9 DEF Recorded, Before
<1>4. CASE TrackOriginal
  <2>1. originals[Entry] \in Values
    BY <1>4, EntryType DEF TrackOriginal
  <2>2. /\ Len(origs') = Len(origs) + 1 /\ origs'[Len(origs')] = originals[Entry]
        /\ \A k \in 1..Len(origs) : origs'[k] = origs[k]
    BY <1>0, <1>4, <2>1 DEF TrackOriginal, TypeOK
  <2>3. /\ UNCHANGED <<originals, record, idx, paths>> /\ Entry' = Entry
        /\ pc = "trackOrig" /\ pc' = "write"
    BY <1>4 DEF TrackOriginal, session, Entry
  <2>4. \A k \in 1..Len(origs') : origs'[k] = originals[paths[k]]
    <3>1. Len(origs) = Len(paths) - 1 /\ paths[Len(paths)] = Entry
      BY <1>0, <2>3
    <3>2. ASSUME NEW k \in 1..Len(origs') PROVE origs'[k] = originals[paths[k]]
      BY <1>0, <2>2, <3>1
    <3> QED
      BY <3>2
  <2>5. \A k \in 1..Len(paths) :
          \E m \in 1..Len(record) : record[m] = <<paths[k], originals[paths[k]]>>
    BY <1>0, <2>3 DEF Recorded
  <2>6. \A k \in 1..(Len(paths) - 1) : \E i \in 1..(idx - 1) : Plan[i] = paths[k]
    BY <1>0, <2>3 DEF Before
  <2>7. Len(origs') = Len(paths) /\ Len(paths) > 0 /\ paths[Len(paths)] = Entry
    BY <1>0, <2>2, <2>3
  <2> QED
    BY <2>3, <2>4, <2>5, <2>6, <2>7 DEF Recorded, Before
<1>5. CASE WriteEntry
  <2>1. UNCHANGED <<originals, record, paths, origs>> /\ pc = "write"
    BY <1>5 DEF WriteEntry, session, arrays
  <2>2. CASE pc' = "refused" /\ idx' = idx
    BY <1>0, <2>1, <2>2 DEF Recorded, Before, Entry
  <2>3. CASE Advance
    <3>1. idx' = idx + 1 /\ pc' \in {"record", "disarm"}
      BY <2>3 DEF Advance
    <3>2. \A k \in 1..Len(paths) : \E i \in 1..idx : Plan[i] = paths[k]
      BY <1>0, <2>1, EntryType DEF Before, Entry
    <3>3. \A k \in 1..Len(paths) :
            \E m \in 1..Len(record) : record[m] = <<paths[k], originals[paths[k]]>>
      BY <1>0, <2>1 DEF Recorded
    <3>4. idx' - 1 = idx /\ Len(origs) = Len(paths)
          /\ \A k \in 1..Len(origs) : origs[k] = originals[paths[k]]
      BY <1>0, <2>1, <3>1
    <3> QED
      BY <2>1, <3>1, <3>2, <3>3, <3>4 DEF Recorded, Before
  <2> QED
    BY <1>5, <2>2, <2>3 DEF WriteEntry
<1>6. CASE WriteFailed
  <2>1. UNCHANGED <<originals, record, idx>> /\ pc = "refused" /\ pc' \in {"undo", "unrecord"}
    BY <1>6 DEF WriteFailed, Untouched, DropEntry, session
  <2>2. CASE UNCHANGED arrays
    <3>1. pc' = "undo"
      <4>1. CASE live[Entry] = originals[Entry]
        <5>1. /\ paths' = SubSeq(paths, 1, Len(paths) - 1) /\ paths' = paths
              /\ Len(paths) > 0
          BY <1>0, <1>6, <2>1, <2>2, <4>1 DEF WriteFailed, Untouched, DropEntry, arrays
        <5>2. Len(paths') = Len(paths) - 1
          BY <1>0, <5>1, DropLast DEF TypeOK
        <5>3. Len(paths) \in Nat
          BY <1>0
        <5>4. FALSE
          BY <5>1, <5>2, <5>3
        <5> QED
          BY <5>4
      <4>2. CASE live[Entry] # originals[Entry]
        BY <1>6, <4>2 DEF WriteFailed, Untouched, DropEntry
      <4> QED
        BY <4>1, <4>2
    <3>2. \A k \in 1..Len(paths) :
            \E m \in 1..Len(record) : record[m] = <<paths[k], originals[paths[k]]>>
      BY <1>0, <2>1 DEF Recorded
    <3> QED
      BY <1>0, <2>1, <2>2, <3>1, <3>2 DEF arrays, Recorded
  <2>3. CASE /\ paths' = SubSeq(paths, 1, Len(paths) - 1)
             /\ origs' = SubSeq(origs, 1, Len(origs) - 1)
    <3>1. /\ Len(paths') = Len(paths) - 1
          /\ \A k \in 1..(Len(paths) - 1) : paths'[k] = paths[k]
      BY <1>0, <2>1, <2>3, DropLast DEF TypeOK
    <3>2. /\ Len(origs') = Len(origs) - 1 /\ Len(origs) = Len(paths)
          /\ \A k \in 1..(Len(origs) - 1) : origs'[k] = origs[k]
      BY <1>0, <2>1, <2>3, DropLast DEF TypeOK
    <3>3. \A k \in 1..Len(paths') :
            \E m \in 1..Len(record) : record[m] = <<paths'[k], originals[paths'[k]]>>
      <4>1. \A k \in 1..Len(paths) : Recorded(paths[k])
        BY <1>0, <2>1
      <4>2. 1..Len(paths') \subseteq 1..Len(paths) /\ 1..Len(paths') = 1..(Len(paths) - 1)
        BY <1>0, <3>1
      <4> QED
        BY <3>1, <4>1, <4>2 DEF Recorded
    <3>5. \A k \in 1..Len(paths') : \E i \in 1..(idx - 1) : Plan[i] = paths'[k]
      BY <1>0, <2>1, <3>1 DEF Before
    <3>4. \A k \in 1..Len(origs') : origs'[k] = originals[paths'[k]]
      BY <1>0, <3>1, <3>2
    <3>6. Len(origs') = Len(paths')
      BY <3>1, <3>2
    <3> QED
      BY <2>1, <3>3, <3>4, <3>5, <3>6 DEF Recorded, Before
  <2> QED
    BY <1>6, <2>2, <2>3 DEF WriteFailed, Untouched, DropEntry
<1>7. CASE UnrecordEntry
  <2>1. /\ UNCHANGED <<originals, paths, origs>> /\ idx' = idx + 1
        /\ pc = "unrecord" /\ pc' \in {"record", "disarm"}
    BY <1>7 DEF UnrecordEntry, Advance, arrays
  <2>2. \A k \in 1..Len(paths) : Before(paths[k]) /\ Recorded(paths[k])
    BY <1>0, <2>1
  <2>3. \A k \in 1..Len(paths) : paths[k] # Entry
    BY <2>1, <2>2, BeforeIsOther
  <2>4. \A k \in 1..Len(paths) : Recorded(paths[k])'
    BY <1>7, <2>2, <2>3, <2>1, UnrecordKeeps
  <2>5. \A k \in 1..Len(paths) : Before(paths[k])'
    BY <1>0, <2>1, <2>2 DEF Before
  <2> QED
    BY <1>0, <2>1, <2>4, <2>5
<1>8. CASE Outside
  <2>1. originals' = originals /\ record' = record /\ pc' \notin Looping \cup {"start"}
    BY <1>8, OutsideLoop
  <2>2. CASE paths' = <<>> /\ origs' = <<>>
    BY <2>1, <2>2
  <2>3. CASE UNCHANGED arrays /\ pc # "start"
    BY <1>0, <2>1, <2>3 DEF arrays, Recorded
  <2>4. CASE Rollback /\ status \notin RolledBack
    <3>1. /\ paths' = [k \in 1..Len(record) |-> record[k][1]]
          /\ origs' = [k \in 1..Len(record) |-> record[k][2]]
      BY <2>4 DEF Rollback
    <3>2. \A k \in 1..Len(record) :
            record[k] = <<record[k][1], originals[record[k][1]]>>
      BY <1>0, RecordType DEF LogInv
    <3>3. /\ paths' \in [1..Len(record) -> Paths] /\ origs' \in [1..Len(record) -> Values]
      BY <1>0, <3>1, RecordType
    <3>4. Len(paths') = Len(record) /\ Len(origs') = Len(record)
      BY <1>0, <3>3, FunctionIsSequence
    <3>5. \A k \in 1..Len(paths') : Recorded(paths'[k])
      BY <3>1, <3>2, <3>4 DEF Recorded
    <3>6. \A k \in 1..Len(origs') : origs'[k] = originals[paths'[k]]
      BY <3>1, <3>2, <3>4
    <3> QED
      BY <2>1, <3>5, <3>6 DEF Recorded
  <2>5. (paths' = <<>> /\ origs' = <<>>) \/ (UNCHANGED arrays /\ pc # "start")
        \/ (Rollback /\ status \notin RolledBack)
    BY <1>8 DEF Outside, Undo, Finish, Disarm, MarkApplied, RestoreEntry, RestoreUnbound,
         RestoreDone, MarkFailure, ExitFailure, Interrupt, MarkInterrupted, Rollback,
         MarkRolledBack, Die, Undoing, Trapped, Running, Handling, arrays
  <2> QED
    BY <2>2, <2>3, <2>4, <2>5
<1>9. CASE UNCHANGED vars
  BY <1>0, <1>9 DEF vars, Recorded, Before, Entry
<1> QED
  BY <1>1, <1>2, <1>3, <1>4, <1>5, <1>6, <1>7, <1>8, <1>9 DEF Next, Apply, Outside

(* A write of the apply loop changes the current entry and no other knob. *)
LEMMA WriteIsLocal ==
  ASSUME IInv, WriteEntry
  PROVE  /\ \A p \in Paths : p # Entry => live'[p] = live[p]
         /\ pc = "write" /\ UNCHANGED <<originals, record, paths, origs, status, exit>>
         /\ \/ pc' = "refused" /\ idx' = idx
            \/ Advance /\ (live'[Entry] = Wanted[Entry] \/ Entry \in HugePaths)
<1>1. Entry \in Paths /\ Wanted[Entry] \in Values /\ live \in [Paths -> Values]
  BY EntryType DEF WriteEntry, OnEntry, IInv, TypeOK
<1>2. PICK r \in Kernel(Entry, Wanted[Entry], TRUE) :
        /\ live' = [live EXCEPT ![Entry] = r.value]
        /\ IF Verified(r, Entry, Wanted[Entry])
           THEN Advance
           ELSE pc' = "refused" /\ idx' = idx
  BY DEF WriteEntry
<1>3. \/ pc' = "refused" /\ idx' = idx
      \/ Advance /\ (live'[Entry] = Wanted[Entry] \/ Entry \in HugePaths)
  BY <1>1, <1>2, KernelVerified
<1> QED
  BY <1>1, <1>2, <1>3 DEF WriteEntry, session, arrays

(* A restoring write changes the knob it names; it leaves it restored, *)
(* reported, or (the huge-page pool) as the kernel would have it.      *)
LEMMA RestoreIsLocal ==
  ASSUME IInv, RestoreEntry
  PROVE  /\ j \in 1..Len(origs) /\ j \in 1..Len(paths) /\ paths[j] \in Paths
         /\ \A p \in Paths : p # paths[j] => live'[p] = live[p]
         /\ pc \in Undoing /\ j' = j - 1
         /\ UNCHANGED <<originals, record, paths, origs, status, exit, pc, idx>>
         /\ \/ /\ bad' = bad /\ reported' = reported \ {paths[j]}
               /\ live'[paths[j]] = originals[paths[j]] \/ paths[j] \in HugePaths
            \/ bad' = 1 /\ reported' = reported \cup {paths[j]}
<1>1. /\ j \in 1..Len(origs) /\ j \in 1..Len(paths) /\ paths[j] \in Paths
      /\ live \in [Paths -> Values] /\ origs[j] = originals[paths[j]]
  <2>1. /\ paths \in Seq(Paths) /\ Len(paths) \in Nat /\ Len(origs) \in Nat
        /\ Len(origs) \in {Len(paths), Len(paths) - 1} /\ j \in 1..Len(origs)
    BY DEF RestoreEntry, IInv, TypeOK
  <2>2. j \in 1..Len(paths)
    BY <2>1
  <2> QED
    BY <2>1, <2>2 DEF IInv, ArrayInv, TypeOK
<1>2. PICK r \in Kernel(paths[j], origs[j], faults < MaxFaults) :
        /\ live' = [live EXCEPT ![paths[j]] = r.value]
        /\ IF Verified(r, paths[j], origs[j])
           THEN /\ bad' = bad /\ faults' = faults
                /\ reported' = reported \ {paths[j]}
           ELSE /\ bad' = 1 /\ faults' = faults + 1
                /\ reported' = reported \cup {paths[j]}
  BY DEF RestoreEntry
<1>3. \/ /\ bad' = bad /\ reported' = reported \ {paths[j]}
         /\ live'[paths[j]] = originals[paths[j]] \/ paths[j] \in HugePaths
      \/ bad' = 1 /\ reported' = reported \cup {paths[j]}
  BY <1>1, <1>2, KernelVerified
<1> QED
  BY <1>1, <1>2, <1>3 DEF RestoreEntry, session, arrays

(* The apply loop never writes ahead of its index. *)
LEMMA AheadStep == IInv /\ [Next]_vars => AheadInv'
<1> SUFFICES ASSUME IInv, [Next]_vars PROVE AheadInv'
  OBVIOUS
<1> USE DEF AheadInv, OnEntry, Restored
<1>0. /\ AheadInv /\ idx \in Nat /\ Len(Plan) \in Nat /\ Len(Plan) > 0
      /\ \A i \in 1..Len(Plan) : Plan[i] \in Paths
  BY PlanAssumption DEF PlanAssumption, IInv, TypeOK
<1>1. CASE Preflight
  BY <1>0, <1>1 DEF Preflight
<1>2. CASE RecordEntry \/ TrackPath \/ TrackOriginal
  BY <1>0, <1>2 DEF RecordEntry, TrackPath, TrackOriginal, session
<1>3. CASE WriteEntry
  <2>1. idx \in 1..Len(Plan) /\ pc = "write" /\ originals' = originals
    BY <1>0, <1>3, WriteIsLocal
  <2>2. \A i \in (idx + 1)..Len(Plan) : live'[Plan[i]] = originals[Plan[i]]
    <3>1. ASSUME NEW i \in (idx + 1)..Len(Plan)
          PROVE  live'[Plan[i]] = originals[Plan[i]]
      <4>1. i \in 1..Len(Plan) /\ i # idx /\ i \in idx..Len(Plan)
        BY <1>0, <2>1
      <4>2. Plan[i] # Entry
        BY <2>1, <4>1, PlanAssumption DEF PlanAssumption, Entry
      <4> QED
        BY <1>0, <1>3, <2>1, <4>1, <4>2, WriteIsLocal
    <3> QED
      BY <3>1
  <2>3. CASE pc' = "refused" /\ idx' = idx
    BY <1>0, <2>1, <2>2, <2>3
  <2>4. CASE Advance
    BY <1>0, <2>1, <2>2, <2>4 DEF Advance
  <2> QED
    BY <1>3, <2>3, <2>4, WriteIsLocal
<1>4. CASE WriteFailed
  BY <1>0, <1>4 DEF WriteFailed, Untouched, DropEntry, session, Entry
<1>5. CASE UnrecordEntry
  BY <1>0, <1>5 DEF UnrecordEntry, Advance
<1>6. CASE Outside
  BY <1>6, OutsideLoop DEF Looping
<1>7. CASE UNCHANGED vars
  BY <1>0, <1>7 DEF vars, Entry
<1> QED
  BY <1>1, <1>2, <1>3, <1>4, <1>5, <1>6, <1>7 DEF Next, Apply, Outside

(* Every command keeps "record before writing". *)
LEMMA RecordedStep == IInv /\ [Next]_vars => RecordedBeforeWritten'
<1> SUFFICES ASSUME IInv, [Next]_vars PROVE RecordedBeforeWritten'
  OBVIOUS
<1>0. RecordedBeforeWritten /\ TypeOK /\ LogInv /\ ArrayInv /\ AheadInv
  BY DEF IInv
<1>1. CASE Preflight
  BY <1>0, <1>1 DEF Preflight, RecordedBeforeWritten, Restored
<1>2. CASE RecordEntry
  <2>1. Entry \in Paths /\ originals[Entry] \in Values
    BY <1>2, EntryType DEF RecordEntry
  <2>2. UNCHANGED <<live, originals>>
    BY <1>2 DEF RecordEntry
  <2>3. ASSUME NEW p \in Paths, ~Restored(p)
        PROVE  \E k \in 1..Len(record') : record'[k] = <<p, originals[p]>>
    <3>1. PICK k \in 1..Len(record) : record[k] = <<p, originals[p]>>
      BY <1>0, <2>3 DEF RecordedBeforeWritten
    <3>2. k \in 1..Len(record') /\ record'[k] = record[k]
      BY <1>0, <1>2, <2>1, RecordGrows
    <3> QED
      BY <3>1, <3>2
  <2> QED
    BY <2>2, <2>3 DEF RecordedBeforeWritten, Restored
<1>3. CASE TrackPath \/ TrackOriginal \/ WriteFailed
  BY <1>0, <1>3 DEF TrackPath, TrackOriginal, WriteFailed, Untouched, DropEntry, session,
     RecordedBeforeWritten, Restored
<1>4. CASE WriteEntry
  <2>1. Recorded(Entry) /\ UNCHANGED <<originals, record>>
    BY <1>0, <1>4, WriteIsLocal DEF LogInv, OnEntry, Recorded, TypeOK
  <2> QED
    BY <1>0, <1>4, <2>1, WriteIsLocal DEF RecordedBeforeWritten, Restored, Recorded
<1>5. CASE UnrecordEntry
  <2>1. Restored(Entry) /\ UNCHANGED <<live, originals>>
    BY <1>0, <1>5 DEF AheadInv, UnrecordEntry
  <2>2. ASSUME NEW p \in Paths, ~Restored(p) PROVE Recorded(p)'
    <3>1. Recorded(p) /\ p # Entry
      BY <1>0, <2>1, <2>2 DEF RecordedBeforeWritten, Recorded
    <3> QED
      BY <1>5, <3>1, UnrecordKeeps
  <2> QED
    BY <2>1, <2>2 DEF RecordedBeforeWritten, Restored, Recorded
<1>6. CASE Outside
  <2>1. UNCHANGED <<originals, record>>
    BY <1>6, OutsideLoop
  <2>2. CASE live' = live
    BY <1>0, <2>1, <2>2 DEF RecordedBeforeWritten, Restored
  <2>3. CASE RestoreEntry
    <3>1. Recorded(paths[j])
      BY <1>0, <2>3, RestoreIsLocal DEF ArrayInv, Undoing
    <3> QED
      BY <1>0, <2>1, <2>3, <3>1, RestoreIsLocal DEF RecordedBeforeWritten, Restored, Recorded
  <2> QED
    BY <1>6, <2>2, <2>3, OutsideLoop
<1>7. CASE UNCHANGED vars
  BY <1>0, <1>7 DEF vars, RecordedBeforeWritten, Restored
<1> QED
  BY <1>1, <1>2, <1>3, <1>4, <1>5, <1>6, <1>7 DEF Next, Apply, Outside

(* A marked directory stays out of reach of the rollback loop. *)
LEMMA MarkStep == IInv /\ [Next]_vars => MarkInv'
<1> SUFFICES ASSUME IInv, [Next]_vars PROVE MarkInv'
  OBVIOUS
<1>0. MarkInv /\ TypeOK /\ (pc = "start" => status = "absent")
  BY DEF IInv, AheadInv
<1>1. CASE Apply
  BY <1>0, <1>1 DEF MarkInv, Apply, Preflight, RecordEntry, TrackPath, TrackOriginal,
     WriteEntry, WriteFailed, Untouched, DropEntry, UnrecordEntry, Disarm, MarkApplied, Advance, End,
     RolledBack, session, arrays
<1>2. CASE Undo
  BY <1>0, <1>2 DEF MarkInv, Undo, RestoreEntry, RestoreUnbound, RestoreDone, Undoing,
     End, RolledBack, session, arrays
<1>3. CASE Finish
  BY <1>0, <1>3 DEF MarkInv, Finish, MarkFailure, ExitFailure, MarkInterrupted,
     MarkRolledBack, End, RolledBack, session, arrays
<1>4. CASE Interrupt \/ Rollback \/ Die
  BY <1>0, <1>4 DEF MarkInv, Interrupt, Rollback, Die, Trapped, End, RolledBack,
     session, arrays
<1>5. CASE UNCHANGED vars
  BY <1>0, <1>5 DEF MarkInv, vars
<1> QED
  BY <1>1, <1>2, <1>3, <1>4, <1>5 DEF Next

(* Every command keeps track of the knobs that are not back. *)
LEMMA UndoStep == IInv /\ [Next]_vars => UndoInv'
<1> SUFFICES ASSUME IInv, [Next]_vars PROVE UndoInv'
  OBVIOUS
<1>0. /\ UndoInv /\ TypeOK /\ ArrayInv /\ AheadInv /\ MarkInv /\ RecordedBeforeWritten
      /\ Len(paths) \in Nat /\ Len(origs) \in Nat /\ j \in Nat /\ Len(record) \in Nat
  BY DEF IInv, TypeOK
<1>1. CASE Preflight
  BY <1>0, <1>1 DEF Preflight, AheadInv, UndoInv, Restored, Looping, OnEntry, Undoing
<1>2. CASE RecordEntry \/ TrackOriginal
  BY <1>0, <1>2 DEF RecordEntry, TrackOriginal, UndoInv, Restored, InPaths,
     Looping, OnEntry, Undoing, session, arrays
<1>3. CASE TrackPath
  <2>1. /\ Len(paths') = Len(paths) + 1
        /\ \A k \in 1..Len(paths) : paths'[k] = paths[k]
    <3>1. Entry \in Paths
      BY <1>3, EntryType DEF TrackPath, OnEntry
    <3> QED
      BY <1>0, <1>3, <3>1 DEF TrackPath, TypeOK
  <2>2. UNCHANGED <<live, originals>> /\ pc = "trackPath" /\ pc' = "trackOrig"
    BY <1>3 DEF TrackPath, session
  <2>3. ASSUME NEW p \in Paths \ HugePaths
        PROVE  Restored(p) \/ \E k \in 1..Len(paths') : paths'[k] = p
    BY <1>0, <2>1, <2>2, <2>3 DEF UndoInv, InPaths, Looping, OnEntry
  <2> QED
    BY <2>2, <2>3 DEF UndoInv, Restored, InPaths, Looping, OnEntry, Undoing
<1>4. CASE WriteEntry
  <2>1. /\ pc = "write" /\ pc' \in Looping /\ UNCHANGED <<originals, paths>>
        /\ \A p \in Paths : p # Entry => live'[p] = live[p]
    BY <1>4, WriteIsLocal DEF Advance, Looping, OnEntry
  <2>2. Len(paths) > 0 /\ paths[Len(paths)] = Entry
    BY <1>0, <2>1 DEF ArrayInv, EntryTracked
  <2>3. ASSUME NEW p \in Paths \ HugePaths
        PROVE  Restored(p)' \/ InPaths(p, Len(paths))
    BY <1>0, <2>1, <2>2, <2>3 DEF UndoInv, InPaths, Looping, OnEntry, Restored
  <2> QED
    BY <2>1, <2>3 DEF UndoInv, Restored, InPaths, Looping, OnEntry, Undoing
<1>5. CASE WriteFailed
  <2>1. /\ UNCHANGED <<live, originals, reported>> /\ pc = "refused"
        /\ (pc' = "unrecord" \/ (pc' = "undo" /\ j' = Len(paths')))
    BY <1>5 DEF WriteFailed, Untouched, DropEntry, session
  <2>2. ASSUME NEW p \in Paths \ HugePaths, ~Restored(p)
        PROVE  \E k \in 1..Len(paths') : paths'[k] = p
    <3>1. PICK k \in 1..Len(paths) : paths[k] = p
      BY <1>0, <2>1, <2>2 DEF UndoInv, InPaths, Looping, OnEntry
    <3>2. CASE live[Entry] # originals[Entry]
      BY <1>5, <3>1, <3>2 DEF WriteFailed, Untouched, DropEntry, arrays
    <3>3. CASE live[Entry] = originals[Entry]
      <4>1. p # Entry /\ paths[Len(paths)] = Entry /\ Len(paths) > 0
        BY <1>0, <2>1, <2>2, <3>3 DEF Restored, ArrayInv, EntryTracked
      <4>2. k \in 1..(Len(paths) - 1)
        BY <1>0, <3>1, <4>1
      <4>3. paths' = SubSeq(paths, 1, Len(paths) - 1)
        BY <1>5, <3>3 DEF WriteFailed, Untouched, DropEntry
      <4>4. Len(paths') = Len(paths) - 1 /\ paths'[k] = paths[k]
        BY <1>0, <4>1, <4>2, <4>3, DropLast DEF TypeOK
      <4> QED
        BY <3>1, <4>2, <4>4
    <3> QED
      BY <3>2, <3>3
  <2> QED
    BY <2>1, <2>2 DEF UndoInv, Restored, InPaths, Looping, OnEntry, Undoing
<1>6. CASE UnrecordEntry \/ Disarm \/ MarkApplied
  BY <1>0, <1>6 DEF UnrecordEntry, Disarm, MarkApplied, Advance, End, UndoInv, Restored,
     InPaths, Looping, OnEntry, Undoing, session, arrays
<1>7. CASE RestoreEntry
  <2>1. /\ pc \in Undoing /\ UNCHANGED <<originals, paths, pc>> /\ j' = j - 1
        /\ j \in 1..Len(paths) /\ paths[j] \in Paths
    BY <1>7, RestoreIsLocal
  <2>2. ASSUME NEW p \in Paths \ HugePaths
        PROVE  Restored(p)' \/ InPaths(p, j - 1) \/ p \in reported'
    <3>1. CASE p = paths[j]
      BY <1>7, <2>1, <2>2, <3>1, RestoreIsLocal DEF Restored
    <3>2. CASE p # paths[j]
      BY <1>0, <1>7, <2>1, <2>2, <3>2, RestoreIsLocal DEF UndoInv, Restored, InPaths
    <3> QED
      BY <3>1, <3>2
  <2>3. ASSUME pc # "intUndo", bad' = 0, NEW p \in Paths \ HugePaths
        PROVE  Restored(p)' \/ InPaths(p, j - 1)
    <3>1. bad = 0 /\ (live'[paths[j]] = originals[paths[j]] \/ paths[j] \in HugePaths)
      BY <1>7, <2>3, RestoreIsLocal
    <3>2. CASE p = paths[j]
      BY <2>1, <2>3, <3>1, <3>2 DEF Restored
    <3>3. CASE p # paths[j]
      BY <1>0, <1>7, <2>1, <2>3, <3>1, <3>3, RestoreIsLocal DEF UndoInv, Restored, InPaths
    <3> QED
      BY <3>2, <3>3
  <2> QED
    BY <2>1, <2>2, <2>3 DEF UndoInv, InPaths, Looping, OnEntry, Undoing
<1>8. CASE RestoreUnbound
  BY <1>0, <1>8 DEF RestoreUnbound, End, UndoInv, Looping, OnEntry, Undoing
<1>9. CASE RestoreDone
  <2>1. UNCHANGED <<live, originals, bad, reported>> /\ j = 0 /\ pc \in Undoing
    BY <1>9 DEF RestoreDone, session
  <2>2. \A p : ~InPaths(p, j)
    BY <2>1 DEF InPaths
  <2>3. \A p \in Paths \ HugePaths : Restored(p) \/ p \in reported
    BY <1>0, <2>1, <2>2 DEF UndoInv
  <2>4. pc # "intUndo" /\ bad = 0 => \A p \in Paths \ HugePaths : Restored(p)
    BY <1>0, <2>1, <2>2 DEF UndoInv
  <2>5. /\ pc' \in {"undoMark", "undoFailed", "intMark", "restoreMark"}
        /\ pc' = "undoMark" => pc = "undo" /\ bad = 0
        /\ pc' = "restoreMark" => pc = "restore"
    BY <1>0, <1>9 DEF RestoreDone, Undoing, TypeOK
  <2> QED
    BY <2>1, <2>3, <2>4, <2>5 DEF UndoInv, Restored, Looping, OnEntry, Undoing
<1>10. CASE Finish
  BY <1>0, <1>10 DEF Finish, MarkFailure, ExitFailure, MarkInterrupted, MarkRolledBack,
     End, UndoInv, Restored, Looping, OnEntry, Undoing, session
<1>11. CASE Interrupt
  <2>1. /\ UNCHANGED <<live, originals, reported, paths>> /\ pc \in Trapped
        /\ pc' = "intUndo" /\ j' = Len(paths)
    BY <1>11 DEF Interrupt, session, arrays
  <2>2. ASSUME NEW p \in Paths \ HugePaths
        PROVE  Restored(p) \/ InPaths(p, Len(paths)) \/ p \in reported
    <3>1. CASE pc \in Looping
      BY <1>0, <2>2, <3>1 DEF UndoInv
    <3>2. CASE pc = "undo"
      BY <1>0, <2>2, <3>2 DEF UndoInv, InPaths, Undoing, TypeOK
    <3>3. CASE pc \in {"undoMark", "undoFailed", "undoExit6", "undoExit7"}
      BY <1>0, <2>2, <3>3 DEF UndoInv
    <3> QED
      BY <2>1, <3>1, <3>2, <3>3 DEF Trapped, Looping, OnEntry
  <2> QED
    BY <2>1, <2>2 DEF UndoInv, Restored, InPaths, Looping, OnEntry, Undoing
<1>12. CASE Rollback
  <2>1. CASE status \in RolledBack
    BY <1>0, <1>12, <2>1 DEF Rollback, UndoInv, Restored, InPaths, Looping, OnEntry,
       Undoing, session, arrays
  <2>2. CASE status \notin RolledBack
    <3>1. /\ UNCHANGED <<live, originals, reported>> /\ pc' = "restore" /\ j' = Len(record)
          /\ paths' = [k \in 1..Len(record) |-> record[k][1]]
      BY <1>12, <2>2 DEF Rollback, session
    <3>2. ASSUME NEW p \in Paths, ~Restored(p)
          PROVE  \E k \in 1..Len(record) : paths'[k] = p
      <4>1. PICK k \in 1..Len(record) : record[k] = <<p, originals[p]>>
        BY <1>0, <3>2 DEF RecordedBeforeWritten
      <4> QED
        BY <3>1, <4>1
    <3> QED
      BY <3>1, <3>2 DEF UndoInv, Restored, InPaths, Looping, OnEntry, Undoing
  <2> QED
    BY <2>1, <2>2
<1>13. CASE Die
  BY <1>0, <1>13 DEF Die, End, UndoInv, Looping, OnEntry, Undoing
<1>14. CASE UNCHANGED vars
  BY <1>0, <1>14 DEF vars, UndoInv, Restored, InPaths
<1> QED
  BY <1>1, <1>2, <1>3, <1>4, <1>5, <1>6, <1>7, <1>8, <1>9, <1>10, <1>11, <1>12,
     <1>13, <1>14 DEF Next, Apply, Undo

(* The rollback loop keeps its order. *)
LEMMA NewestFirstStep == IInv /\ [Next]_vars => NewestFirst'
<1> SUFFICES ASSUME IInv, [Next]_vars PROVE NewestFirst'
  OBVIOUS
<1> USE DEF NewestFirst, Undoing
<1>0. /\ NewestFirst /\ TypeOK /\ ArrayInv
      /\ Len(paths) \in Nat /\ Len(origs) \in Nat /\ j \in Nat /\ Len(record) \in Nat
  BY DEF IInv, TypeOK
<1>1. CASE Preflight \/ RecordEntry \/ TrackPath \/ TrackOriginal \/ WriteEntry
           \/ UnrecordEntry \/ Disarm \/ MarkApplied
  BY <1>1 DEF Preflight, RecordEntry, TrackPath, TrackOriginal, WriteEntry,
     UnrecordEntry, Disarm, MarkApplied, Advance, End
<1>2. CASE WriteFailed
  <2>1. pc' = "unrecord" \/ (pc' = "undo" /\ j' = Len(paths'))
    BY <1>2 DEF WriteFailed, Untouched, DropEntry
  <2>2. Len(origs') = Len(paths') /\ Len(paths') \in Nat
    <3>1. Len(origs) = Len(paths) /\ Len(paths) > 0
      BY <1>0, <1>2 DEF WriteFailed, Untouched, DropEntry, ArrayInv, EntryTracked, Looping, OnEntry
    <3>2. CASE UNCHANGED arrays
      BY <1>0, <3>1, <3>2 DEF arrays
    <3>3. CASE /\ paths' = SubSeq(paths, 1, Len(paths) - 1)
               /\ origs' = SubSeq(origs, 1, Len(origs) - 1)
      BY <1>0, <3>1, <3>3, DropLast DEF TypeOK
    <3> QED
      BY <1>2, <3>2, <3>3 DEF WriteFailed, Untouched, DropEntry
  <2> QED
    BY <2>1, <2>2
<1>3. CASE RestoreEntry
  <2>1. /\ UNCHANGED <<originals, paths, origs, pc>> /\ j' = j - 1 /\ j \in 1..Len(origs)
        /\ paths[j] \in Paths /\ pc \in Undoing
    BY <1>3, RestoreIsLocal
  <2>2. ASSUME NEW k \in j..Len(origs)
        PROVE  live'[paths[k]] = originals[paths[k]] \/ paths[k] \in reported' \cup HugePaths
    <3>1. paths[k] \in Paths
      BY <1>0, <2>1, <2>2 DEF TypeOK
    <3>2. CASE paths[k] = paths[j]
      BY <1>3, <3>2, RestoreIsLocal
    <3>3. CASE paths[k] # paths[j]
      <4>1. k \in (j + 1)..Len(origs)
        BY <1>0, <2>1, <2>2, <3>3
      <4>2. Restored(paths[k]) \/ paths[k] \in reported \cup HugePaths
        BY <1>0, <2>1, <4>1
      <4> QED
        BY <1>3, <2>1, <3>1, <3>3, <4>2, RestoreIsLocal DEF Restored
    <3> QED
      BY <3>2, <3>3
  <2>3. \A k \in (j' + 1)..Len(origs) : k \in j..Len(origs)
    BY <1>0, <2>1
  <2> QED
    BY <2>1, <2>2, <2>3 DEF Restored
<1>4. CASE RestoreUnbound \/ RestoreDone
  BY <1>4 DEF RestoreUnbound, RestoreDone, End
<1>5. CASE Finish
  BY <1>5 DEF Finish, MarkFailure, ExitFailure, MarkInterrupted, MarkRolledBack, End
<1>6. CASE Interrupt
  <2>1. pc' = "intUndo" /\ j' = Len(paths) /\ origs' = origs
    BY <1>6 DEF Interrupt, arrays
  <2>2. (j' + 1)..Len(origs') = {}
    BY <1>0, <2>1 DEF TypeOK
  <2> QED
    BY <2>1, <2>2
<1>7. CASE Rollback
  <2>1. CASE status \in RolledBack
    BY <1>7, <2>1 DEF Rollback
  <2>2. CASE status \notin RolledBack
    <3>1. j' = Len(record) /\ origs' = [k \in 1..Len(record) |-> record[k][2]]
      BY <1>7, <2>2 DEF Rollback
    <3>2. origs' \in [1..Len(record) -> Values]
      BY <1>0, <3>1, RecordType
    <3>3. Len(origs') = Len(record)
      BY <1>0, <3>2, FunctionIsSequence
    <3> QED
      BY <1>0, <3>1, <3>3
  <2> QED
    BY <2>1, <2>2
<1>8. CASE Die
  BY <1>8 DEF Die, End
<1>9. CASE UNCHANGED vars
  BY <1>0, <1>9 DEF vars, Restored
<1> QED
  BY <1>1, <1>2, <1>3, <1>4, <1>5, <1>6, <1>7, <1>8, <1>9 DEF Next, Apply, Undo

(* The two promises of the mark, together: the host is back before the     *)
(* directory is marked and nothing moves it afterwards.                    *)
LEMMA MarkedStep ==
  IInv /\ [Next]_vars => MarkedMeansRestored' /\ InterruptIsHonest'
<1> SUFFICES ASSUME IInv, [Next]_vars
             PROVE  MarkedMeansRestored' /\ InterruptIsHonest'
  OBVIOUS
<1> USE DEF MarkedMeansRestored, InterruptIsHonest
<1>0. /\ MarkedMeansRestored /\ InterruptIsHonest /\ UndoInv /\ MarkInv /\ TypeOK
      /\ (pc = "start" => status = "absent")
  BY DEF IInv, AheadInv
<1>1. CASE UNCHANGED <<live, originals, reported, status>>
  BY <1>0, <1>1 DEF Restored
<1>2. CASE status' \notin RolledBack
  BY <1>2 DEF RolledBack
<1>3. CASE MarkFailure
  BY <1>0, <1>3 DEF MarkFailure, UndoInv, Restored, session
<1>4. CASE MarkInterrupted
  BY <1>0, <1>4 DEF MarkInterrupted, UndoInv, Restored, session
<1>5. CASE MarkRolledBack
  BY <1>0, <1>5 DEF MarkRolledBack, UndoInv, Restored, session, TypeOK
<1>6. CASE RestoreEntry
  <2>1. status' = status /\ pc \in Undoing /\ j \in 1..Len(origs)
    BY <1>6 DEF RestoreEntry
  <2>2. status \notin RolledBack
    BY <1>0, <2>1 DEF MarkInv, Undoing
  <2> QED
    BY <1>2, <2>1, <2>2
<1>7. CASE Preflight
  BY <1>0, <1>2, <1>7 DEF Preflight, RolledBack
<1>8. CASE WriteEntry
  BY <1>0, <1>2, <1>8, WriteIsLocal DEF MarkInv
<1>9. CASE MarkApplied
  BY <1>2, <1>9 DEF MarkApplied, RolledBack
<1>10. CASE RecordEntry \/ TrackPath \/ TrackOriginal \/ WriteFailed \/ UnrecordEntry
            \/ Disarm \/ RestoreUnbound \/ RestoreDone \/ ExitFailure \/ Interrupt
            \/ Rollback \/ Die \/ UNCHANGED vars
  BY <1>1, <1>10 DEF RecordEntry, TrackPath, TrackOriginal, WriteFailed, Untouched, DropEntry, UnrecordEntry,
     Disarm, RestoreUnbound, RestoreDone, ExitFailure, Interrupt, Rollback, Die, vars, session
<1> QED
  BY <1>3, <1>4, <1>5, <1>6, <1>7, <1>8, <1>9, <1>10 DEF Next, Apply, Undo, Finish

(* Whether rollback.tsv names an earlier entry of the plan, and what that  *)
(* entry holds, does not change while the loop works on a later one.       *)
LEMMA InForceStays ==
  ASSUME IInv, RecordEntry \/ WriteEntry \/ UnrecordEntry, NEW i \in 1..(idx - 1), InForce(i)
  PROVE  InForce(i)'
<1>0. /\ TypeOK /\ LogInv /\ pc \in OnEntry \cup {"record"} /\ Len(record) \in Nat
      /\ originals' = originals /\ Plan[i] \in Paths
  <2>1. pc \in OnEntry \cup {"record"} /\ originals' = originals
    BY DEF RecordEntry, WriteEntry, UnrecordEntry, OnEntry, session
  <2>2. idx \in 1..Len(Plan) /\ Len(Plan) \in Nat
    BY <2>1, EntryType
  <2>3. Plan[i] \in Paths
    BY <2>2, PlanAssumption DEF PlanAssumption
  <2> QED
    BY <2>1, <2>3 DEF IInv, TypeOK
<1>1. Plan[i] # Entry
  BY <1>0, BeforeIsOther DEF Before
<1> DEFINE named(r) == \E k \in 1..Len(r) : r[k][1] = Plan[i]
<1>2. named(record') <=> named(record)
  <2>1. CASE RecordEntry
    <3>1. Entry \in Paths /\ originals[Entry] \in Values
      BY <1>0, EntryType
    <3>2. /\ Len(record') = Len(record) + 1 /\ record'[Len(record) + 1] = <<Entry, originals[Entry]>>
          /\ \A k \in 1..Len(record) : record'[k] = record[k]
      BY <1>0, <2>1, <3>1, RecordGrows
    <3>3. \A k \in 1..Len(record') : k \in 1..Len(record) \/ k = Len(record) + 1
      BY <1>0, <3>2
    <3> QED
      BY <1>0, <1>1, <3>2, <3>3
  <2>2. CASE WriteEntry
    BY <2>2, WriteIsLocal
  <2>3. CASE UnrecordEntry
    <3>1. Len(record) > 0 /\ record[Len(record)] = <<Entry, originals[Entry]>>
      BY <1>0, <2>3 DEF LogInv, OnEntry, UnrecordEntry
    <3>2. /\ Len(record') = Len(record) - 1
          /\ \A k \in 1..(Len(record) - 1) : record'[k] = record[k]
      BY <1>0, <2>3, <3>1, DropLast DEF UnrecordEntry, TypeOK
    <3>3. \A k \in 1..Len(record) : k \in 1..(Len(record) - 1) \/ k = Len(record)
      BY <1>0
    <3>4. 1..Len(record') \subseteq 1..Len(record)
      BY <1>0, <3>2
    <3>5. ASSUME NEW k \in 1..Len(record), record[k][1] = Plan[i]
          PROVE  k \in 1..Len(record') /\ record'[k][1] = Plan[i]
      BY <1>1, <3>1, <3>2, <3>3, <3>5
    <3>6. ASSUME NEW k \in 1..Len(record'), record'[k][1] = Plan[i]
          PROVE  k \in 1..Len(record) /\ record[k][1] = Plan[i]
      BY <3>2, <3>4, <3>6
    <3> QED
      BY <3>5, <3>6
  <2> QED
    BY <2>1, <2>2, <2>3
<1>3. live'[Plan[i]] = live[Plan[i]]
  BY <1>0, <1>1, WriteIsLocal DEF RecordEntry, UnrecordEntry
<1> QED
  BY <1>0, <1>2, <1>3 DEF InForce, Restored

(* The part of the plan behind the loop index stays in force. *)
LEMMA AppliedStep == IInv /\ [Next]_vars => AppliedInv'
<1> SUFFICES ASSUME IInv, [Next]_vars PROVE AppliedInv'
  OBVIOUS
<1> USE DEF AppliedInv, OnEntry
<1>0. /\ AppliedInv /\ TypeOK /\ LogInv /\ AheadInv /\ idx \in Nat /\ Len(Plan) \in Nat
      /\ Len(record) \in Nat
  BY PlanAssumption DEF PlanAssumption, IInv, TypeOK
<1>1. CASE Preflight
  BY <1>0, <1>1 DEF Preflight, AheadInv
<1>2. CASE RecordEntry
  <2>1. /\ UNCHANGED <<idx, status>> /\ pc = "record" /\ pc' = "trackPath"
    BY <1>2 DEF RecordEntry
  <2>2. \A i \in 1..(idx - 1) : InForce(i)'
    BY <1>0, <1>2, <2>1, InForceStays
  <2> QED
    BY <1>0, <2>1, <2>2
<1>3. CASE TrackPath \/ TrackOriginal \/ WriteFailed
  <2>1. /\ UNCHANGED <<live, record, originals, status, idx>>
        /\ pc \in OnEntry
        /\ pc' \in OnEntry \cup {"undo"}
    BY <1>0, <1>3 DEF TrackPath, TrackOriginal, WriteFailed, Untouched, DropEntry, session
  <2>2. ASSUME NEW i \in 1..(idx - 1), InForce(i) PROVE InForce(i)'
    BY <2>1, <2>2 DEF InForce, Restored
  <2>3. pc' = "unrecord" => Entry' \in IrqPaths
    BY <1>0, <1>3, <2>1 DEF TrackPath, TrackOriginal, WriteFailed, DropEntry, Entry
  <2> QED
    BY <1>0, <2>1, <2>2, <2>3
<1>4. CASE WriteEntry
  <2>1. /\ pc = "write" /\ UNCHANGED <<status, record, originals>> /\ idx \in 1..Len(Plan)
        /\ \A i \in 1..(idx - 1) : InForce(i)'
    BY <1>0, <1>4, WriteIsLocal, InForceStays DEF AheadInv
  <2>2. CASE pc' = "refused" /\ idx' = idx
    BY <1>0, <2>1, <2>2
  <2>3. CASE Advance /\ (live'[Entry] = Wanted[Entry] \/ Entry \in HugePaths)
    <3>1. \E k \in 1..Len(record) : record[k][1] = Plan[idx]
      BY <1>0, <2>1 DEF LogInv, Entry
    <3>2. ASSUME NEW i \in 1..idx, i = idx PROVE InForce(i)'
      BY <2>1, <2>3, <3>1, <3>2 DEF InForce, Entry
    <3>3. \A i \in 1..idx : InForce(i)'
      BY <1>0, <2>1, <3>2
    <3> QED
      BY <1>0, <2>1, <2>3, <3>3 DEF Advance
  <2> QED
    BY <1>4, <2>2, <2>3, WriteIsLocal
<1>5. CASE UnrecordEntry
  <2>1. /\ pc = "unrecord" /\ UNCHANGED <<live, status, originals>> /\ idx \in 1..Len(Plan)
        /\ Advance /\ \A i \in 1..(idx - 1) : InForce(i)'
    BY <1>0, <1>5, InForceStays DEF UnrecordEntry, AheadInv
  <2>2. /\ Len(record) > 0 /\ \A k \in 1..(Len(record) - 1) : record[k][1] # Entry
    BY <1>0, <2>1, BeforeIsOther DEF LogInv
  <2>3. /\ Len(record') = Len(record) - 1
        /\ \A k \in 1..(Len(record) - 1) : record'[k] = record[k]
    BY <1>0, <1>5, <2>2, DropLast DEF UnrecordEntry, TypeOK
  <2>4. ASSUME NEW i \in 1..idx, i = idx PROVE InForce(i)'
    <3>1. ~\E k \in 1..Len(record') : record'[k][1] = Plan[i]
      BY <2>2, <2>3, <2>4 DEF Entry
    <3>2. live'[Plan[i]] = originals'[Plan[i]] /\ Plan[i] \in IrqPaths
      BY <1>0, <2>1, <2>4 DEF AheadInv, Restored, Entry
    <3> QED
      BY <3>1, <3>2 DEF InForce, Restored
  <2>5. \A i \in 1..idx : InForce(i)'
    BY <1>0, <2>1, <2>4
  <2> QED
    BY <1>0, <2>1, <2>5 DEF Advance
<1>6. CASE Outside
  <2>1. CASE Disarm
    BY <1>0, <2>1 DEF Disarm, InForce, Restored, session
  <2>2. /\ pc' \notin OnEntry \cup {"record", "disarm"}
        /\ pc' = "mark" => Disarm
    BY <1>6, OutsideLoop DEF Looping, Outside, MarkApplied, Undo, Finish, Interrupt, Rollback,
       Die, RestoreEntry, RestoreUnbound, RestoreDone, MarkFailure, ExitFailure, Undoing,
       MarkInterrupted, MarkRolledBack, End
  <2>3. status' = "applied" => pc' \in {"idle", "restore", "restoreMark"} \/ Disarm
    BY <1>0, <1>6 DEF Outside, MarkApplied, Undo, Finish, Interrupt, Rollback, Die,
       RestoreEntry, RestoreUnbound, RestoreDone, MarkFailure, ExitFailure, Undoing,
       Trapped, MarkInterrupted, MarkRolledBack, End
  <2> QED
    BY <2>1, <2>2, <2>3
<1>7. CASE UNCHANGED vars
  BY <1>0, <1>7 DEF vars, InForce, Restored, Entry
<1> QED
  BY <1>1, <1>2, <1>3, <1>4, <1>5, <1>6, <1>7 DEF Next, Apply, Outside

(* Exit 0 of apply keeps its meaning. *)
LEMMA AppliedIsInForceStep == IInv /\ [Next]_vars => AppliedIsInForce'
<1> SUFFICES ASSUME IInv, [Next]_vars,
                    pc' = "idle", status' = "applied", exit' = "0",
                    NEW i \in 1..Len(Plan)
             PROVE  InForce(i)'
  BY DEF AppliedIsInForce, InForce, Restored
<1>0. AppliedInv /\ AppliedIsInForce /\ TypeOK
  BY DEF IInv
<1>1. CASE MarkApplied
  BY <1>0, <1>1 DEF MarkApplied, AppliedInv, InForce, Restored, session
<1>2. CASE /\ pc = "idle" /\ status = "applied" /\ exit = "0"
           /\ UNCHANGED <<live, record, originals>>
  BY <1>0, <1>2 DEF AppliedIsInForce, InForce, Restored
<1>3. MarkApplied \/ (/\ pc = "idle" /\ status = "applied" /\ exit = "0"
                      /\ UNCHANGED <<live, record, originals>>)
  <2>1. CASE Apply
    BY <1>0, <2>1 DEF Apply, Preflight, RecordEntry, TrackPath, TrackOriginal, WriteEntry,
       WriteFailed, Untouched, DropEntry, UnrecordEntry, Disarm, Advance, AppliedInv
  <2>2. CASE Undo
    BY <1>0, <2>2 DEF Undo, RestoreEntry, RestoreUnbound, RestoreDone, Undoing, End
  <2>3. CASE Finish
    BY <1>0, <2>3 DEF Finish, MarkFailure, ExitFailure, MarkInterrupted, MarkRolledBack,
       End, AppliedInv
  <2>4. CASE Interrupt \/ Rollback \/ Die
    BY <2>4 DEF Interrupt, Rollback, Die, End, RolledBack
  <2>5. CASE UNCHANGED vars
    BY <2>5 DEF vars
  <2> QED
    BY <2>1, <2>2, <2>3, <2>4, <2>5 DEF Next
<1> QED
  BY <1>1, <1>2, <1>3

(* The inductive invariant holds before the first command. *)
LEMMA InvInit == Init => IInv
<1> SUFFICES ASSUME Init PROVE IInv
  OBVIOUS
<1>1. TypeOK
  BY TypeInit
<1> QED
  BY <1>1 DEF IInv, Init, LogInv, ArrayInv, AheadInv, UndoInv, MarkInv, AppliedInv,
     RecordedBeforeWritten, NewestFirst, AppliedIsInForce, MarkedMeansRestored,
     InterruptIsHonest, OnEntry, EntryTracked, Looping, Undoing, RolledBack, Restored

(* IInv holds in every reachable state, for every plan, host and bound. *)
THEOREM Invariance == Spec => []IInv
<1>1. IInv /\ [Next]_vars => IInv'
  BY TypeStep, LogStep, ArrayStep, AheadStep, UndoStep, MarkStep, AppliedStep,
     RecordedStep, NewestFirstStep, AppliedIsInForceStep, MarkedStep DEF IInv
<1> QED
  BY InvInit, <1>1, PTL DEF Spec

(* The variables of lab-tune.sh keep their types: every index into a plan, *)
(* an array or the rollback file is in range.                              *)
THEOREM TypeCorrect == Spec => []TypeOK
<1>1. IInv => TypeOK
  BY DEF IInv
<1> QED
  BY Invariance, <1>1, PTL

(* Wherever the script is interrupted or dies, rollback.tsv holds the      *)
(* original of every knob that differs from it.                            *)
THEOREM CrashSafety == Spec => []RecordedBeforeWritten
<1>1. IInv => RecordedBeforeWritten
  BY DEF IInv
<1> QED
  BY Invariance, <1>1, PTL

(* Every rollback, the failed apply's, the interrupt's and the operator's, *)
(* undoes the newest entry first.                                          *)
THEOREM ReverseOrder == Spec => []NewestFirst
<1>1. IInv => NewestFirst
  BY DEF IInv
<1> QED
  BY Invariance, <1>1, PTL

(* An apply that ends with exit 0 and status=applied has put every entry   *)
(* in force, or skipped it unchanged and unrecorded.                       *)
THEOREM ApplyIsComplete == Spec => []AppliedIsInForce
<1>1. IInv => AppliedIsInForce
  BY DEF IInv
<1> QED
  BY Invariance, <1>1, PTL

(* status=rolled_back and status=rolled_back_after_failure are written     *)
(* over a restored host only.                                              *)
THEOREM MarkIsEarned == Spec => []MarkedMeansRestored
<1>1. IInv => MarkedMeansRestored
  BY DEF IInv
<1> QED
  BY Invariance, <1>1, PTL

(* status=rolled_back_after_interrupt hides no knob that was not named in  *)
(* a "FAILED to restore" line.                                             *)
THEOREM InterruptIsReported == Spec => []InterruptIsHonest
<1>1. IInv => InterruptIsHonest
  BY DEF IInv
<1> QED
  BY Invariance, <1>1, PTL

-----------------------------------------------------------------------------
(* LabTune implements LabTuneAbs. *)

SavedLines == {record[k] : k \in 1..Len(record)}

(* The contract starts with an empty, unmarked log. *)
LEMMA ContractInit == Init => Contract!Init
  BY DEF Init, Contract!Init, RolledBack

(* Every command is a step of the contract or invisible to it. *)
LEMMA ContractStep == IInv /\ [Next]_vars => [Contract!Next]_(Contract!vars)
<1> SUFFICES ASSUME IInv, [Next]_vars PROVE [Contract!Next]_(Contract!vars)
  OBVIOUS
<1> DEFINE marked == status \in RolledBack
<1>0. /\ TypeOK /\ LogInv /\ ArrayInv /\ AheadInv /\ MarkInv /\ Len(record) \in Nat
  BY DEF IInv, TypeOK
<1>1. CASE UNCHANGED <<live, record>> /\ marked' = marked
  BY <1>1 DEF Contract!vars
<1>2. CASE UNCHANGED <<live, record>> /\ marked'
  <2>1. Contract!Mark
    BY <1>2 DEF Contract!Mark
  <2> QED
    BY <2>1 DEF Contract!Next
<1>3. CASE RecordEntry
  <2>1. Entry \in Paths /\ originals[Entry] \in Values /\ idx \in 1..Len(Plan)
    BY <1>3, EntryType DEF RecordEntry
  <2>2. originals[Entry] = live[Entry]
    BY <1>0, <1>3, <2>1 DEF RecordEntry, AheadInv, Restored, Entry
  <2>3. /\ Len(record') = Len(record) + 1 /\ record'[Len(record) + 1] = <<Entry, live[Entry]>>
        /\ \A k \in 1..Len(record) : record'[k] = record[k]
    BY <1>0, <1>3, <2>1, <2>2, RecordGrows
  <2>4. SavedLines' = SavedLines \cup {<<Entry, live[Entry]>>}
    <3>1. 1..Len(record') = 1..Len(record) \cup {Len(record) + 1}
      BY <1>0, <2>3
    <3> QED
      BY <2>3, <3>1 DEF SavedLines
  <2>5. ~marked /\ status' = status /\ live' = live
    BY <1>0, <1>3 DEF RecordEntry, MarkInv
  <2> PICK p \in Paths : p = Entry
    BY <2>1
  <2>6. Contract!Save(p)
    BY <2>4, <2>5 DEF Contract!Save, SavedLines
  <2> QED
    BY <2>6 DEF Contract!Next
<1>4. CASE WriteEntry
  <2>1. Entry \in Paths /\ UNCHANGED <<record, status>>
    BY <1>4, EntryType, WriteIsLocal DEF OnEntry
  <2>2. \E w \in Values : live' = [live EXCEPT ![Entry] = w]
    <3>1. Wanted[Entry] \in Values /\ live \in [Paths -> Values]
      BY <1>0, <1>4, EntryType DEF WriteEntry, OnEntry, TypeOK
    <3> QED
      BY <1>4, <2>1, <3>1, KernelType DEF WriteEntry
  <2>3. <<Entry, originals[Entry]>> \in SavedLines /\ originals[Entry] \in Values
    BY <1>0, <1>4, EntryType DEF WriteEntry, LogInv, OnEntry, SavedLines
  <2>4. ~marked
    BY <1>0, <1>4 DEF WriteEntry, MarkInv
  <2>5. Contract!Touch(Entry)
    BY <2>1, <2>2, <2>3, <2>4 DEF Contract!Touch, SavedLines
  <2> QED
    BY <2>1, <2>5 DEF Contract!Next
<1>5. CASE RestoreEntry
  <2>1. paths[j] \in Paths /\ UNCHANGED <<record, status>> /\ j \in 1..Len(paths) /\ j \in 1..Len(origs)
        /\ pc \in Undoing
    BY <1>5, RestoreIsLocal
  <2>2. \E w \in Values : live' = [live EXCEPT ![paths[j]] = w]
    <3>1. origs[j] \in Values /\ live \in [Paths -> Values] /\ (faults < MaxFaults) \in BOOLEAN
      BY <1>0, <2>1 DEF TypeOK
    <3> QED
      BY <1>5, <2>1, <3>1, KernelType DEF RestoreEntry
  <2>3. PICK k \in 1..Len(record) : record[k] = <<paths[j], originals[paths[j]]>>
    BY <1>0, <2>1 DEF ArrayInv, Undoing, Recorded
  <2>4. <<paths[j], originals[paths[j]]>> \in SavedLines /\ originals[paths[j]] \in Values
    BY <1>0, <2>1, <2>3 DEF SavedLines, TypeOK
  <2>5. ~marked
    BY <1>0, <2>1, <1>5 DEF RestoreEntry, MarkInv, Undoing
  <2>6. Contract!Touch(paths[j])
    BY <2>1, <2>2, <2>4, <2>5 DEF Contract!Touch, SavedLines
  <2> QED
    BY <2>1, <2>6 DEF Contract!Next
<1>6. CASE UnrecordEntry
  <2>1. /\ pc = "unrecord" /\ UNCHANGED <<live, status, originals>>
        /\ record' = SubSeq(record, 1, Len(record) - 1) /\ Entry \in Paths
    BY <1>6, EntryType DEF UnrecordEntry, OnEntry
  <2>2. /\ Len(record) > 0 /\ record[Len(record)] = <<Entry, live[Entry]>>
        /\ \A k \in 1..(Len(record) - 1) : record[k][1] # Entry
    BY <1>0, <2>1, BeforeIsOther DEF LogInv, AheadInv, OnEntry, Restored
  <2>3. /\ Len(record') = Len(record) - 1
        /\ \A k \in 1..(Len(record) - 1) : record'[k] = record[k]
    BY <1>0, <2>1, <2>2, DropLast DEF TypeOK
  <2>4. SavedLines' = SavedLines \ {<<Entry, live[Entry]>>}
    <3>1. 1..Len(record) = 1..(Len(record) - 1) \cup {Len(record)}
      BY <1>0, <2>2
    <3>2. \A k \in 1..(Len(record) - 1) : record[k] # <<Entry, live[Entry]>>
      BY <2>2
    <3>3. SavedLines' = {record[k] : k \in 1..(Len(record) - 1)}
      BY <2>3 DEF SavedLines
    <3>4. SavedLines = {record[k] : k \in 1..(Len(record) - 1)} \cup {<<Entry, live[Entry]>>}
      <4>1. \A x : (\E k \in 1..Len(record) : x = record[k])
                  <=> (\E k \in 1..(Len(record) - 1) : x = record[k]) \/ x = record[Len(record)]
        BY <3>1
      <4> QED
        BY <2>2, <4>1 DEF SavedLines
    <3> QED
      BY <3>2, <3>3, <3>4
  <2>5. ~marked /\ <<Entry, live[Entry]>> \in SavedLines
    BY <1>0, <2>1, <2>2 DEF MarkInv, SavedLines
  <2> PICK p \in Paths : p = Entry
    BY <2>1
  <2>6. Contract!Forget(p)
    BY <2>1, <2>4, <2>5 DEF Contract!Forget, SavedLines
  <2> QED
    BY <2>6 DEF Contract!Next
<1>7. CASE Preflight \/ TrackPath \/ TrackOriginal \/ WriteFailed \/ Disarm \/ MarkApplied
  <2>1. UNCHANGED <<live, record>>
    BY <1>7 DEF Preflight, TrackPath, TrackOriginal, WriteFailed, Untouched, DropEntry, Disarm, MarkApplied, session
  <2>2. ~marked /\ ~marked'
    BY <1>0, <1>7 DEF Preflight, TrackPath, TrackOriginal, WriteFailed, Untouched, DropEntry, Disarm, MarkApplied,
       MarkInv, AheadInv, RolledBack
  <2> QED
    BY <1>1, <2>1, <2>2
<1>8. CASE RestoreUnbound \/ RestoreDone \/ ExitFailure \/ Interrupt \/ Rollback \/ Die
           \/ UNCHANGED vars
  <2>1. UNCHANGED <<live, record, status>>
    BY <1>8 DEF RestoreUnbound, RestoreDone, ExitFailure, Interrupt, Rollback, Die, vars, session
  <2> QED
    BY <1>1, <2>1
<1>9. CASE MarkFailure \/ MarkInterrupted \/ MarkRolledBack
  <2>1. UNCHANGED <<live, record>>
    BY <1>9 DEF MarkFailure, MarkInterrupted, MarkRolledBack, session
  <2>2. marked' \/ ~marked
    BY <1>0, <1>9 DEF MarkFailure, MarkInterrupted, MarkRolledBack, MarkInv, RolledBack
  <2> QED
    BY <1>1, <1>2, <2>1, <2>2
<1> QED
  BY <1>3, <1>4, <1>5, <1>6, <1>7, <1>8, <1>9 DEF Next, Apply, Undo, Finish

(* lab-tune.sh keeps the contract of its state directory. *)
THEOREM Refinement == Spec => ImplementsContract
  BY Invariance, ContractInit, ContractStep, PTL DEF Spec, ImplementsContract, Contract!Spec
=============================================================================
