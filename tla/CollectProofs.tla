--------------------------- MODULE CollectProofs ---------------------------
(***************************************************************************)
(* Proofs about Collect for every set of options and number of signals:    *)
(* the evidence survives, the archive holds what was summed and nothing    *)
(* that was to be scrubbed, and the steps of the manifest tell the truth.  *)
(*                                                                         *)
(* For the first only the collector's position and the places the evidence *)
(* can be in matter.  The others need to know when the bundle stops        *)
(* changing: past the waits no helper is active that was not given up on   *)
(* (Quiet), because every helper that was started is in bg_pids            *)
(* (LaunchPart) and a subshell that is gone has left none behind            *)
(* (ProcPart).                                                             *)
(***************************************************************************)
EXTENDS Collect, TLAPS

(* The directory is touched only when the archive is whole. *)
ArchiveNeeded == {"remove", "removing", "split", "splitting", "dropArchive"}
DirNeeded == PcType \ (ArchiveNeeded \cup {"exit", "done"})

EvidenceInv ==
  /\ pc \in PcType
  /\ pc \in DirNeeded => dir = "whole"
  /\ pc \in ArchiveNeeded => archive = "whole"
  /\ pc = "dropArchive" => parts = "whole"
  /\ EvidenceKept

(* The initial state satisfies the invariant. *)
LEMMA InitOK == Init => EvidenceInv
  BY DEF Init, EvidenceInv, PcType, AfterReap, ArchiveNeeded, DirNeeded, EvidenceKept

(* Every step preserves the invariant; the helpers, the signals and the    *)
(* scrub loop move neither the collector nor the evidence.                 *)
LEMMA NextOK == EvidenceInv /\ [Next]_vars => EvidenceInv'
  <1> SUFFICES ASSUME EvidenceInv, [Next]_vars PROVE EvidenceInv'
    OBVIOUS
  <1> USE DEF EvidenceInv, PcType, AfterReap, ArchiveNeeded, DirNeeded, EvidenceKept
  <1>1. CASE Context
    BY <1>1 DEF Context, Goto, outputs
  <1>2. CASE Fork
    BY <1>2 DEF Fork, Goto, outputs
  <1>3. CASE Register
    BY <1>3 DEF Register, Goto, outputs
  <1>4. CASE EndWindow
    BY <1>4 DEF EndWindow, Goto, outputs
  <1>5. CASE Reap
    BY <1>5 DEF Reap, outputs
  <1>6. CASE Record
    BY <1>6 DEF Record, Goto, outputs
  <1>7. CASE After
    BY <1>7 DEF After, Goto, outputs
  <1>8. CASE WriteManifest
    BY <1>8 DEF WriteManifest, Goto, outputs
  <1>9. CASE Checksum
    BY <1>9 DEF Checksum, Goto
  <1>10. CASE Tar
    BY <1>10 DEF Tar, Goto
  <1>11. CASE TarEnds
    BY <1>11 DEF TarEnds, End
  <1>12. CASE RemoveDir
    BY <1>12 DEF RemoveDir, Goto
  <1>13. CASE Split
    BY <1>13 DEF Split, Goto, End
  <1>14. CASE DropArchive
    BY <1>14 DEF DropArchive, Goto
  <1>15. CASE Exit
    BY <1>15 DEF Exit, End
  <1>16. ASSUME NEW f \in Files, ScrubJfr(f) PROVE EvidenceInv'
    BY <1>16 DEF ScrubJfr, outputs
  <1>17. ASSUME NEW h \in Helpers, Helper(h) PROVE EvidenceInv'
    BY <1>17
    DEF Helper, Spawn, SetTrap, WriteRc, StartCapture, FinishCapture, EndCapture, AbortCapture,
        collector, outputs
  <1>18. CASE Interrupt
    BY <1>18 DEF Interrupt, outputs
  <1>19. CASE InterruptWait
    BY <1>19 DEF InterruptWait, Waiting, outputs
  <1>20. CASE Die
    BY <1>20 DEF Die, End
  <1>21. CASE UNCHANGED vars
    BY <1>21 DEF vars, outputs
  <1>22. ASSUME NEW h \in Recordings, LateWrite(h) PROVE EvidenceInv'
    BY <1>22 DEF LateWrite, collector, outputs
  <1> QED
    BY <1>1, <1>2, <1>3, <1>4, <1>5, <1>6, <1>7, <1>8, <1>9, <1>10, <1>11, <1>12, <1>13, <1>14, <1>15, <1>16, <1>17, <1>18, <1>19, <1>20, <1>21, <1>22 DEF Next, Collector

-----------------------------------------------------------------------------
(* Whatever fails and wherever the collector dies, the evidence exists in  *)
(* one whole piece: the directory goes when tar has succeeded, the archive *)
(* when split has (collect.sh:941-953).                                    *)
THEOREM EvidenceSurvives == Spec => []EvidenceKept
  <1>1. EvidenceInv => EvidenceKept
    BY DEF EvidenceInv
  <1> QED
    BY <1>1, InitOK, NextOK, PTL DEF Spec

-----------------------------------------------------------------------------
(* A subshell that has ended has left no active helper behind, unless the  *)
(* collector gave up on it.  The sampler is a subshell without a helper.   *)
ProcPart ==
  \A h \in Helpers :
    /\ (sub[h] \in {"absent", "forked"} => helper[h] = "absent")
    /\ (sub[h] = "gone" /\ helper[h] \in Active => h \in lost)
    /\ (h \in Direct => sub[h] \in {"absent", "writing", "gone"})
    /\ (h \in Direct => helper[h] \in {"absent", "capturing"} \cup Ended)
    /\ (h \notin Direct => sub[h] # "writing")

(* A recorder that may write on is that of a helper that has failed.       *)
RecorderPart == \A h \in Recordings : Recorder(h) \in lost => helper[h] = "failed"

(* A helper is started at most once, and known to the traps from Register  *)
(* on.                                                                     *)
ToLaunch(j) == j > k \/ (j = k /\ pc = "launch")

LaunchPart ==
  /\ \A i, j \in DOMAIN launch : launch[i] = launch[j] => i = j
  /\ pc = "context" => bgPids = <<>> /\ k = 1 /\ \A h \in Helpers : sub[h] = "absent"
  /\ pc = "register" => k <= Len(launch)
  /\ pc \in {"launch", "register"} =>
       \A j \in DOMAIN launch : (ToLaunch(j) => sub[launch[j]] = "absent")
  /\ pc # "done" => \A h \in Helpers :
       (sub[h] # "absent" => h \in ToSet(bgPids) \/ (pc = "register" /\ h = launch[k]))

(* The collector has waited for each of its first children, or gave up.    *)
ReapPart ==
  /\ pc = "reap" /\ lost = {} => \A j \in DOMAIN bgPids : (j < k => sub[bgPids[j]] \in Gone)
  /\ pc \in AfterReap /\ lost = {} => \A h \in Helpers : sub[h] \in Gone

(* A status of 0 is that of a helper whose output was there when it ended; *)
(* only the scrub takes it away, and looks at each recording once.         *)
BeforeScrub == {"context", "launch", "register", "reap", "record", "after"}

Kept(h) == content[h] \in {"whole", "scrubbed"} \/ scrub[h] = "failed(removed)"

StatusPart ==
  /\ \A h \in Helpers :
       /\ (rc[h] = "ok" => helper[h] = "ok")
       /\ (steps[h] = "ok" => helper[h] = "ok")
       /\ (helper[h] = "ok" => Kept(h))
  /\ pc \in BeforeScrub => \A f \in Files : scrub[f] = "none"
  /\ \A f \in todo : scrub[f] = "none"

(* What the scrub has left, seen by the seal.                              *)
Open(f) == Sensitive(f) /\ content[f] \in {"partial", "whole"}

BeforeTar == {"context", "launch", "register", "reap", "record", "after", "scrub", "sums", "tar"}

SealPart ==
  /\ pc \in {"scrub", "sums", "tar"} /\ lost = {} =>
       \A f \in Files : (Open(f) => f \in todo \/ scrub[f] = "NOT_SCRUBBED")
  /\ pc \in {"sums", "tar"} => todo = {}
  /\ pc = "tar" /\ lost = {} => sums = Bundle
  /\ pc \in BeforeTar => archive = "none"
  /\ pc = "tarred" => archive = "partial"

IInv ==
  /\ TypeOK /\ ProcPart /\ RecorderPart /\ LaunchPart /\ ReapPart /\ StatusPart /\ SealPart
  /\ ArchiveVerifies /\ NothingSensitiveShipped

-----------------------------------------------------------------------------
(* The list of helpers to start is a sequence of helpers, each of them at  *)
(* most once.                                                              *)
LEMMA LaunchIfType ==
  ASSUME NEW wanted, NEW h \in Helpers
  PROVE  LaunchIf(wanted, h) \in Seq(Helpers)
  BY DEF LaunchIf

(* One TERM to any set of processes keeps the tables of processes typed.   *)
LEMMA TerminateType ==
  ASSUME TypeOK, NEW hs, Terminate(hs)
  PROVE  /\ sub' \in [Helpers -> Gone \cup Forwarding \cup {"forked", "spawned", "writing"}]
         /\ helper' \in [Helpers -> {"absent"} \cup Active \cup Ended]
         /\ rc' \in [Helpers -> {"none"} \cup Ended]
  BY DEF TypeOK, Terminate, SubAfterTerm, OneTerm, Rc, Gone, Forwarding, Active, Ended

(* The variables have their types at the start ...                         *)
LEMMA TypeInit == Init => TypeOK
  <1> SUFFICES ASSUME Init PROVE TypeOK
    OBVIOUS
  <1>1. Bundle \in BundleType
    BY DEF Init, Bundle, BundleType, ContentType, Ended
  <1>2. launch \in Seq(Helpers) /\ bgPids \in Seq(Helpers)
    BY DEF Init
  <1>3. opts \in Options /\ pc \in PcType /\ interrupted \in BOOLEAN
    BY DEF Init, PcType
  <1>6. signals \in 0..MaxSignals /\ k \in Nat \ {0}
    BY OptionsAssumption DEF Init
  <1>4. /\ sub \in [Helpers -> Gone \cup Forwarding \cup {"forked", "spawned", "writing"}]
        /\ helper \in [Helpers -> {"absent"} \cup Active \cup Ended]
        /\ content \in [Files -> ContentType]
        /\ rc \in [Helpers -> {"none"} \cup Ended]
        /\ steps \in [Helpers -> {"none"} \cup Ended]
        /\ scrub \in [Files -> {"none"} \cup ScrubNotes]
    BY DEF Init, Gone, ContentType
  <1>5. /\ manifest \in {"none", "0", "1"} /\ todo \subseteq Files /\ lost \subseteq Helpers \cup {"jvm", "profiler"}
        /\ {dir, archive, parts} \subseteq {"none", "partial", "whole"}
        /\ exit \in {"none", "0", "5", "130", "killed"}
        /\ sums = Bundle /\ archived = Bundle
    BY DEF Init
  <1> QED
    BY <1>1, <1>2, <1>3, <1>4, <1>5, <1>6 DEF TypeOK

(* ... and keep them.                                                      *)
LEMMA TypeNext == TypeOK /\ LaunchPart /\ [Next]_vars => TypeOK'
  <1> SUFFICES ASSUME TypeOK, LaunchPart, [Next]_vars PROVE TypeOK'
    OBVIOUS
  <1> USE DEF TypeOK, PcType, AfterReap, outputs, signalled, processes, notes
  <1>1. CASE Context
    <2>1. /\ \A usable \in BOOLEAN : LaunchIf(opts.mode = "new" /\ usable, "jfr") \in Seq(Helpers)
          /\ LaunchIf(opts.asprof, "asprof") \in Seq(Helpers)
          /\ LaunchIf(opts.sampler, "sampler") \in Seq(Helpers)
      BY LaunchIfType DEF Helpers
    <2>2. <<"audit">> \in Seq(Helpers)
      BY DEF Helpers
    <2>3. launch' \in Seq(Helpers)
      BY <1>1, <2>1, <2>2 DEF Context
    <2> QED
      BY <1>1, <2>3 DEF Context, Goto
  <1>2. CASE Fork
    BY <1>2 DEF Fork, Goto, Gone, Forwarding, Active, ContentType, Files
  <1>3. CASE Register
    BY <1>3 DEF Register, Goto, LaunchPart
  <1>4. CASE EndWindow
    BY <1>4 DEF EndWindow, Goto
  <1>5. CASE Reap
    BY <1>5 DEF Reap
  <1>6. CASE Record
    BY <1>6 DEF Record, Goto
  <1>7. CASE After
    BY <1>7 DEF After, Goto, ContentType
  <1>8. CASE WriteManifest
    BY <1>8 DEF WriteManifest, Goto
  <1>9. CASE Checksum
    BY <1>9 DEF Checksum, Goto, Bundle, BundleType
  <1>10. CASE Tar
    BY <1>10 DEF Tar, Goto, Bundle, BundleType, sealing
  <1>11. CASE TarEnds
    BY <1>11 DEF TarEnds, End, sealing
  <1>12. CASE RemoveDir
    BY <1>12 DEF RemoveDir, Goto, sealing
  <1>13. CASE Split
    BY <1>13 DEF Split, Goto, End, sealing
  <1>14. CASE DropArchive
    BY <1>14 DEF DropArchive, Goto, sealing
  <1>15. CASE Exit
    BY <1>15 DEF Exit, End, sealing
  <1>16. ASSUME NEW f \in Files, ScrubJfr(f) PROVE TypeOK'
    <2>1. \A r \in Scrubbed(f) : r[1] \in ScrubNotes /\ r[2] \in ContentType
      BY DEF Scrubbed, ScrubNotes, ContentType
    <2> QED
      BY <1>16, <2>1 DEF ScrubJfr
  <1>17. ASSUME NEW h \in Helpers, Helper(h) PROVE TypeOK'
    <2> USE DEF Files, ContentType, SubStep, HelperStep, Gone, Forwarding, Active, Ended, collector
    <2>1. CASE Spawn(h)
      BY <2>1 DEF Spawn
    <2>2. CASE StartCapture(h)
      BY <2>2 DEF StartCapture
    <2>5. CASE WriteRc(h)
      BY <2>5 DEF WriteRc
    <2>6. CASE SetTrap(h)
      BY <2>6 DEF SetTrap
    <2>7. CASE FinishCapture(h)
      BY <2>7 DEF FinishCapture
    <2>8. \A l \in MayWriteOn(h) : l \subseteq Helpers \cup {"jvm", "profiler"}
      BY DEF MayWriteOn, Recorder
    <2>3. CASE EndCapture(h)
      <3>1. lost' \subseteq Helpers \cup {"jvm", "profiler"}
        BY <2>3, <2>8 DEF EndCapture
      <3>2. content' \in [Files -> ContentType]
        BY <2>3 DEF EndCapture
      <3>3. helper' \in [Helpers -> {"absent"} \cup Active \cup Ended]
        BY <2>3 DEF EndCapture
      <3>4. UNCHANGED <<collector, sub, rc>>
        BY <2>3 DEF EndCapture
      <3> QED
        BY <3>1, <3>2, <3>3, <3>4
    <2>4. CASE AbortCapture(h)
      <3>1. content' \in [Files -> ContentType]
        BY <2>4, h \in Files DEF AbortCapture
      <3>2. lost' \subseteq Helpers \cup {"jvm", "profiler"}
        BY <2>4, <2>8 DEF AbortCapture
      <3> QED
        BY <2>4, <3>1, <3>2 DEF AbortCapture
    <2> QED
      BY <1>17, <2>1, <2>2, <2>3, <2>4, <2>5, <2>6, <2>7 DEF Helper
  <1>18. CASE Interrupt
    <2>1. lost' \subseteq Helpers \cup {"jvm", "profiler"}
      BY <1>18 DEF Interrupt, Orphaned, ToSet
    <2>2. signals' \in 0..MaxSignals
      BY <1>18, OptionsAssumption DEF Interrupt, OnInterrupt
    <2> QED
      BY <1>18, <2>1, <2>2, TerminateType DEF Interrupt, OnInterrupt
  <1>19. CASE InterruptWait
    <2>1. lost' \subseteq Helpers \cup {"jvm", "profiler"}
      BY <1>19 DEF InterruptWait, Waiting, Orphaned, ToSet
    <2>2. signals' \in 0..MaxSignals
      BY <1>19, OptionsAssumption DEF InterruptWait, OnInterrupt
    <2> QED
      BY <1>19, <2>1, <2>2, TerminateType DEF InterruptWait, OnInterrupt
  <1>20. CASE Die
    BY <1>20 DEF Die, End, sealing
  <1>21. CASE UNCHANGED vars
    BY <1>21 DEF vars, Bundle
  <1>22. ASSUME NEW h \in Recordings, LateWrite(h) PROVE TypeOK'
    <2>1. h \in Files
      BY DEF Recordings, Files, Helpers
    <2>2. content' \in [Files -> ContentType]
      BY <1>22, <2>1 DEF LateWrite, ContentType
    <2> QED
      BY <1>22, <2>2 DEF LateWrite, collector
  <1> QED
    BY <1>1, <1>2, <1>3, <1>4, <1>5, <1>6, <1>7, <1>8, <1>9, <1>10, <1>11, <1>12, <1>13, <1>14, <1>15, <1>16, <1>17, <1>18, <1>19, <1>20, <1>21, <1>22 DEF Next, Collector
-----------------------------------------------------------------------------
(* The processes *)

(* One TERM keeps a helper that is out of every subshell's sight lost, and *)
(* moves no process that is gone, no helper that has ended.                *)
LEMMA TerminateKeeps ==
  ASSUME TypeOK, ProcPart, NEW hs, Terminate(hs), lost \cup Orphaned(hs) \subseteq lost'
  PROVE  /\ ProcPart'
         /\ \A h \in Helpers : /\ sub[h] = "absent" <=> sub'[h] = "absent"
                               /\ sub[h] \in Gone => sub'[h] = sub[h] /\ rc'[h] = rc[h]
                               /\ helper[h] = "ok" <=> helper'[h] = "ok"
                               /\ rc'[h] = "ok" => rc[h] = "ok"
  <1>1. SUFFICES ASSUME NEW h \in Helpers
        PROVE  /\ (sub'[h] \in {"absent", "forked"} => helper'[h] = "absent")
               /\ (sub'[h] = "gone" /\ helper'[h] \in Active => h \in lost')
               /\ (h \in Direct => sub'[h] \in {"absent", "writing", "gone"})
               /\ (h \in Direct => helper'[h] \in {"absent", "capturing"} \cup Ended)
               /\ (h \notin Direct => sub'[h] # "writing")
               /\ sub[h] = "absent" <=> sub'[h] = "absent"
               /\ sub[h] \in Gone => sub'[h] = sub[h] /\ rc'[h] = rc[h]
               /\ helper[h] = "ok" <=> helper'[h] = "ok"
               /\ rc'[h] = "ok" => rc[h] = "ok"
    BY DEF ProcPart
  <1>2. CASE h \notin hs
    BY <1>2 DEF Terminate, ProcPart
  <1>3. CASE h \in hs
    <2>1. /\ sub'[h] = SubAfterTerm(h)
          /\ helper'[h] = IF sub[h] \in Forwarding \cup {"writing"} THEN OneTerm(h) ELSE helper[h]
          /\ rc'[h] = Rc(h)
      BY <1>3 DEF Terminate
    <2>2. h \in Direct <=> h = "sampler"
      BY DEF Direct
    <2>3. helper[h] \in Active /\ sub[h] \in {"spawned", "rewaiting"} => h \in lost'
      BY <1>3 DEF Orphaned
    <2>4. /\ sub[h] \in Gone \cup Forwarding \cup {"forked", "spawned", "writing"}
          /\ helper[h] \in {"absent"} \cup Active \cup Ended
      BY DEF TypeOK
    <2> QED
      BY <2>1, <2>2, <2>3, <2>4
      DEF ProcPart, SubAfterTerm, OneTerm, Rc, Gone, Forwarding, Active, Ended
  <1> QED
    BY <1>2, <1>3

(* A gone subshell leaves no active helper that was not given up on.       *)
LEMMA ProcNext == TypeOK /\ LaunchPart /\ ProcPart /\ [Next]_vars => ProcPart'
  <1> SUFFICES ASSUME TypeOK, LaunchPart, ProcPart, [Next]_vars PROVE ProcPart'
    OBVIOUS
  <1> USE DEF ProcPart
  <1>2. CASE Fork
    <2>1. launch[k] \in Helpers /\ sub[launch[k]] = "absent"
      BY <1>2 DEF Fork, Goto, TypeOK, LaunchPart, ToLaunch
    <2> QED
      BY <1>2, <2>1 DEF Fork, Direct, TypeOK, Ended, Active
  <1>3. CASE UNCHANGED <<sub, helper, lost>>
    BY <1>3
  <1>4. ASSUME NEW h \in Helpers, Helper(h) PROVE ProcPart'
    <2> USE DEF SubStep, HelperStep, TypeOK, Active, Ended, Direct, Forwarding
    <2>1. CASE Spawn(h)
      BY <2>1 DEF Spawn
    <2>2. CASE SetTrap(h)
      BY <2>2 DEF SetTrap
    <2>3. CASE WriteRc(h)
      BY <2>3 DEF WriteRc
    <2>4. CASE StartCapture(h)
      BY <2>4 DEF StartCapture
    <2>5. CASE FinishCapture(h)
      BY <2>5 DEF FinishCapture
    <2>6. CASE EndCapture(h)
      BY <2>6 DEF EndCapture, MayWriteOn
    <2>7. CASE AbortCapture(h)
      BY <2>7 DEF AbortCapture, MayWriteOn
    <2> QED
      BY <1>4, <2>1, <2>2, <2>3, <2>4, <2>5, <2>6, <2>7 DEF Helper
  <1>5. CASE Interrupt
    BY <1>5, TerminateKeeps DEF Interrupt, OnInterrupt
  <1>6. CASE InterruptWait
    BY <1>6, TerminateKeeps DEF InterruptWait, OnInterrupt
  <1>7. \/ UNCHANGED <<sub, helper, lost>> \/ Fork \/ Interrupt \/ InterruptWait
        \/ \E h \in Helpers : Helper(h)
    BY DEF Next, Collector, vars, processes, sealing, Context, Register, EndWindow, Reap, Record, After,
           ScrubJfr, WriteManifest, Checksum, Tar, TarEnds, RemoveDir, Split, DropArchive, Exit, Die,
           LateWrite
  <1> QED
    BY <1>2, <1>3, <1>4, <1>5, <1>6, <1>7

(* A recorder is given up on when its helper fails, and that is final.     *)
LEMMA RecorderNext == TypeOK /\ RecorderPart /\ [Next]_vars => RecorderPart'
  <1> SUFFICES ASSUME TypeOK, RecorderPart, [Next]_vars PROVE RecorderPart'
    OBVIOUS
  <1> USE DEF RecorderPart, Recordings, Recorder
  <1>1. ASSUME NEW g \in Helpers, helper[g] = "failed", Terminate(ToSet(bgPids)) PROVE helper'[g] = "failed"
    BY <1>1 DEF Terminate, OneTerm
  <1>3. CASE Interrupt \/ InterruptWait
    <2>1. lost' \subseteq lost \cup Helpers
      BY <1>3 DEF Interrupt, InterruptWait, Waiting, Orphaned, ToSet, TypeOK
    <2>2. Terminate(ToSet(bgPids))
      BY <1>3 DEF Interrupt, InterruptWait, OnInterrupt
    <2>3. \A h \in Recordings : h \in Helpers /\ Recorder(h) \notin Helpers
      BY DEF Helpers
    <2> QED
      BY <1>1, <2>1, <2>2, <2>3
  <1>4. CASE Fork
    <2>1. lost' = lost /\ (helper' = helper \/ helper' = [helper EXCEPT !["sampler"] = "capturing"])
      BY <1>4 DEF Fork, Direct
    <2>2. \A h \in Recordings : helper'[h] = helper[h]
      BY <2>1 DEF TypeOK, Helpers
    <2> QED
      BY <2>1, <2>2
  <1>5. ASSUME NEW h \in Helpers, Helper(h) PROVE RecorderPart'
    <2> USE DEF HelperStep, TypeOK, Active, Helpers
    <2>1. CASE Spawn(h)
      BY <2>1 DEF Spawn
    <2>2. CASE SetTrap(h)
      BY <2>2 DEF SetTrap
    <2>3. CASE WriteRc(h)
      BY <2>3 DEF WriteRc
    <2>4. CASE StartCapture(h)
      BY <2>4 DEF StartCapture
    <2>5. CASE FinishCapture(h)
      BY <2>5 DEF FinishCapture
    <2>6. CASE EndCapture(h)
      BY <2>6 DEF EndCapture, MayWriteOn
    <2>7. CASE AbortCapture(h)
      BY <2>7 DEF AbortCapture, MayWriteOn
    <2> QED
      BY <1>5, <2>1, <2>2, <2>3, <2>4, <2>5, <2>6, <2>7 DEF Helper
  <1>6. CASE UNCHANGED <<helper, lost>>
    BY <1>6
  <1>7. \/ UNCHANGED <<helper, lost>> \/ Fork \/ Interrupt \/ InterruptWait
        \/ \E h \in Helpers : Helper(h)
    BY DEF Next, Collector, vars, processes, sealing, Context, Register, EndWindow, Reap, Record, After,
           ScrubJfr, WriteManifest, Checksum, Tar, TarEnds, RemoveDir, Split, DropArchive, Exit, Die,
           LateWrite
  <1> QED
    BY <1>3, <1>4, <1>5, <1>6, <1>7

-----------------------------------------------------------------------------
(* The launches *)

Distinct(s) == \A i, j \in DOMAIN s : s[i] = s[j] => i = j

(* Two lists without a repetition and without a common element make one    *)
(* without a repetition.                                                   *)
LEMMA ConcatDistinct ==
  ASSUME NEW s \in Seq(Helpers), NEW t \in Seq(Helpers), Distinct(s), Distinct(t),
         \A i \in DOMAIN s, j \in DOMAIN t : s[i] # t[j]
  PROVE  /\ Distinct(s \o t) /\ s \o t \in Seq(Helpers)
         /\ \A i \in DOMAIN (s \o t) :
              (\E j \in DOMAIN s : (s \o t)[i] = s[j]) \/ (\E j \in DOMAIN t : (s \o t)[i] = t[j])
  <1>1. /\ s \o t \in Seq(Helpers) /\ Len(s \o t) = Len(s) + Len(t)
        /\ \A i \in 1..Len(s) + Len(t) : (s \o t)[i] = IF i <= Len(s) THEN s[i] ELSE t[i - Len(s)]
    OBVIOUS
  <1>2. \A i \in 1..Len(s) + Len(t) : i > Len(s) => i - Len(s) \in DOMAIN t
    OBVIOUS
  <1>3. \A i \in 1..Len(s) + Len(t) : i <= Len(s) => i \in DOMAIN s
    OBVIOUS
  <1>4. DOMAIN (s \o t) = 1..Len(s) + Len(t)
    BY <1>1
  <1> QED
    BY <1>1, <1>2, <1>3, <1>4 DEF Distinct

(* A list of at most one helper, whose elements are that one.              *)
LEMMA LaunchIfOne ==
  ASSUME NEW wanted, NEW h \in Helpers
  PROVE  /\ LaunchIf(wanted, h) \in Seq(Helpers) /\ Distinct(LaunchIf(wanted, h))
         /\ \A i \in DOMAIN LaunchIf(wanted, h) : LaunchIf(wanted, h)[i] = h
  BY DEF LaunchIf, Distinct

(* The helpers of a window are all different.                              *)
LEMMA ContextDistinct == Context => Distinct(launch')
  <1> SUFFICES ASSUME NEW usable \in BOOLEAN PROVE
        Distinct(LaunchIf(opts.mode = "new" /\ usable, "jfr") \o LaunchIf(opts.asprof, "asprof")
                 \o <<"audit">> \o LaunchIf(opts.sampler, "sampler"))
    BY DEF Context
  <1> DEFINE a == LaunchIf(opts.mode = "new" /\ usable, "jfr")
             b == LaunchIf(opts.asprof, "asprof")
             c == <<"audit">>
             d == LaunchIf(opts.sampler, "sampler")
  <1>1. /\ a \in Seq(Helpers) /\ Distinct(a) /\ \A i \in DOMAIN a : a[i] = "jfr"
        /\ b \in Seq(Helpers) /\ Distinct(b) /\ \A i \in DOMAIN b : b[i] = "asprof"
        /\ d \in Seq(Helpers) /\ Distinct(d) /\ \A i \in DOMAIN d : d[i] = "sampler"
    BY LaunchIfOne DEF Helpers
  <1>2. c \in Seq(Helpers) /\ Distinct(c) /\ \A i \in DOMAIN c : c[i] = "audit"
    BY DEF Helpers, Distinct
  <1> HIDE DEF a, b, c, d
  <1>3. /\ Distinct(a \o b) /\ a \o b \in Seq(Helpers)
        /\ \A i \in DOMAIN (a \o b) : (a \o b)[i] \in {"jfr", "asprof"}
    BY <1>1, ConcatDistinct
  <1>4. /\ Distinct(a \o b \o c) /\ a \o b \o c \in Seq(Helpers)
        /\ \A i \in DOMAIN (a \o b \o c) : (a \o b \o c)[i] \in {"jfr", "asprof", "audit"}
    <2> DEFINE ab == a \o b
    <2>1. \A i \in DOMAIN ab, j \in DOMAIN c : ab[i] # c[j]
      BY <1>2, <1>3
    <2> HIDE DEF ab
    <2>2. Distinct(ab) /\ ab \in Seq(Helpers)
      BY <1>3 DEF ab
    <2>3. /\ Distinct(ab \o c) /\ ab \o c \in Seq(Helpers)
          /\ \A i \in DOMAIN (ab \o c) :
               (\E j \in DOMAIN ab : (ab \o c)[i] = ab[j]) \/ (\E j \in DOMAIN c : (ab \o c)[i] = c[j])
      BY <1>2, <2>1, <2>2, ConcatDistinct
    <2> QED
      BY <1>2, <1>3, <2>3 DEF ab
  <1>5. Distinct(a \o b \o c \o d)
    <2> DEFINE abc == a \o b \o c
    <2>1. \A i \in DOMAIN abc, j \in DOMAIN d : abc[i] # d[j]
      BY <1>1, <1>4
    <2> HIDE DEF abc
    <2>2. Distinct(abc) /\ abc \in Seq(Helpers)
      BY <1>4 DEF abc
    <2>3. Distinct(abc \o d)
      BY <1>1, <2>1, <2>2, ConcatDistinct
    <2> QED
      BY <2>3 DEF abc
  <1> QED
    BY <1>5 DEF a, b, c, d

(* A step of a helper starts none and ends no absent one.                  *)
LEMMA HelperStarts ==
  ASSUME TypeOK, ProcPart, NEW h \in Helpers, Helper(h)
  PROVE  \A g \in Helpers : sub'[g] = "absent" <=> sub[g] = "absent"
  BY DEF Helper, Spawn, SetTrap, WriteRc, StartCapture, FinishCapture, EndCapture, AbortCapture,
         SubStep, HelperStep, TypeOK, ProcPart, Forwarding, Ended, Active

(* The helpers of a window are started in order, each once, and bg_pids    *)
(* has every one of them before the next command that can end the run.     *)
LEMMA LaunchNext == TypeOK /\ ProcPart /\ LaunchPart /\ [Next]_vars => LaunchPart'
  <1> SUFFICES ASSUME TypeOK, ProcPart, LaunchPart, [Next]_vars PROVE LaunchPart'
    OBVIOUS
  <1> USE DEF LaunchPart, ToLaunch
  <1>1. CASE Context
    <2>1. Distinct(launch')
      BY <1>1, ContextDistinct
    <2>2. \A j \in DOMAIN launch' : launch'[j] \in Helpers
      BY TypeNext DEF TypeOK
    <2> QED
      BY <1>1, <2>1, <2>2 DEF Context, Goto, processes, Distinct
  <1>2. CASE Fork
    <2>1. launch[k] \in Helpers /\ k \in DOMAIN launch
      BY <1>2 DEF Fork, Goto, TypeOK
    <2>2. \A h \in Helpers : h # launch[k] => sub'[h] = sub[h]
      BY <1>2, <2>1 DEF Fork, TypeOK
    <2> QED
      BY <1>2, <2>1, <2>2 DEF Fork, Goto, TypeOK
  <1>3. CASE Register
    <2>1. launch[k] \in Helpers /\ bgPids' = Append(bgPids, launch[k]) /\ bgPids \in Seq(Helpers)
      BY <1>3 DEF Register, Goto, TypeOK
    <2>3. \A i \in DOMAIN bgPids : i \in DOMAIN bgPids' /\ bgPids'[i] = bgPids[i]
      BY <2>1
    <2>4. Len(bgPids) + 1 \in DOMAIN bgPids' /\ bgPids'[Len(bgPids) + 1] = launch[k]
      BY <2>1
    <2>5. ToSet(bgPids) \cup {launch[k]} \subseteq ToSet(bgPids')
      BY <2>3, <2>4 DEF ToSet
    <2> QED
      BY <1>3, <2>1, <2>5 DEF Register, Goto, TypeOK, processes
  <1>4. CASE EndWindow
    BY <1>4 DEF EndWindow, Goto, processes
  <1>5. CASE Reap
    BY <1>5 DEF Reap, processes
  <1>6. CASE /\ UNCHANGED <<sub, launch, bgPids, k>>
             /\ pc' \in {pc, "done"} \/ (pc \in AfterReap /\ pc' \in AfterReap)
    BY <1>6 DEF AfterReap
  <1>7. ASSUME NEW h \in Helpers, Helper(h) PROVE LaunchPart'
    <2>1. UNCHANGED <<pc, launch, bgPids, k>>
      BY <1>7 DEF Helper, Spawn, SetTrap, WriteRc, StartCapture, FinishCapture, EndCapture,
                  AbortCapture, collector
    <2>2. \A j \in DOMAIN launch : launch[j] \in Helpers
      BY DEF TypeOK
    <2> QED
      BY <1>7, <2>1, <2>2, HelperStarts
  <1>8. CASE Interrupt \/ InterruptWait
    <2>1. \A h \in Helpers : sub[h] = "absent" <=> sub'[h] = "absent"
      BY <1>8, TerminateKeeps DEF Interrupt, InterruptWait, OnInterrupt
    <2>2. UNCHANGED <<pc, launch, bgPids>> /\ (k' = k \/ pc = "reap")
      BY <1>8 DEF Interrupt, InterruptWait, Waiting
    <2>3. \A j \in DOMAIN launch : launch[j] \in Helpers
      BY DEF TypeOK
    <2> QED
      BY <2>1, <2>2, <2>3
  <1>9. \/ /\ UNCHANGED <<sub, launch, bgPids, k>>
           /\ pc' \in {pc, "done"} \/ (pc \in AfterReap /\ pc' \in AfterReap)
        \/ Context \/ Fork \/ Register \/ EndWindow \/ Reap \/ Interrupt \/ InterruptWait
        \/ \E h \in Helpers : Helper(h)
    BY DEF Next, Collector, vars, processes, sealing, Record, After, ScrubJfr, WriteManifest, Checksum,
           Tar, TarEnds, RemoveDir, Split, DropArchive, Exit, Die, Goto, End, AfterReap,
           LateWrite, collector
  <1> QED
    BY <1>1, <1>2, <1>3, <1>4, <1>5, <1>6, <1>7, <1>8, <1>9

-----------------------------------------------------------------------------
(* The end of the bundle's changes *)

(* The collector never takes back that it gave up on a helper.             *)
LEMMA LostGrows == [Next]_vars => lost \subseteq lost'
  BY DEF Next, Collector, vars, processes, sealing, collector, Context, Fork, Register, EndWindow, Reap,
         Record, After, ScrubJfr, WriteManifest, Checksum, Tar, TarEnds, RemoveDir, Split, DropArchive,
         Exit, Die, Helper, Spawn, SetTrap, WriteRc, StartCapture, FinishCapture, EndCapture,
         AbortCapture, MayWriteOn, LateWrite, Interrupt, InterruptWait

(* A subshell that is gone, or was never started after the launches, stays *)
(* so.                                                                     *)
LEMMA GoneStays ==
  ASSUME TypeOK, ProcPart, LaunchPart, [Next]_vars, NEW g \in Helpers, sub[g] \in Gone,
         pc \in AfterReap \cup {"reap"}
  PROVE  sub'[g] = sub[g]
  <1> USE DEF AfterReap, Gone
  <1>1. ASSUME NEW h \in Helpers, Helper(h) PROVE sub'[g] = sub[g]
    BY <1>1 DEF Helper, Spawn, SetTrap, WriteRc, StartCapture, FinishCapture, EndCapture, AbortCapture,
                SubStep, HelperStep, TypeOK, ProcPart, Forwarding, Ended, Active, Direct
  <1>2. CASE Interrupt \/ InterruptWait
    BY <1>2, TerminateKeeps DEF Interrupt, InterruptWait, OnInterrupt
  <1>3. sub' = sub \/ Interrupt \/ InterruptWait \/ \E h \in Helpers : Helper(h)
    BY DEF Next, Collector, vars, processes, sealing, Context, Fork, Register, EndWindow, Reap, Record,
           After, ScrubJfr, WriteManifest, Checksum, Tar, TarEnds, RemoveDir, Split, DropArchive, Exit,
           Die, Goto, LateWrite
  <1> QED
    BY <1>1, <1>2, <1>3

(* After the waits no subshell runs, unless one was given up on.           *)
LEMMA ReapNext ==
  TypeOK /\ ProcPart /\ LaunchPart /\ ReapPart /\ [Next]_vars => ReapPart'
  <1> SUFFICES ASSUME TypeOK, ProcPart, LaunchPart, ReapPart, [Next]_vars PROVE ReapPart'
    OBVIOUS
  <1>1. lost' = {} => lost = {}
    BY LostGrows
  <1>2. \A j \in DOMAIN bgPids : bgPids[j] \in Helpers
    BY DEF TypeOK
  <1>3. CASE Reap
    <2>1. UNCHANGED <<sub, lost, bgPids>>
      BY <1>3 DEF Reap, processes
    <2>2. CASE k <= Len(bgPids)
      <3>1. pc' = "reap" /\ k' = k + 1 /\ sub[bgPids[k]] \in Gone /\ pc = "reap"
        BY <1>3, <2>2 DEF Reap
      <3>2. \A j \in DOMAIN bgPids : j < k + 1 => j < k \/ j = k
        BY DEF TypeOK
      <3> QED
        BY <2>1, <3>1, <3>2 DEF ReapPart, AfterReap
    <2>3. CASE ~(k <= Len(bgPids))
      <3>1. pc' = "record" /\ pc = "reap"
        BY <1>3, <2>3 DEF Reap
      <3>2. \A j \in DOMAIN bgPids : j < k
        BY <2>3 DEF TypeOK
      <3>3. \A h \in Helpers : sub[h] = "absent" \/ \E j \in DOMAIN bgPids : h = bgPids[j]
        BY <3>1 DEF LaunchPart, ToSet
      <3> QED
        BY <2>1, <3>1, <3>2, <3>3 DEF ReapPart, Gone
    <2> QED
      BY <2>2, <2>3
  <1>4. CASE EndWindow
    BY <1>4 DEF EndWindow, Goto, ReapPart, TypeOK, AfterReap
  <1>5. CASE InterruptWait
    BY <1>5 DEF InterruptWait, ReapPart
  <1>6. CASE pc' \notin AfterReap \cup {"reap"}
    BY <1>6 DEF ReapPart
  <1>7. CASE UNCHANGED <<bgPids, k>> /\ pc' = "reap" /\ pc = "reap"
    BY <1>1, <1>2, <1>7, GoneStays DEF ReapPart, AfterReap
  <1>8. CASE pc \in AfterReap /\ pc' \in AfterReap
    BY <1>1, <1>8, GoneStays DEF ReapPart, AfterReap
  <1>9. \/ Reap \/ EndWindow \/ InterruptWait \/ pc' \notin AfterReap \cup {"reap"}
        \/ UNCHANGED <<bgPids, k>> /\ pc' = "reap" /\ pc = "reap"
        \/ pc \in AfterReap /\ pc' \in AfterReap
    BY DEF Next, Collector, vars, sealing, collector, Context, Fork, Register, Record, After, ScrubJfr,
           WriteManifest, Checksum, Tar, TarEnds, RemoveDir, Split, DropArchive, Exit, Die, Goto, End,
           Helper, Spawn, SetTrap, WriteRc, StartCapture, FinishCapture, EndCapture, AbortCapture,
           Interrupt, LateWrite, AfterReap
  <1> QED
    BY <1>3, <1>4, <1>5, <1>6, <1>7, <1>8, <1>9

(* Past the waits, with nobody given up on, the helpers stand still: only  *)
(* the collector changes the bundle.                                       *)
LEMMA Quiet ==
  ASSUME TypeOK, ProcPart, ReapPart, pc \in AfterReap, lost = {}
  PROVE  /\ \A h \in Helpers : ~Helper(h)
         /\ Interrupt => UNCHANGED <<content, rc>>
  <1>1. \A h \in Helpers : sub[h] \in Gone /\ helper[h] \notin Active
    BY DEF ReapPart, ProcPart, Gone, Active
  <1>2. \A h \in Helpers : ~Helper(h)
    BY <1>1 DEF Helper, Spawn, SetTrap, WriteRc, StartCapture, FinishCapture, EndCapture, AbortCapture,
                SubStep, HelperStep, Gone, Forwarding, Active
  <1>3. ASSUME Interrupt PROVE UNCHANGED <<content, rc>>
    <2>1. /\ rc' = [h \in Helpers |-> IF h \in ToSet(bgPids) THEN Rc(h) ELSE rc[h]]
          /\ UNCHANGED content
      BY <1>3 DEF Interrupt, OnInterrupt, Terminate
    <2>2. \A h \in Helpers : Rc(h) = rc[h]
      BY <1>1 DEF Rc, Gone, Forwarding
    <2> QED
      BY <2>1, <2>2 DEF TypeOK
  <1> QED
    BY <1>2, <1>3

(* A helper that ended well has ended for good, and its output is taken    *)
(* away by the scrub alone, which says so.                                 *)
LEMMA StatusNext ==
  TypeOK /\ ProcPart /\ RecorderPart /\ LaunchPart /\ StatusPart /\ [Next]_vars => StatusPart'
  <1> SUFFICES ASSUME TypeOK, ProcPart, RecorderPart, LaunchPart, StatusPart, [Next]_vars PROVE StatusPart'
    OBVIOUS
  <1> USE DEF StatusPart, BeforeScrub, Kept
  <1>1. CASE Fork
    <2>1. launch[k] \in Helpers /\ helper[launch[k]] = "absent"
      BY <1>1 DEF Fork, Goto, TypeOK, LaunchPart, ToLaunch, ProcPart
    <2> QED
      BY <1>1, <2>1 DEF Fork, Goto, notes, TypeOK, Files
  <1>2. CASE Record
    BY <1>2 DEF Record, Goto
  <1>3. CASE After
    <2>1. \A h \in Helpers : content'[h] = content[h]
      BY <1>3 DEF After, TypeOK, Helpers, Files
    <2> QED
      BY <1>3, <2>1 DEF After, Goto, notes, processes
  <1>4. ASSUME NEW f \in Files, ScrubJfr(f) PROVE StatusPart'
    <2>1. CASE content[f] = "none"
      BY <1>4, <2>1 DEF ScrubJfr, processes
    <2>2. CASE content[f] # "none"
      <3>1. PICK r \in Scrubbed(f) : /\ scrub' = [scrub EXCEPT ![f] = r[1]]
                                     /\ content' = [content EXCEPT ![f] = r[2]]
        BY <1>4, <2>2 DEF ScrubJfr
      <3>2. r[2] = content[f] \/ r[2] = "scrubbed" \/ r[1] = "failed(removed)"
        BY DEF Scrubbed
      <3>3. pc = "scrub" /\ UNCHANGED <<pc, helper, rc, steps>> /\ todo' = todo \ {f} /\ scrub[f] = "none"
        BY <1>4 DEF ScrubJfr, processes
      <3>4. \A h \in Helpers : Kept(h) => Kept(h)'
        BY <3>1, <3>2, <3>3 DEF TypeOK, Files
      <3>5. \A g \in todo' : scrub'[g] = scrub[g]
        BY <3>1, <3>3 DEF TypeOK
      <3> QED
        BY <3>3, <3>4, <3>5
    <2> QED
      BY <2>1, <2>2
  <1>5. ASSUME NEW h \in Helpers, Helper(h) PROVE StatusPart'
    <2> USE DEF SubStep, HelperStep, TypeOK, collector, notes, Files
    <2>1. CASE Spawn(h)
      BY <2>1 DEF Spawn
    <2>2. CASE SetTrap(h)
      BY <2>2 DEF SetTrap
    <2>3. CASE WriteRc(h)
      BY <2>3 DEF WriteRc
    <2>4. CASE StartCapture(h)
      BY <2>4 DEF StartCapture
    <2>5. CASE FinishCapture(h)
      BY <2>5 DEF FinishCapture, ContentType
    <2>6. CASE EndCapture(h)
      BY <2>6 DEF EndCapture
    <2>7. CASE AbortCapture(h)
      BY <2>7 DEF AbortCapture
    <2> QED
      BY <1>5, <2>1, <2>2, <2>3, <2>4, <2>5, <2>6, <2>7 DEF Helper
  <1>6. CASE Interrupt \/ InterruptWait
    <2>1. \A h \in Helpers : (rc'[h] = "ok" => rc[h] = "ok") /\ (helper[h] = "ok" <=> helper'[h] = "ok")
      BY <1>6, TerminateKeeps DEF Interrupt, InterruptWait, OnInterrupt
    <2>2. UNCHANGED <<pc, content, steps, scrub, todo>>
      BY <1>6 DEF Interrupt, InterruptWait, notes
    <2> QED
      BY <2>1, <2>2
  <1>7. CASE /\ UNCHANGED <<helper, rc, steps, content, scrub, todo>>
             /\ pc' \in BeforeScrub => pc \in BeforeScrub
    BY <1>7
  <1>8. \/ /\ UNCHANGED <<helper, rc, steps, content, scrub, todo>>
           /\ pc' \in BeforeScrub => pc \in BeforeScrub
        \/ Fork \/ Record \/ After \/ Interrupt \/ InterruptWait
        \/ (\E f \in Files : ScrubJfr(f)) \/ (\E h \in Helpers : Helper(h))
        \/ \E h \in Recordings : LateWrite(h)
    BY DEF Next, Collector, vars, processes, notes, sealing, Context, Register, EndWindow, Reap,
           WriteManifest, Checksum, Tar, TarEnds, RemoveDir, Split, DropArchive, Exit, Die, Goto, End
  <1>9. ASSUME NEW h \in Recordings, LateWrite(h) PROVE StatusPart'
    <2>1. helper[h] = "failed" /\ \A f \in Files : f # h => content'[f] = content[f]
      BY <1>9 DEF LateWrite, RecorderPart, TypeOK
    <2>2. UNCHANGED <<pc, helper, rc, steps, scrub, todo>>
      BY <1>9 DEF LateWrite, collector, notes
    <2> QED
      BY <2>1, <2>2 DEF Files
  <1> QED
    BY <1>1, <1>2, <1>3, <1>4, <1>5, <1>6, <1>7, <1>8, <1>9

(* Between the list of recordings and the archive each recording that is   *)
(* still open is on the list or noted; the checksums are of what tar reads.*)
LEMMA SealNext ==
  TypeOK /\ ProcPart /\ ReapPart /\ SealPart /\ [Next]_vars => SealPart'
  <1> SUFFICES ASSUME TypeOK, ProcPart, ReapPart, SealPart, [Next]_vars PROVE SealPart'
    OBVIOUS
  <1> USE DEF SealPart, BeforeTar
  <1>1. lost' = {} => lost = {}
    BY LostGrows
  <1>2. CASE After
    BY <1>2 DEF After, Goto, processes, outputs, Open, Sensitive, IsJfr
  <1>3. ASSUME NEW f \in Files, ScrubJfr(f) PROVE SealPart'
    <2>1. pc = "scrub" /\ todo' = todo \ {f} /\ UNCHANGED <<opts, pc, lost, archive>>
      BY <1>3 DEF ScrubJfr, processes, outputs
    <2>2. \A g \in Files : g # f => content'[g] = content[g] /\ scrub'[g] = scrub[g]
      BY <1>3 DEF ScrubJfr, TypeOK
    <2>3. Open(f)' => scrub'[f] = "NOT_SCRUBBED"
      <3>1. CASE content[f] = "none"
        BY <1>3, <3>1 DEF ScrubJfr, Open
      <3>2. CASE content[f] # "none"
        <4>1. PICK r \in Scrubbed(f) : content'[f] = r[2] /\ scrub'[f] = r[1]
          BY <1>3, <3>2 DEF ScrubJfr, TypeOK
        <4> QED
          BY <2>1, <4>1 DEF Scrubbed, Open, Sensitive
      <3> QED
        BY <3>1, <3>2
    <2>4. \A g \in Files : g # f /\ Open(g)' => Open(g)
      BY <2>1, <2>2 DEF Open, Sensitive, IsJfr
    <2> QED
      BY <2>1, <2>2, <2>3, <2>4
  <1>4. CASE WriteManifest
    BY <1>4 DEF WriteManifest, Goto, processes, outputs, Open, Sensitive, IsJfr
  <1>5. CASE Checksum
    BY <1>5 DEF Checksum, Goto, processes, notes, Open, Sensitive, IsJfr, Bundle
  <1>6. ASSUME NEW h \in Helpers, Helper(h) PROVE SealPart'
    <2>1. UNCHANGED <<pc, todo, archive>>
      BY <1>6 DEF Helper, Spawn, SetTrap, WriteRc, StartCapture, FinishCapture, EndCapture,
                  AbortCapture, collector, outputs
    <2>2. pc \in AfterReap => lost # {}
      BY <1>6, Quiet
    <2> QED
      BY <1>1, <2>1, <2>2 DEF AfterReap
  <1>7. CASE Interrupt
    <2>1. UNCHANGED <<opts, pc, todo, content, scrub, archive, sums>>
      BY <1>7 DEF Interrupt, notes, outputs
    <2>2. pc \in AfterReap /\ lost' = {} => UNCHANGED Bundle
      BY <1>1, <1>7, Quiet DEF Bundle
    <2> QED
      BY <1>1, <2>1, <2>2 DEF AfterReap, Open, Sensitive, IsJfr
  <1>8. CASE UNCHANGED vars
    BY <1>8 DEF vars, outputs, Open, Sensitive, IsJfr, Bundle
  <1>9. CASE pc' \notin {"scrub", "sums", "tar", "tarred"} /\ archive' = archive /\ (pc' \in BeforeTar => pc \in BeforeTar)
    BY <1>9
  <1>10. CASE pc' \notin BeforeTar /\ (pc' = "tarred" => archive' = "partial")
    BY <1>10
  <1>11. \/ After \/ WriteManifest \/ Checksum \/ Interrupt \/ UNCHANGED vars
         \/ (\E f \in Files : ScrubJfr(f)) \/ (\E h \in Helpers : Helper(h))
         \/ pc' \notin {"scrub", "sums", "tar", "tarred"} /\ archive' = archive /\ (pc' \in BeforeTar => pc \in BeforeTar)
         \/ pc' \notin BeforeTar /\ (pc' = "tarred" => archive' = "partial")
         \/ \E h \in Recordings : LateWrite(h)
    BY DEF Next, Collector, outputs, sealing, Context, Fork, Register, EndWindow, Reap, Record, Tar,
           TarEnds, RemoveDir, Split, DropArchive, Exit, Die, Goto, End, InterruptWait, Waiting
  <1>12. ASSUME NEW h \in Recordings, LateWrite(h) PROVE SealPart'
    BY <1>12 DEF LateWrite, collector, outputs
  <1> QED
    BY <1>2, <1>3, <1>4, <1>5, <1>6, <1>7, <1>8, <1>9, <1>10, <1>11, <1>12

(* What is archived is what was summed; what is archived open is noted.    *)
LEMMA ArchiveNext ==
  /\ TypeOK /\ ProcPart /\ ReapPart /\ SealPart /\ [Next]_vars
  /\ ArchiveVerifies /\ NothingSensitiveShipped
  => ArchiveVerifies' /\ NothingSensitiveShipped'
  <1> SUFFICES ASSUME TypeOK, ProcPart, ReapPart, SealPart, [Next]_vars,
                      ArchiveVerifies, NothingSensitiveShipped
               PROVE  ArchiveVerifies' /\ NothingSensitiveShipped'
    OBVIOUS
  <1> USE DEF ArchiveVerifies, NothingSensitiveShipped
  <1>1. lost' = {} => lost = {}
    BY LostGrows
  <1>2. CASE Tar
    <2>1. /\ archived' = Bundle /\ pc = "tar"
          /\ UNCHANGED <<opts, content, scrub, sums, lost>>
      BY <1>2 DEF Tar, Goto, sealing, processes, notes
    <2>2. lost' = {} => archived' = sums'
      BY <2>1 DEF SealPart
    <2>3. ASSUME lost' = {}, NEW f \in Files, Sensitive(f)', archived'.data[f] \in {"partial", "whole"}
          PROVE  scrub'[f] = "NOT_SCRUBBED"
      <3>1. Open(f)
        BY <2>1, <2>3 DEF Open, Sensitive, IsJfr, Bundle
      <3> QED
        BY <2>1, <2>3, <3>1 DEF SealPart
    <2> QED
      BY <2>2, <2>3
  <1>3. CASE archive' = "none"
    BY <1>3
  <1>4. CASE UNCHANGED <<opts, scrub, sums, archived>> /\ (archive' # "none" => archive # "none")
    BY <1>1, <1>4 DEF Sensitive, IsJfr
  <1>5. \/ Tar \/ archive' = "none"
        \/ UNCHANGED <<opts, scrub, sums, archived>> /\ (archive' # "none" => archive # "none")
    BY DEF SealPart, BeforeTar, Next, Collector, vars, outputs, notes, sealing, collector, Context, Fork,
           Register, EndWindow, Reap, Record, After, ScrubJfr, WriteManifest, Checksum, TarEnds,
           RemoveDir, Split, DropArchive, Exit, Die, Goto, End, Helper, Spawn, SetTrap, WriteRc,
           StartCapture, FinishCapture, EndCapture, AbortCapture, LateWrite, Interrupt, InterruptWait
  <1> QED
    BY <1>2, <1>3, <1>4, <1>5

-----------------------------------------------------------------------------
(* The initial state satisfies the invariant ...                           *)
LEMMA IInvInit == Init => IInv
  <1> SUFFICES ASSUME Init PROVE IInv
    OBVIOUS
  <1>1. ProcPart /\ RecorderPart /\ LaunchPart
    BY DEF Init, ProcPart, RecorderPart, LaunchPart, Gone, Active, Direct, Ended, ToLaunch
  <1>2. ReapPart /\ StatusPart /\ SealPart
    BY DEF Init, ReapPart, StatusPart, SealPart, AfterReap, BeforeScrub, BeforeTar, Kept
  <1> QED
    BY <1>1, <1>2, TypeInit DEF IInv, ArchiveVerifies, NothingSensitiveShipped, Init

(* ... and every step keeps it.                                            *)
LEMMA IInvNext == IInv /\ [Next]_vars => IInv'
  BY TypeNext, ProcNext, RecorderNext, LaunchNext, ReapNext, StatusNext, SealNext, ArchiveNext DEF IInv

(* In every run the variables hold what collect.sh can put in them.        *)
THEOREM TypeCorrect == Spec => []TypeOK
  BY IInvInit, IInvNext, PTL DEF Spec, IInv

(* What is archived is what was summed (collect.sh:934-943), as long as    *)
(* the collector waited for every helper: no helper writes between the     *)
(* two, however many signals arrive.                                       *)
THEOREM ArchiveMatches == Spec => []ArchiveVerifies
  BY IInvInit, IInvNext, PTL DEF Spec, IInv

(* A step line of the manifest says ok only of a helper that ran to its    *)
(* end, and whose output is in the bundle or was removed under a note.     *)
THEOREM StepsAreTrue == Spec => []StepsTellTruth
  <1>1. IInv => StepsTellTruth
    BY DEF IInv, StatusPart, Kept, StepsTellTruth
  <1> QED
    BY <1>1, IInvInit, IInvNext, PTL DEF Spec

(* README.txt, "What is removed": no archive holds a recording that can    *)
(* have command lines in it, except under the note NOT_SCRUBBED.           *)
THEOREM ShipsNothingSensitive == Spec => []NothingSensitiveShipped
  BY IInvInit, IInvNext, PTL DEF Spec, IInv
=============================================================================
