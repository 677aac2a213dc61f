------------------------------ MODULE Collect ------------------------------
(***************************************************************************)
(* skills/java-offline-capture/assets/collector/collect.sh from the moment *)
(* the bundle directory exists: the background helpers of the window, the  *)
(* wait for them, the scrub, the seal and the archive.                     *)
(*                                                                         *)
(* Three kinds of process run at once.                                     *)
(*   - The collector, one simple command after another; `pc` is the next   *)
(*     one.  on_interrupt is a trap: it runs between two commands, and it  *)
(*     cuts a `wait` short.                                                *)
(*   - For each helper the subshell of bg_step, which starts the helper,   *)
(*     sets its own trap and waits, twice if a signal ended the first wait.*)
(*   - The helper itself (jfr-capture.sh, asprof-capture.sh, the audit),   *)
(*     which writes below the bundle for as long as it lives.  The sampler *)
(*     is a subshell without a helper: it is the writer and dies of TERM.  *)
(***************************************************************************)
EXTENDS Naturals, Sequences, SequencesExt

CONSTANTS
  Options,     (* the command lines explored: records of [mode: --jfr,      *)
               (* asprof: --asprof usable, sampler: --sample-interval > 0,  *)
               (* keep: --keep-command-line, tool: a jfr tool is installed, *)
               (* split: the archive is over --split-mb]                    *)
  MaxSignals   (* bound: INT, TERM or HUP sent to the collector             *)

Helpers == {"jfr", "asprof", "audit", "sampler"}
Files == Helpers \cup {"continuous"}

OptionType ==
  [mode : {"new", "dump", "none"}, asprof : BOOLEAN, sampler : BOOLEAN,
   keep : BOOLEAN, tool : BOOLEAN, split : BOOLEAN]

ASSUME OptionsAssumption == Options \subseteq OptionType /\ MaxSignals \in Nat

VARIABLES
  opts,         (* this run's options                                       *)
  pc,           (* the collector's next command                             *)
  launch,       (* the helpers to start, in order                           *)
  bgPids,       (* bg_pids                                                  *)
  k,            (* loop index over launch, then over bg_pids                *)
  interrupted,
  sub,          (* the subshell of each helper                              *)
  helper,       (* the helper                                               *)
  content,      (* what each file below the bundle holds                    *)
  rc,           (* the .rc files                                            *)
  steps,        (* the step.<name> lines of the manifest                    *)
  manifest,     (* its `interrupted` line: "none", "0" or "1"               *)
  todo,         (* recordings the scrub loop has still to visit             *)
  scrub,        (* the jfr_scrub.<file> lines                               *)
  sums,         (* SHA256SUMS: the content each checksum was taken from     *)
  archived,     (* the content the archive was made from                    *)
  dir, archive, parts, (* "none", "partial" or "whole"                      *)
  exit,
  signals,
  lost          (* history: helpers the collector gave up on while they     *)
                (* ran, and the recorders that were not seen to stop        *)

vars == <<opts, pc, launch, bgPids, k, interrupted, sub, helper, content, rc,
          steps, manifest, todo, scrub, sums, archived, dir, archive, parts,
          exit, signals, lost>>

processes == <<sub, helper, rc, lost>>
notes == <<steps, manifest, scrub>>
outputs == <<sums, archived, dir, archive, parts>>
signalled == <<interrupted, signals>>

Active == {"preflight", "capturing", "stopping", "aborting"}
Ended == {"ok", "failed"}
Gone == {"absent", "gone"}
ScrubNotes ==
  {"skipped", "source-disabled", "NOT_SCRUBBED", "ok", "failed(removed)"}

(* What writes the recording that a helper has asked for *)
Recordings == {"jfr", "asprof"}
Recorder(h) == IF h = "jfr" THEN "jvm" ELSE "profiler"

(* The sampler runs in the subshell itself. *)
Direct == {"sampler"}

(* The recordings matched by "$bundle"/jvm/*.jfr: without a jfr tool the   *)
(* profiler writes collapsed stacks, unless command lines are kept.        *)
IsJfr(f) ==
  f \in {"jfr", "continuous"} \/ (f = "asprof" /\ (opts.tool \/ opts.keep))

(* Recordings that hold command lines and properties until scrubbed.  The  *)
(* new recording has those events off: JFR_DISABLE_EVENTS.                 *)
Sensitive(f) == IsJfr(f) /\ f # "jfr" /\ ~opts.keep

(* What SHA256SUMS and the archive are made from. *)
Bundle == [data |-> content, rc |-> rc]

Init ==
  /\ opts \in Options
  /\ pc = "context" /\ launch = <<>> /\ bgPids = <<>> /\ k = 1
  /\ interrupted = FALSE /\ signals = 0
  /\ sub = [h \in Helpers |-> "absent"]
  /\ helper = [h \in Helpers |-> "absent"]
  /\ content = [f \in Files |-> "none"]
  /\ rc = [h \in Helpers |-> "none"]
  /\ steps = [h \in Helpers |-> "none"]
  /\ manifest = "none"
  /\ todo = {}
  /\ scrub = [f \in Files |-> "none"]
  /\ sums = Bundle /\ archived = Bundle
  /\ dir = "whole" /\ archive = "none" /\ parts = "none"
  /\ exit = "none"
  /\ lost = {}

-----------------------------------------------------------------------------
(* Signals *)

(* What one TERM does to a helper: nothing is trapped during preflight, and *)
(* never in the audit; the captures exit through their cleanup, which a     *)
(* second signal aborts once its current command ends.                      *)
OneTerm(h) ==
  CASE helper[h] = "preflight" -> "failed"
    [] helper[h] = "capturing" -> IF h \in {"audit", "sampler"} THEN "failed" ELSE "stopping"
    [] helper[h] = "stopping" -> "aborting"
    [] OTHER -> helper[h]

(* TERM sent to a subshell that has set its trap reaches the helper and    *)
(* ends the subshell's `wait`; one that has not set it dies, and the       *)
(* helper it may have started runs on.                                     *)
Forwarding == {"waiting", "rewaiting"}

(* Mutant: bg_step does not wait a second time. *)
OneWait(h) == IF sub[h] \in Gone THEN sub[h] ELSE "gone"

SubAfterTerm(h) ==
  CASE sub[h] \in Gone -> sub[h]
    [] sub[h] = "waiting" /\ helper[h] \in Active -> "rewaiting"
    [] OTHER -> "gone"

Rc(h) == IF sub[h] \in Forwarding /\ SubAfterTerm(h) = "gone" THEN "failed" ELSE rc[h]

(* kill -TERM to every process of hs *)
Terminate(hs) ==
  /\ sub' = [h \in Helpers |-> IF h \in hs THEN SubAfterTerm(h) ELSE sub[h]]
  /\ helper' = [h \in Helpers |->
       IF h \in hs /\ sub[h] \in Forwarding \cup {"writing"} THEN OneTerm(h) ELSE helper[h]]
  /\ rc' = [h \in Helpers |-> IF h \in hs THEN Rc(h) ELSE rc[h]]

(* Helpers of hs that a TERM leaves running with nobody waiting for them. *)
Orphaned(hs) ==
  {h \in hs : helper[h] \in Active /\ sub[h] \in {"spawned", "rewaiting"}}

OnInterrupt ==
  /\ signals < MaxSignals
  /\ signals' = signals + 1
  /\ interrupted' = TRUE
  /\ Terminate(ToSet(bgPids))

Waiting == pc = "reap" /\ k <= Len(bgPids) /\ sub[bgPids[k]] \notin Gone

(* Between two commands. *)
Interrupt ==
  /\ pc # "done"
  /\ OnInterrupt
  /\ lost' = lost \cup Orphaned(ToSet(bgPids))
  /\ UNCHANGED <<opts, pc, launch, bgPids, k, content, notes, todo, outputs, exit>>

(* In `wait "$p"`: wait returns at once and the loop goes on to the next. *)
InterruptWait ==
  /\ Waiting
  /\ OnInterrupt
  /\ lost' = lost \cup Orphaned(ToSet(bgPids)) \cup {bgPids[k]}
  /\ k' = k + 1
  /\ UNCHANGED <<opts, pc, launch, bgPids, content, notes, todo, outputs, exit>>

-----------------------------------------------------------------------------
(* The helpers and their subshells *)

SubStep(h, from, to) == sub[h] = from /\ sub' = [sub EXCEPT ![h] = to]
HelperStep(h, from, to) == helper[h] \in from /\ helper' = [helper EXCEPT ![h] = to]

collector == <<opts, pc, launch, bgPids, k, signalled, notes, todo, outputs, exit>>

(* "$@" & *)
Spawn(h) ==
  /\ SubStep(h, "forked", "spawned")
  /\ HelperStep(h, {"absent"}, "preflight")
  /\ UNCHANGED <<collector, content, rc, lost>>

(* trap ... INT TERM HUP; wait "$child" *)
SetTrap(h) ==
  /\ SubStep(h, "spawned", "waiting")
  /\ UNCHANGED <<collector, helper, content, rc, lost>>

(* Mutant: `wait "$child" || true; rc=$?` *)
RcAlwaysZero(h) ==
  /\ sub[h] \in Forwarding /\ helper[h] \in Ended
  /\ rc' = [rc EXCEPT ![h] = "ok"]
  /\ sub' = [sub EXCEPT ![h] = "gone"]
  /\ UNCHANGED <<collector, helper, content, lost>>

(* The wait returns the helper's own status: write the .rc file. *)
WriteRc(h) ==
  /\ sub[h] \in Forwarding /\ helper[h] \in Ended
  /\ rc' = [rc EXCEPT ![h] = helper[h]]
  /\ sub' = [sub EXCEPT ![h] = "gone"]
  /\ UNCHANGED <<collector, helper, content, lost>>

(* Preflight passes: the output file exists from here on. *)
StartCapture(h) ==
  /\ HelperStep(h, {"preflight"}, "capturing")
  /\ content' = [content EXCEPT ![h] = "partial"]
  /\ UNCHANGED <<collector, sub, rc, lost>>

(* A capture that ran its time.  The profiler's staged file is gone if the *)
(* scrub loop removed it; one the loop rewrote is published as rewritten.  *)
FinishCapture(h) ==
  /\ IF h = "asprof" /\ content[h] = "none"
     THEN HelperStep(h, {"capturing"}, "failed") /\ UNCHANGED content
     ELSE /\ HelperStep(h, {"capturing"}, "ok")
          /\ content' = [content EXCEPT ![h] = IF @ = "scrubbed" THEN @ ELSE "whole"]
  /\ sub' = IF h \in Direct THEN [sub EXCEPT ![h] = "gone"] ELSE sub
  /\ UNCHANGED <<collector, rc, lost>>

(* A capture that does not end by itself asks for the recording to be      *)
(* stopped, and may be left without an answer.                             *)
MayWriteOn(h) ==
  {lost} \cup {lost \cup {Recorder(g)} : g \in Recordings \cap {h}}

(* A helper that fails, or ends because of a TERM.  The profiler removes   *)
(* its staged file; the recorder asks the JVM to write what it has.        *)
EndCapture(h) ==
  /\ h \notin Direct
  /\ HelperStep(h, {"preflight", "capturing", "stopping"}, "failed")
  /\ \/ h # "asprof" /\ UNCHANGED content
     \/ h = "asprof" /\ content' = [content EXCEPT ![h] = "none"]
     \/ /\ h = "jfr" /\ content[h] # "none"
        /\ content' = [content EXCEPT ![h] = "whole"]
  /\ lost' \in IF helper[h] = "preflight" THEN {lost} ELSE MayWriteOn(h)
  /\ UNCHANGED <<collector, sub, rc>>

(* The cleanup of a capture is cut off: what is on disk stays, and the JVM *)
(* may or may not have been told to stop.                                  *)
AbortCapture(h) ==
  /\ HelperStep(h, {"aborting"}, "failed")
  /\ content' \in {content, [content EXCEPT ![h] = IF h = "jfr" THEN "whole" ELSE "none"]}
  /\ lost' \in MayWriteOn(h)
  /\ UNCHANGED <<collector, sub, rc>>

(* The JVM, or the profiler in it, that was not seen to stop writes its    *)
(* file later than its helper ended.                                       *)
LateWrite(h) ==
  /\ Recorder(h) \in lost /\ dir # "none"
  /\ \E c \in {"partial", "whole"} : content' = [content EXCEPT ![h] = c]
  /\ UNCHANGED <<collector, sub, helper, rc, lost>>

Helper(h) ==
  \/ Spawn(h) \/ SetTrap(h) \/ WriteRc(h)
  \/ StartCapture(h) \/ FinishCapture(h) \/ EndCapture(h) \/ AbortCapture(h)

-----------------------------------------------------------------------------
(* The collector *)

Goto(from, to) == pc = from /\ pc' = to

LaunchIf(wanted, h) == IF wanted THEN <<h>> ELSE <<>>

(* The context of the window; a JVM that does not answer VM.version costs  *)
(* the new recording.                                                      *)
Context ==
  /\ Goto("context", "launch")
  /\ \E usable \in BOOLEAN :
       launch' = LaunchIf(opts.mode = "new" /\ usable, "jfr") \o LaunchIf(opts.asprof, "asprof")
                 \o <<"audit">> \o LaunchIf(opts.sampler, "sampler")
  /\ UNCHANGED <<opts, bgPids, k, signalled, processes, content, notes, todo, outputs, exit>>

(* ( ... ) & *)
Fork ==
  /\ Goto("launch", "register")
  /\ k <= Len(launch)
  /\ LET h == launch[k] IN
     IF h \in Direct
     THEN /\ sub' = [sub EXCEPT ![h] = "writing"]
          /\ helper' = [helper EXCEPT ![h] = "capturing"]
          /\ content' = [content EXCEPT ![h] = "partial"]
     ELSE /\ sub' = [sub EXCEPT ![h] = "forked"]
          /\ UNCHANGED <<helper, content>>
  /\ UNCHANGED <<opts, launch, bgPids, k, signalled, rc, lost, notes, todo, outputs, exit>>

(* bg_pids+=($!) *)
Register ==
  /\ Goto("register", "launch")
  /\ bgPids' = Append(bgPids, launch[k])
  /\ k' = k + 1
  /\ UNCHANGED <<opts, launch, signalled, processes, content, notes, todo, outputs, exit>>

(* The window lasts until its deadline, an interrupt or the target's exit: *)
(* it may end at any time.                                                 *)
EndWindow ==
  /\ Goto("launch", "reap")
  /\ k > Len(launch)
  /\ k' = 1
  /\ UNCHANGED <<opts, launch, bgPids, signalled, processes, content, notes, todo, outputs, exit>>

(* Mutant: poll for the .rc file instead of waiting for the process. *)
ReapRcFile ==
  /\ pc = "reap"
  /\ IF k <= Len(bgPids)
     THEN rc[bgPids[k]] # "none" /\ k' = k + 1 /\ pc' = pc
     ELSE pc' = "record" /\ k' = k
  /\ UNCHANGED <<opts, launch, bgPids, signalled, processes, content, notes, todo, outputs, exit>>

(* wait "$p" *)
Reap ==
  /\ pc = "reap"
  /\ IF k <= Len(bgPids)
     THEN sub[bgPids[k]] \in Gone /\ k' = k + 1 /\ pc' = pc
     ELSE pc' = "record" /\ k' = k
  /\ UNCHANGED <<opts, launch, bgPids, signalled, processes, content, notes, todo, outputs, exit>>

(* One step line for each .rc file; then rm -f *.rc. *)
Record ==
  /\ Goto("record", "after")
  /\ steps' = rc
  /\ rc' = [h \in Helpers |-> "none"]
  /\ UNCHANGED <<opts, launch, bgPids, k, signalled, sub, helper, content, lost,
                 manifest, scrub, todo, outputs, exit>>

(* Context after the window, with the dump of the continuous recording if  *)
(* the JVM is there to make one; then the scrub loop's list of recordings. *)
After ==
  /\ Goto("after", "scrub")
  /\ \/ UNCHANGED content
     \/ /\ opts.mode = "dump"
        /\ content' = [content EXCEPT !["continuous"] = "whole"]
  /\ todo' = {f \in Files : IsJfr(f) /\ content'[f] # "none"}
  /\ UNCHANGED <<opts, launch, bgPids, k, signalled, processes, notes, outputs, exit>>

(* Mutant: a recording that cannot be scrubbed stays. *)
KeepUnscrubbed(f) ==
  IF opts.keep THEN {<<"skipped", content[f]>>}
  ELSE IF ~opts.tool
       THEN {<<IF f = "jfr" THEN "source-disabled" ELSE "NOT_SCRUBBED", content[f]>>}
       ELSE {<<"ok", "scrubbed">>, <<"failed(removed)", content[f]>>}

(* scrub_jfr: what it notes and what it leaves. *)
Scrubbed(f) ==
  IF opts.keep THEN {<<"skipped", content[f]>>}
  ELSE IF ~opts.tool
       THEN {<<IF f = "jfr" THEN "source-disabled" ELSE "NOT_SCRUBBED", content[f]>>}
       ELSE {<<"ok", "scrubbed">>, <<"failed(removed)", "none">>}

ScrubJfr(f) ==
  /\ pc = "scrub" /\ f \in todo
  /\ todo' = todo \ {f}
  /\ IF content[f] = "none"
     THEN UNCHANGED <<content, scrub>>
     ELSE \E r \in Scrubbed(f) :
            /\ scrub' = [scrub EXCEPT ![f] = r[1]]
            /\ content' = [content EXCEPT ![f] = r[2]]
  /\ UNCHANGED <<opts, pc, launch, bgPids, k, signalled, processes, steps, manifest, outputs, exit>>

(* After the GC logs and the vendor artifacts: man interrupted "$interrupted" *)
WriteManifest ==
  /\ Goto("scrub", "sums")
  /\ todo = {}
  /\ manifest' = IF interrupted THEN "1" ELSE "0"
  /\ UNCHANGED <<opts, launch, bgPids, k, signalled, processes, content, steps, scrub, todo, outputs, exit>>

(* find ... | sha256sum > SHA256SUMS *)
Checksum ==
  /\ Goto("sums", "tar")
  /\ sums' = Bundle
  /\ UNCHANGED <<opts, launch, bgPids, k, signalled, processes, content, notes, todo,
                 archived, dir, archive, parts, exit>>

sealing == <<opts, launch, bgPids, k, signalled, processes, content, notes, todo, sums>>

Tar ==
  /\ Goto("tar", "tarred")
  /\ archive' = "partial"
  /\ archived' = Bundle
  /\ UNCHANGED <<sealing, dir, parts, exit>>

End(code) == pc' = "done" /\ exit' = code

(* Mutant: the exit status of tar is not looked at. *)
TarUnchecked ==
  /\ pc = "tarred" /\ pc' = "remove"
  /\ archive' \in {"partial", "whole"}
  /\ UNCHANGED <<sealing, archived, dir, parts, exit>>

TarEnds ==
  /\ pc = "tarred"
  /\ \/ pc' = "remove" /\ archive' = "whole" /\ exit' = exit
     \/ End("5") /\ UNCHANGED archive
  /\ UNCHANGED <<sealing, archived, dir, parts>>

(* rm -rf "$bundle" *)
RemoveDir ==
  /\ \/ Goto("remove", "removing") /\ dir' = "partial"
     \/ Goto("removing", IF opts.split THEN "split" ELSE "exit") /\ dir' = "none"
  /\ UNCHANGED <<sealing, archived, archive, parts, exit>>

Split ==
  /\ \/ Goto("split", "splitting") /\ parts' = "partial" /\ exit' = exit
     \/ Goto("splitting", "dropArchive") /\ parts' = "whole" /\ exit' = exit
     \/ pc = "splitting" /\ End("5") /\ UNCHANGED parts
  /\ UNCHANGED <<sealing, archived, dir, archive>>

DropArchive ==
  /\ Goto("dropArchive", "exit")
  /\ archive' = "none"
  /\ UNCHANGED <<sealing, archived, dir, parts, exit>>

Exit ==
  /\ pc = "exit"
  /\ End(IF interrupted THEN "130" ELSE "0")
  /\ UNCHANGED <<sealing, archived, dir, archive, parts>>

(* kill -9, the OOM killer or the end of the host. *)
Die ==
  /\ pc # "done"
  /\ End("killed")
  /\ UNCHANGED <<sealing, archived, dir, archive, parts>>

Collector ==
  \/ Context \/ Fork \/ Register \/ EndWindow \/ Reap \/ Record \/ After
  \/ (\E f \in Files : ScrubJfr(f)) \/ WriteManifest
  \/ Checksum \/ Tar \/ TarEnds \/ RemoveDir \/ Split \/ DropArchive \/ Exit

Next ==
  \/ Collector
  \/ \E h \in Helpers : Helper(h)
  \/ \E h \in Recordings : LateWrite(h)
  \/ Interrupt \/ InterruptWait
  \/ Die

Spec == Init /\ [][Next]_vars

(* The scheduler runs every process; a capture ends by itself, since each  *)
(* helper bounds its own duration.  Nobody has to interrupt or to kill.    *)
FairSpec ==
  /\ Spec
  /\ WF_vars(Collector)
  /\ \A h \in Helpers : WF_vars(Helper(h))
-----------------------------------------------------------------------------
(* Correctness *)

AfterReap ==
  {"record", "after", "scrub", "sums", "tar", "tarred", "remove", "removing",
   "split", "splitting", "dropArchive", "exit"}

PcType == {"context", "launch", "register", "reap", "done"} \cup AfterReap

ContentType == {"none", "partial", "whole", "scrubbed"}
BundleType ==
  [data : [Files -> ContentType], rc : [Helpers -> {"none"} \cup Ended]]

(* The variables hold what collect.sh can put in them. *)
TypeOK ==
  /\ opts \in Options /\ pc \in PcType
  /\ launch \in Seq(Helpers) /\ bgPids \in Seq(Helpers)
  /\ k \in Nat \ {0} /\ interrupted \in BOOLEAN
  /\ sub \in [Helpers -> Gone \cup Forwarding \cup {"forked", "spawned", "writing"}]
  /\ helper \in [Helpers -> {"absent"} \cup Active \cup Ended]
  /\ content \in [Files -> ContentType]
  /\ rc \in [Helpers -> {"none"} \cup Ended]
  /\ steps \in [Helpers -> {"none"} \cup Ended]
  /\ manifest \in {"none", "0", "1"}
  /\ todo \subseteq Files
  /\ scrub \in [Files -> {"none"} \cup ScrubNotes]
  /\ sums \in BundleType /\ archived \in BundleType
  /\ {dir, archive, parts} \subseteq {"none", "partial", "whole"}
  /\ exit \in {"none", "0", "5", "130", "killed"}
  /\ signals \in 0..MaxSignals
  /\ lost \subseteq Helpers \cup {"jvm", "profiler"}

(* Whatever fails and wherever the collector dies, the evidence exists in  *)
(* one whole piece: the directory, the archive or its parts.               *)
EvidenceKept == "whole" \in {dir, archive, parts}

(* What is archived is what was summed, unless a process that writes below *)
(* the bundle was given up on.                                             *)
ArchiveVerifies == archive # "none" /\ lost = {} => archived = sums

(* A step line says ok only of a helper that ran to its end and whose      *)
(* output is there, or was scrubbed away under a note that says so.        *)
StepsTellTruth ==
  \A h \in Helpers :
    steps[h] = "ok" =>
      /\ helper[h] = "ok"
      /\ content[h] \in {"whole", "scrubbed"} \/ scrub[h] = "failed(removed)"

(* README.txt, "What is removed": no archive holds command lines or        *)
(* properties, except under the note NOT_SCRUBBED, unless a process that   *)
(* writes below the bundle was given up on.                                *)
NothingSensitiveShipped ==
  archive # "none" /\ lost = {} =>
    \A f \in Files :
      Sensitive(f) /\ archived.data[f] \in {"partial", "whole"}
        => scrub[f] = "NOT_SCRUBBED"

(* Every collection ends, however many signals arrive.                     *)
Terminates == <>(pc = "done")
=============================================================================
