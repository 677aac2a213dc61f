------------------------------- MODULE Install -------------------------------
(***************************************************************************)
(* install.sh: one skill directory of a user, through installations,       *)
(* copies, uninstallations and runs that are killed or fail half way.      *)
(*                                                                         *)
(* An entry belongs to the installer when it is a link to this checkout or *)
(* a directory with the marker, and to the user otherwise.  The marker is  *)
(* written after the copy, and rm -r takes it away in the order in which   *)
(* it finds the files, so an interrupted run may leave a part of a copy    *)
(* with a marker or a whole one without.  Users change their entries       *)
(* between the runs.                                                       *)
(***************************************************************************)
EXTENDS Naturals, FiniteSets

CONSTANTS
  Skills,
  Ready,      (* profiling-readiness                                       *)
  Requires,   (* requires.txt of each skill                                *)
  MaxRuns,    (* bound: runs                                               *)
  MaxOwn      (* bound: entries the user makes                             *)

VARIABLES
  place,      (* what each entry is, one of Kinds                          *)
  mode,       (* link, copy, uninstall                                     *)
  asked,      (* the skills of this run                                    *)
  queue,      (* those still to do                                         *)
  entry,      (* the one that is done                                      *)
  act,        (* idle, loop, look, remove, put, mark, done                 *)
  verdict,    (* status; 2: the run was cut short                          *)
  theirs,     (* history: entries the user has made                        *)
  tries       (* the number of runs                                        *)

vars == <<place, mode, asked, queue, entry, act, verdict, theirs, tries>>
given == <<mode, asked, theirs, tries>>

None == "none"
(* part, bare: a copy without a marker, not all of it there or all;        *)
(* markedpart: one that rm -r has begun to remove.                         *)
Kinds == {None, "link", "copy", "part", "bare", "markedpart", "otherlink", "other"}

Closed(s) == \A n \in s : Requires[n] \subseteq s
Candidates(names) == {s \in SUBSET Skills : names \cup {Ready} \subseteq s /\ Closed(s)}

(* Mutant: what the names require is not looked at. *)
SkillsNamed(names) == IF names = {} THEN Skills ELSE names \cup {Ready}

(* With names, readiness and what they require, transitively; otherwise    *)
(* every skill.  An uninstallation follows requires.txt, too.              *)
SkillsFor(names) ==
  IF names = {} THEN Skills ELSE {n \in Skills : \A s \in Candidates(names) : n \in s}

Init ==
  /\ place = [n \in Skills |-> None] /\ mode = "link" /\ asked = {} /\ queue = {} /\ entry = Ready
  /\ act = "idle" /\ verdict = 0 /\ theirs = {} /\ tries = 0

(* The user makes an entry of the same name. *)
MakeOwn(n) ==
  /\ act \in {"idle", "done"} /\ act' = "idle" /\ place[n] = None /\ Cardinality(theirs) < MaxOwn
  /\ place' = [place EXCEPT ![n] = "other"] \/ place' = [place EXCEPT ![n] = "otherlink"]
  /\ theirs' = theirs \cup {n}
  /\ UNCHANGED <<mode, asked, queue, entry, verdict, tries>>

Start ==
  /\ act \in {"idle", "done"} /\ tries < MaxRuns /\ tries' = tries + 1
  /\ \E names \in SUBSET Skills : asked' = SkillsFor(names)
  /\ mode' \in {"link", "copy", "uninstall"}
  /\ queue' = asked' /\ act' = "loop" /\ verdict' = 0
  /\ UNCHANGED <<place, entry, theirs>>

(* for name in "${skills[@]}" *)
NextSkill ==
  /\ act = "loop"
  /\ \/ queue = {} /\ act' = "done" /\ UNCHANGED <<queue, entry>>
     \/ \E n \in queue : entry' = n /\ queue' = queue \ {n} /\ act' = "look"
  /\ UNCHANGED <<place, given, verdict>>

(* Mutant: a link is taken for ours wherever it leads. *)
OwnedByName(kind) == kind \in {"link", "otherlink", "copy", "markedpart"}

OwnedByUs(kind) == kind \in {"link", "copy", "markedpart"}

(* Only a link is left as it is; a copy is always made anew. *)
Already(kind) == mode = "link" /\ kind = "link"

(* The checks of one entry *)
Look ==
  LET kind == place[entry]
  IN  /\ act = "look"
      /\ \/ kind = None /\ act' = (IF mode = "uninstall" THEN "loop" ELSE "put") /\ UNCHANGED verdict
         \/ kind # None /\ ~OwnedByUs(kind) /\ act' = "loop" /\ verdict' = 1
         \/ kind # None /\ OwnedByUs(kind) /\ act' = (IF Already(kind) THEN "loop" ELSE "remove")
            /\ UNCHANGED verdict
      /\ UNCHANGED <<place, given, queue, entry>>

(* rm, rm -r *)
Remove ==
  /\ act = "remove" /\ place' = [place EXCEPT ![entry] = None]
  /\ act' = IF mode = "uninstall" THEN "loop" ELSE "put"
  /\ UNCHANGED <<given, queue, entry, verdict>>

(* ln -s, cp -R *)
Put ==
  /\ act = "put"
  /\ \/ mode = "link" /\ place' = [place EXCEPT ![entry] = "link"] /\ act' = "loop"
     \/ mode = "copy" /\ place' = [place EXCEPT ![entry] = "bare"] /\ act' = "mark"
  /\ UNCHANGED <<given, queue, entry, verdict>>

(* : > "$entry/$marker" *)
Mark ==
  /\ act = "mark" /\ place' = [place EXCEPT ![entry] = "copy"] /\ act' = "loop"
  /\ UNCHANGED <<given, queue, entry, verdict>>

(* What a command that fails or is killed half way leaves behind *)
Halfway ==
  {place[entry]} \cup (IF act = "remove" /\ place[entry] # "link" THEN {"markedpart", "part"} ELSE {})
                  \cup (IF act = "put" /\ mode = "copy" THEN {"part"} ELSE {})

(* A command fails (set -e) or the run is killed. *)
Stop ==
  /\ act \notin {"idle", "done"} /\ act' = "idle" /\ verdict' = 2
  /\ \E left \in Halfway : place' = [place EXCEPT ![entry] = left]
  /\ UNCHANGED <<given, queue, entry>>

Next ==
  \/ Start \/ NextSkill \/ Look \/ Remove \/ Put \/ Mark \/ Stop
  \/ \E n \in Skills : MakeOwn(n)

Spec == Init /\ [][Next]_vars

-----------------------------------------------------------------------------
TypeOK ==
  /\ place \in [Skills -> Kinds] /\ mode \in {"link", "copy", "uninstall"}
  /\ asked \subseteq Skills /\ queue \subseteq asked /\ entry \in Skills
  /\ act \in {"idle", "loop", "look", "remove", "put", "mark", "done"}
  /\ verdict \in {0, 1, 2} /\ theirs \subseteq Skills /\ tries \in 0..MaxRuns

(* "never touches an entry it did not create" (install.sh:7-8): what the   *)
(* user has made stays, through every mode, death and repetition.          *)
ForeignKept == \A n \in theirs : place[n] \in {"other", "otherlink"}

Wanted == IF mode = "uninstall" THEN None ELSE mode

(* A run that ends with 0 has done all it was asked, with readiness and    *)
(* the dependencies: every entry is a link, or a whole copy, or is gone,   *)
(* whatever earlier runs that were cut short had left there.               *)
ZeroIsInstalled ==
  act = "done" /\ verdict = 0 =>
    /\ \A n \in asked : place[n] = Wanted
    /\ Ready \in asked /\ Closed(asked)
=============================================================================
