------------------------------- MODULE Intake -------------------------------
(***************************************************************************)
(* skills/java-offline-capture/scripts/analyze-bundle.py: how an archive,  *)
(* an extracted bundle or a directory of loose files becomes the tree that *)
(* is analysed, and what is said of its integrity.                         *)
(*                                                                         *)
(* The evidence was sealed by collect.sh with SHA256SUMS; on its way here  *)
(* it is damaged, member by member, or arrives whole.  Then one run of     *)
(* analyze-bundle.py validates, copies one file after another (the disk    *)
(* may fill up), checks the format and the sums, and reports.              *)
(***************************************************************************)
EXTENDS Naturals, Sequences, FiniteSets

CONSTANTS
  Members,        (* the sealed files besides MANIFEST.txt                 *)
  Extra,          (* a file that was not sealed                            *)
  MaxUnpacked,    (* MAX_UNPACKED, in files                                *)
  MaxDamage,      (* bound: damages on the way                             *)
  Stems, Exts,    (* loose file names are STEM.EXT, or NN-STEM.EXT         *)
  MaxLoose        (* bound: loose files                                    *)

Manifest == "MANIFEST.txt"

VARIABLES
  pc,
  input,     (* what is given: archive, dir, files (loose)                 *)
  expect,    (* 1: --expect-sha256 with the digest of the sealed archive   *)
  tree,      (* archive or dir: member -> content                          *)
  sums,      (* its SHA256SUMS: member -> digest; NoSums: the file is gone *)
  flaw,      (* truncated, a link, or none                                 *)
  damage,    (* number of damages                                          *)
  loose,     (* the loose files in the sorted order of their paths         *)
  out,       (* the output directory: 1 once it exists                     *)
  bundle,    (* what it holds: target -> content                           *)
  done,      (* members copied; loose files imported                       *)
  inventory, (* loose_file.N lines                                         *)
  problems,  (* what verify_sums returned                                  *)
  report,    (* 1: ANALYSIS.md and analysis.json were written              *)
  exit

vars == <<pc, input, expect, tree, sums, flaw, damage, loose, out, bundle, done, inventory,
          problems, report, exit>>

evidence == <<input, expect, tree, sums, flaw, damage, loose>>
result == <<problems, report>>

Sealed == [m \in Members \cup {Manifest} |-> "sealed"]
NoSums == [m \in {} |-> "sealed"]

(* What sniff tells apart here: recordings and collapsed stacks keep their *)
(* stem, GC logs get a number, other files and crash logs keep their name. *)
Kinds == {"jfr", "gc-log", "other"}
Names == [pre : {<<>>} \cup {<<n>> : n \in 1..MaxLoose}, stem : Stems, ext : Exts]
LooseFiles == [name : Names, kind : Kinds]

Init ==
  /\ pc = "way" /\ input \in {"archive", "dir", "files"} /\ expect \in {0, 1}
  /\ input = "files" => expect = 0
  /\ tree = Sealed /\ sums = Sealed /\ flaw = "none" /\ damage = 0 /\ loose = <<>>
  /\ out = 0 /\ bundle = <<>> /\ done = 0 /\ inventory = 0
  /\ problems = {} /\ report = 0 /\ exit = "none"

-----------------------------------------------------------------------------
(* On the way *)

Without(f, m) == [x \in DOMAIN f \ {m} |-> f[x]]
With(f, m, c) == [x \in DOMAIN f \cup {m} |-> IF x = m THEN c ELSE f[x]]

DamagedTrees ==
  {With(tree, m, "damaged") : m \in DOMAIN tree \cup {Extra}}
  \cup {Without(tree, m) : m \in DOMAIN tree}
  \cup {With(tree, m, "newer") : m \in DOMAIN tree \cap {Manifest}}
DamagedSums ==
  {NoSums} \cup UNION {{Without(sums, m), With(sums, m, "damaged")} : m \in DOMAIN sums}
Flaws == IF input = "archive" THEN {"truncated", "link"} ELSE {"link"}

Damage ==
  /\ pc = "way" /\ input # "files" /\ damage < MaxDamage /\ damage' = damage + 1
  /\ \/ tree' \in DamagedTrees /\ UNCHANGED <<sums, flaw>>
     \/ sums' \in DamagedSums /\ UNCHANGED <<tree, flaw>>
     \/ flaw' \in Flaws /\ UNCHANGED <<tree, sums>>
  /\ UNCHANGED <<pc, input, expect, loose, out, bundle, done, inventory, result, exit>>

(* A loose file is collected; each lies in a directory of its own.         *)
Collect ==
  /\ pc = "way" /\ input = "files" /\ Len(loose) < MaxLoose
  /\ \E f \in LooseFiles : loose' = Append(loose, f)
  /\ UNCHANGED <<pc, input, expect, tree, sums, flaw, damage, out, bundle, done, inventory,
                 result, exit>>

-----------------------------------------------------------------------------
(* analyze-bundle.py *)

Leave(code) == pc' = "exit" /\ exit' = code
Goto(to) == pc' = to /\ UNCHANGED exit

(* main: the checks before anything is made, and mkdir for a directory.    *)
Start ==
  /\ pc = "way"
  /\ CASE input = "files" -> Goto("import") /\ out' = 1
       [] input = "dir" /\ expect = 1 -> Leave("2") /\ UNCHANGED out
       [] input = "dir" /\ expect = 0 ->
            /\ out' = 1
            /\ \/ Manifest \in DOMAIN tree /\ Goto("copy")
               \/ Manifest \notin DOMAIN tree /\ Goto("loose")
               \/ Manifest \in DOMAIN tree /\ tree[Manifest] = "damaged" /\ Goto("loose")
       [] input = "archive" ->
            /\ UNCHANGED out
            /\ IF expect = 1 /\ damage > 0 THEN Leave("5") ELSE Goto("validate")
  /\ UNCHANGED <<evidence, bundle, done, inventory, result>>

(* The files of a directory, one after the other. *)
Listed(all) == CHOOSE f \in [1..Cardinality(all) -> all] : \A i, j \in DOMAIN f : f[i] = f[j] => i = j

(* A bundle directory without a manifest, or whose manifest has lost the   *)
(* words bundle_format=, is a directory of loose files.                    *)
TakeAsLoose ==
  /\ pc = "loose" /\ Goto("import")
  /\ input' = "files"
  /\ LET member == Listed(DOMAIN tree)
     IN  loose' = [i \in 1..Cardinality(DOMAIN tree) |->
                     [name |-> [pre |-> <<>>, stem |-> member[i], ext |-> "txt"], kind |-> "other"]]
  /\ UNCHANGED <<expect, tree, sums, flaw, damage, out, bundle, done, inventory, result>>

(* A truncated archive, a link or special file, no single top directory,   *)
(* too large                                                               *)
Acceptable == flaw = "none" /\ Cardinality(DOMAIN tree) \in 1..MaxUnpacked

(* safe_extract: every member is looked at before the first is written.    *)
Validate ==
  /\ pc = "validate"
  /\ IF Acceptable THEN Goto("copy") /\ out' = 1 ELSE Leave("1") /\ UNCHANGED out
  /\ UNCHANGED <<evidence, bundle, done, inventory, result>>

Left == DOMAIN tree \ DOMAIN bundle

(* Mutant: what cannot be written is left out. *)
CopySome ==
  /\ pc = "copy" /\ \E m \in Left : bundle' \in {bundle, With(bundle, m, tree[m])}
  /\ done' = done + 1 /\ Goto(IF done' = Cardinality(DOMAIN tree) THEN "format" ELSE "copy")
  /\ UNCHANGED <<evidence, out, inventory, result>>

(* safe_extract's second loop, copy_tree: one more member. *)
CopyMember ==
  /\ pc = "copy" /\ \E m \in Left : bundle' = With(bundle, m, tree[m])
  /\ done' = done + 1 /\ Goto(IF done' = Cardinality(DOMAIN tree) THEN "format" ELSE "copy")
  /\ UNCHANGED <<evidence, out, inventory, result>>

(* copy_tree meets a symlink, or more than MAX_UNPACKED, half way.         *)
CopyRefused ==
  /\ pc = "copy" /\ input = "dir"
  /\ flaw = "link" \/ done >= MaxUnpacked
  /\ Leave("1")
  /\ UNCHANGED <<evidence, out, bundle, done, inventory, result>>

(* The name import_loose gives to the n-th file of a kind *)
Target(f, n) ==
  CASE f.kind = "jfr" -> [dir |-> "jvm", name |-> [f.name EXCEPT !.ext = "jfr"]]
    [] f.kind = "gc-log" -> [dir |-> "logs", name |-> [f.name EXCEPT !.pre = <<n>> \o @]]
    [] f.kind = "other" -> [dir |-> "other", name |-> f.name]

(* with_name(f"{n:02d}-{target.name}") *)
Numbered(t, n) == [t EXCEPT !.name.pre = <<n>> \o @]

(* counters[kind] once the i-th file is counted *)
Counter(i) == Cardinality({j \in 1..i : loose[j].kind = loose[i].kind})

(* Mutant: the target is not looked for. *)
FinalTargetBlind(i) == Target(loose[i], Counter(i))

FinalTarget(i) ==
  LET t == Target(loose[i], Counter(i))
  IN  IF t \in DOMAIN bundle THEN Numbered(t, Counter(i)) ELSE t

(* Mutant: a file whose name was taken is met again. *)
ImportAgain ==
  /\ pc = "import" /\ done < Len(loose)
  /\ IF done >= MaxUnpacked
     THEN Leave("1") /\ UNCHANGED <<bundle, done, inventory>>
     ELSE /\ bundle' = With(bundle, FinalTarget(done + 1), done + 1)
          /\ done' = IF Target(loose[done + 1], Counter(done + 1)) \in DOMAIN bundle
                     THEN done ELSE done + 1
          /\ inventory' = inventory + 1
          /\ UNCHANGED <<pc, exit>>
  /\ UNCHANGED <<evidence, out, result>>

(* import_loose: the next file is classified, named and copied. *)
ImportFile ==
  /\ pc = "import" /\ done < Len(loose)
  /\ IF done >= MaxUnpacked
     THEN Leave("1") /\ UNCHANGED <<bundle, done, inventory>>
     ELSE /\ bundle' = With(bundle, FinalTarget(done + 1), done + 1)
          /\ done' = done + 1 /\ inventory' = inventory + 1
          /\ UNCHANGED <<pc, exit>>
  /\ UNCHANGED <<evidence, out, result>>

ImportDone ==
  /\ pc = "import" /\ done = Len(loose) /\ Goto("report")
  /\ UNCHANGED <<evidence, out, bundle, done, inventory, result>>

(* A write fails: the disk is full. *)
WriteFails ==
  /\ pc \in {"copy", "import", "report"} /\ Leave("1")
  /\ UNCHANGED <<evidence, out, bundle, done, inventory, result>>

CheckFormat ==
  /\ pc = "format"
  /\ IF Manifest \in DOMAIN bundle /\ bundle[Manifest] = "newer" THEN Leave("7") ELSE Goto("verify")
  /\ UNCHANGED <<evidence, out, bundle, done, inventory, result>>

(* Mutant: files that no line names are not looked for. *)
ListedProblems ==
  IF sums = NoSums THEN {"SHA256SUMS missing"}
  ELSE {<<"missing", m>> : m \in DOMAIN sums \ DOMAIN bundle}
       \cup {<<"mismatch", m>> : m \in {x \in DOMAIN sums \cap DOMAIN bundle : sums[x] # bundle[x]}}

(* verify_sums *)
Problems ==
  IF sums = NoSums THEN {"SHA256SUMS missing"}
  ELSE {<<"missing", m>> : m \in DOMAIN sums \ DOMAIN bundle}
       \cup {<<"mismatch", m>> : m \in {x \in DOMAIN sums \cap DOMAIN bundle : sums[x] # bundle[x]}}
       \cup {<<"unlisted", m>> : m \in DOMAIN bundle \ DOMAIN sums}

VerifySums ==
  /\ pc = "verify" /\ Goto("report") /\ problems' = Problems
  /\ UNCHANGED <<evidence, out, bundle, done, inventory, report>>

(* The sections, ANALYSIS.md, analysis.json *)
WriteReport ==
  /\ pc = "report" /\ report' = 1
  /\ Leave(IF problems = {} THEN "0" ELSE "6")
  /\ UNCHANGED <<evidence, out, bundle, done, inventory, problems>>

Next ==
  \/ Damage \/ Collect
  \/ Start \/ TakeAsLoose \/ Validate \/ CopyMember \/ CopyRefused \/ ImportFile \/ ImportDone
  \/ WriteFails \/ CheckFormat \/ VerifySums \/ WriteReport

Spec == Init /\ [][Next]_vars

-----------------------------------------------------------------------------
TypeOK ==
  /\ pc \in {"way", "loose", "validate", "copy", "import", "format", "verify", "report", "exit"}
  /\ input \in {"archive", "dir", "files"} /\ expect \in {0, 1}
  /\ DOMAIN tree \subseteq Members \cup {Manifest, Extra}
  /\ DOMAIN sums \subseteq Members \cup {Manifest}
  /\ flaw \in {"none", "truncated", "link"} /\ damage \in 0..MaxDamage
  /\ out \in {0, 1} /\ report \in {0, 1}
  /\ done <= Cardinality(DOMAIN tree) \/ done <= Len(loose)
  /\ inventory \in 0..Len(loose)
  /\ exit \in {"none", "0", "1", "2", "5", "6", "7"}

(* A bundle that is analysed with exit 0 is the bundle collect.sh sealed,  *)
(* whatever happened to its files on the way, as long as SHA256SUMS itself *)
(* was not touched, or the digest of the archive was given.                *)
DamageIsReported ==
  exit = "0" /\ input # "files" /\ (sums = Sealed \/ expect = 1) => bundle = Sealed

(* What is reported on is the whole input: no analysis is written over a   *)
(* copy that a refusal or a full disk cut short.                           *)
ReportIsOfWholeInput ==
  report = 1 /\ input # "files" => bundle = tree

(* An archive that is refused for what it contains leaves nothing behind.  *)
RefusedLeavesNothing == input = "archive" /\ ~Acceptable => out = 0 /\ bundle = <<>>

Kept(i) == \E t \in DOMAIN bundle : bundle[t] = i

(* Loose files of the same name, from any directories, all reach the tree, *)
(* as long as none of them already carries a number like those that        *)
(* import_loose gives.                                                     *)
SameNamesKept ==
  input = "files" /\ (\A i \in 1..Len(loose) : loose[i].name.pre = <<>>) =>
    \A i \in 1..done : Kept(i)
=============================================================================
