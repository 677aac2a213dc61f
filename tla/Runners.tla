------------------------------- MODULE Runners ------------------------------
(***************************************************************************)
(* The programs that run a measured command again and again under a time   *)
(* limit, keep what it printed and judge it:                               *)
(*   recovery  java-latency-measurement/scripts/recovery-compare.py        *)
(*   pairs     java-vtune-uprof/scripts/profile-compare.py                 *)
(*   matrix    java-vtune-uprof/scripts/compatibility-matrix.py            *)
(* The command ends with any status, is killed at the limit or cannot be   *)
(* started.  subprocess.run hands over what a killed command had printed   *)
(* as bytes, although text was asked for, and None when it printed nothing.*)
(***************************************************************************)
EXTENDS Naturals, Sequences

CONSTANTS
  Reps,     (* --reps, --pairs, or the number of JDKs                      *)
  Modes,    (* the number of modes a JDK is run in                         *)
  Outputs   (* what the command may print: <<stdout, stderr>>              *)

VARIABLES
  program,
  at,       (* what the program does next                                  *)
  runs,     (* every measured run: how it ended and what it printed        *)
  saved,    (* run -> the files with its output                            *)
  rows,     (* the rows of the summary                                     *)
  summary,  (* 1: the summary is written                                   *)
  status    (* exit status                                                 *)

vars == <<program, at, runs, saved, rows, summary, status>>

(* A line carries nothing, the result of work cut short, or one of two     *)
(* complete results.                                                       *)
Results == {"full", "other"}
Ends == {"0", "1", "timeout", "unstarted"}
Runs == {[end |-> e, stdout |-> o[1], stderr |-> o[2]] :
           e \in Ends \ {"unstarted"}, o \in Outputs}
        \cup {[end |-> "unstarted", stdout |-> <<>>, stderr |-> <<>>]}
Printed(r) == r.stdout \o r.stderr

Init ==
  /\ program \in {"recovery", "pairs", "matrix"}
  /\ at = IF program = "matrix" THEN "jdk" ELSE "run"
  /\ runs = <<>> /\ saved = <<>> /\ rows = <<>> /\ summary = 0 /\ status = "none"

Leave(code) == at' = "exit" /\ status' = code
Goto(to) == at' = to /\ UNCHANGED status

(* The files of the latest run *)
Save(fs) == saved' = Append(saved, fs)

-----------------------------------------------------------------------------
(* recovery-compare.py *)

IsFirst(lines, i) == lines[i] # "noise" /\ \A k \in 1..(i - 1) : lines[k] = "noise"
IsLast(lines, i) == lines[i] # "noise" /\ \A k \in (i + 1)..Len(lines) : lines[k] = "noise"

(* Mutant: the exit status of the command is not looked at. *)
CompleteByLine(r) == \E i \in DOMAIN Printed(r) : IsFirst(Printed(r), i) /\ Printed(r)[i] \in Results

(* The first DONE line counts, of stdout and then of stderr. *)
IsComplete(r) ==
  r.end = "0" /\ \E i \in DOMAIN Printed(r) : IsFirst(Printed(r), i) /\ Printed(r)[i] \in Results

(* bytes + "" and a text pattern on bytes are type errors. *)
RecoveryCrashes(r) == r.end = "unstarted" \/ (r.end = "timeout" /\ Printed(r) # <<>>)

Recover ==
  /\ program = "recovery" /\ at = "run"
  /\ \E r \in Runs :
       /\ runs' = Append(runs, r)
       /\ IF RecoveryCrashes(r)
          THEN Leave("1") /\ Save(<<>>) /\ UNCHANGED rows
          ELSE /\ Save(<<Printed(r)>>) /\ rows' = Append(rows, IF IsComplete(r) THEN "complete" ELSE "incomplete")
               /\ Goto(IF Len(rows') = Reps THEN "summary" ELSE "run")
  /\ UNCHANGED <<program, summary>>

-----------------------------------------------------------------------------
(* profile-compare.py *)

(* fields: the last line with a key counts; none without one. *)
Fields(r) == {r.stdout[i] : i \in {i \in DOMAIN r.stdout : IsLast(r.stdout, i)}}
HasResult(r) == \E result \in Results : Fields(r) = {result}

(* measured_operations and checksum *)
PairAgrees(base, prof) == Fields(base) = Fields(prof)

(* run: write_text refuses bytes, before it opens the file. *)
PairFiles(r) ==
  CASE r.end = "unstarted" -> <<>>
    [] r.end = "timeout" /\ r.stdout # <<>> -> <<>>
    [] r.end = "timeout" /\ r.stdout = <<>> /\ r.stderr # <<>> -> << <<>> >>
    [] OTHER -> <<r.stdout, r.stderr>>

(* Baseline and profiled command in turn; the first failure ends it all.   *)
RunOfPair ==
  /\ program = "pairs" /\ at = "run"
  /\ \E r \in Runs :
       /\ runs' = Append(runs, r) /\ Save(PairFiles(r))
       /\ LET second == Len(runs') % 2 = 0
          IN  IF r.end # "0" \/ ~HasResult(r) \/ (second /\ ~PairAgrees(runs[Len(runs)], r))
              THEN Leave("1") /\ UNCHANGED rows
              ELSE /\ rows' = IF second THEN Append(rows, "complete") ELSE rows
                   /\ Goto(IF Len(rows') = Reps THEN "summary" ELSE "run")
  /\ UNCHANGED <<program, summary>>

-----------------------------------------------------------------------------
(* compatibility-matrix.py *)

AfterRow(rs) ==
  CASE Len(rs) = Reps * Modes -> "summary"
    [] Len(rs) # Reps * Modes /\ Len(rs) % Modes = 0 -> "jdk"
    [] OTHER -> "run"

(* The next JDK is not there, does not compile the fixture, or runs it.    *)
NextJdk ==
  /\ program = "matrix" /\ at = "jdk"
  /\ \/ Goto("run") /\ UNCHANGED rows
     \/ \E s \in {"unavailable", "failed"} :
          /\ rows' = rows \o [m \in 1..Modes |-> s]
          /\ Goto(AfterRow(rows'))
  /\ UNCHANGED <<program, runs, saved, summary>>

Verified(r) == r.end = "0" /\ HasResult(r)

(* Mutant: what a killed command printed is dropped. *)
MatrixFilesOfEnded(r) == IF r.end \in {"unstarted", "timeout"} THEN <<>> ELSE <<r.stdout, r.stderr>>

(* run: bytes are decoded, and a word on the time limit is added. *)
MatrixFiles(r) == IF r.end = "unstarted" THEN <<>> ELSE <<r.stdout, r.stderr>>

RunMode ==
  /\ program = "matrix" /\ at = "run"
  /\ \E r \in Runs :
       /\ runs' = Append(runs, r) /\ Save(MatrixFiles(r))
       /\ rows' = Append(rows, IF Verified(r) THEN "complete" ELSE "failed")
       /\ Goto(AfterRow(rows'))
  /\ UNCHANGED <<program, summary>>

-----------------------------------------------------------------------------
(* results.json, results.csv; summary.json.  The two other programs tell a *)
(* failure by their exit status, profile-compare.py gets here without one. *)
Summarise ==
  /\ at = "summary" /\ summary' = 1
  /\ Leave(IF \A i \in DOMAIN rows : rows[i] = "complete" THEN "0"
           ELSE IF program = "recovery" THEN "5" ELSE "1")
  /\ UNCHANGED <<program, runs, saved, rows>>

(* An interrupt; the run it cuts short is not counted. *)
Dies ==
  /\ at # "exit" /\ Leave("died")
  /\ UNCHANGED <<program, runs, saved, rows, summary>>

Next == Recover \/ RunOfPair \/ NextJdk \/ RunMode \/ Summarise \/ Dies

Spec == Init /\ [][Next]_vars

-----------------------------------------------------------------------------
TypeOK ==
  /\ at \in {"jdk", "run", "summary", "exit"} /\ summary \in {0, 1}
  /\ status \in {"none", "0", "1", "5", "died"} /\ (status = "none" <=> at # "exit")
  /\ DOMAIN saved = DOMAIN runs /\ \A i \in DOMAIN runs : runs[i] \in Runs
  /\ \A i \in DOMAIN rows : rows[i] \in {"complete", "incomplete", "failed", "unavailable"}

Wanted == CASE program = "recovery" -> Reps [] program = "pairs" -> 2 * Reps [] OTHER -> Reps * Modes
Shows(r, result) == \E i \in DOMAIN Printed(r) : Printed(r)[i] = result

(* Exit 0 means that every command was run to its end as often as asked,   *)
(* that each of them ended with 0 and printed a complete result, and that  *)
(* the two commands of a pair printed the same one.                        *)
ZeroIsEveryRun ==
  status = "0" =>
    /\ summary = 1 /\ Len(runs) = Wanted
    /\ \A i \in DOMAIN runs : runs[i].end = "0" /\ \E result \in Results : Shows(runs[i], result)
    /\ program = "pairs" =>
         \A p \in 1..Reps : \E result \in Results :
           Shows(runs[2 * p - 1], result) /\ Shows(runs[2 * p], result)

(* A run has two files at most. *)
Held(fs) == CASE fs = <<>> -> <<>> [] Len(fs) = 1 -> fs[1] [] OTHER -> fs[1] \o fs[2]
KeptWhole(i) == Held(saved[i]) = Printed(runs[i])

(* Whatever is summarised can be inspected: once a summary is written, the *)
(* files of every run it counts hold all that the command printed, however *)
(* it ended.  compatibility-matrix.py keeps the output of every run, with  *)
(* or without a summary.                                                   *)
SummaryIsBacked ==
  summary = 1 \/ program = "matrix" => \A i \in DOMAIN runs : KeptWhole(i)

(* "It preserves each run" (java-latency-measurement/SKILL.md:56):         *)
(* recovery-compare.py keeps the output of every run it made.              *)
RunsPreserved == program = "recovery" => \A i \in DOMAIN runs : KeptWhole(i)
=============================================================================
