------------------------------- MODULE JitLog -------------------------------
(***************************************************************************)
(* skills/java-jit-codegen/scripts/jit-log-summary.py: what is counted     *)
(* from the output of -XX:+PrintCompilation -XX:+PrintInlining when the    *)
(* lines of several compiler threads are torn into each other.             *)
(***************************************************************************)
EXTENDS Naturals, Sequences, FiniteSets, FiniteSetsExt

CONSTANTS
  Compilers,  (* compiler threads                                          *)
  MaxLines    (* bound: lines                                              *)

VARIABLES
  pending,     (* thread -> the pieces of its line still to print             *)
  begun,    (* the lines begun, by kind                                    *)
  output,   (* the pieces as they arrived                                  *)
  torn      (* 1: a thread printed into the line of another one            *)

vars == <<pending, begun, output, torn>>

(* A line is printed piece by piece: what is compiled or considered for    *)
(* inlining, then what became of it, then the end of the line.             *)
Pieces ==
  [compile |-> <<"compile", "nl">>, osr |-> <<"osr", "nl">>, native |-> <<"native", "nl">>,
   deopt |-> <<"compile", "not_entrant", "nl">>,
   inlined |-> <<"@", "inline", "nl">>, intrinsic |-> <<"@", "intrinsic", "nl">>,
   failed |-> <<"@", "too_big", "nl">>, full |-> <<"cache_full", "nl">>]
LineKinds == DOMAIN Pieces
Heads == {"compile", "osr", "native"}

Init == pending = [c \in Compilers |-> <<>>] /\ begun = <<>> /\ output = <<>> /\ torn = 0

Begin ==
  /\ Len(begun) < MaxLines
  /\ \E c \in Compilers, k \in LineKinds :
       pending[c] = <<>> /\ pending' = [pending EXCEPT ![c] = Pieces[k]] /\ begun' = Append(begun, k)
  /\ UNCHANGED <<output, torn>>

MidLine(c) == pending[c] # <<>> /\ \A k \in LineKinds : Pieces[k] # pending[c]

PrintPiece ==
  /\ \E c \in Compilers :
       /\ pending[c] # <<>>
       /\ output' = Append(output, Head(pending[c])) /\ pending' = [pending EXCEPT ![c] = Tail(@)]
       /\ torn' = IF \E d \in Compilers \ {c} : MidLine(d) THEN 1 ELSE torn
  /\ UNCHANGED begun

Next == Begin \/ PrintPiece

Spec == Init /\ [][Next]_vars

-----------------------------------------------------------------------------
(* parse *)

(* A line begins where the one before it has ended, and goes on to its own *)
(* end or as far as was printed.                                           *)
Starts(out) == {i \in DOMAIN out : i = 1 \/ out[i - 1] = "nl"}
EndFrom(out, s) == Min({i \in s..Len(out) : out[i] = "nl"} \cup {Len(out) + 1})
LineFrom(out, s) == SubSeq(out, s, EndFrom(out, s) - 1)

Has(line, p) == \E i \in DOMAIN line : line[i] = p

(* INLINE_RE: what follows the callee is taken for its status, up to two   *)
(* blanks.                                                                 *)
Outcome(status) ==
  CASE status = "@" -> "garbled"
    [] status = "intrinsic" -> "intrinsic"
    [] status = "inline" -> "inlined"
    [] OTHER -> "failed"

(* Mutant: "not_entrant" is looked for before the line is matched. *)
KindOfAnywhere(line) ==
  IF Has(line, "cache_full") THEN "full"
  ELSE IF Has(line, "not_entrant") THEN "deopt"
  ELSE IF line[1] = "@" /\ Len(line) > 1 THEN Outcome(line[2])
  ELSE IF line[1] \in Heads THEN line[1] ELSE "garbled"

(* The first pattern that matches decides, and the rest of the line is     *)
(* lost.                                                                   *)
KindOf(line) ==
  IF Has(line, "cache_full") THEN "full"
  ELSE IF line[1] = "@" /\ Len(line) > 1 THEN Outcome(line[2])
  ELSE IF line[1] \notin Heads THEN "garbled"
  ELSE IF Has(line, "not_entrant") THEN "deopt" ELSE line[1]

Counters == LineKinds \cup {"garbled"}

(* how many lines of the output, the blank ones apart, are counted as what *)
Counts(out) ==
  [k \in Counters |->
     Cardinality({s \in Starts(out) : out[s] # "nl" /\ KindOf(LineFrom(out, s)) = k})]

-----------------------------------------------------------------------------
TypeOK ==
  /\ Len(begun) <= MaxLines /\ \A i \in DOMAIN begun : begun[i] \in LineKinds
  /\ \A c \in Compilers : \E k \in LineKinds :
       \E n \in DOMAIN Pieces[k] : pending[c] \in {<<>>, SubSeq(Pieces[k], n, Len(Pieces[k]))}
  /\ torn \in {0, 1}

Printed(p) == Cardinality({i \in DOMAIN output : output[i] = p})
Begun(k) == Cardinality({i \in DOMAIN begun : begun[i] = k})

(* However the lines are torn, no event is counted more often than it was  *)
(* printed: compilations of each kind, deoptimizations, successful         *)
(* inlining, intrinsics, a full code cache, and no more inlining outcomes  *)
(* of any kind than decisions.  Output that is not torn is counted exactly.*)
TornLinesInventNothing ==
  LET counted == Counts(output)
  IN  /\ counted["compile"] + counted["deopt"] + counted["osr"] + counted["native"]
           <= Printed("compile") + Printed("osr") + Printed("native")
      /\ \A k \in Heads : counted[k] <= Printed(k)
      /\ counted["deopt"] <= Printed("not_entrant")
      /\ counted["inlined"] <= Printed("inline")
      /\ counted["intrinsic"] <= Printed("intrinsic")
      /\ counted["inlined"] + counted["intrinsic"] + counted["failed"] <= Printed("@")
      /\ counted["full"] <= Printed("cache_full")
      /\ torn = 0 /\ (\A c \in Compilers : pending[c] = <<>>) =>
           \A k \in LineKinds : counted[k] = Begun(k)
=============================================================================
