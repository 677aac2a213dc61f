------------------------------- MODULE Compare ------------------------------
(***************************************************************************)
(* skills/java-offline-capture/scripts/compare-bundles.py, with the        *)
(* profile tables that analyze-bundle.py makes for it: what changed        *)
(* between a healthy period and an incident.                               *)
(*                                                                         *)
(* A profiler takes samples in one period and then in the other.  The      *)
(* analysis of a period lists the frames with the largest shares only, and *)
(* the comparison takes a frame that is not listed as one with no share.   *)
(* Of the metrics, one stands for all: the CPU time of the process, one    *)
(* unit for each sample, which both periods have.  Left out: the caveats,  *)
(* the findings, the flame graph and the Markdown.                         *)
(***************************************************************************)
EXTENDS Integers, FiniteSets, FiniteSetsExt

CONSTANTS
  Profiles,   (* profiles of a bundle: 1..n in the order of their names    *)
  Frames,
  Whole,      (* 100 percent, in units that make every share exact: the    *)
              (* code's are floating-point numbers                         *)
  TopLimit,   (* 15: frames of a profile table                             *)
  RowLimit,   (* 12: rows of the comparison                                *)
  MaxSamples  (* bound: samples of one period                              *)

VARIABLES
  stage,      (* the period being profiled, then "compare", then "done"    *)
  samples,
  tables,     (* "profiles" of analysis.json                               *)
  result      (* what the comparison printed                               *)

vars == <<stage, samples, tables, result>>

Periods == {"baseline", "incident"}

-----------------------------------------------------------------------------
(* analyze-bundle.py: collapsed_top, section_profiles *)

SamplesOf(count) == UNION {{f} \X (1..count[f]) : f \in Frames}
Total(count) == Cardinality(SamplesOf(count))
Share(count, f) == (Whole * count[f]) \div Total(count)

(* The n elements of S with the greatest measure; ties fall either way. *)
Greatest(S, measure, n) ==
  {T \in SUBSET S : /\ Cardinality(T) = Min({n, Cardinality(S)})
                    /\ \A x \in T, y \in S \ T : measure[x] >= measure[y]}

CollapsedTop(count) ==
  {[f \in T |-> Share(count, f)] :
     T \in Greatest({f \in Frames : count[f] > 0}, count, TopLimit)}

-----------------------------------------------------------------------------
(* compare-bundles.py: first_profile, share_table, row *)

(* The first profile by name, of whatever event it is. *)
FirstName(t) == Min(DOMAIN t)
FirstProfile(t) == IF t = <<>> THEN <<>> ELSE t[FirstName(t)]

ShareIn(table, n) == IF n \in DOMAIN table THEN table[n] ELSE 0
Distance(x, y) == IF x < y THEN y - x ELSE x - y

(* Mutant: only the frames of the baseline are compared. *)
NamesOfBaseline(b, i) == DOMAIN b

NamesOf(b, i) == DOMAIN b \cup DOMAIN i

ShareTables(b, i) ==
  LET change(n) == ShareIn(i, n) - ShareIn(b, n)
      size == [n \in NamesOf(b, i) |-> Distance(ShareIn(i, n), ShareIn(b, n))]
  IN  {[n \in T |-> change(n)] : T \in Greatest(NamesOf(b, i), size, RowLimit)}

(* Mutant: the change is set against the larger value. *)
FlagOfLarger(b, i) ==
  IF 4 * Distance(b, i) < Max({b, i}) THEN "none" ELSE "worse"

(* The flag of a metric that is worse when higher: a change of at least    *)
(* half of the baseline and of at least 1.                                 *)
Flag(b, i) ==
  IF 2 * Distance(b, i) < b \/ Distance(b, i) < 1 THEN "none"
  ELSE IF i > b THEN "worse" ELSE "better"

CpuOf(p) == Cardinality(UNION {{q} \X SamplesOf(samples[p][q]) : q \in Profiles})

-----------------------------------------------------------------------------
Init ==
  /\ stage = "baseline"
  /\ samples = [p \in Periods |-> [q \in Profiles |-> [f \in Frames |-> 0]]]
  /\ tables = [p \in Periods |-> <<>>]
  /\ result = [by |-> "nobody"]

Sample ==
  /\ stage \in Periods
  /\ CpuOf(stage) < MaxSamples
  /\ \E q \in Profiles, f \in Frames : samples' = [samples EXCEPT ![stage][q][f] = @ + 1]
  /\ UNCHANGED <<stage, tables, result>>

(* A profile without samples gets no table. *)
Analyse ==
  /\ stage \in Periods
  /\ LET taken == {q \in Profiles : Total(samples[stage][q]) > 0}
     IN  \E t \in [taken -> UNION {CollapsedTop(samples[stage][q]) : q \in taken}] :
           /\ \A q \in taken : t[q] \in CollapsedTop(samples[stage][q])
           /\ tables' = [tables EXCEPT ![stage] = t]
  /\ stage' = IF stage = "baseline" THEN "incident" ELSE "compare"
  /\ UNCHANGED <<samples, result>>

(* load: there is no analysis.json of one of the two. *)
LoadFails ==
  /\ stage \in Periods
  /\ stage' = "done"
  /\ result' = [by |-> "load"]
  /\ UNCHANGED <<samples, tables>>

(* main *)
Compare ==
  /\ stage = "compare"
  /\ stage' = "done"
  /\ \E rows \in ShareTables(FirstProfile(tables["baseline"]), FirstProfile(tables["incident"])) :
       result' = [by |-> "main", self |-> rows, cpu |-> Flag(CpuOf("baseline"), CpuOf("incident"))]
  /\ UNCHANGED <<samples, tables>>

Next == Sample \/ Analyse \/ LoadFails \/ Compare

Spec == Init /\ [][Next]_vars

-----------------------------------------------------------------------------
TypeOK ==
  /\ stage \in Periods \cup {"compare", "done"}
  /\ samples \in [Periods -> [Profiles -> [Frames -> 0..MaxSamples]]]
  /\ \A p \in Periods : DOMAIN tables[p] \subseteq Profiles
  /\ result.by \in {"nobody", "load", "main"}

SamePicked ==
  /\ tables["baseline"] # <<>> /\ tables["incident"] # <<>>
  /\ FirstName(tables["baseline"]) = FirstName(tables["incident"])

(* The most that a frame can have that the table does not list. *)
Unlisted(table) ==
  IF Cardinality(DOMAIN table) < TopLimit THEN 0 ELSE Min({table[f] : f \in DOMAIN table})

(* The tables are cut twice, but the comparison misleads about no frame by *)
(* more than the cut allows: the change of a frame that both list is exact,*)
(* that of a frame that one of them lists is off by at most the least share*)
(* of the other, so that a larger change has its sign; and a frame without *)
(* a row changed no more than that beyond the last row.  It holds where    *)
(* the profiles compared are of one name.                                  *)
ChangesAreReal ==
  result.by = "main" /\ SamePicked =>
    LET q == FirstName(tables["baseline"])
        b == tables["baseline"][q]
        i == tables["incident"][q]
        rows == result.self
        now(n) == Share(samples["incident"][q], n)
        before(n) == Share(samples["baseline"][q], n)
        slack == Max({Unlisted(b), Unlisted(i)})
        last == IF Cardinality(DOMAIN rows) < RowLimit THEN 0
                ELSE Min({Distance(rows[n], 0) : n \in DOMAIN rows})
    IN  \A n \in Frames :
          IF n \in DOMAIN rows
          THEN /\ n \in DOMAIN b \cap DOMAIN i => rows[n] = now(n) - before(n)
               /\ Distance(rows[n], now(n) - before(n)) <= slack
          ELSE Distance(now(n), before(n)) <= last + slack

(* Compared the other way round, no metric is worse again or better again. *)
FlagsOppose ==
  result.by = "main" /\ result.cpu # "none" =>
    result.cpu # Flag(CpuOf("incident"), CpuOf("baseline"))
=============================================================================
