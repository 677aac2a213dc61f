------------------------------- MODULE Latency ------------------------------
(***************************************************************************)
(* skills/java-latency-measurement/scripts/latency-report.py: what one     *)
(* CSV of operations is reported as.                                       *)
(*                                                                         *)
(* A load generator appends its operations in the order in which they end, *)
(* several threads at once, or is killed before all are done; the report   *)
(* is a function of the rows, so every state is a file that can be given. *)
(* Percentages are parts of Whole: the code has 50, 90, 99, 99.9 and 99.99 *)
(* of 100, and rounds in floating point where this module is exact.        *)
(***************************************************************************)
EXTENDS Integers, Sequences, FiniteSets, FiniteSetsExt

CONSTANTS
  MaxTime,   (* bound: timestamps                                          *)
  MaxRows,   (* bound: rows                                                *)
  Labels,    (* group labels                                               *)
  Whole,
  Pcts,      (* PCTS                                                       *)
  BlockPct,  (* 99: the percentile of the blocks                           *)
  MinBlock,  (* 100: a block has at least so many operations               *)
  Expected   (* --expected                                                 *)

VARIABLES
  header,    (* the first line                                             *)
  csv

vars == <<header, csv>>

NoLabel == "-"
Headers == {"none", "latency_ns", "timestamps", "timestamps,group"}

(* Rows with one, two, three and four columns; text has no numbers.        *)
Times == 0..MaxTime
Cells == {<<x>> : x \in {-1} \cup Times} \cup {<<>>, <<0, 0>>} \cup [1..3 -> Times]
AllRows ==
  [cells : Cells, label : {NoLabel}]
  \cup [cells : [1..3 -> Times], label : Labels \cup {""}]

-----------------------------------------------------------------------------
(* load *)

Ordered(c) == c[1] <= c[2] /\ c[2] <= c[3]

(* What the loop over the rows refuses: a label without its header line,   *)
(* an empty one, text, times out of order, a negative latency, any other   *)
(* number of columns.                                                      *)
IsRefused(r) ==
  \/ r.label # NoLabel /\ (header # "timestamps,group" \/ r.label = "")
  \/ Len(r.cells) = 3 /\ ~Ordered(r.cells)
  \/ Len(r.cells) = 1 /\ r.cells[1] < 0
  \/ Len(r.cells) \notin {1, 3}

IsTimed(r) == Len(r.cells) = 3

(* The checks after the loop: all rows of one kind, and all with a label   *)
(* or none.                                                                *)
IsMixed ==
  \/ \E i, k \in DOMAIN csv : IsTimed(csv[i]) /\ ~IsTimed(csv[k])
  \/ \E i, k \in DOMAIN csv : /\ IsTimed(csv[i]) /\ IsTimed(csv[k])
                               /\ csv[i].label = NoLabel /\ csv[k].label # NoLabel

Loads == ~IsMixed /\ \A i \in DOMAIN csv : ~IsRefused(csv[i])

(* sorted(key=intended) is stable: of rows that were meant to start at once*)
(* the one written first comes first.                                      *)
Place(rs, i) ==
  Cardinality({k \in DOMAIN rs : \/ rs[k].cells[1] < rs[i].cells[1]
                                 \/ rs[k].cells[1] = rs[i].cells[1] /\ k <= i})

(* Mutant: the rows stay in the order of the file. *)
UnsortedRows(rs) == rs

SortedRows(rs) ==
  IF rs # <<>> /\ IsTimed(rs[1])
  THEN [p \in DOMAIN rs |-> rs[CHOOSE i \in DOMAIN rs : Place(rs, i) = p]] ELSE rs

Response(r) == r.cells[Len(r.cells)] - (IF IsTimed(r) THEN r.cells[1] ELSE 0)
Responses(rs) == [i \in DOMAIN rs |-> Response(rs[i])]
Services(rs) == [i \in DOMAIN rs |-> rs[i].cells[3] - rs[i].cells[2]]
QueueDelays(rs) == [i \in DOMAIN rs |-> rs[i].cells[2] - rs[i].cells[1]]

-----------------------------------------------------------------------------
(* percentile, dist, blocks, analyse: of the values of some of the rows    *)

Size(values) == Cardinality(DOMAIN values)
UpTo(values, v) == Cardinality({i \in DOMAIN values : values[i] <= v})

(* Mutant: the rank is rounded down. *)
RankDown(n, pct) == Max({1, (pct * n) \div Whole})

(* max(1, ceil(pct * n)) *)
Rank(n, pct) == Max({1, (pct * n + Whole - 1) \div Whole})

(* ordered[rank - 1] of the sorted values *)
Percentile(values, pct) ==
  Min({v \in Range(values) : UpTo(values, v) >= Rank(Size(values), pct)})

Dist(values) ==
  [count |-> Size(values), max |-> Max(Range(values)), at |-> [p \in Pcts |-> Percentile(values, p)]]

(* The operations after the last whole block are in none.                  *)
Block(values, n, b) ==
  LET size == Size(values) \div n IN [i \in (b - 1) * size + 1..b * size |-> values[i]]

Blocks(values, n, pct) ==
  IF Size(values) \div n < MinBlock THEN <<>>
  ELSE [b \in 1..n |-> Percentile(Block(values, n, b), pct)]

GroupsOf(rs) == {r.label : r \in Range(rs)} \ {NoLabel}
Group(rs, l) == [i \in {k \in DOMAIN rs : rs[k].label = l} |-> Response(rs[i])]

Analyse(rs, n) ==
  LET sorted == SortedRows(rs)
      timed == IsTimed(rs[1])
  IN  [response |-> Dist(Responses(sorted)),
       service |-> IF timed THEN Dist(Services(sorted)) ELSE Dist(<<0>>),
       queue |-> IF timed THEN Dist(QueueDelays(sorted)) ELSE Dist(<<0>>),
       groups |-> [l \in GroupsOf(sorted) |-> Dist(Group(sorted, l))],
       blocks |-> Blocks(Responses(sorted), n, BlockPct)]

(* main: 1 for a file that load refuses, 4 for no rows, 5 for fewer rows   *)
(* than expected.                                                          *)
Outcome ==
  CASE ~Loads -> "1"
    [] Loads /\ csv = <<>> -> "4"
    [] Loads /\ csv # <<>> /\ Len(csv) < Expected -> "5"
    [] OTHER -> "0"

Reported == Outcome \in {"0", "5"}

-----------------------------------------------------------------------------
Init == header \in Headers /\ csv = <<>>

(* The load generator appends a row.  A file that is refused stays refused *)
(* whatever follows.                                                       *)
Write ==
  /\ Loads /\ Len(csv) < MaxRows
  /\ \E r \in AllRows : csv' = Append(csv, r)
  /\ UNCHANGED header

Next == Write

Spec == Init /\ [][Next]_vars

-----------------------------------------------------------------------------
TypeOK == header \in Headers /\ Len(csv) <= MaxRows /\ \A i \in DOMAIN csv : csv[i] \in AllRows

Within(v, s) == Min(s) <= v /\ v <= Max(s)

(* The numbers of one report agree: each percentile is the least value     *)
(* that so large a part of the operations does not exceed; no response     *)
(* percentile is below that of the service time alone, nor above service   *)
(* and queueing at their worst; a percentile of all operations lies between*)
(* those of the groups and, when the blocks leave no operation out,        *)
(* between those of the blocks.                                            *)
ReportAgrees ==
  Reported =>
    \A n \in 1..2 :
      LET a == Analyse(csv, n)
          values == Responses(csv)
      IN  /\ \A p \in Pcts :
               /\ Whole * UpTo(values, a.response.at[p]) >= p * Len(csv)
               /\ \A v \in Range(values) : v < a.response.at[p] => Whole * UpTo(values, v) < p * Len(csv)
               /\ IsTimed(csv[1]) => Within(a.response.at[p], {a.service.at[p], a.service.max + a.queue.max})
               /\ DOMAIN a.groups # {} =>
                    Within(a.response.at[p], {a.groups[l].at[p] : l \in DOMAIN a.groups})
          /\ a.blocks # <<>> /\ Len(csv) % n = 0 =>
               Within(a.response.at[BlockPct], Range(a.blocks))

Swapped(i) == [csv EXCEPT ![i] = csv[i + 1], ![i + 1] = csv[i]]

(* Threads write their operations out of order: for operations with        *)
(* timestamps the report, its blocks included, does not depend on the      *)
(* order of the rows, unless two operations were meant to start at once.   *)
RowOrderIsIrrelevant ==
  Reported /\ IsTimed(csv[1]) =>
    \A i \in 1..Len(csv) - 1, n \in 1..2 :
      csv[i].cells[1] # csv[i + 1].cells[1] => Analyse(Swapped(i), n) = Analyse(csv, n)
=============================================================================
