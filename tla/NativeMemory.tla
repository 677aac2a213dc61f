----------------------------- MODULE NativeMemory ---------------------------
(***************************************************************************)
(* skills/java-native-memory/scripts: native-memory-snapshot.sh, run twice *)
(* while the JVM of a PID works, ends and is started anew, and             *)
(* nmt-compare.py on the two directories or on their two NMT summaries.    *)
(*                                                                         *)
(* Amounts are whole units; what is committed is resident (the ledger's    *)
(* AlwaysPreTouch) and what is reserved is committed, so that a category   *)
(* with nothing committed is not printed.  VmRSS, RssFile, RssShmem,       *)
(* VmSwap and Threads are differences like that of RssAnon and left out,   *)
(* as are the other files of a snapshot, which nothing compares.           *)
(***************************************************************************)
EXTENDS Naturals, Integers, Sequences, FiniteSets, Functions

CONSTANTS
  Categories, (* of NMT, 1..n in the order in which they are printed       *)
  MaxKb,      (* bound: amount of one category, and of what NMT misses     *)
  MaxLives,   (* bound: processes that get the PID                         *)
  GapKb       (* --gap-kb                                                  *)

VARIABLES
  life,       (* start time of the process of the PID, 0 for none          *)
  lives,      (* the last start time                                       *)
  tracked,    (* whether that process has NMT enabled                      *)
  committed,  (* category -> amount                                        *)
  outside,    (* anonymous memory that NMT does not see                    *)
  phase,      (* what native-memory-snapshot.sh does next                  *)
  shot,       (* the snapshot it makes                                     *)
  shots       (* those that it ended with exit 0                           *)

vars == <<life, lives, tracked, committed, outside, phase, shot, shots>>
jvm == <<life, lives, tracked, committed, outside>>
script == <<phase, shot, shots>>

Nothing == [c \in Categories |-> 0]
Units(amounts) == UNION {{c} \X (1..amounts[c]) : c \in DOMAIN amounts}
Total(amounts) == Cardinality(Units(amounts))

(* Categories grow and shrink: the units above zero less those below.      *)
Sum(changes) == Total(changes) - Total([c \in DOMAIN changes |-> -changes[c]])

(* status and total: <<>> when the file does not have them; of: the        *)
(* processes that were read; outside: what NMT missed when status was read.*)
NoShot == [start |-> 0, status |-> <<>>, total |-> <<>>, categories |-> <<>>,
           failed |-> FALSE, of |-> {}, outside |-> 0]

Init ==
  /\ life = 1 /\ lives = 1 /\ tracked \in BOOLEAN /\ committed = Nothing /\ outside = 0
  /\ phase = "none" /\ shot = NoShot /\ shots = <<>>

-----------------------------------------------------------------------------
(* The JVM; after the second snapshot its course no longer matters *)

Works == life > 0 /\ Len(shots) < 2 /\ UNCHANGED <<life, lives, tracked, script>>

Commit ==
  Works /\ UNCHANGED outside
  /\ \E c \in Categories, n \in 0..MaxKb : n # committed[c] /\ committed' = [committed EXCEPT ![c] = n]

AllocateOutside ==
  Works /\ UNCHANGED committed /\ \E n \in 0..MaxKb : n # outside /\ outside' = n

Ends ==
  /\ life > 0 /\ Len(shots) < 2
  /\ life' = 0 /\ committed' = Nothing /\ outside' = 0
  /\ UNCHANGED <<lives, tracked, script>>

(* Another JVM gets the PID. *)
Starts ==
  /\ life = 0 /\ lives < MaxLives
  /\ life' = lives + 1 /\ lives' = lives + 1 /\ tracked' \in BOOLEAN
  /\ UNCHANGED <<committed, outside, script>>

-----------------------------------------------------------------------------
(* native-memory-snapshot.sh *)

(* Without a process it leaves before it has made the directory. *)
Begin ==
  /\ phase = "none" /\ Len(shots) < 2 /\ life > 0
  /\ shot' = [NoShot EXCEPT !.start = life] /\ phase' = "status"
  /\ UNCHANGED <<jvm, shots>>

(* grep ... || true: the file of a process that has ended is empty. *)
ReadStatus ==
  /\ phase = "status" /\ phase' = "nmt"
  /\ shot' = IF life = 0 THEN shot
             ELSE [shot EXCEPT !.status = <<Total(committed) + outside>>, !.of = @ \cup {life},
                               !.outside = outside]
  /\ UNCHANGED <<jvm, shots>>

(* The first n lines of what jcmd prints: the total, then the categories.  *)
Printed(n) ==
  [shot EXCEPT !.total = IF n = 0 THEN <<>> ELSE <<Total(committed)>>,
               !.categories = Restrict(committed, {c \in Categories : c < n /\ committed[c] > 0}),
               !.failed = n <= Cardinality(Categories), !.of = @ \cup {life}]

(* capture: jcmd may fail, or be stopped by its timeout at any line; the   *)
(* failure is noted in meta.txt and the script goes on.                    *)
ReadNmt ==
  /\ phase = "nmt" /\ phase' = "check"
  /\ shot' \in IF life = 0 THEN {[shot EXCEPT !.failed = TRUE]}
               ELSE IF ~tracked THEN {[shot EXCEPT !.of = @ \cup {life}], [shot EXCEPT !.failed = TRUE]}
               ELSE {Printed(n) : n \in 0..Cardinality(Categories) + 1}
  /\ UNCHANGED <<jvm, shots>>

(* Mutant: the target must still run, as whatever process. *)
IsTargetAlive == life > 0

(* the start time now and at the beginning; exit 5 tells to discard the    *)
(* directory                                                               *)
IsTarget == life = shot.start

Check ==
  /\ phase = "check" /\ phase' = "none" /\ shot' = NoShot
  /\ shots' = IF IsTarget THEN Append(shots, shot) ELSE shots
  /\ UNCHANGED jvm

Next ==
  \/ Commit \/ AllocateOutside \/ Ends \/ Starts
  \/ Begin \/ ReadStatus \/ ReadNmt \/ Check

Spec == Init /\ [][Next]_vars

-----------------------------------------------------------------------------
(* nmt-compare.py; asFiles: it is given the NMT summaries alone *)

Load(s, asFiles) ==
  [total |-> s.total, categories |-> s.categories, status |-> IF asFiles THEN <<>> ELSE s.status]

AmountIn(b, c) == IF c \in DOMAIN b.categories THEN b.categories[c] ELSE 0

(* Mutant: only the categories of both snapshots are compared. *)
NamesOfBoth(b, a) == DOMAIN b.categories \cap DOMAIN a.categories

NamesIn(b, a) == DOMAIN b.categories \cup DOMAIN a.categories

CategoryDeltas(b, a) == [c \in NamesIn(b, a) |-> AmountIn(a, c) - AmountIn(b, c)]

(* A difference is reported only when both snapshots have the value. *)
Difference(b, a) == IF b = <<>> \/ a = <<>> THEN <<>> ELSE <<a[1] - b[1]>>

TotalDelta(b, a) == Difference(b.total, a.total)
Gap(b, a) == Difference(TotalDelta(b, a), Difference(b.status, a.status))

(* the remark that native memory outside NMT is a candidate *)
IsCandidate(gap) == gap # <<>> /\ gap[1] > GapKb

Tells(b) == b.total # <<>> \/ b.status # <<>>
Exit(b, a) == IF Tells(b) /\ Tells(a) THEN "0" ELSE "4"

-----------------------------------------------------------------------------
TypeOK ==
  /\ life \in 0..lives /\ lives \in 1..MaxLives /\ tracked \in BOOLEAN
  /\ committed \in [Categories -> 0..MaxKb] /\ outside \in 0..MaxKb
  /\ phase \in {"none", "status", "nmt", "check"} /\ Len(shots) <= 2

IsPair == Len(shots) = 2
Loaded(asFiles) == [i \in 1..2 |-> Load(shots[i], asFiles)]

(* Of two snapshots without a failed capture, the changes of the           *)
(* categories, those included that only one of the two lists, add up to    *)
(* the change of the total, and there is always something to compare.      *)
CategoriesAddUp ==
  IsPair /\ (\A i \in 1..2 : ~shots[i].failed) =>
    \A asFiles \in BOOLEAN :
      LET s == Loaded(asFiles)
      IN  /\ TotalDelta(s[1], s[2]) # <<>> => <<Sum(CategoryDeltas(s[1], s[2]))>> = TotalDelta(s[1], s[2])
          /\ ~asFiles => Exit(s[1], s[2]) = "0"

(* Everything in a snapshot that ended with exit 0 was read from the       *)
(* process it was begun with, however often the PID was reused.  So the    *)
(* gap of two snapshots of one process is what grew outside NMT, even when *)
(* jcmd was stopped after the total, and is remarked on exactly when it is *)
(* more than the limit, as long as nothing was committed between the two   *)
(* reads of one snapshot.                                                  *)
GapIsOfOneProcess ==
  /\ \A i \in DOMAIN shots : shots[i].of \subseteq {shots[i].start}
  /\ IsPair /\ shots[1].start = shots[2].start =>
       LET s == Loaded(FALSE)
           gap == Gap(s[1], s[2])
           grown == shots[2].outside - shots[1].outside
           quiet == \A i \in 1..2 : s[i].total # <<>> /\ s[i].status[1] = s[i].total[1] + shots[i].outside
       IN  quiet => gap = <<grown>> /\ (IsCandidate(gap) <=> grown > GapKb)
=============================================================================
