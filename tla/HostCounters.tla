---------------------------- MODULE HostCounters ----------------------------
(***************************************************************************)
(* The counters of the host over the window: proc-start and proc-end       *)
(* (snapshot_proc of collect.sh, 579-587) and their differences in         *)
(* analyze-bundle.py (interrupt_deltas ... snmp_deltas, section_cgroup).   *)
(*                                                                         *)
(* A table of the kernel has rows by name and columns: the CPUs of an      *)
(* interrupt, the reads and writes of a disk.  Interrupts and disks come   *)
(* and go, and a new one of an old name counts from 0; CPUs go offline and *)
(* come back, and /proc/interrupts shows only those that are online.  A    *)
(* snapshot may be unreadable, or lost on the way to the analysis.         *)
(***************************************************************************)
EXTENDS Integers, FiniteSets

CONSTANTS
  Rows, Columns, First, (* First: the column of a table that has one only      *)
  MaxCount,   (* bound: events of one row and column                       *)
  MaxChanges  (* bound: devices that come or go, CPUs that change          *)

VARIABLES
  table,      (* the file, one of Tables                                   *)
  counts,     (* of the kernel                                             *)
  present,    (* the rows the file has                                     *)
  online,     (* the columns it shows                                      *)
  opened, closed, (* proc-start and proc-end: rows to sums, None            *)
  moment,     (* before, window, after                                     *)
  before,     (* history: counts at the start                              *)
  happened,   (* history: events in the window                             *)
  renewed,    (* history: rows that came or went in the window             *)
  seen,       (* history: online at the start                              *)
  changes

vars == <<table, counts, present, online, opened, closed, moment, before, happened, renewed, seen,
          changes>>
history == <<before, renewed, seen>>

None == [r \in {} |-> 0]
Zero == [r \in Rows |-> [c \in Columns |-> 0]]

Tables == {"interrupts", "softirqs", "vmstat", "allocstall", "diskstats", "snmp", "cpu.stat",
           "memory.events"}

Init ==
  /\ table \in Tables /\ counts = Zero /\ online = Columns
  /\ present \in (IF table \in {"interrupts", "diskstats"} THEN SUBSET Rows ELSE {Rows})
  /\ opened = None /\ closed = None /\ moment = "before"
  /\ before = Zero /\ happened = Zero /\ renewed = {} /\ seen = Columns /\ changes = 0

-----------------------------------------------------------------------------
(* The kernel *)

Happen(r, c) ==
  /\ moment # "after" /\ r \in present /\ c \in online /\ counts[r][c] < MaxCount
  /\ table \in {"interrupts", "softirqs", "diskstats"} \/ c = First
  /\ counts' = [counts EXCEPT ![r][c] = @ + 1]
  /\ happened' = IF moment = "window" THEN [happened EXCEPT ![r][c] = @ + 1] ELSE happened
  /\ UNCHANGED <<table, present, online, opened, closed, moment, history, changes>>

(* A device is removed, or comes. *)
Replug(r) ==
  /\ table \in {"interrupts", "diskstats"} /\ moment # "after" /\ changes < MaxChanges
  /\ present' = (IF r \in present THEN present \ {r} ELSE present \cup {r})
  /\ counts' = [counts EXCEPT ![r] = Zero[r]]
  /\ renewed' = (IF moment = "window" THEN renewed \cup {r} ELSE renewed)
  /\ changes' = changes + 1
  /\ UNCHANGED <<table, online, opened, closed, moment, before, happened, seen>>

(* A CPU goes offline or comes back; its counts are kept. *)
Hotplug(c) ==
  /\ table = "interrupts" /\ moment # "after" /\ changes < MaxChanges
  /\ online' = (IF c \in online THEN online \ {c} ELSE online \cup {c})
  /\ online' # {} /\ changes' = changes + 1
  /\ UNCHANGED <<table, counts, present, opened, closed, moment, history, happened>>

-----------------------------------------------------------------------------
(* The collector and the transfer *)

(* The sum of a row is the number of its events.                           *)
Events(row, columns) == UNION {{c} \X (1..row[c]) : c \in columns}
SumOf(row, columns) == Cardinality(Events(row, columns))

(* cat /proc/...; what load() makes of it *)
Shown == [r \in present |-> SumOf(counts[r], online)]

ReadStart ==
  /\ moment = "before" /\ moment' = "window"
  /\ opened' \in {Shown, None}
  /\ before' = counts /\ seen' = online
  /\ UNCHANGED <<table, counts, present, online, closed, happened, renewed, changes>>

ReadEnd ==
  /\ moment = "window" /\ moment' = "after"
  /\ closed' \in {Shown, None}
  /\ UNCHANGED <<table, counts, present, online, opened, history, happened, changes>>

Next ==
  \/ \E r \in Rows : Replug(r) \/ \E c \in Columns : Happen(r, c)
  \/ \E c \in Columns : Hotplug(c)
  \/ ReadStart \/ ReadEnd

Spec == Init /\ [][Next]_vars

-----------------------------------------------------------------------------
(* The analysis *)

(* allocstall_total and memory.events: start.get(k, 0) *)
FromZero == {"allocstall", "memory.events"}

(* Mutant: a row that proc-start lacks began at 0, in every table. *)
KeysOfEnd == DOMAIN closed

(* k in end and k in start *)
Keys == IF table \in FromZero THEN DOMAIN closed ELSE DOMAIN closed \cap DOMAIN opened

Delta(r) == closed[r] - (IF r \in DOMAIN opened THEN opened[r] ELSE 0)

(* Softirqs and disks without any are left out. *)
Deltas == [r \in {k \in Keys : table \in {"softirqs", "diskstats"} => Delta(k) > 0} |-> Delta(r)]

-----------------------------------------------------------------------------
TypeOK ==
  /\ table \in Tables /\ counts \in [Rows -> [Columns -> 0..MaxCount]]
  /\ present \subseteq Rows /\ online \subseteq Columns /\ moment \in {"before", "window", "after"}
  /\ DOMAIN opened \subseteq Rows /\ DOMAIN closed \subseteq Rows
  /\ changes \in 0..MaxChanges

(* What a CPU that came online in the window had counted before it. *)
Returned(r) == SumOf(before[r], IF table = "interrupts" THEN online \ seen ELSE {})

(* No counter of the report exceeds what happened in the window, whatever  *)
(* came, went or was lost: at most what CPUs that came online in it had    *)
(* counted earlier is added.  It is exact for a row that was there all the *)
(* time, with the same CPUs, and such a row is told if anything happened   *)
(* to it.  (allocstall_total and the memory events need proc-start for it.)*)
CountersAreReal ==
  moment = "after" /\ (table \in FromZero => opened # None) =>
    /\ \A r \in DOMAIN Deltas : Deltas[r] <= SumOf(happened[r], Columns) + Returned(r)
    /\ \A r \in present \ renewed :
         opened # None /\ closed # None /\ online = seen =>
           IF r \in DOMAIN Deltas THEN Deltas[r] = SumOf(happened[r], online)
                                  ELSE SumOf(happened[r], Columns) = 0
=============================================================================
