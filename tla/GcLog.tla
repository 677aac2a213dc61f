-------------------------------- MODULE GcLog --------------------------------
(***************************************************************************)
(* skills/java-gc-tuning/scripts/gc-log-summary.py: what is counted from   *)
(* the rotated files of one JVM's unified GC log.                          *)
(*                                                                         *)
(* The JVM allocates, collects and prints; its log is rotated between any  *)
(* two lines.  The summary is a function of the files as they are, of the  *)
(* order in which they are named and of the uptime window, so every state  *)
(* of the JVM is a log the script can be given.  Every line has the uptime *)
(* decorator, without which the script keeps every line and gives neither  *)
(* rate nor fraction.                                                      *)
(***************************************************************************)
EXTENDS Naturals, Sequences, FiniteSets, FiniteSetsExt

CONSTANTS
  MaxUp,      (* bound: uptime, by collector                             *)
  MaxHeap,    (* bound: used heap                                          *)
  MaxTotal,   (* bound: allocations                                        *)
  MaxPauses,  (* bound: pauses                                             *)
  MaxIds,     (* bound: collections and concurrent cycles                  *)
  MaxStalls,  (* bound: allocation stalls                                  *)
  MaxFiles    (* bound: rotated files                                      *)

None == 0

VARIABLES
  collector,
  up, used, total, freed,
  nextId,     (* the next GC(id), counted from 1                           *)
  cycle,      (* id of the concurrent cycle that runs, None                *)
  open,       (* the pause that has begun, NoPause                         *)
  paused,     (* every pause that has ended, with the file it was told in  *)
  stalls,     (* the number of allocation stalls                           *)
  files       (* the lines of each file                                    *)

vars == <<collector, up, used, total, freed, nextId, cycle, open, paused, stalls, files>>
heap == <<used, total, freed>>
log == <<paused, stalls, files>>

-----------------------------------------------------------------------------
(* The JVM *)

(* own: a collection with an id of its own; otherwise a pause of the       *)
(* concurrent cycle, which may repeat it under the same name.  A full      *)
(* collection of G1 prints what one of Shenandoah does.                    *)
Kinds ==
  [Parallel |-> {[name |-> "Young", gen |-> "none", own |-> 1, sized |-> 1, again |-> 0]},
   G1 |-> {[name |-> "Young", gen |-> "none", own |-> 1, sized |-> 1, again |-> 0],
           [name |-> "Remark", gen |-> "none", own |-> 0, sized |-> 1, again |-> 0]},
   Shenandoah |-> {[name |-> "Full", gen |-> "none", own |-> 1, sized |-> 1, again |-> 0],
                   [name |-> "FinalMark", gen |-> "none", own |-> 0, sized |-> 0, again |-> 0]},
   ZGC |-> {[name |-> "MarkEnd", gen |-> g, own |-> 0, sized |-> 0, again |-> 1] : g \in {"Y", "O"}}]

NoPause == [kind |-> [name |-> "none"], id |-> 0, n |-> 0, began |-> 0, before |-> 0]
Line(type, p, after) ==
  [type |-> type, pause |-> p, after |-> after, up |-> up, ms |-> up - p.began,
   total |-> total, freed |-> freed]
PrintTo(fs, line) == [fs EXCEPT ![Len(fs)] = Append(@, line)]

Init ==
  /\ collector \in DOMAIN Kinds
  /\ up = 0 /\ used = 0 /\ total = 0 /\ freed = 0 /\ nextId = 1 /\ cycle = None /\ open = NoPause
  /\ paused = <<>> /\ stalls = 0
  /\ files = << <<Line("using", NoPause, 0)>> >>

Tick == up < MaxUp[collector] /\ up' = up + 1
        /\ UNCHANGED <<collector, heap, nextId, cycle, open, log>>

Allocate ==
  /\ collector # "ZGC" /\ open = NoPause /\ used < MaxHeap /\ total < MaxTotal
  /\ used' = used + 1 /\ total' = total + 1
  /\ UNCHANGED <<collector, up, freed, nextId, cycle, open, log>>

(* Memory comes back outside the pauses. *)
FreeConcurrently ==
  /\ collector = "Shenandoah" /\ cycle # None /\ open = NoPause /\ used > 0
  /\ used' = used - 1 /\ freed' = freed + 1
  /\ UNCHANGED <<collector, up, total, nextId, cycle, open, log>>

StartCycle ==
  /\ collector # "Parallel" /\ cycle = None /\ open = NoPause /\ nextId <= MaxIds[collector]
  /\ cycle' = nextId /\ nextId' = nextId + 1
  /\ UNCHANGED <<collector, up, heap, open, log>>

Told(id, k) == \E i \in DOMAIN paused : paused[i].line.pause.id = id /\ paused[i].line.pause.kind = k

(* The pauses with sizes are announced by a line of their own.             *)
StartPause ==
  /\ open = NoPause /\ Len(paused) < MaxPauses[collector]
  /\ \E k \in Kinds[collector] :
       /\ \/ k.own = 1 /\ nextId <= MaxIds[collector]
          \/ k.own = 0 /\ cycle # None /\ (k.again = 1 \/ ~Told(cycle, k))
       /\ LET id == IF k.own = 1 THEN nextId ELSE cycle
              p == [kind |-> k, id |-> id, n |-> Len(paused) + 1, began |-> up, before |-> used]
          IN  /\ open' = p /\ nextId' = nextId + k.own
              /\ files' = IF k.sized = 1 THEN PrintTo(files, Line("start", p, 0)) ELSE files
  /\ UNCHANGED <<collector, up, heap, cycle, paused, stalls>>

EndPause ==
  /\ open # NoPause
  /\ \E after \in (IF open.kind.sized = 1 THEN 0..used ELSE {used}) :
       LET line == Line("end", open, after)
       IN  /\ used' = after /\ files' = PrintTo(files, line)
           /\ paused' = Append(paused, [line |-> line, file |-> Len(files)])
  /\ open' = NoPause
  /\ UNCHANGED <<collector, up, total, freed, nextId, cycle, stalls>>

EndCycle ==
  /\ cycle # None /\ open = NoPause /\ cycle' = None
  /\ UNCHANGED <<collector, up, heap, nextId, open, log>>

(* An application thread reports its stall: a line without a GC id.        *)
Stall ==
  /\ collector = "ZGC" /\ stalls < MaxStalls /\ stalls' = stalls + 1
  /\ files' = PrintTo(files, Line("stall", NoPause, 0))
  /\ UNCHANGED <<collector, up, heap, nextId, cycle, open, paused>>

Rotate ==
  /\ Len(files) < MaxFiles /\ files[Len(files)] # <<>> /\ files' = Append(files, <<>>)
  /\ UNCHANGED <<collector, up, heap, nextId, cycle, open, paused, stalls>>

Next == Tick \/ Allocate \/ FreeConcurrently \/ StartCycle \/ StartPause \/ EndPause \/ EndCycle
        \/ Stall \/ Rotate

Spec == Init /\ [][Next]_vars

-----------------------------------------------------------------------------
(* gc-log-summary.py; given: the files as named on the command line *)

(* --from-uptime, --to-uptime *)
InWindow(line, w) == w.from <= line.up /\ line.up <= w.to

Read(given, w) ==
  {l \in UNION {{[path |-> p, no |-> i, line |-> files[p][i]] : i \in DOMAIN files[p]} : p \in Range(given)} :
     InWindow(l.line, w)}

(* Mutant: a generation of a collection has one pause. *)
KeyWithoutName(l) == <<l.path, l.line.pause.kind.gen>>

Key(l) == <<l.path, l.line.pause.id, l.line.pause.kind.gen, l.line.pause.kind.name>>

(* PAUSE_RE finds the lines that end with a duration; the last one of a    *)
(* key stands.                                                             *)
PausesOf(given, w) ==
  LET found == {l \in Read(given, w) : l.line.type = "end"}
  IN  {l \in found : \A m \in found : Key(m) = Key(l) => m.no <= l.no}

Position(given, p) == Min({i \in DOMAIN given : given[i] = p})

(* the order in which the lines are read *)
BeforeAsRead(given, a, b) ==
  \/ Position(given, a.path) < Position(given, b.path)
  \/ a.path = b.path /\ a.no < b.no

(* sorted by (uptime, gc_id); the sort is stable.                     *)
Before(given, a, b) ==
  \/ a.line.up < b.line.up
  \/ a.line.up = b.line.up /\ a.line.pause.id < b.line.pause.id
  \/ a.line.up = b.line.up /\ a.line.pause.id = b.line.pause.id /\ BeforeAsRead(given, a, b)

SizedPauses(given, w) == {l \in PausesOf(given, w) : l.line.pause.kind.sized = 1}
FirstOf(given, s) == CHOOSE l \in s : \A m \in s \ {l} : Before(given, l, m)
LastOf(given, s) == CHOOSE l \in s : \A m \in s \ {l} : Before(given, m, l)

Grown(prev, cur) ==
  IF cur.line.pause.before > prev.line.after THEN cur.line.pause.before - prev.line.after ELSE 0

(* The sum of a family of numbers is the number of its units.              *)
Units(f) == UNION {{x} \X (1..f[x]) : x \in DOMAIN f}
SumOf(f) == Cardinality(Units(f))

(* approx_allocation_mib_per_s, before the division by the time between    *)
(* the first and the last pause                                            *)
HasAllocation(given, s) == s # {} /\ LastOf(given, s).line.up > FirstOf(given, s).line.up
Allocation(given, s) ==
  SumOf([cur \in s \ {FirstOf(given, s)} |->
           Grown(LastOf(given, {m \in s : Before(given, m, cur)}), cur)])

(* pause_total_ms and elapsed_s; their quotient is pause_fraction *)
PauseTime(pauses) == SumOf([l \in pauses |-> l.line.ms])
Uptimes(given, w) == {l.line.up : l \in Read(given, w)}
Elapsed(ups) == IF ups = {} THEN 0 ELSE Max(ups) - Min(ups)

Alarmed(alarm, line) ==
  \/ alarm = "full_gc" /\ line.type \in {"start", "end"} /\ line.pause.kind.name = "Full"
  \/ alarm = "allocation_stall" /\ line.type = "stall"

(* Mutant: a line without a GC id counts once per file. *)
DedupeByFile(l) == <<l.path, IF l.line.type = "stall" THEN <<"line", 0>> ELSE <<"id", l.line.pause.id>> >>

Dedupe(l) == <<l.path, IF l.line.type = "stall" THEN <<"line", l.no>> ELSE <<"id", l.line.pause.id>> >>

Alarms(given, w, alarm) == Cardinality({Dedupe(l) : l \in {x \in Read(given, w) : Alarmed(alarm, x.line)}})

-----------------------------------------------------------------------------
TypeOK ==
  /\ collector \in DOMAIN Kinds /\ up \in 0..MaxUp[collector]
  /\ used \in 0..MaxHeap /\ total = used + freed + SumOf([i \in DOMAIN paused |->
                                   paused[i].line.pause.before - paused[i].line.after])
  /\ Len(files) \in 1..MaxFiles /\ Len(paused) <= MaxPauses[collector]

(* The files in another order, one of them twice; or in their own within a *)
(* window                                                                  *)
All == [i \in 1..Len(files) |-> i]
Back == [i \in 1..Len(files) |-> Len(files) + 1 - i]
Givens == {All, Append(Back, Len(files))}
Windows == [from : {0, 1}, to : {MaxUp[collector]}] \cup [from : {0}, to : {1}]
Everything == [from |-> 0, to |-> MaxUp[collector]]
Readings == Givens \X {Everything} \cup {All} \X Windows

(* Whatever the order of the files and wherever they were cut, the pauses  *)
(* of the summary are those of the JVM within the window, each once with   *)
(* its own duration.  The one exception is a pause that its concurrent     *)
(* cycle repeated under the same name in the same file.                    *)
PausesTold ==
  \A reading \in Readings :
    LET w == reading[2]
        told == PausesOf(reading[1], w)
        IsTold(x) == \E l \in told : l.line = x.line
        Repeats(x, y) == /\ x.file = y.file /\ x.line.pause.n < y.line.pause.n
                         /\ x.line.pause.id = y.line.pause.id /\ x.line.pause.kind = y.line.pause.kind
    IN  /\ \A l \in told : \E i \in DOMAIN paused : paused[i].line = l.line /\ InWindow(l.line, w)
        /\ Cardinality(told) = Cardinality({l.line : l \in told})
        /\ \A i \in DOMAIN paused :
             InWindow(paused[i].line, w) /\ ~IsTold(paused[i]) =>
               /\ paused[i].line.pause.kind.again = 1
               /\ \E j \in DOMAIN paused : Repeats(paused[i], paused[j]) /\ IsTold(paused[j])

(* The pauses never fill more time than the log spans, but for the part of *)
(* one that had begun before the first line that was read.                 *)
FractionIsPossible ==
  \A w \in Windows :
    LET told == PausesOf(All, w)
        ups == Uptimes(All, w)
        early == {l \in told : \A u \in ups : l.line.pause.began < u}
    IN  /\ PauseTime(told \ early) <= Elapsed(ups)
        /\ Cardinality(early) <= 1
        /\ w = Everything => early = {}

(* The allocation estimate never exceeds what was allocated between the    *)
(* first and the last pause with sizes, and is exact when nothing was      *)
(* freed outside the pauses, as long as no two of them share an uptime.    *)
AllocationIsBounded ==
  \A reading \in Readings :
    LET given == reading[1]
        sized == SizedPauses(given, reading[2])
        ups == {l.line.up : l \in sized}
        At(u) == CHOOSE l \in sized : l.line.up = u
        Truth(f) == At(Max(ups)).line[f] - At(Min(ups)).line[f]
    IN  Cardinality(ups) = Cardinality(sized) /\ Cardinality(ups) >= 2 =>
          /\ HasAllocation(given, sized)
          /\ Allocation(given, sized) <= Truth("total")
          /\ Truth("freed") = 0 => Allocation(given, sized) = Truth("total")

Started == {open} \cup {paused[i].line.pause : i \in DOMAIN paused}

(* Every stall counts once and every full collection at least once; a full *)
(* collection counts twice exactly when the log was rotated within it: it  *)
(* counts in each file that has a line of it.                              *)
AlarmsTold ==
  \A given \in Givens :
    LET full == {p \in Started : p.kind.name = "Full"}
        printed == {t \in full \X DOMAIN files :
                      \E i \in DOMAIN files[t[2]] : files[t[2]][i].pause = t[1]}
    IN  /\ Alarms(given, Everything, "allocation_stall") = stalls
        /\ Alarms(given, Everything, "full_gc") = Cardinality(printed)
        /\ \A p \in full : \E f \in DOMAIN files : <<p, f>> \in printed
=============================================================================
