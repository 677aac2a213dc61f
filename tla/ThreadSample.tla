---------------------------- MODULE ThreadSample ----------------------------
(***************************************************************************)
(* Per-thread counters of a live process, read thread by thread while the  *)
(* threads run, end and begin, and the differences that are reported:      *)
(*   series     collect.sh's sampler, as section_timeseries of             *)
(*              analyze-bundle.py reads it back;                           *)
(*   snapshots  proc-start and proc-end, as thread_deltas of               *)
(*              analyze-bundle.py compares them;                           *)
(*   runqueue   skills/linux-ebpf-io-network/scripts/runqueue-delta.py.    *)
(***************************************************************************)
EXTENDS Naturals, Integers, Sequences, FiniteSets

CONSTANTS
  Tids,       (* 1..n                                                      *)
  MaxTicks,   (* bound: counter of a thread                                *)
  MaxBirths,  (* bound: threads that begin later                           *)
  MaxSamples  (* bound: samples of a series                                *)

VARIABLES
  reader,
  process,    (* the process that has the PID: 0 none, 1 the target        *)
  thread,     (* tid -> what its counter shows and who is behind it        *)
  births,
  doing, next, (* what the reader does; the next tid                       *)
  readings,   (* sample -> tid -> what was read                            *)
  written,    (* sample -> the tids that got a row                         *)
  last,       (* the sampler's array "last"                                *)
  code

vars == <<reader, process, thread, births, doing, next, readings, written, last, code>>
system == <<process, thread, births>>
reading == <<reader, doing, next, readings, written, last, code>>

Readers == {"series", "snapshots", "runqueue"}
Samples == IF reader = "series" THEN MaxSamples ELSE 2

(* born: the number of the thread, 0 for none; ran: all that threads of    *)
(* this tid ever ran.                                                      *)
Init ==
  /\ reader \in Readers
  /\ process = 1 /\ births = 1
  /\ thread = [t \in Tids |-> IF t = 1 THEN [born |-> 1, ticks |-> 1, ran |-> 1]
                              ELSE [born |-> 0, ticks |-> 0, ran |-> 0]]
  /\ doing = "check" /\ next = 1 /\ readings = <<>> /\ written = <<>> /\ last = <<>> /\ code = "none"

-----------------------------------------------------------------------------
(* The system *)

Run ==
  /\ \E t \in Tids : /\ thread[t].born > 0 /\ thread[t].ticks < MaxTicks
                     /\ thread' = [thread EXCEPT ![t].ticks = @ + 1, ![t].ran = @ + 1]
  /\ UNCHANGED <<process, births, reading>>

Born(t) == [born |-> births + 1, ticks |-> 0, ran |-> thread[t].ran]
Gone(t) == [born |-> 0, ticks |-> 0, ran |-> thread[t].ran]

(* A thread begins; the kernel may give it the tid of one that has ended.  *)
Begin ==
  /\ process > 0 /\ births <= MaxBirths
  /\ \E t \in Tids : thread[t].born = 0 /\ thread' = [thread EXCEPT ![t] = Born(t)]
  /\ births' = births + 1
  /\ UNCHANGED <<process, reading>>

(* The first thread ends with the process. *)
End ==
  /\ \E t \in Tids \ {1} : thread[t].born > 0 /\ thread' = [thread EXCEPT ![t] = Gone(t)]
  /\ UNCHANGED <<process, births, reading>>

ProcessEnds ==
  /\ process > 0 /\ process' = 0 /\ thread' = [t \in Tids |-> Gone(t)]
  /\ UNCHANGED <<births, reading>>

(* Another process gets the PID, and with it the first tid. *)
PidReused ==
  /\ process = 0 /\ births <= MaxBirths /\ process' = 2 /\ births' = births + 1
  /\ thread' = [thread EXCEPT ![1] = Born(1)]
  /\ UNCHANGED reading

-----------------------------------------------------------------------------
(* The readers *)

Leave(c) == doing' = "exit" /\ code' = c /\ UNCHANGED <<readings, written>>

(* sampler: /proc/PID/stat, then the host row; runqueue-delta: the start   *)
(* time of the process before each of its two snapshots.                   *)
Check ==
  /\ doing = "check"
  /\ CASE reader = "series" /\ (process = 0 \/ Len(readings) = Samples) -> Leave("0")
       [] reader = "runqueue" /\ process = 0 /\ readings = <<>> -> Leave("2")
       [] reader = "runqueue" /\ process # 1 /\ readings # <<>> -> Leave("1")
       [] OTHER -> /\ doing' = "read" /\ UNCHANGED code
                   /\ readings' = Append(readings, thread) /\ written' = Append(written, {})
  /\ next' = 1 /\ UNCHANGED <<reader, system, last>>

Set(f, t, x) == [u \in DOMAIN f \cup {t} |-> IF u = t THEN x ELSE f[u]]

(* Mutant: a counter that has hardly moved is not worth a row. *)
HasRowMoved(t) ==
  /\ thread[t].born > 0
  /\ reader = "series" /\ t \in DOMAIN last => thread[t].ticks > last[t] + 1

(* A thread that is gone is skipped.  The sampler writes a row only when   *)
(* the counter differs from the last one it wrote for the tid.             *)
HasRow(t) ==
  /\ thread[t].born > 0
  /\ reader = "series" /\ t \in DOMAIN last => last[t] # thread[t].ticks

ReadThread ==
  /\ doing = "read"
  /\ readings' = [readings EXCEPT ![Len(readings)][next] = thread[next]]
  /\ IF HasRow(next)
     THEN /\ written' = [written EXCEPT ![Len(written)] = @ \cup {next}]
          /\ last' = IF reader = "series" THEN Set(last, next, thread[next].ticks) ELSE last
     ELSE UNCHANGED <<written, last>>
  /\ IF next = Cardinality(Tids) THEN doing' = "pause" /\ UNCHANGED next ELSE next' = next + 1 /\ UNCHANGED doing
  /\ UNCHANGED <<reader, system, code>>

(* After the last snapshot the report is made; the first of runqueue-delta *)
(* must not be empty.                                                      *)
Pause ==
  /\ doing = "pause"
  /\ CASE reader # "series" /\ Len(readings) = Samples -> Leave("0")
       [] reader = "runqueue" /\ Len(readings) # Samples /\ written[1] = {} -> Leave("2")
       [] OTHER -> doing' = "check" /\ UNCHANGED <<readings, written, code>>
  /\ UNCHANGED <<reader, system, next, last>>

Next == Run \/ Begin \/ End \/ ProcessEnds \/ PidReused \/ Check \/ ReadThread \/ Pause

Spec == Init /\ [][Next]_vars

-----------------------------------------------------------------------------
(* The reports *)

Before(i, t) == {j \in 1..i - 1 : t \in written[j]}

(* "last" of section_timeseries before sample i                            *)
LastTicks(i, t) ==
  IF Before(i, t) = {} THEN 0
  ELSE readings[CHOOSE j \in Before(i, t) : \A k \in Before(i, t) : k <= j][t].ticks

(* Mutant: the rows of the first sample count as an interval, too. *)
IntervalOfAll(i) == [t \in written[i] |-> readings[i][t].ticks - LastTicks(i, t)]

(* section_timeseries: the rows of the first sample are only remembered.   *)
IntervalDelta(i) ==
  [t \in (IF i = 1 THEN {} ELSE written[i]) |-> readings[i][t].ticks - LastTicks(i, t)]

(* thread_deltas *)
ThreadDelta == [t \in written[1] \cap written[2] |-> readings[2][t].ticks - readings[1][t].ticks]

(* runqueue-delta: a thread whose counter went back is left out.           *)
RunqueueDelta == [t \in {u \in DOMAIN ThreadDelta : ThreadDelta[u] >= 0} |-> ThreadDelta[t]]

(* A sum of integers: the units above zero less those below.               *)
Units(f) == UNION {{x} \X (1..f[x]) : x \in DOMAIN f}
SumOf(f) == Cardinality(Units(f)) - Cardinality(Units([x \in DOMAIN f |-> -f[x]]))

-----------------------------------------------------------------------------
TypeOK ==
  /\ reader \in Readers /\ process \in 0..2 /\ births \in 1..MaxBirths + 1
  /\ \A t \in Tids : thread[t].born \in 0..births /\ thread[t].ticks \in 0..MaxTicks
  /\ doing \in {"check", "read", "pause", "exit"} /\ next \in Tids
  /\ Len(readings) <= Samples /\ DOMAIN written = DOMAIN readings
  /\ \A i \in DOMAIN written : written[i] \subseteq Tids
  /\ code \in {"none", "0", "1", "2"}

Complete(i) == i < Len(readings) \/ doing # "read"

(* Although the sampler leaves out the counters that did not change, the   *)
(* intervals of a tid add up to the difference of what its counter shows   *)
(* and showed in the first sample, or 0 where nobody had it - whatever     *)
(* threads end and begin, and use the tid again, in between.               *)
SeriesAddsUp ==
  reader = "series" =>
    \A i \in DOMAIN readings, t \in Tids :
      Complete(i) /\ readings[i][t].born > 0 =>
        SumOf([j \in {k \in 1..i : t \in DOMAIN IntervalDelta(k)} |-> IntervalDelta(j)[t]])
          = readings[i][t].ticks - readings[1][t].ticks

(* No report invents work: whatever threads and processes come and go, no  *)
(* difference exceeds what was run under that tid between the two readings *)
(* it spans, and runqueue-delta's never fall below zero.                   *)
DeltasInventNothing ==
  /\ reader = "series" =>
       \A i \in DOMAIN readings : \A t \in DOMAIN IntervalDelta(i) :
         IntervalDelta(i)[t] <= readings[i][t].ran -
           (IF Before(i, t) = {} THEN readings[1][t].ran
            ELSE readings[CHOOSE j \in Before(i, t) : \A k \in Before(i, t) : k <= j][t].ran)
  /\ reader # "series" /\ code = "0" =>
       \A t \in DOMAIN ThreadDelta : ThreadDelta[t] <= readings[2][t].ran - readings[1][t].ran
  /\ reader = "runqueue" /\ code = "0" =>
       \A t \in DOMAIN RunqueueDelta : RunqueueDelta[t] \in Nat
=============================================================================
