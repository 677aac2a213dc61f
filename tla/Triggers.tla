------------------------------ MODULE Triggers ------------------------------
(***************************************************************************)
(* skills/java-offline-capture/assets/collector/collect.sh, lines 411-481: *)
(* the wait for a start time or a trigger, before anything is written.     *)
(*                                                                         *)
(* Once a second the collector looks at its deadline and at the target and *)
(* then at each trigger in turn, until one fires.  The target uses its     *)
(* CPUs, writes GC pauses to a log that is rotated at any point, and may   *)
(* exit.  file: and rss: read a condition as it is at that moment; cpu:    *)
(* and gcpause: compare with what an earlier look has left behind, which   *)
(* all triggers of a kind share.                                           *)
(***************************************************************************)
EXTENDS Naturals, Sequences, FiniteSets, FiniteSetsExt

CONSTANTS
  Plans,        (* the lists of triggers that may be given                 *)
  MaxWait,      (* --max-wait                                              *)
  CpuInterval,  (* the five seconds between two samples of the CPU time    *)
  MaxSleep,     (* bound: what one round takes                             *)
  Pauses,       (* durations of GC pauses                                  *)
  MaxLines,     (* bound: lines of one GC log file                         *)
  MaxGen        (* bound: rotations                                        *)

VARIABLES
  wait,       (* the next command: delay, arm, deadline, alive, sleep, check, tail; go, over *)
  triggers,
  startAt,    (* 0: not given, 1: near, 2: beyond --max-wait               *)
  nth,        (* the trigger that is looked at                             *)
  offset,     (* gc_offset: lines of the log that were read                *)
  size,       (* what stat has said                                        *)
  prev,       (* cpu_prev_ticks, cpu_prev_cs                               *)
  fired,      (* trigger_fired, Nothing                                    *)
  ending,     (* the exit status of an end without a capture               *)
  clock, spent,  (* time, and the CPU time used in each unit of it         *)
  target, flagged, gclog, gen,  (* the target; whether the file exists; the log file and how often it was rotated *)
  armed,      (* history: time and log when it was armed                   *)
  mark,       (* history: the log as it was when the round began           *)
  outgrown    (* history: <<rotations seen by stat, 1 if a file was found no shorter than what was read of the one before>> *)

vars == <<wait, triggers, startAt, nth, offset, size, prev, fired, ending, clock, spent, target,
          flagged, gclog, gen, armed, mark, outgrown>>
watch == <<offset, size, prev>>
history == <<armed, mark, outgrown>>
host == <<clock, spent, target, flagged, gclog, gen>>
given == <<triggers, startAt>>

Nothing == [kind |-> "none"]
StartAt == [kind |-> "start-at"]

Has(kind) == \E i \in DOMAIN triggers : triggers[i].kind = kind
Ticks(from, to) == Cardinality({t \in from + 1..to : spent[t] = 1})
ProcTicks == Ticks(0, clock)

Init ==
  /\ triggers \in Plans /\ startAt \in {0, 1, 2} /\ (triggers = <<>> => startAt # 0)
  /\ wait = IF startAt # 0 THEN "delay" ELSE "arm"
  /\ nth = 0 /\ offset = 0 /\ size = 0 /\ prev = [ticks |-> 0, time |-> 0]
  /\ fired = Nothing /\ ending = 0
  /\ clock = 0 /\ spent = <<>> /\ target = 1 /\ flagged = 0
  /\ gclog = <<>> /\ gen = 0
  /\ armed = [time |-> 0, gen |-> 0, lines |-> 0] /\ mark = [gen |-> 0, lines |-> 0] /\ outgrown = <<0, 0>>

Waiting == wait \notin {"go", "over"}

-----------------------------------------------------------------------------
(* The host, as far as a trigger looks at it *)

Pause ==
  /\ Waiting /\ target = 1 /\ Len(gclog) < MaxLines /\ Has("gcpause")
  /\ \E ms \in Pauses : gclog' = Append(gclog, ms)
  /\ UNCHANGED <<wait, given, nth, watch, fired, ending, clock, spent, target, flagged, gen, history>>

(* The log is renamed and a new one begun. *)
Rotate ==
  /\ Waiting /\ target = 1 /\ gen < MaxGen /\ gclog # <<>>
  /\ gen' = gen + 1 /\ gclog' = <<>>
  /\ UNCHANGED <<wait, given, nth, watch, fired, ending, clock, spent, target, flagged, history>>

TouchFile ==
  /\ Waiting /\ flagged = 0 /\ flagged' = 1 /\ Has("file")
  /\ UNCHANGED <<wait, given, nth, watch, fired, ending, clock, spent, target, gclog, gen, history>>

TargetExits ==
  /\ Waiting /\ target = 1 /\ target' = 0
  /\ UNCHANGED <<wait, given, nth, watch, fired, ending, clock, spent, flagged, gclog, gen, history>>

(* Time passes where the collector sleeps. *)
Elapse(n) ==
  /\ clock' = clock + n
  /\ \E use \in [1..n -> IF target = 1 /\ Has("cpu") THEN {0, 1} ELSE {0}] : spent' = spent \o use

-----------------------------------------------------------------------------
(* The collector *)

Die(status) == wait' = "over" /\ ending' = status

(* --start-at: not beyond --max-wait; sleep until then, unless the target  *)
(* exits.                                                                  *)
Delay ==
  /\ wait = "delay"
  /\ \/ startAt = 2 /\ Die(6) /\ UNCHANGED <<fired, clock, spent>>
     \/ startAt = 1 /\ target = 1 /\ Elapse(1) /\ fired' = StartAt /\ UNCHANGED ending
        /\ wait' = IF triggers = <<>> THEN "go" ELSE "arm"
     \/ startAt = 1 /\ target = 0 /\ Die(4) /\ UNCHANGED <<fired, clock, spent>>
  /\ UNCHANGED <<given, nth, watch, target, flagged, gclog, gen, history>>

(* Mutant: nothing was read yet. *)
ArmAtStart ==
  /\ wait = "arm" /\ wait' = "deadline" /\ fired' = Nothing
  /\ offset' = 0 /\ prev' = [ticks |-> ProcTicks, time |-> clock]
  /\ armed' = [time |-> clock, gen |-> gen, lines |-> Len(gclog)] /\ mark' = [gen |-> gen, lines |-> Len(gclog)]
  /\ outgrown' = <<gen, 0>>
  /\ UNCHANGED <<given, nth, size, ending, host>>

(* gc_offset, cpu_prev_ticks, trigger_fired=                               *)
Arm ==
  /\ wait = "arm" /\ wait' = "deadline" /\ fired' = Nothing
  /\ offset' = IF Has("gcpause") THEN Len(gclog) ELSE 0
  /\ prev' = [ticks |-> ProcTicks, time |-> clock]
  /\ armed' = [time |-> clock, gen |-> gen, lines |-> Len(gclog)] /\ mark' = [gen |-> gen, lines |-> Len(gclog)]
  /\ outgrown' = <<gen, 0>>
  /\ UNCHANGED <<given, nth, size, ending, host>>

Deadline ==
  /\ wait = "deadline"
  /\ IF clock < MaxWait THEN wait' = "alive" /\ UNCHANGED ending ELSE Die(6)
  /\ UNCHANGED <<given, nth, watch, fired, host, history>>

Alive ==
  /\ wait = "alive"
  /\ IF target = 1 THEN wait' = "sleep" /\ UNCHANGED ending ELSE Die(4)
  /\ UNCHANGED <<given, nth, watch, fired, host, history>>

(* sleep 1, and whatever else the round takes *)
Sleep ==
  /\ wait = "sleep" /\ wait' = "check" /\ nth' = 1
  /\ \E n \in 1..MaxSleep : Elapse(n)
  /\ mark' = [gen |-> gen, lines |-> Len(gclog)]
  /\ UNCHANGED <<given, watch, fired, ending, target, flagged, gclog, gen, armed, outgrown>>

NextTrigger ==
  IF nth < Len(triggers) THEN wait' = "check" /\ nth' = nth + 1 ELSE wait' = "deadline" /\ nth' = 0

Fire(what) == wait' = "go" /\ fired' = what /\ UNCHANGED nth
Pass == NextTrigger /\ UNCHANGED fired

CheckFile ==
  /\ wait = "check" /\ triggers[nth].kind = "file"
  /\ IF flagged = 1 THEN Fire(triggers[nth]) ELSE Pass
  /\ UNCHANGED <<given, watch, ending, host, history>>

(* Mutant: every look at the clock starts a new interval. *)
CheckCpuOften ==
  /\ wait = "check" /\ triggers[nth].kind = "cpu"
  /\ LET t == clock - prev.time
     IN  IF target = 1 /\ t >= CpuInterval /\ (ProcTicks - prev.ticks) * 100 >= triggers[nth].value * t
         THEN Fire(triggers[nth]) ELSE Pass
  /\ prev' = [ticks |-> ProcTicks, time |-> clock]
  /\ UNCHANGED <<given, offset, size, ending, host, history>>

(* value: percent of one core.  proc_ticks fails for a target that exited. *)
CheckCpu ==
  /\ wait = "check" /\ triggers[nth].kind = "cpu"
  /\ LET t == clock - prev.time
     IN  IF target = 1 /\ t >= CpuInterval
         THEN /\ IF (ProcTicks - prev.ticks) * 100 >= triggers[nth].value * t THEN Fire(triggers[nth]) ELSE Pass
              /\ prev' = [ticks |-> ProcTicks, time |-> clock]
         ELSE Pass /\ UNCHANGED prev
  /\ UNCHANGED <<given, offset, size, ending, host, history>>

(* stat; a file that is shorter than what was read is a new one.           *)
StatLog ==
  /\ wait = "check" /\ triggers[nth].kind = "gcpause"
  /\ size' = Len(gclog)
  /\ offset' = IF size' >= offset THEN offset ELSE 0
  /\ outgrown' = <<gen, IF gen # outgrown[1] /\ offset > 0 /\ size' >= offset THEN 1 ELSE outgrown[2]>>
  /\ IF size' > offset' THEN wait' = "tail" /\ UNCHANGED nth ELSE NextTrigger
  /\ UNCHANGED <<given, prev, fired, ending, host, armed, mark>>

(* The lines from offset to size of the file that has the name by now.     *)
Fresh == {i \in DOMAIN gclog : offset < i /\ i <= size}

(* Mutant: what is read is what the file has by now. *)
TailToEnd ==
  /\ wait = "tail"
  /\ LET hits == {i \in Fresh : gclog[i] >= triggers[nth].value}
     IN  IF hits # {} THEN Fire([kind |-> "gcpause", value |-> triggers[nth].value,
                                 gen |-> gen, line |-> Min(hits)])
                      ELSE Pass
  /\ offset' = Len(gclog)
  /\ UNCHANGED <<given, size, prev, ending, host, history>>

(* tail | head | awk; gc_offset is set whatever was found. *)
TailLog ==
  /\ wait = "tail"
  /\ LET hits == {i \in Fresh : gclog[i] >= triggers[nth].value}
     IN  IF hits # {} THEN Fire([kind |-> "gcpause", value |-> triggers[nth].value,
                                 gen |-> gen, line |-> Min(hits)])
                      ELSE Pass
  /\ offset' = size
  /\ UNCHANGED <<given, size, prev, ending, host, history>>

(* INT, TERM, HUP while waiting *)
Interrupt ==
  /\ Waiting /\ Die(130)
  /\ UNCHANGED <<given, nth, watch, fired, host, history>>

Next ==
  \/ Delay \/ Arm \/ Deadline \/ Alive \/ Sleep \/ CheckFile \/ CheckCpu \/ StatLog \/ TailLog
  \/ Interrupt \/ Pause \/ Rotate \/ TouchFile \/ TargetExits

Spec == Init /\ [][Next]_vars

-----------------------------------------------------------------------------
TypeOK ==
  /\ wait \in {"delay", "arm", "deadline", "alive", "sleep", "check", "tail", "go", "over"}
  /\ triggers \in Plans /\ nth \in 0..Len(triggers)
  /\ offset \in 0..MaxLines /\ size \in 0..MaxLines /\ ending \in {0, 4, 6, 130}
  /\ clock = Len(spent) /\ prev.time <= clock /\ prev.ticks <= ProcTicks
  /\ target \in {0, 1} /\ flagged \in {0, 1} /\ Len(gclog) <= MaxLines /\ gen \in 0..MaxGen
  /\ wait = "go" => fired # Nothing

(* What started the window is what the manifest says: a pause that long,   *)
(* logged after the collector was armed, however the log was rotated; or a *)
(* CPU use that high over at least the interval, within the wait.          *)
FiredIsTrue ==
  wait = "go" =>
    /\ fired.kind = "gcpause" =>
         /\ fired.gen = gen /\ gclog[fired.line] >= fired.value
         /\ gen = armed.gen => fired.line > armed.lines
    /\ fired.kind = "cpu" =>
         \E from \in armed.time..clock : /\ clock - from >= CpuInterval
                                         /\ Ticks(from, clock) * 100 >= fired.value * (clock - from)
    /\ fired.kind = "file" => flagged = 1

(* The pauses the round that ends here had to see: in the log when the     *)
(* round began, not before it was armed, and not in a file that was found  *)
(* as long as what was read of the one before it.                          *)
Owed ==
  IF mark.gen = gen /\ outgrown[2] = 0
  THEN {i \in 1..mark.lines : gen = armed.gen => i > armed.lines}
  ELSE {}

(* A round that ends with nothing has missed no pause: each line since the *)
(* arming of the log as it was when the round began was compared with the  *)
(* value of a gcpause trigger (the one, where only one is given).          *)
Heard(ms) == \E n \in DOMAIN triggers : triggers[n].kind = "gcpause" /\ ms < triggers[n].value

PauseIsHeard == wait = "deadline" /\ Has("gcpause") => \A i \in Owed : Heard(gclog[i])

FirstOfKind(kind) == triggers[Min({n \in DOMAIN triggers : triggers[n].kind = kind})]

(* A load that is sustained starts the window: if the process has used its *)
(* core throughout the longest time that two samples can span, less one,   *)
(* the (first) cpu trigger has seen it.                                    *)
LoadIsHeard ==
  LET span == 2 * CpuInterval + MaxSleep - 2
  IN  wait = "deadline" /\ Has("cpu") /\ target = 1 /\ FirstOfKind("cpu").value <= 100
          /\ clock - armed.time >= span
        => Ticks(clock - span, clock) < span

(* "--trigger SPEC start the window when a condition holds (repeatable;    *)
(* any one fires)" (collect.sh:30): no trigger misses a pause.             *)
AnyOneFires ==
  wait = "deadline" =>
    \A n \in DOMAIN triggers, i \in Owed : triggers[n].kind = "gcpause" => gclog[i] < triggers[n].value
=============================================================================
