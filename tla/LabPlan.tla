------------------------------- MODULE LabPlan ------------------------------
(***************************************************************************)
(* skills/linux-low-latency-tuning/scripts/make-lab-plan.py: a plan for    *)
(* lab-tune.sh is made from the values that the host shows, one file after *)
(* the other, while irqbalance may move an IRQ; later the plan is applied. *)
(* `apply` is one step here and succeeds or changes nothing; LabTune has   *)
(* its steps.                                                              *)
(*                                                                         *)
(* What a file shows is a sequence: the ranges <<first, last>> of a CPU    *)
(* list, the words of a mask, or one number or name; an absent file shows  *)
(* nothing.  A word of a mask is the set of its bits with the number of    *)
(* digits it is printed with.                                              *)
(***************************************************************************)
EXTENDS Integers, Sequences, FiniteSets, FiniteSetsExt

CONSTANTS
  Cpus,         (* 0..n, the CPUs the kernel provides for                  *)
  WordBits,     (* 32                                                      *)
  DigitBits,    (* 4                                                       *)
  Irqs,         (* 1..n                                                    *)
  Managed,      (* those whose affinity the kernel refuses to change       *)
  Affinities,   (* the affinities met                                      *)
  IdleStates,   (* 1..n                                                    *)
  Deep,         (* those with an exit latency of IDLE_LATENCY_US or more   *)
  CpuLists,     (* what --cpus and --housekeeping may be                   *)
  MaxMoves      (* bound: IRQs moved                                       *)

VARIABLES
  step,         (* what is done next                                       *)
  args,         (* profile, --cpus, --housekeeping                         *)
  host,         (* what the kernel shows in each file                      *)
  todo,         (* the files still to look at                              *)
  plan,         (* the lines "set KNOB VALUE", with what the file showed   *)
  moves

vars == <<step, args, host, todo, plan, moves>>

-----------------------------------------------------------------------------
(* CPU lists and masks *)

InOrder(s) == [i \in 1..Cardinality(s) |-> CHOOSE c \in s : Cardinality({d \in s : d < c}) = i - 1]

(* Mutant: a CPU named twice is listed twice. *)
ExpandAsListed(list) ==
  FoldFunction(LAMBDA some, all : some \o all, <<>>,
               [i \in DOMAIN list |-> InOrder(list[i][1]..list[i][2])])

(* expand: the CPUs in order *)
Expand(list) == InOrder(UNION {list[i][1]..list[i][2] : i \in DOMAIN list})

(* compact: the maximal ranges in order; the kernel prints lists like this.*)
Compact(s) ==
  LET firsts == InOrder({c \in s : c - 1 \notin s})
      last(c) == Min({d \in s : d >= c /\ d + 1 \notin s})
  IN  [i \in DOMAIN firsts |-> <<firsts[i], last(firsts[i])>>]

Digits(bits) == (bits + DigitBits - 1) \div DigitBits
WordOf(s, w) == {c % WordBits : c \in {x \in s : x \div WordBits = w}}

(* n bits in words, the most significant one first *)
MaskText(s, n) ==
  LET top == (n - 1) \div WordBits
  IN  [i \in 1..top + 1 |->
         [digits |-> Digits(IF i = 1 THEN n - top * WordBits ELSE WordBits),
          bits |-> WordOf(s, top + 1 - i)]]

(* hexmask: as many digits as the highest CPU of the list needs            *)
HexMask(s) == MaskText(s, Max(s) + 1)

(* The kernel prints a mask with a digit for every CPU it provides for.    *)
KernelMask(s) == MaskText(s, Cardinality(Cpus))

MaskCpus(text) ==
  UNION {{(Len(text) - i) * WordBits + b : b \in text[i].bits} : i \in DOMAIN text}

-----------------------------------------------------------------------------
(* The host *)

Absent == <<>>
ProfileNames == {"benchmark-host", "irq-isolation", "quiet-watchdogs"}

Governors == {<<"governor", c>> : c \in Cpus}
IdleKnobs == {<<"idle", c, s>> : c \in Cpus, s \in IdleStates}
Thp == <<<<"thp", "enabled">>, <<"thp", "defrag">>>>
Switches == <<<<"switch", "numa_balancing">>, <<"switch", "ksm">>, <<"switch", "timer_migration">>>>
Stat == <<"stat_interval">>
IrqKnob(i) == <<"irq", i>>
Workqueue == <<"workqueue">>
Watchdog == <<"watchdog">>
Nmi == <<"nmi_watchdog">>
Knobs == Governors \cup IdleKnobs \cup Range(Thp) \cup Range(Switches)
         \cup {IrqKnob(i) : i \in Irqs} \cup {Stat, Workqueue, Watchdog, Nmi}

(* What files may show, where the profile looks at them                    *)
ShownIf(profiles, values) == {Absent} \cup (IF args.profile \in profiles THEN values ELSE {})

Init ==
  /\ args \in [profile : ProfileNames, cpus : CpuLists, housekeeping : CpuLists \cup {<<>>}]
  /\ \E governor \in ShownIf({"benchmark-host"}, {<<"powersave">>, <<"performance">>}),
        disable \in ShownIf({"benchmark-host"}, {<<0>>, <<1>>}),
        thp \in ShownIf({"benchmark-host"}, {<<"always">>, <<"madvise">>, <<"never">>}),
        switch \in ShownIf({"benchmark-host"}, {<<0>>, <<1>>, <<2>>}),
        interval \in ShownIf({"benchmark-host"}, {<<0>>, <<1>>, <<10>>, <<20>>}),
        nmi \in ShownIf({"quiet-watchdogs"}, {<<0>>, <<1>>}),
        mask \in ShownIf({"irq-isolation"}, {KernelMask(s) : s \in Affinities}),
        watchdog \in ShownIf({"irq-isolation", "quiet-watchdogs"}, {Compact(s) : s \in Affinities}),
        irq \in [Irqs -> ShownIf({"irq-isolation"}, {Compact(s) : s \in Affinities})] :
       host = [k \in Knobs |->
                 CASE k[1] = "governor" -> governor
                   [] k[1] = "idle" -> disable
                   [] k[1] = "thp" -> thp
                   [] k[1] = "switch" -> IF k[2] = "timer_migration" /\ switch = <<2>> THEN <<1>> ELSE switch
                   [] k = Stat -> interval
                   [] k = Nmi -> nmi
                   [] k = Workqueue -> mask
                   [] k = Watchdog -> watchdog
                   [] k[1] = "irq" -> irq[k[2]]]
  /\ step = "start" /\ todo = <<>> /\ plan = <<>> /\ moves = 0

IrqMoves ==
  /\ step \in {"plan", "apply"} /\ moves < MaxMoves /\ moves' = moves + 1
  /\ \E i \in Irqs \ Managed, s \in Affinities :
       host[IrqKnob(i)] # Absent /\ host' = [host EXCEPT ![IrqKnob(i)] = Compact(s)]
  /\ UNCHANGED <<step, args, todo, plan>>

-----------------------------------------------------------------------------
(* make-lab-plan.py *)

Hot == Expand(args.cpus)
Housekeeping == Expand(args.housekeeping)

(* main's refusals; every CPU of the host is online. *)
Refused ==
  \/ Range(Hot) \cap Range(Housekeeping) # {}
  \/ ~(Range(Hot) \subseteq Cpus)
  \/ args.profile = "irq-isolation" /\ Housekeeping = <<>>

(* CPU by CPU, its governor and then its idle states                       *)
CpuFiles ==
  LET n == Cardinality(IdleStates) + 1
  IN  [i \in 1..Len(Hot) * n |->
         LET c == Hot[(i - 1) \div n + 1]
             s == (i - 1) % n
         IN  IF s = 0 THEN <<"governor", c>> ELSE <<"idle", c, s>>]

(* The files in the order in which each profile looks at them              *)
Looks ==
  CASE args.profile = "benchmark-host" ->
         CpuFiles \o Thp \o Switches \o <<Stat>>
    [] args.profile = "irq-isolation" ->
         [i \in Irqs |-> IrqKnob(i)] \o <<Workqueue, Watchdog>>
    [] args.profile = "quiet-watchdogs" ->
         <<Nmi>> \o (IF Housekeeping = <<>> THEN <<>> ELSE <<Watchdog>>)

(* What a profile asks of a file before it plans it *)
Applies(k) ==
  CASE k[1] = "idle" -> k[3] \in Deep
    [] k[1] = "thp" -> host[k] = <<"always">>
    [] k[1] = "stat_interval" -> host[k] # Absent /\ host[k][1] < 10
    [] k[1] = "irq" -> Range(Expand(host[k])) \cap Range(Hot) # {}
    [] OTHER -> TRUE

Value(k) ==
  CASE k[1] = "governor" -> <<"performance">>
    [] k[1] = "idle" -> <<1>>
    [] k[1] = "thp" -> <<"madvise">>
    [] k[1] \in {"switch", "nmi_watchdog"} -> <<0>>
    [] k[1] = "stat_interval" -> <<10>>
    [] k[1] = "workqueue" -> HexMask(Range(Housekeeping))
    [] k[1] \in {"irq", "watchdog"} -> Compact(Range(Housekeeping))

Start ==
  /\ step = "start"
  /\ IF Refused THEN step' = "usage" /\ UNCHANGED todo ELSE step' = "plan" /\ todo' = Looks
  /\ UNCHANGED <<args, host, plan, moves>>

(* Mutant: what a file shows already is planned, too. *)
WantsAll(k) == Applies(k) /\ host[k] # Absent

(* Plan.set: the file is there and shows something else.                   *)
Wants(k) == Applies(k) /\ host[k] # Absent /\ host[k] # Value(k)

LookAtFile ==
  /\ step = "plan" /\ todo # <<>> /\ todo' = Tail(todo)
  /\ LET k == Head(todo)
     IN  plan' = IF Wants(k) THEN Append(plan, [knob |-> k, value |-> Value(k), shown |-> host[k]])
                 ELSE plan
  /\ UNCHANGED <<step, args, host, moves>>

PrintPlan ==
  /\ step = "plan" /\ todo = <<>> /\ step' = "apply"
  /\ UNCHANGED <<args, host, todo, plan, moves>>

-----------------------------------------------------------------------------
(* lab-tune.sh apply *)

(* allowlist, check_entry: what may be written to a file. *)
Allowed(k, value) ==
  /\ value # Absent
  /\ k[1] = "governor" => value[1] \in {"performance", "powersave", "schedutil", "ondemand",
                                        "conservative", "userspace"}
  /\ k[1] = "thp" => value[1] \in {"always", "madvise", "never"}
                                  \cup (IF k[2] = "defrag" THEN {"defer", "defer+madvise"} ELSE {})
  /\ k[1] \in {"idle", "nmi_watchdog"} => value[1] \in 0..1
  /\ k[1] = "switch" => value[1] \in 0..(IF k[2] = "numa_balancing" THEN 3 ELSE 1)
  /\ k[1] = "stat_interval" => value[1] \in 1..9999

(* load_plan: at least one entry, each of them allowed, no path twice *)
Accepted ==
  /\ plan # <<>> /\ \A a \in DOMAIN plan : Allowed(plan[a].knob, plan[a].value)
  /\ \A a, b \in DOMAIN plan : plan[a].knob = plan[b].knob => a = b

(* Nothing is written unless `rollback` may write back what is shown now.  *)
Restorable == \A a \in DOMAIN plan : Allowed(plan[a].knob, host[plan[a].knob])

(* What a file shows once the kernel has taken a value *)
Taken(line) ==
  CASE line.knob[1] = "workqueue" -> KernelMask(MaskCpus(line.value))
    [] line.knob[1] \in {"irq", "watchdog"} -> Compact(Range(Expand(line.value)))
    [] OTHER -> line.value

IsSkipped(line) == \E i \in Managed : line.knob = IrqKnob(i)

(* verify_value compares what was written with what the file shows.        *)
Verifies(line) == IsSkipped(line) \/ Taken(line) = line.value

Apply ==
  /\ step = "apply"
  /\ IF Accepted /\ Restorable /\ \A i \in DOMAIN plan : Verifies(plan[i])
     THEN /\ step' = "applied"
          /\ host' = [k \in Knobs |->
                        IF \E i \in DOMAIN plan : plan[i].knob = k /\ ~IsSkipped(plan[i])
                        THEN Taken(plan[CHOOSE i \in DOMAIN plan : plan[i].knob = k]) ELSE host[k]]
     ELSE /\ UNCHANGED host
          /\ step' = IF ~Accepted THEN "rejected" ELSE IF Restorable THEN "undone" ELSE "refused"
  /\ UNCHANGED <<args, todo, plan, moves>>

Next == IrqMoves \/ Start \/ LookAtFile \/ PrintPlan \/ Apply

Spec == Init /\ [][Next]_vars

-----------------------------------------------------------------------------
TypeOK ==
  /\ step \in {"start", "usage", "plan", "apply", "applied", "rejected", "refused", "undone"}
  /\ DOMAIN host = Knobs /\ moves \in 0..MaxMoves
  /\ \A i \in DOMAIN plan : plan[i].knob \in Knobs

(* Whatever lists were given, a plan that has an entry is one that         *)
(* lab-tune.sh takes.                                                      *)
PlanIsAccepted == plan # <<>> => Accepted

(* A plan that was applied does what the profile promises: no unmanaged    *)
(* IRQ, unbound workqueue or watchdog that was not moved meanwhile is left *)
(* on a hot CPU, and looking at the same files again finds nothing to      *)
(* plan, but for the IRQs whose affinity the kernel refuses to change.     *)
AppliedIsIsolated ==
  step = "applied" /\ moves = 0 =>
    /\ args.profile = "irq-isolation" =>
         /\ \A i \in Irqs \ Managed : Range(Expand(host[IrqKnob(i)])) \cap Range(Hot) = {}
         /\ MaskCpus(host[Workqueue]) \cap Range(Hot) = {}
         /\ Range(Expand(host[Watchdog])) \cap Range(Hot) = {}
    /\ \A i \in DOMAIN Looks :
         Wants(Looks[i]) => \E m \in Managed : Looks[i] = IrqKnob(m)

(* "Only lines ... whose value would change are emitted, so the plan is a  *)
(* precise diff for this host" (make-lab-plan.py:11-12).                   *)
PlanIsADiff == \A i \in DOMAIN plan : Taken(plan[i]) # plan[i].shown
=============================================================================
