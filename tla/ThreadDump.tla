----------------------------- MODULE ThreadDump -----------------------------
(***************************************************************************)
(* skills/java-offline-capture/scripts/analyze-bundle.py: what             *)
(* parse_thread_dump, section_thread_dumps and hot_stacks say of the Java  *)
(* threads and monitors in the thread dumps of a bundle.                   *)
(*                                                                         *)
(* Java threads start and end, enter, leave and wait on monitors.  A dump  *)
(* is taken at a safepoint, hence at once, and prints what HotSpot prints: *)
(* a thread in Object.wait() still shows "- locked" at the frame that      *)
(* entered the monitor, though it has released it, and a thread that was   *)
(* notified shows "- waiting to re-lock in wait()".                        *)
(***************************************************************************)
EXTENDS Naturals, Sequences, FiniteSets

CONSTANTS
  Threads,   (* 1..n, in the order in which a dump lists them              *)
  NameOf,    (* thread -> name; names need not differ                      *)
  Monitors,
  MaxDumps   (* bound: dumps                                               *)

VARIABLES
  state,     (* thread -> its Java state                                   *)
  entered,   (* thread -> monitors whose synchronized frames it is in      *)
  on,        (* thread -> the monitor it is blocked or waits on, NoMonitor *)
  frame,     (* thread -> its top frame                                    *)
  dumps

vars == <<state, entered, on, frame, dumps>>

NoMonitor == "none"
StackFrames == {"work", "poll"}
IdleFrames == {"poll"}

(* The last thread has yet to start. *)
Init ==
  /\ state = [t \in Threads |-> IF t = Cardinality(Threads) THEN "NEW" ELSE "RUNNABLE"]
  /\ entered = [t \in Threads |-> {}]
  /\ on = [t \in Threads |-> NoMonitor] /\ frame = [t \in Threads |-> "work"]
  /\ dumps = <<>>

-----------------------------------------------------------------------------
(* The Java threads *)

(* A monitor belongs to the thread that entered it and is not waiting for  *)
(* it, before or after a notification.                                     *)
Holds(t, m) == m \in entered[t] /\ on[t] # m
Free(m) == \A t \in Threads : ~Holds(t, m)

(* After a wait a thread runs on at any frame, by a step of its own.       *)
Put(t, s, m, e) ==
  /\ state' = [state EXCEPT ![t] = s] /\ on' = [on EXCEPT ![t] = m]
  /\ entered' = [entered EXCEPT ![t] = e]
  /\ frame' = IF s = "RUNNABLE" THEN frame ELSE [frame EXCEPT ![t] = "work"]
  /\ UNCHANGED dumps

Start(t) == state[t] = "NEW" /\ Put(t, "RUNNABLE", NoMonitor, {})

End(t) == state[t] = "RUNNABLE" /\ entered[t] = {} /\ Put(t, "TERMINATED", NoMonitor, {})

Enter(t, m) ==
  /\ state[t] = "RUNNABLE" /\ m \notin entered[t]
  /\ IF Free(m) THEN Put(t, "RUNNABLE", NoMonitor, entered[t] \cup {m})
     ELSE Put(t, "BLOCKED", m, entered[t])

(* A blocked thread gets the monitor it wanted, again or for the first time.*)
Acquire(t) ==
  /\ state[t] = "BLOCKED" /\ Free(on[t])
  /\ Put(t, "RUNNABLE", NoMonitor, entered[t] \cup {on[t]})

Exit(t, m) ==
  /\ state[t] = "RUNNABLE" /\ Holds(t, m)
  /\ Put(t, "RUNNABLE", NoMonitor, entered[t] \ {m})

Wait(t, m) ==
  /\ state[t] = "RUNNABLE" /\ Holds(t, m)
  /\ Put(t, "WAITING", m, entered[t])

(* Notified, interrupted or timed out *)
Notified(t) == state[t] = "WAITING" /\ Put(t, "BLOCKED", on[t], entered[t])

Step(t) ==
  /\ state[t] = "RUNNABLE" /\ \E f \in StackFrames \ {frame[t]} : frame' = [frame EXCEPT ![t] = f]
  /\ UNCHANGED <<state, entered, on, dumps>>

-----------------------------------------------------------------------------
(* The dump and parse_thread_dump *)

(* The top frame of a thread that is blocked or waits is the call where it *)
(* does so.                                                                *)
TopFrame(t) == IF state[t] = "RUNNABLE" THEN frame[t] ELSE on[t]

Block(t) ==
  [name |-> NameOf[t], nid |-> t, state |-> state[t], frame |-> TopFrame(t),
   locked |-> entered[t],
   waiting |-> IF state[t] = "BLOCKED" /\ on[t] \notin entered[t] THEN {on[t]} ELSE {}]

Listed == {t \in Threads : state[t] \notin {"NEW", "TERMINATED"}}

(* with the truth at that moment *)
Dump ==
  /\ dumps' = Append(dumps, [block |-> [t \in Listed |-> Block(t)],
                             holder |-> [m \in Monitors |-> {t \in Threads : Holds(t, m)}],
                             waits |-> [m \in Monitors |-> {t \in Threads : m \in entered[t] /\ on[t] = m}]])
  /\ UNCHANGED <<state, entered, on, frame>>

(* Nothing is observed after the last dump. *)
Next ==
  /\ Len(dumps) < MaxDumps
  /\ \/ \E t \in Threads : Start(t) \/ End(t) \/ Acquire(t) \/ Notified(t) \/ Step(t)
     \/ \E t \in Threads, m \in Monitors : Enter(t, m) \/ Exit(t, m) \/ Wait(t, m)
     \/ Dump

Spec == Init /\ [][Next]_vars

-----------------------------------------------------------------------------
(* section_thread_dumps *)

Waiters(d, m) == {t \in DOMAIN d.block : m \in d.block[t].waiting}
Contended(d) == {m \in Monitors : Waiters(d, m) # {}}

(* Mutant: the first thread that shows a lock it has or wants owns it. *)
OwnerOfAny(d, m) ==
  LET show == {t \in DOMAIN d.block : m \in d.block[t].locked \cup d.block[t].waiting}
  IN  IF show = {} THEN {} ELSE {d.block[CHOOSE t \in show : \A u \in show : t <= u].name}

(* owners[lock] = name: the last thread of the dump that shows "- locked"; *)
(* {} for "unknown"                                                        *)
Owner(d, m) ==
  LET show == {t \in DOMAIN d.block : m \in d.block[t].locked}
  IN  IF show = {} THEN {} ELSE {d.block[CHOOSE t \in show : \A u \in show : u <= t].name}

(* Mutant: the threads are told apart by their names alone. *)
SameByName(a, b) == a.name = b.name

Same(a, b) == a.name = b.name /\ a.nid = b.nid

(* The same busy or blocked stack in every dump                            *)
Stuck ==
  IF Len(dumps) < 2 THEN {}
  ELSE {t \in DOMAIN dumps[1].block :
          LET a == dumps[1].block[t]
              Found(d) == {u \in DOMAIN d.block : Same(d.block[u], a)}
          IN  /\ a.state \in {"RUNNABLE", "BLOCKED"} /\ a.frame \notin IdleFrames
              /\ \A i \in 2..Len(dumps) :
                   /\ Found(dumps[i]) # {}
                   /\ LET b == dumps[i].block[CHOOSE u \in Found(dumps[i]) :
                                                \A v \in Found(dumps[i]) : u <= v]
                      IN  b.frame = a.frame /\ b.state = a.state}

(* hot_stacks: "Same top frames in every dump", of the dumps that list the *)
(* native id                                                               *)
With(nid) == {i \in DOMAIN dumps : nid \in DOMAIN dumps[i].block}
SameTopFrames(nid) ==
  /\ Cardinality(With(nid)) > 1
  /\ \A i, j \in With(nid) : dumps[i].block[nid].frame = dumps[j].block[nid].frame

-----------------------------------------------------------------------------
TypeOK ==
  /\ \A t \in Threads :
       /\ state[t] \in {"NEW", "RUNNABLE", "BLOCKED", "WAITING", "TERMINATED"}
       /\ entered[t] \subseteq Monitors /\ on[t] \in Monitors \cup {NoMonitor}
       /\ (state[t] \in {"BLOCKED", "WAITING"} <=> on[t] # NoMonitor)
       /\ frame[t] \in StackFrames
  /\ \A m \in Monitors : Cardinality({t \in Threads : Holds(t, m)}) <= 1
  /\ Len(dumps) <= MaxDumps

Names(s) == {NameOf[t] : t \in s}

(* In a dump in which no thread waits on the monitor with Object.wait(),   *)
(* the owner the report names for a contended monitor is the thread that   *)
(* holds it, or "unknown" while it passes from one thread to the next.     *)
OwnerIsHolder ==
  \A i \in DOMAIN dumps : \A m \in Contended(dumps[i]) :
    dumps[i].waits[m] = {} => Owner(dumps[i], m) = Names(dumps[i].holder[m])

(* A thread is reported as stuck only when that very thread is in every    *)
(* dump with the same stack, even among threads of one name that come and  *)
(* go.  The section on hot threads, which matches by native id alone, says *)
(* the same of it, and of nobody else unless it waits or idles there, or   *)
(* came into that stack anew, or is missing from a dump.                   *)
StuckIsSameThread ==
  /\ \A t \in Stuck : \A i \in DOMAIN dumps :
       /\ t \in DOMAIN dumps[i].block
       /\ dumps[i].block[t].frame = dumps[1].block[t].frame
       /\ dumps[i].block[t].state = dumps[1].block[t].state
  /\ \A t \in Threads :
       /\ t \in Stuck => SameTopFrames(t)
       /\ SameTopFrames(t) /\ t \notin Stuck =>
            \E i \in DOMAIN dumps :
              t \in DOMAIN dumps[i].block =>
                LET b == dumps[i].block[t]
                IN  b.state = "WAITING" \/ b.frame \in IdleFrames \/ b.state # dumps[1].block[t].state

(* "show lock owners" (references/capture-plans.md:81): the thread that is *)
(* named as the holder of a contended monitor holds it.                    *)
OwnerIsTrue ==
  \A i \in DOMAIN dumps : \A m \in Contended(dumps[i]) :
    Owner(dumps[i], m) \subseteq Names(dumps[i].holder[m])
=============================================================================
