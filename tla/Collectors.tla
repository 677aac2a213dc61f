------------------------------ MODULE Collectors ------------------------------
(***************************************************************************)
(* skills/java-offline-capture/assets/collector/collect.sh, lines 160-193: *)
(* with several --pid, a parent starts one collector for each in the       *)
(* background and waits for one after the other.                           *)
(*                                                                         *)
(* Until its trap is set a signal ends the parent and nobody else; from    *)
(* then on the trap passes it on as TERM, and a wait in progress is cut    *)
(* short with a status above 128.  What a collector does with TERM is in   *)
(* Collect and Triggers; here it may end at any point with any status.     *)
(* --dry-run ends before anything is started.                              *)
(***************************************************************************)
EXTENDS Naturals, FiniteSets

CONSTANTS
  Count,      (* the number of --pid                                       *)
  Refusals,   (* statuses of a plan that cannot be carried out             *)
  Failures,   (* statuses of a collector that did not do all it should     *)
  CutStatus,  (* status of a wait that a signal has ended: 128 and the signal *)
  MaxStops    (* bound: signals after the trap is set                      *)

VARIABLES
  parent,     (* plan, launch, wait; over, dead: killed by a signal        *)
  index,      (* the PID, or the child, of the loop                        *)
  worst,      (* status                                                    *)
  children,   (* off, runs, told (TERM), ended                             *)
  rc,         (* their exit statuses                                       *)
  stops       (* signals the trap has passed on                            *)

vars == <<parent, index, worst, children, rc, stops>>

Order == 1..Count
Larger(a, b) == IF a > b THEN a ELSE b

Init ==
  /\ parent = "plan" /\ index = 1 /\ worst = 0 /\ stops = 0
  /\ children = [n \in Order |-> "off"] /\ rc = [n \in Order |-> 0]

(* The dry run of one collector; the last failure is the status. *)
PlanOne ==
  /\ parent = "plan" /\ index \in Order /\ index' = index + 1
  /\ worst' \in {worst} \cup Refusals
  /\ UNCHANGED <<parent, children, rc, stops>>

(* All plans are possible, and the user agrees, or --yes; otherwise die. *)
Confirm ==
  /\ parent = "plan" /\ index > Count
  /\ \/ worst = 0 /\ parent' = "launch" /\ index' = 1 /\ UNCHANGED worst
     \/ parent' = "over" /\ worst' = Larger(worst, 1) /\ UNCHANGED index
  /\ UNCHANGED <<children, rc, stops>>

(* bash "$self" ... &                                                      *)
Launch ==
  /\ parent = "launch" /\ index \in Order /\ index' = index + 1
  /\ children' = [children EXCEPT ![index] = "runs"]
  /\ UNCHANGED <<parent, worst, rc, stops>>

(* trap 'kill -TERM ...' INT TERM HUP                                      *)
SetTrap ==
  /\ parent = "launch" /\ index > Count /\ parent' = "wait" /\ index' = 1
  /\ UNCHANGED <<worst, children, rc, stops>>

(* Mutant: the status is that of the last one. *)
WaitLast ==
  /\ parent = "wait" /\ index \in Order /\ children[index] = "ended"
  /\ worst' = rc[index] /\ index' = index + 1
  /\ UNCHANGED <<parent, children, rc, stops>>

(* wait "$c", also for one that has ended already                          *)
Wait ==
  /\ parent = "wait" /\ index \in Order /\ children[index] = "ended"
  /\ worst' = Larger(worst, rc[index]) /\ index' = index + 1
  /\ UNCHANGED <<parent, children, rc, stops>>

Leave ==
  /\ parent = "wait" /\ index > Count /\ parent' = "over"
  /\ UNCHANGED <<index, worst, children, rc, stops>>

(* A signal without a trap *)
Killed ==
  /\ parent \in {"plan", "launch"} /\ parent' = "dead"
  /\ UNCHANGED <<index, worst, children, rc, stops>>

PassOn == children' = [n \in Order |-> IF children[n] = "runs" THEN "told" ELSE children[n]]

(* Mutant: one wait for all of them. *)
CutAll ==
  /\ index \in Order /\ children[index] # "ended"
  /\ worst' = Larger(worst, CutStatus) /\ index' = Count + 1

(* The wait that the signal ends; the loop goes on with the next child. *)
Cut ==
  /\ index \in Order /\ children[index] # "ended"
  /\ worst' = Larger(worst, CutStatus) /\ index' = index + 1

Signal ==
  /\ parent = "wait" /\ stops < MaxStops /\ stops' = stops + 1
  /\ PassOn
  /\ Cut \/ UNCHANGED <<index, worst>>
  /\ UNCHANGED <<parent, rc>>

ChildEnds(n) ==
  /\ children[n] \in {"runs", "told"} /\ children' = [children EXCEPT ![n] = "ended"]
  /\ \E status \in {0} \cup Failures : rc' = [rc EXCEPT ![n] = status]
  /\ UNCHANGED <<parent, index, worst, stops>>

Next ==
  \/ PlanOne \/ Confirm \/ Launch \/ SetTrap \/ Wait \/ Leave \/ Killed \/ Signal
  \/ \E n \in Order : ChildEnds(n)

Spec == Init /\ [][Next]_vars

-----------------------------------------------------------------------------
TypeOK ==
  /\ parent \in {"plan", "launch", "wait", "over", "dead"} /\ index \in 1..Count + 1
  /\ worst \in {0, 1, CutStatus} \cup Refusals \cup Failures
  /\ children \in [Order -> {"off", "runs", "told", "ended"}]
  /\ rc \in [Order -> {0} \cup Failures] /\ stops \in 0..MaxStops

(* Exit 0 of the parent means that every collector has ended with 0,       *)
(* whatever signals came while it started or waited for them.              *)
ZeroIsAll ==
  parent = "over" /\ worst = 0 => \A n \in Order : children[n] = "ended" /\ rc[n] = 0

Going == {n \in Order : children[n] \in {"runs", "told"}}

(* A parent that ends by itself leaves no more collectors behind than it   *)
(* got signals, one for each wait that was cut short; each of these was    *)
(* told to end, and the status says so.                                    *)
FewLeftBehind ==
  parent = "over" =>
    /\ Cardinality(Going) <= stops
    /\ Going # {} => worst >= CutStatus /\ \A n \in Going : children[n] = "told"
=============================================================================
