----------------------------- MODULE LabTuneAbs -----------------------------
(***************************************************************************)
(* What a lab-tune state directory promises, whatever the shell script     *)
(* does between two system calls: it is a write-ahead log of the host.     *)
(*                                                                         *)
(*   - a knob is changed only while the log holds the value it had;        *)
(*   - a line leaves the log only while the knob holds that value;         *)
(*   - once the directory is marked as rolled back, this session never     *)
(*     touches the host or the log again.                                  *)
(*                                                                         *)
(* LabTune.tla is shown to implement this module.                          *)
(***************************************************************************)

CONSTANTS
  Paths,   (* the tunable files of the host *)
  Values   (* the values a file can hold    *)

VARIABLES
  live,    (* live[p]: what the host holds in p         *)
  saved,   (* the lines <<p, v>> of the log             *)
  marked   (* the log is marked as rolled back          *)

vars == <<live, saved, marked>>

Init ==
  /\ live \in [Paths -> Values]
  /\ saved = {}
  /\ marked = FALSE

(* Write the present value of p to the log. *)
Save(p) ==
  /\ ~marked
  /\ saved' = saved \cup {<<p, live[p]>>}
  /\ UNCHANGED <<live, marked>>

(* Change a knob the log protects, or put it back: to the log it is the same. *)
Touch(p) ==
  /\ ~marked
  /\ \E v \in Values : <<p, v>> \in saved
  /\ \E w \in Values : live' = [live EXCEPT ![p] = w]
  /\ UNCHANGED <<saved, marked>>

(* Take a line out of the log: the knob holds the value of that line. *)
Forget(p) ==
  /\ ~marked
  /\ <<p, live[p]>> \in saved
  /\ saved' = saved \ {<<p, live[p]>>}
  /\ UNCHANGED <<live, marked>>

Mark ==
  /\ marked' = TRUE
  /\ UNCHANGED <<live, saved>>

Next ==
  \/ \E p \in Paths : Save(p) \/ Touch(p) \/ Forget(p)
  \/ Mark

Spec == Init /\ [][Next]_vars
=============================================================================
