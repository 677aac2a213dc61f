----------------------------- MODULE MCTriggers -----------------------------
(* Triggers of one kind, in the order of falling and of rising values. *)
EXTENDS Triggers

GcPause(ms) == [kind |-> "gcpause", value |-> ms]
MCPlans == {<<GcPause(2), GcPause(1)>>, <<GcPause(1), GcPause(2)>>}
=============================================================================
