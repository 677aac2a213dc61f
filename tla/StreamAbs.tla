----------------------------- MODULE StreamAbs -----------------------------
(***************************************************************************)
(* One direction of a byte stream that may be cut but never reordered: the *)
(* n-th chunk received is the n-th chunk sent.  DelayProxy.tla is shown to *)
(* implement this module in each direction.                                *)
(***************************************************************************)
EXTENDS Naturals, Sequences

VARIABLES
  sent,      (* how many chunks have been sent; the n-th one is n *)
  received   (* the chunks received                               *)

vars == <<sent, received>>

Init == sent = 0 /\ received = <<>>

Send == sent' = sent + 1 /\ UNCHANGED received

Receive ==
  /\ Len(received) < sent
  /\ received' = Append(received, Len(received) + 1)
  /\ UNCHANGED sent

Next == Send \/ Receive

Spec == Init /\ [][Next]_vars
=============================================================================
