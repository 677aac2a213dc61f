----------------------------- MODULE MCSupervise -----------------------------
(* A command with up to two helpers and an output that can pass its budget. *)
EXTENDS Supervise
=============================================================================
