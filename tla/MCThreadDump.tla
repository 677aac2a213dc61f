---------------------------- MODULE MCThreadDump ----------------------------
(* Three threads and one monitor. *)
EXTENDS ThreadDump

MCNames == <<"waiter", "worker", "other">>
=============================================================================
