------------------------------- MODULE MCTools ------------------------------
(* The small values each tool is checked with; numbers and plain sets are  *)
(* in the configuration.                                                   *)
EXTENDS Tools

(* Latency, LabPlan and Triggers take sets of sequences, GcLog and Install *)
(* functions, ThreadDump a sequence.                                       *)

(* Three threads, two of one name. *)
MCNameOf == <<"a", "b", "b">>

(* Up to three pauses of one JVM in up to two files. *)
MCMaxUp == [Parallel |-> 2, G1 |-> 2, Shenandoah |-> 1, ZGC |-> 2]
MCMaxPauses == [Parallel |-> 3, G1 |-> 2, Shenandoah |-> 2, ZGC |-> 2]
MCMaxIds == [Parallel |-> 3, G1 |-> 2, Shenandoah |-> 3, ZGC |-> 1]

(* What a command prints: nothing, noise, a complete result on one of its  *)
(* two streams, two results, the result of work cut short.                 *)
MCOutputs ==
  {<< <<>>, <<>> >>, << <<"noise">>, <<>> >>, << <<"full">>, <<>> >>, << <<>>, <<"full">> >>,
   << <<"short", "full">>, <<>> >>, << <<"full", "other">>, <<>> >>,
   << <<"other">>, <<"short">> >>}

(* Lists that are in order, repeat a CPU, run backwards or are too high.   *)
MCCpuLists ==
  {<< <<2, 3>> >>, << <<3, 3>>, <<3, 3>>, <<2, 2>> >>, << <<3, 2>> >>, << <<3, 4>> >>,
   << <<0, 0>>, <<1, 1>> >>}

(* A trigger of each kind and two of one kind in either order.             *)
MCPlans ==
  {<<>>, <<[kind |-> "gcpause", value |-> 2]>>,
   <<[kind |-> "gcpause", value |-> 1], [kind |-> "gcpause", value |-> 2]>>,
   <<[kind |-> "gcpause", value |-> 2], [kind |-> "gcpause", value |-> 1]>>,
   <<[kind |-> "cpu", value |-> 100], [kind |-> "cpu", value |-> 50]>>,
   <<[kind |-> "file", value |-> 0], [kind |-> "gcpause", value |-> 1]>>}

(* Three skills, one of which requires another. *)
MCRequires == [n \in {"a", "b", "r"} |-> IF n = "a" THEN {"b"} ELSE {}]
=============================================================================
