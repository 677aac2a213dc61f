----------------------------- MODULE MCLabTune -----------------------------
(* A plan of three knobs: an IRQ affinity, a plain knob and the huge-page  *)
(* pool, so that a skip, an aborting failure and a short allocation occur  *)
(* at every position relative to one another.                              *)
EXTENDS LabTune

CONSTANTS irq, knob, huge, old, new, foreign

MCPaths == {irq, knob, huge}
MCPlan == <<knob, irq, huge>>
MCWanted == [p \in MCPaths |-> new]
=============================================================================
