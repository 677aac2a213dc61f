----------------------------- MODULE MCCollect -----------------------------
(* Five command lines, chosen so that each recording meets each outcome of *)
(* the scrub: a new recording next to the profiler with and without a jfr  *)
(* tool, a dumped recording, and a run whose archive is split.             *)
EXTENDS Collect

Run(mode, asprof, sampler, keep, tool, split) ==
  [mode |-> mode, asprof |-> asprof, sampler |-> sampler,
   keep |-> keep, tool |-> tool, split |-> split]

MCOptions ==
  {Run("none", TRUE, FALSE, FALSE, TRUE, FALSE),
   Run("new", FALSE, FALSE, FALSE, FALSE, FALSE),
   Run("dump", FALSE, TRUE, FALSE, FALSE, FALSE),
   Run("dump", FALSE, FALSE, FALSE, TRUE, TRUE),
   Run("new", FALSE, FALSE, TRUE, TRUE, FALSE)}
=============================================================================
