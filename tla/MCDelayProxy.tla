---------------------------- MODULE MCDelayProxy ----------------------------
(* A queue and kernel buffers of one chunk, two chunks up and one down:    *)
(* every stage of a direction can be full while the next chunk waits.      *)
EXTENDS DelayProxy

MCMaxChunks == [d \in Dirs |-> IF d = "up" THEN 2 ELSE 1]
=============================================================================
