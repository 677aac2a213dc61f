------------------------------ MODULE MCRunners -----------------------------
(* A command that prints nothing, noise or a complete result. *)
EXTENDS Runners

MCOutputs == {<< <<>>, <<>> >>, << <<"noise">>, <<>> >>, << <<"full">>, <<>> >>}
=============================================================================
