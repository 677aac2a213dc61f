------------------------------ MODULE MCLabPlan -----------------------------
(* Eight CPUs in one word of two digits. *)
EXTENDS LabPlan

MCAffinities == {{0, 1}, 0..7}
MCLists == {<< <<0, 1>> >>, << <<4, 7>> >>}
=============================================================================
