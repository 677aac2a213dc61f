--------------------------- MODULE MCRotatingJfr ---------------------------
(* Three rounds with limits of two files and three units, recordings of up *)
(* to three units and a budget of two: both limits are met, alone and      *)
(* together, and a recording may grow over its budget.                     *)
EXTENDS RotatingJfr
=============================================================================
