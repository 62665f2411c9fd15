------------------------------ MODULE MCSheet ------------------------------
(***************************************************************************)
(* Sheet for TLC: from 1 to 31 by 4 with the default on no step, so that    *)
(* the roundings of slider and store differ.                               *)
(***************************************************************************)
EXTENDS Sheet

MCInputs == {-1, 3, 8, 17, 24, 50}

=============================================================================
