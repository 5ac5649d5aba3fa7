---------------------------- MODULE MCIBExplicit ----------------------------
(***************************************************************************)
(* Instances of IBExplicit for TLC: all time stepping types that the error *)
(* messages of the code list; FORWARD_EULER runs into undefined behaviour. *)
(***************************************************************************)
EXTENDS IBExplicit

AllSchemes == {"MIDPOINT_RULE", "TRAPEZOIDAL_RULE", "FORWARD_EULER"}
=============================================================================
