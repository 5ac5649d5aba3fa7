--------------------------- MODULE MCRegridControl ---------------------------
(* Instances of RegridControl for TLC: a cell is a few units wide. *)
EXTENDS RegridControl
=============================================================================
