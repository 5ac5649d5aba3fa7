------------------------- MODULE MCFACPreconditioner -------------------------
(* Instances of FACPreconditioner for TLC. *)
EXTENDS FACPreconditioner

Changes == {-1, 2}
AllOptions == [cycle : {"V", "W", "F"}, pre : {0, 1}, post : {0, 2}]
=============================================================================
