----------------------- MODULE MCHierarchyIntegrator -----------------------
(***************************************************************************)
(* Instances of HierarchyIntegrator for TLC: an immersed boundary          *)
(* integrator on a Navier-Stokes solver on an advection-diffusion solver.  *)
(***************************************************************************)
EXTENDS HierarchyIntegrator

\* num_cycles of the three integrators: equal, parents with one cycle over
\* children with several, and a mismatch the code refuses.
AllCycles == [1..3 -> 1..3]
SameSteps == [i \in 1..3 |-> 4]
LongSteps == [i \in 1..2 |-> IF i = 1 THEN 6 ELSE 5]
EachOnce == {[i \in 1..2 |-> 1]}
=============================================================================
