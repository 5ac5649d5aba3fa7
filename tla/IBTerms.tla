------------------------------- MODULE IBTerms -------------------------------
(***************************************************************************)
(* The values the immersed boundary schemes compute with, as terms.        *)
(*                                                                         *)
(* A position or a fluid velocity has a name <<step, number>>: the step    *)
(* that computed it and which result of that step it is.  The properties   *)
(* only ask which data a result was computed from, so a value is the term  *)
(* that produced it; a pair stands for the average of its two members, and *)
(* <<v, v>> for v itself.                                                  *)
(***************************************************************************)
EXTENDS Integers, Sequences

CONSTANTS
    TimeDependent,  \* the force function depends on the time explicitly
    Null            \* data that is not allocated, or was never computed

Names == Nat \X Nat

\* Positions of the structure, and fluid velocities.
Positions == Names \X Names

\* Fluid velocities interpolated to positions of the structure.
Velocities ==
    LET interpolated == [u : Positions, at : Positions]
    IN  interpolated \X interpolated

ASSUME NullAssumption == Null \notin Positions \cup Velocities

Same(v) == <<v, v>>

\* The average of two values that are not averages themselves
\* (IBMethod::reinitMidpointData, HierarchyDataOps::linearSum).
Mid(v, w) == <<v[1], w[1]>>

\* The fluid velocity u interpolated to the structure at positions x.
Interpolated(u, x) == Same([u |-> u, at |-> x])

\* The Lagrangian force at positions x with velocities v at time t.
ForceAt(x, v, t) == [x |-> x, v |-> v, t |-> t]

\* That force spread from positions x.
Spread(F, x) == [F |-> F, at |-> x]

\* Old, half and new time of step k + 1, in half steps; a force that does not
\* depend on the time explicitly sees one time only.
TimeOf(k, when) ==
    IF TimeDependent
    THEN 2 * k + (CASE when = "current" -> 0 [] when = "half" -> 1 [] when = "new" -> 2)
    ELSE 0

InitialPosition == Same(<<0, 0>>)
InitialFluid == Same(<<0, 0>>)

\* What a cycle did: the force applied, the fluid velocity it led to, that
\* velocity on the structure, and the velocity the structure was moved with.
CycleResult(f, u, v, via) == [f |-> f, u |-> u, v |-> v, via |-> via]
=============================================================================
