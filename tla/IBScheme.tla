------------------------------ MODULE IBScheme ------------------------------
(***************************************************************************)
(* What one step of the immersed boundary method computes, without the     *)
(* data structures that compute it: the fixed-point iteration that the     *)
(* interface IBStrategy and its user IBExplicitHierarchyIntegrator         *)
(* promise.                                                                *)
(*                                                                         *)
(* In a step the structure moves from xn to x.  Every cycle spreads the    *)
(* force of the current guess of x, solves for the fluid velocity,         *)
(* interpolates it back at the positions the force was spread from, and    *)
(* improves x.  Everything is computed from the latest values: nothing is  *)
(* cached, exchanged between processors, redistributed or restarted.       *)
(***************************************************************************)
EXTENDS IBTerms

CONSTANTS
    Schemes,        \* values of time_stepping_type
    Cycles,         \* numbers of cycles per step
    MaxSteps        \* bound on the number of steps

VARIABLES
    scheme,         \* time_stepping_type
    nc,             \* number of cycles of every step
    stepping,       \* a step is under way
    n,              \* number of steps done
    cycle,          \* cycles done in this step
    xn, vn, un,     \* positions, structure and fluid velocity at the old time
    x,              \* guess of the positions at the new time
    last            \* result of the last cycle

svars == <<scheme, nc, stepping, n, cycle, xn, vn, un, x, last>>

\* A step begins with the old velocities; with a single cycle the positions
\* are predicted by forward Euler.
Begin ==
    /\ ~stepping
    /\ n < MaxSteps
    /\ stepping' = TRUE
    /\ cycle' = 0
    /\ x' = IF nc = 1 THEN Same(<<n + 1, 0>>) ELSE xn
    /\ last' = CycleResult(<<>>, un, vn, IF nc = 1 THEN vn ELSE Null)
    /\ UNCHANGED <<scheme, nc, n, xn, vn, un>>

\* With several cycles the first one takes a forward Euler step.
FirstOfMany == nc > 1 /\ cycle = 0

\* The fluid velocity that the next cycle computes.
NextFluid == Same(<<n + 1, cycle + 1>>)

\* Force, spreading and interpolation at the midpoint.
MidpointCycle ==
    /\ scheme = "MIDPOINT_RULE"
    /\ LET xh == Mid(xn, x)
           F == ForceAt(xh, IF cycle = 0 THEN Mid(vn, vn) ELSE last.v, TimeOf(n, "half"))
           v == Interpolated(Mid(un, NextFluid), xh)
       IN  last' = CycleResult(<<Spread(F, xh)>>, NextFluid, v, IF FirstOfMany THEN vn ELSE v)

\* The averages of the forces and of the velocities at both ends.
TrapezoidalCycle ==
    /\ scheme = "TRAPEZOIDAL_RULE"
    /\ LET F0 == ForceAt(xn, vn, TimeOf(n, "current"))
           F1 == ForceAt(x, last.v, TimeOf(n, "new"))
           v == Interpolated(NextFluid, x)
       IN  last' = CycleResult(
                       IF FirstOfMany THEN <<Spread(F0, xn)>>
                       ELSE <<Spread(F0, xn), Spread(F1, x)>>,
                       NextFluid, v, IF FirstOfMany THEN vn ELSE Mid(vn, v))

Cycle ==
    /\ stepping
    /\ cycle < nc
    /\ cycle' = cycle + 1
    /\ x' = Same(<<n + 1, cycle + 1>>)
    /\ MidpointCycle \/ TrapezoidalCycle
    /\ UNCHANGED <<scheme, nc, stepping, n, xn, vn, un>>

End ==
    /\ stepping
    /\ cycle = nc
    /\ stepping' = FALSE
    /\ n' = n + 1
    /\ xn' = x
    /\ un' = last.u
    /\ vn' = Interpolated(last.u, x)
    /\ UNCHANGED <<scheme, nc, cycle, x, last>>

SInit ==
    /\ scheme \in Schemes
    /\ nc \in Cycles
    /\ stepping = FALSE
    /\ n = 0
    /\ cycle = 0
    /\ xn = InitialPosition
    /\ un = InitialFluid
    /\ vn = Interpolated(InitialFluid, InitialPosition)
    /\ x = xn
    /\ last = CycleResult(<<>>, un, vn, Null)

SNext == Begin \/ Cycle \/ End

SSpec == SInit /\ [][SNext]_svars
=============================================================================
