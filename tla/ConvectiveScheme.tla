-------------------------- MODULE ConvectiveScheme --------------------------
(***************************************************************************)
(* What a solver for a transported quantity computes: in every cycle of a  *)
(* time step it solves a linear system whose right-hand side has the       *)
(* convective term that the time stepping type prescribes, evaluated with  *)
(* the latest iterate, and the forces of that cycle.  Nothing is carried   *)
(* from one cycle to the next but the iterate, and from one step to the    *)
(* next but the solution and the convective term at its beginning.         *)
(***************************************************************************)
EXTENDS ConvectiveTerms

VARIABLES
    scheme,     \* the time stepping type, never changed
    step,       \* completed steps
    cycle,      \* completed cycles of this step, -1 between steps
    dt,         \* size of this step
    start,      \* solution at the beginning of the step
    latest,     \* latest iterate
    velocity,   \* the advecting velocity in time, set by the environment
    previous,   \* convective term at the beginning of the previous step
    before,     \* size of the previous step
    solved      \* right-hand side of the last linear system of this step

sVars == <<scheme, step, cycle, dt, start, latest, previous, before, solved>>

Convection(t) == Term(velocity[t], InTime(start, latest)[t])

\* The convective terms that belong on the right-hand side in cycle k.
ConvectiveTermsOf(k) ==
    LET type == Effective(scheme, step = 0, k)
        Recent(t) == Convection(IF k = 0 THEN "old" ELSE t)
    IN  CASE type = "NONE" -> Nothing
          [] type = "FORWARD_EULER" -> Plus(Nothing, -2, Convection("old"))
          [] type = "MIDPOINT_RULE" -> Plus(Nothing, -2, Recent("half"))
          [] type = "TRAPEZOIDAL_RULE" ->
                 Plus(Plus(Nothing, -1, Convection("old")), -1, Recent("new"))
          [] type = "ADAMS_BASHFORTH" ->
                 Plus(Nothing, -2, Extrapolated(Convection("old"), previous, dt, before))

SInit ==
    /\ step = 0 /\ cycle = -1
    /\ solved = Nothing

Begin ==
    /\ cycle = -1
    /\ cycle' = 0
    /\ latest' = start
    /\ UNCHANGED <<scheme, step, start, previous, before, solved>>

\* Sources, if any, act on the latest mean velocity.
Cycle ==
    LET forced == Plus(ConvectiveTermsOf(cycle), 2, Forcing(Iterate(step + 1, cycle))) IN
    /\ cycle \in 0..(NumberOfCycles(scheme, step = 0) - 1)
    /\ solved' = (IF scheme.sources THEN Plus(forced, 2, SourceTerm({start, latest})) ELSE forced)
    /\ latest' = Iterate(step + 1, cycle)
    /\ cycle' = cycle + 1
    /\ UNCHANGED <<scheme, step, dt, start, previous, before>>

End ==
    /\ cycle = NumberOfCycles(scheme, step = 0)
    /\ cycle' = -1
    /\ step' = step + 1
    /\ start' = latest
    /\ previous' = (IF scheme.type = "NONE" THEN previous ELSE Convection("old"))
    /\ before' = dt
    /\ solved' = Nothing
    /\ UNCHANGED scheme

\* A regrid may project the velocity, a restart changes nothing.
Between ==
    /\ cycle = -1
    /\ start' \in {start, Projected(start)}
    /\ UNCHANGED <<scheme, step, cycle, previous, before, solved>>

SNext == Begin \/ Cycle \/ End \/ Between

SSpec == SInit /\ [][SNext]_sVars
=============================================================================
