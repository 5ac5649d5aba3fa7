---------------------------- MODULE RegridControl ----------------------------
(***************************************************************************)
(* When the immersed boundary solver regrids.                              *)
(*                                                                         *)
(* LDataManager finds a node again only when it moved at most CFL_WIDTH    *)
(* cells since the hierarchy was last regridded.  IBHierarchyIntegrator    *)
(* regrids after a number of steps, or when an estimate of the distance    *)
(* reaches an interval.  The estimate adds up the CFL numbers of the new   *)
(* velocities; the nodes, however, move with the mean of the old and the   *)
(* new velocity of each step, and the step size varies.                    *)
(*                                                                         *)
(* Distances are whole numbers of a small fraction of a cell.  moved is    *)
(* twice the distance, which is then a whole number too: a step moves a    *)
(* node by (old + new)/2, the CFL numbers of both velocities.              *)
(***************************************************************************)
EXTENDS Integers

CONSTANTS
    CflIntervals,       \* values of regrid_cfl_interval, off when 0
    StepIntervals,      \* values of regrid_interval in steps, off when 0
    MaxCfl,             \* largest CFL number: cfl_max bounds that of the old
                        \* velocity, the flow must keep the new one below it
    GrowthFactor,       \* dt_growth_factor, no limit when it is 0
    CflWidth,           \* CFL_WIDTH
    MaxSteps,           \* bound on the number of steps
    MaxRestarts         \* bound on the number of restarts

ASSUME ControlAssumption ==
    /\ CflIntervals \subseteq Nat
    /\ StepIntervals \subseteq Nat
    /\ MaxCfl \in Nat
    /\ GrowthFactor \in Nat
    /\ CflWidth \in Nat
    /\ MaxSteps \in Nat
    /\ MaxRestarts \in Nat

VARIABLES
    cflInterval,    \* d_regrid_cfl_interval
    stepInterval,   \* d_regrid_interval
    step,           \* d_integrator_step
    estimate,       \* d_regrid_cfl_estimate
    newCfl,         \* CFL number of the velocity the last step computed
    moved,          \* twice the largest distance of a node since the last regrid
    sinceRegrid,    \* steps since the last regrid (history)
    saved,          \* restart file: these values, and the hierarchy
    restarts        \* restarts so far

state == [step |-> step, estimate |-> estimate, newCfl |-> newCfl,
          moved |-> moved, sinceRegrid |-> sinceRegrid]

input == <<cflInterval, stepInterval>>

vars == <<input, step, estimate, newCfl, moved, sinceRegrid, saved, restarts>>

InitialTime == step = 0

\* Faulty variant of AtRegridPoint: only the CFL criterion is looked at.
AtCflRegridPoint ==
    \/ InitialTime
    \/ cflInterval > 0 /\ estimate >= cflInterval

\* atRegridPoint: the CFL criterion replaces the step count when it is on.
AtRegridPoint ==
    \/ InitialTime
    \/ cflInterval > 0 /\ estimate >= cflInterval
    \/ cflInterval = 0 /\ stepInterval # 0 /\ step % stepInterval = 0

\* CFL number of the old velocity in a step: the old velocity is the new one of
\* the last step, but the step size may have grown.
OldCfl(old) ==
    /\ old <= MaxCfl
    /\ step > 0 /\ GrowthFactor >= 1 => old <= GrowthFactor * newCfl

\* advanceHierarchy: regrid if it is time to, and take a step.
AdvanceHierarchy(old, new) ==
    /\ step < MaxSteps
    /\ OldCfl(old)
    /\ step' = step + 1
    /\ newCfl' = new
    /\ estimate' = new + (IF AtRegridPoint THEN 0 ELSE estimate)
    /\ moved' = old + new + (IF AtRegridPoint THEN 0 ELSE moved)
    /\ sinceRegrid' = 1 + (IF AtRegridPoint THEN 0 ELSE sinceRegrid)
    /\ UNCHANGED <<input, saved, restarts>>

\* Faulty variant of RestartFile: the estimate is not kept.
RestartFileWithoutEstimate == [state EXCEPT !.estimate = 0]

\* Faulty variant of RestartFile: the step counter is not kept.
RestartFileWithoutStep == [state EXCEPT !.step = 0]

\* What a restart file holds; the index data are those of the last regrid.
RestartFile == state

PutToDatabase ==
    /\ saved' = RestartFile
    /\ UNCHANGED <<input, step, estimate, newCfl, moved, sinceRegrid, restarts>>

\* A restart sorts the nodes into the cells of the hierarchy of the restart
\* file, but it does not regrid: the distances keep counting.
Restart ==
    /\ restarts < MaxRestarts
    /\ restarts' = restarts + 1
    /\ step' = saved.step
    /\ estimate' = saved.estimate
    /\ newCfl' = saved.newCfl
    /\ moved' = saved.moved
    /\ sinceRegrid' = saved.sinceRegrid
    /\ UNCHANGED <<input, saved>>

Init ==
    /\ cflInterval \in CflIntervals
    /\ stepInterval \in StepIntervals
    /\ step = 0
    /\ estimate = 0
    /\ newCfl = 0
    /\ moved = 0
    /\ sinceRegrid = 0
    /\ saved = state
    /\ restarts = 0

Next ==
    \/ \E old, new \in 0..MaxCfl : AdvanceHierarchy(old, new)
    \/ PutToDatabase
    \/ Restart

Spec == Init /\ [][Next]_vars

-----------------------------------------------------------------------------
(* Properties *)

States == [step : Nat, estimate : Nat, newCfl : 0..MaxCfl, moved : Nat, sinceRegrid : Nat]

\* The members keep their types, also through a restart file, and the last
\* regrid is not older than the first step.
TypeOK ==
    /\ cflInterval \in CflIntervals
    /\ stepInterval \in StepIntervals
    /\ state \in States /\ sinceRegrid <= step
    /\ saved \in States /\ saved.sinceRegrid <= saved.step
    /\ restarts \in 0..MaxRestarts

\* Regridding by CFL number keeps every node within reach of the search of
\* beginDataRedistribution, whatever the velocities do, when the interval
\* leaves room for the last step, for growing step sizes and for one old
\* velocity: the estimate alone is too small.
RoomForGrowth ==
    /\ GrowthFactor >= 1
    /\ (1 + GrowthFactor) * (cflInterval + MaxCfl) + MaxCfl <= 2 * CflWidth

NodesInReach ==
    cflInterval > 0 /\ RoomForGrowth => moved <= 2 * CflWidth

\* Regridding by step count does so when the steps themselves are short.
ShortSteps ==
    cflInterval = 0 /\ stepInterval > 0 /\ stepInterval * MaxCfl <= CflWidth

StepsInReach == ShortSteps => moved <= 2 * CflWidth
=============================================================================
