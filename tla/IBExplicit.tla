------------------------------ MODULE IBExplicit ------------------------------
(***************************************************************************)
(* One step of the explicit immersed boundary method, as                   *)
(* IBExplicitHierarchyIntegrator drives it through IBMethod.               *)
(*                                                                         *)
(* IBMethod keeps positions X, velocities U and forces F of the structure  *)
(* at the current, half and new time of the step.  Half-time data is a     *)
(* cache: it is recomputed from current and new data when its needs_reinit *)
(* flag is set.  Each distributed vector has ghost copies of values owned  *)
(* by other processors, exchanged only when its needs_ghost_fill flag is   *)
(* set.  A regrid or a restart lays the structure out anew: ghost copies   *)
(* are lost, anchor points and the force and source functions have to be   *)
(* rebuilt.                                                                *)
(*                                                                         *)
(* Values are the terms of IBTerms.  A regrid moves data between patches   *)
(* and processors, and the terms name the data and not where it is.        *)
(***************************************************************************)
EXTENDS IBTerms

CONSTANTS
    Schemes,        \* values of time_stepping_type in the input file
    Cycles,         \* numbers of cycles per step
    SourceChoices,  \* values of hasFluidSources
    MaxSteps,       \* bound on the number of steps
    MaxRestarts     \* bound on the number of restarts

ASSUME CyclesAssumption == Cycles \subseteq Nat \ {0}
ASSUME BoundsAssumption == MaxSteps \in Nat /\ MaxRestarts \in Nat

VARIABLES
    pc,
    scheme,             \* d_time_stepping_type
    nc,                 \* d_current_num_cycles
    hasSources,         \* the structure has fluid sources
    n,                  \* d_integrator_step
    cycle,              \* cycles done in this step
    X, U, F,            \* d_{X,U,F}_{current,half,new}_data
    xGhost, fGhost,     \* the ghost copies of X and F
    xNeedsGhostFill, fNeedsGhostFill,
    xHalfNeedsReinit, uHalfNeedsReinit,
    uCurrent, uNew,     \* fluid velocity in the current and new context
    f, fCurrent,        \* d_f_idx and d_f_current_idx: spread forces averaged
    layout,             \* number of the present distribution of the structure
    anchorsAt,          \* the layout d_anchor_point_local_idxs was computed for
    strategiesAt,       \* the layout the force and source functions know
    strategiesNeedInit, \* d_ib_force_fcn_needs_init, d_ib_source_fcn_needs_init
    sourceAt,           \* d_X_src
    pressureAt,         \* where the source pressures were evaluated
    restarts,
    last                \* result of the last cycle (history)

control == <<scheme, nc, hasSources, n, restarts>>
position == <<X, xGhost, xNeedsGhostFill, xHalfNeedsReinit>>
velocity == <<U, uHalfNeedsReinit>>
force == <<F, fGhost, fNeedsGhostFill>>
fluid == <<uCurrent, uNew>>
eulerianForce == <<f, fCurrent>>
distribution == <<layout, anchorsAt, strategiesAt, strategiesNeedInit>>
sources == <<sourceAt, pressureAt>>
vars == <<pc, control, cycle, position, velocity, force, fluid, eulerianForce,
          distribution, sources, last>>

Times == {"current", "half", "new"}

\* Only the current data of a vector is allocated.
OnlyCurrent(v) == [w \in Times |-> IF w = "current" THEN v ELSE Null]

-----------------------------------------------------------------------------
(* IBMethod: looking data up *)

\* getPositionData recomputes the half-time positions when they are asked for
\* and are missing or flagged.
StalePositions == X["half"] = Null \/ xHalfNeedsReinit

PositionData(w) ==
    IF w = "half" /\ StalePositions THEN Mid(X["current"], X["new"]) ELSE X[w]

\* Flag that the caller of getPositionData finds.
NeedsGhostFill(w) == xNeedsGhostFill[w] \/ (w = "half" /\ StalePositions)

LookUpPositions(w) ==
    /\ X' = [X EXCEPT ![w] = PositionData(w)]
    /\ xHalfNeedsReinit' = (xHalfNeedsReinit /\ w # "half")

VelocityData(w) ==
    IF w = "half" /\ (U["half"] = Null \/ uHalfNeedsReinit)
    THEN Mid(U["current"], U["new"]) ELSE U[w]

-----------------------------------------------------------------------------
(* IBMethod: forces *)

\* What spreading with the given ghost copies gives: each processor spreads the
\* values it owns and the ghost copies near its patches.
SpreadWith(F0, x0, ghostF, ghostX) ==
    IF ghostF = F0 /\ ghostX = x0 THEN Spread(F0, x0)
    ELSE [F |-> F0, at |-> x0, ghostF |-> ghostF, ghostX |-> ghostX]

LagrangianForce(w) == ForceAt(PositionData(w), VelocityData(w), TimeOf(n, w))

\* The ghost copies spreadForce leaves behind: computeLagrangianForce has set the
\* flag of the force, that of the positions is as the lookup found it.
GhostForce(w) == LagrangianForce(w)
GhostPositions(w) == IF NeedsGhostFill(w) THEN PositionData(w) ELSE xGhost[w]

SpreadForce(w) ==
    SpreadWith(LagrangianForce(w), PositionData(w), GhostForce(w), GhostPositions(w))

\* computeLagrangianForce, then spreadForce, of the data at time w.
ComputeAndSpreadForce(w) ==
    /\ LookUpPositions(w)
    /\ U' = [U EXCEPT ![w] = VelocityData(w)]
    /\ uHalfNeedsReinit' = (uHalfNeedsReinit /\ w # "half")
    /\ F' = [F EXCEPT ![w] = LagrangianForce(w)]
    /\ fGhost' = [fGhost EXCEPT ![w] = GhostForce(w)]
    /\ fNeedsGhostFill' = [fNeedsGhostFill EXCEPT ![w] = FALSE]
    /\ xGhost' = [xGhost EXCEPT ![w] = GhostPositions(w)]
    /\ xNeedsGhostFill' = [xNeedsGhostFill EXCEPT ![w] = FALSE]

-----------------------------------------------------------------------------
(* Initialization, regridding and restart *)

\* The state after initializePatchHierarchy at the initial time: the velocity
\* of the structure has been interpolated.
Init ==
    /\ pc = "ready"
    /\ scheme \in Schemes
    /\ nc \in Cycles
    /\ hasSources \in SourceChoices
    /\ n = 0
    /\ cycle = 0
    /\ X = OnlyCurrent(InitialPosition)
    /\ U = OnlyCurrent(Interpolated(InitialFluid, InitialPosition))
    /\ F = OnlyCurrent(Null)
    /\ xGhost = OnlyCurrent(Null)
    /\ fGhost = OnlyCurrent(Null)
    /\ xNeedsGhostFill = [w \in Times |-> TRUE]
    /\ fNeedsGhostFill = [w \in Times |-> TRUE]
    /\ xHalfNeedsReinit = TRUE
    /\ uHalfNeedsReinit = TRUE
    /\ uCurrent = InitialFluid
    /\ uNew = Null
    /\ f = <<>>
    /\ fCurrent = <<>>
    /\ layout = 0
    /\ anchorsAt = 0
    /\ strategiesAt = Null
    /\ strategiesNeedInit = TRUE
    /\ sourceAt = IF hasSources THEN InitialPosition ELSE Null
    /\ pressureAt = Null
    /\ restarts = 0
    /\ last = CycleResult(<<>>, uCurrent, U["current"], Null)

\* Faulty variant of RedistributedStrategies: the strategies are not told.
StrategiesNotTold == strategiesNeedInit

\* endDataRedistribution flags the strategies.
RedistributedStrategies == TRUE

\* beginDataRedistribution, regridding and endDataRedistribution: new vectors
\* without ghost copies (their flag is not touched), new anchor points.
Redistribute ==
    /\ layout' = layout + 1
    /\ anchorsAt' = layout + 1
    /\ strategiesNeedInit' = RedistributedStrategies
    /\ xGhost' = OnlyCurrent(Null)
    /\ fGhost' = OnlyCurrent(Null)
    /\ UNCHANGED strategiesAt

\* advanceHierarchy regrids first, always at the initial time.
AdvanceHierarchy ==
    /\ pc = "ready"
    /\ n < MaxSteps
    /\ pc' = "preprocess"
    /\ \/ Redistribute
       \/ n > 0 /\ UNCHANGED <<distribution, xGhost, fGhost>>
    /\ UNCHANGED <<control, cycle, X, xNeedsGhostFill, xHalfNeedsReinit, velocity,
                   F, fNeedsGhostFill, fluid, eulerianForce, sources, last>>

\* The program ends after writing a restart file and is started from it:
\* current data survives, the flags are those of the constructor, and
\* initializePatchHierarchy redistributes the structure.
Restart ==
    /\ pc = "ready"
    /\ n > 0
    /\ restarts < MaxRestarts
    /\ restarts' = restarts + 1
    /\ Redistribute
    /\ xNeedsGhostFill' = [w \in Times |-> TRUE]
    /\ fNeedsGhostFill' = [w \in Times |-> TRUE]
    /\ xHalfNeedsReinit' = TRUE
    /\ uHalfNeedsReinit' = TRUE
    /\ uNew' = Null
    /\ f' = <<>>
    /\ fCurrent' = <<>>
    /\ pressureAt' = Null
    /\ UNCHANGED <<pc, scheme, nc, hasSources, n, cycle, X, U, F, uCurrent, sourceAt, last>>

-----------------------------------------------------------------------------
(* preprocessIntegrateHierarchy *)

\* Faulty variant of NewPositions: the vector is created but not initialized.
NewPositionsUnset == Null

\* X_new is initialized to X_current.
NewPositions == X["current"]

\* IBMethod::preprocessIntegrateData, and the fluid solver starting from its
\* current velocity.
PreprocessIntegrateData ==
    /\ pc = "preprocess"
    /\ pc' = IF scheme = "MIDPOINT_RULE" THEN "predict" ELSE "spread current force"
    /\ strategiesAt' = IF strategiesNeedInit THEN layout ELSE strategiesAt
    /\ strategiesNeedInit' = FALSE
    /\ X' = [X EXCEPT !["new"] = NewPositions]
    /\ U' = [U EXCEPT !["new"] = U["current"]]
    /\ xNeedsGhostFill' = [xNeedsGhostFill EXCEPT !["new"] = TRUE]
    /\ xHalfNeedsReinit' = TRUE
    /\ uHalfNeedsReinit' = TRUE
    /\ uNew' = uCurrent
    /\ UNCHANGED <<control, cycle, xGhost, force, uCurrent, eulerianForce,
                   layout, anchorsAt, sources, last>>

\* The trapezoidal rule spreads the force at the old time and keeps it.
SpreadCurrentForce ==
    /\ pc = "spread current force"
    /\ scheme = "TRAPEZOIDAL_RULE"
    /\ pc' = "predict"
    /\ ComputeAndSpreadForce("current")
    /\ f' = <<SpreadForce("current")>>
    /\ fCurrent' = f'
    /\ UNCHANGED <<control, cycle, fluid, distribution, sources, last>>

\* FORWARD_EULER copies it to patch data index -1.
CopyToMissingData ==
    /\ pc = "spread current force"
    /\ scheme = "FORWARD_EULER"
    /\ pc' = "undefined"
    /\ ComputeAndSpreadForce("current")
    /\ f' = <<SpreadForce("current")>>
    /\ UNCHANGED <<control, cycle, fluid, fCurrent, distribution, sources, last>>

\* Faulty variant of MovedHalfStale: the half-time positions are kept.
MovedHalfKept == xHalfNeedsReinit

\* Every step function flags the half-time positions.
MovedHalfStale == TRUE

\* eulerStep, midpointStep and trapezoidalStep: X_new is computed afresh.
MoveStructure(name) ==
    /\ X' = [X EXCEPT !["new"] = Same(name)]
    /\ xNeedsGhostFill' = [xNeedsGhostFill EXCEPT !["new"] = TRUE]
    /\ xHalfNeedsReinit' = MovedHalfStale
    /\ UNCHANGED xGhost

\* With one cycle the new positions are predicted by a forward Euler step.
PredictPositions ==
    /\ pc = "predict"
    /\ pc' = "force"
    /\ cycle' = 0
    /\ IF nc = 1 THEN MoveStructure(<<n + 1, 0>>) ELSE UNCHANGED position
    /\ last' = CycleResult(<<>>, uNew, U["new"], IF nc = 1 THEN U["current"] ELSE Null)
    /\ UNCHANGED <<control, velocity, force, fluid, eulerianForce,
                   distribution, sources>>

-----------------------------------------------------------------------------
(* integrateHierarchy *)

AfterForce == IF hasSources THEN "source" ELSE "solve"

ForceAtHalfTime ==
    /\ pc = "force"
    /\ scheme = "MIDPOINT_RULE"
    /\ pc' = AfterForce
    /\ ComputeAndSpreadForce("half")
    /\ f' = <<SpreadForce("half")>>
    /\ UNCHANGED <<control, cycle, fluid, fCurrent, distribution, sources, last>>

\* With several cycles, the first one uses the force spread in preprocessing.
KeepsCurrentForce == scheme = "TRAPEZOIDAL_RULE" /\ nc > 1 /\ cycle = 0

ForceAtNewTime ==
    /\ pc = "force"
    /\ scheme = "TRAPEZOIDAL_RULE"
    /\ ~KeepsCurrentForce
    /\ pc' = AfterForce
    /\ ComputeAndSpreadForce("new")
    /\ f' = fCurrent \o <<SpreadForce("new")>>
    /\ UNCHANGED <<control, cycle, fluid, fCurrent, distribution, sources, last>>

KeepCurrentForce ==
    /\ pc = "force"
    /\ KeepsCurrentForce
    /\ pc' = AfterForce
    /\ UNCHANGED <<control, cycle, position, velocity, force, fluid, eulerianForce,
                   distribution, sources, last>>

\* The sources are spread from their locations at the half time.
SpreadFluidSource ==
    /\ pc = "source"
    /\ pc' = "solve"
    /\ LookUpPositions("half")
    /\ xNeedsGhostFill' = [xNeedsGhostFill EXCEPT !["half"] = NeedsGhostFill("half")]
    /\ sourceAt' = PositionData("half")
    /\ UNCHANGED <<control, cycle, xGhost, velocity, force, fluid, eulerianForce,
                   distribution, pressureAt, last>>

\* integrateHierarchy of the fluid solver, with the spread force f.
SolveFluidEquations ==
    /\ pc = "solve"
    /\ pc' = "interpolate"
    /\ uNew' = Same(<<n + 1, cycle + 1>>)
    /\ UNCHANGED <<control, cycle, position, velocity, force, uCurrent, eulerianForce,
                   distribution, sources, last>>

\* The time at which a scheme evaluates velocities in a cycle.
Stage == IF scheme = "MIDPOINT_RULE" THEN "half" ELSE "new"

\* Faulty variant of HalfVelocityStale: the comparison is the wrong way round.
HalfVelocityStaleAt(w) == w = "half"

\* interpolateVelocity at time w: velocities interpolated at another time than
\* the half time make the half-time velocity stale.
HalfVelocityStale(w) == w # "half"

\* Faulty variant of CouplingPositions: the updated positions.
NewCouplingPositions(w) == X["new"]

\* getLECouplingPositionData.
CouplingPositions(w) == PositionData(w)

InterpolateVelocity(u, w) ==
    /\ LookUpPositions(w)
    /\ xNeedsGhostFill' = [xNeedsGhostFill EXCEPT ![w] = NeedsGhostFill(w)]
    /\ U' = [U EXCEPT ![w] = Interpolated(u, CouplingPositions(w))]
    /\ uHalfNeedsReinit' = HalfVelocityStale(w)
    /\ UNCHANGED xGhost

\* The Eulerian velocity that a cycle interpolates.
StageFluid == IF scheme = "MIDPOINT_RULE" THEN Mid(uCurrent, uNew) ELSE uNew

InterpolateStageVelocity ==
    /\ pc = "interpolate"
    /\ pc' = "move"
    /\ InterpolateVelocity(StageFluid, Stage)
    /\ UNCHANGED <<control, cycle, force, fluid, eulerianForce, distribution,
                   sources, last>>

\* The velocity of eulerStep, midpointStep and trapezoidalStep.
StepVelocity ==
    IF nc > 1 /\ cycle = 0 THEN U["current"]
    ELSE IF scheme = "MIDPOINT_RULE" THEN VelocityData("half")
    ELSE Mid(U["current"], U["new"])

AfterCycle(done) == IF done < nc THEN "force" ELSE "postprocess"

UpdatePositions ==
    /\ pc = "move"
    /\ pc' = IF hasSources THEN "pressure" ELSE AfterCycle(cycle + 1)
    /\ cycle' = cycle + 1
    /\ MoveStructure(<<n + 1, cycle + 1>>)
    /\ last' = CycleResult(f, uNew, VelocityData(Stage), StepVelocity)
    /\ UNCHANGED <<control, velocity, force, fluid, eulerianForce, distribution, sources>>

\* interpolatePressure looks the present positions up, but evaluates the
\* pressure at the source locations of the last spreadFluidSource.
InterpolatePressure ==
    /\ pc = "pressure"
    /\ pc' = AfterCycle(cycle)
    /\ LookUpPositions("half")
    /\ xNeedsGhostFill' = [xNeedsGhostFill EXCEPT !["half"] = NeedsGhostFill("half")]
    /\ pressureAt' = sourceAt
    /\ UNCHANGED <<control, cycle, xGhost, velocity, force, fluid, eulerianForce,
                   distribution, sourceAt, last>>

-----------------------------------------------------------------------------
(* postprocessIntegrateHierarchy *)

\* Faulty variant of CurrentNeedsGhostFill: the flag is left as it is.
CurrentUnflagged(flag) == flag

\* postprocessIntegrateData flags the vectors it swapped: VecSwap exchanges the
\* values a processor owns, not the ghost copies.
CurrentNeedsGhostFill(flag) == TRUE

\* Faulty variant of NewVelocity: the velocity of the last cycle is kept.
LastCycleVelocity == U["new"]

\* The velocity interpolated at the end of the step.
NewVelocity == Interpolated(uNew, X["new"])

\* The last interpolation, at the new positions, and postprocessIntegrateData:
\* new data becomes current, everything else is dropped.
PostprocessIntegrateHierarchy ==
    /\ pc = "postprocess"
    /\ pc' = "ready"
    /\ n' = n + 1
    /\ X' = OnlyCurrent(X["new"])
    /\ U' = OnlyCurrent(NewVelocity)
    /\ F' = OnlyCurrent(IF F["new"] # Null THEN F["new"]
                        ELSE IF F["half"] # Null THEN F["half"] ELSE F["current"])
    /\ xGhost' = OnlyCurrent(xGhost["current"])
    /\ fGhost' = OnlyCurrent(fGhost["current"])
    /\ xNeedsGhostFill' = [xNeedsGhostFill EXCEPT !["current"] = CurrentNeedsGhostFill(@)]
    /\ fNeedsGhostFill' = [fNeedsGhostFill EXCEPT !["current"] = CurrentNeedsGhostFill(@)]
    /\ uHalfNeedsReinit' = TRUE
    /\ uCurrent' = uNew
    /\ uNew' = Null
    /\ f' = <<>>
    /\ fCurrent' = <<>>
    /\ UNCHANGED <<scheme, nc, hasSources, restarts, cycle, xHalfNeedsReinit, distribution,
                   sources, last>>

\* After the last step, or an abort, nothing happens any more.
Terminated ==
    /\ pc = "undefined" \/ (pc = "ready" /\ n = MaxSteps)
    /\ UNCHANGED vars

Next ==
    \/ AdvanceHierarchy
    \/ Restart
    \/ PreprocessIntegrateData
    \/ SpreadCurrentForce
    \/ CopyToMissingData
    \/ PredictPositions
    \/ ForceAtHalfTime
    \/ ForceAtNewTime
    \/ KeepCurrentForce
    \/ SpreadFluidSource
    \/ SolveFluidEquations
    \/ InterpolateStageVelocity
    \/ UpdatePositions
    \/ InterpolatePressure
    \/ PostprocessIntegrateHierarchy
    \/ Terminated

Spec == Init /\ [][Next]_vars

-----------------------------------------------------------------------------
(* Properties *)

Cycling == {"force", "source", "solve", "interpolate", "move", "pressure", "postprocess"}
Preparing == {"preprocess", "spread current force", "predict"}

\* The type invariant: positions are names of computed data, flags are Boolean,
\* layouts are numbers.
TypeOK ==
    /\ pc \in {"ready", "undefined"} \cup Preparing \cup Cycling
    /\ scheme \in Schemes
    /\ nc \in Cycles
    /\ hasSources \in SourceChoices
    /\ n \in Nat
    /\ cycle \in 0..nc
    /\ X \in [Times -> Positions \cup {Null}]
    /\ xGhost \in [Times -> Positions \cup {Null}]
    /\ DOMAIN U = Times /\ DOMAIN F = Times /\ DOMAIN fGhost = Times
    /\ xNeedsGhostFill \in [Times -> BOOLEAN]
    /\ fNeedsGhostFill \in [Times -> BOOLEAN]
    /\ xHalfNeedsReinit \in BOOLEAN
    /\ uHalfNeedsReinit \in BOOLEAN
    /\ layout \in Nat /\ anchorsAt \in Nat
    /\ strategiesAt \in Nat \cup {Null}
    /\ strategiesNeedInit \in BOOLEAN
    /\ sourceAt \in Positions \cup {Null}
    /\ pressureAt \in Positions \cup {Null}
    /\ restarts \in 0..MaxRestarts
    /\ pc \in Cycling => X["new"] \in Positions

\* A vector of positions or forces whose flag says that its ghost copies need
\* not be exchanged has ghost copies equal to the values their owners hold, at
\* every point of a step and across regrids, swaps and restarts
\* (IBMethod::spreadForce skips the exchange on the strength of the flag).
GhostsFresh ==
    \A w \in Times :
        /\ ~xNeedsGhostFill[w] /\ X[w] # Null => xGhost[w] = X[w]
        /\ ~fNeedsGhostFill[w] /\ F[w] # Null => fGhost[w] = F[w]

\* Half-time positions that are not flagged for recomputation are the midpoint
\* of the present current and new positions (IBMethod::getPositionData).
MidpointPositionsFresh ==
    ~xHalfNeedsReinit /\ X["half"] # Null => X["half"] = Mid(X["current"], X["new"])

\* Whenever data moves between structure and fluid, the anchor points are those
\* of the present distribution of the structure, and so are the tables of the
\* force and source functions (IBMethod::endDataRedistribution flags them,
\* preprocessIntegrateData rebuilds them).
RebuiltAfterRegrid ==
    pc \in Cycling \cup {"spread current force", "predict"} =>
        strategiesAt = layout /\ anchorsAt = layout

\* "The velocity should already have been interpolated to the curvilinear mesh
\* and should not need to be re-interpolated": when a step begins the current
\* velocity of the structure is that of the current fluid at the current
\* positions, after swaps, regrids and restarts.
VelocityAlreadyInterpolated ==
    pc = "ready" \/ pc \in Preparing =>
        U["current"] = Interpolated(uCurrent, X["current"])

\* Force spreading and velocity interpolation of a cycle use the same positions,
\* and they are the positions the force was computed at: the two operators are
\* adjoint, as conservation of energy requires, although each looks its
\* positions up for itself and the structure moves in between.
TransfersAreAdjoint ==
    last.f # <<>> =>
        LET spread == last.f[Len(last.f)]
        IN  spread.F.x = spread.at /\ last.v[1].at = spread.at

\* "Compute the pressure at the updated locations of any distributed internal
\* fluid sources or sinks": once the pressures are interpolated they are those
\* at the source locations that follow from the updated positions.
PressureAtUpdatedLocations ==
    hasSources /\ cycle > 0 /\ pc \in {"force", "postprocess"} =>
        pressureAt = PositionData("half")

\* The abstract scheme, whose step begins when the new positions are predicted.
Stepping == pc \in Cycling

Abstract == INSTANCE IBScheme WITH
    stepping <- Stepping,
    cycle <- cycle,
    xn <- X["current"],
    vn <- U["current"],
    un <- uCurrent,
    x <- IF Stepping THEN X["new"] ELSE X["current"],
    last <- last

\* Every step of the integrator is a step of the abstract scheme or changes
\* nothing it can see: caching, ghost exchange, regridding and restarting do
\* not change what is computed.
ImplementsScheme == Abstract!SSpec
=============================================================================
