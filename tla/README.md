# IBAMR in TLA+

TLA+ models of the control logic of IBAMR, the adaptive and distributed-memory
implementation of the immersed boundary (IB) method: time advancement by nested
hierarchy integrators, regridding, the immersed boundary time step with its
caches and flags, the redistribution of Lagrangian data, markers on a hierarchy
of levels, replicated containers, and the multigrid cycles. Floating-point
numerics are abstracted to what the control logic tells apart.

## 1. Inventory of the system

The main program (`src/examples/IB/explicit/ex0/main.cpp` is typical) builds a
chain of integrators, initializes the patch hierarchy, and calls
`getMaximumTimeStepSize` and `advanceHierarchy` until the end time, with restart
files in between. One process per MPI rank runs the same program; all ranks meet
in collective calls, so between collective calls the program is sequential.

| Part | State | Operations | Talks to |
|---|---|---|---|
| `HierarchyIntegrator` and subclasses (`ibtk/src/utilities`, `src/navier_stokes`, `src/adv_diff`) | clock, step counter, step-size history, cycle counters, current/new/scratch data contexts | construct, restart, `advanceHierarchy`, `preprocess`/`integrate`/`postprocessIntegrateHierarchy`, `resetTimeDependentHierarchyData`, `regridHierarchy` | parent calls child at every stage; children hold their own copy of the clock |
| `IBHierarchyIntegrator`, `IBExplicitHierarchyIntegrator` | regrid estimate, body force and velocity buffers | one IB time step, `atRegridPoint`, `regridHierarchy` | drives an `IBStrategy`, is parent of a Navier-Stokes integrator |
| `IBMethod` (an `IBStrategy`) | position, velocity and force vectors at current, half and new time with dirty flags; force and source strategies | `preprocessIntegrateData`, `eulerStep`/`midpointStep`/`trapezoidalStep`, force, spread, interpolate, redistribution | `LDataManager` for transfer and vectors |
| `LDataManager` | node index sets in patch interiors and ghost cells, local/nonlocal index tables, application ordering, vectors | `beginDataRedistribution`, `endDataRedistribution`, `displaceLagrangianStructure`, level initialization, spread, interp | SAMRAI regridding between begin and end; collective numbering |
| `LMarkerUtilities` with `LMarkerRefine`, `LMarkerCoarsen` | sets of markers in the cells of all levels | `initializeMarkersOnLevel`, `collectMarkersOnPatchHierarchy`, `pruneInvalidMarkers`, `eulerStep`/`midpointStep`/`trapezoidalStep` | called by `IBHierarchyIntegrator` at initialization and around regrids |
| `ParallelMap`, `ParallelSet` | a copy of one map per process, pending additions and removals | `addItem`, `removeItem`, `communicateData` | `StreamableManager` packs the items; all processes call `communicateData` |
| `FACPreconditioner` and its strategies | solution, right-hand side and residual on all levels, residual flag | `initializeSolverState`, `solveSystem`, the cycle functions | restriction, prolongation and smoothing by the strategy; ghost filling by `HierarchyGhostCellInterpolation` |
| Streamable registry, other solvers | tables of factories; wrappers of PETSc and hypre | | |

What makes the system hard: nothing in the type system keeps the copies of the
clock, the contexts, the cached vectors and the index tables together; the code
relies on every operation calling the others in the right order. Regridding and
restarts cut into every protocol. There are no timeouts and no lost messages:
MPI is reliable, and an error aborts all ranks.

The list of hazards, each at its line and with the properties that watch it, is
`hazards` in `PROJECT.json`; `components` lists every part with its status.

## 2. Plan

Modules, most important behaviour first. All eight groups are written.

1. `HierarchyIntegrator`: the chain of integrators, its proofs.
2. `RegridControl`: when to regrid and how far nodes move; its proofs.
3. `IBTerms`, `IBScheme`, `IBExplicit`: the IB step refines a scheme; proofs.
4. `LagrangianMesh`, `LDataManager`: redistribution refines an array; proofs.
5. `ConvectiveTerms`, `ConvectiveScheme`, `FluidTransport`: both flow
   solvers refine the time stepping scheme of a transported quantity; proofs.
6. `ParallelMap`: pending changes and their collective merge, message by
   message; proofs.
7. `LMarkerUtilities`: markers on changing hierarchies, none lost, none doubled;
   proofs.
8. `FACPreconditioner`: the recursion of the multigrid cycles; proofs.

What could follow: rods (`GeneralizedIBMethod`), penalty masses
(`PenaltyIBMethod`), instrumentation and anchor points as extensions of
`IBExplicit`; several levels in `LDataManager`; periodic boundaries in
`LMarkerUtilities`. Theorem worth proving next: `CycleSolves` for W- and F-cycles on
the grids that `SolvedOnce` admits.

## 3. Modules

### HierarchyIntegrator

A chain of `N` integrators. Per integrator it keeps `d_integrator_time`,
`d_start_time`, `d_integrator_step`, `d_dt_previous`, `d_current_num_cycles`,
`d_current_cycle_num` and the time of the data in its current and new contexts.
`pc` is the place of the main program. Actions are the functions the main loop
and `advanceHierarchy` call: `Construct`, `ConstructFromRestart`,
`InitializePatchHierarchy`, `AdvanceHierarchy` (step-size choice, clipping and
the refusals), `RejectTimeStep` (the errors of the preprocess functions),
`PreprocessIntegrateHierarchy`, `IntegrateHierarchy` (one call of one integrator,
which expands into calls of its child), `PostprocessIntegrateHierarchy`,
`ResetTimeDependentHierarchyData`, `PutToDatabase`, `Stop` and `Finish`. Time is
in integer ticks, `equalEps` is equality up to `Tol` ticks.

Fairness: `WF_vars(Run)`. A single thread runs the steps, so a running program
goes on; writing a restart file, being killed and starting again are not fair.
`Finishes` says that a run which is not killed ends.

### RegridControl

`IBHierarchyIntegrator::atRegridPointSpecialized` with the estimate of
`IBExplicitHierarchyIntegrator::postprocessIntegrateHierarchy` and its restart
data. `moved` is what the estimate estimates: twice the distance of the node that
moved most since the last regrid. The old velocity of a step is the new velocity
of the step before, scaled by a change of the step size that `dt_growth_factor`
bounds. The guarantee to the search of `LDataManager` is `NodesInReach` or
`StepsInReach`, under the stated conditions on the input file
(`RoomForGrowth`, `ShortSteps`): the estimate alone is not an upper bound.

### IBTerms, IBScheme, IBExplicit

`IBTerms` has the symbolic results of the Lagrangian operations: an interpolated
velocity, a force or a source remembers the fields, positions and times it was
made from. `IBScheme` is the mathematical scheme: per step a predictor, then
cycles of force, fluid solve, velocity interpolation and position update,
written as a fixed point without caches. `IBExplicit` models the integrator
with `IBMethod`: the vectors, the `needs_ghost_fill` and `needs_reinit` flags,
tables of force and source strategies, one action per stage of a cycle, regrids
and restarts. `FORWARD_EULER`, which the error messages list, uses patch data
that are never registered (index -1): the model stops at the place `undefined`.
`ImplementsScheme` is the refinement.

### LagrangianMesh, LDataManager

`LagrangianMesh` is an array of nodes with positions and one value each that
only moves when a node moves. `LDataManager` distributes it: patches of a level
in one dimension with owners, index sets (sets of shared `LNode` objects) in
interiors and ghost cells, local and nonlocal tables, ordering and vectors.
`level` says which domain is meant, so that one run checks walls and periodic
boundaries. Actions: `Move` (positions follow the flow), `DisplaceLagrangianStructure`,
`BeginDataRedistribution`, `Regrid` (SAMRAI replaces the level),
`EndDataRedistribution`, which are collective and therefore atomic between two
collective calls. `ImplementsMesh` is the refinement.

### ConvectiveTerms, ConvectiveScheme, FluidTransport

`ConvectiveTerms` names iterates (step, cycle, projected or not), fields (one
iterate or the mean of two), convective terms and right-hand sides (how many
halves of which term), and has the rules of the time stepping types.
`ConvectiveScheme` says which linear system a cycle has to solve: it keeps no
right-hand side and no stored term, only solution, latest iterate and the term
at the beginning of the previous step. `FluidTransport` models one step of
`INSStaggeredHierarchyIntegrator` and of the
`AdvDiffSemiImplicitHierarchyIntegrator` it drives: one right-hand side per step
that cycles add to and subtract from, the scratch term `N`, `N_old` in two
contexts, the face variable `u` in three contexts, cycle counters, the
needs-init flags, and what each operator was built for. Actions are
`RegridHierarchy`, `Restart`, `PreprocessIntegrateHierarchy`,
`UpdateAdvectionVelocity`, `SolveTransport`, `SolveFluid`,
`SolveTransportAgain` (the remaining cycles of the child when the fluid solver
has one) and `ResetTimeDependentHierarchyData`. Pairs of types and cycle counts
that the code refuses (`Supported`) are not initial states.
`ImplementsFluidScheme` and `ImplementsTransportScheme` are the refinements, with
the velocity that actually advects the quantity as a parameter:
`TransportedByTheFluid` says that it is the fluid's at the beginning of the step,
and the run `ft_velocity` that it is not the fluid's new one in later cycles.

### ParallelMap

`NProc` processes, each with its copy of the map, its pending notes and its place
in `communicateData`. A collective operation of MPI is a set of messages: a
reduction returns once all contributions are there, a broadcast returns at its
root at once. Thus processes run apart: one may be back from the call and note
changes for the next one while another still receives. `submitted` remembers what
each process noted before which call; `Outcome` computes what the copies must be
from that alone, and `ChangesApplied` compares. Of two additions of a key by one
process the first stays (`std::map::insert`), of two by different processes that
of the higher rank, and removals come last. `ParallelSet` is the case of a single
item. Fairness: a process inside a call goes on when the messages it waits for
are there, and a call that one process has made is made by all; nobody has to
note anything or to start a call. `CallsReturn` is then the absence of a process
that waits for a collective operation nobody else makes.

### LMarkerUtilities

Markers are copies `[level, cell, idx, x]` in a bag, on a hierarchy of levels of
patches in one dimension, positions in half cells of the finest level; the runs
have up to three levels. `Mapped` is the bag of the images of a bag, `Count` and
`Copies` count by sums over finite sets, so that the proofs can use lemmas on
such sums. Levels refine whole cells of the next coarser one
(`HierarchyAssumption`), which is what SAMRAI's gridding provides.
`RegridHierarchy` is the part of `IBHierarchyIntegrator::regridHierarchy` that
handles markers: collect on level 0, replace the finer levels, refine, prune.
`InitializePatchHierarchy` fills the levels of the initial hierarchy. Between
regrids a step moves each copy that lies in its patch by the velocity of its
place (`EulerStep`, then `MidpointStep` or `TrapezoidalStep`) and
`PreventMarkerEscape` keeps it off the walls. The update functions have no caller
in `src/`; `Advect` calls them as their comments ask for. A marker outside its
patch has velocity zero until the next regrid (`LEInteractor::buildLocalIndices`
skips it), and the model does the same. `RegridKeepsCopies` speaks of at most two
levels: with three, the loop over the levels in `initializeMarkersOnLevel` refines
level 1 twice and its markers double.

### FACPreconditioner

One point of the domain, which the levels `0 .. top` cover in a hierarchy
`0 .. finest`, and the model problem `u = f`: transfers copy the value at the
point, relaxations change `u` by anything unless the residual there is zero, the
coarsest solve is exact. What is left is the bookkeeping of the recursion:
`stack` holds the pending calls of the four cycle functions with their place, `u`,
`rhs` (the caller's vector, on which V-cycles without presmoothing work in place)
and `work` (`d_f`) have a value per level, and `recompute` is
`d_recompute_residual`. Computing a residual first coarsens `u` over covered cells
(`HierarchyGhostCellInterpolation::fillData`) and the model does that too.
`CycleSolves` excludes cells that are not covered two or more levels below the
finest one in W- and F-cycles: the second visit takes the residual of the first as
right-hand side, and the coarser solve then replaces the first correction instead
of adding to it. As a preconditioner such a cycle still runs; it does not correct
these cells.

## 4. Runs

The passing runs take seconds to two minutes. `MC*` modules give the instances.
No run turns the deadlock check off: where a program has ended the models
stutter explicitly, or regrids and restarts remain possible.

| Run | Question | Bounds |
|---|---|---|
| `hi_chain` | Do three nested integrators advance together, with all 27 combinations of 1..3 cycles? | 3 integrators, 3 steps, history of 3, 1 restart, `Tol` 1: the two-cycle first step, later steps, a restart between any two |
| `hi_steps` | Is the step-size logic consistent under a varying stability limit, moved end times and restarts? Does the program finish? | 2 integrators, 4 steps, growth factor 2, history of 3 (it overflows), 2 restarts, end times 10 and 16 |
| `rc_regrid` | Do the two regrid criteria keep nodes in reach of the search? | 8 steps, 3 restarts, both criteria, CFL number 0 or 1; the constants make `RoomForGrowth` and `ShortSteps` true with equality, so one unit more breaks them |
| `ib_scheme` | Does the computation with caches and flags equal the scheme? | all types, 1..3 cycles, with and without sources, 3 steps, 2 restarts |
| `ld_mesh` | Is every node found once, with consistent indices, its values and its shift, after every redistribution? | 2 nodes, 2 processes, 6 cells with walls (layouts of 1 to 3 patches, structures displaced on a single patch) and 8 periodic cells, 2 moves between regrids |
| `ft_scheme` | Do both flow solvers solve the systems of their schemes with operators that fit? | every supported pair of types, fluid 1 or 2 cycles (3 with sources), transport 1 to 3, 3 steps of size 1 or 2, velocity of the fluid or prescribed |
| `pm_rounds` | Does every collective call return, with all copies equal to the outcome of all notes? | 3 processes, 1 key (or item of a set), 2 values, 2 rounds, 3 notes: rounds without notes, conflicting notes, notes made while others are still in the call |
| `lm_markers` | Are markers found again, sorted into the finest level and not multiplied by a regrid? | hierarchies of 1 to 3 levels with several patches, 2 regrids, 4 moves: markers cross cells, patches, fine levels and walls |
| `fac_cycles` | Do the cycles keep residuals and corrections consistent? | 1 to 4 levels, all three cycles with and without pre- and post-smoothing, 2 solves, with and without a regrid in between |
| `ib_pressure` (violation) | Are source pressures those at the updated locations? | one step |
| `ft_velocity` (violation) | Does a later cycle advect with the updated fluid velocity? | one step of two cycles |
| `lm_doubled` (violation) | Is each marker there once after the first regrid? | one marker under the initial fine level |

Why the bounds are enough: the protocols remember one step, one cycle or one
redistribution, so two or three rounds reach every combination of stale and
fresh data; step sizes differ, so a history that is off by one is seen; two
nodes suffice because nodes interact only through the numbering. The counters
that grow (`MaxSteps`, `MaxRestarts`, `MaxHistory`, `MaxMoves`, `MaxShift`) are
bounded in the guards, and so are `MaxRounds`, `MaxChanges`, `MaxRegrids` and
`MaxSolves` of the other modules. Three processes are the least with a sender that is neither the
first nor the last; four levels are the least at which a W-cycle revisits a level
that is revisited itself.

Some instances leave out what the code gets wrong. `ld_mesh` uses periodic domains
wide enough that no ghost region holds a cell twice (a process that sees one node
in two places shifts the shared `LNode` twice, `LDataManager.cpp:1339`) and
displaces structures only where no patch has ghost copies (copies come back as
further nodes, `LDataManager.cpp:938`), as `CopiesAssumption` says. In `hi_chain` the root has no state
variables: those of an IB integrator, its markers, lose their data because the new
context is deallocated before the swap (`IBExplicitHierarchyIntegrator.cpp:446`).
`start_time` is read after the clock was set from it (`HierarchyIntegrator.cpp:139`),
which `ConstructedTime` models.

The violation runs are disagreements between the code and its own comments,
messages or documentation; `findings` in `PROJECT.json` quotes each.

## 5. Proofs

The theorems hold for every value of the constants that the assumptions in the
modules admit. `theorems` in `PROJECT.json` lists them. Each section below names
the inductive invariant and why it is needed.

`HierarchyIntegrator_proofs`. `TypeOK`, `LockStep`, `ProposedStepAccepted` and
`HistoryGrowsGradually` hold for every chain, input and bound. `LockStep` is
inductive once the restart file is known to be in lock step as well;
`ProposedStepAccepted` needs that a step is only taken before the end time;
`HistoryGrowsGradually` needs `LockStep`, because the limit is taken from the
history of each integrator and the step is recorded in all of them.
`CurrentDataKept` proves `CurrentDataAtIntegratorTime` by following the times of
current and new data through a step and through the restart file (`DataInv`); its
hypothesis `NoRootData` excludes the markers of an IB integrator, which lose their
data (section 4). `StepSizesSteady` proves `SteadyStepSizes`. `CyclesComplete`
proves `NestedCyclesComplete`: `NestedInv` describes the pending calls of a cycle
by three numbers, the integrator that began it, the one that is at work, and the
cycle, from which all cycle counters follow. `HistoryComplete` proves
`HistoryAccountsForTime`, with facts on the sum of a history; its hypothesis
`DefaultStart` says that `start_time` is 0, because the clock of a new run is set
before the input is read (`HierarchyIntegrator.cpp:139`) and with another start
the steps do not add up to the time since the start.

`RegridControl_proofs`. `TypeOK`, `NodesInReach` and `StepsInReach`. The
invariant `Paid` strengthens the first: the distance plus `GrowthFactor` times
the last CFL number (the most the old velocity of the next step can add) is at
most `(1 + GrowthFactor)` times the estimate plus `MaxCfl`. For the second,
`Regular` says that the last regrid was at a multiple of the interval and that
each step adds at most `2 * MaxCfl`; the two lemmas on division with remainder
carry it.

`IBExplicit_proofs`. All invariants of the run and the refinement
(`SchemeImplemented`: `Spec => ImplementsScheme`). `IInv` says what the data of a
step is when a stage begins: only current data between two steps (`Dropped`), what
the strategies know (`Told`), with what a step starts (`Started`), and, symbolically,
the force at the old time, the positions and the velocity of a cycle, its force,
fluid and interpolated velocity (`Computed`). With it each action is a step of
`IBScheme` or a stutter.

`FluidTransport_proofs`. `TypeOK`, `CyclesComplete` (each solver has done exactly
its cycles when the step ends), `OperatorsMatchStep`, `TransportedByTheFluid` and the
two refinements (`FluidSchemeImplemented`, `TransportSchemeImplemented`). `Turns`
relates the cycle counters to the place in the step, which bounds them;
`OperatorsCurrent` says that between steps an operator without a flag fits the grid
and the size of the previous step, and within a step all of them fit this one;
`Advected` carries the velocity through the step. The refinements rest on `SInv`:
before each cycle the right-hand side holds what was fixed at the beginning of the
step and nothing else, that is, a cycle takes back exactly the terms it added
(`TermsTakenBack`), and the scratch and old convective terms are those of the start.

`FACPreconditioner_proofs`. `TypeOK` and `ResidualFlag` for any number of levels,
any right-hand side and any relaxation. `TypeOK` has to say how the pending calls
fit together (`Nested`): levels descend by one from the finest, and a call that has
begun its work is above the coarsest level; from this the recursion never leaves
the hierarchy. `ResidualFlag` is inductive with it: until the first relaxation or
coarsest solve there is only zero to prolong. `VCycleSolves` is `CycleSolves` for
V-cycles, with and without presmoothing. Its invariant `VInv` says what every
pending call knows: the right-hand side of the next coarser level is the residual
of its own equation (`ErrorEquation`), so the error that comes back (`Solved`) is
the one that is missing; a level without cells at the point has nothing to add
there.

`ParallelMap_proofs`. `TypeOK`, `ChangesApplied` and `ReplicasAgree` for any number
of processes, keys and calls. The invariant ties what is in transit to what was
noted: every message tells what its sender noted for the call it has begun
(`Honest`), the notes a process holds are those of its next or present call
(`Held`), past the first reduction every process has begun the call, so its notes
are final (`Joined`), the loop over the broadcasts knows who has notes (`Looping`),
and a map in the middle of a call is the outcome of the previous one merged with
the notes heard so far (`Merged`).

`LMarkerUtilities_proofs`. `TypeOK`, `NoMarkerLost`, `FinestCellAfterRegrid` for any
number of levels, and `RegridKeepsCopies`. The invariant says of every mark in which
cell of its level it is kept and how far it may have drifted from there (`Near`):
in `n` of at most `MaxMoves` steps at most that share of the ghost width of the
coarsest level, walls and patch ends only shortening the way (`StepInReach`).
Therefore the collection finds every coarsened mark in the ghost box of the patch
it lies in (`CollectedMarks`), the count agrees and the program goes on.
Filling the levels keeps what is there and gives every covered mark a copy one
level finer (`Complete`); the finest copy of a marker survives the pruning, and
what survives is covered by no finer level, because levels are nested and refine
whole cells (`InvalidMeansCovered`, `NotInvalidBelongs`). For the number of copies,
sums over bags are split: with two levels, what is refined is what is pruned
(`TwoLevelsKeepCopies`).

`LDataManager_proofs`. All properties of `ld_mesh`, for any nodes, processes, levels,
layouts and widths that meet the assumptions of the module. `IInv` gives every node a
home: the cell in which the last redistribution found it. The patch interiors list
exactly the nodes of each cell, the ghost cells hold copies only while the level is
synched (`Sorted`), and a node is at most as many cells from home as there were time
steps. Nodes of displaced structures have left the patches for the list of their
process, each listed once (`DisplacedOnce`). `InBuffer` remembers from which cell a
node started when the level was regridded: the patches cover the tag buffer around
it, so a node is still over a patch. From this and the widths
(`MaxMoves <= CflWidth <= GhostWidth`, `MaxMoves <= TagBuffer`) follows that the
patch which now covers a node finds it, in its interior or among the ghost copies,
and no other patch takes it (`InReach`, `EachNodeOnce`). `Numbered` says that the
processes number the nodes consecutively without gaps; with it the local and
nonlocal indices that the renumbering assigns lead through the ghosted vector to the
node they belong to (`IndicesRight`, `IndicesAgree`), and the scatter of the vectors
moves each value to the new number of its node, from which the refinement
`MeshImplemented` follows action by action. Much of the module is the theory this
needs: concatenations of per-cell sequences and where their parts begin, and lists of
a set without repetition. Two hypotheses restrict it: structures are displaced only on
layouts where no ghost cell stands for a cell of a patch (`CopiesAssumption`), and
`ShiftsRecorded` excludes periodic levels so short that a patch with its search
region holds a cell twice (`NoCellTwice`). Both describe where the code goes wrong
(section 4).

Each module proves the induction rules it uses: a set of numbers has a least element,
and a set of numbers with zero and the successors of its members holds all of them.
They are stated for sets since the provers cannot instantiate predicates.
`LMarkerUtilities_proofs` adds the theory of the sum over a finite set
(`SumFunctionOnSet`).

Only model-checked: liveness (`Finishes`, `CallsReturn`), which is out of the
prover's reach; `CycleSolves` for W- and F-cycles.

## 6. Not modelled

Linear algebra, finite-difference kernels, boundary conditions, force laws and
file formats: floating-point data without protocol. The finite element methods
need libMesh. `ParallelEdgeMap` and the streams that carry items are not modelled,
nor are markers at periodic boundaries. `IBImplicitStaggeredHierarchyIntegrator` always aborts in
`initializeHierarchyIntegrator`. SAMRAI, PETSc and MPI are external: the models
contain what the code uses of them (`fillData`, `equalEps`, ordered collective
calls). `MaxCfl` in `RegridControl` is an assumption on the flow: the code limits
the CFL number of the old velocity only. `LDataManager` is modelled on one level
and with a ghost width of at least `CFL_WIDTH`.
