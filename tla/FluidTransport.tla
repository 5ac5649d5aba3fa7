--------------------------- MODULE FluidTransport ---------------------------
(***************************************************************************)
(* A time step of the fluid solver (INSStaggeredHierarchyIntegrator) with  *)
(* an advection-diffusion solver (AdvDiffSemiImplicitHierarchyIntegrator)  *)
(* for a quantity that the flow transports.                                *)
(*                                                                         *)
(* Both solvers keep their solution in the current and new contexts, the   *)
(* convective term in a scratch vector, the term of the previous step in   *)
(* N_old, and one right-hand side per time step, to which each cycle adds  *)
(* its terms before the solve and from which it takes them back.  Their    *)
(* code is the same in these respects, so each operation is written once   *)
(* for a solver i.  The fluid solver hands its velocity to the other one   *)
(* through the contexts of the face variable u.                            *)
(*                                                                         *)
(* The quantity is advected by the fluid, or by another face variable, for *)
(* which a velocity function was registered (prescribed).                  *)
(*                                                                         *)
(* Linear operators and solvers are built for a grid and, some of them,    *)
(* for a step size; flags say which have to be built again.                *)
(***************************************************************************)
EXTENDS ConvectiveTerms

CONSTANTS
    FluidSchemes,       \* time stepping of the fluid solver (of Schemes)
    TransportSchemes,   \* time stepping of the advection-diffusion solver
    DtValues,           \* step sizes
    MaxSteps            \* bound on the number of steps

\* Creeping flow with sources is excluded: only the convective branch computes
\* the source term that integrateHierarchy adds, the other one adds a scratch
\* array that was never set.
ASSUME SchemesAssumption ==
    /\ FluidSchemes \subseteq Schemes
    /\ \A s \in FluidSchemes : s.sources => s.type # "NONE"
    /\ TransportSchemes \subseteq {s \in Schemes : ~s.sources}
ASSUME StepsAssumption == DtValues \subseteq Nat \ {0} /\ MaxSteps \in Nat

Solvers == {"fluid", "transport"}

\* Operators and solvers of each integrator; those with the step size in them.
Operators ==
    {"vectors", "convective", "velocity", "pressure", "stokes",
     "transport_convective", "helmholtz_rhs", "helmholtz"}
DtDependent == {"velocity", "stokes", "helmholtz_rhs", "helmholtz"}

VARIABLES
    pc,             \* where the program is, of Places
    scheme,         \* time stepping of each solver
    prescribed,     \* u has a velocity function and is not the fluid's velocity
    step,           \* d_integrator_step
    dt,             \* size of this step
    dtPrevious,     \* d_dt_previous[0], 0 before the first step
    cycle,          \* cycles each solver has done in this step, -1 between
                    \* steps
    current, new,   \* the solutions in the current and new contexts
    N,              \* the convective term in the scratch vector
    oldCurrent,     \* N_old in the current context
    oldNew,         \* N_old in the new context
    rhs,            \* the right-hand side
    solved,         \* the right-hand side of the last solve of this step (history)
    u,              \* u in the current, scratch and new context: its
                    \* value at the old, half and new time
    needsInit,      \* the operators whose needs-init flag is set
    built           \* for each operator: on the present grid?  step size?

configuration == <<scheme, prescribed>>
clock == <<step, dt, dtPrevious>>
vars == <<pc, configuration, clock, cycle, current, new, N, oldCurrent, oldNew, rhs, solved,
          u, needsInit, built>>

Places == {"idle", "velocity", "transport", "fluid", "rest_velocity", "rest", "post"}

NoTerms == [i \in Solvers |-> NoTerm]

First == step = 0
Type(i, k) == Effective(scheme[i], First, k)
CyclesOf(i) == NumberOfCycles(scheme[i], First)

\* No preprocessing function refuses this combination (TBOX_ERROR).
Supported(s, firstStep) ==
    LET cycles(i) == NumberOfCycles(s[i], firstStep) IN
    /\ cycles("fluid") \in {1, cycles("transport")}
    /\ \A i \in Solvers :
          Effective(s[i], firstStep, 0) \in {"MIDPOINT_RULE", "TRAPEZOIDAL_RULE"}
              => cycles(i) > 1

\* The velocity function at the end of step n.
Function(n) == {[function |-> n]}

\* The velocity that advects solver i.
Velocity(i) == IF i = "fluid" THEN InTime(current[i], new[i]) ELSE u
Convective(i, t) == Term(Velocity(i)[t], InTime(current[i], new[i])[t])

-----------------------------------------------------------------------------
(* Regridding and restarting, between two steps *)

\* The state variables are carried over to the new grid; the velocity is
\* projected when its divergence has grown too much.  The reset of the hierarchy
\* configuration sets the flag of every operator.
RegridHierarchy ==
    /\ pc = "idle"
    /\ \E x \in {current["fluid"], Projected(current["fluid"])} :
          current' = [current EXCEPT !["fluid"] = x]
    /\ needsInit' = Operators
    /\ built' = [o \in Operators |-> [built[o] EXCEPT !.grid = FALSE]]
    /\ UNCHANGED <<pc, configuration, clock, cycle, new, N, oldCurrent, oldNew, rhs, solved, u>>

\* Faulty variant of FileN: the convective terms are not in the file.
FileWithoutN == NoTerms

\* N_old is a state variable, so the restart file has it.
FileN == oldCurrent

\* A new process restores the state variables and the step sizes; it copies
\* the fluid's velocity to u, and has no operators yet.
Restart ==
    /\ pc = "idle"
    /\ oldCurrent' = FileN
    /\ u' = IF prescribed THEN u ELSE [u EXCEPT !["old"] = {current["fluid"]}]
    /\ needsInit' = Operators
    /\ built' = [o \in Operators |-> [grid |-> FALSE, dt |-> 0]]
    /\ UNCHANGED <<pc, configuration, clock, cycle, current, new, N, oldNew, rhs, solved>>

-----------------------------------------------------------------------------
(* preprocessIntegrateHierarchy *)

\* Faulty variant of DtChanged: only the first step counts as a change.
DtChangedAtStart(d) == First

DtChanged(d) == First \/ d # dtPrevious

\* Faulty variant of StartVelocity: u keeps what the last step left.
StartVelocityKept == u["old"]

\* A velocity function sets the current context of u, or the fluid solver
\* copies its velocity to it.
StartVelocity == IF prescribed THEN Function(step) ELSE {current["fluid"]}

\* Faulty variant of FirstVelocity: the scratch context is not set.
FirstVelocityWithoutMean == [t \in {"old", "new"} |-> StartVelocity]

\* With no function the new velocity is at first the current one.
FirstVelocity ==
    LET end == IF prescribed THEN Function(step + 1) ELSE StartVelocity IN
    [t \in Times |-> CASE t = "old" -> StartVelocity
                       [] t = "half" -> StartVelocity \cup end
                       [] t = "new" -> end]

\* Halves of the term N that stay on the right-hand side in all cycles.
FixedHalves(i) ==
    CASE Type(i, 0) = "FORWARD_EULER" -> -2
      [] Type(i, 0) = "TRAPEZOIDAL_RULE" -> -1
      [] OTHER -> 0

PreprocessIntegrateHierarchy(d) ==
    LET rebuilt == needsInit \cup (IF DtChanged(d) THEN DtDependent ELSE {})
        by(i) == IF i = "fluid" THEN {current[i]} ELSE StartVelocity
    IN  /\ pc = "idle"
        /\ step < MaxSteps
        /\ dt' = d
        /\ needsInit' = {}
        /\ built' = [o \in Operators |->
                        IF o \in rebuilt THEN [grid |-> TRUE, dt |-> d] ELSE built[o]]
        /\ u' = FirstVelocity
        /\ new' = current
        /\ N' = [i \in Solvers |->
                    IF scheme[i].type = "NONE" THEN N[i] ELSE Term(by(i), {current[i]})]
        /\ oldNew' = [i \in Solvers |-> IF scheme[i].type = "NONE" THEN oldNew[i] ELSE N'[i]]
        /\ rhs' = [i \in Solvers |-> Plus(Nothing, FixedHalves(i), N'[i])]
        /\ cycle' = [i \in Solvers |-> 0]
        /\ pc' = "velocity"
        /\ UNCHANGED <<configuration, step, dtPrevious, current, oldCurrent, solved>>

-----------------------------------------------------------------------------
(* integrateHierarchy *)

\* The advection-diffusion solver sets the velocity itself in later cycles:
\* from the function, or to the current one.
UpdateAdvectionVelocity ==
    /\ pc \in {"velocity", "rest_velocity"}
    /\ u' = IF cycle["transport"] = 0 THEN u
            ELSE LET end == IF prescribed THEN Function(step + 1) ELSE u["old"] IN
                 [u EXCEPT !["half"] = u["old"] \cup end, !["new"] = end]
    /\ pc' = IF pc = "velocity" THEN "transport" ELSE "rest"
    /\ UNCHANGED <<configuration, clock, cycle, current, new, N, oldCurrent, oldNew, rhs,
                   solved, needsInit, built>>

\* The convective term of the latest iterate, from the second cycle on.
Recomputed(i) ==
    LET type == Type(i, cycle[i]) IN
    CASE cycle[i] > 0 /\ type = "MIDPOINT_RULE" -> Convective(i, "half")
      [] cycle[i] > 0 /\ type = "TRAPEZOIDAL_RULE" -> Convective(i, "new")
      [] OTHER -> N[i]

CycleTerm(i) ==
    IF Type(i, cycle[i]) = "ADAMS_BASHFORTH"
    THEN Extrapolated(Recomputed(i), oldCurrent[i], dt, dtPrevious) ELSE Recomputed(i)

\* Halves of the term N that are on the right-hand side during a solve.
CycleHalves(i) ==
    CASE Type(i, cycle[i]) \in {"ADAMS_BASHFORTH", "MIDPOINT_RULE"} -> -2
      [] Type(i, cycle[i]) = "TRAPEZOIDAL_RULE" -> -1
      [] OTHER -> 0

\* One cycle of solver i: terms, solve, reset of the right-hand side.
Solve(i) ==
    LET term == CycleTerm(i)
        f == Forcing(Iterate(step + 1, cycle[i]))
        source == SourceTerm(InTime(current[i], new[i])["half"])
        sources == IF scheme[i].sources THEN 2 ELSE 0
        full == Plus(Plus(Plus(rhs[i], CycleHalves(i), term), 2, f), sources, source)
    IN  /\ N' = [N EXCEPT ![i] = term]
        /\ solved' = [solved EXCEPT ![i] = full]
        /\ new' = [new EXCEPT ![i] = Iterate(step + 1, cycle[i])]
        /\ rhs' = [rhs EXCEPT ![i] =
                      Plus(Plus(Plus(full, -CycleHalves(i), term), -2, f), -sources, source)]
        /\ cycle' = [cycle EXCEPT ![i] = @ + 1]

SolveTransport ==
    /\ pc = "transport"
    /\ Solve("transport")
    /\ pc' = "fluid"
    /\ UNCHANGED <<configuration, clock, current, oldCurrent, oldNew, u, needsInit, built>>

\* The fluid solver; then the new velocity goes to the advection-diffusion
\* solver, which does its remaining cycles if the fluid solver has just one.
SolveFluid ==
    /\ pc = "fluid"
    /\ Solve("fluid")
    /\ u' = IF prescribed THEN u
            ELSE [u EXCEPT !["half"] = u["old"] \cup {new'["fluid"]}, !["new"] = {new'["fluid"]}]
    /\ pc' = CASE CyclesOf("fluid") # CyclesOf("transport") -> "rest_velocity"
               [] cycle'["fluid"] < CyclesOf("fluid") -> "velocity"
               [] OTHER -> "post"
    /\ UNCHANGED <<configuration, clock, current, oldCurrent, oldNew, needsInit, built>>

SolveTransportAgain ==
    /\ pc = "rest"
    /\ Solve("transport")
    /\ pc' = IF cycle'["transport"] < CyclesOf("transport") THEN "rest_velocity" ELSE "post"
    /\ UNCHANGED <<configuration, clock, current, oldCurrent, oldNew, u, needsInit, built>>

-----------------------------------------------------------------------------
(* postprocessIntegrateHierarchy and resetTimeDependentHierarchyData: the  *)
(* contexts are swapped, scratch and new data are deallocated              *)

\* Faulty variant of NewOld: N_old is not a state variable.
NewOldKept == oldCurrent

NewOld == oldNew

ResetTimeDependentHierarchyData ==
    /\ pc = "post"
    /\ current' = new
    /\ oldCurrent' = NewOld
    /\ u' = [t \in Times |-> u["new"]]
    /\ dtPrevious' = dt
    /\ step' = step + 1
    /\ cycle' = [i \in Solvers |-> -1]
    /\ N' = NoTerms
    /\ oldNew' = NoTerms
    /\ rhs' = [i \in Solvers |-> Nothing]
    /\ solved' = rhs'
    /\ pc' = "idle"
    /\ UNCHANGED <<configuration, dt, new, needsInit, built>>

-----------------------------------------------------------------------------
(* Specification *)

Init ==
    /\ pc = "idle"
    /\ scheme \in {[i \in Solvers |-> IF i = "fluid" THEN f ELSE q] :
                       f \in FluidSchemes, q \in TransportSchemes}
    /\ \A firstStep \in BOOLEAN : Supported(scheme, firstStep)
    /\ prescribed \in BOOLEAN
    /\ step = 0 /\ dt = 0 /\ dtPrevious = 0
    /\ cycle = [i \in Solvers |-> -1]
    /\ current = [i \in Solvers |-> Iterate(0, 0)]
    /\ new = current
    /\ N = NoTerms
    /\ oldCurrent = N
    /\ oldNew = N
    /\ rhs = [i \in Solvers |-> Nothing]
    /\ solved = rhs
    /\ u = [t \in Times |-> IF prescribed THEN Function(0) ELSE {Iterate(0, 0)}]
    /\ needsInit = Operators
    /\ built = [o \in Operators |-> [grid |-> FALSE, dt |-> 0]]

Next ==
    \/ RegridHierarchy
    \/ Restart
    \/ \E d \in DtValues : PreprocessIntegrateHierarchy(d)
    \/ UpdateAdvectionVelocity
    \/ SolveTransport
    \/ SolveFluid
    \/ SolveTransportAgain
    \/ ResetTimeDependentHierarchyData

Spec == Init /\ [][Next]_vars

-----------------------------------------------------------------------------
(* Properties *)

\* The members keep their types.
TypeOK ==
    /\ pc \in Places
    /\ scheme \in [Solvers -> Schemes]
    /\ prescribed \in BOOLEAN
    /\ step \in 0..MaxSteps
    /\ dt \in DtValues \cup {0}
    /\ dtPrevious \in DtValues \cup {0}
    /\ cycle \in [Solvers -> Int]
    /\ \A i \in Solvers : cycle[i] \in -1..CyclesOf(i)
    /\ DOMAIN u = Times
    /\ needsInit \subseteq Operators
    /\ DOMAIN built = Operators

\* Each solver solves exactly the systems of its time stepping scheme, in every
\* cycle and step: the terms kept in scratch vectors, in N_old and on the
\* right-hand side are those that the scheme says, whatever cycles, step
\* changes, regrids and restarts came before.
FluidScheme == INSTANCE ConvectiveScheme
    WITH scheme <- scheme["fluid"], cycle <- cycle["fluid"],
         start <- current["fluid"], latest <- new["fluid"], velocity <- Velocity("fluid"),
         previous <- oldCurrent["fluid"], before <- dtPrevious, solved <- solved["fluid"]

TransportScheme == INSTANCE ConvectiveScheme
    WITH scheme <- scheme["transport"], cycle <- cycle["transport"],
         start <- current["transport"], latest <- new["transport"], velocity <- u,
         previous <- oldCurrent["transport"], before <- dtPrevious, solved <- solved["transport"]

ImplementsFluidScheme == FluidScheme!SSpec
ImplementsTransportScheme == TransportScheme!SSpec

\* No system is solved by an operator of another grid or step size
\* (d_*_needs_init and the comparison of dt with d_dt_previous).
OperatorsMatchStep ==
    pc \in {"transport", "fluid", "rest"} =>
        \A o \in Operators : built[o].grid /\ (o \in DtDependent => built[o].dt = dt)

\* The advection-diffusion solver begins every step with the velocity of the
\* fluid, as it is after a regrid or restart, and its half-time velocity is
\* the mean of its old and new ones.
TransportedByTheFluid ==
    pc \in {"transport", "rest"} =>
        /\ ~prescribed => u["old"] = {current["fluid"]}
        /\ u["half"] = u["old"] \cup u["new"]

\* "Update the advection velocities used by the advection-diffusion solver":
\* in later cycles it uses the latest velocity of the fluid solver.
UsesUpdatedVelocity ==
    pc \in {"transport", "rest"} /\ ~prescribed => u["new"] = {new["fluid"]}
=============================================================================
