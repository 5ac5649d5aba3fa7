------------------------- MODULE HierarchyIntegrator -------------------------
(***************************************************************************)
(* Time advancement by a chain of hierarchy integrators.                   *)
(*                                                                         *)
(* IBTK::HierarchyIntegrator drives every time-dependent solver of the     *)
(* library.  Integrator 1 is the root the main program talks to (an        *)
(* IBExplicitHierarchyIntegrator when IBRoot holds); integrator i + 1 is   *)
(* the child of integrator i (the Navier-Stokes solver, then its           *)
(* advection-diffusion solver).  Each integrator keeps its own clock, step *)
(* counter, history of time step sizes and cycle counters, and its own     *)
(* "current" and "new" patch data; the code keeps them together only by    *)
(* making every parent call its child at the right moment.                 *)
(*                                                                         *)
(* Simulation time is an integer number of ticks; equalEps is comparison   *)
(* up to Tol ticks.  The state of the patch data is the time it belongs    *)
(* to, or Null when it is not allocated.  d_current_dt is a number exactly *)
(* when d_current_num_cycles is not -1 and is then the size of the step    *)
(* under way, so it has no variable of its own.                            *)
(***************************************************************************)
EXTENDS Integers, Sequences

CONSTANTS
    N,              \* number of integrators in the chain
    IBRoot,         \* integrator 1 is an IBExplicitHierarchyIntegrator
    Stateful,       \* integrators that registered state variables
    MultiStep,      \* integrators with a multistep convective scheme that is
                    \* started by a two-cycle scheme
    IterativeOnly,  \* integrators whose convective scheme needs two cycles
    CycleChoices,   \* num_cycles of each integrator, one choice per execution
    StartTimes,     \* start_time of the input file, one choice per execution
    EndTimes,       \* end_time of the input file, one choice per execution
    DtMax,          \* dt_max of each integrator
    StableDts,      \* CFL-limited step sizes the flow may impose on the solvers
    GrowthFactor,   \* dt_growth_factor; the limit is off when it is 0
    ErrorOnDtChange,\* error_on_dt_change of the immersed boundary integrator
    MaxSteps,       \* max_integrator_steps
    MaxHistory,     \* MAX_DT_PREVIOUS_SIZE (31 in the code)
    MaxRestarts,    \* bound on the number of restarts
    Tol,            \* tolerance of MathUtilities::equalEps, in ticks
    Null            \* data that is not allocated

Integrators == 1..N

ASSUME ChainAssumption == N \in Nat \ {0} /\ IBRoot \in BOOLEAN
ASSUME IntegratorSetsAssumption ==
    Stateful \subseteq Integrators /\ MultiStep \subseteq Integrators
ASSUME CyclesAssumption == CycleChoices \subseteq [Integrators -> Nat \ {0}]
ASSUME TimesAssumption ==
    /\ StartTimes \subseteq {s \in Nat : s = 0 \/ s > Tol}
    /\ EndTimes \subseteq Nat
    /\ Tol \in Nat
    /\ MaxSteps \in Nat
    /\ MaxHistory \in Nat \ {0}
    /\ MaxRestarts \in Nat
    /\ GrowthFactor \in Nat
    /\ ErrorOnDtChange \in BOOLEAN
ASSUME DtAssumption ==
    /\ DtMax \in [Integrators -> {d \in Nat : d > Tol}]
    /\ StableDts \subseteq {d \in Nat : d > Tol}

VARIABLES
    pc,             \* phase of the main program
    time,           \* d_integrator_time
    start,          \* d_start_time
    step,           \* d_integrator_step
    dtPrevious,     \* d_dt_previous, most recent first
    endTime,        \* d_end_time, the same in every integrator
    inputCycles,    \* d_num_cycles
    newTime,        \* new_time of the step under way
    numCycles,      \* d_current_num_cycles, -1 between steps
    cycleNum,       \* d_current_cycle_num, -1 between steps and before a cycle
    calls,          \* calls of integrateHierarchy still to be made
    cur,            \* time of the data in the current context
    new,            \* time of the data in the new context
    dtCheckArmed,   \* the static skip_check_for_dt_change has become false
    fromRestart,    \* RestartManager::isFromRestart
    saved,          \* restart file: the persisted members, or Null
    restarts,       \* restarts so far
    began           \* step of the root when this execution began (history)

clock == <<time, start, step, dtPrevious>>
input == <<endTime, inputCycles, fromRestart, began>>
cycles == <<numCycles, cycleNum, calls>>
data == <<cur, new>>
vars == <<pc, clock, input, newTime, cycles, data, dtCheckArmed, saved, restarts>>

Errors == {"badStepSize", "badCycles", "dtChanged", "assertion", "undefined"}
Ended == Errors \cup {"done"}

EqualEps(a, b) == a - b <= Tol /\ b - a <= Tol

InitialTime(i) == EqualEps(time[i], start[i])

\* getNumberOfCycles: the multistep solvers take at least two cycles at the
\* initial time, where there is no history to extrapolate from.
GetNumberOfCycles(i) ==
    IF i \in MultiStep /\ InitialTime(i) /\ inputCycles[i] < 2
    THEN 2 ELSE inputCycles[i]

\* Faulty variants of ChildCalls: a leaf that calls a child it does not have,
\* and a parent with one cycle that iterates its child only once.
LeafCallsChild(i, cycle) == <<[who |-> i + 1, cycle |-> cycle]>>

OneChildCall(i, cycle) ==
    IF i = N THEN <<>> ELSE <<[who |-> i + 1, cycle |-> cycle]>>

\* The calls a cycle of integrator i makes on its child: the same cycle when
\* both iterate together, every cycle of the child when i takes only one.
ChildCalls(i, cycle) ==
    IF i = N THEN <<>>
    ELSE IF numCycles[i] > 1 THEN <<[who |-> i + 1, cycle |-> cycle]>>
    ELSE [k \in 1..GetNumberOfCycles(i + 1) |-> [who |-> i + 1, cycle |-> k - 1]]

-----------------------------------------------------------------------------
(* The step size *)

GrowthLimited(i) == ~InitialTime(i) /\ GrowthFactor >= 1

\* d_dt_previous[0] of an empty deque is undefined.
ReadsEmptyHistory == \E i \in Integrators : GrowthLimited(i) /\ dtPrevious[i] = <<>>

\* Faulty variant of DtLimits: growth is limited from the oldest step kept.
LimitsFromOldest(i, stable) ==
    {DtMax[i], stable}
        \cup (IF GrowthLimited(i)
              THEN {GrowthFactor * dtPrevious[i][Len(dtPrevious[i])]} ELSE {})

\* getMaximumTimeStepSizeSpecialized: every bound integrator i puts on dt.
\* The immersed boundary integrator itself has no stability limit.
DtLimits(i, stable) ==
    {DtMax[i]}
        \cup (IF IBRoot /\ i = 1 THEN {} ELSE {stable})
        \cup (IF GrowthLimited(i) THEN {GrowthFactor * dtPrevious[i][1]} ELSE {})

\* getMaximumTimeStepSize: dt is the least of these bounds over the chain.
AllLimits(stable) ==
    (UNION {DtLimits(i, stable) : i \in Integrators})
        \cup {endTime - time[i] : i \in Integrators}

\* Faulty variant of StepsRemaining: the end time is compared exactly.
StepsRemainingExactly == step[1] < MaxSteps /\ time[1] < endTime

StepsRemaining ==
    step[1] < MaxSteps /\ time[1] < endTime /\ ~EqualEps(time[1], endTime)

-----------------------------------------------------------------------------
(* Construction, initialization and restart files *)

Each(v) == [i \in Integrators |-> v]

Init ==
    /\ pc = "down"
    /\ time = Each(0)
    /\ start = Each(0)
    /\ step = Each(0)
    /\ dtPrevious = Each(<<>>)
    /\ endTime = 0
    /\ inputCycles \in CycleChoices
    /\ newTime = 0
    /\ numCycles = Each(-1)
    /\ cycleNum = Each(-1)
    /\ calls = <<>>
    /\ cur = Each(Null)
    /\ new = Each(Null)
    /\ dtCheckArmed = FALSE
    /\ fromRestart = FALSE
    /\ saved = Null
    /\ restarts = 0
    /\ began = 0

\* The members every constructor sets, in a new process.
FreshProcess ==
    /\ pc = "down"
    /\ pc' = "constructed"
    /\ endTime' \in EndTimes
    /\ inputCycles' \in CycleChoices
    /\ newTime' = 0
    /\ numCycles' = Each(-1)
    /\ cycleNum' = Each(-1)
    /\ calls' = <<>>
    /\ cur' = Each(Null)
    /\ new' = Each(Null)
    /\ dtCheckArmed' = FALSE
    /\ UNCHANGED <<saved, restarts>>

\* The clock of a new run is set from the default start time, 0, before
\* getFromInput reads start_time.
ConstructedTime == 0

\* A run from the input file.
Construct ==
    /\ FreshProcess
    /\ fromRestart' = FALSE
    /\ time' = Each(ConstructedTime)
    /\ \E s \in StartTimes : start' = Each(s)
    /\ step' = Each(0)
    /\ dtPrevious' = Each(<<>>)
    /\ began' = 0

\* A run from a restart file: getFromRestart restores what putToDatabase
\* wrote, then getFromInput reads end_time and num_cycles again.
ConstructFromRestart ==
    /\ saved # Null
    /\ FreshProcess
    /\ fromRestart' = TRUE
    /\ time' = saved.time
    /\ start' = saved.start
    /\ step' = saved.step
    /\ dtPrevious' = saved.dtPrevious
    /\ began' = saved.step[1]

\* Every integrator gets its current data, computed at the integrator time or
\* read from the restart file.
InitializePatchHierarchy ==
    /\ pc = "constructed"
    /\ pc' = "ready"
    /\ cur' = [i \in Integrators |->
                  IF i \notin Stateful THEN Null
                  ELSE IF fromRestart THEN saved.cur[i] ELSE time[i]]
    /\ UNCHANGED <<clock, input, newTime, cycles, new, dtCheckArmed, saved, restarts>>

\* Faulty variant of RestartFile: the new context is written.
RestartFileOfNewData ==
    [time |-> time, start |-> start, step |-> step, dtPrevious |-> dtPrevious, cur |-> new]

\* The main program writes a restart file between two steps.
RestartFile == [time |-> time, start |-> start, step |-> step,
                dtPrevious |-> dtPrevious, cur |-> cur]

PutToDatabase ==
    /\ pc = "ready"
    /\ saved # RestartFile
    /\ saved' = RestartFile
    /\ UNCHANGED <<pc, clock, input, newTime, cycles, data, dtCheckArmed, restarts>>

\* The process ends, in the middle of a step or after the last one, and is
\* started again later.
Stop ==
    /\ pc # "down"
    /\ restarts < MaxRestarts
    /\ pc' = "down"
    /\ restarts' = restarts + 1
    /\ UNCHANGED <<clock, input, newTime, cycles, data, dtCheckArmed, saved>>

-----------------------------------------------------------------------------
(* One time step *)

\* The main loop asks for the largest step and calls advanceHierarchy, which
\* clips it at the end time and refuses one that is negative or zero to
\* machine precision.
AdvanceHierarchy(stable) ==
    /\ pc = "ready"
    /\ StepsRemaining
    /\ ~ReadsEmptyHistory
    /\ \E dt \in AllLimits(stable) :
         /\ \A d \in AllLimits(stable) : dt <= d
         /\ newTime' = IF time[1] + dt > endTime THEN endTime ELSE time[1] + dt
         /\ pc' = IF newTime' < time[1] \/ EqualEps(time[1], newTime')
                  THEN "badStepSize" ELSE "preprocess"
    /\ UNCHANGED <<clock, input, cycles, data, dtCheckArmed, saved, restarts>>

\* The growth limit reads the front of an empty d_dt_previous.
UndefinedStepSize ==
    /\ pc = "ready"
    /\ StepsRemaining
    /\ ReadsEmptyHistory
    /\ pc' = "undefined"
    /\ UNCHANGED <<clock, input, newTime, cycles, data, dtCheckArmed, saved, restarts>>

\* Faulty variant of ChecksDtChange: the exemption of the first step applies to
\* every step.
ChecksDtChangeUnarmed ==
    IBRoot /\ ErrorOnDtChange /\ ~(InitialTime(1) \/ fromRestart)

\* The immersed boundary integrator compares dt with the previous step size,
\* except in the first step of an execution that starts at the initial time or
\* from a restart file.
ChecksDtChange ==
    IBRoot /\ ErrorOnDtChange /\ (dtCheckArmed \/ ~(InitialTime(1) \/ fromRestart))

DtChanged ==
    /\ dtPrevious[1] # <<>>
    /\ ~EqualEps(newTime - time[1], dtPrevious[1][1])
    /\ ~EqualEps(newTime, endTime)

\* A parent takes one cycle or as many as its child; some convective schemes
\* cannot do with one.
CyclesRejected ==
    \/ \E i \in 1..(N - 1) : GetNumberOfCycles(i) \notin {1, GetNumberOfCycles(i + 1)}
    \/ \E i \in IterativeOnly : GetNumberOfCycles(i) = 1

Faults ==
    IF ChecksDtChange /\ dtPrevious[1] = <<>> THEN {"undefined"}
    ELSE IF ChecksDtChange /\ DtChanged THEN {"dtChanged"}
    ELSE IF CyclesRejected THEN {"badCycles"}
    ELSE {}

\* TBOX_ERROR in a preprocessIntegrateHierarchy of the chain.
RejectTimeStep ==
    /\ pc = "preprocess"
    /\ \E fault \in Faults : pc' = fault
    /\ UNCHANGED <<clock, input, newTime, cycles, data, dtCheckArmed, saved, restarts>>

\* preprocessIntegrateHierarchy of the whole chain: every integrator notes its
\* cycles and allocates its new data; the calls of integrateHierarchy that
\* advanceHierarchy will make are laid out.
PreprocessIntegrateHierarchy ==
    /\ pc = "preprocess"
    /\ Faults = {}
    /\ pc' = "integrate"
    /\ numCycles' = [i \in Integrators |-> GetNumberOfCycles(i)]
    /\ cycleNum' = Each(-1)
    /\ calls' = [k \in 1..GetNumberOfCycles(1) |-> [who |-> 1, cycle |-> k - 1]]
    /\ new' = [i \in Integrators |-> IF i \in Stateful THEN newTime ELSE Null]
    /\ dtCheckArmed' = TRUE
    /\ UNCHANGED <<clock, input, newTime, cur, saved, restarts>>

\* integrateHierarchy of the next integrator: it counts the cycle, asserts that
\* it is the expected one, and calls its child.
IntegrateHierarchy ==
    /\ pc = "integrate"
    /\ calls # <<>>
    /\ LET i == Head(calls).who
           cycle == Head(calls).cycle
       IN /\ cycleNum' = [cycleNum EXCEPT ![i] = @ + 1]
          /\ calls' = ChildCalls(i, cycle) \o Tail(calls)
          /\ pc' = IF cycleNum'[i] = cycle /\ cycleNum'[i] < numCycles[i]
                   THEN "integrate" ELSE "assertion"
    /\ UNCHANGED <<clock, input, newTime, numCycles, data, dtCheckArmed, saved, restarts>>

\* postprocessIntegrateHierarchy of the whole chain: every integrator asserts
\* that all its cycles were done and forgets them; the immersed boundary
\* integrator also deallocates its new data.
PostprocessIntegrateHierarchy ==
    /\ pc = "integrate"
    /\ calls = <<>>
    /\ pc' = IF \A i \in Integrators :
                   /\ i > 1 => numCycles[i] = GetNumberOfCycles(i)
                   /\ cycleNum[i] + 1 = numCycles[i]
             THEN "postprocessed" ELSE "assertion"
    /\ numCycles' = Each(-1)
    /\ cycleNum' = Each(-1)
    /\ new' = IF IBRoot THEN [new EXCEPT ![1] = Null] ELSE new
    /\ UNCHANGED <<clock, input, newTime, calls, cur, dtCheckArmed, saved, restarts>>

\* Faulty variant of PushFront: the history is never shortened.
PushFrontOnly(dt, history) == <<dt>> \o history

\* d_dt_previous: push_front, then pop_back beyond MAX_DT_PREVIOUS_SIZE.
PushFront(dt, history) ==
    LET n == IF Len(history) < MaxHistory THEN Len(history) + 1 ELSE MaxHistory
    IN  [k \in 1..n |-> IF k = 1 THEN dt ELSE history[k - 1]]

\* Faulty variant of Reset: the recursion into the children is missing.
ResetRootOnly == {1}

\* The integrators that resetTimeDependentHierarchyData reaches: the root and,
\* recursively, every child.
Reset == Integrators

\* resetTimeDependentHierarchyData: advance the clocks and swap the new and
\* current data, then drop the new data.
ResetTimeDependentHierarchyData ==
    /\ pc = "postprocessed"
    /\ pc' = "ready"
    /\ dtPrevious' = [i \in Integrators |->
           IF i \in Reset THEN PushFront(newTime - time[i], dtPrevious[i]) ELSE dtPrevious[i]]
    /\ time' = [i \in Integrators |-> IF i \in Reset THEN newTime ELSE time[i]]
    /\ step' = [i \in Integrators |-> IF i \in Reset THEN step[i] + 1 ELSE step[i]]
    /\ cur' = [i \in Integrators |-> IF i \in Stateful \cap Reset THEN new[i] ELSE cur[i]]
    /\ new' = [i \in Integrators |-> IF i \in Reset THEN Null ELSE new[i]]
    /\ UNCHANGED <<start, input, newTime, cycles, dtCheckArmed, saved, restarts>>

\* Faulty variant of Finish: only the end time ends the main loop.
FinishAtEndTime ==
    /\ pc = "ready"
    /\ EqualEps(time[1], endTime)
    /\ pc' = "done"
    /\ UNCHANGED <<clock, input, newTime, cycles, data, dtCheckArmed, saved, restarts>>

\* The main loop ends.
Finish ==
    /\ pc = "ready"
    /\ ~StepsRemaining
    /\ pc' = "done"
    /\ UNCHANGED <<clock, input, newTime, cycles, data, dtCheckArmed, saved, restarts>>

\* After the main loop, or an abort, nothing happens any more.
Terminated == pc \in Ended /\ UNCHANGED vars

-----------------------------------------------------------------------------
(* Specification *)

\* The steps the single thread of a running program takes by itself.
Run ==
    \/ InitializePatchHierarchy
    \/ \E stable \in StableDts : AdvanceHierarchy(stable)
    \/ UndefinedStepSize
    \/ RejectTimeStep
    \/ PreprocessIntegrateHierarchy
    \/ IntegrateHierarchy
    \/ PostprocessIntegrateHierarchy
    \/ ResetTimeDependentHierarchyData
    \/ Finish

Next ==
    \/ Construct
    \/ ConstructFromRestart
    \/ Run
    \/ PutToDatabase
    \/ Stop
    \/ Terminated

\* A running program keeps running; nobody has to write a restart file, kill
\* the program or start it again.
Spec == Init /\ [][Next]_vars /\ WF_vars(Run)

-----------------------------------------------------------------------------
(* Properties *)

Phases == {"down", "constructed", "ready", "preprocess", "integrate", "postprocessed"}

\* A call of integrateHierarchy.
Call == [who : Integrators, cycle : Nat]

RestartFiles ==
    [time : [Integrators -> Int], start : [Integrators -> Int],
     step : [Integrators -> Nat], dtPrevious : [Integrators -> Seq(Int)],
     cur : [Integrators -> Int \cup {Null}]]

\* The type invariant: the members of every integrator, the pending calls and
\* the restart file have the shape the code gives them.
TypeOK ==
    /\ pc \in Phases \cup Ended
    /\ time \in [Integrators -> Int]
    /\ start \in [Integrators -> Int]
    /\ step \in [Integrators -> Nat]
    /\ dtPrevious \in [Integrators -> Seq(Int)]
    /\ endTime \in Nat
    /\ inputCycles \in [Integrators -> Nat \ {0}]
    /\ newTime \in Int
    /\ numCycles \in [Integrators -> Int]
    /\ cycleNum \in [Integrators -> Int]
    /\ calls \in Seq(Call)
    /\ cur \in [Integrators -> Int \cup {Null}]
    /\ new \in [Integrators -> Int \cup {Null}]
    /\ dtCheckArmed \in BOOLEAN
    /\ fromRestart \in BOOLEAN
    /\ saved \in RestartFiles \cup {Null}
    /\ fromRestart => saved \in RestartFiles
    /\ restarts \in 0..MaxRestarts
    /\ began \in Nat

\* Every integrator of the chain agrees with the root on the time, the step
\* and the history: each keeps its own copy, advanced only through the
\* recursion of resetTimeDependentHierarchyData and restored from its own
\* restart database.
LockStep ==
    \A i \in Integrators :
        /\ time[i] = time[1]
        /\ start[i] = start[1]
        /\ step[i] = step[1]
        /\ dtPrevious[i] = dtPrevious[1]

\* advanceHierarchy never refuses the step getMaximumTimeStepSize proposes,
\* whatever the limits, the clipping at end_time and the restarts (the
\* TBOX_ERRORs of advanceHierarchy).
ProposedStepAccepted == pc # "badStepSize"

\* The recorded step sizes grow at most by the growth factor, also across a
\* clipped last step and a restart with a later end time: the history the
\* limit is taken from is the one the step is recorded in.
HistoryGrowsGradually ==
    GrowthFactor >= 1 =>
        \A i \in Integrators : \A k \in 1..(Len(dtPrevious[i]) - 1) :
            dtPrevious[i][k] <= GrowthFactor * dtPrevious[i][k + 1]

SumOf(history) ==
    LET sum[k \in 0..Len(history)] == IF k = 0 THEN 0 ELSE sum[k - 1] + history[k]
    IN  sum[Len(history)]

\* The history accounts for the time: as long as it is complete, its entries
\* are one per step and add up to the time since the start, in every
\* integrator and across restarts.
HistoryAccountsForTime ==
    \A i \in Integrators :
        /\ Len(dtPrevious[i]) = (IF step[i] < MaxHistory THEN step[i] ELSE MaxHistory)
        /\ step[i] <= MaxHistory => time[i] = start[i] + SumOf(dtPrevious[i])

\* The nested fixed-point iterations fit together: no TBOX_ASSERT on the cycle
\* counters fires in any integrator of the chain, whatever the numbers of
\* cycles, in the first step (where multistep schemes take two) and later.
NestedCyclesComplete == pc # "assertion"

\* With error_on_dt_change, two consecutive steps of one execution have the
\* same size unless the second was clipped at the end time
\* (IBExplicitHierarchyIntegrator::preprocessIntegrateHierarchy).
SteadyStepSizes ==
    IBRoot /\ ErrorOnDtChange /\ pc = "ready" /\ step[1] - began >= 2
        /\ Len(dtPrevious[1]) >= 2 /\ ~EqualEps(time[1], endTime)
        => EqualEps(dtPrevious[1][1], dtPrevious[1][2])

\* Between two steps the current context of every integrator holds data of the
\* integrator time ("Reset the current data to equal the new data, update the
\* time level of the current data", HierarchyIntegrator.h:189-190).
CurrentDataAtIntegratorTime ==
    pc \in {"ready", "done"} => \A i \in Stateful : cur[i] = time[i]

\* A running program that is not killed finishes: it reaches the end time, the
\* step limit or an error.
Finishes == pc # "down" ~> pc \in Ended \cup {"down"}
=============================================================================
