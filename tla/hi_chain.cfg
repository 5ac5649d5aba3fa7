\* Two executions of an IB integrator over a Navier-Stokes and an
\* advection-diffusion solver, every mix of cycle numbers, varying flow.
SPECIFICATION Spec
CONSTANTS
    N = 3
    IBRoot = TRUE
    Stateful = {2, 3}
    MultiStep = {2}
    IterativeOnly = {3}
    CycleChoices <- AllCycles
    StartTimes = {0, 5}
    EndTimes = {7}
    DtMax <- SameSteps
    StableDts = {2, 3}
    GrowthFactor = 2
    ErrorOnDtChange = FALSE
    MaxSteps = 3
    MaxHistory = 3
    MaxRestarts = 1
    Tol = 1
    Null = Null
INVARIANTS
    TypeOK
    LockStep
    NestedCyclesComplete
    CurrentDataAtIntegratorTime
