\* Three executions of an IB integrator over a Navier-Stokes solver: varying
\* stable step sizes, step-size changes refused, end times moved by restarts.
SPECIFICATION Spec
CONSTANTS
    N = 2
    IBRoot = TRUE
    Stateful = {2}
    MultiStep = {}
    IterativeOnly = {}
    CycleChoices <- EachOnce
    StartTimes = {0}
    EndTimes = {10, 16}
    DtMax <- LongSteps
    StableDts = {2, 5}
    GrowthFactor = 2
    ErrorOnDtChange = TRUE
    MaxSteps = 4
    MaxHistory = 3
    MaxRestarts = 2
    Tol = 1
    Null = Null
INVARIANTS
    HistoryAccountsForTime
    HistoryGrowsGradually
    ProposedStepAccepted
    SteadyStepSizes
PROPERTY
    Finishes
