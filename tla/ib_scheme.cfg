\* All schemes with one to three cycles, with and without fluid sources, a force
\* that depends on time, regrids and restarts between the steps.
SPECIFICATION Spec
CONSTANTS
    Schemes <- AllSchemes
    Cycles = {1, 2, 3}
    TimeDependent = TRUE
    SourceChoices = {TRUE, FALSE}
    MaxSteps = 3
    MaxRestarts = 2
    Null = Null
INVARIANTS
    TypeOK
    MidpointPositionsFresh
    TransfersAreAdjoint
    GhostsFresh
    RebuiltAfterRegrid
    VelocityAlreadyInterpolated
PROPERTY
    ImplementsScheme
