\* Regridding by CFL number, by step count or never; three restarts.
SPECIFICATION Spec
CONSTANTS
    CflIntervals = {0, 2}
    StepIntervals = {0, 5}
    MaxCfl = 1
    GrowthFactor = 2
    CflWidth = 5
    MaxSteps = 8
    MaxRestarts = 3
INVARIANTS
    TypeOK
    NodesInReach
    StepsInReach
