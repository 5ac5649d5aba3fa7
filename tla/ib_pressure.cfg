\* A structure with fluid sources.
SPECIFICATION Spec
CONSTANTS
    Schemes <- AllSchemes
    Cycles = {1, 2, 3}
    TimeDependent = TRUE
    SourceChoices = {TRUE}
    MaxSteps = 3
    MaxRestarts = 2
    Null = Null
INVARIANT
    PressureAtUpdatedLocations
