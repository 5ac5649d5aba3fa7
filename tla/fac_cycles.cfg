\* Two solves in a row with each kind of cycle, on one to four levels.
SPECIFICATION Spec
CONSTANTS
    MaxLevel = 3
    Value = {0, 1}
    Change <- Changes
    Option <- AllOptions
    MaxSolves = 2
INVARIANTS
    TypeOK
    ResidualFlag
    CycleSolves
