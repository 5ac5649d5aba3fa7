\* Two nodes that move, on two processes, in a domain with walls and in a
\* periodic one; structures are displaced where no patch has ghost copies.
SPECIFICATION Spec
CONSTANTS
    Nodes = {0, 1}
    Ranks = 2
    Levels <- WallsAndPeriodic
    GhostWidth = 2
    CflWidth = 2
    TagBuffer = 2
    MaxMoves = 2
    Structures = {{0}, {0, 1}}
    Displacements <- Shifts
    MaxShift = 2
INVARIANTS
    TypeOK
    EachNodeOnce
    IndicesAgree
    InReach
    ShiftRecorded
PROPERTIES
    ImplementsMesh
