SPECIFICATION Spec
CONSTANTS
  Marker = {m1, m2}
  Hierarchies <- OneToThreeLevels
  MaxLevels = 3
  Ghosts = 1
  Displacements <- CellToEitherSide
  InitPosns <- Posns
  MaxMoves = 4
  MaxRegrids = 2
INVARIANTS TypeOK NoMarkerLost FinestCellAfterRegrid
PROPERTY RegridKeepsCopies
