SPECIFICATION Spec
CONSTANTS
  Marker = {m1}
  Hierarchies <- TwoLevels
  MaxLevels = 3
  Ghosts = 1
  Displacements <- CellToEitherSide
  InitPosns <- Posns
  MaxMoves = 1
  MaxRegrids = 1
INVARIANT EachMarkerOnce
