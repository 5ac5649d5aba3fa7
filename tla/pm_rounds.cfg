SPECIFICATION Spec
CONSTANTS
  NProc = 3
  Key = {k1}
  Item = {a, b}
  None = None
  MaxRounds = 2
  MaxChanges = 3
INVARIANTS TypeOK ChangesApplied
PROPERTY CallsReturn
