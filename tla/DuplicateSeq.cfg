SPECIFICATION Spec
CONSTANTS
  None = None
  Ids = {e1, e2, e3, e4}
  BranchIds = {b1, b2}
  Writers = {w1, w2}
  MaxWriters = 2
  MaxMoves = 2
SYMMETRY Symmetry
CHECK_DEADLOCK FALSE
INVARIANTS
  SeqIsUnique
