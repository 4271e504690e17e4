SPECIFICATION MemorySpec
CONSTANTS
  Ids = {e1, e2, e3}
  BranchIds = {b1, b2}
  Writers = {w1, w2}
  MaxWriters = 2
  MaxMoves = 3
  None = None
  Content <- MCContent
SYMMETRY Symmetry
CHECK_DEADLOCK FALSE
INVARIANTS
  TypeOK
  SeqIsUniqueInTurn
  ParentsComeFirst
  CompactionCoversPath
  SummariesNeverWeaken
  SingleBranchInTurn
  OneActiveBranchInTurn
PROPERTIES
  PathsAreStable
