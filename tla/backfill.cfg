SPECIFICATION FairSpec
CONSTANTS
  Types <- MCTypes
  NoType = NoType
  Batches <- MCBatches
  KeysOf <- MCKeysOf
  MaxAttempts = 2
  MaxLosses = 1
  Generations = {3, 4, 28}
  Allowed = {3, 4}
  Seeded = 4
  Scores = {"home", "draw"}
  Unset = "unset"
  Found <- MCFound
INVARIANTS
  RowsAreTrue
  RecordsAreSound
PROPERTIES
  LocksOnlyWhole
  RunsFinishTheWall
CHECK_DEADLOCK FALSE
