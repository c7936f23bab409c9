SPECIFICATION FairSpec
CONSTANTS
  Types = {28, 29}
  NoType = NoType
  Finals <- MCFinals
  Shapes <- MCShapes
  Worlds <- MCWorlds
  Settlements <- MCSettlements
  MaxUnstaked = 1
  LockTime = 1
  MaxTime = 1
  MaxAttempts = 2
  MaxLosses = 1
INVARIANTS
  LocksOnlyStaked
  SpecsAreSettleable
  VerdictsAreSound
PROPERTIES
  WalkEnds
CHECK_DEADLOCK FALSE
