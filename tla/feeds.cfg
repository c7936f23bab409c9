SPECIFICATION FairSpec
CONSTANTS
  Streams = {"scores", "odds"}
  Carries <- MCCarries
  MaxFaults = 2
  None = None
  Odds <- MCOdds
  Quotations <- MCQuotations
  PoolShapes <- MCPoolShapes
INVARIANTS
  ScoreIsTheNewest
  LineIsSound
PROPERTIES
  StreamsReopen
  EveryRecordIsMerged
CHECK_DEADLOCK FALSE
