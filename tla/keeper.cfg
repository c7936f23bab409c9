SPECIFICATION FairSpec
CONSTANTS
  Markets = {m1}
  NoMarket = NoMarket
  LockTime = 1
  Timeout = 1
  MaxTime = 3
  MaxAttempts = 2
  MaxCrashes = 1
  MaxFaults = 1
  Modes <- MCModes
INVARIANTS
  StoresAreTruthful
PROPERTIES
  EveryMarketResolves
  KeeperLearns
