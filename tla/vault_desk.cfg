SPECIFICATION DeskFairSpec
CONSTANTS
  Wallets = {w1, w2}
  Nobody = Nobody
  Amounts = {2}
  Endowment = 3
  LockTimes = {1}
  Timeouts = {1}
  MaxTimestamp = 9
  MaxTime = 4
  User = w1
  Kickoff = 1
  Timeout = 1
  MaxLosses = 1
INVARIANTS
  NoticesAreTrue
PROPERTIES
  ResultDecides
  NeverTrapped
CHECK_DEADLOCK FALSE
