SPECIFICATION FairSpec
CONSTANTS
  Bettors = {b1, b2, b3}
  Outcomes = {home, away}
  NoOutcome = NoOutcome
  Amounts = {3, 5}
  Gifts = {4}
  Endowment = 7
  FeeRates = {1000, 2500}
  LockTimes = {1}
  Timeouts = {1, 9}
  MaxTimestamp = 9
  MaxTime = 3
INVARIANTS
  VaultBacksObligations
  NothingLeftBehind
  ResolutionIsJustified
PROPERTIES
  KeepsPromise
  FundsAlwaysReturn
CHECK_DEADLOCK FALSE
