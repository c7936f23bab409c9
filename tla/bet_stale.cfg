SPECIFICATION DeskSpec
CONSTANTS
  Bettors = {b1, b2}
  Outcomes = {home, away}
  NoOutcome = NoOutcome
  Amounts = {1}
  Gifts = {}
  Endowment = 1
  FeeRates = {1000}
  LockTimes = {1}
  Timeouts = {1}
  MaxTimestamp = 9
  MaxTime = 3
  User = b1
  MaxBuilds = 2
  MaxLosses = 1
PROPERTIES
  SignsWhatIsShown
CHECK_DEADLOCK FALSE
