SPECIFICATION FairSpec
CONSTANTS
  Markets = {"m1x2", "goals"}
  Kind <- MCKind
  Born <- MCBorn
  Winner <- MCWinner
  Tracked <- MCTracked
  FeedScores = {"sampled"}
  Truth = "2-1"
  Unknown = "unknown"
  MaxStake = 2
  Rest = 1
  FeeBps = 300
  MaxFaults = 1
  Calendars <- MCCalendars
INVARIANTS
  ShownIsTrue
  PayoutOverstatedByTheFee
  TablesAreSound
PROPERTIES
  ReceiptsAppear
CHECK_DEADLOCK FALSE
