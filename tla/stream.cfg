SPECIFICATION FairPages
CONSTANTS
  MaxEvents = 3
  Content <- MCContent
  NoScore = "none"
  Proven = "2-0"
  BacklogLimit = 1
  ResumeLimit = 2
  MaxFaults = 1
  Duration = 18000
  Recordings <- MCRecordings
  MaxPlays = 2
INVARIANTS
  TheaterIsReal
  SealIsReplayed
  ReplayEndsProven
PROPERTIES
  LiveIsDelivered
  ResumeRedelivers
CHECK_DEADLOCK FALSE
