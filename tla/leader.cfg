SPECIFICATION FairElection
CONSTANTS
  Keepers = {k1, k2}
  Sessions = {s1, s2, s3, s4}
  NoSession = NoSession
  MaxLosses = 2
INVARIANTS
  OneLiveLeader
PROPERTIES
  StaleLeaderLeaves
  SomebodyTakesOver
