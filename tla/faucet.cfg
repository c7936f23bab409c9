SPECIFICATION FairFaucet
CONSTANTS
  Wallets = {"w1", "w2"}
  Slots = {1, 2}
  Grant = 2
  Ceiling = 1
  MaxGrants = 1
  Float = 3
  MaxRequests = 3
  MaxRefills = 1
  MaxFaults = 1
INVARIANTS
  ShareIsBounded
  TokensAreConserved
PROPERTIES
  EveryRequestEnds
CHECK_DEADLOCK FALSE
