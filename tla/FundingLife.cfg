SPECIFICATION FairSpec
CONSTANTS
  km = km
  w1 = w1
  Km <- km
  Workers <- MCWorkers
  MaxKills = 1
  MaxFailures = 1
INVARIANTS
  TypeOK
  FundedHasCoins
  PaidPerRun
PROPERTIES
  EventuallyFunded
CHECK_DEADLOCK FALSE
