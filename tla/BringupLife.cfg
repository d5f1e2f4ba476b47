SPECIFICATION FairSpec
CONSTANTS
  MaxKills = 2
  MaxTimeouts = 2
  MaxFailures = 2
  MaxDeaths = 1
INVARIANTS
  TypeOK
  DeadEndNeedsFault
PROPERTIES
  ImplementsPrincipal
  EventuallyUp
CHECK_DEADLOCK FALSE
