SPECIFICATION FairSpec
CONSTANTS
  MaxKills = 0
  MaxTimeouts = 0
  MaxFailures = 1
  MaxDeaths = 0
PROPERTIES
  KmRestarted
CHECK_DEADLOCK FALSE
