SPECIFICATION LFairSpec
CONSTANTS
  MaxFailures = 1
  MaxStops = 2
  MaxDeaths = 1
INVARIANTS
  TypeOK
PROPERTIES
  ImplementsNodeLife
  SecondLogout
  StatusMovesForward
  EventuallyServing
  StatusShown
CHECK_DEADLOCK FALSE
