SPECIFICATION FairSpec
CONSTANTS
  Settings = {"MAINNET"}
  Givens <- MCGivens
  NoFile = NoFile
  Empty = Empty
  MaxDeploys = 2
  MaxKeyfiles = 2
  MaxCrashes = 1
INVARIANTS
  MissingFoundEarly
