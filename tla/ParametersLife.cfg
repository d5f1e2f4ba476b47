SPECIFICATION FairSpec
CONSTANTS
  Settings = {"COMPOSE", "K8S", "TESTNET", "MAINNET", "unset"}
  Givens <- MCGivens
  NoFile = NoFile
  Empty = Empty
  MaxDeploys = 2
  MaxKeyfiles = 2
  MaxCrashes = 1
INVARIANTS
  TypeOK
  SufficientExactly
  OneContract
  KeyfileOfId
PROPERTIES
  EventuallyStarted
CHECK_DEADLOCK FALSE
