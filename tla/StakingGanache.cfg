SPECIFICATION Spec
CONSTANTS
  w1 = w1
  w2 = w2
  Workers <- MCWorkers
  Confirmations = 2
  Instamine = TRUE
  AutoMiner = TRUE
  RejectsHappen = FALSE
  MaxCrashes = 2
INVARIANTS
  DepositFollowsBinding
  LoginAfterDepositUnlessKilled
PROPERTIES
  ImplementsLedger
