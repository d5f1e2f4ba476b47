SPECIFICATION Spec
CONSTANTS
  w1 = w1
  w2 = w2
  Workers <- MCWorkers
  Confirmations = 1
  Instamine = FALSE
  AutoMiner = TRUE
  RejectsHappen = FALSE
  MaxCrashes = 1
INVARIANTS
  AtMostOneDeposit
