SPECIFICATION FairSpec
CONSTANTS
  w1 = w1
  w2 = w2
  Workers <- MCWorkers
  Confirmations = 1
  Instamine = FALSE
  AutoMiner = TRUE
  RejectsHappen = TRUE
  MaxCrashes = 2
INVARIANTS
  TypeOK
  AllowanceCoversDeposit
  DepositsBoundedByStarts
  LoginAfterDeposit
PROPERTIES
  EventuallyUp
