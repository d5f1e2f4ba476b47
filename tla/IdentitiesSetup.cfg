SPECIFICATION Spec
CONSTANTS
  a1 = a1
  Absent = Absent
  Empty = Empty
  Typed <- MCTyped
  MaxCrashes = 1
  MaxForces = 0
  MaxSetups = 1
INVARIANTS
  StakingEntered
