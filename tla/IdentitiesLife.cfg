SPECIFICATION FairSpec
CONSTANTS
  a1 = a1
  Absent = Absent
  Empty = Empty
  Typed <- MCTyped
  MaxCrashes = 2
  MaxForces = 1
  MaxSetups = 1
INVARIANTS
  TypeOK
  KeyMatchesAddress
  ShownIsOperated
PROPERTIES
  IdentityStable
  EventuallyUp
  ShownInTheEnd
