SPECIFICATION FairSpec
CONSTANTS
  Commands = {"setup", "help", "F1", "register", "login", "logout", "restart"}
  Absent = Absent
  Empty = Empty
  MaxLines = 2
  MaxKeys = 1
  MaxMoves = 1
INVARIANTS
  TypeOK
  SetupKept
  AnswerTrue
  RegisterFunded
  KeyboardOnScreen
CHECK_DEADLOCK FALSE
PROPERTIES
  InputUsable
  LinesAnswered
