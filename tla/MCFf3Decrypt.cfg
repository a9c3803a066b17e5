SPECIFICATION Spec
CONSTANTS
  U = 2
  V = 1
  Rounds = 2
INVARIANT DecryptBlock
CHECK_DEADLOCK FALSE
