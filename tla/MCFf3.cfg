SPECIFICATION Spec
CONSTANTS
  U = 2
  V = 1
  Rounds = 2
INVARIANTS TypeOK EncryptionReversible
CHECK_DEADLOCK FALSE
