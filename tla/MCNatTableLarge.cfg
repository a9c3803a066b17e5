SPECIFICATION Spec
CONSTANTS
  Octet = 4
  Candidates <- MCCandidates
  Others = {}
  IdxEntries = 16
  MaxLines = 6
INVARIANT IndexFound
CHECK_DEADLOCK FALSE
