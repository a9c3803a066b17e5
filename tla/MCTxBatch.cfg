SPECIFICATION Spec
CONSTANTS
  Port = {p}
  BadPort = bad
  MaxBurst = 8
INVARIANTS TypeOK GroupsAreRuns SentOnceInOrder
