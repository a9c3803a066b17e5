SPECIFICATION FairSpec
CONSTANTS
  Mbuf = {m1, m2, m3, m4}
  Ctx = {"out"}
  NbQps <- MCQps
  MaxBurst = 2
  QueueDepth = 3
INVARIANTS
  TypeOK
  MbufHeldOnce
  InFlightExact
  ArraysBounded
PROPERTY QueuesDrained
