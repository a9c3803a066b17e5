SPECIFICATION Spec
CONSTANTS
  Mbuf = {m1, m2, m3, m4}
  NbQps <- MCNbQps
  MaxBurst = 2
  QueueDepth = 2
  Port = {p}
  Flow <- MCFlow
  Sa <- MCSa
  SaQp <- MCSaQp
  SaTunnel <- MCSaTunnel
  HasSp <- MCHasSp
SYMMETRY MCSymmetry
INVARIANTS TypeOK SentAsAllowed MbufHeldOnce TrafficBounded
PROPERTIES PerSaOrder CryptoPathUsed
CHECK_DEADLOCK FALSE
