SPECIFICATION SpecNoSp
CONSTANTS
  Mbuf = {m1, m2}
  NbQps <- MCNbQps
  MaxBurst = 2
  QueueDepth = 2
  Port = {p}
  Flow <- MCFlow
  Sa <- MCSa
  SaQp <- MCSaQp
  SaTunnel <- MCSaTunnel
  HasSp <- MCHasSp
  SingleIdx = 1
INVARIANT SingleSaUsed
