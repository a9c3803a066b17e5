SPECIFICATION SpecSa
CONSTANTS
  Context <- MCContext
  MaxParams = 3
  NbCdevs = 3
  QpLimits = {1, 2}
  Algo = {"x", "y"}
  MapEntries = 3
  MaxQpPerLcore = 2
  Sa = {"s1", "s2"}
  SaAlgo <- MCSaAlgo
  Dir = "out"
INVARIANT IndexInTable
CHECK_DEADLOCK FALSE
