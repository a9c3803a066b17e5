SPECIFICATION Spec
CONSTANTS
  Lcores = {1, 2}
  Sas <- MCSas
  Packets <- MCPackets
  Foreign <- MCForeign
  TailRoom = 99
  MaxPackets = 2
  SeqWord = 2
INVARIANTS
  TypeOK
  RoundTrip
  SeqFresh
CHECK_DEADLOCK FALSE
