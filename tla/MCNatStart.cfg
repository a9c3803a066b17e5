SPECIFICATION SpecNat
CONSTANTS
  Octet = 4
  Candidates <- MCCandidates
  Others <- MCOthers
  IdxEntries = 9
  MaxLines = 4
  Ports = 4
  Hosts = 8
  BitXor <- MCXor
  Ciphers <- MCCiphers
  Arguments <- MCArguments
  Invocations <- MCInvocations
  Default <- MCDefault
  Lcores = {0, 1, 2}
  SocketOf <- MCSocketOf
  NbPorts = 2
  MaskBits = 4
  MaxQueue = 3
  MaxTxQueue = 3
  MaxRxPerLcore = 2
  NbSockets = 2
  HashEntries = 8
  RxDesc = 4
  TxDesc = 8
  Burst = 3
  Cache = 5
  MinMbuf = 10
  Packets <- MCPackets
  MaxForwarded <- MCMaxForwarded
INVARIANTS TypeOKNat AddressFound IndexFoundInSimple QueuesReady PoolCovers FlowsApart NoLeak
PROPERTY QuitEnds
CHECK_DEADLOCK FALSE
