SPECIFICATION SpecStart
CONSTANTS
  Invocations <- MCInvocations
  Lcores = {0, 1, 2}
  SocketOf <- MCSocketOf
  NbPorts = 3
  MaskBits = 4
  Byte = 8
  MaxRxQueues = 3
  MaxTxQueues = 3
  MaxRxPerLcore = 2
  MaxLcoreParams = 5
  MaxRules <- MCMaxRules
  MaxChars = 2
  MaxTokens = 18
  SaEntries = 4
  Spi = {0, 1, 17}
  Cipher = {"aes-128-ctr"}
  Auth = {"sha1-hmac"}
  Text4 <- MCText4
  Text6 <- MCText6
  TextRange <- MCTextRange
  Pri = {1}
  Port = {1, 2, 257}
INVARIANTS
  TypeOK
  AddressesMeant
  LongLinesRefused
  PeerFound
  PolicyResolved
  RoutesMeant
  PolledReady
  TxPrivate
CHECK_DEADLOCK FALSE
