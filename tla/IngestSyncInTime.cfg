SPECIFICATION Spec
CONSTANTS
  w1 = w1
  w2 = w2
  w3 = w3
  testnet = testnet
  pubnet = pubnet
  NoNetwork = NoNetwork
  Workers = {w1, w2, w3}
  Networks = {testnet, pubnet}
  Serves <- TwoNetworks
  MaxHead = 2
  TxCount = 1
  TxPage = 1
  Soroban <- NoInvocation
  PageSize = 2
  MaxLedgers = 1
  LockTTL = 2
  Overrun = FALSE
  MaxFaults = 1
  MaxFlushes = 0
SYMMETRY DaemonSymmetry
INVARIANTS
  TypeOK
  SingleWriter
  RebuildExplained
PROPERTY WatermarkMonotone
