SPECIFICATION Spec
CONSTANTS
  w1 = w1
  w2 = w2
  w3 = w3
  testnet = testnet
  pubnet = pubnet
  NoNetwork = NoNetwork
  Workers = {w1}
  Networks = {testnet}
  Serves <- OneDaemon
  MaxHead = 2
  TxCount = 1
  TxPage = 1
  Soroban <- NoInvocation
  PageSize = 2
  MaxLedgers = 3
  LockTTL = 1
  Overrun = FALSE
  MaxFaults = 1
  MaxFlushes = 0
INVARIANT NoGapByRefusal
