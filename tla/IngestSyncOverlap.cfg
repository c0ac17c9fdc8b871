SPECIFICATION FairSpec
CONSTANTS
  w1 = w1
  w2 = w2
  w3 = w3
  testnet = testnet
  pubnet = pubnet
  NoNetwork = NoNetwork
  Workers = {w1, w2}
  Networks = {testnet}
  Serves <- OneNetwork
  MaxHead = 2
  TxCount = 2
  TxPage = 1
  Soroban <- FirstInvokes
  PageSize = 2
  MaxLedgers = 2
  LockTTL = 1
  Overrun = TRUE
  MaxFaults = 1
  MaxFlushes = 1
INVARIANT NoUnexplainedGap
PROPERTY CatchesUp
