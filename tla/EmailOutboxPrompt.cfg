SPECIFICATION FairSpec
CONSTANTS
  Emails = {1, 2}
  Workers = {w1, w2}
  MaxAttempts = 2
  BatchSize = 2
  BaseBackoff = 1
  MaxBackoff = 2
  StaleClaim = 1
  Overrun = FALSE
  MaxFaults = 1
  MaxSends = 3
INVARIANTS TypeOK ExclusiveClaims RetryBudget
PROPERTIES FinalIsFinal PromiseSpec EveryMailSettles
