SPECIFICATION Spec
CONSTANTS
  Emails = {1, 2}
  Workers = {w1, w2}
  MaxAttempts = 2
  BatchSize = 2
  BaseBackoff = 1
  MaxBackoff = 2
  StaleClaim = 1
  Overrun = TRUE
  MaxFaults = 0
  MaxSends = 3
SYMMETRY ReplicaSymmetry
INVARIANTS SentMeansDelivered RetryHasBudget
