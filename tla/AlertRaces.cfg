SPECIFICATION Spec
CONSTANTS
  a1 = a1
  a2 = a2
  a3 = a3
  p1 = p1
  p2 = p2
  t1 = t1
  d1 = d1
  d2 = d2
  Calls = {c1, c2, c3}
  Kinds <- AllKinds
  Alerts = {a1, a2, a3}
  ProjectOf <- TwoProjects
  Txs = {t1}
  Dests = {d1, d2}
  Forms <- SomeForms
  Initial <- AtStart
  None = None
  MaxFaults = 1
SYMMETRY CallSymmetry
INVARIANTS TypeOK OneDeliveryEach NoMissedFiring FiredAsConfigured NoDeliveryDropped
PROPERTY HistoryKept
CHECK_DEADLOCK FALSE
