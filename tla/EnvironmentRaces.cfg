SPECIFICATION Spec
CONSTANTS
  Calls = {c1, c2, c3}
  Kinds <- AllKinds
  Envs = {e1, e2, e3}
  Existing = {e1}
  Keys = {k1}
  Slugs = {s1}
  Taken = s1
  None = None
  Generated = Generated
  MaxFaults = 1
SYMMETRY CallSymmetry
INVARIANTS TypeOK DerivedSecretWorks NothingLost NothingHaunts
PROPERTY PromiseSpec
CHECK_DEADLOCK FALSE
