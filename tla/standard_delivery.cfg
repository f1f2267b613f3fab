SPECIFICATION FairSpec
CONSTANTS
  w1 = w1
  w2 = w2
  None = None
  Workers = {w1, w2}
  N = 2
  Kind <- PairKind
  Ts <- PairTs
  CasAttempts = 2
  MaxRebalances = 1
  MaxFaults = 2
  MaxOps = 0
  MaxEchoes = 1
INVARIANTS
  PassedIsApplied
PROPERTIES
  ProcessedUnlessReassigned
CHECK_DEADLOCK FALSE
