SPECIFICATION Spec
CONSTANTS
  w1 = w1
  w2 = w2
  None = None
  Workers = {w1, w2}
  N = 3
  Kind <- LateKind
  Ts <- LateTs
  CasAttempts = 2
  MaxRebalances = 1
  MaxFaults = 0
  MaxOps = 1
  MaxEchoes = 1
SYMMETRY WorkerSymmetry
INVARIANTS
  StatusFollowsAlarms
PROPERTIES
  SeenNeverRegresses
CHECK_DEADLOCK FALSE
