SPECIFICATION Spec
CONSTANTS
  w1 = w1
  w2 = w2
  c1 = c1
  c2 = c2
  Nobody = Nobody
  Total = 2
  Platform = {1}
  Workers <- WorkerSet
  Claimers <- ClaimerSet
  MaxFaults = 1
  MaxStalls = 1
  MaxRetries = 1
  MaxDeletes = 1
SYMMETRY Symmetric
INVARIANTS SettledUnlessOverrun SecretOnce SecretAccounted ErasureWaits
CHECK_DEADLOCK FALSE
