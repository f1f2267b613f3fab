SPECIFICATION FairSpec
CONSTANTS
  p1 = p1
  p2 = p2
  Procs <- ProcSet
  BatchSize = 2
  MaxRows = 3
  MaxFaults = 1
INVARIANTS EventNeverLost
PROPERTIES WakeUpSuffices
