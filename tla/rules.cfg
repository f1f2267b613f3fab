SPECIFICATION FairSpec
CONSTANTS
  p1 = p1
  p2 = p2
  w1 = w1
  d1 = d1
  d2 = d2
  o = o
  Procs <- ProcSet
  Workers = {w1}
  AdminProc = p1
  Devices = {d1, d2}
  Others = {o}
  BatchSize = 1
  MaxChanges = 1
  MaxFaults = 1
INVARIANTS DeletedQuietly
PROPERTIES ChangeReachesAll
CHECK_DEADLOCK FALSE
