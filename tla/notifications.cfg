SPECIFICATION FairSpec
CONSTANTS
  p1 = p1
  p2 = p2
  Procs <- ProcSet
  NoTask = NoTask
  MaxAttempts = 2
  MaxFaults = 1
INVARIANTS SentOnce
PROPERTIES FinalIsFinal ReportIsNotified
CHECK_DEADLOCK FALSE
