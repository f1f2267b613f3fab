SPECIFICATION FairSpec
CONSTANTS
  a = a
  b = b
  c = c
  x = x
  Ids = {a, b, c, x}
  MaxItems = 2
  MaxErrors = 1
  MaxPublish = 3
  Refused <- MCRefused
  Fixtures <- MCFixtures
  MaxRetries = 1
INVARIANTS
  CapacityExact
  OneFilePerId
  NothingStranded
  AckedIsSafe
  HandledEntryWaits
PROPERTIES HeadNeverStarves
CHECK_DEADLOCK FALSE
