SPECIFICATION FairSpec
CONSTANTS
  r1 = r1
  tenant = tenant
  Requests <- RequestSet
  Tenant <- SameTenant
  MaxTotal = 2
  PageSize = 2
  Archived = 4
  MaxArrivals = 2
  MaxExpired = 1
  MaxPauses = 2
  MaxFaults = 2
INVARIANTS CompletedCovers
PROPERTIES ReplayEnds
CHECK_DEADLOCK FALSE
