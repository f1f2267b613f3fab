SPECIFICATION FairSpec
CONSTANTS
  w1 = w1
  w2 = w2
  r1 = r1
  r2 = r2
  old = old
  new = new
  other = other
  bad = bad
  d1 = d1
  d2 = d2
  NoWorker = NoWorker
  NoRecord = NoRecord
  NoContent = NoContent
  NoDevice = NoDevice
  FirstDevice = d1
  Contents <- ContentSet
  Order <- OrderOf
  Devices <- DeviceSet
  Workers <- WorkerSet
  Records <- RecordSet
  Variants <- VariantSets
  Received <- ReceivedAs
  Immediate <- OnlyOther
  Malformed <- OnlyBad
  MaxAttempts = 2
  MaxFaults = 1
  MaxRetries = 1
  MaxRebinds = 1
INVARIANTS OneSender ReservationHeldUnlessRebound
PROPERTIES SentInOrderUnlessRebound RecordsSettle
CHECK_DEADLOCK FALSE
