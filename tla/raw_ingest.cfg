SPECIFICATION FairSpec
CONSTANTS
  p1 = p1
  p2 = p2
  a = a
  x = x
  y = y
  postgres = postgres
  clickhouse = clickhouse
  NoContent = NoContent
  NoBucket = NoBucket
  Procs <- ProcSet
  Ids <- IdSet
  Contents <- ContentSet
  Buckets <- BucketSet
  MaxAttempts = 2
  MaxFaults = 2
INVARIANTS AckedIsDurable OneContentPerId MarkedWasPublished
PROPERTIES AckedIsProcessed
