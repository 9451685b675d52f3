SPECIFICATION FairSpec
CONSTANTS
  Documents <- SomeDocuments
  MaxConversions = 2
  MaxCrashes = 1
  MaxRejections = 1
INVARIANTS TypeOK NeverOlder PodsEmulateTheirService CallsResolve EveryPodIsFound
PROPERTY UpToDate
CHECK_DEADLOCK FALSE
