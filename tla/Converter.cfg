SPECIFICATION MCSpec
CONSTANTS
  j1 = j1
  j2 = j2
  j3 = j3
  Conversions <- MCConversions
  Syncs <- MCSyncs
  Requests <- MCRequests
  MaxConcurrentJobs = 1
  Chunks = 1
  MaxTroubles = 2
INVARIANTS
  SlotsFollowWork
  StoredWhole
PROPERTIES
  Settles
CHECK_DEADLOCK FALSE
