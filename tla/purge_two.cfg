SPECIFICATION FairSpec
CONSTANTS
  m1 = m1
  m2 = m2
  m3 = m3
  w1 = w1
  o1 = o1
  o2 = o2
  Masters = {m1, m2, m3}
  Workers = {}
  Osd = {o1, o2}
  HostOf <- OsdsOfMasters
  MinReadyMasterNodes = 1
  MinReadyWorkerNodes = 0
  MaintainRookStorageNodes = TRUE
  RookStorageNodes = FALSE
  StorageLabelled = {m1, m2, m3}
  ClearDeadNodes = TRUE
  HasClusterStatus = TRUE
  InitStorage = {m1, m2, m3}
  CliTargets = {m2}
  None = None
  MaxHealthChanges = 2
  MaxFailures = 1
  MaxCrashes = 1
  MaxCliRuns = 1
INVARIANTS TypeOK NoOrphanMember PurgedOsdGone
PROPERTY DeadNodePurged
