SPECIFICATION FairSpec
CONSTANTS
  m1 = m1
  m2 = m2
  m3 = m3
  w1 = w1
  o1 = o1
  o2 = o2
  Masters = {m1, m2}
  Workers = {w1}
  Osd = {o1}
  HostOf <- OsdOfWorker
  MinReadyMasterNodes = 1
  MinReadyWorkerNodes = 0
  MaintainRookStorageNodes = TRUE
  RookStorageNodes = FALSE
  StorageLabelled = {m1, m2, w1}
  ClearDeadNodes = TRUE
  HasClusterStatus = FALSE
  InitStorage = {m1, w1}
  CliTargets = {w1}
  None = None
  MaxHealthChanges = 1
  MaxFailures = 0
  MaxCrashes = 0
  MaxCliRuns = 1
PROPERTY OnlyReadyNodesAdded
