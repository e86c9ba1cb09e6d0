SPECIFICATION Spec
CONSTANTS
  r1 = r1
  r2 = r2
  NumConsumers = 2
  Reconcilers = {r1, r2}
  InitClusters <- OneMove
  None = None
  MaxWrites = 2
  MaxApprovals = 2
  MaxFailures = 0
  MaxCrashes = 0
INVARIANTS TypeOK LastWriteServed
