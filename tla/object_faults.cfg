SPECIFICATION FairSpec
CONSTANTS
  r1 = r1
  r2 = r2
  NumConsumers = 2
  Reconcilers = {r1}
  InitClusters <- HAMinio
  None = None
  MaxWrites = 0
  MaxApprovals = 2
  MaxFailures = 2
  MaxCrashes = 1
INVARIANTS StoreBehindConsumer DisabledDuringMigration
PROPERTY ServiceComesBack
