SPECIFICATION FairSpec
CONSTANTS
  v1 = v1
  v2 = v2
  w1 = w1
  Volumes = {v1, v2}
  NewVolumes = {w1}
  NumNodes = 3
  MaxApprovals = 2
  MaxFailures = 2
  MaxCrashes = 1
INVARIANTS TypeOK PausedOnlyByMigration CompletedMeansMoved
PROPERTIES PrometheusRestored ImplementsInterface RunningEnds
