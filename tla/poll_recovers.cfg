SPECIFICATION FairSpec
CONSTANTS
  m1 = m1
  w1 = w1
  w2 = w2
  e1 = e1
  Masters = {m1}
  Workers = {w1, w2}
  Fragile = {w1}
  Period = 2
  PurgeDeadNodes = TRUE
  RotateCertsOn = TRUE
  EnableInternalLoadBalancer = TRUE
  RookMinimumNodeCount = 3
  Requests = 2
  EnvoyPod = {e1}
  MaxHealthChanges = 2
  MaxFailures = 1
  MaxRestarts = 1
INVARIANT TypeOK
PROPERTIES FullReconcileRecurs DueCertsChecked LoadBalancerFollows LateStepsReached RookClusterCompleted
