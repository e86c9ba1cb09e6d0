SPECIFICATION FairSpec
CONSTANTS
  o1 = o1
  o2 = o2
  o3 = o3
  h1 = h1
  h2 = h2
  h3 = h3
  Osd = {o1, o2, o3}
  HostOf <- ThreeHosts
  HighIds = {}
  InitOsds = {o1, o2}
  MinCephPoolReplication = 1
  MaxCephPoolReplication = 2
  Period = 2
  MaxOsdChanges = 1
  MaxPodLosses = 1
  MaxFailures = 1
INVARIANTS TypeOK FullReconcileRepairs
PROPERTIES ReplicationFollows DaemonsFollow UpkeepFollows
