SPECIFICATION FairSpec
CONSTANTS
  Pod = {1, 2, 3, 4}
  Node = {1, 2, 3}
  WriteQuorum = 3
  ReadQuorum = 2
  None = 0
  MaxOutages = 1
  MaxFailures = 1
INVARIANTS TypeOK QuorumKept
PROPERTY ServersSpread
