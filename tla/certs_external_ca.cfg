SPECIFICATION Spec
CONSTANTS
  h1 = h1
  h2 = h2
  Primaries <- TwoHosts
  Files <- FilesOfTwoCAs
  ExternalCA = {"apiserver-etcd-client"}
  Life = 6
  TTL = 3
  CliTTL = 4
  None = None
  MaxFailures = 0
  MaxCrashes = 0
  MaxInterruptions = 0
INVARIANT NoCertExpires
