SPECIFICATION FairSpec
CONSTANTS
  h1 = h1
  h2 = h2
  Primaries <- TwoHosts
  Files <- TwoFiles
  ExternalCA = {}
  Life = 7
  TTL = 4
  CliTTL = 4
  None = None
  MaxFailures = 1
  MaxCrashes = 1
  MaxInterruptions = 1
INVARIANTS TypeOK NoCertExpires MismatchIsDue
PROPERTY RestartsCatchUp
