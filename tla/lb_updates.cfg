SPECIFICATION FairSpec
CONSTANTS
  Node = {1, 2}
  Primaries = {1, 2}
  InitNodes = {1}
  Exclude = {2}
  MaxDisturbances = 2
INVARIANTS TypeOK RecordedIsWritten PointedHasBalancer
PROPERTY RecordFollows
