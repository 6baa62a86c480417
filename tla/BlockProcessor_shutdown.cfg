SPECIFICATION FairSpec
CONSTANTS
  MaxBlock = 2
  MaxBatch = 2
  MaxResults = 1
  MaxSessions = 2
  MaxRestarts = 0
  Contended = {2}
  UsizeRange = 64
PROPERTY
  ShutdownStops
