SPECIFICATION Spec
CONSTANTS
  MaxBlock = 2
  MaxBatch = 2
  MaxResults = 1
  MaxSessions = 2
  MaxRestarts = 1
  Contended = {2}
  UsizeRange = 64
INVARIANTS
  CoveredOtherwise
  TransactionsStored
  FillersCounted
  PushedOnce
  GapServed
