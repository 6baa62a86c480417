SPECIFICATION Spec
CONSTANTS
  Parent <- MCShort
  MaxSessions = 2
  MaxRestarts = 1
  MaxShutdowns = 0
INVARIANTS
  
  SyncerProtocol
  
