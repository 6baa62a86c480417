SPECIFICATION FairSpec
CONSTANTS
  Parent <- MCPair
  MaxSessions = 2
  MaxRestarts = 0
  MaxShutdowns = 1
PROPERTIES
  ShutdownStops
  
