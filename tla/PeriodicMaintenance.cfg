SPECIFICATION Spec
CONSTANTS
  MaxDaa = 3
  PruningDepth = 1
  MaxRestarts = 1
INVARIANTS
  SingleJob
  TablesAgree
PROPERTIES
  ShutdownCompletes
  
