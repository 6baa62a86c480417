SPECIFICATION Spec
CONSTANTS
  NoAddress = "none"
  Margin = 2
  ActiveWindow = 1
  AllowLegacy = FALSE
  UnknownVisible = FALSE
  BundleRequired = TRUE
  Now = 2
  Tokens = {"p", "q"}
  Calls = {"c1", "c2", "c3", "c4", "c5", "c6", "c7"}
  Op <- MCOp
  Device <- MCDevice
  Profile <- MCProfile
  NoReg = NoReg
  Dispatches = {"d1", "d2", "r1", "r2", "m"}
  Event <- MCEvent
  Id <- MCId
  Worker = {"d1", "d2"}
  Presence = {"m"}
  Nonce <- MCNonce
  Scenarios <- MCScenarios
  MaxFaults = 2
INVARIANTS
  RegistrationKept
  Authentic
  NotifiedOnce
PROPERTIES
  WorkerServes
CHECK_DEADLOCK FALSE
