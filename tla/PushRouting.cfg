SPECIFICATION RouteSpec
CONSTANTS
  NoAddress = "none"
  Margin = 2
  ActiveWindow = 1
  AllowLegacy = FALSE
  UnknownVisible = FALSE
  BundleRequired = TRUE
  Fleets <- MCFleets
  Events <- MCEvents
  Now = 2
INVARIANTS
  RightWallet
  AliasObeyed
  StatusDelivers
CHECK_DEADLOCK FALSE
