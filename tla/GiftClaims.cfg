SPECIFICATION Spec
CONSTANTS
  Claims <- MCClaims
  Wallet <- MCWallet
  Device <- MCDevice
  Apple = {1}
  MaxRestarts = 1
  MaxCut = 1
INVARIANTS
  PaidOnceOtherwise
  SlotSurvives
  ReservationOwned
CHECK_DEADLOCK FALSE
