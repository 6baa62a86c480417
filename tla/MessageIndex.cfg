SPECIFICATION Spec
CONSTANTS
  Txs <- MCTxs
  Payload <- MCPayload
  Spends <- MCSpends
  Receiver <- MCReceiver
  Owner <- MCOwner
  Unreadable = {6}
  NoTx = 0
  NoAddress = "none"
  LastBlock = 4
  Parent <- MCParent
  Path <- MCPath
  BlockTime <- MCBlockTime
  Daa <- MCDaa
  BlockTxs <- MCBlockTxs
  Accepts <- MCAccepts
  MaxChanges = 2
  MaxRestarts = 1
INVARIANTS
  RowOrEntry
  QueriesAgree
  
  PendingIsServed
PROPERTIES
  SenderResolved
  ImplementsView
CHECK_DEADLOCK FALSE
