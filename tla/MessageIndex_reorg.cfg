SPECIFICATION Spec
CONSTANTS
  Txs <- MCTxs
  Payload <- MCPayload
  Spends <- MCSpends
  Receiver <- MCReceiver
  Owner <- MCOwner
  Unreadable = {6}
  NoTx = 0
  NoAddress = "none"
  LastBlock = 4
  Parent <- MCParent
  Path <- MCPath
  BlockTime <- MCBlockTime
  Daa <- MCDaa
  BlockTxs <- MCBlockTxs
  Accepts <- MCAccepts
  MaxChanges = 3
  MaxRestarts = 0
INVARIANT AcceptorInChain
CHECK_DEADLOCK FALSE
