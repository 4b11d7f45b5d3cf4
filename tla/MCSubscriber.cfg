SPECIFICATION Spec
CONSTANTS
  g = g  a1 = a1  c1 = c1  coin = coin  alice = alice  peer = peer
  Log <- MCLog
  Trees <- MCTrees
  Tx = {coin}
  BlockTxs <- MCBlockTxs
  ScriptHash = {alice}
  Touches <- MCTouches
  Updater = {peer}
  MaxUpdates = 1
  MaxRequests = 2
INVARIANTS SubscriberIsTold
CHECK_DEADLOCK FALSE
