SPECIFICATION RSpec
CONSTANTS
  cb = cb  pay = pay  rbf = rbf  child = child  merge = merge  deep = deep
  A = A  B = B
  base = base  left = left  right = right  top = top
  NullOutPoint = NullOutPoint
  ScriptHash = {A, B}
  Wallet = {}
  Txid = {cb, pay, rbf, child, merge, deep}
  Broadcastable = {merge, deep}
  Block = {base, left, right, top}
  Height = {1}
  MaxPass = 0
  MaxFaults = 0
  Inputs <- MCInputs
  Outputs <- MCOutputs
  TxData <- MCTxData
  VSize <- MCVSize
  TxRank <- MCTxRank
INVARIANTS NoPendingConflict
