SPECIFICATION Spec
CONSTANTS
  cb = cb  pay = pay  rbf = rbf  child = child  grand = grand
  A = A  B = B
  base = base  left = left  right = right
  NullOutPoint = NullOutPoint
  ScriptHash = {A, B}
  Txid = {cb, pay, rbf, child, grand}
  Broadcastable = {pay, rbf, child, grand}
  Block = {left}
  Height = {1}
  ByteValues = 2
  MaxPass = 0
  MaxFaults = 0
  Inputs <- MCInputs
  Outputs <- MCOutputs
  TxData <- MCTxData
PROPERTIES RetrackKeepsPool
