SPECIFICATION Spec
CONSTANTS
  cb = cb  pay = pay  rbf = rbf  child = child  grand = grand
  A = A  B = B
  base = base  left = left  right = right
  NullOutPoint = NullOutPoint
  ScriptHash = {A, B}
  Txid = {cb, rbf}
  Broadcastable = {rbf}
  Block = {base, right}
  Height = {1}
  ByteValues = 2
  MaxPass = 1
  MaxFaults = 1
  Inputs <- MCInputs
  Outputs <- MCOutputs
  TxData <- MCTxData
INVARIANTS TypeOK UtxoHasOutput ScriptScanExact RestartReadsBack PendingListIsASet
PROPERTIES PendingStaysDurable

