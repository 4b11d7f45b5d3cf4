SPECIFICATION Spec
CONSTANTS
  HeaderSize = 3  FilterSize = 2
  Network = {testnet, signet}
  DataDir = {}
  NotGiven = NotGiven
  Block = {b}
  Conn = {c}
  MaxRecords = 2
  MaxStarts = 2
  MaxFaults = 1
INVARIANTS TypeOK OpensUsableCache OneNetworkPerIndex
PROPERTIES StartupEnds ShutdownReturns ReportedBlocksIndexed
CHECK_DEADLOCK FALSE
