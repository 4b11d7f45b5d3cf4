SPECIFICATION HSpec
CONSTANTS
  wallet = wallet  a1 = a1  a2 = a2  a3 = a3  c1 = c1  c2 = c2
  NoBlock = NoBlock
  Ranges <- MCNoRanges
  Indexer = Indexer
  Client = {}
  Block = {a1, c1, c2, a2, a3}
  Branch <- MCBranch
  MaxFaults = 0
INVARIANTS NoActiveBlockMissing
CHECK_DEADLOCK FALSE
