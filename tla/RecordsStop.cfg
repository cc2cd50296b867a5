SPECIFICATION Spec
CONSTANTS
  Txids <- MCTxids
  Coinbases <- MCCoinbases
  Tx <- MCTx
  COINBASE_MATURITY = 2
  UpgradeHeight = 5
  Nullifiers = {"n1"}
  NoTx = "none"
  Blocks <- MCBlocks
  Genesis = "g"
  Pprev <- MCPprev
  Vtx <- MCVtx
  Nodes = {n1, n2}
  NoNode = none
  Headers <- MCHeaders
  Malformed <- MCMalformed
  Sends <- MCSends
  Preferred = {n1}
  Clients = {}
  MAX_BLOCKS_IN_TRANSIT_PER_PEER = 2
  BLOCK_DOWNLOAD_WINDOW = 1
  TickLength = 8
  MaxConnections = 2
  OrphanTxids = {"u1", "u2", "u3", "u4", "u5", "u6"}
  NoPeer = none
  Prevs <- MCPrevs
  Rejected = {"u4"}
  Penalised = {"u4"}
  TooLarge = {"u5"}
  WithJoinSplits = {"u6"}
  nMaxOrphanTx = 2
  MyNotes = {"m", "n"}
  FirstKeys = {"n"}
  Bodies <- MCBodies
  MAX_REORG_LENGTH = 1
  SettledStops = FALSE
  MaxHeight = 3
  MaxStops = 1
  MaxImports = 0
  Addrs = {"p1", "p2", "p3"}
  Sources = {"s1", "s2"}
  NewBuckets = {1, 2}
  NewBucket <- MCNewBucket
  NewPosition <- MCNewPosition
  TriedSlot <- MCTriedSlot
  ADDRMAN_NEW_BUCKETS_PER_ADDRESS = 2
  ADDRMAN_GETADDR_MAX_PCT = 40
  MaxIds = 5
  Depth = 4
INVARIANTS NotesWitnessed
CHECK_DEADLOCK FALSE
