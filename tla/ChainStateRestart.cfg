CONSTANTS
    g = g
    a1 = a1
    a2 = a2
    a3 = a3
    a4 = a4
    b1 = b1
    b2 = b2
    Blocks = {g, a1, a2, a3, a4, b2}
    Genesis = g
    Parent <- TreeParent
    Chain <- MCChain
    Height <- MCHeight
    Work <- MCHeight
    Addr <- MCAddr
    BadBlocks = {}
    InvalidBlocks = {}
    UpgradeHeight = 2
    InvalidIfUpgraded = {b2}
    fPruneMode = FALSE
    MIN_BLOCKS_TO_KEEP = 0
    MAX_REORG_LENGTH = 1
    Invalidated = {}
    Reconsidered = {}
    MaxCalls = 0
    MaxRestarts = 1
    MaxSequenceId = 7
SPECIFICATION Spec
INVARIANTS TypeOK Starts DiskChain ActiveValid IndexClosed BestChain
CHECK_DEADLOCK FALSE
