CONSTANTS
    g = g
    a1 = a1
    a2 = a2
    a3 = a3
    a4 = a4
    b1 = b1
    b2 = b2
    Blocks = {g, a1, a2, b1, b2}
    Genesis = g
    Parent <- ForkParent
    Chain <- MCChain
    Height <- MCHeight
    Work <- ForkWork
    Addr <- MCAddr
    BadBlocks = {}
    InvalidBlocks = {b2}
    UpgradeHeight = 9
    InvalidIfUpgraded = {b2}
    fPruneMode = TRUE
    MIN_BLOCKS_TO_KEEP = 1
    MAX_REORG_LENGTH = 1
    Invalidated = {a1}
    Reconsidered = {}
    MaxCalls = 1
    MaxRestarts = 0
    MaxSequenceId = 7
SPECIFICATION Spec
INVARIANTS ReorgData UnlinkedExact BestChain
CHECK_DEADLOCK FALSE
