CONSTANTS
    g = g
    a1 = a1
    a2 = a2
    a3 = a3
    a4 = a4
    b1 = b1
    b2 = b2
    Blocks = {g, a1, a2, a3, b1, b2}
    Genesis = g
    Parent <- TreeParent
    Chain <- MCChain
    Height <- MCHeight
    Work <- MCHeight
    Addr <- MCAddr
    BadBlocks = {a3}
    InvalidBlocks = {a2}
    UpgradeHeight = 9
    InvalidIfUpgraded = {b2}
    fPruneMode = FALSE
    MIN_BLOCKS_TO_KEEP = 1
    MAX_REORG_LENGTH = 2
    Invalidated = {a1}
    Reconsidered = {a1}
    MaxCalls = 2
    MaxRestarts = 0
    MaxSequenceId = 7
SPECIFICATION FairSpec
INVARIANTS FailedMask CandidatesSound BestChain ActiveValid
PROPERTY Activates
