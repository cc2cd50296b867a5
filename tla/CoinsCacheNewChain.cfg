CONSTANTS
    Txids = {}
    Coins = {pruned}
    Pruned = pruned
    Types = {SPROUT}
    Roots = {e, f}
    EmptyRoot = e
    f = f
    Floor <- MCEmptyFloor
    Nfs = {}
    Blocks = {b1}
    Null = null
SPECIFICATION Spec
INVARIANT BestAnchorKnown
