CONSTANTS
    Txids = {}
    Coins = {pruned}
    Pruned = pruned
    Types = {SPROUT}
    Roots = {e, f, r1, r2}
    EmptyRoot = e
    f = f
    Floor <- MCFloor
    Nfs = {}
    Blocks = {b1}
    Null = null
SPECIFICATION Spec
INVARIANTS FlagsSound BestAnchorKnown TreeOfRoot
PROPERTIES LedgerSpec
