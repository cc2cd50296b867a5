\* Coins and nullifiers; the anchors never change.
CONSTANTS
    Txids = {x1}
    Coins = {pruned, c1, c2}
    Pruned = pruned
    Types = {SPROUT}
    Roots = {e, f}
    EmptyRoot = e
    f = f
    Floor <- MCFloor
    Nfs = {n1}
    Blocks = {b1}
    Null = null
SPECIFICATION Spec
INVARIANTS TypeOK FlagsSound FlushAssert
PROPERTIES LedgerSpec
