----------------------------- MODULE BlockTree -----------------------------
(***************************************************************************)
(* The tree of blocks.  A block names its parent by hash, so the tree is a *)
(* constant; what a node knows of it is state (module ChainState).  Height *)
(* and chain work follow from the parent (AddToBlockIndex), and an address *)
(* is where the CBlockIndex of the block is allocated.                     *)
(***************************************************************************)
EXTENDS Integers

CONSTANTS
    Blocks,     \* all blocks anyone may produce
    Genesis,    \* the genesis block
    Parent,     \* pprev
    Chain,      \* a block and all its ancestors
    Height,     \* nHeight
    Work,       \* nChainWork
    Addr        \* the address of the CBlockIndex

ASSUME ParentAssumption ==
    /\ Genesis \in Blocks
    /\ Parent \in [Blocks \ {Genesis} -> Blocks]

ASSUME ChainAssumption ==
    /\ Chain \in [Blocks -> SUBSET Blocks]
    /\ Chain[Genesis] = {Genesis}
    /\ \A b \in Blocks \ {Genesis} : Chain[b] = Chain[Parent[b]] \cup {b} /\ b \notin Chain[Parent[b]]
    /\ \A b \in Blocks : b \in Chain[b] /\ Genesis \in Chain[b]
    /\ \A b \in Blocks : \A a \in Chain[b] : Chain[a] \subseteq Chain[b]
    /\ \A b \in Blocks : \A x, y \in Chain[b] : x \in Chain[y] \/ y \in Chain[x]

ASSUME HeightAssumption ==
    /\ Height \in [Blocks -> Nat]
    /\ Height[Genesis] = 0
    /\ \A b \in Blocks \ {Genesis} : Height[b] = Height[Parent[b]] + 1

\* GetBlockProof is positive: a block has more chain work than its parent.
ASSUME WorkAssumption ==
    /\ Work \in [Blocks -> Nat]
    /\ \A b \in Blocks \ {Genesis} : Work[Parent[b]] < Work[b]

ASSUME AddrAssumption ==
    /\ Addr \in [Blocks -> Nat]
    /\ \A a, b \in Blocks : Addr[a] = Addr[b] => a = b

-----------------------------------------------------------------------------

\* CChain::FindFork: the last block that the chains of a and b share.
FindFork(a, b) == CHOOSE f \in Chain[a] \cap Chain[b] : Chain[a] \cap Chain[b] \subseteq Chain[f]

\* The block after a on the way to b, an extension of a.
NextTowards(a, b) == CHOOSE x \in Chain[b] \ Chain[a] : Parent[x] = a

\* CBlockIndexWorkComparator: a sorts before b.  seq is the nSequenceId of each.
Worse(a, b, seq) ==
    \/ Work[a] < Work[b]
    \/ Work[a] = Work[b] /\ seq[a] > seq[b]
    \/ Work[a] = Work[b] /\ seq[a] = seq[b] /\ Addr[a] > Addr[b]
=============================================================================
