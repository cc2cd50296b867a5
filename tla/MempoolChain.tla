---------------------------- MODULE MempoolChain ----------------------------
(* The memory pool beside a chain that grows and reorganises: AcceptToMemoryPool,            *)
(* ActivateBestChainStep with DisconnectTip and ConnectTip, InvalidateBlock, and block       *)
(* assembly from the pool.  cs_main is held from the first step of a change of the chain to  *)
(* the last, so nothing is accepted in between.  Which chain is best is ChainState's         *)
(* business: here any longer one may be chosen.                                              *)
EXTENDS TxMemPool

CONSTANTS Blocks, Genesis,
          Pprev, Vtx          \* the predecessor and the transactions of each block

ASSUME ChainAssumption == Vtx \in [Blocks -> Seq(Txids)]

VARIABLES chainActive,        \* the blocks after Genesis
          pcoinsTip,
          undo,               \* the undo data on disk, by block
          failed,             \* blocks found invalid
          fClean,             \* whether every DisconnectBlock was clean
          step                \* where the change of the chain is

chainVars == <<chainActive, pcoinsTip, undo, failed, fClean, step>>
mempoolVars == <<poolVars, chainVars>>

NoUndo == [vtxundo |-> <<>>, old_tree_root |-> <<>>]
Idle == [at |-> "idle", target |-> Genesis, oldHeight |-> 0, block |-> Genesis, todo |-> <<>>,
         oldRoot |-> <<>>, fDisconnected |-> FALSE]

MempoolInit ==
    /\ PoolInit
    /\ chainActive = <<>> /\ pcoinsTip = EmptyView /\ undo = [b \in Blocks |-> NoUndo]
    /\ failed = {} /\ fClean = TRUE /\ step = Idle

Height == Len(chainActive)
Tip == IF chainActive = <<>> THEN Genesis ELSE chainActive[Height]

\* The blocks from Genesis to b.
BranchTo(b) ==
    LET up[n \in 0..Cardinality(Blocks)] ==
            IF n = 0 THEN <<b>>
            ELSE LET s == up[n - 1] IN IF Head(s) = Genesis THEN s ELSE <<Pprev[Head(s)]>> \o s
    IN  Tail(up[Cardinality(Blocks)])

InChain(b) == \E i \in DOMAIN chainActive : chainActive[i] = b

-----------------------------------------------------------------------------
(* AcceptToMemoryPool. *)

ConflictsInPool(t) ==
    \/ \E out \in Inputs(t) : mapNextTx[out] # NoTx
    \/ \E nf \in Tx[t].nullifiers : mapNullifiers[nf] # NoTx

\* chainActive's height for the checks of the transaction alone, that of the view (nSpendHeight,
\* the height of its best block plus one) for the checks of its inputs.
Acceptable(t, view, nSpendHeight) ==
    LET nextBlockHeight == Height + 1
    IN  /\ ~IsCoinBase(t)
        /\ Tx[t].standard
        /\ ~IsExpiredTx(t, nextBlockHeight)
        /\ IsFinalTx(t, nextBlockHeight)
        /\ t \notin mapTx
        /\ ~ConflictsInPool(t)
        /\ IsPruned(view.coins[t])
        /\ ContextualCheckInputs(PoolView(view), t, nSpendHeight, CurrentEpochBranchId(nextBlockHeight))

Accept(t, view) ==
    AddUnchecked(t, \E out \in Inputs(t) : PoolView(view).coins[out.hash].fCoinBase,
                 CurrentEpochBranchId(Height + 1))

AcceptToMemoryPool(t) ==
    /\ step = Idle
    /\ Acceptable(t, pcoinsTip, Height + 1)
    /\ Accept(t, pcoinsTip)
    /\ UNCHANGED chainVars

-----------------------------------------------------------------------------
(* A change of the chain. *)

\* ContextualCheckBlock passed when the block was received.
ContextualCheckBlock(b) ==
    LET nHeight == Len(BranchTo(b))
    IN  \A i \in DOMAIN Vtx[b] : IsFinalTx(Vtx[b][i], nHeight) /\ ~IsExpiredTx(Vtx[b][i], nHeight)

\* ActivateBestChainStep towards b.
ActivateBestChainStep(b) ==
    /\ step = Idle
    /\ LET branch == BranchTo(b)
       IN  /\ Len(branch) > Height
           /\ \A i \in DOMAIN branch : branch[i] \notin failed /\ ContextualCheckBlock(branch[i])
    /\ step' = [Idle EXCEPT !.at = "disconnect", !.target = b, !.oldHeight = Height]
    /\ UNCHANGED <<poolVars, chainActive, pcoinsTip, undo, failed, fClean>>

\* InvalidateBlock: the chain goes back to the predecessor of b, and no further.
InvalidateBlock(b) ==
    /\ step = Idle /\ InChain(b)
    /\ failed' = failed \cup {b}
    /\ step' = [Idle EXCEPT !.at = "disconnect", !.target = Pprev[b], !.fDisconnected = TRUE]
    /\ UNCHANGED <<poolVars, chainActive, pcoinsTip, undo, fClean>>

\* Whether the tip has to be disconnected: it is not on the branch of the target.
OffBranch ==
    LET branch == BranchTo(step.target)
    IN  chainActive # <<>> /\ ~(Height <= Len(branch) /\ SubSeq(branch, 1, Height) = chainActive)

\* DisconnectTip up to the flush of its view.
DisconnectTip ==
    /\ step.at = "disconnect" /\ OffBranch
    /\ LET d == DisconnectBlock(pcoinsTip, Vtx[Tip], undo[Tip], Height)
       IN  pcoinsTip' = d.view /\ fClean' = (fClean /\ d.fClean)
    /\ step' = [step EXCEPT !.at = "resurrect", !.todo = Vtx[Tip], !.oldRoot = pcoinsTip.root,
                          !.fDisconnected = TRUE]
    /\ UNCHANGED <<poolVars, chainActive, undo, failed>>

\* Mutant: the descendants of a transaction that is not accepted stay.
NotResurrectedAlone(t) == Erase({t})

NotResurrected(t) == RemoveRecursive({t})

\* One transaction of the block.  chainActive has not moved yet: nextBlockHeight is the old one.
Resurrect ==
    /\ step.at = "resurrect" /\ step.todo # <<>>
    /\ LET t == Head(step.todo)
       IN  \/ Acceptable(t, pcoinsTip, Height) /\ Accept(t, pcoinsTip)
           \/ ~Acceptable(t, pcoinsTip, Height) /\ NotResurrected(t)
    /\ step' = [step EXCEPT !.todo = Tail(@)]
    /\ UNCHANGED <<chainActive, pcoinsTip, undo, failed, fClean>>

StaleAnchors(before, after) == IF before = after THEN {} ELSE WithAnchor(before)

\* The rest of DisconnectTip.
DisconnectDone ==
    /\ step.at = "resurrect" /\ step.todo = <<>>
    /\ RemoveRecursive(StaleAnchors(step.oldRoot, pcoinsTip.root))
    /\ chainActive' = SubSeq(chainActive, 1, Height - 1)
    /\ step' = [step EXCEPT !.at = "disconnect"]
    /\ UNCHANGED <<pcoinsTip, undo, failed, fClean>>

\* The next block towards the target.
NextBlock == BranchTo(step.target)[Height + 1]

\* ConnectTip up to the flush of its view; or the block is invalid.
ConnectTip(b) ==
    /\ step.at \in {"disconnect", "connect"} /\ ~OffBranch /\ Tip # step.target
    /\ b = NextBlock
    /\ LET r == ConnectBlock(pcoinsTip, Vtx[b], Height + 1)
       IN  \/ /\ r.ok
              /\ pcoinsTip' = r.view
              /\ undo' = [undo EXCEPT ![b] = IF @ = NoUndo THEN r.blockundo ELSE @]
              /\ step' = [step EXCEPT !.at = "removeForBlock", !.block = b, !.todo = Vtx[b]]
              /\ UNCHANGED failed
           \/ /\ ~r.ok
              /\ failed' = failed \cup {b}
              /\ step' = [step EXCEPT !.at = "finish"]
              /\ UNCHANGED <<pcoinsTip, undo>>
    /\ UNCHANGED <<poolVars, chainActive, fClean>>

RemoveOne ==
    /\ step.at = "removeForBlock" /\ step.todo # <<>>
    /\ RemoveForBlock(Head(step.todo))
    /\ step' = [step EXCEPT !.todo = Tail(@)]
    /\ UNCHANGED <<chainActive, pcoinsTip, undo, failed, fClean>>

\* The rest of ConnectTip.  ActivateBestChainStep returns when the chain is better than it was.
ConnectDone ==
    /\ step.at = "removeForBlock" /\ step.todo = <<>>
    /\ RemoveRecursive(Expired(Height + 1))
    /\ chainActive' = Append(chainActive, step.block)
    /\ step' = [step EXCEPT !.at = IF Height + 1 > step.oldHeight THEN "finish" ELSE "connect"]
    /\ UNCHANGED <<pcoinsTip, undo, failed, fClean>>

\* Mutant: the branch of the tip, not that of the next block.
MemPoolBranchIdTip == CurrentEpochBranchId(Height)

MemPoolBranchId == CurrentEpochBranchId(Height + 1)

\* removeForReorg and removeWithoutBranchId.
FinishStep ==
    /\ \/ step.at = "finish"
       \/ step.at \in {"disconnect", "connect"} /\ Tip = step.target
    /\ \E lost \in SUBSET PrunedSpent(pcoinsTip) :
          RemoveRecursive((IF step.fDisconnected THEN ForReorg(pcoinsTip, Height + 1, lost) ELSE {})
                              \cup WithoutBranchId(MemPoolBranchId))
    /\ step' = Idle
    /\ UNCHANGED <<chainActive, pcoinsTip, undo, failed, fClean>>

MempoolNext ==
    \/ \E t \in Txids : AcceptToMemoryPool(t)
    \/ \E b \in Blocks : ActivateBestChainStep(b) \/ InvalidateBlock(b) \/ ConnectTip(b)
    \/ DisconnectTip \/ Resurrect \/ DisconnectDone
    \/ RemoveOne \/ ConnectDone \/ FinishStep

MempoolSpec == MempoolInit /\ [][MempoolNext]_mempoolVars

-----------------------------------------------------------------------------
(* CreateNewBlock. *)

\* Transactions the miner considers.
Minable == {t \in mapTx : IsFinalTx(t, Height + 1) /\ ~IsExpiredTx(t, Height + 1)}

\* One round: a transaction that depends on nothing outside the block and passes the checks is
\* added.  blk is the block so far and the view after it; which of several is taken first, the
\* priority, makes no difference to a block without limits.
AddToBlock(blk) ==
    LET ready == {t \in Minable \ {blk.vtx[i] : i \in DOMAIN blk.vtx} :
                    ContextualCheckInputs(blk.view, t, Height + 1, CurrentEpochBranchId(Height + 1))}
    IN  IF ready = {} THEN blk
        ELSE LET t == CHOOSE x \in ready : TRUE
             IN  [vtx |-> Append(blk.vtx, t), view |-> UpdateCoins(blk.view, t, Height + 1).view]

CreateNewBlock ==
    LET blk[n \in 0..Cardinality(mapTx)] ==
            IF n = 0 THEN [vtx |-> <<>>, view |-> pcoinsTip] ELSE AddToBlock(blk[n - 1])
    IN  blk[Cardinality(mapTx)].vtx

-----------------------------------------------------------------------------
(* Properties. *)

\* Both indexes hold exactly what the transactions of the pool spend and reveal; so no two of
\* them spend the same output or reveal the same nullifier.
PoolIndexes ==
    /\ \A out \in Spendable : {t \in mapTx : out \in Inputs(t)} = {mapNextTx[out]} \ {NoTx}
    /\ \A nf \in Nullifiers : {t \in mapTx : nf \in Tx[t].nullifiers} = {mapNullifiers[nf]} \ {NoTx}

\* The assertions of CTxMemPool::check: at any time the indexes are exact, and whenever cs_main
\* is free every input of a transaction in the pool is an output of another or an unspent coin,
\* no nullifier is spent on the chain and every anchor is one of the chain's.
PoolCheck ==
    /\ PoolIndexes
    /\ step = Idle =>
          \A t \in mapTx :
              /\ \A out \in Inputs(t) : IF out.hash \in mapTx THEN out.n < Tx[out.hash].vout
                                        ELSE IsAvailable(pcoinsTip, out)
              /\ HaveJoinSplitRequirements(pcoinsTip, t)

\* The transactions of the pool that wait for no expired one.
Unblocked == Minable \ WithDescendants(mapTx \ Minable)

\* A miner finds nothing in the pool that it has to leave out, but what expires with the next
\* block: the others, in the order CreateNewBlock finds, pass ConnectBlock (TestBlockValidity).
\* So after a reorganisation the pool holds no immature, conflicting, non-final or old-branch
\* transaction.
MinerTakesAll ==
    step = Idle =>
        /\ LET block == CreateNewBlock
           IN  /\ Range(block) = Unblocked
               /\ ConnectBlock(pcoinsTip, block, Height + 1).ok
        /\ \A t \in mapTx : ~IsExpiredTx(t, Height)

\* Connecting the blocks of the active chain, from an empty view.
ViewOf(chain) ==
    InOrder(LAMBDA v, i : ConnectBlock(v, Vtx[chain[i]], i).view, EmptyView, [i \in DOMAIN chain |-> i])

\* Undo data restores exactly what connecting a block changed: whatever was connected and
\* disconnected before, the view is the one the active chain alone gives, and no DisconnectBlock
\* met an unexpected coin.
ViewOfChain == fClean /\ (step = Idle => pcoinsTip = ViewOf(chainActive))

=============================================================================
