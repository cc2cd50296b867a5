---------------------------- MODULE BlockConnect ----------------------------
(* Transactions, and what ConnectBlock and DisconnectBlock do to the coins view they are     *)
(* given.  The view is one record; that a stack of caches behaves like it is CoinsCache's    *)
(* business.  Scripts, proofs and amounts are left out: a transaction that fails them never  *)
(* gets further than CheckTransaction or the signature checks.                               *)
EXTENDS Lists

CONSTANTS Txids, Coinbases,
          Tx,                 \* the transaction of each id
          COINBASE_MATURITY,
          UpgradeHeight       \* the height at which the consensus branch changes

ASSUME TxAssumption == Coinbases \subseteq Txids /\ COINBASE_MATURITY \in Nat /\ UpgradeHeight \in Nat

\* An output is named by the id of its transaction and its position.
COutPoint(t, n) == [hash |-> t, n |-> n]

\* A note commitment tree is the sequence of the transactions whose commitments were appended.
\* In a transaction: vin, a sequence of outputs; vout, the number of outputs; nullifiers and
\* anchors, sets; commitments, whether it adds any; nExpiryHeight and nLockTime, heights;
\* branch, the consensus branch its signatures commit to; standard, whether policy relays it.
IsCoinBase(t) == t \in Coinbases
Inputs(t) == {Tx[t].vin[i] : i \in DOMAIN Tx[t].vin}

IsFinalTx(t, nHeight) == Tx[t].nLockTime = 0 \/ Tx[t].nLockTime < nHeight
IsExpiredTx(t, nHeight) == Tx[t].nExpiryHeight # 0 /\ ~IsCoinBase(t) /\ nHeight > Tx[t].nExpiryHeight
CurrentEpochBranchId(nHeight) == IF nHeight >= UpgradeHeight THEN 1 ELSE 0

-----------------------------------------------------------------------------
(* The view: for each transaction the outputs left, with its height and whether it is a      *)
(* coinbase; the nullifiers; the anchors, and the best one.                                  *)

NoCoins == [outs |-> {}, nHeight |-> 0, fCoinBase |-> FALSE]
CCoins(t, nHeight) == [outs |-> 0..(Tx[t].vout - 1), nHeight |-> nHeight, fCoinBase |-> IsCoinBase(t)]

EmptyView == [coins |-> [t \in Txids |-> NoCoins], nullifiers |-> {}, anchors |-> {<<>>}, root |-> <<>>]

IsPruned(c) == c.outs = {}
IsAvailable(view, out) == out.n \in view.coins[out.hash].outs
HaveInputs(view, t) == \A out \in Inputs(t) : IsAvailable(view, out)
HaveJoinSplitRequirements(view, t) ==
    Tx[t].nullifiers \cap view.nullifiers = {} /\ Tx[t].anchors \subseteq view.anchors

Mature(c, nSpendHeight) == c.fCoinBase => nSpendHeight - c.nHeight >= COINBASE_MATURITY

\* ContextualCheckInputs: CheckTxInputs, and the signatures are for the branch.
ContextualCheckInputs(view, t, nSpendHeight, branch) ==
    /\ HaveInputs(view, t)
    /\ HaveJoinSplitRequirements(view, t)
    /\ \A out \in Inputs(t) : Mature(view.coins[out.hash], nSpendHeight)
    /\ Tx[t].branch = branch

\* A coins entry without its last output is pruned, and its other members are lost.
Spend(c, n) == IF c.outs \subseteq {n} THEN NoCoins ELSE [c EXCEPT !.outs = @ \ {n}]

\* What is recorded when an output is spent: its transaction's height and coinbase flag, with
\* the last of its outputs only.
CTxInUndo(t, c, n) ==
    IF c.outs \subseteq {n} THEN [nHeight |-> c.nHeight, fCoinBase |-> c.fCoinBase]
                            ELSE [nHeight |-> 0, fCoinBase |-> FALSE]

\* UpdateCoins: su is a view, and the undo data of the inputs so far.
SpendInput(su, out) ==
    LET c == su.view.coins[out.hash]
    IN  [view |-> [su.view EXCEPT !.coins[out.hash] = Spend(c, out.n)],
         undo |-> Append(su.undo, CTxInUndo(out.hash, c, out.n))]

UpdateCoins(view, t, nHeight) ==
    LET su == InOrder(SpendInput, [view |-> view, undo |-> <<>>], Tx[t].vin)
    IN  [view |-> [su.view EXCEPT !.nullifiers = @ \cup Tx[t].nullifiers,
                                  !.coins[t] = CCoins(t, nHeight)],
         undo |-> su.undo]

-----------------------------------------------------------------------------
(* ConnectBlock. *)

\* BIP30.
Overwrites(view, vtx) == \E i \in DOMAIN vtx : ~IsPruned(view.coins[vtx[i]])

\* One transaction: the result so far is dropped when a check fails.
ConnectTx(r, t, nHeight) ==
    IF r.ok /\ (IsCoinBase(t) \/ ContextualCheckInputs(r.view, t, nHeight, CurrentEpochBranchId(nHeight)))
    THEN LET u == UpdateCoins(r.view, t, nHeight)
         IN  [ok |-> TRUE, view |-> u.view, undo |-> Append(r.undo, u.undo),
              tree |-> IF Tx[t].commitments THEN Append(r.tree, t) ELSE r.tree]
    ELSE [r EXCEPT !.ok = FALSE]

PushAnchor(view, tree) == [view EXCEPT !.anchors = @ \cup {tree}, !.root = tree]

\* The view and the undo data after a block at nHeight, or ok = FALSE.
ConnectBlock(view, vtx, nHeight) ==
    LET r0 == [ok |-> ~Overwrites(view, vtx), view |-> view, undo |-> <<>>, tree |-> view.root]
        r  == InOrder(LAMBDA x, t : ConnectTx(x, t, nHeight), r0, vtx)
    IN  [ok |-> r.ok, view |-> PushAnchor(r.view, r.tree),
         blockundo |-> [vtxundo |-> r.undo, old_tree_root |-> view.root]]

-----------------------------------------------------------------------------
(* DisconnectBlock. *)

\* ApplyTxInUndo: cu is a view, and whether all went as expected.
ApplyTxInUndo(cu, undo, out) ==
    LET c == cu.view.coins[out.hash]
        base == IF undo.nHeight # 0 THEN [outs |-> {}, nHeight |-> undo.nHeight, fCoinBase |-> undo.fCoinBase]
                                    ELSE c
    IN  [view |-> [cu.view EXCEPT !.coins[out.hash] = [base EXCEPT !.outs = @ \cup {out.n}]],
         fClean |-> cu.fClean /\ (undo.nHeight # 0 <=> IsPruned(c)) /\ out.n \notin c.outs]

\* Its inputs are restored from the last to the first.
RestoreInputs(cu, t, txundo) ==
    LET vin == Tx[t].vin
    IN  InOrder(LAMBDA x, j : ApplyTxInUndo(x, txundo[j], vin[j]), cu,
                [j \in DOMAIN vin |-> Len(vin) + 1 - j])

DisconnectTx(cu, t, txundo, nHeight) ==
    RestoreInputs([view |-> [cu.view EXCEPT !.coins[t] = NoCoins, !.nullifiers = @ \ Tx[t].nullifiers],
                   fClean |-> cu.fClean /\ cu.view.coins[t] = CCoins(t, nHeight)], t, txundo)

PopAnchor(view, newroot) ==
    [view EXCEPT !.anchors = IF newroot = view.root \/ view.root = <<>> THEN @ ELSE @ \ {view.root},
                 !.root = newroot]

\* Mutant: the transactions are undone in the order in which they were connected.
UndoOrderForward(vtx) == [i \in DOMAIN vtx |-> i]

UndoOrder(vtx) == [i \in DOMAIN vtx |-> Len(vtx) + 1 - i]

DisconnectBlock(view, vtx, blockundo, nHeight) ==
    LET cu == InOrder(LAMBDA x, i : DisconnectTx(x, vtx[i], blockundo.vtxundo[i], nHeight),
                      [view |-> view, fClean |-> TRUE], UndoOrder(vtx))
    IN  [view |-> PopAnchor(cu.view, blockundo.old_tree_root), fClean |-> cu.fClean]

=============================================================================
