------------------------------ MODULE TxMemPool ------------------------------
(* CTxMemPool: the transactions of the pool, and its two indexes, from each output to the    *)
(* transaction that spends it and from each nullifier to the one that reveals it.            *)
EXTENDS BlockConnect

CONSTANTS Nullifiers, NoTx

ASSUME PoolAssumption == NoTx \notin Txids /\ \A t \in Txids : Tx[t].nullifiers \subseteq Nullifiers

VARIABLES mapTx,              \* the ids in the pool
          mapNextTx,          \* for each output, the transaction in the pool that spends it
          mapNullifiers,      \* for each nullifier, the transaction in the pool that reveals it
          spendsCoinbase,     \* GetSpendsCoinbase, for the entries of the pool
          validatedBranchId   \* GetValidatedBranchId

poolVars == <<mapTx, mapNextTx, mapNullifiers, spendsCoinbase, validatedBranchId>>

\* The outputs the transactions name.
Spendable == UNION {Inputs(t) : t \in Txids}

PoolInit ==
    /\ mapTx = {}
    /\ mapNextTx = [out \in Spendable |-> NoTx]
    /\ mapNullifiers = [nf \in Nullifiers |-> NoTx]
    /\ spendsCoinbase = {}
    /\ validatedBranchId = [t \in Txids |-> 0]

\* addUnchecked.
AddUnchecked(t, fSpendsCoinbase, branch) ==
    /\ mapTx' = mapTx \cup {t}
    /\ mapNextTx' = [out \in Spendable |-> IF out \in Inputs(t) THEN t ELSE mapNextTx[out]]
    /\ mapNullifiers' = [nf \in Nullifiers |-> IF nf \in Tx[t].nullifiers THEN t ELSE mapNullifiers[nf]]
    /\ spendsCoinbase' = IF fSpendsCoinbase THEN spendsCoinbase \cup {t} ELSE spendsCoinbase
    /\ validatedBranchId' = [validatedBranchId EXCEPT ![t] = branch]

\* What remove does with every transaction it takes from its list and finds in the pool.
Erase(R) ==
    LET gone == R \cap mapTx
    IN  /\ mapTx' = mapTx \ gone
        /\ mapNextTx' = [out \in Spendable |->
                            IF \E t \in gone : out \in Inputs(t) THEN NoTx ELSE mapNextTx[out]]
        /\ mapNullifiers' = [nf \in Nullifiers |->
                            IF \E t \in gone : nf \in Tx[t].nullifiers THEN NoTx ELSE mapNullifiers[nf]]
        /\ spendsCoinbase' = spendsCoinbase \ gone
        /\ UNCHANGED validatedBranchId

\* The transactions that mapNextTx gives for the outputs of those in S.
Spenders(S) == {mapNextTx[out] : out \in {o \in Spendable : o.hash \in S}} \ {NoTx}

\* The list that remove with fRecursive works through, begun with S.  A transaction of S need
\* not be in the pool.
WithDescendants(S) ==
    LET found[n \in 0..Cardinality(Txids)] ==
            IF n = 0 THEN S ELSE LET F == found[n - 1] IN F \cup Spenders(F)
    IN  found[Cardinality(Txids)]

RemoveRecursive(S) == Erase(WithDescendants(S))

\* The transactions of the pool other than t that spend or reveal what t does.
Conflicts(t) ==
    ({mapNextTx[out] : out \in Inputs(t)} \cup {mapNullifiers[nf] : nf \in Tx[t].nullifiers}) \ {t, NoTx}

\* removeForBlock, for one transaction of the block: remove without fRecursive, and
\* removeConflicts.
RemoveForBlock(t) == Erase({t} \cup WithDescendants(Conflicts(t)))

\* Transactions the pool spends from of which the view has no output left.
PrunedSpent(view) ==
    {out.hash : out \in UNION {Inputs(t) : t \in mapTx}} \cap {t \in Txids \ mapTx : IsPruned(view.coins[t])}

\* removeForReorg: transactions no longer final, and spends of a coinbase that is no longer
\* mature.  AccessCoins finds no coins of those in lost; of the other members of PrunedSpent
\* there is an empty entry in the cache.
ForReorg(view, nMemPoolHeight, lost) ==
    {t \in mapTx :
        \/ ~IsFinalTx(t, nMemPoolHeight)
        \/ /\ t \in spendsCoinbase
           /\ \E out \in Inputs(t) :
                 /\ out.hash \notin mapTx
                 /\ out.hash \in lost \/ ~Mature(view.coins[out.hash], nMemPoolHeight)}

\* removeWithAnchor, removeExpired and removeWithoutBranchId.
WithAnchor(invalidRoot) == {t \in mapTx : invalidRoot \in Tx[t].anchors}
Expired(nBlockHeight) == {t \in mapTx : IsExpiredTx(t, nBlockHeight)}
WithoutBranchId(branch) == {t \in mapTx : validatedBranchId[t] # branch}

-----------------------------------------------------------------------------
(* CCoinsViewMemPool over a view. *)

MEMPOOL_HEIGHT == 2147483647

\* GetCoins, with the mempool before the view.
PoolView(view) ==
    [view EXCEPT !.coins = [t \in Txids |-> IF t \in mapTx THEN CCoins(t, MEMPOOL_HEIGHT)
                                            ELSE view.coins[t]],
                 !.nullifiers = @ \cup {nf \in Nullifiers : mapNullifiers[nf] # NoTx}]

=============================================================================
