---------------------------- MODULE CoinsLedger ----------------------------
(***************************************************************************)
(* What the stack of coins views promises to its callers, with no caches   *)
(* in it: three complete copies of the ledger, one on disk, one at the tip *)
(* of the active chain (pcoinsTip) and one being built for the block that  *)
(* is being connected or disconnected.  A caller sees every write it made  *)
(* to the working copy, all of them or none of them reach the tip, and a   *)
(* crash leaves the ledger as it was when it was last synced.              *)
(***************************************************************************)

CONSTANTS
    Txids,     \* transaction ids
    Coins,     \* values of a CCoins object
    Types,     \* shielded pools (SPROUT, SAPLING)
    Roots,     \* roots of note commitment trees
    Nfs,       \* nullifiers
    Blocks     \* block hashes

VARIABLES
    disk,      \* the ledger that survives a crash
    tip,       \* the ledger at the tip of the active chain
    work,      \* the ledger a block is being applied to
    open       \* whether a block is being applied

vars == <<disk, tip, work, open>>

Ledgers == [coins      : [Txids -> Coins],
            anchors    : [Types -> SUBSET Roots],
            nullifiers : [Types -> SUBSET Nfs],
            bestBlock  : Blocks,
            bestAnchor : [Types -> Roots]]

-----------------------------------------------------------------------------

Init == /\ disk \in Ledgers
        /\ tip = disk
        /\ work = disk
        /\ open = FALSE

Begin == /\ ~open
         /\ open' = TRUE
         /\ UNCHANGED <<disk, tip, work>>

WriteCoins(txid, c) == work' = [work EXCEPT !.coins[txid] = c]

WriteNullifier(t, nf, spent) ==
    work' = [work EXCEPT !.nullifiers[t] = IF spent THEN @ \cup {nf} ELSE @ \ {nf}]

PushRoot(t, rt) ==
    work' = [work EXCEPT !.anchors[t] = @ \cup {rt}, !.bestAnchor[t] = rt]

PopRoot(t, rt) ==
    work' = [work EXCEPT !.anchors[t] = @ \ {work.bestAnchor[t]}, !.bestAnchor[t] = rt]

WriteBestBlock(b) == work' = [work EXCEPT !.bestBlock = b]

\* One change of the working copy; nobody else sees it.
Write == /\ open
         /\ \/ \E txid \in Txids, c \in Coins : WriteCoins(txid, c)
            \/ \E t \in Types, nf \in Nfs, spent \in BOOLEAN : WriteNullifier(t, nf, spent)
            \/ \E t \in Types, rt \in Roots : PushRoot(t, rt) \/ PopRoot(t, rt)
            \/ \E b \in Blocks : WriteBestBlock(b)
         /\ UNCHANGED <<disk, tip, open>>

\* All changes of the working copy reach the tip at once.
Commit == /\ open
          /\ tip' = work
          /\ open' = FALSE
          /\ UNCHANGED <<disk, work>>

\* None of them does.
Abort == /\ open
         /\ work' = tip
         /\ open' = FALSE
         /\ UNCHANGED <<disk, tip>>

Sync == /\ ~open
        /\ disk' = tip
        /\ UNCHANGED <<tip, work, open>>

Crash == /\ tip' = disk
         /\ work' = disk
         /\ open' = FALSE
         /\ UNCHANGED disk

Next == Begin \/ Write \/ Commit \/ Abort \/ Sync \/ Crash

Spec == Init /\ [][Next]_vars
=============================================================================
