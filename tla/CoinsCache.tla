----------------------------- MODULE CoinsCache -----------------------------
(***************************************************************************)
(* The coins views of coins.cpp and txdb.cpp as the node stacks them:      *)
(*                                                                         *)
(*    view   a CCoinsViewCache that lives while one block is connected or  *)
(*           disconnected (ConnectTip, DisconnectTip)                      *)
(*    tip    pcoinsTip, the CCoinsViewCache of the active chain            *)
(*    db     CCoinsViewDB, the chainstate database                         *)
(*                                                                         *)
(* A cache holds, for the keys it has been asked for, an entry with a      *)
(* DIRTY flag and, for coins, a FRESH flag; every other key is looked up   *)
(* in the view below it, which may pull it into its own cache.  cs_main is *)
(* held throughout, so each operation is one step.                         *)
(***************************************************************************)

CONSTANTS
    Txids,      \* transaction ids
    Coins,      \* values of a CCoins object
    Pruned,     \* the CCoins with no unspent output
    Types,      \* ShieldedType
    Roots,      \* roots of note commitment trees; a tree is named by its root
    EmptyRoot,  \* empty_root()
    Floor,      \* per type, the root below which no reorganisation reaches
    Nfs,        \* nullifiers
    Blocks,     \* block hashes
    Null        \* the null uint256

ASSUME PrunedAssumption == Pruned \in Coins
ASSUME RootAssumption == EmptyRoot \in Roots /\ Floor \in [Types -> Roots]
ASSUME NullAssumption == Null \notin Roots \cup Blocks

VARIABLES
    db,     \* CCoinsViewDB: what LevelDB holds
    tip,    \* pcoinsTip
    view,   \* the cache of the block being processed
    open    \* whether that cache exists

vars == <<db, tip, view, open>>

-----------------------------------------------------------------------------
(* Entries.  An entry that is not in the map has "in" FALSE. *)

DIRTY == "DIRTY"    \* potentially different from the version in the parent view
FRESH == "FRESH"    \* the parent view does not have this entry, or it is pruned

CoinsEntry == [in : BOOLEAN, coins : Coins, flags : SUBSET {DIRTY, FRESH}]
AnchorEntry == [in : BOOLEAN, entered : BOOLEAN, tree : Roots, flags : SUBSET {DIRTY}]
NfEntry == [in : BOOLEAN, entered : BOOLEAN, flags : SUBSET {DIRTY}]

NoCoins == [in |-> FALSE, coins |-> Pruned, flags |-> {}]
NoAnchor == [in |-> FALSE, entered |-> FALSE, tree |-> EmptyRoot, flags |-> {}]
NoNf == [in |-> FALSE, entered |-> FALSE, flags |-> {}]

\* The members of CCoinsViewCache.
Caches == [cacheCoins      : [Txids -> CoinsEntry],
           cacheAnchors    : [Types -> [Roots -> AnchorEntry]],
           cacheNullifiers : [Types -> [Nfs -> NfEntry]],
           hashBlock       : Blocks \cup {Null},
           hashAnchor      : [Types -> Roots \cup {Null}]]

\* The records of the database.  Coins that are pruned are not stored.
Databases == [coins      : [Txids -> Coins],
              anchors    : [Types -> SUBSET Roots],
              nullifiers : [Types -> SUBSET Nfs],
              bestBlock  : Blocks,
              bestAnchor : [Types -> Roots]]

EmptyCache == [cacheCoins      |-> [x \in Txids |-> NoCoins],
               cacheAnchors    |-> [t \in Types |-> [r \in Roots |-> NoAnchor]],
               cacheNullifiers |-> [t \in Types |-> [n \in Nfs |-> NoNf]],
               hashBlock       |-> Null,
               hashAnchor      |-> [t \in Types |-> Null]]

-----------------------------------------------------------------------------
(* Reads.  Each takes a map of a cache, the key and what the view below    *)
(* answers, and returns the map with the entry pulled in.                  *)

FetchCoins(m, txid, base) ==
    IF m[txid].in \/ ~base.found THEN m
    ELSE [m EXCEPT ![txid] =
            [in |-> TRUE, coins |-> base.coins,
             flags |-> IF base.coins = Pruned THEN {FRESH} ELSE {}]]

\* Mutant: the tree is not copied into the entry.
GetAnchorAtNoTree(m, t, rt, base) ==
    IF m[t][rt].in \/ ~base.found THEN m
    ELSE [m EXCEPT ![t][rt] = [NoAnchor EXCEPT !.in = TRUE, !.entered = TRUE]]

GetAnchorAt(m, t, rt, base) ==
    IF m[t][rt].in \/ ~base.found THEN m
    ELSE [m EXCEPT ![t][rt] =
            [in |-> TRUE, entered |-> TRUE, tree |-> base.tree, flags |-> {}]]

GetNullifier(m, t, nf, spent) ==
    IF m[t][nf].in THEN m
    ELSE [m EXCEPT ![t][nf] = [in |-> TRUE, entered |-> spent, flags |-> {}]]

GetBestBlock(h, base) == IF h = Null THEN base ELSE h

GetBestAnchor(h, t, base) == IF h[t] = Null THEN [h EXCEPT ![t] = base] ELSE h

\* What CCoinsViewDB answers.
DbCoins(txid) == [found |-> db.coins[txid] # Pruned, coins |-> db.coins[txid]]
DbAnchor(t, rt) == [found |-> rt = EmptyRoot \/ rt \in db.anchors[t], tree |-> rt]
DbNullifier(t, nf) == nf \in db.nullifiers[t]

\* The maps of pcoinsTip after it has been asked.
TipFetchCoins(txid) == FetchCoins(tip.cacheCoins, txid, DbCoins(txid))
TipGetAnchorAt(t, rt) == GetAnchorAt(tip.cacheAnchors, t, rt, DbAnchor(t, rt))
TipGetNullifier(t, nf) == GetNullifier(tip.cacheNullifiers, t, nf, DbNullifier(t, nf))
TipGetBestBlock == GetBestBlock(tip.hashBlock, db.bestBlock)
TipGetBestAnchor(t) == GetBestAnchor(tip.hashAnchor, t, db.bestAnchor[t])

\* What pcoinsTip answers.
TipCoins(txid) == [found |-> TipFetchCoins(txid)[txid].in, coins |-> TipFetchCoins(txid)[txid].coins]
TipAnchor(t, rt) == LET e == TipGetAnchorAt(t, rt)[t][rt]
                    IN  [found |-> e.in /\ e.entered, tree |-> e.tree]
TipNullifier(t, nf) == TipGetNullifier(t, nf)[t][nf].entered
TipBestAnchor(t) == TipGetBestAnchor(t)[t]

\* What the view answers.
ViewBestAnchor(t) == GetBestAnchor(view.hashAnchor, t, TipBestAnchor(t))[t]
ViewHasAnchor(t, rt) == LET e == GetAnchorAt(view.cacheAnchors, t, rt, TipAnchor(t, rt))[t][rt]
                        IN  e.in /\ e.entered

-----------------------------------------------------------------------------
(* Flush: the entries of a child cache are merged into the cache below it. *)

\* Mutants: a merge into an entry that exists does not make it DIRTY; a pruned entry is
\* removed although it is not FRESH.
BatchWriteCoinsClean(child, parent) ==
    [x \in Txids |->
        LET e == child[x]  p == parent[x] IN
        IF ~e.in \/ DIRTY \notin e.flags \/ (~p.in /\ e.coins = Pruned) THEN p
        ELSE [in |-> TRUE, coins |-> e.coins, flags |-> IF p.in THEN p.flags ELSE {DIRTY, FRESH}]]
BatchWriteCoinsErase(child, parent) ==
    [x \in Txids |->
        LET e == child[x]  p == parent[x] IN
        IF ~e.in \/ DIRTY \notin e.flags THEN p
        ELSE IF e.coins = Pruned THEN NoCoins
        ELSE [in |-> TRUE, coins |-> e.coins,
              flags |-> IF p.in THEN p.flags \cup {DIRTY} ELSE {DIRTY, FRESH}]]

BatchWriteCoins(child, parent) ==
    [x \in Txids |->
        LET e == child[x]  p == parent[x] IN
        IF ~e.in \/ DIRTY \notin e.flags THEN p
        ELSE IF ~p.in
             THEN IF e.coins = Pruned THEN p
                  ELSE [in |-> TRUE, coins |-> e.coins, flags |-> {DIRTY, FRESH}]
        ELSE IF FRESH \in p.flags /\ e.coins = Pruned THEN NoCoins
        ELSE [in |-> TRUE, coins |-> e.coins, flags |-> p.flags \cup {DIRTY}]]

\* Mutant: a merge into an entry that exists does not make it DIRTY.
BatchWriteAnchorsClean(child, parent) ==
    [t \in Types |-> [r \in Roots |->
        LET e == child[t][r]  p == parent[t][r] IN
        IF ~e.in \/ DIRTY \notin e.flags THEN p
        ELSE IF p.in THEN [p EXCEPT !.entered = e.entered] ELSE e]]

BatchWriteAnchors(child, parent) ==
    [t \in Types |-> [r \in Roots |->
        LET e == child[t][r]  p == parent[t][r] IN
        IF ~e.in \/ DIRTY \notin e.flags THEN p
        ELSE IF ~p.in \/ p.entered # e.entered
             THEN [in |-> TRUE, entered |-> e.entered, flags |-> {DIRTY},
                   tree |-> IF p.in THEN p.tree ELSE e.tree]
        ELSE p]]

BatchWriteNullifiers(child, parent) ==
    [t \in Types |-> [n \in Nfs |->
        LET e == child[t][n]  p == parent[t][n] IN
        IF ~e.in \/ DIRTY \notin e.flags THEN p
        ELSE IF ~p.in \/ p.entered # e.entered
             THEN [in |-> TRUE, entered |-> e.entered, flags |-> {DIRTY}]
        ELSE p]]

\* CCoinsViewCache::BatchWrite
BatchWrite(child, parent) ==
    [cacheCoins      |-> BatchWriteCoins(child.cacheCoins, parent.cacheCoins),
     cacheAnchors    |-> BatchWriteAnchors(child.cacheAnchors, parent.cacheAnchors),
     cacheNullifiers |-> BatchWriteNullifiers(child.cacheNullifiers, parent.cacheNullifiers),
     hashBlock       |-> child.hashBlock,
     hashAnchor      |-> child.hashAnchor]

\* Mutants: anchors that were popped are not erased; anchors that were pushed are not
\* written; a best block that the cache never learned is written.
DbBatchWriteOnly(child, written, bestBlock) ==
    [coins      |-> [x \in Txids |->
                       LET e == child.cacheCoins[x]
                       IN  IF e.in /\ DIRTY \in e.flags THEN e.coins ELSE db.coins[x]],
     anchors    |-> [t \in Types |-> {r \in Roots :
                       LET e == child.cacheAnchors[t][r]
                       IN  IF e.in /\ DIRTY \in e.flags /\ e.entered \in written /\ (e.entered => r # EmptyRoot)
                           THEN e.entered ELSE r \in db.anchors[t]}],
     nullifiers |-> [t \in Types |-> {n \in Nfs :
                       LET e == child.cacheNullifiers[t][n]
                       IN  IF e.in /\ DIRTY \in e.flags THEN e.entered ELSE n \in db.nullifiers[t]}],
     bestBlock  |-> bestBlock,
     bestAnchor |-> [t \in Types |->
                       IF child.hashAnchor[t] \notin {Null, EmptyRoot}
                       THEN child.hashAnchor[t] ELSE db.bestAnchor[t]]]
DbBatchWriteNoErase(child) ==
    DbBatchWriteOnly(child, {TRUE}, GetBestBlock(child.hashBlock, db.bestBlock))
DbBatchWriteNoAnchor(child) ==
    DbBatchWriteOnly(child, {FALSE}, GetBestBlock(child.hashBlock, db.bestBlock))
DbBatchWriteAnyBlock(child) == DbBatchWriteOnly(child, BOOLEAN, child.hashBlock)

\* CCoinsViewDB::BatchWrite: one LevelDB batch, written atomically.
DbBatchWrite(child) ==
    [coins      |-> [x \in Txids |->
                       LET e == child.cacheCoins[x]
                       IN  IF e.in /\ DIRTY \in e.flags THEN e.coins ELSE db.coins[x]],
     anchors    |-> [t \in Types |-> {r \in Roots :
                       LET e == child.cacheAnchors[t][r]
                       IN  IF e.in /\ DIRTY \in e.flags /\ (e.entered => r # EmptyRoot)
                           THEN e.entered ELSE r \in db.anchors[t]}],
     nullifiers |-> [t \in Types |-> {n \in Nfs :
                       LET e == child.cacheNullifiers[t][n]
                       IN  IF e.in /\ DIRTY \in e.flags THEN e.entered ELSE n \in db.nullifiers[t]}],
     bestBlock  |-> IF child.hashBlock # Null THEN child.hashBlock ELSE db.bestBlock,
     bestAnchor |-> [t \in Types |->
                       IF child.hashAnchor[t] \notin {Null, EmptyRoot}
                       THEN child.hashAnchor[t] ELSE db.bestAnchor[t]]]

\* Flush leaves the maps of the flushed cache empty and its hashes as they were.
Flushed(c) == [EmptyCache EXCEPT !.hashBlock = c.hashBlock, !.hashAnchor = c.hashAnchor]

-----------------------------------------------------------------------------
(* The state machine. *)

\* A node that starts on a chainstate whose best anchors are the Floor.
Init == /\ db \in [coins      : [Txids -> Coins],
                   anchors    : {[t \in Types |-> {Floor[t]} \ {EmptyRoot}]},
                   nullifiers : [Types -> SUBSET Nfs],
                   bestBlock  : Blocks,
                   bestAnchor : {Floor}]
        /\ tip = EmptyCache
        /\ view = EmptyCache
        /\ open = FALSE

\* CCoinsViewCache view(pcoinsTip), in ConnectTip and DisconnectTip.
OpenView == /\ ~open
            /\ open' = TRUE
            /\ UNCHANGED <<db, tip, view>>

\* Reads of pcoinsTip outside block processing (mempool, RPC, inventory).
TipRead == /\ ~open
           /\ \/ \E txid \in Txids : tip' = [tip EXCEPT !.cacheCoins = TipFetchCoins(txid)]
              \/ \E t \in Types, rt \in Roots : tip' = [tip EXCEPT !.cacheAnchors = TipGetAnchorAt(t, rt)]
              \/ \E t \in Types, nf \in Nfs : tip' = [tip EXCEPT !.cacheNullifiers = TipGetNullifier(t, nf)]
              \/ tip' = [tip EXCEPT !.hashBlock = TipGetBestBlock]
              \/ \E t \in Types : tip' = [tip EXCEPT !.hashAnchor = TipGetBestAnchor(t)]
           /\ UNCHANGED <<db, view, open>>

\* The view asks the view below only for what it does not hold.
TipAskedForCoins(txid) ==
    tip' = IF view.cacheCoins[txid].in THEN tip ELSE [tip EXCEPT !.cacheCoins = TipFetchCoins(txid)]

\* GetCoins, AccessCoins, HaveCoins and HaveInputs on the view.
ViewGetCoins(txid) ==
    /\ open
    /\ view' = [view EXCEPT !.cacheCoins = FetchCoins(@, txid, TipCoins(txid))]
    /\ TipAskedForCoins(txid)
    /\ UNCHANGED <<db, open>>

\* Mutant: coins that the view below does not have are not FRESH.
ModifiedEntryNotFresh(old, base, c) ==
    LET flags == IF old.in THEN old.flags ELSE {}
    IN  IF FRESH \in flags /\ c = Pruned THEN NoCoins
        ELSE [in |-> TRUE, coins |-> c, flags |-> flags \cup {DIRTY}]

\* ModifyCoins, an assignment through the modifier, and ~CCoinsModifier.
ModifiedEntry(old, base, c) ==
    LET flags == IF old.in THEN old.flags
                 ELSE IF ~base.found \/ base.coins = Pruned THEN {FRESH} ELSE {}
    IN  IF FRESH \in flags /\ c = Pruned THEN NoCoins
        ELSE [in |-> TRUE, coins |-> c, flags |-> flags \cup {DIRTY}]

ModifyCoins(txid, c) ==
    /\ open
    /\ view' = [view EXCEPT !.cacheCoins[txid] = ModifiedEntry(@, TipCoins(txid), c)]
    /\ TipAskedForCoins(txid)
    /\ UNCHANGED <<db, open>>

ViewGetAnchorAt(t, rt) ==
    /\ open
    /\ view' = [view EXCEPT !.cacheAnchors = GetAnchorAt(@, t, rt, TipAnchor(t, rt))]
    /\ tip' = IF view.cacheAnchors[t][rt].in THEN tip
              ELSE [tip EXCEPT !.cacheAnchors = TipGetAnchorAt(t, rt)]
    /\ UNCHANGED <<db, open>>

ViewGetNullifier(t, nf) ==
    /\ open
    /\ view' = [view EXCEPT !.cacheNullifiers = GetNullifier(@, t, nf, TipNullifier(t, nf))]
    /\ tip' = IF view.cacheNullifiers[t][nf].in THEN tip
              ELSE [tip EXCEPT !.cacheNullifiers = TipGetNullifier(t, nf)]
    /\ UNCHANGED <<db, open>>

SetNullifiers(t, nf, spent) ==
    /\ open
    /\ view' = [view EXCEPT !.cacheNullifiers[t][nf] =
                   [in |-> TRUE, entered |-> spent, flags |-> {DIRTY}]]
    /\ UNCHANGED <<db, tip, open>>

ViewGetBestBlock ==
    /\ open
    /\ view' = [view EXCEPT !.hashBlock = GetBestBlock(@, TipGetBestBlock)]
    /\ tip' = IF view.hashBlock = Null THEN [tip EXCEPT !.hashBlock = TipGetBestBlock] ELSE tip
    /\ UNCHANGED <<db, open>>

SetBestBlock(b) ==
    /\ open
    /\ view' = [view EXCEPT !.hashBlock = b]
    /\ UNCHANGED <<db, tip, open>>

\* hashAnchor of pcoinsTip after the view has called GetBestAnchor.
TipHashAsked(t) == IF view.hashAnchor[t] = Null THEN TipGetBestAnchor(t) ELSE tip.hashAnchor

\* ConnectBlock pushes the root of the tree it has appended to: the current
\* root when the block has no commitments, a root not seen before otherwise.
PushAnchor(t, rt) ==
    /\ open
    /\ rt = ViewBestAnchor(t) \/ ~ViewHasAnchor(t, rt)
    /\ view' = [view EXCEPT
                  !.hashAnchor[t] = rt,
                  !.cacheAnchors[t][rt] =
                      IF rt = ViewBestAnchor(t) THEN @
                      ELSE [in |-> TRUE, entered |-> TRUE, tree |-> rt, flags |-> {DIRTY}]]
    /\ tip' = [tip EXCEPT !.hashAnchor = TipHashAsked(t)]
    /\ UNCHANGED <<db, open>>

\* DisconnectBlock pops back to the root before the block: a root the chain
\* still has, never one below the Floor.  BringBestAnchorIntoCache asserts that
\* the current root can be fetched: the node stops if it cannot.
PopAnchor(t, rt) ==
    LET cur == ViewBestAnchor(t) IN
    /\ open
    /\ rt # cur => /\ cur \notin {EmptyRoot, Floor[t]}
                   /\ ViewHasAnchor(t, cur)
                   /\ ViewHasAnchor(t, rt)
                   /\ rt = EmptyRoot => Floor[t] = EmptyRoot
    /\ IF rt = cur
       THEN /\ view' = [view EXCEPT !.hashAnchor[t] = rt]
            /\ tip' = [tip EXCEPT !.hashAnchor = TipHashAsked(t)]
       ELSE /\ view' = [view EXCEPT
                  !.hashAnchor[t] = rt,
                  !.cacheAnchors[t][cur] =
                      [in |-> TRUE, entered |-> FALSE, flags |-> {DIRTY},
                       tree |-> GetAnchorAt(view.cacheAnchors, t, cur, TipAnchor(t, cur))[t][cur].tree]]
            /\ tip' = [tip EXCEPT
                  !.hashAnchor = TipHashAsked(t),
                  !.cacheAnchors = IF view.cacheAnchors[t][cur].in THEN @ ELSE TipGetAnchorAt(t, cur)]
    /\ UNCHANGED <<db, open>>

\* view.Flush() at the end of ConnectTip and DisconnectTip, after SetBestBlock
\* and PushAnchor or PopAnchor of both types; the view is then destroyed.
FlushView == /\ open
             /\ view.hashBlock # Null
             /\ \A t \in Types : view.hashAnchor[t] # Null
             /\ tip' = BatchWrite(view, tip)
             /\ view' = EmptyCache
             /\ open' = FALSE
             /\ UNCHANGED db

\* The block is invalid: the view is destroyed without a flush.
DropView == /\ open
            /\ view' = EmptyCache
            /\ open' = FALSE
            /\ UNCHANGED <<db, tip>>

\* pcoinsTip->Flush(), in FlushStateToDisk.
FlushTip == /\ ~open
            /\ db' = DbBatchWrite(tip)
            /\ tip' = Flushed(tip)
            /\ UNCHANGED <<view, open>>

\* The node stops at any point and starts again on the same database.
Restart == /\ tip' = EmptyCache
           /\ view' = EmptyCache
           /\ open' = FALSE
           /\ UNCHANGED db

Next == \/ OpenView \/ TipRead \/ ViewGetBestBlock
        \/ \E txid \in Txids : ViewGetCoins(txid) \/ \E c \in Coins : ModifyCoins(txid, c)
        \/ \E t \in Types :
              \/ \E rt \in Roots : ViewGetAnchorAt(t, rt) \/ PushAnchor(t, rt) \/ PopAnchor(t, rt)
              \/ \E nf \in Nfs : \/ ViewGetNullifier(t, nf)
                                 \/ \E spent \in BOOLEAN : SetNullifiers(t, nf, spent)
        \/ \E b \in Blocks : SetBestBlock(b)
        \/ FlushView \/ DropView \/ FlushTip \/ Restart

Spec == Init /\ [][Next]_vars

-----------------------------------------------------------------------------
(* The ledger each view represents. *)

OverCoins(m, base) == [x \in Txids |-> IF m[x].in THEN m[x].coins ELSE base[x]]
OverAnchors(m, base) ==
    [t \in Types |-> {r \in Roots : IF m[t][r].in THEN m[t][r].entered ELSE r \in base[t]}]
OverNullifiers(m, base) ==
    [t \in Types |-> {n \in Nfs : IF m[t][n].in THEN m[t][n].entered ELSE n \in base[t]}]
OverBestAnchor(h, base) == [t \in Types |-> IF h[t] = Null THEN base[t] ELSE h[t]]

Over(c, base) ==
    [coins      |-> OverCoins(c.cacheCoins, base.coins),
     anchors    |-> OverAnchors(c.cacheAnchors, base.anchors),
     nullifiers |-> OverNullifiers(c.cacheNullifiers, base.nullifiers),
     bestBlock  |-> GetBestBlock(c.hashBlock, base.bestBlock),
     bestAnchor |-> OverBestAnchor(c.hashAnchor, base.bestAnchor)]

DbLedger == [coins      |-> db.coins,
             anchors    |-> [t \in Types |-> db.anchors[t] \cup {EmptyRoot}],
             nullifiers |-> db.nullifiers,
             bestBlock  |-> db.bestBlock,
             bestAnchor |-> db.bestAnchor]
TipLedger == Over(tip, DbLedger)
ViewLedger == Over(view, TipLedger)

-----------------------------------------------------------------------------
(* Properties. *)

\* Every variable has its type.
TypeOK == /\ db \in Databases
          /\ tip \in Caches
          /\ view \in Caches
          /\ open \in BOOLEAN

\* What the comments on the flags in coins.h say: an entry that is not DIRTY is
\* the one of the view below, and a FRESH entry is absent or pruned there.  Both
\* must hold after any order of reads, writes, flushes and restarts.
CoinsFlags(m, base) ==
    \A x \in Txids : m[x].in => /\ DIRTY \notin m[x].flags => m[x].coins = base[x]
                                /\ FRESH \in m[x].flags => base[x] = Pruned
AnchorFlags(m, base) ==
    \A t \in Types, r \in Roots :
        m[t][r].in /\ DIRTY \notin m[t][r].flags => (m[t][r].entered <=> r \in base[t])
NullifierFlags(m, base) ==
    \A t \in Types, n \in Nfs :
        m[t][n].in /\ DIRTY \notin m[t][n].flags => (m[t][n].entered <=> n \in base[t])

FlagsSound ==
    /\ CoinsFlags(tip.cacheCoins, DbLedger.coins)
    /\ CoinsFlags(view.cacheCoins, TipLedger.coins)
    /\ AnchorFlags(tip.cacheAnchors, DbLedger.anchors)
    /\ AnchorFlags(view.cacheAnchors, TipLedger.anchors)
    /\ NullifierFlags(tip.cacheNullifiers, DbLedger.nullifiers)
    /\ NullifierFlags(view.cacheNullifiers, TipLedger.nullifiers)

\* The assertion in CCoinsViewCache::BatchWrite: when the parent has no entry for
\* coins the child wants to write, the child's entry is FRESH.
FlushAssert ==
    \A x \in Txids : LET e == view.cacheCoins[x] IN
        e.in /\ DIRTY \in e.flags /\ e.coins # Pruned /\ ~tip.cacheCoins[x].in => FRESH \in e.flags

\* The assertions of ConnectBlock and BringBestAnchorIntoCache: the tree of the best
\* anchor can always be fetched, through the view and through pcoinsTip.
BestAnchorKnown ==
    \A t \in Types : /\ ViewHasAnchor(t, ViewBestAnchor(t))
                     /\ TipAnchor(t, TipBestAnchor(t)).found

\* An anchor a cache offers comes with the tree of that root, although a merge into
\* an entry that exists already never copies the tree.
TreeOfRoot ==
    \A c \in {tip, view}, t \in Types, r \in Roots :
        c.cacheAnchors[t][r].in => c.cacheAnchors[t][r].tree = r

\* The stack of caches implements the ledger with no caches: no read changes what is
\* seen, a flush moves every change and nothing else, and a restart returns to the
\* last flush of pcoinsTip.
Ledger == INSTANCE CoinsLedger WITH disk <- DbLedger, tip <- TipLedger, work <- ViewLedger
LedgerSpec == Ledger!Spec
=============================================================================
