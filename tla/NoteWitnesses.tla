--------------------------- MODULE NoteWitnesses ---------------------------
(* The witnesses that the wallet caches for its notes: CNoteData, IncrementNoteWitnesses and *)
(* DecrementNoteWitnesses as the chain grows and is reorganised, rescans, and what of it is  *)
(* on disk when the node stops.  A block is the sequence of the note commitments in it, a    *)
(* chain the sequence of its blocks above the genesis block, and a commitment tree, or a     *)
(* witness, the sequence of the commitments that were appended to it.                        *)
EXTENDS Integers, FiniteSets, SequencesExt

CONSTANTS MyNotes,               \* commitments of notes that the wallet may hold a key for
          FirstKeys,             \* those it holds the key for from the beginning
          Bodies,                \* the blocks that may be connected
          MAX_REORG_LENGTH,
          SettledStops,          \* whether the node stops only when what is on disk is recent: see Stop
          MaxHeight, MaxStops, MaxImports   \* bounds

WITNESS_CACHE_SIZE == MAX_REORG_LENGTH + 1

ASSUME WitnessAssumption ==
    /\ FirstKeys \subseteq MyNotes
    /\ MAX_REORG_LENGTH \in Nat \ {0} /\ MaxHeight \in Nat /\ MaxStops \in Nat /\ MaxImports \in Nat
    /\ SettledStops \in BOOLEAN

VARIABLES
    blocks,         \* chainActive, above the genesis block
    blocksOnDisk,   \* the chain of the coins database
    wallet,         \* the notes of mapWallet, nWitnessCacheSize, and whether all assertions held
    walletOnDisk,   \* as SetBestChain last wrote it, with its locator
    unflushed,      \* for each note, what was written of it since, or NoNote
    keys,           \* notes whose key the wallet holds
    peak,           \* the greatest height of the tip since the start
    stale,          \* which of "coins" and "wallet" is on disk as of before a disconnection or a rescan
    settled,        \* the chain at the last stop
    stops, imports

witnessVars == <<blocks, blocksOnDisk, wallet, walletOnDisk, unflushed, keys, peak, stale, settled, stops, imports>>

NoNote == [witnesses |-> <<>>, witnessHeight |-> -2]
CNoteData == [witnesses |-> <<>>, witnessHeight |-> -1]

InWallet(w) == {m \in MyNotes : w.notes[m] # NoNote}

\* The wallet is as old as the genesis block: fFirstRun of AppInit2.
WitnessInit ==
    /\ blocks = <<>> /\ blocksOnDisk = <<>> /\ peak = 0 /\ settled = <<>> /\ stale = {}
    /\ wallet = [notes |-> [m \in MyNotes |-> NoNote], nWitnessCacheSize |-> 0, asserted |-> TRUE]
    /\ walletOnDisk = [contents |-> wallet, locator |-> <<>>]
    /\ unflushed = [m \in MyNotes |-> NoNote]
    /\ keys = FirstKeys /\ stops = 0 /\ imports = 0

\* The commitment tree after the first h blocks of the chain c.
Tree(c, h) == FlattenSeq(SubSeq(c, 1, h))

-----------------------------------------------------------------------------
(* The wallet w before and after a call. *)

\* SyncTransaction for the transactions of a block, or of the memory pool: notes that are new
\* to the wallet.  UpdatedNoteData keeps the witnesses of the others.
AddToWallet(w, found) ==
    [w EXCEPT !.notes = [m \in MyNotes |-> IF m \in found /\ @[m] = NoNote THEN CNoteData ELSE @[m]]]

Fits(w, nd) == w.nWitnessCacheSize >= Len(nd.witnesses)

\* Of the notes that are behind the height h: the witness for the block before is copied.
CopyFront(w, h) ==
    LET behind == {m \in InWallet(w) : w.notes[m].witnessHeight < h}
        copied(list) == IF list = <<>> THEN <<>> ELSE <<Head(list)>> \o list
        kept(list) == IF Len(list) > WITNESS_CACHE_SIZE THEN Front(list) ELSE list
    IN  [notes |-> [m \in MyNotes |-> IF m \in behind THEN [w.notes[m] EXCEPT !.witnesses = kept(copied(@))]
                                                      ELSE w.notes[m]],
         nWitnessCacheSize |-> IF w.nWitnessCacheSize < WITNESS_CACHE_SIZE
                               THEN w.nWitnessCacheSize + 1 ELSE w.nWitnessCacheSize,
         asserted |-> w.asserted /\ \A m \in behind : /\ Fits(w, w.notes[m])
                                                      /\ w.notes[m].witnessHeight \in {-1, h - 1}]

\* One commitment cm of the block at height h; tree is the commitment tree with it.
AppendCommitment(w, h, cm, tree) ==
    LET growing == {m \in InWallet(w) : w.notes[m].witnessHeight < h /\ w.notes[m].witnesses # <<>>}
        grown == [m \in MyNotes |-> IF m \in growing THEN [w.notes[m] EXCEPT !.witnesses[1] = Append(@, cm)]
                                                     ELSE w.notes[m]]
        ours == cm \in InWallet(w) /\ w.notes[cm].witnessHeight < h
        witnessed == IF ours
                     THEN [grown EXCEPT ![cm] = [witnesses |-> <<tree>>, witnessHeight |-> h - 1]] ELSE grown
    IN  [w EXCEPT !.notes = witnessed,
                  !.asserted = /\ @ /\ \A m \in growing : Fits(w, w.notes[m])
                               /\ ours => Fits(w, witnessed[cm])]

UpdateHeights(w, h) ==
    LET behind == {m \in InWallet(w) : w.notes[m].witnessHeight < h}
    IN  [w EXCEPT !.notes = [m \in MyNotes |-> IF m \in behind THEN [@[m] EXCEPT !.witnessHeight = h] ELSE @[m]],
                  !.asserted = @ /\ \A m \in behind : Fits(w, w.notes[m])]

\* For the block at height h of the chain c.
IncrementNoteWitnesses(w, c, h) ==
    LET append(x, k) == AppendCommitment(x, h, c[h][k], Tree(c, h - 1) \o SubSeq(c[h], 1, k))
    IN  UpdateHeights(FoldLeft(append, CopyFront(w, h), [k \in DOMAIN c[h] |-> k]), h)

\* Mutant: the height of a note without a witness stays.
PoppedKeepsHeight(nd, h) == IF nd.witnesses = <<>> THEN nd
                            ELSE [witnesses |-> Tail(nd.witnesses), witnessHeight |-> h - 1]

Popped(nd, h) == [witnesses |-> IF nd.witnesses = <<>> THEN <<>> ELSE Tail(nd.witnesses),
                  witnessHeight |-> h - 1]

\* For the block at height h, which is disconnected.
DecrementNoteWitnesses(w, h) ==
    LET upTo == {m \in InWallet(w) : w.notes[m].witnessHeight <= h}
        popped == [w EXCEPT !.notes = [m \in MyNotes |-> IF m \in upTo THEN Popped(@[m], h) ELSE @[m]],
                            !.nWitnessCacheSize = @ - 1]
    IN  [popped EXCEPT !.asserted =
            /\ @ /\ popped.nWitnessCacheSize > 0
            /\ \A m \in upTo : Fits(w, w.notes[m]) /\ w.notes[m].witnessHeight \in {-1, h}
            /\ \A m \in InWallet(popped) : popped.notes[m].witnessHeight < h => Fits(popped, popped.notes[m])]

\* The notes of ours in a sequence of commitments, given the keys k.
Found(body, k) == {m \in k : m \in ToSet(body)}

\* ScanForWalletTransactions from the block at height start; no commitments are in the genesis block.
ScanForWalletTransactions(w, c, start, k) ==
    LET scan(x, h) == IncrementNoteWitnesses(AddToWallet(x, Found(c[h], k)), c, h)
        genesis == IF start = 0 THEN UpdateHeights(CopyFront(w, 0), 0) ELSE w
        first == IF start = 0 THEN 1 ELSE start
    IN  FoldLeft(scan, genesis, [i \in 1..(Len(c) + 1 - first) |-> first + i - 1])

\* What AddToWallet writes of the notes found, outside SetBestChain.
Written(w, found) == [m \in MyNotes |-> IF m \in found THEN w.notes[m] ELSE unflushed[m]]

-----------------------------------------------------------------------------
(* Actions, with cs_main held. *)

WalletRuns == wallet.asserted

\* A node that returns to the chain it had follows it again.
ChainTipAdded(body) ==
    /\ WalletRuns /\ Len(blocks) < MaxHeight
    /\ ToSet(body) \cap ToSet(Tree(blocks, Len(blocks))) = {}
    /\ SettledStops /\ Len(blocks) < Len(settled) => body = settled[Len(blocks) + 1]
    /\ LET c == Append(blocks, body)
           synced == AddToWallet(wallet, Found(body, keys))
       IN  /\ blocks' = c /\ peak' = IF Len(c) > peak THEN Len(c) ELSE peak
           /\ unflushed' = Written(synced, Found(body, keys))
           /\ wallet' = IncrementNoteWitnesses(synced, c, Len(c))
    /\ UNCHANGED <<blocksOnDisk, walletOnDisk, keys, stale, settled, stops, imports>>

\* No more than MAX_REORG_LENGTH blocks below the greatest height, and not the first one: the
\* reorganisations for which the cache is made (the TODO of #1302).
ChainTipRemoved ==
    /\ WalletRuns /\ Len(blocks) > 1 /\ Len(blocks) > peak - MAX_REORG_LENGTH
    /\ SettledStops => Len(blocks) > Len(settled)
    /\ LET found == Found(Last(blocks), keys)
           synced == AddToWallet(wallet, found)
       IN  /\ blocks' = Front(blocks)
           /\ unflushed' = Written(synced, found \ InWallet(wallet))
           /\ wallet' = DecrementNoteWitnesses(synced, Len(blocks))
    /\ stale' = {"coins", "wallet"}
    /\ UNCHANGED <<blocksOnDisk, walletOnDisk, keys, peak, settled, stops, imports>>

\* A transaction with the note m enters the memory pool.
ReceiveTx(m) ==
    /\ WalletRuns /\ m \in keys /\ m \notin ToSet(Tree(blocks, Len(blocks))) /\ m \notin InWallet(wallet)
    /\ wallet' = AddToWallet(wallet, {m}) /\ unflushed' = Written(wallet', {m})
    /\ UNCHANGED <<blocks, blocksOnDisk, walletOnDisk, keys, peak, stale, settled, stops, imports>>

\* z_importkey, without a rescan or with one from the height start.
ImportKey(m, fRescan, start) ==
    /\ WalletRuns /\ imports < MaxImports /\ m \notin keys /\ imports' = imports + 1
    /\ keys' = keys \cup {m}
    /\ wallet' = IF fRescan THEN ScanForWalletTransactions(wallet, blocks, start, keys') ELSE wallet
    /\ unflushed' = [n \in MyNotes |-> IF n \in InWallet(wallet') \ InWallet(wallet) THEN CNoteData ELSE unflushed[n]]
    /\ stale' = IF fRescan THEN stale \cup {"wallet"} ELSE stale
    /\ UNCHANGED <<blocks, blocksOnDisk, walletOnDisk, peak, settled, stops>>

\* FlushStateToDisk with the coins.
FlushCoins ==
    /\ WalletRuns /\ blocksOnDisk' = blocks /\ stale' = stale \ {"coins"}
    /\ UNCHANGED <<blocks, wallet, walletOnDisk, unflushed, keys, peak, settled, stops, imports>>

\* FlushStateToDisk with SetBestChain: never between the steps of a reorganisation.
SetBestChain ==
    /\ WalletRuns /\ Len(blocks) = peak
    /\ walletOnDisk' = [contents |-> wallet, locator |-> blocks]
    /\ unflushed' = [m \in MyNotes |-> NoNote] /\ stale' = stale \ {"wallet"}
    /\ UNCHANGED <<blocks, blocksOnDisk, wallet, keys, peak, settled, stops, imports>>

\* What LoadWallet reads when the writes of the notes in kept have reached the disk.
LoadWallet(kept) ==
    [walletOnDisk.contents EXCEPT !.notes = [m \in MyNotes |->
        IF m \in kept /\ unflushed[m] # NoNote THEN unflushed[m] ELSE @[m]]]

\* The node stops, by a crash or by Shutdown, and starts again: step 8 of AppInit2.  The fork
\* is the highest block of the locator on the chain (FindForkInGlobalIndex).  With SettledStops,
\* only when nothing on disk is older than the last disconnection.
Stop(kept, fRescan) ==
    /\ WalletRuns /\ stops < MaxStops /\ stops' = stops + 1
    /\ SettledStops => stale = {}
    /\ LET loaded == LoadWallet(kept)
           fork == Len(LongestCommonPrefix({walletOnDisk.locator, blocksOnDisk}))
           cleared == [loaded EXCEPT !.nWitnessCacheSize = 0, !.notes =
                          [m \in MyNotes |-> IF @[m] = NoNote THEN NoNote ELSE CNoteData]]
       IN  IF ~fRescan /\ fork = Len(blocksOnDisk)
           THEN wallet' = loaded /\ UNCHANGED walletOnDisk /\ unflushed' = [m \in MyNotes |-> IF m \in kept THEN unflushed[m] ELSE NoNote]
           ELSE /\ wallet' = IF fRescan THEN ScanForWalletTransactions(cleared, blocksOnDisk, 0, keys)
                             ELSE ScanForWalletTransactions(loaded, blocksOnDisk, fork, keys)
                /\ walletOnDisk' = [contents |-> wallet', locator |-> blocksOnDisk]
                /\ unflushed' = [m \in MyNotes |-> NoNote]
    /\ blocks' = blocksOnDisk /\ peak' = Len(blocksOnDisk) /\ settled' = blocks
    /\ stale' = {}
    /\ UNCHANGED <<blocksOnDisk, keys, imports>>

WitnessNext ==
    \/ \E body \in Bodies : ChainTipAdded(body)
    \/ ChainTipRemoved
    \/ \E m \in MyNotes : ReceiveTx(m)
    \/ \E m \in MyNotes, fRescan \in BOOLEAN, start \in 0..Len(blocks) : ImportKey(m, fRescan, start)
    \/ FlushCoins
    \/ SetBestChain
    \/ \E kept \in SUBSET MyNotes, fRescan \in BOOLEAN : Stop(kept, fRescan)

-----------------------------------------------------------------------------
(* Properties. *)

\* Every witness that the wallet holds for a block of the chain is the one of that block, a
\* note in the chain has one for the tip, and no assertion of IncrementNoteWitnesses or
\* DecrementNoteWitnesses failed, whatever was connected, disconnected, received, imported,
\* rescanned and read back from disk before.
NotesWitnessed ==
    /\ wallet.asserted
    /\ \A m \in InWallet(wallet) :
          LET nd == wallet.notes[m]
          IN  nd.witnessHeight <= Len(blocks) =>
                /\ \A i \in DOMAIN nd.witnesses : nd.witnesses[i] = Tree(blocks, nd.witnessHeight + 1 - i)
                /\ m \in ToSet(Tree(blocks, Len(blocks))) => nd.witnesses # <<>> /\ nd.witnessHeight = Len(blocks)

=============================================================================
