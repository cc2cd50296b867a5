# Zcash node: TLA+ specifications

A model of the parts of `zcashd` where state is kept in more than one place or
changed by more than one thread: the coins caches, the block index and the choice
of the best chain, connecting and disconnecting blocks, the memory pool, block
download and orphans, the wallet's note witnesses, the commitment tree, the
address manager, and the queues between threads. Paths below are relative to the
repository's `src/` directory (`PROJECT.json` gives them with its prefix).

To check a run: `tlc -workers 2 -config <run>.cfg <module>`; to check the
proofs: `tlapm <module>.tla` for each module `*Proofs.tla`, each 5 to 20 minutes from
nothing.

## 1. The system

| Part | State | Operations that change it | What is hard |
|---|---|---|---|
| Coins views (`coins.cpp`) | cached coins, anchors, nullifiers with DIRTY/FRESH flags, best block, best anchors | reads that fill the cache, `ModifyCoins`, `SetNullifiers`, `PushAnchor`, `PopAnchor`, `Flush` | three layers must agree whatever was read, written, flushed or lost |
| Databases (`txdb.cpp`) | chainstate; block index | `BatchWrite`, `WriteBatchSync`, `EraseBatchSync`, load | two databases, not written together |
| Block index and chain selection (`main.cpp`, `chain.*`) | `mapBlockIndex`, `nStatus`, `nSequenceId`, `setBlockIndexCandidates`, `mapBlocksUnlinked`, `chainActive` | `AcceptBlockHeader`, `AcceptBlock`, `ActivateBestChain`, `InvalidateBlock`, `ReconsiderBlock`, `FlushStateToDisk`, pruning, `LoadBlockIndexDB`, `RewindBlockIndex` | lock released between steps, failed reorganisations, data that is pruned, crashes |
| Connecting blocks (`main.cpp`, `undo.h`) | the coins of the active chain, undo files | `ConnectBlock`, `DisconnectBlock` | undo must be exact |
| Memory pool (`txmempool.cpp`) | `mapTx`, `mapNextTx`, nullifier maps | add, recursive removal, removal for blocks, reorganisations, anchors, expiry | cross-linked maps; resurrection during a reorganisation |
| Block download, orphans (`main.cpp`) | `mapBlocksInFlight`, per-peer lists, counters, orphan maps | requests, arrivals, timeouts, disconnection, eviction | counters that must follow two structures; bounds |
| Queues and threads (`checkqueue.h`, `asyncrpcqueue.*`, `scheduler.*`, `httpserver.cpp`) | queues, condition variables, stop flags | add, work, cancel, close | lost wake-ups, shutdown |
| Wallet witness cache (`wallet/wallet.cpp`) | witnesses per note, heights, cache size | increment, decrement, write | written at other times than the chain |
| Address manager (`addrman.*`) | table of addresses, four indexes, reference counts | `Add`, `Good`, `GetAddr`, save and load | every call changes several indexes |
| Note commitment tree (`zcash/IncrementalMerkleTree.*`) | frontier, witnesses with a cursor | append, read back | positions at every fill of the tree |
| Others | | | difficulty, scripts, cryptography, I/O: out of reach |

`cs_main` serialises the first five. `ConnectTip` and `DisconnectTip` open a
view on `pcoinsTip`, apply or undo a block through it, flush it into
`pcoinsTip`, may flush everything to disk, and then move `chainActive`. The
memory pool is changed on the way and the wallet is told afterwards. The thread
that connects a block waits for the workers of the script check queue; an HTTP
worker runs an RPC command, which may leave an operation to the asynchronous
queue; `Shutdown` waits for both kinds of worker.

What makes the system correct:

- a view shows exactly the writes made through it and below it, and a crash
  returns to the last flush;
- the assertions the code makes about its caches and its candidates hold;
- the node ends on the best chain it can reach, whatever order blocks arrive
  in, whatever fails, is pruned, or is invalidated and reconsidered;
- whatever is on disk when the node stops, it can start from;
- undo data restores exactly what a block changed;
- the memory pool never holds what the next block could not, however the chain
  changed under it;
- records of the same fact (blocks in flight, orphans, addresses, witnesses)
  agree after any sequence of calls;
- no thread sleeps through its notification, no result is lost, and a shutdown
  ends.

The hazards, each with its line and the properties that would catch it, are in
`PROJECT.json`.

## 2. Modules

### CoinsLedger, CoinsCache

`CoinsLedger` says what the views promise: three complete ledgers (disk, tip,
working copy), writes to the working copy, commit, discard, sync and crash.

`CoinsCache` is the implementation. `db`, `tip` and `view` are `CCoinsViewDB`,
`pcoinsTip` and the view of the block in progress (`open`). A cache is a record
of the maps of `CCoinsViewCache`; an entry that is not in a map has `in` false.
`FetchCoins`, `GetAnchorAt`, `GetNullifier`, `GetBestBlock` and `GetBestAnchor`
are the reads of the same names and return the map with the entry pulled in, so
a read of the view also fills `tip` as in the code. `ModifiedEntry` is
`ModifyCoins`, the assignment through the modifier and `~CCoinsModifier`.
`BatchWrite` merges a cache into the one below and `DbBatchWrite` into the
database. Sprout and Sapling are the members of `Types`: their code is the same.
The views are used with `cs_main` held, so each operation is one step and
`pcoinsTip` is not flushed while a view is open; `Restart` may come between any
two operations.

Data: a `CCoins` is an opaque value, one of them `Pruned`. A tree is named by
its root. `PushAnchor` pushes the current root or one the chain does not have,
as appending commitments does; `PopAnchor` returns to a root the chain has, and
never below `Floor`, the best root when the node started. `FlushView` is taken only
when the view knows its best block and anchors, as every caller in `main.cpp` has read
or set them: that `BatchWrite` would copy null ones over those of its parent is not in
the model.

`Ledger` is the refinement mapping: `Over(c, base)` is the ledger seen through
the cache `c` above `base`.

### BlockTree, ChainState

`BlockTree` holds the tree of all blocks anyone may produce, as constants, the
order of `CBlockIndexWorkComparator` (`Worse`) and `FindFork`.

`ChainState` holds what the node knows and does. Variables and the code:
`known` is `mapBlockIndex`, `received` and `linked` the blocks with `nTx` and
`nChainTx` set, `status` and `seq` are `nStatus` and `nSequenceId`,
`candidates` and `unlinked` are `setBlockIndexCandidates` and
`mapBlocksUnlinked`, `tip` and `coins` the best blocks of `chainActive` and
`pcoinsTip`, `dirty` is `setDirtyBlockIndex`, `disk` both databases, and `job`
the operation whose thread holds `cs_main`.

- `AcceptBlockHeader`, `AcceptBlock`, `RejectBlock`: arrivals, with the early
  returns of `AcceptBlock` in `WantsBlock` and the queue of
  `ReceivedBlockTransactions` in `NowLinked`. The order of siblings in the queue
  is that of a multimap and is left open.
- `ActivateBestChain` (with all of `FindMostWorkChain`), `StepDisconnect`,
  `StepConnect`, `StepInvalid`, `UpdateTip`: one step of
  `ActivateBestChainStep` each, so that a flush or a crash may come between
  `pcoinsTip` and `chainActive` moving, where `FlushStateToDisk` is called.
  `DisconnectTip` has three outcomes: without block data the node shuts down
  (`AbortNode`); without undo data it returns an error, which ends the operation and
  leaves the node running; else the coins go back by one block.
- `InvalidateBlock`, `InvalidateDisconnect`, `InvalidateDone`,
  `ReconsiderBlock`: the two RPC calls.
- `FlushState`, `FlushIndex`: `FlushStateToDisk` with and without the
  chainstate. Whether it writes depends on time and on sizes, so in the model it
  may write wherever it is called. It is an action of its own because it also is
  called from other threads between operations.
- `Restart`, `RewindDisconnect`, `RewindErase`, `RewindFlush`: a stop at any
  point, in a flush between the two databases too; `LoadBlockIndexDB`; and
  `RewindBlockIndex` of the same or of a newer release.

Whether a block fails `ContextualCheckBlock` or `ConnectBlock` is a constant;
a block in `InvalidIfUpgraded` fails only under the newer rules.

Left out: `pindexBestHeader`, `pindexBestInvalid`, chain values, block file
positions, the calls to the memory pool and the wallet, system errors (full
disk, unreadable file), `CorruptionPossible` failures, invalidating the genesis
block, entries `InsertBlockIndex` creates for parents missing on disk.
`setBlockIndexCandidates` and `mapBlocksUnlinked` are plain sets.
`FindFilesToPrune` removes any set of old enough blocks: which blocks share a
file, and the size target, are left open.

### BlockConnect, TxMemPool, MempoolChain

`BlockConnect` has the transactions (constants) and, as functions on a view,
`UpdateCoins` with its undo data, `ConnectBlock`, `ApplyTxInUndo` and
`DisconnectBlock`: an undo record has the height and the coinbase flag only with
the last output of a transaction, as in `undo.h`. The view is one record here;
that the stack of caches behaves like one is what `CoinsCache` shows.

`TxMemPool` is `mapTx`, `mapNextTx` and the nullifier maps, with one operator per
`remove...` function. `MempoolChain` puts it beside a chain:
`ActivateBestChainStep` in the steps `DisconnectTip`, `Resurrect` (one transaction
of the block at a time), `DisconnectDone`, `ConnectTip`, `RemoveOne`,
`ConnectDone` and `FinishStep`, in the order of the code, so that transactions are
re-accepted while `chainActive` still has the old height. `CreateNewBlock` is the
miner's choice from the pool, without limits. `removeForReorg` looks for coins in the
cache, where a pruned entry may still be: which of the pruned coins it misses is left
open in `FinishStep`. Left out: fees, sizes, priorities,
scripts; that a transaction is nonstandard is a flag.

### BlockDownload, OrphanTxs, Peers

`Lists` has the loop over a list that these parts and `BlockConnect` share.
`BlockDownload` has `CNodeState`, `mapBlocksInFlight` and the counters; a block is
the path that leads to it, so ancestors are prefixes. The handlers of `inv`,
`headers` and `block`, `SendMessages` (start of the sync, stalling, time-outs,
`FindNextBlocksToDownload`) and `FinalizeNode` are one action each, with the clock
as `Tick`. `OrphanTxs` has the two orphan maps and the `tx` handler with its work
queue. `Peers` composes them: `FinalizeNode` changes both. Misbehaviour and bans
are not modelled: a peer may be disconnected at any time.

### NoteWitnesses, IncrementalMerkleTree

`NoteWitnesses` has the notes of the wallet with their witnesses,
`nWitnessCacheSize`, the chain, and what of the two is on disk. A tree or witness
is the sequence of commitments appended to it. Actions: `ChainTip` for a block
added or removed, receipt of a transaction, `z_importkey` with and without a
rescan, the flush of the coins, `SetBestChain`, and `Stop`, a crash or a shutdown
followed by the next start with its rescan. What `AddToWallet` writes outside
`SetBestChain` may or may not reach the disk.

`IncrementalMerkleTree` has the frontier (`left`, `right`, `parents`) and a witness
with `filled`, `cursor` and `cursor_depth`; a hash is the term that was hashed, so
it is injective. It justifies the abstraction in `NoteWitnesses`: a witness that is
fed every later commitment, and read back from disk at any time, has the root of
the tree and a path that leads to it.

### AddrMan

One record with `mapInfo`, `mapAddr`, `vRandom`, both tables and the counters;
`Add_`, `Good_`, `MakeTried`, `ClearNew`, `Delete`, `SwapRandom`, `GetAddr_` as in
the code, and the round trip through `peers.dat`. Hashing into buckets is a
constant, whether an entry is terrible an open choice. What `Unserialize` does about
entries that collide is left out: a file written in a state with `AddrManCheck` and read
with the `nKey` in it has none.

### CheckQueue, Scheduler, HttpServer, AsyncRPCQueue, RpcServer

A step is a critical section. A thread that waits is in state `wait`; a
notification moves any one or all of those waiting. `CheckQueue` is `Loop` for
workers and master with `CCheckQueueControl`, and interruption inside the wait.
`Scheduler` is `serviceQueue` with a clock. `HttpServer` is `WorkQueue` with the
event thread; a worker is created detached and counted only by `HttpStart`, when it gets
to `Run`, which may be after the queue was deleted (state `late`). `AsyncRPCQueue` has the lock held across steps where the code reads
an atomic that others write without it, and `cancel` in two steps. `RpcServer`
composes the last two with `Interrupt`, `StopRPC` and `StopHTTPServer`.
`finishAndWait`, which `StopRPC` does not use, is allowed in place of
`closeAndWait`.

### MC modules

`MCCoinsCache` and `MCChainState` give the constants their values: two roots for
`Floor`, two block trees (a fork in which the second branch has more work, and a
tree with a rival block and a block with two children). `MCThreads` and
`MCRecords` hold several parts that share no state: a behaviour is of one part,
named by the variable `part`, and the others keep their initial state.

## 3. What is model-checked

| Run | Bounds | Result |
|---|---|---|
| `CoinsCacheCoins` | 1 transaction, 3 coin values, 1 nullifier, anchors fixed | `TypeOK`, `FlagsSound`, `FlushAssert`, `LedgerSpec` hold (73,016 states) |
| `CoinsCacheAnchors` | 4 roots, no coins | `FlagsSound`, `BestAnchorKnown`, `TreeOfRoot`, `LedgerSpec` hold (40,182 states) |
| `CoinsCacheNewChain` | 2 roots, the chain may return to the empty tree | `BestAnchorKnown` is violated |
| `ChainStateSelect` | 6 blocks, one malformed, one invalid, 2 RPC calls | `FailedMask`, `CandidatesSound`, `BestChain`, `ActiveValid`, `Activates` hold (11,935 states) |
| `ChainStatePrune` | 5 blocks, 1 block kept, reorganisations of 1 block, 1 RPC call | `ReorgData`, `UnlinkedExact`, `BestChain` hold (82,205 states) |
| `ChainStateRestart` | 6 blocks, an upgrade at height 2, 1 restart | `TypeOK`, `Starts`, `DiskChain`, `ActiveValid`, `IndexClosed`, `BestChain` hold (33,578 states) |
| `ChainStateReconsider` | 5 blocks, 2 RPC calls on different blocks | `BestChain` is violated |
| `ChainStateRelease` | 5 blocks, one invalid | `TipCandidate` is violated |
| `ChainStateRewind` | 4 blocks, 2 restarts | `Starts` is violated |
| `Threads` | see below | `CheckQueueIdle`, `VerdictRight`, `BlockIsChecked`, `NotEarly`, `TaskIsCalled`, `OperationsEnded`, `QueueUnused`, `RequestAnswered`, `ShutdownEnds` hold (121,095 states) |
| `Records` | see below | `PoolCheck`, `MinerTakesAll`, `ViewOfChain`, `PeerRecords`, `OrphansExact`, `NotesWitnessed`, `AddrManCheck`, `WitnessesTheTree` hold (318,559 states) |
| `RecordsStop` | as `Records`, the node may stop at any time, no import | `NotesWitnessed` is violated |

Why the bounds are enough. Keys of a cache do not interact, so one transaction
and one nullifier show every history of an entry; three coin values tell a
change from no change and from pruning; four roots give the empty tree, the
floor and two above it. The trees are deep enough for a reorganisation at the
limit and one beyond it, for a reorganisation that fails half-way, and for a
block whose parent and grandparent are missing. `MaxSequenceId`, `MaxCalls` and
`MaxRestarts` bound counters; `MaxSequenceId` is larger than the number of
arrivals except where pruned blocks are received again. `MayFlush` lets the node
write only while something can still read what is written.

Bounds of `Threads`: a check queue with two workers, two blocks of up to four
checks in batches of two, interrupted or not; one service thread, a task and a
repeating one, four ticks; two HTTP workers, a queue of depth one and two
requests, one operation and one asynchronous worker. So checks are left for
another thread, a request finds the queue full, a notification of the check queue
or of the HTTP queue has two threads to choose from, and a shutdown comes at any
point. Several asynchronous workers are covered by the theorems, not by this run.

Bounds of `Records`: nine blocks in three branches that end at height 4, and eight
transactions besides the coinbases (spends of coinbases at the edge of maturity, a
chain of spends, two double spends, anchors, expiry, lock height, a change of
consensus branch at height 5); two peers and
two connections in all, three blocks above the genesis block of which one is
malformed, a download window of one; six transactions that may be orphans (one
too large, one with JoinSplits, one rejected) and room for two; chains of three blocks with reorganisations of
one, one stop and one import; three addresses and two sources that collide in
both tables; a tree of depth 4 filled to its last leaf. `MaxIds`,
`MaxConnections`, `MaxHeight`, `MaxStops` and `MaxImports` bound counters.

`ChainStateSelect` checks for deadlock. `Threads` and `Records` do not: their work
is bounded, and threads end. `ChainStatePrune` and `ChainStateRestart` do not: a node that asked for its own shutdown, or that used
up its restarts and cannot start, has really stopped.

Fairness. `Activates` assumes weak fairness of the steps of an operation in
progress and of `ActivateBestChain`. A thread that holds `cs_main` runs on, and
everyone who may add a candidate (`ProcessNewBlock`, the RPC calls, the import at
startup) calls `ActivateBestChain`, which loops until the tip is the best
candidate. Arrivals, RPC calls, flushes and restarts are not assumed to happen.
The liveness properties of `Threads` assume weak fairness of every thread that is
in its loop, of the master up to its call of `Wait`, of the event thread, of the
main thread once a shutdown was requested, and of the clock: threads are scheduled
and their work returns. Nothing makes a block, a request, a task or a signal
arrive. Strong fairness is not needed.

### Disagreements between the code and what it says

1. `CoinsCacheNewChain`. `CCoinsViewDB::BatchWrite` never writes the empty root
   as the best anchor, but erases the anchor above it. After a reorganisation
   back to the empty tree, a flush and a restart, the best anchor cannot be
   fetched, which `ConnectBlock` says "should never fail" (`main.cpp:2435`). The
   other runs and the theorems about best anchors assume a chain that has had a
   shielded output no reorganisation removes.
2. `ChainStateReconsider`. `ReconsiderBlock` clears the marks of the ancestors
   of its block and does not make them candidates again. If the block itself has
   no data, the better chain below it is not activated until other blocks
   arrive, against the comment of `CheckBlockIndex` (`main.cpp:4600`) and the help
   of `reconsiderblock`.
3. `ChainStateRelease`. After a reorganisation that failed half-way, `cs_main` is
   released with a tip that is no candidate; `CheckBlockIndex`
   (`main.cpp:4602`), which another thread may call then, says it must be one.
4. `ChainStateRewind`. `RewindBlockIndex` erases index entries before the
   chainstate is written; a crash between the two leaves a node that cannot
   start, which the comment at `main.cpp:4263` says its order avoids.
5. `RecordsStop`. The wallet is written about hourly, the coins about daily. A
   node that stops in between starts below the wallet. If it then connects another
   block at that height, `IncrementNoteWitnesses` skips the notes that already
   have the height, and their witness stays one of a block that is not in the
   chain. The comments at `wallet/wallet.cpp:755` ("This doesn't affect existing
   cached notes because of the CNoteData::witnessHeight checks") and
   `wallet/wallet.cpp:1206` say a crash is harmless. `Records` therefore has stops
   after which the node returns to the chain it had, and only when nothing was
   disconnected or rescanned since the last write (`SettledStops`).

Also seen while choosing the bounds, without a run of their own:

- a block that was connected, pruned and received again has data and no undo data.
  `invalidateblock` of such a tip marks it, takes it from `setBlockIndexCandidates` and
  then fails in `DisconnectBlock` (`main.cpp:2189`, `2781`, `3151`): the node runs on with
  a tip that is marked and no candidate, and each `ActivateBestChain` from it fails in
  the same place. The run `ChainStatePrune` reaches such states (`TipLeftInvalid`), and
  `BestChain` and `ReorgData` say nothing of them; without pruning there are none;
- `~WorkQueue` has the precondition "worker threads have all stopped (call WaitExit)"
  (`httpserver.cpp:101`). Workers are detached (`httpserver.cpp:452`) and `WaitExit` waits for
  those counted so far, so a shutdown right after the start may delete the queue before
  a worker enters `Run`. The run `Threads` reaches such states (`late`); `QueueUnused` is
  about the workers that were counted;
- with `invalidateblock` and a crash before the next full flush, the load finds
  no candidate at least as good as the tip (`PruneBlockIndexCandidates` asserts
  one);
- reconsidering a block other than the one invalidated leaves `FAILED_CHILD` on
  its siblings' descendants;
- a block received while its parent is marked invalid is not put in
  `mapBlocksUnlinked` (`main.cpp:3314`), and is not found after the parent is
  reconsidered;
- the same without `reconsiderblock`: a2 waits for a1, `invalidateblock` names a2, a3
  arrives and is not put in `mapBlocksUnlinked`, a4 arrives and is; when a1 arrives a1
  and a2 are linked, and a4 stays in `mapBlocksUnlinked` with no ancestor missing,
  which `CheckBlockIndex` says cannot be;
- a candidate that was pruned and is received again gets a new `nSequenceId`
  (`main.cpp:3300`), and so may become worse than a tip of the same work while it is
  still in `setBlockIndexCandidates`;
- `RewindBlockIndex` stops at a pruned block, and after an upgrade leaves blocks above
  it that were connected under the old rules;
- a crash between the index write of a pruning flush and the chainstate write may
  leave recent blocks without data;
- the rewind limit admits one block more than its message says (`main.cpp:4224`);
- `FinalizeNode` does not take the dropped blocks from `nQueuedValidatedHeaders`,
  described as "Number of blocks in flight with validated headers." at
  `main.cpp:202`; `InFlightExact` states only that it counts no fewer;
- with two service threads `NotEarly` fails: a thread whose wait timed out takes
  what is first in the queue then. The code creates one (`init.cpp:1194`);
- a `z_importkey` with a rescan, followed by a stop within the hour, leaves the
  note without its witness, also when the shutdown is clean;
- a new wallet on a long chain has an empty witness cache and aborts at the
  assertion after the TODO of #1302 (`wallet/wallet.cpp:841`) when its first block
  is disconnected; `ChainTipRemoved` keeps to the reorganisations the cache is
  made for;
- `cancel` may write `CANCELLED` over a state that a worker has set since;
- a transaction that expires with the block being disconnected is not re-accepted,
  because the check uses the old height; one that expires with height h stays in
  the pool for one block more, and miners skip it;
- orphans whose parents arrive in a block wait until they are evicted.

The passing runs keep these combinations apart, which is why there is no run
with restarts and RPC calls, or restarts and pruning, together.

## 4. What is proved

For every value of the constants of `CoinsCache` that satisfies
`PrunedAssumption`, `RootAssumption` and `NullAssumption`:

| Theorem | Statement |
|---|---|
| `Invariant` | `Spec => []Inv` |
| `TypeCorrect` | `Spec => []TypeOK` |
| `FlagsCorrect` | `Spec => []FlagsSound` |
| `FlushAssertHolds` | `Spec => []FlushAssert` |
| `TreesCorrect` | `Spec => []TreeOfRoot` |
| `BestAnchorAlwaysKnown` | above the floor, `Spec => []BestAnchorKnown` |
| `Refinement` | above the floor, `Spec => LedgerSpec` |

"Above the floor" is `\A t \in Types : Floor[t] # EmptyRoot`; the first run of
the list of disagreements shows that it is needed.

`FlagsSound` alone is not inductive. When the view is flushed, an entry of `tip`
is replaced, and whether a FRESH entry may be deleted depends on what the
database holds, and whether an entry of the view may be absent from `tip`
depends on how it got there. `Inv` therefore adds: an entry of a coin the view
holds without FRESH is in `tip` too; the trees in both caches are those of their
roots; the empty root is an anchor through either cache, whatever was pushed or
popped; and a view that is not open is empty. For the last two theorems
`BestInv` adds that the best anchor of each of the three ledgers is one of its
anchors and not the empty one: `DbBatchWrite` then writes every best anchor.

The first half of `CoinsCacheProofs` proves what each read and each merge does to one
map: to its type, its flags and the ledger seen through it. The second half has one
lemma per action that looks these up and gives the step of `CoinsLedger` the action
implements; `NextInv` and `NextLedger` put them together.

### Block index and chain selection

For every block tree that satisfies the assumptions of `BlockTree` and every value of
the other constants (`ChainTreeProofs`, `ChainStateProofs` and, with the theorems,
`ChainProofs`):

| Theorem | Hypotheses | Statement |
|---|---|---|
| `TypeCorrect` | `RestartsApart` | `Spec => []TypeOK` |
| `IndexStaysClosed` | `RestartsApart` | `Spec => []IndexClosed` |
| `ActiveChainValid` | `RestartsApart`, `UndoThere` | `Spec => []ActiveValid` |
| `MarksHaveReason` | `RestartsApart`, `FirstReconsidered` | `Spec => []FailedMask` |
| `CandidatesAlwaysSound` | `RestartsApart`, no pruning | `Spec => []CandidatesSound` |
| `BestChainChosen` | `RestartsApart`, `FirstReconsidered`, no pruning | `Spec => []BestChain` |
| `DiskHoldsChain` | `RestartsApart`, no pruning | `Spec => [](Starts => DiskChain)` |
| `RestartGoesOn` | no pruning, `Invalidated = {}` | a restart but from `RewindFlush` keeps `Starts` |
| `AlwaysStarts` | no pruning, `Invalidated = {}`, `RewindUndisturbed` | `Spec => [](Starts /\ DiskChain)` |
| `UnlinkedIsExact` | `RestartsApart`, `[][CallsForLinked]_vars` | `[]UnlinkedExact` |

The hypotheses are about constants, or in the last row about the calls, and each
excludes something the code really does:

- `RestartsApart`: no restarts, or no pruning and not both invalidated blocks and an
  upgrade. `RewindBlockIndex` stops at a pruned block, so that `ActiveValid` fails; and
  it takes an activation block that is marked invalid for one that obeys the rules, so
  that it can erase an entry below one it keeps, and `IndexClosed` fails.
- `UndoThere`: no pruning, or no invalidated blocks. Else `invalidateblock` can leave a
  marked tip (section 3).
- `FirstReconsidered`: `reconsiderblock` names no block above another that can be
  invalid. It is what the disagreement of `ChainStateReconsider` needs.
- No pruning, for the candidates: a pruned block that is received again is reordered
  among its equals while it is a candidate (section 3).
- `Invalidated = {}`, for restarts: with a marked block in the chain of the chainstate
  `LoadBlockIndexDB` may have no candidate left.
- `RewindUndisturbed`: one restart, or no upgrade that makes `RewindBlockIndex` erase a
  connected block. It excludes the disagreement of `ChainStateRewind`.
- `CallsForLinked`: `invalidateblock` names no waiting block and `reconsiderblock` is not
  called. Without it a block is left out of `mapBlocksUnlinked` or forgotten in it
  (section 3).

The constants of the passing runs satisfy `RestartsApart` and `FirstReconsidered`, those
that check `ActiveValid` satisfy `UndoThere`, those
of `ChainStateRestart` all that `AlwaysStarts` needs, and in `ChainStatePrune` every step
satisfies `CallsForLinked`.

None of the properties is inductive. The invariants, each proved on top of the ones
before it, are:

- `Inv`, for all of the theorems. The index in memory and the one on disk are trees; the
  one on disk agrees with the one in memory but for dirty blocks (`DiskFits`); a block
  that was connected has connected blocks below it and obeys the rules of the release,
  except where the rewind has not been yet (`FlagsInv`, `RulesInv`); and the tip and the
  best block of the coins are at most one block apart, in the way the operation in
  progress moves them (`ActiveInv`). `WorkInv` says that no candidate has less work than
  the tip, so that a step never returns to an ancestor of the tip.
- `MarksInv`: the marks in memory and on disk come from a block that can be invalid.
- `DataInv` and `LinkInv`, without pruning: what was received has its data, what was
  connected has undo data, and what is linked, a candidate or a target is linked all the
  way down.
- `FloorInv`, for `BestChain`: there is always a candidate `f`, the *floor*, whose chain
  was connected and is not marked, that is the tip or better, and all linked unmarked
  blocks better than it are candidates. The tip itself does not do: after a
  reorganisation that fails half-way it is no candidate (the disagreement of
  `ChainStateRelease`), and the floor is then the tip that was left.
- `StartInv`: the node has started and the tip on disk is in the index on disk, so that
  the next start finds it.
- `WaitInv`: `linked` is exactly what has no missing ancestor (but for pruning), a
  waiting block is in `mapBlocksUnlinked` under its own first missing ancestor, and
  whatever is neither is stuck above a marked block.

The facts about finite sets and about trees (an ancestor is lower and has less work, a
part of a chain has a lowest and a highest block) are hypotheses of the lemmas, under
the names `SetFacts` and `TreeFacts`, and proved at the end of `ChainProofs` by a well-
founded induction on the height.

### Threads, memory pool and peers

For every value of their constants under the assumptions named in the modules:

| Theorem | Statement | Inductive invariant |
|---|---|---|
| `NeverEarly` (`NodeProofs`) | if there is one service thread, `SchedulerSpec => []NotEarly` | `SchedulerInv`: the entry a thread waits for is still in the queue, since nobody else takes one, and after a time-out it is due, and so is any that is before it |
| `QueueUnusedAlways` (`NodeProofs`) | `RpcSpec => []QueueUnused` | `HttpInv`: `numThreads` is the number of workers that have begun and not left the queue |
| `OperationsEndedAlways` (`NodeProofs`) | `RpcSpec => []OperationsEnded` | `AsyncInv`: an operation in the map has ended, or is queued, held by a worker, or still to be cancelled; a worker leaves only a queue that is closed or empty |
| `AlwaysIdleBetweenBlocks`, `WaitReturnsTheVerdict` (`NodeProofs`) | `CheckQueueSpec => []CheckQueueIdle`, `... => []VerdictRight` | `CheckQueueInv`: `nTodo` is what is queued and in batches, `nIdle` and `nTotal` count the threads (one interrupted in its wait stays in both), and failures are in `fAllOk`, the queue or a batch |
| `IndexesExact`, `NoDoubleSpend` (`NodeProofs`) | `MempoolSpec => []PoolIndexes`, and no two transactions of the pool conflict | `PoolInv` and `StepInv`: the pool holds known ids and its indexes are exact at every step of a reorganisation |
| `OrphansAlwaysExact` (`PeersProofs`) | `PeersSpec => []OrphansExact` | `OrphanInv`: `OrphansExact` with the types of both maps is inductive; `Exact` is the same without the bound, for the states inside a handler |
| `RecordsAlwaysExact` (`PeersProofs`) | `PeersSpec => []PeerRecords` | `PeersInv`: `DownloadInv`, and every orphan is of a peer that sent its version |

`DownloadInv` says that the queues are exact (`QueuesExact`: the list of a peer and
`mapBlocksInFlight` name the same blocks, each in one list and once, and the counters
are the lengths of the lists), that no peer is asked for more than its limit, and that
`nSyncStarted` and `nPreferredDownload` count the peers. `DownloadProofs` shows that
`MarkBlockAsReceived`, `MarkBlockAsInFlight` and the walk of `FindNextBlocksToDownload`
preserve `QueuesExact` whatever the queues are; `PeersProofs` that every message, time-
out and disconnection does. The walk is a fold over a list, and the argument is by
induction on how much of the list is left: it never asks twice for a block, nor for one
in flight, nor for more than the peer has room for. `IndexesExact` is the first half of
`PoolCheck`.

An induction over data cannot use the induction theorems of the library, which take an
operator as a parameter. Where one was needed (the height of a block, the length of a
list) the proofs take the least counterexample instead, with `WFMin` on the natural
numbers, and unfold a fold to the recursive function it is.

### Address manager

For any addresses, sources and new buckets, any way in which they hash to places of the two
tables, and any limits (`AddrManProofs`):

| Theorem | Statement | Inductive invariant |
|---|---|---|
| `AddressesIndexed` | `AddrManSpec => []AddrManCheck` | `AddrInv(addrman, {}, {})` |

`AddrInv(m, H, U)` holds in the middle of a call too. It says that `mapAddr` and `mapInfo`
are inverse to each other (`AddressesExact`), and so are `vRandom` and `nRandomPos`
(`RandomExact`); that the new table holds an entry only where its address hashes to, and
`nRefCount` is the number of places it has there (`NewExact`); that an entry is in the
tried table, at its one place, exactly if `fInTried` (`TriedExact`); that `H` are the
entries which are in neither table (`InHand`); and that `nTried` is exact and `nNew`
counts all other entries but those in `U` (`Counted`). `H` and `U` are what a call has in
hand: `Create` makes an entry with no place, and `MakeTried` takes one out of the new
table, then evicts another from the tried table, which may push a third out of the new
one, before it has put down the first. Between calls both are empty, which is what
`Check_` tests under `DEBUG_ADDRMAN`.

There is a lemma for each helper of the code (`SwapInv`, `DeleteInv`, `ClearNewInv`,
`CreateInv`, `EvictInv`, ...) and one for each call. `GetAddr_` is a fold over `vRandom`,
for which the argument is an induction on the number of swaps. For `Reload` it is that
`Number` is a bijection from the entries to `0..(nNew + nTried - 1)` that puts the new
ones first; it counts the smaller ids of the same table, as the loops of `Serialize` do.

### Only model-checked

- Liveness (`Activates`, `BlockIsChecked`, `TaskIsCalled`, `RequestAnswered`,
  `ShutdownEnds`), which is out of the prover's reach.
- `ReorgData`: with pruning, whether a block below the tip has data depends on how far
  the tip has come down since the block files were chosen, a quantity the model bounds
  by its trees and no variable holds.
- `CandidatesSound` and `BestChain` with pruning, and everything with restarts and
  pruning together, for the reasons above.
- The second half of `PoolCheck`, `MinerTakesAll` and `ViewOfChain`, which compare the
  coins of a chain with a fold of `ConnectBlock` over it: undo data inverts a block only
  for coins that earlier blocks made, so each needs an induction over the chain with the
  whole ledger as its hypothesis.
- `NotesWitnessed` and `WitnessesTheTree`, about folds over sequences and trees whose
  contents matter at every step.

## 5. What could follow

The choice of peers and their bans; a crash in the middle of a wallet rescan; the
table of upgrade epochs and the difficulty as operators over a small width, against
a reference definition; the bounded containers (`mruset.h`, `limitedmap.h`); and
theorems about the undo data.

## 6. Not modelled

Cryptography and zero-knowledge proofs, the script interpreter, wire formats,
sockets, HTTP parsing, Berkeley DB and LevelDB internals, fee estimation, the
limits and priorities of block assembly, proof of work, key storage and coin
selection, RPC argument parsing and formatting, metrics and notifications: pure
I/O, floating-point or bit-level functions whose result is at most a constant in
these models. LevelDB is taken to write a batch atomically and in order.
`PROJECT.json` lists every part with its status.

The map names a small share of the repository's lines. Most of the others are of
the libraries kept in the tree (`leveldb`, `secp256k1`, `univalue`, `snark`), of
cryptography, scripts, serialization, key and wallet storage, and of RPC commands
that read state and format it. The parts listed in section 5 are the exceptions
that could be modelled and are not.

Inside the modelled parts these are left out: the free-transaction rate limiter
of the memory pool; misbehaviour scores and bans; `getdata`
answers and inventory relay; an HTTP request callback that races with the deletion of
the queue; a disconnection that empties the wallet's witness cache; a crash in the middle of a wallet rescan;
failed reorganisations deeper than `MAX_REORG_LENGTH` below the greatest height;
reindexing and `VerifyDB`.
