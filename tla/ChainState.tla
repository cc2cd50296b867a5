----------------------------- MODULE ChainState -----------------------------
(***************************************************************************)
(* The block index and the active chain of main.cpp: how a node learns of  *)
(* blocks, chooses the chain with the most work, moves its tip to it one   *)
(* block at a time, obeys invalidateblock and reconsiderblock, writes its  *)
(* state to disk, prunes block files, and starts again after a stop.       *)
(*                                                                         *)
(* cs_main is held from the start of an operation to its end; between two  *)
(* operations, and between two steps of ActivateBestChain, any thread may  *)
(* take it.  "job" is the operation whose holder has it.  The node may     *)
(* stop at any point: what is then on disk is all that is left.            *)
(***************************************************************************)
EXTENDS BlockTree, FiniteSets

CONSTANTS
    BadBlocks,          \* fail ContextualCheckBlock
    InvalidBlocks,      \* fail ConnectBlock
    UpgradeHeight,      \* activation height of the upgrade of a newer release
    InvalidIfUpgraded,  \* fail ConnectBlock under the rules of that release
    fPruneMode,
    MIN_BLOCKS_TO_KEEP,
    MAX_REORG_LENGTH,
    Invalidated,        \* the blocks invalidateblock is called for
    Reconsidered,       \* the blocks reconsiderblock is called for
    MaxCalls,           \* bound on the number of these calls
    MaxRestarts,        \* bound on restarts
    MaxSequenceId       \* bound on nBlockSequenceId

ASSUME BlockSetsAssumption ==
    /\ BadBlocks \cup InvalidBlocks \cup InvalidIfUpgraded \subseteq Blocks \ {Genesis}
    /\ Invalidated \cup Reconsidered \subseteq Blocks \ {Genesis}
ASSUME LimitsAssumption ==
    /\ UpgradeHeight \in Nat \ {0} /\ fPruneMode \in BOOLEAN
    /\ MIN_BLOCKS_TO_KEEP \in Nat /\ MAX_REORG_LENGTH \in Nat \ {0}
    /\ MaxCalls \in Nat /\ MaxRestarts \in Nat /\ MaxSequenceId \in Nat

VARIABLES
    known,              \* mapBlockIndex
    received,           \* the blocks with nTx > 0
    linked,             \* the blocks with nChainTx > 0
    status,             \* nStatus
    seq,                \* nSequenceId
    nBlockSequenceId,
    candidates,         \* setBlockIndexCandidates
    unlinked,           \* mapBlocksUnlinked: the blocks B of its pairs A -> B (A is pprev of B)
    tip,                \* chainActive.Tip()
    coins,              \* the best block of pcoinsTip
    dirty,              \* setDirtyBlockIndex
    disk,               \* the block index database and the best block of the chainstate database
    job,                \* the operation in progress
    upgraded,           \* whether the newer release is running
    calls, restarts     \* what the bounds count

index == <<known, received, linked, status, seq, nBlockSequenceId>>
vars == <<index, candidates, unlinked, tip, coins, dirty, disk, job, upgraded, calls, restarts>>

-----------------------------------------------------------------------------
(* BlockStatus.  VALID_TREE holds of every block in the index. *)

TRANSACTIONS == "BLOCK_VALID_TRANSACTIONS"
SCRIPTS == "BLOCK_VALID_SCRIPTS"
DATA == "BLOCK_HAVE_DATA"
UNDO == "BLOCK_HAVE_UNDO"
FAILED_VALID == "BLOCK_FAILED_VALID"
FAILED_CHILD == "BLOCK_FAILED_CHILD"
ACTIVATES == "BLOCK_ACTIVATES_UPGRADE"

FAILED_MASK == {FAILED_VALID, FAILED_CHILD}
Flags == {TRANSACTIONS, SCRIPTS, DATA, UNDO, ACTIVATES} \cup FAILED_MASK

Failed(flags) == flags \cap FAILED_MASK # {}
IsValid(flags, upTo) == ~Failed(flags) /\ upTo \in flags

\* Nothing is in progress: cs_main is free.
Idle == [op |-> "idle", target |-> Genesis, old |-> Genesis]
Job(op, target, old) == [op |-> op, target |-> target, old |-> old]
Ops == {"idle", "step", "invalidate", "shutdown", "rewind", "flush", "aborted"}

-----------------------------------------------------------------------------
(* Headers and blocks arrive. *)

\* AddToBlockIndex, for a header whose parent is known and not marked invalid.
HeaderFits(b) == b \notin known /\ Parent[b] \in known /\ ~Failed(status[Parent[b]])

AcceptBlockHeader(b) ==
    /\ job = Idle
    /\ HeaderFits(b)
    /\ known' = known \cup {b}
    /\ dirty' = dirty \cup {b}
    /\ UNCHANGED <<received, linked, status, seq, nBlockSequenceId, candidates, unlinked, tip,
                   coins, disk, job, upgraded, calls, restarts>>

\* The early returns of AcceptBlock.
WantsBlock(b, fRequested) ==
    /\ HeaderFits(b) \/ (b \in known /\ ~Failed(status[b]))
    /\ DATA \notin status[b]
    /\ fRequested \/ /\ b \notin received
                     /\ Work[b] > Work[tip]
                     /\ Height[b] <= Height[tip] + MIN_BLOCKS_TO_KEEP

\* AcceptBlock, when ContextualCheckBlock fails.  (ProcessNewBlock returns before it when
\* CheckBlock fails.)
RejectBlock(b, fRequested) ==
    /\ job = Idle
    /\ WantsBlock(b, fRequested)
    /\ b \in BadBlocks
    /\ known' = known \cup {b}
    /\ status' = [status EXCEPT ![b] = @ \cup {FAILED_VALID}]
    /\ dirty' = dirty \cup {b}
    /\ UNCHANGED <<received, linked, seq, nBlockSequenceId, candidates, unlinked, tip, coins,
                   disk, job, upgraded, calls, restarts>>

\* Mutant: what waits for b is not looked up.
NowLinkedAlone(b) == {b}

\* The blocks ReceivedBlockTransactions links once b is linked: b and what waits for it.
NowLinked(b) == {b} \cup {x \in unlinked : b \in Chain[x] /\ Chain[x] \ Chain[b] \subseteq unlinked}

\* The queue of ReceivedBlockTransactions is breadth first: one level after the other.
QueueOrders(S) ==
    {o \in [S -> 0..Cardinality(S) - 1] :
        \A x, y \in S : x # y => o[x] # o[y] /\ (Height[x] < Height[y] => o[x] < o[y])}

\* AcceptBlock and ReceivedBlockTransactions.
AcceptBlock(b, fRequested) ==
    /\ job = Idle
    /\ WantsBlock(b, fRequested)
    /\ b \notin BadBlocks
    /\ known' = known \cup {b}
    /\ received' = received \cup {b}
    /\ status' = [status EXCEPT ![b] = @ \cup {DATA, TRANSACTIONS}]
    /\ dirty' = dirty \cup {b}
    /\ IF Parent[b] \in linked
       THEN LET new == NowLinked(b) IN
            /\ nBlockSequenceId + Cardinality(new) <= MaxSequenceId
            /\ linked' = linked \cup new
            /\ \E o \in QueueOrders(new) :
                  seq' = [x \in Blocks |-> IF x \in new THEN nBlockSequenceId + o[x] ELSE seq[x]]
            /\ nBlockSequenceId' = nBlockSequenceId + Cardinality(new)
            /\ candidates' = candidates \cup {x \in new : ~Worse(x, tip, seq')}
            /\ unlinked' = unlinked \ (new \ {b})
       ELSE /\ linked' = linked \ {b}
            /\ unlinked' = IF Failed(status[Parent[b]]) THEN unlinked ELSE unlinked \cup {b}
            /\ UNCHANGED <<seq, nBlockSequenceId, candidates>>
    /\ UNCHANGED <<tip, coins, disk, job, upgraded, calls, restarts>>

-----------------------------------------------------------------------------
(* The tip moves.  DisconnectTip and ConnectTip first move pcoinsTip, may  *)
(* then write to disk (FlushStateToDisk), and UpdateTip moves chainActive. *)

\* A stop that the node itself asks for (AbortNode, StartShutdown).
StartShutdown == job' = Job("shutdown", Genesis, Genesis)

\* DisconnectTip.  When ReadBlockFromDisk fails the node is aborted; when DisconnectBlock finds
\* no undo data DisconnectTip only returns an error, which ends the step or the call of
\* invalidateblock where it is, and stops a node that is starting.
DisconnectTip ==
    \/ /\ {DATA, UNDO} \subseteq status[tip]
       /\ coins' = Parent[tip] /\ UNCHANGED job
    \/ /\ DATA \notin status[tip]
       /\ StartShutdown /\ UNCHANGED coins
    \/ /\ DATA \in status[tip] /\ UNDO \notin status[tip]
       /\ IF job.op = "rewind" THEN StartShutdown ELSE job' = Idle
       /\ UNCHANGED coins

\* ConnectBlock fails on b: a consensus rule in force at its height is violated.
Fails(b) == \/ b \in InvalidBlocks
            \/ b \in InvalidIfUpgraded /\ upgraded /\ Height[b] >= UpgradeHeight

\* Mutant: ConnectBlock does not record that it wrote undo data.
ConnectedFlagsNoUndo(b) == status[b] \cup {SCRIPTS}

\* What ConnectBlock writes to the index entry of a valid block.
ConnectedFlags(b) ==
    IF {UNDO, SCRIPTS} \subseteq status[b] THEN status[b]
    ELSE status[b] \cup {UNDO, SCRIPTS}
                   \cup (IF upgraded /\ Height[b] = UpgradeHeight THEN {ACTIVATES} ELSE {})

\* Mutant: nothing is pruned.
PrunedNothing(S, newTip) == S

\* PruneBlockIndexCandidates
Pruned(S, newTip) == {x \in S : ~Worse(x, newTip, seq)}

\* Mutant: a block that is marked invalid does not stop the search.
BadOnPathIgnoresFailed(c) == {x \in Chain[c] \ Chain[tip] : DATA \notin status[x]}

\* FindMostWorkChain.  A candidate is passed over when a block on its way from the
\* active chain is marked invalid or has no data; FirstBad is the first one met.
BadOnPath(c) == {x \in Chain[c] \ Chain[tip] : Failed(status[x]) \/ DATA \notin status[x]}
Usable == {c \in candidates : BadOnPath(c) = {}}
MostWork == {c \in Usable : \A d \in Usable : ~Worse(c, d, seq)}
PassedOver == {d \in candidates \ Usable : \A c \in MostWork : Worse(c, d, seq)}
FirstBad(d) == CHOOSE x \in BadOnPath(d) : BadOnPath(d) \subseteq Chain[x]
Above(d) == Chain[d] \ Chain[FirstBad(d)]

Failing == {d \in PassedOver : Failed(status[FirstBad(d)])}

\* Mutant: blocks that lost data below them do not wait for it.
WaitingAgainNone == {}

\* The blocks that go back to mapBlocksUnlinked until the missing data arrives.
WaitingAgain == UNION {Above(d) : d \in PassedOver \ Failing}

FindMostWorkChain ==
    /\ status' = [x \in Blocks |-> IF \E d \in Failing : x \in Above(d)
                                   THEN status[x] \cup {FAILED_CHILD} ELSE status[x]]
    /\ unlinked' = unlinked \cup WaitingAgain
    /\ candidates' = candidates \ UNION {Above(d) \cup {FirstBad(d)} : d \in PassedOver}

\* One round of ActivateBestChain, up to the first step of ActivateBestChainStep.
ActivateBestChain ==
    /\ job = Idle
    /\ FindMostWorkChain
    /\ \/ /\ MostWork \subseteq {tip}
          /\ UNCHANGED job
       \/ \E mw \in MostWork \ {tip} :
             IF Height[tip] - Height[FindFork(tip, mw)] > MAX_REORG_LENGTH
             THEN StartShutdown
             ELSE job' = Job("step", mw, tip)
    /\ UNCHANGED <<known, received, linked, seq, nBlockSequenceId, tip, coins, dirty, disk,
                   upgraded, calls, restarts>>

\* Disconnect active blocks which are no longer in the best chain.
StepDisconnect ==
    /\ job.op = "step" /\ coins = tip
    /\ tip \notin Chain[job.target]
    /\ DisconnectTip
    /\ UNCHANGED <<index, candidates, unlinked, tip, dirty, disk, upgraded, calls, restarts>>

\* ConnectTip of the next block, up to FlushStateToDisk.
StepConnect ==
    /\ job.op = "step" /\ coins = tip
    /\ tip \in Chain[job.target]
    /\ LET b == NextTowards(tip, job.target) IN
       /\ ~Fails(b)
       /\ coins' = b
       /\ status' = [status EXCEPT ![b] = ConnectedFlags(b)]
       /\ dirty' = IF ConnectedFlags(b) = status[b] THEN dirty ELSE dirty \cup {b}
    /\ UNCHANGED <<known, received, linked, seq, nBlockSequenceId, candidates, unlinked, tip,
                   disk, job, upgraded, calls, restarts>>

\* Mutant: the block is dropped from the candidates and not marked.
InvalidBlockFoundUnmarked(b) ==
    /\ candidates' = candidates \ {b}
    /\ UNCHANGED <<status, dirty>>

InvalidBlockFound(b) ==
    /\ status' = [status EXCEPT ![b] = @ \cup {FAILED_VALID}]
    /\ dirty' = dirty \cup {b}
    /\ candidates' = candidates \ {b}

\* ConnectTip of an invalid block: InvalidBlockFound, and the step ends.
StepInvalid ==
    /\ job.op = "step" /\ coins = tip
    /\ tip \in Chain[job.target]
    /\ LET b == NextTowards(tip, job.target) IN Fails(b) /\ InvalidBlockFound(b)
    /\ job' = Idle
    /\ UNCHANGED <<known, received, linked, seq, nBlockSequenceId, unlinked, tip, coins, disk,
                   upgraded, calls, restarts>>

\* UpdateTip, and after ConnectTip the check whether the position is better than before.
UpdateTip ==
    /\ coins # tip
    /\ tip' = coins
    /\ IF tip \in Chain[coins]
       THEN /\ candidates' = Pruned(candidates, coins)
            /\ job' = IF Work[coins] > Work[job.old] \/ coins = job.target THEN Idle ELSE job
       ELSE UNCHANGED <<candidates, job>>
    /\ UNCHANGED <<index, unlinked, coins, dirty, disk, upgraded, calls, restarts>>

-----------------------------------------------------------------------------
(* invalidateblock and reconsiderblock. *)

InvalidateBlock(b) ==
    /\ job = Idle
    /\ calls < MaxCalls
    /\ b \in known \cap Invalidated
    /\ status' = [status EXCEPT ![b] = @ \cup {FAILED_VALID}]
    /\ dirty' = dirty \cup {b}
    /\ candidates' = candidates \ {b}
    /\ job' = Job("invalidate", b, tip)
    /\ calls' = calls + 1
    /\ UNCHANGED <<known, received, linked, seq, nBlockSequenceId, unlinked, tip, coins, disk,
                   upgraded, restarts>>

\* One round of the loop that disconnects the block.
InvalidateDisconnect ==
    /\ job.op = "invalidate" /\ coins = tip
    /\ job.target \in Chain[tip]
    /\ status' = [status EXCEPT ![tip] = @ \cup {FAILED_CHILD}]
    /\ dirty' = dirty \cup {tip}
    /\ candidates' = candidates \ {tip}
    /\ DisconnectTip
    /\ UNCHANGED <<known, received, linked, seq, nBlockSequenceId, unlinked, tip, disk,
                   upgraded, calls, restarts>>

\* Mutant: only what is better than the tip, without the tip itself.
AsGoodAsTipStrict == {x \in known \cap linked : /\ IsValid(status[x], TRANSACTIONS)
                                                /\ Worse(tip, x, seq)}

\* Every block that is as good as the new tip becomes a candidate again.
AsGoodAsTip == {x \in known \cap linked : /\ IsValid(status[x], TRANSACTIONS)
                                          /\ ~Worse(x, tip, seq)}

InvalidateDone ==
    /\ job.op = "invalidate" /\ coins = tip
    /\ job.target \notin Chain[tip]
    /\ candidates' = candidates \cup AsGoodAsTip
    /\ job' = Idle
    /\ UNCHANGED <<index, unlinked, tip, coins, dirty, disk, upgraded, calls, restarts>>

\* Mutant: the descendants of the block are forgotten.
InvalidBelowSelf(b) == {b}

\* The block and its descendants, as far as they are not valid.
InvalidBelow(b) == {x \in known : b \in Chain[x] /\ ~IsValid(status[x], TRANSACTIONS)}

ReconsiderBlock(b) ==
    LET below == InvalidBelow(b)
        above == {x \in Chain[b] : Failed(status[x])}
        cleared == [x \in Blocks |-> IF x \in below \cup above THEN status[x] \ FAILED_MASK
                                     ELSE status[x]]
    IN
    /\ job = Idle
    /\ calls < MaxCalls
    /\ b \in known \cap Reconsidered
    /\ status' = cleared
    /\ dirty' = dirty \cup below \cup above
    /\ candidates' = candidates \cup {x \in below \cap linked : /\ IsValid(cleared[x], TRANSACTIONS)
                                                                /\ Worse(tip, x, seq)}
    /\ calls' = calls + 1
    /\ UNCHANGED <<known, received, linked, seq, nBlockSequenceId, unlinked, tip, coins, disk,
                   job, upgraded, restarts>>

-----------------------------------------------------------------------------
(* Writing to disk. *)

\* Mutant: one block too many.
PrunableOneMore ==
    {x \in known : DATA \in status[x] /\ Height[x] + MIN_BLOCKS_TO_KEEP <= Height[tip] + 1}

\* FindFilesToPrune: block files all of whose blocks are old enough.
Prunable == {x \in known : DATA \in status[x] /\ Height[x] + MIN_BLOCKS_TO_KEEP <= Height[tip]}
PruneSets == IF fPruneMode THEN SUBSET Prunable ELSE {{}}

\* PruneOneBlockFile, for the files that hold the blocks S: the flags and mapBlocksUnlinked.
PruneFlags(S) == [x \in Blocks |-> IF x \in S THEN status[x] \ {DATA, UNDO} ELSE status[x]]

PruneUnlinked(S) == unlinked \ S

\* WriteBatchSync: the dirty entries, after S has been pruned.
WriteIndex(S) ==
    LET D == dirty \cup S IN
    [disk EXCEPT !.index = @ \cup D,
                 !.received = (@ \ D) \cup (received \cap D),
                 !.status = [x \in Blocks |-> IF x \in D THEN PruneFlags(S)[x] ELSE @[x]]]

\* FlushStateToDisk is called between operations, inside DisconnectTip and ConnectTip, after
\* each block RewindBlockIndex disconnects, and at shutdown; it depends on time and on sizes
\* that are not modelled whether it writes.  Bound: only while it prunes or a restart may
\* still read what is written.
MayFlush ==
    /\ \/ job.op \in {"idle", "shutdown"}
       \/ coins # tip
       \/ job.op = "rewind" /\ tip # job.old
    /\ restarts < MaxRestarts \/ fPruneMode

\* Mutant: the chainstate is written and the index is not.
FullFlushCoinsOnly(S) == [disk EXCEPT !.tip = coins]

\* FlushStateToDisk with fDoFullFlush: first the index, then the chainstate.
FullFlush(S) == [WriteIndex(S) EXCEPT !.tip = coins]

FlushState(S) ==
    /\ MayFlush
    /\ S \in PruneSets
    /\ disk' = FullFlush(S)
    /\ status' = PruneFlags(S)
    /\ unlinked' = PruneUnlinked(S)
    /\ dirty' = {}
    /\ UNCHANGED <<known, received, linked, seq, nBlockSequenceId, candidates, tip, coins, job,
                   upgraded, calls, restarts>>

\* FlushStateToDisk with fPeriodicWrite only, at the end of ActivateBestChain.
FlushIndex ==
    /\ job = Idle /\ MayFlush
    /\ disk' = WriteIndex({})
    /\ dirty' = {}
    /\ UNCHANGED <<index, candidates, unlinked, tip, coins, job, upgraded, calls, restarts>>

-----------------------------------------------------------------------------
(* Starting again. *)

\* LoadBlockIndexDB, from the database d.  It cannot go on when the best block of the
\* chainstate is not in the index, or when PruneBlockIndexCandidates leaves no candidate.
LoadBlockIndexDB(d) ==
    LET isLinked == {x \in d.index : Chain[x] \subseteq d.received} IN
    /\ known' = d.index
    /\ received' = d.received
    /\ status' = d.status
    /\ linked' = isLinked
    /\ seq' = [x \in Blocks |-> 0]
    /\ nBlockSequenceId' = 1
    /\ unlinked' = {x \in d.received \ {Genesis} : Parent[x] \notin isLinked}
    /\ candidates' = {x \in isLinked : /\ IsValid(d.status[x], TRANSACTIONS)
                                       /\ ~Worse(x, d.tip, seq')}
    /\ tip' = d.tip
    /\ coins' = d.tip
    /\ dirty' = {}
    /\ job' = IF d.tip \in d.index /\ candidates' # {} THEN Job("rewind", d.tip, d.tip)
              ELSE Job("aborted", Genesis, Genesis)

\* sufficientlyValidated of RewindBlockIndex: the cached branch id of x is that of its
\* height.  It is read from disk for the block that activates an upgrade, and inherited
\* from the parent by every other block that is valid.
Inherits(x) == {y \in Chain[x] \ {Genesis} :
                   upgraded /\ Height[x] >= UpgradeHeight => Height[y] > UpgradeHeight}

\* Mutant: the branch id recorded for an activation block is not compared.
SufficientlyValidatedAnyRules(x) == \A y \in Chain[x] \ {Genesis} : IsValid(status[y], SCRIPTS)

\* Mutant: a block does not need the activation block below it to be validated.
SufficientlyValidatedAlone(x) ==
    /\ ACTIVATES \in status[x] <=> upgraded /\ Height[x] = UpgradeHeight
    /\ \A y \in Inherits(x) : IsValid(status[y], SCRIPTS)

SufficientlyValidated(x) ==
    /\ ACTIVATES \in status[x] <=> upgraded /\ Height[x] = UpgradeHeight
    /\ \A y \in Inherits(x) : IsValid(status[y], SCRIPTS)
    /\ upgraded => \A y \in Chain[x] : Height[y] = UpgradeHeight => ACTIVATES \in status[y]

\* The node stops, possibly in FlushStateToDisk between the two databases, and starts again.
Restart ==
    /\ restarts < MaxRestarts
    /\ \/ LoadBlockIndexDB(disk) /\ UNCHANGED disk
       \/ /\ MayFlush
          /\ \E S \in PruneSets : LoadBlockIndexDB(WriteIndex(S)) /\ disk' = WriteIndex(S)
    /\ upgraded' \in {upgraded, TRUE}
    /\ restarts' = restarts + 1
    /\ UNCHANGED calls

\* The first block RewindBlockIndex finds insufficiently validated has this height.
RewindHeight ==
    IF \A x \in Chain[job.old] \ {Genesis} : SufficientlyValidated(x) THEN Height[job.old] + 1
    ELSE CHOOSE h \in 1..Height[job.old] :
            \A x \in Chain[job.old] \ {Genesis} : /\ Height[x] < h => SufficientlyValidated(x)
                                                  /\ Height[x] = h => ~SufficientlyValidated(x)

RewindTooLong == Height[job.old] - RewindHeight > MAX_REORG_LENGTH

RewindStops == Height[tip] < RewindHeight \/ (fPruneMode /\ DATA \notin status[tip])

RewindDisconnect ==
    /\ job.op = "rewind" /\ coins = tip
    /\ IF RewindTooLong
       THEN StartShutdown /\ UNCHANGED coins
       ELSE ~RewindStops /\ DisconnectTip
    /\ UNCHANGED <<index, candidates, unlinked, tip, dirty, disk, upgraded, calls, restarts>>

\* Mutant: entries of forgotten blocks stay in mapBlocksUnlinked.
RewindUnlinkedAll(gone) == unlinked

RewindUnlinked(gone) == unlinked \ gone

\* Mutant: the blocks that are good enough again are not added.
RewindCandidatesLeft(gone) == Pruned(candidates \ gone, tip)

RewindCandidates(gone) ==
    Pruned((candidates \ gone) \cup
             {x \in (known \ gone) \cap linked : IsValid(status[x], TRANSACTIONS)}, tip)

\* RewindBlockIndex forgets what is insufficiently validated, in memory and on disk.
RewindErase ==
    LET gone == {x \in known : ~SufficientlyValidated(x) /\ x \notin Chain[tip]} IN
    /\ job.op = "rewind" /\ coins = tip
    /\ ~RewindTooLong
    /\ RewindStops
    /\ known' = known \ gone
    /\ received' = received \ gone
    /\ linked' = linked \ gone
    /\ status' = [x \in Blocks |-> IF x \in gone THEN {} ELSE status[x]]
    /\ candidates' = RewindCandidates(gone)
    /\ unlinked' = RewindUnlinked(gone)
    /\ disk' = [disk EXCEPT !.index = @ \ gone,
                            !.received = @ \ gone,
                            !.status = [x \in Blocks |-> IF x \in gone THEN {} ELSE @[x]]]
    /\ job' = Job("flush", tip, tip)
    /\ UNCHANGED <<seq, nBlockSequenceId, tip, coins, dirty, upgraded, calls, restarts>>

\* FlushStateToDisk(FLUSH_STATE_ALWAYS) at the end of RewindBlockIndex.
RewindFlush ==
    /\ job.op = "flush"
    /\ disk' = FullFlush({})
    /\ dirty' = {}
    /\ job' = Idle
    /\ UNCHANGED <<index, candidates, unlinked, tip, coins, upgraded, calls, restarts>>

-----------------------------------------------------------------------------

\* A chain that consists of the genesis block (InitBlockIndex, then a full flush).
Init ==
    /\ known = {Genesis} /\ received = {Genesis} /\ linked = {Genesis}
    /\ status = [x \in Blocks |-> IF x = Genesis THEN {DATA, TRANSACTIONS} ELSE {}]
    /\ seq = [x \in Blocks |-> IF x = Genesis THEN 1 ELSE 0]
    /\ nBlockSequenceId = 2
    /\ candidates = {Genesis} /\ unlinked = {}
    /\ tip = Genesis /\ coins = Genesis
    /\ dirty = {}
    /\ disk = [index |-> {Genesis}, received |-> {Genesis}, status |-> status, tip |-> Genesis]
    /\ job = Idle
    /\ upgraded = FALSE
    /\ calls = 0 /\ restarts = 0

ChainStep == ActivateBestChain \/ StepDisconnect \/ StepConnect \/ StepInvalid \/ UpdateTip
InvalidateStep == InvalidateDisconnect \/ InvalidateDone
StartStep == RewindDisconnect \/ RewindErase \/ RewindFlush

Next ==
    \/ \E b \in Blocks \ {Genesis} :
          \/ AcceptBlockHeader(b)
          \/ \E fRequested \in BOOLEAN : AcceptBlock(b, fRequested) \/ RejectBlock(b, fRequested)
          \/ InvalidateBlock(b) \/ ReconsiderBlock(b)
    \/ ChainStep \/ InvalidateStep \/ StartStep
    \/ \E S \in PruneSets : FlushState(S)
    \/ FlushIndex \/ Restart

Spec == Init /\ [][Next]_vars

\* An operation that holds cs_main runs on, and whoever adds a candidate (ProcessNewBlock,
\* the RPC calls, the import at startup) then calls ActivateBestChain, which loops.
FairSpec == Spec /\ WF_vars(ChainStep \/ InvalidateStep \/ StartStep)

-----------------------------------------------------------------------------
(* Properties. *)

\* Every variable has its type; the sets of blocks are sets of blocks in mapBlockIndex.
TypeOK ==
    /\ known \subseteq Blocks /\ received \subseteq known /\ linked \subseteq known
    /\ status \in [Blocks -> SUBSET Flags]
    /\ seq \in [Blocks -> Nat] /\ nBlockSequenceId \in Nat
    /\ candidates \subseteq known /\ unlinked \subseteq known /\ dirty \subseteq known
    /\ tip \in Blocks /\ coins \in Blocks
    /\ disk \in [index : SUBSET Blocks, received : SUBSET Blocks,
                 status : [Blocks -> SUBSET Flags], tip : Blocks]
    /\ job \in [op : Ops, target : Blocks, old : Blocks]
    /\ upgraded \in BOOLEAN /\ calls \in 0..MaxCalls /\ restarts \in 0..MaxRestarts

HasFailedAncestor(x) == \E y \in Chain[x] : FAILED_VALID \in status[y]
HasMissingAncestor(x) == \E y \in Chain[x] : DATA \notin status[y]

\* A block is marked invalid only if it, or a block it builds on, was found or declared
\* invalid (CheckBlockIndex: pindexFirstInvalid).
FailedMask == \A x \in known : Failed(status[x]) => HasFailedAncestor(x)

\* What is left to activate is complete and no worse than the tip (CheckBlockIndex: the
\* other blocks are not in setBlockIndexCandidates).
CandidatesSound == job = Idle => \A x \in candidates : x \in linked /\ ~Worse(x, tip, seq)

\* ActivateBestChain would leave the tip where it is.
Settled == job = Idle /\ MostWork \subseteq {tip}

\* invalidateblock marked the tip and could not disconnect it: the block was pruned, and came
\* again without its undo data.
TipLeftInvalid == Failed(status[tip]) /\ UNDO \notin status[tip]

\* When ActivateBestChain has nothing left to do, the tip is a candidate and no block that
\* can be reached through valid blocks with data is better, whatever failed, was pruned
\* or was forgotten by setBlockIndexCandidates on the way there; unless invalidateblock
\* ended half way, at a block without undo data.
BestChain ==
    Settled /\ ~TipLeftInvalid =>
               /\ tip \in candidates
               /\ \A x \in linked : BadOnPath(x) = {} => ~Worse(tip, x, seq)

\* mapBlocksUnlinked holds every received block that waits for an ancestor, so that it is
\* linked when the ancestor arrives, and only blocks that have data and lack some below.
UnlinkedExact ==
    /\ \A x \in received \ linked : DATA \in status[x] /\ ~HasFailedAncestor(x) => x \in unlinked
    /\ \A x \in unlinked : DATA \in status[x] /\ HasMissingAncestor(x)

\* Between two operations the active chain consists of blocks that were connected, are not
\* marked invalid and obey the rules of the running release.
ActiveValid ==
    job = Idle => \A x \in Chain[tip] \ {Genesis} :
                     SCRIPTS \in status[x] /\ ~Failed(status[x]) /\ ~Fails(x)

\* A reorganisation within MAX_REORG_LENGTH never stops for want of data: what pruning
\* takes away, even in the middle of it, is deeper than what it has to disconnect; unless it
\* begins at a tip that invalidateblock could not disconnect.
ReorgData ==
    job.op = "step" /\ ~TipLeftInvalid =>
        \A x \in Chain[coins] \ Chain[job.target] : {DATA, UNDO} \subseteq status[x]

\* Every block in the index has its parent in the index: pprev never dangles.
IndexClosed == \A x \in known : Chain[x] \subseteq known

\* While the node runs, the index on disk holds the whole chain of the chainstate on disk,
\* connected and with undo data, so that a crash at any point leaves a chain to go on from.
DiskChain ==
    job.op # "flush" =>
        \A x \in Chain[disk.tip] \ {Genesis} :
            x \in disk.index \cap disk.received /\ {SCRIPTS, DATA, UNDO} \subseteq disk.status[x]

\* The node always starts on what it left on disk: the best block of the chainstate is in
\* the index, and "Either the current tip or a successor of it" is a candidate.
Starts == job.op # "aborted"

\* Whenever cs_main is released the tip is in setBlockIndexCandidates (CheckBlockIndex:
\* "chainActive.Tip() must also be there even if some data has been pruned").
TipCandidate == job = Idle => tip \in candidates

\* Again and again the tip is the best block that can be reached through valid blocks with
\* data: no order of arrivals, failures and calls keeps ActivateBestChain from getting
\* there, or makes it try the same blocks for ever.
Activates ==
    []<>(\/ job = Idle /\ \A x \in linked : BadOnPath(x) = {} => ~Worse(tip, x, seq)
         \/ job.op \in {"shutdown", "aborted"})
=============================================================================
