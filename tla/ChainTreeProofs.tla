-------------------------- MODULE ChainTreeProofs ---------------------------
(* The tree of blocks of ChainState, the flags of a block and what is written of them, for   *)
(* any tree: the lemmas that the other proofs about ChainState share, and the steps that     *)
(* keep the marks of invalid blocks and the flags for stored data right.  The theorems are   *)
(* in module ChainProofs.                                                                    *)
EXTENDS ChainState, TLAPS

\* The time that the prover has for a step.
USE SMTT(30)

-----------------------------------------------------------------------------
(* What the proofs need of finite sets and of the tree of blocks.  Both are  *)
(* proved, from the library, in ChainProofs: the library is kept out of here.*)

SetFacts ==
    /\ \A x : IsFiniteSet({x})
    /\ \A S, x : IsFiniteSet(S) => IsFiniteSet(S \cup {x})
    /\ \A S : \A T \in SUBSET S : IsFiniteSet(S) => IsFiniteSet(T)
    /\ \A S : IsFiniteSet(S) => Cardinality(S) \in Nat

\* An ancestor has a smaller height and less work; a part of a chain has a lowest block and a
\* highest one.
TreeFacts ==
    /\ \A b \in Blocks : \A a \in Chain[b] : a # b => Height[a] < Height[b] /\ Work[a] < Work[b]
    /\ \A b \in Blocks : \A S \in SUBSET Chain[b] : S # {} => \E x \in S : S \cap Chain[x] = {x}
    /\ \A b \in Blocks : \A S \in SUBSET Chain[b] : S # {} => \E x \in S : S \subseteq Chain[x]

-----------------------------------------------------------------------------
(* The tree of blocks. *)

\* No two blocks are ancestors of each other.
LEMMA ChainAntisymmetric ==
  ASSUME NEW a \in Blocks, NEW b \in Blocks, a \in Chain[b], b \in Chain[a]
  PROVE  a = b
  <1>1. CASE b = Genesis
    BY <1>1, ChainAssumption, Zenon
  <1>2. CASE b # Genesis
    <2>1. Chain[b] = Chain[Parent[b]] \cup {b} /\ b \notin Chain[Parent[b]] /\ Parent[b] \in Blocks
      BY <1>2, ChainAssumption, ParentAssumption, Zenon
    <2>2. a # b => Chain[a] \subseteq Chain[Parent[b]]
      BY <2>1, ChainAssumption, Zenon
    <2> QED  BY <2>1, <2>2, Zenon
  <1> QED  BY <1>1, <1>2, Zenon

LEMMA AncestorBelow ==
  ASSUME TreeFacts, NEW b \in Blocks, NEW a \in Chain[b], a # b
  PROVE  Height[a] < Height[b] /\ Work[a] < Work[b]
  BY Zenon DEF TreeFacts

LEMMA LowestBlock ==
  ASSUME TreeFacts, NEW b \in Blocks, NEW S \in SUBSET Chain[b], S # {}
  PROVE  \E x \in S : S \cap Chain[x] = {x}
  BY Zenon DEF TreeFacts

LEMMA HighestBlock ==
  ASSUME TreeFacts, NEW b \in Blocks, NEW S \in SUBSET Chain[b], S # {}
  PROVE  \E x \in S : S \subseteq Chain[x]
  BY DEF TreeFacts

\* A chain has a block of every height up to its own.
LEMMA AncestorAt ==
  ASSUME TreeFacts, NEW b \in Blocks, NEW h \in Nat, h <= Height[b]
  PROVE  \E x \in Chain[b] : Height[x] = h
  <1> DEFINE S == {x \in Chain[b] : Height[x] >= h}
  <1>1. b \in S
    BY ChainAssumption, Zenon
  <1>2. PICK x \in S : S \cap Chain[x] = {x}
    BY <1>1, LowestBlock, Zenon
  <1>3. x \in Blocks /\ Height[x] \in Nat
    BY ChainAssumption, HeightAssumption, Zenon
  <1>4. CASE x = Genesis
    BY <1>4, HeightAssumption
  <1>5. CASE x # Genesis
    <2>1. /\ Parent[x] \in Blocks /\ Parent[x] \in Chain[b] /\ Parent[x] \in Chain[x] /\ Parent[x] # x
          /\ Height[x] = Height[Parent[x]] + 1 /\ Height[Parent[x]] \in Nat
      BY <1>3, <1>5, ParentAssumption, ChainAssumption, HeightAssumption
    <2>2. Parent[x] \notin S
      BY <1>2, <2>1, Zenon
    <2> QED  BY <1>3, <2>1, <2>2
  <1> QED  BY <1>4, <1>5, Zenon

\* The next block towards an extension is in its chain, and a child.
LEMMA NextTowardsFits ==
  ASSUME TreeFacts, NEW a \in Blocks, NEW b \in Blocks, a \in Chain[b], a # b
  PROVE  /\ NextTowards(a, b) \in Chain[b] \ Chain[a]
         /\ NextTowards(a, b) \in Blocks \ {Genesis}
         /\ Parent[NextTowards(a, b)] = a
         /\ Chain[NextTowards(a, b)] = Chain[a] \cup {NextTowards(a, b)}
  <1> DEFINE S == Chain[b] \ Chain[a]
  <1>1. b \in S
    BY ChainAntisymmetric, ChainAssumption, Zenon
  <1>2. PICK x \in S : S \cap Chain[x] = {x}
    BY <1>1, LowestBlock, Zenon
  <1>3. x \in Blocks \ {Genesis}
    BY ChainAssumption, Zenon
  <1>4. /\ Parent[x] \in Chain[x] /\ Parent[x] \in Chain[b] /\ Parent[x] # x /\ Parent[x] \in Blocks
        /\ Chain[x] = Chain[Parent[x]] \cup {x}
    BY <1>3, ParentAssumption, ChainAssumption
  <1>5. Parent[x] \in Chain[a]
    BY <1>2, <1>4, Zenon
  <1>6. a \in Chain[x]
    BY <1>3, ChainAssumption, Zenon
  <1>7. a # x
    BY <1>3, ChainAssumption, Zenon
  <1>8. Parent[x] = a
    BY <1>4, <1>5, <1>6, <1>7, ChainAntisymmetric, Zenon
  <1>9. \E y \in S : Parent[y] = a
    BY <1>8, Zenon
  <1>10. NextTowards(a, b) \in S /\ Parent[NextTowards(a, b)] = a
    BY <1>9, Zenon DEF NextTowards
  <1> QED  BY <1>10, ChainAssumption

\* CBlockIndexWorkComparator is a strict total order.
LEMMA WorseOrder ==
  ASSUME NEW s \in [Blocks -> Nat]
  PROVE  /\ \A a \in Blocks : ~Worse(a, a, s)
         /\ \A a, b \in Blocks : a = b \/ Worse(a, b, s) \/ Worse(b, a, s)
         /\ \A a, b \in Blocks : ~(Worse(a, b, s) /\ Worse(b, a, s))
         /\ \A a, b, c \in Blocks : Worse(a, b, s) /\ Worse(b, c, s) => Worse(a, c, s)
  BY WorkAssumption, AddrAssumption DEF Worse

\* A block sorts after its ancestors.
LEMMA AncestorWorse ==
  ASSUME TreeFacts, NEW b \in Blocks, NEW a \in Chain[b], a # b, NEW s
  PROVE  Worse(a, b, s) /\ ~Worse(b, a, s)
  <1>1. Work[a] < Work[b] /\ Work[a] \in Nat /\ Work[b] \in Nat
    BY AncestorBelow, WorkAssumption, ChainAssumption, Zenon
  <1> QED  BY <1>1 DEF Worse

-----------------------------------------------------------------------------
(* The flags of a block. *)

LEMMA FlagNames ==
  /\ {TRANSACTIONS, SCRIPTS, DATA, UNDO, FAILED_VALID, FAILED_CHILD, ACTIVATES} \subseteq Flags
  /\ SCRIPTS \notin {TRANSACTIONS, DATA, UNDO, FAILED_VALID, FAILED_CHILD, ACTIVATES}
  /\ ACTIVATES \notin {TRANSACTIONS, DATA, UNDO, FAILED_VALID, FAILED_CHILD}
  /\ TRANSACTIONS \notin {DATA, UNDO, FAILED_VALID, FAILED_CHILD}
  /\ DATA \notin {UNDO, FAILED_VALID, FAILED_CHILD}
  /\ UNDO \notin {FAILED_VALID, FAILED_CHILD}
  /\ FAILED_VALID # FAILED_CHILD
  BY Zenon DEF Flags, FAILED_MASK, TRANSACTIONS, SCRIPTS, DATA, UNDO, FAILED_VALID, FAILED_CHILD, ACTIVATES

LEMMA FailedFlags ==
  /\ \A s : Failed(s) <=> FAILED_VALID \in s \/ FAILED_CHILD \in s
  /\ \A s, f : IsValid(s, f) <=> ~Failed(s) /\ f \in s
  /\ \A s, f : f \in s \ FAILED_MASK <=> f \in s /\ f # FAILED_VALID /\ f # FAILED_CHILD
  BY Zenon DEF Failed, FAILED_MASK, IsValid

-----------------------------------------------------------------------------
(* The invariant. *)

\* The flags that nothing clears.
Lasting == {TRANSACTIONS, SCRIPTS, ACTIVATES}

\* The index in memory is a tree.
IndexInv ==
    /\ IsFiniteSet(known) /\ Genesis \in known
    /\ IndexClosed
    /\ \A x \in Blocks \ known : status[x] = {}
    /\ job.op \in {"rewind", "flush"} => dirty = {}
    /\ job.op \in {"rewind", "flush", "aborted"} => restarts > 0
    /\ job.op = "aborted" => coins = tip
    /\ upgraded => restarts > 0

\* The flags st of a block that was connected, and of those below it; blocks in rec were
\* received.  Only invalidateblock marks a block that was connected.
FlagsInv(st, rec) ==
    /\ Genesis \in rec /\ ~Failed(st[Genesis])
    /\ \A x \in Blocks : /\ x \in rec => TRANSACTIONS \in st[x]
                         /\ DATA \in st[x] => x \in rec
    /\ \A x \in Blocks : SCRIPTS \in st[x] =>
          /\ x \in rec /\ x \notin InvalidBlocks
          /\ \A y \in Chain[x] \ {Genesis} : SCRIPTS \in st[y]
    /\ \A x \in Blocks : ACTIVATES \in st[x] =>
          upgraded /\ Height[x] = UpgradeHeight /\ SCRIPTS \in st[x]
    /\ Invalidated = {} => \A x \in Blocks : SCRIPTS \in st[x] => ~Failed(st[x])

\* What was connected obeys the rules of the release that is running, except while
\* RewindBlockIndex has not looked at it yet.
RulesInv ==
    /\ received \cap BadBlocks = {}
    /\ \A x \in Blocks : SCRIPTS \in status[x] =>
          \A y \in Chain[x] : ACTIVATES \in status[y] => x \notin InvalidIfUpgraded
    /\ upgraded /\ job.op \notin {"rewind", "shutdown", "aborted"} =>
          \A x \in Blocks : SCRIPTS \in status[x] /\ Height[x] >= UpgradeHeight =>
              \E y \in Chain[x] : ACTIVATES \in status[y]

\* invalidateblock disconnects what it is called for: nothing is pruned, so that no undo data
\* is missing, or it is not called.
UndoThere == ~fPruneMode \/ Invalidated = {}

\* The tip and the best block of pcoinsTip, in each operation.
ActiveInv == job.op # "aborted" =>
    /\ tip \in known /\ coins \in known
    /\ \A x \in (Chain[tip] \cup Chain[coins]) \ {Genesis} : SCRIPTS \in status[x]
    /\ UndoThere /\ job.op \in {"idle", "step", "flush"} =>
          \A x \in Chain[tip] \cup Chain[coins] : ~Failed(status[x])
    /\ job.op = "idle" => job = Idle
    /\ job.op = "invalidate" =>
          /\ job.target \in Invalidated \cap known /\ FAILED_VALID \in status[job.target]
          /\ UndoThere => \A x \in Chain[tip] : job.target \in Chain[x] \/ ~Failed(status[x])
    /\ job.op = "step" =>
          job.target \in known /\ \A x \in Chain[job.target] : x \in received /\ (UndoThere => ~Failed(status[x]))
    /\ job.op = "rewind" => tip \in Chain[job.old]
    /\ coins # tip =>
          \/ job.op = "step" /\ coins # Genesis /\ tip = Parent[coins] /\ coins \in Chain[job.target]
          \/ /\ job.op \in {"step", "invalidate", "rewind"} /\ tip # Genesis /\ coins = Parent[tip]
             /\ job.op = "invalidate" => job.target \in Chain[tip]

\* ActivateBestChain never has to go back to an ancestor of the tip.
WorkInv == job.op # "aborted" =>
    /\ \A x \in candidates : Work[tip] <= Work[x]
    /\ job.op = "step" => job.target \notin Chain[tip]

\* A database d is a tree too, and agrees with the flags st in memory but for the blocks in
\* D, which are still to be written, and for FAILED_CHILD marks of FindMostWorkChain.
DiskFits(d, st, D) ==
    /\ Genesis \in d.index /\ d.index \subseteq known /\ known \subseteq d.index \cup D
    /\ d.received \subseteq d.index \cap received
    /\ \A x \in d.index : Chain[x] \subseteq d.index
    /\ \A x \in Blocks \ d.index : d.status[x] = {}
    /\ \A x \in Blocks : \A f \in Lasting : f \in d.status[x] => f \in st[x]
    /\ \A x \in Blocks \ D : /\ d.status[x] \subseteq st[x]
                             /\ st[x] \subseteq d.status[x] \cup {FAILED_CHILD}
                             /\ x \in received => x \in d.received
    /\ d.tip \in d.index => \A x \in Chain[d.tip] \ {Genesis} : SCRIPTS \in d.status[x]
    /\ FlagsInv(d.status, d.received)

DiskInv ==
    /\ DiskFits(disk, status, dirty)
    /\ job.op \notin {"flush", "aborted"} => disk.tip \in disk.index

Inv == TypeOK /\ IndexInv /\ FlagsInv(status, received) /\ RulesInv /\ ActiveInv /\ WorkInv /\ DiskInv

\* The node does not both prune and restart, nor does it restart under an upgrade after a
\* block was invalidated by hand: RewindBlockIndex stops at pruned blocks, and takes the
\* recorded branch id of an activation block for its validity, marked or not.
RestartsApart ==
    \/ MaxRestarts = 0
    \/ ~fPruneMode /\ (Invalidated = {} \/ \A b \in Blocks : Height[b] < UpgradeHeight)

-----------------------------------------------------------------------------
(* Blocks and headers arrive. *)

\* The genesis block alone.
LEMMA InitInv == ASSUME SetFacts PROVE Init => Inv
  <1> SUFFICES ASSUME Init
               PROVE  Inv
    BY Zenon
  <1> USE FlagNames, FailedFlags, ParentAssumption, ChainAssumption DEF Init
  <1>1. TypeOK
    <2>1. status \in [Blocks -> SUBSET Flags] /\ seq \in [Blocks -> Nat]
      OBVIOUS
    <2>2. job \in [op : Ops, target : Blocks, old : Blocks]
      BY Zenon DEF Idle, Ops
    <2>3. disk \in [index : SUBSET Blocks, received : SUBSET Blocks,
                    status : [Blocks -> SUBSET Flags], tip : Blocks]
      BY <2>1, Zenon
    <2>4. calls \in 0..MaxCalls /\ restarts \in 0..MaxRestarts /\ nBlockSequenceId \in Nat
      BY LimitsAssumption
    <2>5. tip \in Blocks /\ coins \in Blocks /\ upgraded \in BOOLEAN
      BY Zenon
    <2> QED  BY <2>1, <2>2, <2>3, <2>4, <2>5, Zenon DEF TypeOK
  <1>2. IndexInv
    BY Zenon DEF SetFacts, IndexInv, IndexClosed, Idle
  <1>3. FlagsInv(status, received)
    BY Zenon DEF FlagsInv
  <1>4. RulesInv
    BY BlockSetsAssumption, Zenon DEF RulesInv
  <1>5. ActiveInv
    <2>1. tip = Genesis /\ coins = Genesis /\ Chain[Genesis] = {Genesis} /\ Genesis \in known
      BY Zenon
    <2>2. ~Failed(status[Genesis])
      BY <1>3, Zenon DEF FlagsInv
    <2>3. job = Idle /\ job.op = "idle"
      BY Zenon DEF Idle
    <2> QED  BY ONLY <2>1, <2>2, <2>3, Zenon DEF ActiveInv
  <1>6. DiskInv
    BY <1>3, Zenon DEF DiskInv, DiskFits, FlagsInv, Lasting, Idle
  <1>7. WorkInv
    BY WorkAssumption DEF WorkInv, Idle
  <1> QED  BY <1>1, <1>2, <1>3, <1>4, <1>5, <1>6, <1>7, Zenon DEF Inv

\* A candidate that is not worse than the tip has no less work.
LEMMA NotWorse ==
  ASSUME NEW a \in Blocks, NEW b \in Blocks, NEW s, ~Worse(a, b, s)
  PROVE  Work[b] <= Work[a]
  BY WorkAssumption DEF Worse

\* What has changed in memory is dirty, but for marks of FindMostWorkChain.
LEMMA DiskKept ==
  ASSUME Inv, disk' = disk, upgraded' = upgraded,
         known \subseteq known', known' \subseteq known \cup dirty', dirty \subseteq dirty',
         received \subseteq received', received' \subseteq received \cup dirty',
         job.op \notin {"flush", "aborted"},
         \A x \in Blocks : \A f \in Lasting : f \in status[x] => f \in status'[x],
         \A x \in Blocks \ dirty' : \/ status'[x] = status[x]
                                    \/ status'[x] = status[x] \cup {FAILED_CHILD}
  PROVE  DiskInv'
  <1>1. FlagsInv(disk.status, disk.received)'
    BY Zenon DEF Inv, DiskInv, DiskFits, FlagsInv
  <1>2. \A x \in Blocks : \A f \in Lasting : f \in disk'.status[x] => f \in status'[x]
    BY Zenon DEF Inv, DiskInv, DiskFits
  <1>3. \A x \in Blocks \ dirty' : /\ disk'.status[x] \subseteq status'[x]
                                   /\ status'[x] \subseteq disk'.status[x] \cup {FAILED_CHILD}
                                   /\ x \in received' => x \in disk'.received
    BY DEF Inv, DiskInv, DiskFits
  <1>4. DiskFits(disk, status, dirty)'
    BY <1>1, <1>2, <1>3, Zenon DEF Inv, DiskInv, DiskFits
  <1> QED  BY <1>4, Zenon DEF Inv, DiskInv

\* What the steps that neither connect a block nor write to disk have in common.
LEMMA FlagsKept ==
  ASSUME Inv, disk' = disk, upgraded' = upgraded,
         known \subseteq known', known' \subseteq known \cup dirty', dirty \subseteq dirty',
         received \subseteq received', received' \subseteq received \cup dirty',
         received' \cap BadBlocks = {},
         job.op \notin {"flush", "aborted"}, job'.op \in {"rewind", "shutdown"} \/ job.op \notin {"rewind", "shutdown"},
         \A x \in Blocks : /\ SCRIPTS \in status'[x] <=> SCRIPTS \in status[x]
                           /\ ACTIVATES \in status'[x] <=> ACTIVATES \in status[x]
                           /\ TRANSACTIONS \in status[x] => TRANSACTIONS \in status'[x],
         \A x \in Blocks : /\ x \in received' => x \in received \/ TRANSACTIONS \in status'[x]
                           /\ DATA \in status'[x] => x \in received' \/ DATA \in status[x],
         \A x \in Blocks : /\ x = Genesis \/ (Invalidated = {} /\ SCRIPTS \in status[x])
                           /\ Failed(status'[x])
                           => Failed(status[x]),
         \A x \in Blocks \ dirty' : \/ status'[x] = status[x]
                                    \/ status'[x] = status[x] \cup {FAILED_CHILD}
  PROVE  FlagsInv(status, received)' /\ RulesInv' /\ DiskInv'
  <1>1. FlagsInv(status, received)'
    BY ParentAssumption, ChainAssumption, Zenon DEF Inv, FlagsInv
  <1>2. RulesInv'
    BY ChainAssumption, Zenon DEF Inv, RulesInv
  <1>3. DiskInv'
    BY DiskKept, Zenon DEF Lasting
  <1> QED  BY <1>1, <1>2, <1>3, Zenon

\* The parent of a block that AcceptBlockHeader lets pass is known.
LEMMA KnownGrows ==
  ASSUME SetFacts, Inv, NEW b \in Blocks \ {Genesis}, b \in known \/ Parent[b] \in known
  PROVE  /\ IsFiniteSet(known \cup {b})
         /\ \A x \in known \cup {b} : Chain[x] \subseteq known \cup {b}
  <1>1. IsFiniteSet(known \cup {b})
    BY Zenon DEF SetFacts, Inv, IndexInv
  <1>2. Chain[b] \subseteq known \cup {b}
    BY ChainAssumption DEF Inv, IndexInv, IndexClosed
  <1> QED  BY <1>1, <1>2, Zenon DEF Inv, IndexInv, IndexClosed

\* Between two operations only the marks on the active chain matter.
LEMMA IdleActive ==
  ASSUME Inv, job = Idle, job' = Idle, tip' = tip, coins' = coins, known \subseteq known',
         \A x \in Chain[tip] : /\ SCRIPTS \in status[x] => SCRIPTS \in status'[x]
                               /\ Failed(status'[x]) => Failed(status[x])
  PROVE  ActiveInv'
  <1>1. job.op = "idle" /\ job'.op = "idle"
    BY Zenon DEF Idle
  <1>2. coins = tip
    BY <1>1, Zenon DEF Inv, ActiveInv
  <1> QED  BY <1>1, <1>2, Zenon DEF Inv, ActiveInv

\* A header: a block is added above one that is known.
LEMMA AcceptBlockHeaderInv ==
  ASSUME SetFacts, Inv, NEW b \in Blocks \ {Genesis}, AcceptBlockHeader(b)
  PROVE  Inv'
  <1> USE DEF AcceptBlockHeader, HeaderFits
  <1>1. TypeOK'
    BY Zenon DEF Inv, TypeOK
  <1>2. IndexInv'
    BY KnownGrows, Zenon DEF Inv, IndexInv, IndexClosed, Idle
  <1>3. ActiveInv'
    BY Zenon DEF Inv, ActiveInv
  <1>4. FlagsInv(status, received)' /\ RulesInv' /\ DiskInv'
    BY FlagsKept, Zenon DEF Inv, RulesInv, Idle
  <1>5. WorkInv'
    BY Zenon DEF Inv, WorkInv
  <1> QED  BY <1>1, <1>2, <1>3, <1>4, <1>5, Zenon DEF Inv

\* A block that was not received was not connected, so it is not in the active chain.
LEMMA RejectBlockInv ==
  ASSUME SetFacts, Inv, NEW b \in Blocks \ {Genesis}, NEW fRequested \in BOOLEAN, RejectBlock(b, fRequested)
  PROVE  Inv'
  <1> USE DEF RejectBlock
  <1>1. SCRIPTS \notin status[b]
    BY Zenon DEF Inv, FlagsInv, RulesInv
  <1>2. status' \in [Blocks -> SUBSET Flags]
    BY FlagNames, Zenon DEF Inv, TypeOK
  <1>3. TypeOK'
    BY <1>2, Zenon DEF Inv, TypeOK
  <1>4. \A x \in Blocks : x # b => status'[x] = status[x]
    BY Zenon DEF Inv, TypeOK
  <1>5. status'[b] = status[b] \cup {FAILED_VALID}
    BY Zenon DEF Inv, TypeOK
  <1>6. b \in known \/ Parent[b] \in known
    BY Zenon DEF WantsBlock, HeaderFits
  <1>7. IndexInv'
    BY <1>4, <1>6, KnownGrows, Zenon DEF Inv, IndexInv, IndexClosed, Idle
  <1>8. ActiveInv'
    BY <1>1, <1>4, <1>5, ChainAssumption, FlagNames DEF Inv, ActiveInv, TypeOK, Idle
  <1>9. FlagsInv(status, received)' /\ RulesInv' /\ DiskInv'
    BY <1>1, <1>4, <1>5, FlagsKept, FlagNames, ParentAssumption, Zenon DEF Inv, RulesInv, Idle
  <1>10. WorkInv'
    BY Zenon DEF Inv, WorkInv
  <1> QED  BY <1>3, <1>7, <1>8, <1>9, <1>10, Zenon DEF Inv

\* The block has data now, and blocks that waited for it are linked.
LEMMA AcceptBlockInv ==
  ASSUME SetFacts, Inv, NEW b \in Blocks \ {Genesis}, NEW fRequested \in BOOLEAN, AcceptBlock(b, fRequested)
  PROVE  Inv'
  <1>1. /\ job = Idle /\ b \notin BadBlocks /\ known' = known \cup {b} /\ received' = received \cup {b}
        /\ status' = [status EXCEPT ![b] = @ \cup {DATA, TRANSACTIONS}] /\ dirty' = dirty \cup {b}
        /\ UNCHANGED <<tip, coins, disk, job, upgraded, calls, restarts>>
    BY Zenon DEF AcceptBlock
  <1>2. b \in known \/ Parent[b] \in known
    BY Zenon DEF AcceptBlock, WantsBlock, HeaderFits
  <1>3. \A x \in Blocks : x # b => status'[x] = status[x]
    BY <1>1, Zenon DEF Inv, TypeOK
  <1>4. status'[b] = status[b] \cup {DATA, TRANSACTIONS}
    BY <1>1, Zenon DEF Inv, TypeOK
  <1>5. status' \in [Blocks -> SUBSET Flags]
    BY <1>1, FlagNames, Zenon DEF Inv, TypeOK
  <1>6. /\ linked' \subseteq known' /\ candidates' \subseteq known' /\ unlinked' \subseteq known'
        /\ seq' \in [Blocks -> Nat] /\ nBlockSequenceId' \in Nat
        /\ \A x \in candidates' : x \in candidates \/ ~Worse(x, tip, seq')
    <2>1. CASE Parent[b] \in linked
      <3> DEFINE new == NowLinked(b)
      <3>1. /\ linked' = linked \cup new /\ candidates' = candidates \cup {x \in new : ~Worse(x, tip, seq')}
            /\ unlinked' = unlinked \ (new \ {b}) /\ nBlockSequenceId' = nBlockSequenceId + Cardinality(new)
        BY <2>1, Zenon DEF AcceptBlock
      <3>2. PICK o \in QueueOrders(new) :
                seq' = [x \in Blocks |-> IF x \in new THEN nBlockSequenceId + o[x] ELSE seq[x]]
        BY <2>1, Zenon DEF AcceptBlock
      <3>3. new \subseteq known \cup {b}
        BY Zenon DEF NowLinked, Inv, TypeOK
      <3>4. Cardinality(new) \in Nat
        BY <1>2, <3>3, KnownGrows, Zenon DEF SetFacts
      <3>5. \A x \in new : o[x] \in Nat
        BY <3>2, <3>4 DEF QueueOrders
      <3> HIDE DEF new
      <3> QED  BY <1>1, <3>1, <3>2, <3>3, <3>4, <3>5 DEF Inv, TypeOK
    <2>2. CASE Parent[b] \notin linked
      BY <1>1, <2>2, ZenonT(60) DEF AcceptBlock, Inv, TypeOK
    <2> QED  BY <2>1, <2>2, Zenon
  <1>7. TypeOK'
    BY <1>1, <1>5, <1>6, Zenon DEF Inv, TypeOK
  <1>8. IndexInv'
    BY <1>1, <1>2, <1>3, KnownGrows, Zenon DEF Inv, IndexInv, IndexClosed, Idle
  <1>9. \A x \in Blocks : Failed(status'[x]) <=> Failed(status[x])
    BY <1>3, <1>4, FlagNames, FailedFlags, Zenon
  <1>10. ActiveInv'
    BY <1>1, <1>3, <1>4, <1>9, IdleActive, ChainAssumption, ZenonT(60) DEF Inv, TypeOK
  <1>11. FlagsInv(status, received)' /\ RulesInv' /\ DiskInv'
    BY <1>1, <1>3, <1>4, <1>9, FlagsKept, FlagNames, Zenon DEF Inv, RulesInv, Idle
  <1>12. WorkInv'
    BY <1>1, <1>6, <1>7, NotWorse, Zenon DEF Inv, WorkInv, Idle, TypeOK
  <1> QED  BY <1>7, <1>8, <1>10, <1>11, <1>12, Zenon DEF Inv

\* Some block of the way to a candidate that is passed over is the first bad one; the blocks
\* above it are off the active chain, and none of them is the bad one.
LEMMA FirstBadFits ==
  ASSUME TreeFacts, Inv, NEW d \in PassedOver
  PROVE  /\ FirstBad(d) \in BadOnPath(d) /\ BadOnPath(d) \subseteq Chain[FirstBad(d)]
         /\ FirstBad(d) \in Blocks /\ FirstBad(d) \notin Chain[tip] /\ FirstBad(d) \in Chain[d]
         /\ Above(d) \subseteq Blocks /\ Above(d) \cap Chain[tip] = {} /\ Above(d) \subseteq known
         /\ \A x \in Above(d) : ~Failed(status[x]) /\ DATA \in status[x] /\ FirstBad(d) \in Chain[x]
  <1>1. d \in candidates /\ BadOnPath(d) # {} /\ d \in known /\ d \in Blocks
    BY Zenon DEF PassedOver, Usable, Inv, TypeOK
  <1>2. BadOnPath(d) \in SUBSET Chain[d]
    BY Zenon DEF BadOnPath
  <1>3. \E x \in BadOnPath(d) : BadOnPath(d) \subseteq Chain[x]
    BY <1>1, <1>2, HighestBlock
  <1>4. FirstBad(d) \in BadOnPath(d) /\ BadOnPath(d) \subseteq Chain[FirstBad(d)]
    BY <1>3, Zenon DEF FirstBad
  <1>5. FirstBad(d) \in Chain[d] /\ FirstBad(d) \notin Chain[tip] /\ FirstBad(d) \in Blocks
    BY <1>1, <1>4, ChainAssumption, Zenon DEF BadOnPath
  <1>6. ASSUME NEW x \in Above(d)
        PROVE  /\ x \in Blocks /\ x \in known /\ x \notin Chain[tip] /\ FirstBad(d) \in Chain[x]
               /\ ~Failed(status[x]) /\ DATA \in status[x]
    <2>1. x \in Chain[d] /\ x \notin Chain[FirstBad(d)] /\ x \in Blocks
      BY <1>1, ChainAssumption, Zenon DEF Above
    <2>2. FirstBad(d) \in Chain[x]
      BY <1>1, <1>5, <2>1, ChainAssumption, Zenon
    <2>3. x \notin Chain[tip]
      BY <1>5, <2>2, ChainAssumption, Zenon DEF Inv, TypeOK
    <2>4. x \notin BadOnPath(d)
      BY <1>4, <2>1, Zenon
    <2>5. x \in known
      BY <1>1, <2>1, Zenon DEF Inv, IndexInv, IndexClosed
    <2> QED  BY <2>1, <2>2, <2>3, <2>4, <2>5, Zenon DEF BadOnPath
  <1> QED  BY <1>4, <1>5, <1>6, Zenon

\* The marks of FindMostWorkChain are on blocks that build on a marked one.
LEMMA MostWorkMarks ==
  ASSUME TreeFacts, Inv, FindMostWorkChain, NEW x \in Blocks
  PROVE  \/ status'[x] = status[x]
         \/ /\ status'[x] = status[x] \cup {FAILED_CHILD} /\ x \notin Chain[tip] /\ x \in known
            /\ \E d \in Failing : /\ x \in Above(d) /\ FirstBad(d) \in BadOnPath(d)
                                  /\ FirstBad(d) \in Chain[x] \ Chain[tip]
                                  /\ Failed(status[FirstBad(d)])
  BY FirstBadFits, Zenon DEF FindMostWorkChain, Failing

LEMMA ActivateBestChainInv ==
  ASSUME TreeFacts, Inv, ActivateBestChain
  PROVE  Inv'
  <1>1. /\ job = Idle /\ FindMostWorkChain
        /\ UNCHANGED <<known, received, linked, seq, nBlockSequenceId, tip, coins, dirty, disk,
                       upgraded, calls, restarts>>
    BY Zenon DEF ActivateBestChain
  <1>2. \/ job' = job \/ job' = Job("shutdown", Genesis, Genesis)
        \/ \E mw \in MostWork \ {tip} : job' = Job("step", mw, tip)
    BY Zenon DEF ActivateBestChain, StartShutdown
  <1>3. /\ job.op = "idle" /\ coins = tip /\ tip \in known /\ tip \in Blocks
        /\ \A x \in Chain[tip] : (UndoThere => ~Failed(status[x])) /\ (x = Genesis \/ SCRIPTS \in status[x])
    BY <1>1, Zenon DEF Inv, ActiveInv, TypeOK, Idle
  <1>4. TypeOK'
    <2>1. status' \in [Blocks -> SUBSET Flags]
      BY <1>1, FlagNames, Zenon DEF FindMostWorkChain, Inv, TypeOK
    <2>2. candidates' \subseteq known /\ unlinked' \subseteq known
      BY <1>1, FirstBadFits DEF FindMostWorkChain, WaitingAgain, Inv, TypeOK
    <2>3. \A mw \in MostWork : mw \in Blocks
      BY Zenon DEF MostWork, Usable, Inv, TypeOK
    <2>4. job' \in [op : Ops, target : Blocks, old : Blocks]
      BY <1>1, <1>2, <1>3, <2>3, ParentAssumption DEF Job, Ops, Inv, TypeOK
    <2> QED  BY <1>1, <2>1, <2>2, <2>4, Zenon DEF Inv, TypeOK
  <1>5. IndexInv'
    <2>1. job'.op \in {"idle", "shutdown", "step"}
      BY <1>2, <1>3 DEF Job
    <2>2. \A x \in Blocks \ known : status'[x] = status[x]
      BY <1>1, MostWorkMarks, Zenon
    <2> QED  BY <1>1, <2>1, <2>2, Zenon DEF Inv, IndexInv, IndexClosed
  <1>6. \A x \in Chain[tip] : status'[x] = status[x]
    BY <1>1, <1>3, MostWorkMarks, ChainAssumption, Zenon
  <1>7. ActiveInv'
    <2>1. CASE job' = job
      BY <1>1, <1>6, <2>1, IdleActive, Zenon
    <2>2. CASE job' = Job("shutdown", Genesis, Genesis)
      BY <1>1, <1>3, <1>6, <2>2, Zenon DEF ActiveInv, Job
    <2>3. ASSUME NEW mw \in MostWork, job' = Job("step", mw, tip)
          PROVE  ActiveInv'
      <3>1. mw \in known /\ mw \in Blocks /\ BadOnPath(mw) = {}
        BY Zenon DEF MostWork, Usable, Inv, TypeOK
      <3>2. ASSUME NEW x \in Chain[mw]
            PROVE  x \in received /\ (UndoThere => ~Failed(status'[x]))
        <4>1. x \in Blocks /\ Chain[x] \subseteq Chain[mw]
          BY <3>1, ChainAssumption, Zenon
        <4>2. x \in received /\ (UndoThere => ~Failed(status[x]))
          BY <1>3, <3>1, <4>1, Zenon DEF BadOnPath, Inv, FlagsInv
        <4>3. status'[x] = status[x]
          BY <1>1, <3>1, <4>1, MostWorkMarks, Zenon DEF BadOnPath
        <4> QED  BY <4>2, <4>3, Zenon
      <3> QED  BY <1>1, <1>3, <1>6, <2>3, <3>1, <3>2, Zenon DEF ActiveInv, Job
    <2> QED  BY <1>2, <2>1, <2>2, <2>3, Zenon
  <1>8. \A x \in Blocks : /\ SCRIPTS \in status'[x] <=> SCRIPTS \in status[x]
                          /\ ACTIVATES \in status'[x] <=> ACTIVATES \in status[x]
                          /\ TRANSACTIONS \in status'[x] <=> TRANSACTIONS \in status[x]
                          /\ DATA \in status'[x] <=> DATA \in status[x]
    BY <1>1, MostWorkMarks, FlagNames, Zenon
  <1>9. ASSUME NEW x \in Blocks, x = Genesis \/ (Invalidated = {} /\ SCRIPTS \in status[x]),
               Failed(status'[x])
        PROVE  Failed(status[x])
    <2>1. x \notin Chain[tip] => x # Genesis
      BY <1>3, ChainAssumption, Zenon
    <2>2. ASSUME NEW y \in Chain[x] \ Chain[tip], Failed(status[y]), Invalidated = {}, SCRIPTS \in status[x]
          PROVE  FALSE
      BY <1>3, <2>2, ChainAssumption, Zenon DEF Inv, FlagsInv
    <2> QED  BY <1>1, <1>9, <2>1, <2>2, MostWorkMarks, Zenon
  <1>10. \A x \in Blocks : status'[x] = status[x] \/ status'[x] = status[x] \cup {FAILED_CHILD}
    BY <1>1, MostWorkMarks, Zenon
  <1>11. FlagsInv(status, received)' /\ RulesInv' /\ DiskInv'
    BY <1>1, <1>3, <1>8, <1>9, <1>10, FlagsKept, Zenon DEF Inv, RulesInv
  <1>12. WorkInv'
    <2>1. candidates' \subseteq candidates
      BY <1>1, Zenon DEF FindMostWorkChain
    <2>2. ASSUME NEW mw \in MostWork \ {tip}
          PROVE  mw \notin Chain[tip]
      <3>1. mw \in Blocks /\ Work[tip] <= Work[mw]
        BY <1>3, Zenon DEF MostWork, Usable, Inv, TypeOK, WorkInv
      <3> QED  BY <1>3, <3>1, AncestorBelow, WorkAssumption
    <2>3. job'.op = "step" => job'.target \notin Chain[tip]
      BY <1>2, <1>3, <2>2 DEF Job
    <2> QED  BY <1>1, <1>3, <2>1, <2>3, Zenon DEF Inv, WorkInv
  <1> QED  BY <1>4, <1>5, <1>7, <1>11, <1>12, Zenon DEF Inv

-----------------------------------------------------------------------------
(* The way to the best chain. *)

\* The block that ConnectTip tries next.
LEMMA NextBlock ==
  ASSUME TreeFacts, Inv, job.op = "step", coins = tip, tip \in Chain[job.target],
         NEW b, b = NextTowards(tip, job.target)
  PROVE  /\ b \in Blocks \ {Genesis} /\ b \in known /\ b \in received /\ (UndoThere => ~Failed(status[b]))
         /\ b \in Chain[job.target] /\ b \notin Chain[tip] /\ Parent[b] = tip
         /\ Chain[b] = Chain[tip] \cup {b}
         /\ tip \in known /\ job.target \in known
         /\ \A x \in Chain[tip] : (UndoThere => ~Failed(status[x])) /\ (x = Genesis \/ SCRIPTS \in status[x])
  <1>1. /\ tip \in Blocks /\ job.target \in Blocks /\ job.target \notin Chain[tip] /\ tip \in known
        /\ job.target \in known /\ \A x \in Chain[job.target] : x \in received /\ (UndoThere => ~Failed(status[x]))
        /\ \A x \in Chain[tip] : (UndoThere => ~Failed(status[x])) /\ (x = Genesis \/ SCRIPTS \in status[x])
    BY Zenon DEF Inv, TypeOK, ActiveInv, WorkInv
  <1>2. tip # job.target
    BY <1>1, ChainAssumption, Zenon
  <1>3. /\ b \in Chain[job.target] \ Chain[tip] /\ b \in Blocks \ {Genesis} /\ Parent[b] = tip
        /\ Chain[b] = Chain[tip] \cup {b}
    BY <1>1, <1>2, NextTowardsFits, Zenon
  <1>4. b \in known
    BY <1>1, <1>3, Zenon DEF Inv, IndexInv, IndexClosed
  <1> QED  BY <1>1, <1>3, <1>4, Zenon

\* UpdateTip: one block down, or one block up in ActivateBestChainStep.
LEMMA UpdateTipCases ==
  ASSUME Inv, UpdateTip
  PROVE  /\ tip \in Blocks /\ coins \in Blocks /\ job.op # "aborted"
         /\ \/ /\ job.op = "step" /\ coins # Genesis /\ tip = Parent[coins] /\ coins \in Chain[job.target]
               /\ tip \in Chain[coins] /\ candidates' = Pruned(candidates, coins)
               /\ job' = IF Work[coins] > Work[job.old] \/ coins = job.target THEN Idle ELSE job
            \/ /\ job.op \in {"step", "invalidate", "rewind"} /\ tip # Genesis /\ coins = Parent[tip]
               /\ Chain[tip] = Chain[coins] \cup {tip} /\ tip \notin Chain[coins]
               /\ job.op = "invalidate" => job.target \in Chain[tip]
               /\ candidates' = candidates /\ job' = job
  <1>1. tip \in Blocks /\ coins \in Blocks /\ coins # tip /\ job.op # "aborted"
    BY Zenon DEF Inv, TypeOK, IndexInv, UpdateTip
  <1>2. \/ job.op = "step" /\ coins # Genesis /\ tip = Parent[coins] /\ coins \in Chain[job.target]
        \/ /\ job.op \in {"step", "invalidate", "rewind"} /\ tip # Genesis /\ coins = Parent[tip]
           /\ job.op = "invalidate" => job.target \in Chain[tip]
    BY <1>1, Zenon DEF Inv, ActiveInv
  <1>3. coins # Genesis /\ tip = Parent[coins] => tip \in Chain[coins]
    BY <1>1, ChainAssumption, Zenon
  <1>4. tip # Genesis /\ coins = Parent[tip] => Chain[tip] = Chain[coins] \cup {tip} /\ tip \notin Chain[coins]
    BY <1>1, ChainAssumption, Zenon
  <1> QED  BY <1>1, <1>2, <1>3, <1>4, Zenon DEF UpdateTip

-----------------------------------------------------------------------------
(* Writing to disk. *)

\* PruneOneBlockFile changes the flags for the data only.
LEMMA PruneFlagsFit ==
  ASSUME Inv, NEW S \in PruneSets
  PROVE  /\ S \subseteq known
         /\ PruneFlags(S) \in [Blocks -> SUBSET Flags]
         /\ S = {} => PruneFlags(S) = status
         /\ \A x \in Blocks : /\ PruneFlags(S)[x] \subseteq status[x]
                              /\ x \notin S => PruneFlags(S)[x] = status[x]
                              /\ \A f : f \in status[x] => f \in PruneFlags(S)[x] \/ f \in {DATA, UNDO}
                              /\ Failed(PruneFlags(S)[x]) <=> Failed(status[x])
  <1>1. S \subseteq known
    BY Zenon DEF PruneSets, Prunable
  <1>2. PruneFlags(S) \in [Blocks -> SUBSET Flags]
    BY Zenon DEF PruneFlags, Inv, TypeOK
  <1>3. S = {} => PruneFlags(S) = status
    BY Zenon DEF PruneFlags, Inv, TypeOK
  <1>4. \A x \in Blocks : /\ PruneFlags(S)[x] \subseteq status[x]
                          /\ x \notin S => PruneFlags(S)[x] = status[x]
                          /\ \A f : f \in status[x] => f \in PruneFlags(S)[x] \/ f \in {DATA, UNDO}
    BY Zenon DEF PruneFlags
  <1>5. \A x \in Blocks : Failed(PruneFlags(S)[x]) <=> Failed(status[x])
    BY <1>4, FailedFlags, FlagNames, Zenon
  <1> QED  BY <1>1, <1>2, <1>3, <1>4, <1>5, Zenon

LEMMA WriteIndexFits ==
  ASSUME Inv, NEW S \in PruneSets, NEW d \in {WriteIndex(S), FullFlush(S)}
  PROVE  /\ d \in [index : SUBSET Blocks, received : SUBSET Blocks,
                   status : [Blocks -> SUBSET Flags], tip : Blocks]
         /\ d.index = disk.index \cup dirty \cup S
         /\ d.received = (disk.received \ (dirty \cup S)) \cup (received \cap (dirty \cup S))
         /\ \A x \in Blocks : d.status[x] = IF x \in dirty \cup S THEN PruneFlags(S)[x] ELSE disk.status[x]
         /\ WriteIndex(S).tip = disk.tip /\ FullFlush(S).tip = coins
  <1> DEFINE R == [index : SUBSET Blocks, received : SUBSET Blocks,
                   status : [Blocks -> SUBSET Flags], tip : Blocks]
             D == dirty \cup S
             i == disk.index \cup D
             r == (disk.received \ D) \cup (received \cap D)
             st == [x \in Blocks |-> IF x \in D THEN PruneFlags(S)[x] ELSE disk.status[x]]
             w == [disk EXCEPT !.index = i, !.received = r, !.status = st]
  <1>1. /\ disk \in R /\ i \in SUBSET Blocks /\ r \in SUBSET Blocks /\ coins \in Blocks
    BY PruneFlagsFit, Zenon DEF Inv, TypeOK
  <1>2. st \in [Blocks -> SUBSET Flags]
    BY PruneFlagsFit, Zenon DEF Inv, TypeOK
  <1>3. WriteIndex(S) = w
    BY Zenon DEF WriteIndex
  <1>4. FullFlush(S) = [w EXCEPT !.tip = coins]
    BY <1>3, Zenon DEF FullFlush
  <1>5. \A x \in Blocks : st[x] = IF x \in dirty \cup S THEN PruneFlags(S)[x] ELSE disk.status[x]
    BY Zenon
  <1> HIDE DEF i, r, st
  <1>6. w \in R /\ w.index = i /\ w.received = r /\ w.status = st /\ w.tip = disk.tip
    BY <1>1, <1>2, Zenon
  <1> HIDE DEF w
  <1>7. [w EXCEPT !.tip = coins] \in R /\ [w EXCEPT !.tip = coins].index = i
        /\ [w EXCEPT !.tip = coins].received = r /\ [w EXCEPT !.tip = coins].status = st
        /\ [w EXCEPT !.tip = coins].tip = coins
    BY <1>1, <1>6, Zenon
  <1>8. d \in R /\ d.index = i /\ d.received = r /\ d.status = st
        /\ WriteIndex(S).tip = disk.tip /\ FullFlush(S).tip = coins
    BY <1>3, <1>4, <1>6, <1>7, Zenon
  <1> QED  BY <1>5, <1>8, Zenon DEF i, r

\* What is written fits, if the best block of the chainstate was connected.
LEMMA Written ==
  ASSUME Inv, NEW S \in PruneSets, NEW d \in {WriteIndex(S), FullFlush(S)},
         d.tip \in d.index => \A x \in Chain[d.tip] \ {Genesis} : SCRIPTS \in status[x]
  PROVE  DiskFits(d, PruneFlags(S), {})
  <1>1. /\ d \in [index : SUBSET Blocks, received : SUBSET Blocks,
                  status : [Blocks -> SUBSET Flags], tip : Blocks]
        /\ d.index = disk.index \cup dirty \cup S
        /\ d.received = (disk.received \ (dirty \cup S)) \cup (received \cap (dirty \cup S))
        /\ \A x \in Blocks : d.status[x] = IF x \in dirty \cup S THEN PruneFlags(S)[x] ELSE disk.status[x]
    BY WriteIndexFits
  <1>2. /\ S \subseteq known
        /\ \A x \in Blocks : /\ PruneFlags(S)[x] \subseteq status[x]
                             /\ x \notin S => PruneFlags(S)[x] = status[x]
                             /\ \A f : f \in status[x] => f \in PruneFlags(S)[x] \/ f \in {DATA, UNDO}
    BY PruneFlagsFit, Zenon
  <1>3. d.index = known
    BY <1>1, <1>2 DEF Inv, DiskInv, DiskFits, TypeOK
  <1>4. d.received = received
    BY <1>1, ZenonT(60) DEF Inv, DiskInv, DiskFits, TypeOK
  <1>5. ASSUME NEW x \in Blocks
        PROVE  /\ d.status[x] \subseteq PruneFlags(S)[x]
               /\ PruneFlags(S)[x] \subseteq d.status[x] \cup {FAILED_CHILD}
    BY <1>1, <1>2, Zenon DEF Inv, DiskInv, DiskFits
  <1>6. \A x \in Blocks : /\ d.status[x] \subseteq status[x]
                          /\ \A f \in Lasting : f \in status[x] => f \in d.status[x]
    BY <1>2, <1>5, FlagNames, Zenon DEF Lasting
  <1>7. \A x \in Blocks : Failed(d.status[x]) => Failed(status[x])
    BY <1>6, FailedFlags, Zenon
  <1>8. FlagsInv(d.status, d.received)
    BY <1>4, <1>6, <1>7, ParentAssumption, ChainAssumption, Zenon DEF Lasting, Inv, FlagsInv
  <1>9. \A x \in Blocks \ d.index : d.status[x] = {}
    BY <1>3, <1>6, Zenon DEF Inv, IndexInv
  <1>10. d.tip \in d.index => \A x \in Chain[d.tip] \ {Genesis} : SCRIPTS \in d.status[x]
    BY <1>1, <1>6, ChainAssumption, Zenon DEF Lasting
  <1>11. \A x \in d.index : Chain[x] \subseteq d.index
    BY <1>3, Zenon DEF Inv, IndexInv, IndexClosed
  <1>12. Genesis \in d.index /\ d.received \subseteq d.index
    BY <1>3, <1>4, Zenon DEF Inv, IndexInv, TypeOK
  <1>13. \A x \in Blocks : \A f \in Lasting : f \in d.status[x] => f \in PruneFlags(S)[x]
    BY <1>5, Zenon
  <1> QED  BY <1>3, <1>4, <1>5, <1>8, <1>9, <1>10, <1>11, <1>12, <1>13, Zenon DEF DiskFits

\* FlushStateToDisk may write in the middle of an operation, but not before the first
\* flush of a new start.
LEMMA MayFlushFits ==
  ASSUME Inv, MayFlush
  PROVE  /\ job.op \notin {"flush", "aborted"} /\ disk.tip \in disk.index
         /\ \A x \in Chain[disk.tip] \ {Genesis} : SCRIPTS \in status[x]
         /\ coins \in known /\ \A x \in Chain[coins] \ {Genesis} : SCRIPTS \in status[x]
  <1>1. job.op \notin {"flush", "aborted"}
    BY Zenon DEF MayFlush, Inv, IndexInv, ActiveInv
  <1>2. disk.tip \in disk.index /\ disk.tip \in Blocks
    BY <1>1, Zenon DEF Inv, DiskInv, TypeOK
  <1>3. \A x \in Blocks : SCRIPTS \in disk.status[x] => SCRIPTS \in status[x]
    BY Zenon DEF Inv, DiskInv, DiskFits, Lasting
  <1>4. \A x \in Chain[disk.tip] \ {Genesis} : SCRIPTS \in disk.status[x]
    BY <1>2, Zenon DEF Inv, DiskInv, DiskFits
  <1>5. \A x \in Chain[disk.tip] \ {Genesis} : SCRIPTS \in status[x]
    BY <1>2, <1>3, <1>4, ChainAssumption, ZenonT(60)
  <1> QED  BY <1>1, <1>2, <1>5, Zenon DEF Inv, ActiveInv

-----------------------------------------------------------------------------
(* RewindBlockIndex. *)

\* Whether it goes back, and how far, is decided for a block above the genesis block.
LEMMA RewindHeightFits ==
  ASSUME TreeFacts, Inv
  PROVE  /\ RewindHeight \in Nat \ {0}
         /\ \A x \in Chain[job.old] \ {Genesis} : Height[x] < RewindHeight => SufficientlyValidated(x)
  <1>1. job.old \in Blocks /\ Height[job.old] \in Nat
    BY HeightAssumption, Zenon DEF Inv, TypeOK
  <1>2. \A x \in Chain[job.old] \ {Genesis} :
           x \in Blocks /\ Height[x] \in Nat /\ Height[x] <= Height[job.old] /\ Height[x] >= 1
    BY <1>1, AncestorBelow, ParentAssumption, HeightAssumption, ChainAssumption
  <1>3. CASE \A x \in Chain[job.old] \ {Genesis} : SufficientlyValidated(x)
    BY <1>1, <1>3 DEF RewindHeight
  <1>4. CASE ~\A x \in Chain[job.old] \ {Genesis} : SufficientlyValidated(x)
    <2> DEFINE S == {x \in Chain[job.old] \ {Genesis} : ~SufficientlyValidated(x)}
               Cut(h) == \A x \in Chain[job.old] \ {Genesis} :
                            /\ Height[x] < h => SufficientlyValidated(x)
                            /\ Height[x] = h => ~SufficientlyValidated(x)
    <2>1. S \in SUBSET Chain[job.old] /\ S # {}
      BY <1>4, Zenon
    <2>2. PICK x \in S : S \cap Chain[x] = {x}
      BY <1>1, <2>1, LowestBlock, Zenon
    <2>3. ASSUME NEW y \in Chain[job.old] \ {Genesis}
          PROVE  /\ Height[y] < Height[x] => SufficientlyValidated(y)
                 /\ Height[y] = Height[x] => ~SufficientlyValidated(y)
      <3>1. y \in Chain[x] \/ x \in Chain[y]
        BY <1>1, <2>2, ChainAssumption, Zenon
      <3>2. CASE y = x
        BY <3>2, <1>2
      <3>3. CASE y \in Chain[x] /\ y # x
        <4>1. Height[y] < Height[x]
          BY <1>2, <3>3, AncestorBelow, Zenon
        <4>2. y \notin S
          BY <2>2, <3>3, Zenon
        <4> QED  BY <1>2, <4>1, <4>2
      <3>4. CASE x \in Chain[y] /\ y # x
        <4>1. Height[x] < Height[y]
          BY <1>2, <3>4, AncestorBelow, Zenon
        <4> QED  BY <1>2, <4>1
      <3> QED  BY <3>1, <3>2, <3>3, <3>4, Zenon
    <2>4. Height[x] \in 1..Height[job.old] /\ Cut(Height[x])
      BY <1>1, <1>2, <2>2, <2>3
    <2>5. RewindHeight = CHOOSE h \in 1..Height[job.old] : Cut(h)
      BY <1>4, Zenon DEF RewindHeight
    <2> HIDE DEF Cut, S
    <2>6. RewindHeight \in 1..Height[job.old] /\ Cut(RewindHeight)
      BY <2>4, <2>5, Zenon
    <2> QED  BY <1>1, <2>6 DEF Cut
  <1> QED  BY <1>3, <1>4, Zenon

\* While RewindBlockIndex runs, the assumption on restarts leaves no pruning, and no marks
\* on connected blocks under an upgrade.
LEMMA RewindApart ==
  ASSUME Inv, RestartsApart, restarts > 0
  PROVE  /\ ~fPruneMode
         /\ \A b, x \in Blocks : Height[b] >= UpgradeHeight /\ SCRIPTS \in status[x] => ~Failed(status[x])
  <1>1. MaxRestarts # 0
    BY LimitsAssumption DEF Inv, TypeOK
  <1>2. ~fPruneMode /\ (Invalidated = {} \/ \A b \in Blocks : Height[b] < UpgradeHeight)
    BY <1>1, Zenon DEF RestartsApart
  <1>3. CASE Invalidated = {}
    BY <1>2, <1>3, Zenon DEF Inv, FlagsInv
  <1>4. CASE \A b \in Blocks : Height[b] < UpgradeHeight
    BY <1>2, <1>4, HeightAssumption, LimitsAssumption
  <1> QED  BY <1>2, <1>3, <1>4, Zenon

\* If a block is sufficiently validated, so is every block it builds on: the block that
\* activates the upgrade vouches for those below it.
LEMMA ValidatedBelow ==
  ASSUME TreeFacts, Inv, RestartsApart, restarts > 0, NEW x \in Blocks, SufficientlyValidated(x), NEW y \in Chain[x]
  PROVE  SufficientlyValidated(y)
  <1>1. y \in Blocks /\ Chain[y] \subseteq Chain[x] /\ Height[x] \in Nat /\ Height[y] \in Nat /\ UpgradeHeight \in Nat
    BY ChainAssumption, HeightAssumption, LimitsAssumption, Zenon
  <1>2. upgraded => \A z \in Chain[y] : Height[z] = UpgradeHeight => ACTIVATES \in status[z]
    BY <1>1, Zenon DEF SufficientlyValidated
  <1>3. ACTIVATES \in status[y] <=> upgraded /\ Height[y] = UpgradeHeight
    BY <1>1, <1>2, ChainAssumption, Zenon DEF Inv, FlagsInv
  <1>4. ASSUME NEW z \in Inherits(y)
        PROVE  IsValid(status[z], SCRIPTS)
    <2>1. /\ z \in Chain[y] \ {Genesis} /\ z \in Chain[x] /\ z \in Blocks /\ Height[z] \in Nat
          /\ upgraded /\ Height[y] >= UpgradeHeight => Height[z] > UpgradeHeight
      BY <1>1, ChainAssumption, HeightAssumption, Zenon DEF Inherits
    <2>2. CASE z \in Inherits(x)
      BY <2>2, Zenon DEF SufficientlyValidated
    <2>3. CASE z \notin Inherits(x)
      <3>1. upgraded /\ Height[x] >= UpgradeHeight /\ Height[z] <= UpgradeHeight
        BY <1>1, <2>1, <2>3 DEF Inherits
      <3>2. PICK a \in Chain[x] : Height[a] = UpgradeHeight
        BY <1>1, <3>1, AncestorAt, Zenon
      <3>3. a \in Blocks /\ SCRIPTS \in status[a]
        BY <3>1, <3>2, ChainAssumption, Zenon DEF SufficientlyValidated, Inv, FlagsInv
      <3>4. z \in Chain[a]
        <4>1. z \in Chain[a] \/ a \in Chain[z]
          BY <2>1, <3>2, ChainAssumption, Zenon
        <4>2. a \in Chain[z] /\ a # z => Height[a] < Height[z]
          BY <2>1, AncestorBelow, Zenon
        <4> QED  BY <1>1, <2>1, <3>1, <3>2, <3>3, <4>1, <4>2, ChainAssumption
      <3>5. SCRIPTS \in status[z]
        BY <2>1, <3>3, <3>4, Zenon DEF Inv, FlagsInv
      <3>6. ~Failed(status[z])
        BY <2>1, <3>1, <3>5, RewindApart, Zenon
      <3> QED  BY <3>5, <3>6, Zenon DEF IsValid
    <2> QED  BY <2>2, <2>3, Zenon
  <1> QED  BY <1>2, <1>3, <1>4, Zenon DEF SufficientlyValidated

\* A block above the genesis block that is sufficiently validated is not marked, if it was
\* connected at all.
LEMMA ValidatedUnmarked ==
  ASSUME Inv, RestartsApart, restarts > 0, NEW x \in Blocks \ {Genesis}, SufficientlyValidated(x),
         SCRIPTS \in status[x]
  PROVE  ~Failed(status[x])
  <1>1. CASE x \in Inherits(x)
    BY <1>1, Zenon DEF SufficientlyValidated, IsValid
  <1>2. CASE x \notin Inherits(x)
    <2>1. Height[x] >= UpgradeHeight
      BY <1>2, ChainAssumption, Zenon DEF Inherits
    <2> QED  BY <2>1, RewindApart, Zenon
  <1> QED  BY <1>1, <1>2, Zenon

\* What RewindBlockIndex forgets, and what it keeps.
LEMMA GoneFits ==
  ASSUME TreeFacts, Inv, RestartsApart, RewindErase, NEW gone,
         gone = {x \in known : ~SufficientlyValidated(x) /\ x \notin Chain[tip]}
  PROVE  /\ tip \in Blocks /\ tip \in known /\ gone \subseteq known /\ gone \cap Chain[tip] = {} /\ Genesis \notin gone
         /\ \A x \in Chain[tip] : ~Failed(status[x]) /\ (x = Genesis \/ SCRIPTS \in status[x])
         /\ \A x \in known \ gone : Chain[x] \cap gone = {} /\ (x = Genesis \/ SufficientlyValidated(x))
  <1>1. /\ job.op = "rewind" /\ coins = tip /\ RewindStops /\ restarts > 0
        /\ tip \in Blocks /\ tip \in known /\ tip \in Chain[job.old] /\ job.old \in Blocks
        /\ \A x \in Chain[tip] : x = Genesis \/ SCRIPTS \in status[x]
    BY Zenon DEF RewindErase, Inv, TypeOK, ActiveInv, IndexInv
  <1>2. Height[tip] < RewindHeight
    BY <1>1, RewindApart, Zenon DEF RewindStops
  <1>3. ASSUME NEW x \in Chain[tip] \ {Genesis}
        PROVE  x \in Blocks /\ SufficientlyValidated(x)
    <2>1. x \in Blocks /\ x \in Chain[job.old] \ {Genesis} /\ Height[x] <= Height[tip]
          /\ Height[x] \in Nat /\ Height[tip] \in Nat
      BY <1>1, AncestorBelow, ChainAssumption, HeightAssumption
    <2>2. RewindHeight \in Nat
      BY RewindHeightFits, Zenon
    <2>3. Height[x] < RewindHeight
      BY <1>2, <2>1, <2>2
    <2> QED  BY <2>1, <2>3, RewindHeightFits, Zenon
  <1>4. \A x \in Chain[tip] : ~Failed(status[x])
    <2>1. ~Failed(status[Genesis])
      BY Zenon DEF Inv, FlagsInv
    <2> QED  BY <1>1, <1>3, <2>1, ValidatedUnmarked, Zenon
  <1>5. \A x \in known \ gone : x = Genesis \/ SufficientlyValidated(x)
    BY <1>3, Zenon
  <1>6. ASSUME NEW x \in known \ gone, NEW y \in Chain[x] \cap gone
        PROVE  FALSE
    <2>1. x \in Blocks /\ (x \in Chain[tip] => Chain[x] \subseteq Chain[tip])
      BY <1>1, ChainAssumption, Zenon DEF Inv, TypeOK
    <2>2. SufficientlyValidated(x)
      BY <1>6, <2>1, Zenon
    <2>3. SufficientlyValidated(y)
      BY <1>1, <2>1, <2>2, ValidatedBelow, Zenon
    <2> QED  BY <2>3, Zenon
  <1>7. Genesis \in Chain[tip]
    BY <1>1, ChainAssumption, Zenon
  <1> QED  BY <1>1, <1>4, <1>5, <1>6, <1>7, Zenon

-----------------------------------------------------------------------------
(* Data that was stored, and nChainTx. *)

DataFit(st, rec) ==
    \A x \in Blocks : /\ x \in rec => DATA \in st[x]
                      /\ SCRIPTS \in st[x] => UNDO \in st[x]

DataInv == DataFit(status, received) /\ DataFit(disk.status, disk.received)

\* What is written has all flags for the data.
LEMMA DataWritten ==
  ASSUME Inv, DataInv, NEW d, DiskFits(d, status, {})
  PROVE  DataFit(d.status, d.received)
  <1>1. \A x \in Blocks : /\ d.status[x] \subseteq status[x]
                          /\ status[x] \subseteq d.status[x] \cup {FAILED_CHILD}
    BY Zenon DEF DiskFits
  <1>2. d.received \subseteq received
    BY Zenon DEF DiskFits
  <1> QED  BY <1>1, <1>2, FlagNames, Zenon DEF DataInv, DataFit

\* What FlushStateToDisk writes when it prunes nothing.
LEMMA WrittenUnpruned ==
  ASSUME Inv, ~fPruneMode
  PROVE  /\ PruneSets = {{}} /\ PruneFlags({}) = status /\ PruneUnlinked({}) = unlinked
         /\ MayFlush => DiskFits(WriteIndex({}), status, {}) /\ DiskFits(FullFlush({}), status, {})
         /\ job.op = "flush" => DiskFits(FullFlush({}), status, {})
  <1>1. PruneSets = {{}} /\ PruneUnlinked({}) = unlinked
    BY Zenon DEF PruneSets, PruneUnlinked
  <1>2. PruneFlags({}) = status /\ WriteIndex({}).tip = disk.tip /\ FullFlush({}).tip = coins
    BY <1>1, PruneFlagsFit, WriteIndexFits, Zenon
  <1>3. MayFlush => DiskFits(WriteIndex({}), status, {})
    BY <1>1, <1>2, MayFlushFits, Written, Zenon
  <1>4. MayFlush => DiskFits(FullFlush({}), status, {})
    BY <1>1, <1>2, MayFlushFits, Written, Zenon
  <1>5. job.op = "flush" => DiskFits(FullFlush({}), status, {})
    BY <1>1, <1>2, Written, Zenon DEF Inv, ActiveInv
  <1> QED  BY <1>1, <1>2, <1>3, <1>4, <1>5, Zenon

LinkInv ==
    /\ linked \subseteq received /\ \A x \in linked : Chain[x] \subseteq linked
    /\ unlinked \subseteq received /\ unlinked \cap linked = {}
    /\ candidates \subseteq linked
    /\ job.op # "aborted" =>
          /\ tip \in linked /\ coins \in linked /\ (job.op = "step" => job.target \in linked)
          /\ \A x \in candidates : ~Worse(x, tip, seq)

\* LoadBlockIndexDB links what has data all the way down.
LEMMA LoadLinks ==
  ASSUME Inv, NEW d, NEW st, NEW D, DiskFits(d, st, D), LoadBlockIndexDB(d),
         d \in [index : SUBSET Blocks, received : SUBSET Blocks,
                status : [Blocks -> SUBSET Flags], tip : Blocks]
  PROVE  LinkInv'
  <1> DEFINE isLinked == {x \in d.index : Chain[x] \subseteq d.received}
  <1>1. /\ received' = d.received /\ linked' = isLinked
        /\ unlinked' = {x \in d.received \ {Genesis} : Parent[x] \notin isLinked}
        /\ \A x \in candidates' : x \in isLinked /\ ~Worse(x, d.tip, seq')
        /\ tip' = d.tip /\ coins' = d.tip
        /\ \/ d.tip \in d.index /\ job' = Job("rewind", d.tip, d.tip)
           \/ job' = Job("aborted", Genesis, Genesis)
    BY Zenon DEF LoadBlockIndexDB
  <1>2. /\ d.received \subseteq d.index /\ d.index \subseteq Blocks
        /\ \A x \in d.index : Chain[x] \subseteq d.index
        /\ d.tip \in d.index => \A x \in Chain[d.tip] \ {Genesis} : SCRIPTS \in d.status[x]
        /\ FlagsInv(d.status, d.received)
    BY Zenon DEF DiskFits
  <1>3. isLinked \subseteq d.received /\ \A x \in isLinked : Chain[x] \subseteq isLinked
    BY <1>2, ChainAssumption, Zenon
  <1>4. unlinked' \subseteq d.received /\ unlinked' \cap isLinked = {}
    <2>1. \A x \in isLinked \ {Genesis} : Parent[x] \in Chain[x]
      BY <1>2, ChainAssumption, ParentAssumption
    <2> QED  BY <1>1, <1>3, <2>1, Zenon
  <1>5. d.tip \in d.index => d.tip \in isLinked
    BY <1>2, ChainAssumption, Zenon DEF FlagsInv
  <1>6. job'.op = "aborted" \/ (job'.op = "rewind" /\ d.tip \in d.index)
    BY <1>1 DEF Job
  <1> HIDE DEF isLinked
  <1> QED  BY <1>1, <1>3, <1>4, <1>5, <1>6, Zenon DEF LinkInv

-----------------------------------------------------------------------------
(* Marks: a block is marked because of a block that was found or declared  *)
(* invalid.                                                                *)

\* The blocks that can get BLOCK_FAILED_VALID.
Origins == Invalidated \cup BadBlocks \cup InvalidBlocks \cup InvalidIfUpgraded

\* reconsiderblock is called for no block above an invalid one: it clears the marks of all
\* ancestors, but those of their other descendants stay.
FirstReconsidered == \A b \in Reconsidered : (Chain[b] \ {b}) \cap Origins = {}

MarksFit(st) ==
    \A x \in Blocks : /\ Failed(st[x]) => \E y \in Chain[x] : FAILED_VALID \in st[y]
                      /\ FAILED_VALID \in st[x] => x \in Origins

MarksInv == MarksFit(status) /\ MarksFit(disk.status)

\* Marks that are added have a reason, and no BLOCK_FAILED_VALID is taken away.
LEMMA MarksKept ==
  ASSUME MarksInv, disk' = disk,
         \A x \in Blocks : /\ FAILED_VALID \in status[x] => FAILED_VALID \in status'[x]
                           /\ FAILED_VALID \in status'[x] => FAILED_VALID \in status[x] \/ x \in Origins
                           /\ Failed(status'[x]) => \/ Failed(status[x])
                                                    \/ \E y \in Chain[x] : FAILED_VALID \in status'[y]
  PROVE  MarksInv'
  BY ChainAssumption, Zenon DEF MarksInv, MarksFit

\* One block is marked, for a reason.
LEMMA MarkOne ==
  ASSUME Inv, MarksInv, disk' = disk, NEW b \in Blocks, NEW m \in FAILED_MASK,
         status' = [status EXCEPT ![b] = @ \cup {m}],
         IF m = FAILED_VALID THEN b \in Origins ELSE \E y \in Chain[b] : FAILED_VALID \in status[y]
  PROVE  MarksInv'
  <1>1. \A x \in Blocks : x # b => status'[x] = status[x]
    BY Zenon DEF Inv, TypeOK
  <1>2. status'[b] = status[b] \cup {m}
    BY Zenon DEF Inv, TypeOK
  <1>3. \A x \in Blocks : FAILED_VALID \in status[x] => FAILED_VALID \in status'[x]
    BY <1>1, <1>2, Zenon
  <1>4. \A x \in Blocks : FAILED_VALID \in status'[x] => FAILED_VALID \in status[x] \/ x \in Origins
    BY <1>1, <1>2, Zenon
  <1>5. \E y \in Chain[b] : FAILED_VALID \in status'[y]
    BY <1>2, <1>3, ChainAssumption, Zenon
  <1> QED  BY <1>1, <1>3, <1>4, <1>5, MarksKept, Zenon

\* What is written has the marks that are in memory, but for those of FindMostWorkChain.
LEMMA MarksWritten ==
  ASSUME Inv, MarksInv, NEW S \in PruneSets, NEW d, DiskFits(d, PruneFlags(S), {})
  PROVE  MarksFit(d.status) /\ MarksFit(PruneFlags(S))
  <1>1. \A x \in Blocks : /\ PruneFlags(S)[x] \subseteq status[x]
                          /\ FAILED_VALID \in status[x] => FAILED_VALID \in PruneFlags(S)[x]
    BY PruneFlagsFit, FlagNames, Zenon
  <1>2. \A x \in Blocks : Failed(PruneFlags(S)[x]) => Failed(status[x])
    BY <1>1, FailedFlags, Zenon
  <1>3. MarksFit(PruneFlags(S))
    BY <1>1, <1>2, ChainAssumption, Zenon DEF MarksInv, MarksFit
  <1>4. \A x \in Blocks : /\ d.status[x] \subseteq PruneFlags(S)[x]
                          /\ PruneFlags(S)[x] \subseteq d.status[x] \cup {FAILED_CHILD}
    BY Zenon DEF DiskFits
  <1>5. \A x \in Blocks : /\ FAILED_VALID \in PruneFlags(S)[x] <=> FAILED_VALID \in d.status[x]
                          /\ Failed(d.status[x]) => Failed(PruneFlags(S)[x])
    BY <1>4, FlagNames, FailedFlags, Zenon
  <1>6. MarksFit(d.status)
    BY <1>3, <1>5, ChainAssumption, Zenon DEF MarksFit
  <1> QED  BY <1>3, <1>6, Zenon

\* reconsiderblock clears a mark together with those above it.
LEMMA ReconsiderMarks ==
  ASSUME Inv, MarksInv, FirstReconsidered, NEW b \in Blocks \ {Genesis}, ReconsiderBlock(b)
  PROVE  MarksInv'
  <1> DEFINE below == InvalidBelow(b)
             above == {x \in Chain[b] : Failed(status[x])}
  <1>1. /\ b \in Reconsidered /\ disk' = disk
        /\ status' = [x \in Blocks |-> IF x \in below \cup above THEN status[x] \ FAILED_MASK ELSE status[x]]
    BY Zenon DEF ReconsiderBlock
  <1>2. \A x \in Blocks : Failed(status[x]) /\ b \in Chain[x] => x \in below
    BY FailedFlags, Zenon DEF InvalidBelow, Inv, IndexInv
  <1>3. \A x \in Blocks : x \in below => b \in Chain[x]
    BY Zenon DEF InvalidBelow
  <1>4. \A x \in Blocks : x \in above => x \in Chain[b]
    BY Zenon
  <1> HIDE DEF below, above
  <1>5. \A x \in Blocks : /\ x \in below \cup above => ~Failed(status'[x])
                          /\ x \notin below \cup above => status'[x] = status[x]
                          /\ FAILED_VALID \in status'[x] => FAILED_VALID \in status[x]
    BY <1>1, FailedFlags, Zenon
  <1>6. ASSUME NEW x \in Blocks, Failed(status'[x])
        PROVE  \E y \in Chain[x] : FAILED_VALID \in status'[y]
    <2>1. Failed(status[x]) /\ b \notin Chain[x]
      BY <1>2, <1>5, <1>6, Zenon
    <2>2. PICK y \in Chain[x] : FAILED_VALID \in status[y]
      BY <2>1, Zenon DEF MarksInv, MarksFit
    <2>3. y \in Blocks /\ y \in Origins /\ Chain[y] \subseteq Chain[x]
      BY <2>2, ChainAssumption, Zenon DEF MarksInv, MarksFit
    <2>4. y \notin below /\ y \notin above
      BY <1>1, <1>3, <1>4, <2>1, <2>2, <2>3, Zenon DEF FirstReconsidered
    <2> QED  BY <1>5, <2>2, <2>3, <2>4, Zenon
  <1> QED  BY <1>1, <1>5, <1>6, Zenon DEF MarksInv, MarksFit

LEMMA RestartMarks ==
  ASSUME Inv, MarksInv, Restart
  PROVE  MarksInv'
  <1>1. CASE LoadBlockIndexDB(disk) /\ disk' = disk
    BY <1>1, Zenon DEF LoadBlockIndexDB, MarksInv, MarksFit
  <1>2. ASSUME MayFlush, NEW S \in PruneSets, LoadBlockIndexDB(WriteIndex(S)), disk' = WriteIndex(S)
        PROVE  MarksInv'
    <2>1. WriteIndex(S).tip = disk.tip
      BY WriteIndexFits, Zenon
    <2>2. DiskFits(WriteIndex(S), PruneFlags(S), {})
      BY <1>2, <2>1, MayFlushFits, Written, Zenon
    <2>3. MarksFit(WriteIndex(S).status)
      BY <2>2, MarksWritten, Zenon
    <2>4. status' = WriteIndex(S).status
      BY <1>2, Zenon DEF LoadBlockIndexDB
    <2> QED  BY <1>2, <2>3, <2>4, Zenon DEF MarksInv, MarksFit
  <1> QED  BY <1>1, <1>2, Zenon DEF Restart

\* RewindBlockIndex forgets a block with everything above it.
LEMMA RewindEraseMarks ==
  ASSUME TreeFacts, Inv, RestartsApart, MarksInv, RewindErase
  PROVE  MarksInv'
  <1> DEFINE gone == {x \in known : ~SufficientlyValidated(x) /\ x \notin Chain[tip]}
             dst == [x \in Blocks |-> IF x \in gone THEN {} ELSE disk.status[x]]
  <1>1. /\ job.op = "rewind"
        /\ status' = [x \in Blocks |-> IF x \in gone THEN {} ELSE status[x]]
        /\ disk' = [disk EXCEPT !.index = disk.index \ gone, !.received = disk.received \ gone,
                                !.status = dst]
    BY Zenon DEF RewindErase
  <1>2. gone \subseteq known /\ \A x \in known \ gone : Chain[x] \cap gone = {}
    BY GoneFits, Zenon
  <1>3. \A x \in Blocks : dst[x] = IF x \in gone THEN {} ELSE disk.status[x]
    BY Zenon
  <1> HIDE DEF gone, dst
  <1>4. disk'.status = dst
    BY <1>1, Zenon DEF Inv, TypeOK
  <1>5. ~Failed({}) /\ FAILED_VALID \notin {}
    BY FailedFlags
  <1>6. ASSUME NEW st, NEW new, MarksFit(st),
               \A x \in Blocks \ known : st[x] = {},
               \A x \in Blocks : new[x] = IF x \in gone THEN {} ELSE st[x]
        PROVE  MarksFit(new)
    <2>1. ASSUME NEW x \in Blocks, Failed(new[x])
          PROVE  \E y \in Chain[x] : FAILED_VALID \in new[y]
      <3>1. x \in known \ gone /\ Failed(st[x])
        BY <1>5, <1>6, <2>1, Zenon
      <3>2. PICK y \in Chain[x] : FAILED_VALID \in st[y]
        BY <1>6, <3>1, Zenon DEF MarksFit
      <3>3. y \in Blocks /\ y \notin gone
        BY <1>2, <3>1, <3>2, ChainAssumption, Zenon
      <3> QED  BY <1>6, <3>2, <3>3, Zenon
    <2>2. \A x \in Blocks : FAILED_VALID \in new[x] => FAILED_VALID \in st[x]
      BY <1>5, <1>6, Zenon
    <2> QED  BY <1>6, <2>1, <2>2, Zenon DEF MarksFit
  <1>7. MarksFit(status')
    <2>1. \A x \in Blocks \ known : status[x] = {}
      BY Zenon DEF Inv, IndexInv
    <2>2. \A x \in Blocks : status'[x] = IF x \in gone THEN {} ELSE status[x]
      BY <1>1, Zenon
    <2> QED  BY <1>6, <2>1, <2>2, Zenon DEF MarksInv
  <1>8. MarksFit(dst)
    <2>1. \A x \in Blocks \ known : disk.status[x] = {}
      BY Zenon DEF Inv, DiskInv, DiskFits
    <2> QED  BY <1>3, <1>6, <2>1, Zenon DEF MarksInv
  <1> QED  BY <1>4, <1>7, <1>8, Zenon DEF MarksInv, MarksFit

LEMMA NextMarks ==
  ASSUME TreeFacts, Inv, MarksInv, RestartsApart, FirstReconsidered, [Next]_vars
  PROVE  MarksInv'
  <1>1. CASE status' = status /\ disk' = disk
    BY <1>1, Zenon DEF MarksInv, MarksFit
  <1>2. ASSUME NEW b \in Blocks \ {Genesis}, AcceptBlockHeader(b)
        PROVE  MarksInv'
    BY <1>1, <1>2, Zenon DEF AcceptBlockHeader
  <1>3. ASSUME NEW b \in Blocks \ {Genesis}, NEW f \in BOOLEAN, RejectBlock(b, f)
        PROVE  MarksInv'
    BY <1>3, MarkOne, Zenon DEF RejectBlock, Origins, FAILED_MASK
  <1>4. ASSUME NEW b \in Blocks \ {Genesis}, NEW f \in BOOLEAN, AcceptBlock(b, f)
        PROVE  MarksInv'
    <2>1. disk' = disk /\ status' = [status EXCEPT ![b] = @ \cup {DATA, TRANSACTIONS}]
      BY <1>4, Zenon DEF AcceptBlock
    <2>2. \A x \in Blocks : status'[x] = status[x] \/ status'[x] = status[x] \cup {DATA, TRANSACTIONS}
      BY <2>1, Zenon DEF Inv, TypeOK
    <2>3. \A x \in Blocks : /\ FAILED_VALID \in status'[x] <=> FAILED_VALID \in status[x]
                            /\ Failed(status'[x]) <=> Failed(status[x])
      BY <2>2, FlagNames, FailedFlags, ZenonT(60)
    <2> QED  BY <2>1, <2>3, MarksKept, Zenon
  <1>5. ASSUME NEW b \in Blocks \ {Genesis}, InvalidateBlock(b)
        PROVE  MarksInv'
    BY <1>5, MarkOne, Zenon DEF InvalidateBlock, Origins, FAILED_MASK
  <1>6. ASSUME NEW b \in Blocks \ {Genesis}, ReconsiderBlock(b)
        PROVE  MarksInv'
    BY <1>6, ReconsiderMarks, Zenon
  <1>7. CASE ActivateBestChain
    <2>1. FindMostWorkChain /\ disk' = disk
      BY <1>7, Zenon DEF ActivateBestChain
    <2>2. ASSUME NEW x \in Blocks
          PROVE  /\ FAILED_VALID \in status'[x] <=> FAILED_VALID \in status[x]
                 /\ Failed(status'[x]) => \/ Failed(status[x])
                                          \/ \E y \in Chain[x] : FAILED_VALID \in status[y]
      <3>1. CASE status'[x] = status[x]
        BY <3>1, Zenon
      <3>2. ASSUME status'[x] = status[x] \cup {FAILED_CHILD}, NEW y \in Chain[x], Failed(status[y])
            PROVE  /\ FAILED_VALID \in status'[x] <=> FAILED_VALID \in status[x]
                   /\ \E z \in Chain[x] : FAILED_VALID \in status[z]
        BY <3>2, FlagNames, ChainAssumption DEF MarksInv, MarksFit
      <3> QED  BY <2>1, <3>1, <3>2, MostWorkMarks, Zenon
    <2>3. \A x \in Blocks : Failed(status'[x]) => \/ Failed(status[x])
                                                  \/ \E y \in Chain[x] : FAILED_VALID \in status'[y]
      BY <2>2, ChainAssumption, Zenon
    <2> QED  BY <2>1, <2>2, <2>3, MarksKept, Zenon
  <1>8. CASE StepConnect
    <2> DEFINE b == NextTowards(tip, job.target)
    <2>1. disk' = disk /\ status' = [status EXCEPT ![b] = ConnectedFlags(b)]
      BY <1>8, Zenon DEF StepConnect
    <2>2. \A f : f \in ConnectedFlags(b) <=> f \in status[b] \/ (f \in {UNDO, SCRIPTS, ACTIVATES} /\ f \in ConnectedFlags(b))
      BY Zenon DEF ConnectedFlags
    <2> HIDE DEF b
    <2>3. \A x \in Blocks : /\ FAILED_VALID \in status'[x] <=> FAILED_VALID \in status[x]
                            /\ FAILED_CHILD \in status'[x] <=> FAILED_CHILD \in status[x]
      BY <2>1, <2>2, FlagNames, Zenon DEF Inv, TypeOK
    <2>4. \A x \in Blocks : Failed(status'[x]) <=> Failed(status[x])
      BY <2>3, FailedFlags, Zenon
    <2> QED  BY <2>1, <2>3, <2>4, MarksKept, Zenon
  <1>9. CASE StepInvalid
    <2> DEFINE b == NextTowards(tip, job.target)
    <2>1. /\ job.op = "step" /\ coins = tip /\ tip \in Chain[job.target] /\ Fails(b) /\ disk' = disk
          /\ status' = [status EXCEPT ![b] = @ \cup {FAILED_VALID}]
      BY <1>9, Zenon DEF StepInvalid, InvalidBlockFound
    <2>2. b \in Blocks
      BY <2>1, NextBlock, Zenon
    <2> HIDE DEF b
    <2> QED  BY <2>1, <2>2, MarkOne, Zenon DEF Fails, Origins, FAILED_MASK
  <1>10. CASE StepDisconnect \/ UpdateTip \/ InvalidateDone \/ RewindDisconnect
    BY <1>1, <1>10, Zenon DEF StepDisconnect, UpdateTip, InvalidateDone, RewindDisconnect, index
  <1>11. CASE InvalidateDisconnect
    <2>1. /\ job.op = "invalidate" /\ job.target \in Chain[tip] /\ disk' = disk
          /\ status' = [status EXCEPT ![tip] = @ \cup {FAILED_CHILD}]
      BY <1>11, Zenon DEF InvalidateDisconnect
    <2>2. tip \in Blocks /\ FAILED_VALID \in status[job.target]
      BY <2>1, Zenon DEF Inv, ActiveInv, TypeOK
    <2> QED  BY <2>1, <2>2, MarkOne, FlagNames, Zenon DEF FAILED_MASK
  <1>12. CASE RewindErase
    BY <1>12, RewindEraseMarks, Zenon
  <1>13. ASSUME NEW S \in PruneSets, FlushState(S)
         PROVE  MarksInv'
    <2>1. disk' = FullFlush(S) /\ status' = PruneFlags(S) /\ FullFlush(S).tip = coins
      BY <1>13, WriteIndexFits, Zenon DEF FlushState
    <2>2. \A x \in Chain[coins] \ {Genesis} : SCRIPTS \in status[x]
      BY <1>13, MayFlushFits, Zenon DEF FlushState
    <2>3. DiskFits(FullFlush(S), PruneFlags(S), {})
      BY <2>1, <2>2, Written, Zenon
    <2>4. MarksFit(FullFlush(S).status) /\ MarksFit(PruneFlags(S))
      BY <2>3, MarksWritten, Zenon
    <2> QED  BY <2>1, <2>4, Zenon DEF MarksInv, MarksFit
  <1>14. CASE FlushIndex \/ RewindFlush
    <2>1. {} \in PruneSets
      BY Zenon DEF PruneSets
    <2>2. PruneFlags({}) = status /\ WriteIndex({}).tip = disk.tip /\ FullFlush({}).tip = coins
      BY <2>1, PruneFlagsFit, WriteIndexFits, Zenon
    <2>3. status' = status /\ disk' \in {WriteIndex({}), FullFlush({})}
      BY <1>14, Zenon DEF FlushIndex, RewindFlush, index
    <2>4. FlushIndex => \A x \in Chain[disk.tip] \ {Genesis} : SCRIPTS \in status[x]
      BY MayFlushFits, Zenon DEF FlushIndex
    <2>5. RewindFlush => \A x \in Chain[coins] \ {Genesis} : SCRIPTS \in status[x]
      BY Zenon DEF RewindFlush, Inv, ActiveInv
    <2>6. DiskFits(disk', status, {})
      BY <1>14, <2>1, <2>2, <2>4, <2>5, Written, Zenon DEF FlushIndex, RewindFlush
    <2>7. MarksFit(disk'.status)
      BY <2>1, <2>2, <2>6, MarksWritten, Zenon
    <2> QED  BY <2>3, <2>7, Zenon DEF MarksInv, MarksFit
  <1>15. CASE Restart
    BY <1>15, RestartMarks, Zenon
  <1>16. CASE UNCHANGED vars
    BY <1>1, <1>16, Zenon DEF vars, index
  <1> QED  BY <1>2, <1>3, <1>4, <1>5, <1>6, <1>7, <1>8, <1>9, <1>10, <1>11, <1>12, <1>13, <1>14, <1>15, <1>16, ZenonT(60)
           DEF Next, ChainStep, InvalidateStep, StartStep

-----------------------------------------------------------------------------
(* A node that does not prune: data that was stored stays. *)

LEMMA DataKept ==
  ASSUME DataInv, disk' = disk,
         \A x \in Blocks : /\ x \in received' => x \in received \/ DATA \in status'[x]
                           /\ SCRIPTS \in status'[x] => SCRIPTS \in status[x] \/ UNDO \in status'[x]
                           /\ \A f \in {DATA, UNDO} : f \in status[x] => f \in status'[x]
  PROVE  DataInv'
  BY Zenon DEF DataInv, DataFit

LEMMA NextData ==
  ASSUME TreeFacts, Inv, DataInv, ~fPruneMode, [Next]_vars
  PROVE  DataInv'
  <1>1. CASE status' = status /\ disk' = disk /\ received' = received
    BY <1>1, Zenon DEF DataInv, DataFit
  <1>2. ASSUME NEW b \in Blocks \ {Genesis}, NEW f \in BOOLEAN, AcceptBlock(b, f)
        PROVE  DataInv'
    <2>1. disk' = disk /\ status' = [status EXCEPT ![b] = @ \cup {DATA, TRANSACTIONS}] /\ received' = received \cup {b}
      BY <1>2, Zenon DEF AcceptBlock
    <2>2. \A x \in Blocks : /\ status[x] \subseteq status'[x]
                            /\ x = b => DATA \in status'[x]
                            /\ SCRIPTS \in status'[x] => SCRIPTS \in status[x]
      BY <2>1, FlagNames, Zenon DEF Inv, TypeOK
    <2> QED  BY <2>1, <2>2, DataKept, Zenon
  <1>3. ASSUME NEW b \in Blocks, NEW m \in FAILED_MASK,
               status' = [status EXCEPT ![b] = @ \cup {m}], disk' = disk, received' = received
        PROVE  DataInv'
    <2>1. \A x \in Blocks : status[x] \subseteq status'[x] /\ (SCRIPTS \in status'[x] => SCRIPTS \in status[x])
      BY <1>3, FlagNames, Zenon DEF Inv, TypeOK, FAILED_MASK
    <2> QED  BY <1>3, <2>1, DataKept, Zenon
  <1>4. ASSUME NEW b \in Blocks \ {Genesis},
               AcceptBlockHeader(b) \/ InvalidateBlock(b) \/ \E f \in BOOLEAN : RejectBlock(b, f)
        PROVE  DataInv'
    BY <1>1, <1>3, <1>4, Zenon DEF AcceptBlockHeader, InvalidateBlock, RejectBlock, FAILED_MASK
  <1>5. ASSUME NEW b \in Blocks \ {Genesis}, ReconsiderBlock(b)
        PROVE  DataInv'
    <2>1. /\ disk' = disk /\ received' = received
          /\ \A x \in Blocks : status'[x] = status[x] \/ status'[x] = status[x] \ FAILED_MASK
      BY <1>5, Zenon DEF ReconsiderBlock
    <2>2. \A x \in Blocks : /\ \A f \in {DATA, UNDO} : f \in status[x] => f \in status'[x]
                            /\ SCRIPTS \in status'[x] => SCRIPTS \in status[x]
      BY <2>1, FlagNames, FailedFlags, Zenon
    <2> QED  BY <2>1, <2>2, DataKept, Zenon
  <1>6. CASE ActivateBestChain
    <2>1. FindMostWorkChain /\ disk' = disk /\ received' = received
      BY <1>6, Zenon DEF ActivateBestChain
    <2>2. \A x \in Blocks : status[x] \subseteq status'[x] /\ (SCRIPTS \in status'[x] => SCRIPTS \in status[x])
      BY <2>1, MostWorkMarks, FlagNames, Zenon
    <2> QED  BY <2>1, <2>2, DataKept, Zenon
  <1>7. CASE StepConnect
    <2> DEFINE b == NextTowards(tip, job.target)
    <2>1. disk' = disk /\ received' = received /\ status' = [status EXCEPT ![b] = ConnectedFlags(b)]
      BY <1>7, Zenon DEF StepConnect
    <2>2. UNDO \in ConnectedFlags(b) /\ status[b] \subseteq ConnectedFlags(b)
      BY Zenon DEF ConnectedFlags
    <2> HIDE DEF b
    <2>3. \A x \in Blocks : /\ status[x] \subseteq status'[x]
                            /\ SCRIPTS \in status'[x] => SCRIPTS \in status[x] \/ UNDO \in status'[x]
      BY <2>1, <2>2, Zenon DEF Inv, TypeOK
    <2> QED  BY <2>1, <2>3, DataKept, Zenon
  <1>8. CASE StepInvalid
    <2> DEFINE b == NextTowards(tip, job.target)
    <2>1. /\ job.op = "step" /\ coins = tip /\ tip \in Chain[job.target] /\ disk' = disk /\ received' = received
          /\ status' = [status EXCEPT ![b] = @ \cup {FAILED_VALID}]
      BY <1>8, Zenon DEF StepInvalid, InvalidBlockFound
    <2>2. b \in Blocks
      BY <2>1, NextBlock, Zenon
    <2> HIDE DEF b
    <2> QED  BY <1>3, <2>1, <2>2, Zenon DEF FAILED_MASK
  <1>9. CASE StepDisconnect \/ UpdateTip \/ InvalidateDone \/ RewindDisconnect
    BY <1>1, <1>9, Zenon DEF StepDisconnect, UpdateTip, InvalidateDone, RewindDisconnect, index
  <1>10. CASE InvalidateDisconnect
    BY <1>3, <1>10, Zenon DEF InvalidateDisconnect, FAILED_MASK, Inv, TypeOK
  <1>11. CASE RewindErase
    <2> DEFINE gone == {x \in known : ~SufficientlyValidated(x) /\ x \notin Chain[tip]}
               dst == [x \in Blocks |-> IF x \in gone THEN {} ELSE disk.status[x]]
    <2>1. /\ status' = [x \in Blocks |-> IF x \in gone THEN {} ELSE status[x]] /\ received' = received \ gone
          /\ disk' = [disk EXCEPT !.index = disk.index \ gone, !.received = disk.received \ gone,
                                  !.status = dst]
      BY <1>11, Zenon DEF RewindErase
    <2>2. \A x \in Blocks : dst[x] = IF x \in gone THEN {} ELSE disk.status[x]
      BY Zenon
    <2> HIDE DEF gone, dst
    <2>3. disk'.status = dst /\ disk'.received = disk.received \ gone
      BY <2>1, Zenon DEF Inv, TypeOK
    <2> QED  BY <2>1, <2>2, <2>3, Zenon DEF DataInv, DataFit
  <1>12. CASE (\E S \in PruneSets : FlushState(S)) \/ FlushIndex \/ RewindFlush
    <2>1. received' = received /\ status' = status /\ DiskFits(disk', status, {})
      BY <1>12, WrittenUnpruned, Zenon DEF FlushState, FlushIndex, RewindFlush, index
    <2> QED  BY <2>1, DataWritten, Zenon DEF DataInv, DataFit
  <1>13. CASE Restart
    <2>1. \/ disk' = disk
          \/ DiskFits(disk', status, {})
      BY <1>13, WrittenUnpruned, Zenon DEF Restart
    <2>2. DataFit(disk'.status, disk'.received)
      BY <2>1, DataWritten, Zenon DEF DataInv
    <2>3. status' = disk'.status /\ received' = disk'.received
      BY <1>13, Zenon DEF Restart, LoadBlockIndexDB
    <2> QED  BY <2>2, <2>3, Zenon DEF DataInv, DataFit
  <1>14. CASE UNCHANGED vars
    BY <1>1, <1>14, Zenon DEF vars, index
  <1> QED  BY <1>2, <1>4, <1>5, <1>6, <1>7, <1>8, <1>9, <1>10, <1>11, <1>12, <1>13, <1>14, Zenon
           DEF Next, ChainStep, InvalidateStep, StartStep

=============================================================================
