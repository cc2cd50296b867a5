---------------------------- MODULE PeersProofs -----------------------------
(* Proofs about what a node keeps of its peers: the blocks in flight and the orphans.        *)
EXTENDS Peers, DownloadProofs

\* The time that the prover has for a step.
USE SMTT(30)

-----------------------------------------------------------------------------
(* The two maps of orphan transactions agree, and stay bounded, for any transactions, any    *)
(* peers and any limit; and what is kept about blocks in flight is exact, for any peers, any *)
(* tree of blocks and any limits.                                                            *)

OrphanInv ==
    /\ mapOrphanTransactions \in [OrphanTxids -> Nodes \cup {NoPeer}]
    /\ mapOrphanTransactionsByPrev \in [OrphanTxids -> SUBSET OrphanTxids]
    /\ OrphansExact

\* The same of a record of the two maps, without the bound.
Exact(m) ==
    /\ m = [orphans |-> m.orphans, byPrev |-> m.byPrev]
    /\ m.orphans \in [OrphanTxids -> Nodes \cup {NoPeer}]
    /\ m.byPrev \in [OrphanTxids -> SUBSET OrphanTxids]
    /\ \A p \in OrphanTxids : m.byPrev[p] = {t \in Orphans(m) : p \in Prevs[t]}

\* The invariant says that the maps agree.
LEMMA MapsExact == OrphanInv => Exact(maps)
  BY Zenon DEF OrphanInv, OrphansExact, Exact, maps

\* Erasing takes a transaction out of both maps.
LEMMA EraseExact ==
  ASSUME NEW m, Exact(m), NEW S
  PROVE  Exact(EraseOrphanTx(m, S)) /\ Orphans(EraseOrphanTx(m, S)) = Orphans(m) \ S
  <1> DEFINE e == EraseOrphanTx(m, S)
             gone == S \cap Orphans(m)
  <1>1. /\ e = [orphans |-> e.orphans, byPrev |-> e.byPrev]
        /\ e.orphans = [t \in OrphanTxids |-> IF t \in gone THEN NoPeer ELSE m.orphans[t]]
        /\ e.byPrev = [p \in OrphanTxids |-> m.byPrev[p] \ {t \in gone : p \in Prevs[t]}]
    BY Zenon DEF EraseOrphanTx
  <1> HIDE DEF e
  <1>2. Orphans(e) = Orphans(m) \ S
    BY <1>1 DEF Orphans
  <1>3. /\ e.orphans \in [OrphanTxids -> Nodes \cup {NoPeer}]
        /\ e.byPrev \in [OrphanTxids -> SUBSET OrphanTxids]
    BY <1>1 DEF Exact
  <1>4. ASSUME NEW p \in OrphanTxids
        PROVE  e.byPrev[p] = {t \in Orphans(e) : p \in Prevs[t]}
    <2>1. e.byPrev[p] = m.byPrev[p] \ {t \in gone : p \in Prevs[t]}
      BY <1>1, Zenon
    <2>2. m.byPrev[p] = {t \in Orphans(m) : p \in Prevs[t]}
      BY Zenon DEF Exact
    <2> QED  BY <1>2, <2>1, <2>2, Zenon
  <1> QED  BY <1>1, <1>2, <1>3, <1>4, Zenon DEF Exact, e

\* Adding puts it in both.
LEMMA AddExact ==
  ASSUME NEW m, Exact(m), NEW t \in OrphanTxids, NEW peer \in Nodes
  PROVE  Exact(AddOrphanTx(m, t, peer))
  <1>1. CASE m.orphans[t] # NoPeer \/ t \in TooLarge
    BY <1>1, Zenon DEF AddOrphanTx
  <1>2. CASE ~(m.orphans[t] # NoPeer \/ t \in TooLarge)
    <2> DEFINE a == AddOrphanTx(m, t, peer)
    <2>1. /\ a = [orphans |-> a.orphans, byPrev |-> a.byPrev]
          /\ a.orphans = [m.orphans EXCEPT ![t] = peer]
          /\ a.byPrev = [p \in OrphanTxids |-> IF p \in Prevs[t] THEN m.byPrev[p] \cup {t} ELSE m.byPrev[p]]
      BY <1>2, Zenon DEF AddOrphanTx
    <2> HIDE DEF a
    <2>2. /\ a.orphans \in [OrphanTxids -> Nodes \cup {NoPeer}]
          /\ a.byPrev \in [OrphanTxids -> SUBSET OrphanTxids]
      BY <2>1 DEF Exact
    <2>3. Orphans(a) = Orphans(m) \cup {t}
      BY <2>1, PeersAssumption DEF Orphans, Exact
    <2>4. ASSUME NEW p \in OrphanTxids
          PROVE  a.byPrev[p] = {u \in Orphans(a) : p \in Prevs[u]}
      <3>1. m.byPrev[p] = {u \in Orphans(m) : p \in Prevs[u]}
        BY Zenon DEF Exact
      <3> QED  BY <2>1, <2>3, <3>1
    <2> QED  BY <2>1, <2>2, <2>4, Zenon DEF Exact, a
  <1> QED  BY <1>1, <1>2, Zenon

\* LimitOrphanTxSize leaves nMaxOrphanTx.
LEMMA LimitedExact ==
  ASSUME NEW m, Exact(m), NEW l \in Limited(m)
  PROVE  Exact(l) /\ Cardinality(Orphans(l)) <= nMaxOrphanTx
  <1>1. IsFiniteSet(Orphans(m)) /\ Cardinality(Orphans(m)) \in Nat
    BY OrphanAssumption, FS_Subset, FS_CardinalityType, Zenon DEF Orphans
  <1>2. PICK S \in SUBSET Orphans(m) :
           /\ l = EraseOrphanTx(m, S)
           /\ Cardinality(S) = IF Cardinality(Orphans(m)) > nMaxOrphanTx
                               THEN Cardinality(Orphans(m)) - nMaxOrphanTx ELSE 0
    BY Zenon DEF Limited
  <1>3. Exact(l) /\ Orphans(l) = Orphans(m) \ S
    BY <1>2, EraseExact, Zenon
  <1>4. Cardinality(Orphans(m) \ S) = Cardinality(Orphans(m)) - Cardinality(Orphans(m) \cap S)
    BY <1>1, FS_Difference, Zenon
  <1>5. Orphans(m) \cap S = S
    BY Zenon
  <1>6. Cardinality(Orphans(l)) = Cardinality(Orphans(m)) - Cardinality(S)
    BY <1>3, <1>4, <1>5, Zenon
  <1> QED  BY <1>1, <1>2, <1>3, <1>6, OrphanAssumption

\* Maps that agree and are bounded are the invariant.
LEMMA SetMapsInv ==
  ASSUME NEW m, Exact(m), Cardinality(Orphans(m)) <= nMaxOrphanTx, SetMaps(m)
  PROVE  OrphanInv'
  <1>1. maps' = m
    BY Zenon DEF SetMaps, maps, Exact
  <1>2. Orphans(maps)' = Orphans(m)
    BY <1>1, Zenon DEF Orphans
  <1>3. Cardinality(Orphans(maps)') <= nMaxOrphanTx
    BY <1>2, Zenon
  <1> QED  BY <1>2, <1>3, Zenon DEF SetMaps, Exact, OrphanInv, OrphansExact

\* Erasing makes the maps no larger.
LEMMA EraseInv ==
  ASSUME OrphanInv, NEW S, SetMaps(EraseOrphanTx(maps, S))
  PROVE  OrphanInv'
  <1> DEFINE e == EraseOrphanTx(maps, S)
  <1>1. Exact(e) /\ Orphans(e) = Orphans(maps) \ S
    BY MapsExact, EraseExact, Zenon
  <1>2. IsFiniteSet(Orphans(maps))
    BY OrphanAssumption, FS_Subset, Zenon DEF Orphans
  <1>3. /\ Cardinality(Orphans(maps) \ S) <= Cardinality(Orphans(maps))
        /\ Cardinality(Orphans(maps) \ S) \in Nat /\ Cardinality(Orphans(maps)) \in Nat
    BY <1>2, FS_Subset, FS_CardinalityType, Zenon
  <1>4. Cardinality(Orphans(e)) = Cardinality(Orphans(maps) \ S)
    BY <1>1, Zenon
  <1>5. Cardinality(Orphans(e)) <= nMaxOrphanTx
    BY <1>3, <1>4, OrphanAssumption DEF OrphanInv, OrphansExact
  <1> QED  BY <1>1, <1>5, SetMapsInv, Zenon

\* The maps start empty.
LEMMA OrphanInitInv == PeersInit => OrphanInv
  <1> SUFFICES ASSUME PeersInit PROVE OrphanInv
    BY Zenon
  <1>1. Orphans(maps) = {}
    BY Zenon DEF PeersInit, OrphanInit, Orphans, maps
  <1>2. Cardinality(Orphans(maps)) = 0
    BY <1>1, FS_EmptySet, Zenon
  <1> QED  BY <1>1, <1>2, OrphanAssumption DEF PeersInit, OrphanInit, OrphanInv, OrphansExact

\* Every step of the peers keeps the maps exact.
LEMMA OrphanStepInv ==
  ASSUME OrphanInv, [PeersNext]_peerVars
  PROVE  OrphanInv'
  <1>1. ASSUME NEW n \in Nodes, NEW t \in OrphanTxids, TxMessage(n, t)
        PROVE  OrphanInv'
    <2>1. ASSUME NEW m \in Limited(AddOrphanTx(maps, t, n)), SetMaps(m)
          PROVE  OrphanInv'
      <3>1. Exact(AddOrphanTx(maps, t, n))
        BY MapsExact, AddExact, Zenon
      <3> QED  BY <2>1, <3>1, LimitedExact, SetMapsInv, Zenon
    <2>2. CASE UNCHANGED <<mapOrphanTransactions, mapOrphanTransactionsByPrev>>
      BY <2>2, Zenon DEF OrphanInv, OrphansExact, Orphans, maps
    <2> QED  BY <1>1, <2>1, <2>2, EraseInv, Zenon DEF TxMessage
  <1>2. ASSUME NEW n \in Nodes, FinalizeNode(n)
        PROVE  OrphanInv'
    BY <1>2, EraseInv, Zenon DEF FinalizeNode, EraseOrphansFor
  <1>3. CASE UNCHANGED <<mapOrphanTransactions, mapOrphanTransactionsByPrev>>
    BY <1>3, Zenon DEF OrphanInv, OrphansExact, Orphans, maps
  <1> QED
    BY <1>1, <1>2, <1>3, Zenon
    DEF PeersNext, DownloadStep, OrphanStep, ConnectionStep, AcceptedElsewhere, orphanVars, peerVars

\* mapOrphanTransactionsByPrev lists exactly the orphans, under each transaction they spend, and
\* LimitOrphanTxSize holds their number down, whatever peers send and whoever leaves.
THEOREM OrphansAlwaysExact == PeersSpec => []OrphansExact
  <1>1. OrphanInv => OrphansExact
    BY Zenon DEF OrphanInv
  <1> QED  BY <1>1, OrphanInitInv, OrphanStepInv, PTL DEF PeersSpec

-----------------------------------------------------------------------------
(* The inductive invariant of the downloads. *)

\* nSyncStarted and nPreferredDownload count the peers.
Syncing(nodes) == {n \in Nodes : nodes[n].fSyncStarted}
PreferredOnes(nodes) == {n \in Nodes : nodes[n].fPreferredDownload}

DownloadInv ==
    /\ QueuesExact(queues) /\ AskedLittle(queues)
    /\ haveData \subseteq mapBlockIndex /\ mapBlockIndex \in SUBSET Headers /\ activeTip \in Headers
    /\ nSyncStarted = Cardinality(Syncing(mapNodeState))
    /\ nPreferredDownload = Cardinality(PreferredOnes(mapNodeState))

\* The queues after SetQueues.
LEMMA QueuesSet ==
  ASSUME NEW r \in Queues, SetQueues(r)
  PROVE  queues' = r /\ mapNodeState' = r.nodes /\ mapBlocksInFlight' = r.inFlight
  BY Zenon DEF SetQueues, queues, Queues

\* The fields of the queues before a step.
LEMMA QueuesNow ==
  ASSUME DownloadInv
  PROVE  /\ QueuesExact(queues) /\ AskedLittle(queues) /\ queues \in Queues
         /\ queues.nodes = mapNodeState /\ queues.inFlight = mapBlocksInFlight
         /\ queues.queued = nQueuedValidatedHeaders
         /\ mapNodeState \in [Nodes -> NodeStates] /\ nQueuedValidatedHeaders \in Int
         /\ mapBlocksInFlight \in [Headers -> Nodes \cup {NoNode}]
  <1>1. QueuesExact(queues) /\ AskedLittle(queues) /\ queues \in Queues
    BY Zenon DEF DownloadInv, QueuesExact
  <1>2. /\ queues.nodes = mapNodeState /\ queues.inFlight = mapBlocksInFlight
        /\ queues.queued = nQueuedValidatedHeaders
    BY Zenon DEF queues
  <1> QED  BY <1>1, <1>2, Zenon DEF Queues

\* A step on the queues, when the counters still count.
LEMMA QueuesStep ==
  ASSUME DownloadInv, NEW r, QueuesExact(r), SetQueues(r),
         nSyncStarted' = Cardinality(Syncing(r.nodes)),
         nPreferredDownload' = Cardinality(PreferredOnes(r.nodes)),
         \A m \in Nodes : r.nodes[m].nBlocksInFlight <= MAX_BLOCKS_IN_TRANSIT_PER_PEER,
         \A h \in Headers : h \in haveData' => r.inFlight[h] = NoNode,
         haveData' \subseteq mapBlockIndex', mapBlockIndex' \in SUBSET Headers, activeTip' \in Headers
  PROVE  DownloadInv'
  <1>1. r \in Queues
    BY Zenon DEF QueuesExact
  <1>2. queues' = r /\ mapNodeState' = r.nodes
    BY <1>1, QueuesSet, Zenon
  <1>4. AskedLittle(queues)'
    BY <1>2, Zenon DEF AskedLittle
  <1>5. QueuesExact(queues)'
    BY <1>2, Zenon
  <1>6. /\ nSyncStarted' = Cardinality(Syncing(mapNodeState'))
        /\ nPreferredDownload' = Cardinality(PreferredOnes(mapNodeState'))
    BY <1>2, Zenon
  <1>7. /\ (nSyncStarted = Cardinality(Syncing(mapNodeState)))'
        /\ (nPreferredDownload = Cardinality(PreferredOnes(mapNodeState)))'
    BY <1>6, Zenon
  <1> QED  BY <1>4, <1>5, <1>7, Zenon DEF DownloadInv

\* One that keeps who is counted.
LEMMA SameCounts ==
  ASSUME DownloadInv, NEW r, UNCHANGED countVars,
         \A n \in Nodes : /\ r.nodes[n].fSyncStarted = mapNodeState[n].fSyncStarted
                          /\ r.nodes[n].fPreferredDownload = mapNodeState[n].fPreferredDownload
  PROVE  /\ nSyncStarted' = Cardinality(Syncing(r.nodes))
         /\ nPreferredDownload' = Cardinality(PreferredOnes(r.nodes))
  <1>1. Syncing(r.nodes) = Syncing(mapNodeState) /\ PreferredOnes(r.nodes) = PreferredOnes(mapNodeState)
    BY Zenon DEF Syncing, PreferredOnes
  <1> QED  BY <1>1, Zenon DEF DownloadInv, countVars

\* A CNodeState as it is built.
LEMMA Built ==
  /\ CNodeState \in NodeStates /\ CNodeState.vBlocksInFlight = <<>> /\ CNodeState.nBlocksInFlight = 0
  /\ CNodeState.at = "absent" /\ CNodeState.fSyncStarted = FALSE /\ CNodeState.fPreferredDownload = FALSE
  /\ ValidAsked(CNodeState) = {} /\ StateExact(CNodeState)
  <1>1. /\ CNodeState \in NodeStates /\ CNodeState.vBlocksInFlight = <<>> /\ CNodeState.nBlocksInFlight = 0
        /\ CNodeState.nBlocksInFlightValidHeaders = 0 /\ CNodeState.nStallingSince = "no"
        /\ CNodeState.at = "absent" /\ CNodeState.fSyncStarted = FALSE /\ CNodeState.fPreferredDownload = FALSE
    BY DEF CNodeState, NodeStates
  <1>2. ValidAsked(CNodeState) = {}
    BY <1>1 DEF ValidAsked
  <1>3. IsFiniteSet(ValidAsked(CNodeState)) /\ Cardinality(ValidAsked(CNodeState)) = 0
    BY <1>2, FS_EmptySet, Zenon
  <1>4. StateExact(CNodeState)
    BY <1>1, <1>3, Zenon DEF StateExact
  <1> QED  BY <1>1, <1>2, <1>4, Zenon

\* Who is connected stays.
SameAt == \A m \in Nodes : mapNodeState'[m].at = mapNodeState[m].at

LEMMA SameAtSet ==
  ASSUME DownloadInv, NEW q, NEW r, SetQueues(r), Keeps(q, r), \A m \in Nodes : q.nodes[m].at = mapNodeState[m].at
  PROVE  SameAt
  BY Zenon DEF SameAt, SetQueues, Keeps

LEMMA DownloadInitInv == DownloadInit => DownloadInv
  <1> SUFFICES ASSUME DownloadInit
               PROVE  DownloadInv
    BY Zenon
  <1>1. /\ mapBlockIndex = {<<>>} /\ haveData = {<<>>} /\ activeTip = <<>>
        /\ mapNodeState = [n \in Nodes |-> CNodeState] /\ mapBlocksInFlight = [h \in Headers |-> NoNode]
        /\ nQueuedValidatedHeaders = 0 /\ nSyncStarted = 0 /\ nPreferredDownload = 0
    BY Zenon DEF DownloadInit
  <1>2. haveData \subseteq mapBlockIndex /\ mapBlockIndex \in SUBSET Headers /\ activeTip \in Headers
    BY <1>1, DownloadAssumption, Zenon
  <1>3. /\ CNodeState \in NodeStates /\ CNodeState.vBlocksInFlight = <<>> /\ CNodeState.nBlocksInFlight = 0
        /\ CNodeState.fSyncStarted = FALSE /\ CNodeState.fPreferredDownload = FALSE
        /\ ValidAsked(CNodeState) = {} /\ StateExact(CNodeState)
    BY Built, Zenon
  <1>4. queues \in Queues /\ queues.nodes = mapNodeState /\ queues.inFlight = mapBlocksInFlight /\ queues.queued = 0
    BY <1>1, <1>3 DEF queues, Queues
  <1>6. IsFiniteSet({}) /\ Cardinality({}) = 0
    BY FS_EmptySet, Zenon
  <1>8. ASSUME NEW n \in Nodes
        PROVE  ListExact(queues.nodes[n], queues.inFlight, n) /\ StateExact(queues.nodes[n])
    <2>1. queues.nodes[n] = CNodeState
      BY <1>1, <1>4, Zenon
    <2>2. ListExact(CNodeState, queues.inFlight, n)
      BY <1>1, <1>3, <1>4, DownloadAssumption DEF ListExact
    <2> QED  BY <1>3, <2>1, <2>2, Zenon
  <1>9. IsFiniteSet(AllValidAsked(queues.nodes)) /\ queues.queued >= Cardinality(AllValidAsked(queues.nodes))
    <2>1. \A n \in Nodes : ValidAsked(queues.nodes[n]) = {}
      BY <1>1, <1>3, <1>4, Zenon
    <2>2. AllValidAsked(queues.nodes) = {}
      BY <2>1, Zenon DEF AllValidAsked
    <2>3. IsFiniteSet(AllValidAsked(queues.nodes)) /\ Cardinality(AllValidAsked(queues.nodes)) = 0
      BY <1>6, <2>2, Zenon
    <2> QED  BY <1>4, <2>3
  <1>10. QueuesExact(queues)
    BY <1>4, <1>8, <1>9, Zenon DEF QueuesExact
  <1>11. AskedLittle(queues)
    <2>1. \A n \in Nodes : queues.nodes[n] = CNodeState
      BY <1>1, <1>4, Zenon
    <2>2. \A h \in Headers : queues.inFlight[h] = NoNode
      BY <1>1, <1>4, Zenon
    <2> QED  BY <1>3, <2>1, <2>2, DownloadAssumption DEF AskedLittle
  <1>12. Syncing(mapNodeState) = {} /\ PreferredOnes(mapNodeState) = {}
    BY <1>1, <1>3, Zenon DEF Syncing, PreferredOnes
  <1>13. nSyncStarted = Cardinality(Syncing(mapNodeState)) /\ nPreferredDownload = Cardinality(PreferredOnes(mapNodeState))
    BY <1>1, <1>6, <1>12, Zenon
  <1> QED  BY <1>2, <1>10, <1>11, <1>13, ZenonT(60) DEF DownloadInv

\* InitializeNode: a CNodeState that was as built.
LEMMA InitializeInv ==
  ASSUME DownloadInv, NEW n \in Nodes, InitializeNode(n)
  PROVE  DownloadInv'
  <1> DEFINE t == [mapNodeState[n] EXCEPT !.at = "connected"]
             r == WithNode(queues, n, t)
  <1>1. /\ QueuesExact(queues) /\ AskedLittle(queues) /\ queues \in Queues
        /\ queues.nodes = mapNodeState /\ queues.inFlight = mapBlocksInFlight
        /\ queues.queued = nQueuedValidatedHeaders
        /\ mapNodeState \in [Nodes -> NodeStates]
    BY QueuesNow, Zenon
  <1>2. /\ t \in NodeStates /\ t.at # "absent" /\ t.vBlocksInFlight = mapNodeState[n].vBlocksInFlight
        /\ t.nBlocksInFlight = mapNodeState[n].nBlocksInFlight
        /\ t.nBlocksInFlightValidHeaders = mapNodeState[n].nBlocksInFlightValidHeaders
        /\ t.nStallingSince = mapNodeState[n].nStallingSince
        /\ t.fSyncStarted = mapNodeState[n].fSyncStarted
        /\ t.fPreferredDownload = mapNodeState[n].fPreferredDownload
    <2>1. mapNodeState[n] \in NodeStates
      BY <1>1, Zenon
    <2> QED  BY <2>1, Zenon DEF NodeStates
  <1>3. mapNodeState' = [mapNodeState EXCEPT ![n] = t]
    BY <1>1, Zenon DEF InitializeNode
  <1> HIDE DEF t
  <1>4. Alike(queues.nodes[n], t)
    BY <1>1, <1>2, Zenon DEF Alike
  <1>5. QueuesExact(r)
    BY <1>1, <1>2, <1>4, AlikeNode, ZenonT(60)
  <1>6. /\ r.nodes = [mapNodeState EXCEPT ![n] = t] /\ r.inFlight = mapBlocksInFlight
        /\ r.queued = nQueuedValidatedHeaders
        /\ r.nodes[n] = t /\ \A m \in Nodes \ {n} : r.nodes[m] = mapNodeState[m]
    <2>1. Replaced(r, queues, n, t)
      BY <1>1, <1>2, WithNodeFields, Zenon
    <2> HIDE DEF r
    <2> QED  BY <1>1, <2>1, Zenon DEF Replaced
  <1> HIDE DEF r
  <1>7. SetQueues(r)
    BY <1>3, <1>6, Zenon DEF SetQueues, InitializeNode
  <1>8. /\ UNCHANGED <<mapBlockIndex, haveData, activeTip>> /\ UNCHANGED countVars
    BY Zenon DEF InitializeNode, indexVars
  <1>9. /\ \A m \in Nodes : /\ r.nodes[m].fSyncStarted = mapNodeState[m].fSyncStarted
                            /\ r.nodes[m].fPreferredDownload = mapNodeState[m].fPreferredDownload
                            /\ r.nodes[m].nBlocksInFlight <= MAX_BLOCKS_IN_TRANSIT_PER_PEER
        /\ \A h \in Headers : h \in haveData' => r.inFlight[h] = NoNode
    BY <1>1, <1>2, <1>6, <1>8 DEF AskedLittle
  <1>10. nSyncStarted' = Cardinality(Syncing(r.nodes)) /\ nPreferredDownload' = Cardinality(PreferredOnes(r.nodes))
    BY <1>8, <1>9, SameCounts, Zenon
  <1> QED  BY <1>5, <1>7, <1>8, <1>9, <1>10, QueuesStep, Zenon DEF DownloadInv

\* A peer is counted anew.
LEMMA Recounted ==
  ASSUME NEW S, NEW T, IsFiniteSet(S), NEW n, \A m : m # n => (m \in T <=> m \in S)
  PROVE  /\ n \in S /\ n \in T => Cardinality(T) = Cardinality(S)
         /\ n \in S /\ n \notin T => Cardinality(T) = Cardinality(S) - 1
         /\ n \notin S /\ n \in T => Cardinality(T) = Cardinality(S) + 1
         /\ n \notin S /\ n \notin T => Cardinality(T) = Cardinality(S)
  <1>1. ASSUME n \in S, n \notin T
        PROVE  Cardinality(T) = Cardinality(S) - 1
    <2>1. T = S \ {n}
      BY <1>1, Zenon
    <2> QED  BY <1>1, <2>1, FS_RemoveElement, Zenon
  <1>2. ASSUME n \notin S, n \in T
        PROVE  Cardinality(T) = Cardinality(S) + 1
    <2>1. T = S \cup {n}
      BY <1>2, Zenon
    <2> QED  BY <1>2, <2>1, FS_AddElement, Zenon
  <1>3. ASSUME n \in S <=> n \in T
        PROVE  Cardinality(T) = Cardinality(S)
    <2>1. T = S
      BY <1>3
    <2> QED  BY <2>1, Zenon
  <1> QED  BY <1>1, <1>2, <1>3, Zenon

\* The peers counted are finitely many.
LEMMA CountedFinite ==
  ASSUME NEW nodes
  PROVE  /\ IsFiniteSet(Syncing(nodes)) /\ IsFiniteSet(PreferredOnes(nodes))
         /\ Cardinality(Syncing(nodes)) \in Nat /\ Cardinality(PreferredOnes(nodes)) \in Nat
  <1>1. Syncing(nodes) \subseteq Nodes /\ PreferredOnes(nodes) \subseteq Nodes
    BY Zenon DEF Syncing, PreferredOnes
  <1>2. IsFiniteSet(Nodes)
    BY DownloadAssumption, Zenon
  <1>3. IsFiniteSet(Syncing(nodes)) /\ IsFiniteSet(PreferredOnes(nodes))
    BY <1>1, <1>2, FS_Subset, Zenon
  <1> QED  BY <1>3, FS_CardinalityType, Zenon

\* Version: the peer is counted in nPreferredDownload.
LEMMA VersionInv ==
  ASSUME DownloadInv, NEW n \in Nodes, Version(n)
  PROVE  DownloadInv'
  <1> DEFINE s == mapNodeState[n]
             t == [s EXCEPT !.at = "version", !.fPreferredDownload = n \in Preferred]
             r == WithNode(queues, n, t)
  <1>1. /\ QueuesExact(queues) /\ AskedLittle(queues) /\ queues \in Queues
        /\ queues.nodes = mapNodeState /\ queues.inFlight = mapBlocksInFlight
        /\ queues.queued = nQueuedValidatedHeaders
        /\ mapNodeState \in [Nodes -> NodeStates]
    BY QueuesNow, Zenon
  <1>2. /\ t \in NodeStates /\ t.at # "absent" /\ t.vBlocksInFlight = s.vBlocksInFlight
        /\ t.nBlocksInFlight = s.nBlocksInFlight
        /\ t.nBlocksInFlightValidHeaders = s.nBlocksInFlightValidHeaders
        /\ t.nStallingSince = s.nStallingSince
        /\ t.fSyncStarted = s.fSyncStarted
        /\ t.fPreferredDownload = (n \in Preferred) /\ s.fPreferredDownload \in BOOLEAN
    <2>1. s \in NodeStates
      BY <1>1, Zenon
    <2> HIDE DEF s
    <2>2. s.fPreferredDownload \in BOOLEAN
      BY <2>1, Zenon DEF NodeStates
    <2> DEFINE p == n \in Preferred
               u == [s EXCEPT !.at = "version", !.fPreferredDownload = p]
    <2>3. p \in BOOLEAN /\ t = u
      OBVIOUS
    <2> HIDE DEF p, t
    <2>4. /\ u \in NodeStates /\ u.at # "absent" /\ u.vBlocksInFlight = s.vBlocksInFlight
          /\ u.nBlocksInFlight = s.nBlocksInFlight
          /\ u.nBlocksInFlightValidHeaders = s.nBlocksInFlightValidHeaders
          /\ u.nStallingSince = s.nStallingSince
          /\ u.fSyncStarted = s.fSyncStarted /\ u.fPreferredDownload = p
      BY <2>1, <2>3, Zenon DEF NodeStates
    <2> HIDE DEF u
    <2> QED  BY <2>2, <2>3, <2>4, Zenon DEF p
  <1>3. mapNodeState' = [mapNodeState EXCEPT ![n] = t]
    BY <1>1, Zenon DEF Version
  <1> HIDE DEF t
  <1>4. Alike(queues.nodes[n], t)
    BY <1>1, <1>2, Zenon DEF Alike
  <1>5. QueuesExact(r)
    BY <1>1, <1>2, <1>4, AlikeNode, ZenonT(60)
  <1>6. /\ r.nodes = [mapNodeState EXCEPT ![n] = t] /\ r.inFlight = mapBlocksInFlight
        /\ r.queued = nQueuedValidatedHeaders
        /\ r.nodes[n] = t /\ \A m \in Nodes \ {n} : r.nodes[m] = mapNodeState[m]
    <2>2. t \in NodeStates
      BY <1>2, Zenon
    <2>1. Replaced(r, queues, n, t)
      BY <1>1, <2>2, WithNodeFields, Zenon
    <2> HIDE DEF r
    <2> QED  BY <1>1, <2>1, Zenon DEF Replaced
  <1> HIDE DEF r
  <1>7. SetQueues(r)
    BY <1>3, <1>6, Zenon DEF SetQueues, Version
  <1>8. UNCHANGED <<mapBlockIndex, haveData, activeTip, nSyncStarted>>
    BY Zenon DEF Version, indexVars
  <1>9. /\ \A m \in Nodes : r.nodes[m].nBlocksInFlight <= MAX_BLOCKS_IN_TRANSIT_PER_PEER
        /\ \A h \in Headers : h \in haveData' => r.inFlight[h] = NoNode
    BY <1>1, <1>2, <1>6, <1>8 DEF AskedLittle
  <1>10. nSyncStarted' = Cardinality(Syncing(r.nodes))
    <2>1. Syncing(r.nodes) = Syncing(mapNodeState)
      BY <1>2, <1>6, Zenon DEF Syncing
    <2> QED  BY <1>8, <2>1, Zenon DEF DownloadInv
  <1>11. nPreferredDownload' = Cardinality(PreferredOnes(r.nodes))
    <2> DEFINE S == PreferredOnes(mapNodeState)
               T == PreferredOnes(r.nodes)
    <2>1. IsFiniteSet(S)
      BY CountedFinite, Zenon
    <2>2. (s.fPreferredDownload <=> n \in S) /\ ((n \in Preferred) <=> n \in T)
      BY <1>2, <1>6, Zenon DEF PreferredOnes
    <2>3. \A m : m # n => (m \in T <=> m \in S)
      BY <1>6, Zenon DEF PreferredOnes
    <2> HIDE DEF S, T
    <2>4. nPreferredDownload = Cardinality(S) /\ Cardinality(S) \in Nat
      BY CountedFinite, Zenon DEF DownloadInv, S
    <2>5. nPreferredDownload' = nPreferredDownload - AsNumber(s.fPreferredDownload) + AsNumber(n \in Preferred)
      BY Zenon DEF Version
    <2>6. Cardinality(T) = nPreferredDownload - AsNumber(s.fPreferredDownload) + AsNumber(n \in Preferred)
      <3>1. CASE n \in S /\ n \in T
        BY <2>1, <2>2, <2>3, <2>4, <3>1, Recounted DEF AsNumber
      <3>2. CASE n \in S /\ n \notin T
        BY <2>1, <2>2, <2>3, <2>4, <3>2, Recounted DEF AsNumber
      <3>3. CASE n \notin S /\ n \in T
        BY <2>1, <2>2, <2>3, <2>4, <3>3, Recounted DEF AsNumber
      <3>4. CASE n \notin S /\ n \notin T
        BY <2>1, <2>2, <2>3, <2>4, <3>4, Recounted DEF AsNumber
      <3> QED  BY <3>1, <3>2, <3>3, <3>4, Zenon
    <2> QED  BY <2>5, <2>6, Zenon DEF T
  <1> QED  BY <1>5, <1>7, <1>8, <1>9, <1>10, <1>11, QueuesStep, ZenonT(60) DEF DownloadInv

\* FinalizeNode: the blocks asked of the peer are no longer in flight.
LEMMA FinalizeInv ==
  ASSUME DownloadInv, NEW n \in Nodes, FinalizeDownload(n)
  PROVE  DownloadInv'
  <1> DEFINE s == mapNodeState[n]
             r == [nodes |-> [mapNodeState EXCEPT ![n] = CNodeState], inFlight |-> DropInFlight(n),
                   queued |-> nQueuedValidatedHeaders]
  <1>1. /\ QueuesExact(queues) /\ AskedLittle(queues)
        /\ queues.nodes = mapNodeState /\ queues.inFlight = mapBlocksInFlight
        /\ queues.queued = nQueuedValidatedHeaders /\ nQueuedValidatedHeaders \in Int
        /\ mapNodeState \in [Nodes -> NodeStates]
        /\ mapBlocksInFlight \in [Headers -> Nodes \cup {NoNode}]
    BY QueuesNow, Zenon
  <1>2. /\ CNodeState \in NodeStates /\ CNodeState.vBlocksInFlight = <<>> /\ CNodeState.nBlocksInFlight = 0
        /\ CNodeState.fSyncStarted = FALSE /\ CNodeState.fPreferredDownload = FALSE
        /\ ValidAsked(CNodeState) = {} /\ StateExact(CNodeState)
    BY Built, Zenon
  <1>3. DropInFlight(n) \in [Headers -> Nodes \cup {NoNode}]
    BY <1>1, Zenon DEF DropInFlight
  <1>4. \A h \in Headers : /\ (\E i \in DOMAIN s.vBlocksInFlight : s.vBlocksInFlight[i].hash = h) =>
                               DropInFlight(n)[h] = NoNode
                           /\ (~\E i \in DOMAIN s.vBlocksInFlight : s.vBlocksInFlight[i].hash = h) =>
                               DropInFlight(n)[h] = mapBlocksInFlight[h]
    BY Zenon DEF DropInFlight
  <1>5. /\ r \in Queues /\ r.inFlight = DropInFlight(n) /\ r.queued = nQueuedValidatedHeaders
        /\ r.nodes = [mapNodeState EXCEPT ![n] = CNodeState]
        /\ r.nodes[n] = CNodeState /\ \A m \in Nodes \ {n} : r.nodes[m] = mapNodeState[m]
    BY <1>1, <1>2, <1>3, Zenon DEF Queues
  <1> HIDE DEF r
  <1>6. SetQueues(r)
    BY <1>5, Zenon DEF SetQueues, FinalizeDownload
  <1>7. \A m \in Nodes : ListExact(mapNodeState[m], mapBlocksInFlight, m) /\ StateExact(mapNodeState[m])
    BY <1>1, Zenon DEF QueuesExact
  <1>8. \A h \in Headers : \A m \in Nodes : DropInFlight(n)[h] = m <=> m # n /\ mapBlocksInFlight[h] = m
    <2>1. SUFFICES ASSUME NEW h \in Headers, NEW m \in Nodes
                   PROVE  DropInFlight(n)[h] = m <=> m # n /\ mapBlocksInFlight[h] = m
      BY Zenon
    <2>2. NoNode # m
      BY DownloadAssumption, Zenon
    <2>3. CASE \E i \in DOMAIN s.vBlocksInFlight : s.vBlocksInFlight[i].hash = h
      <3>1. mapBlocksInFlight[h] = n
        BY <1>7, <2>3 DEF ListExact
      <3> QED  BY <1>4, <2>2, <2>3, <3>1, Zenon
    <2>4. CASE ~\E i \in DOMAIN s.vBlocksInFlight : s.vBlocksInFlight[i].hash = h
      <3>1. mapBlocksInFlight[h] # n
        BY <1>7, <2>4, Zenon DEF ListExact
      <3> QED  BY <1>4, <2>4, <3>1, Zenon
    <2> QED  BY <2>3, <2>4, Zenon
  <1>9. ASSUME NEW m \in Nodes
        PROVE  ListExact(r.nodes[m], r.inFlight, m) /\ StateExact(r.nodes[m])
    <2>1. CASE m = n
      BY <1>2, <1>5, <1>8, <2>1 DEF ListExact
    <2>2. CASE m # n
      <3>1. \A i \in DOMAIN mapNodeState[m].vBlocksInFlight : mapNodeState[m].vBlocksInFlight[i].hash \in Headers
        <4>1. mapNodeState[m].vBlocksInFlight \in Seq(QueuedBlock)
          BY <1>1, Zenon DEF NodeStates
        <4>2. \A i \in DOMAIN mapNodeState[m].vBlocksInFlight : mapNodeState[m].vBlocksInFlight[i] \in QueuedBlock
          BY <4>1
        <4> QED  BY <4>2, Zenon DEF QueuedBlock
      <3>2. ListExact(mapNodeState[m], DropInFlight(n), m)
        BY <1>7, <1>8, <2>2, <3>1 DEF ListExact
      <3> QED  BY <1>5, <1>7, <2>2, <3>2, Zenon
    <2> QED  BY <2>1, <2>2, Zenon
  <1>10. IsFiniteSet(AllValidAsked(r.nodes)) /\ r.queued >= Cardinality(AllValidAsked(r.nodes))
    <2>1. \A m \in Nodes : ValidAsked(r.nodes[m]) \subseteq ValidAsked(mapNodeState[m])
      BY <1>2, <1>5, Zenon
    <2>2. AllValidAsked(r.nodes) \subseteq AllValidAsked(mapNodeState)
      BY <2>1, Zenon DEF AllValidAsked
    <2>3. /\ IsFiniteSet(AllValidAsked(mapNodeState))
          /\ nQueuedValidatedHeaders >= Cardinality(AllValidAsked(mapNodeState))
      BY <1>1, Zenon DEF QueuesExact
    <2> DEFINE A == AllValidAsked(mapNodeState)
               B == AllValidAsked(r.nodes)
    <2> HIDE DEF A, B
    <2>4. IsFiniteSet(B) /\ Cardinality(B) <= Cardinality(A)
      BY <2>2, <2>3, FS_Subset, Zenon DEF A, B
    <2>5. Cardinality(A) \in Nat /\ Cardinality(B) \in Nat
      BY <2>3, <2>4, FS_CardinalityType, Zenon DEF A
    <2>6. nQueuedValidatedHeaders >= Cardinality(A)
      BY <2>3, Zenon DEF A
    <2>7. r.queued >= Cardinality(B)
      BY <1>1, <1>5, <2>4, <2>5, <2>6
    <2> QED  BY <2>4, <2>7, Zenon DEF B
  <1>11. QueuesExact(r)
    BY <1>5, <1>9, <1>10, Zenon DEF QueuesExact
  <1>12. UNCHANGED <<mapBlockIndex, haveData, activeTip>>
    BY Zenon DEF FinalizeDownload, indexVars
  <1>13. \A m \in Nodes : r.nodes[m].nBlocksInFlight <= MAX_BLOCKS_IN_TRANSIT_PER_PEER
    BY <1>1, <1>2, <1>5, DownloadAssumption DEF AskedLittle
  <1>14. \A h \in Headers : h \in haveData' => r.inFlight[h] = NoNode
    BY <1>1, <1>4, <1>5, <1>12, Zenon DEF AskedLittle
  <1>15. s.fSyncStarted \in BOOLEAN /\ s.fPreferredDownload \in BOOLEAN
    BY <1>1, Zenon DEF NodeStates
  <1>16. nSyncStarted' = Cardinality(Syncing(r.nodes))
    <2> DEFINE S == Syncing(mapNodeState)
               T == Syncing(r.nodes)
    <2>1. IsFiniteSet(S) /\ n \notin T /\ (s.fSyncStarted <=> n \in S) /\ \A m : m # n => (m \in T <=> m \in S)
      BY <1>2, <1>5, CountedFinite, Zenon DEF Syncing
    <2>2. nSyncStarted = Cardinality(S) /\ Cardinality(S) \in Nat
      BY CountedFinite, Zenon DEF DownloadInv
    <2>3. nSyncStarted' = nSyncStarted - AsNumber(s.fSyncStarted)
      BY Zenon DEF FinalizeDownload
    <2> HIDE DEF S, T
    <2>4. CASE n \in S
      BY <2>1, <2>2, <2>3, <2>4, Recounted, ZenonT(60) DEF AsNumber, T
    <2>5. CASE n \notin S
      BY <2>1, <2>2, <2>3, <2>5, Recounted DEF AsNumber, T
    <2> QED  BY <2>4, <2>5, Zenon
  <1>17. nPreferredDownload' = Cardinality(PreferredOnes(r.nodes))
    <2> DEFINE S == PreferredOnes(mapNodeState)
               T == PreferredOnes(r.nodes)
    <2>1. IsFiniteSet(S) /\ n \notin T /\ (s.fPreferredDownload <=> n \in S) /\ \A m : m # n => (m \in T <=> m \in S)
      BY <1>2, <1>5, CountedFinite, ZenonT(60) DEF PreferredOnes
    <2>2. nPreferredDownload = Cardinality(S) /\ Cardinality(S) \in Nat
      BY CountedFinite, Zenon DEF DownloadInv
    <2>3. nPreferredDownload' = nPreferredDownload - AsNumber(s.fPreferredDownload)
      BY Zenon DEF FinalizeDownload
    <2> HIDE DEF S, T
    <2>4. CASE n \in S
      BY <2>1, <2>2, <2>3, <2>4, Recounted, ZenonT(60) DEF AsNumber, T
    <2>5. CASE n \notin S
      BY <2>1, <2>2, <2>3, <2>5, Recounted DEF AsNumber, T
    <2> QED  BY <2>4, <2>5, Zenon
  <1> QED  BY <1>6, <1>11, <1>12, <1>13, <1>14, <1>16, <1>17, QueuesStep, ZenonT(60) DEF DownloadInv

\* "inv": a block may be asked for before its header is known.
LEMMA InvInv ==
  ASSUME DownloadInv, NEW n \in Nodes, NEW h \in Headers, NEW fRecent, Inv(n, h, fRecent)
  PROVE  DownloadInv' /\ SameAt
  <1> DEFINE t == UpdateBlockAvailability(mapNodeState[n], h, mapBlockIndex)
             q == WithNode(queues, n, t)
             fetch == /\ h \notin mapBlockIndex /\ mapBlocksInFlight[h] = NoNode /\ fRecent
                      /\ mapNodeState[n].nBlocksInFlight < MAX_BLOCKS_IN_TRANSIT_PER_PEER
             u == MarkBlockAsInFlight(q, n, h, FALSE)
             r == IF fetch THEN u ELSE q
  <1>1. /\ QueuesExact(queues) /\ AskedLittle(queues) /\ queues \in Queues
        /\ queues.nodes = mapNodeState /\ queues.inFlight = mapBlocksInFlight
        /\ mapNodeState \in [Nodes -> NodeStates]
    BY QueuesNow, Zenon
  <1>2. mapNodeState[n].at # "absent" /\ UNCHANGED <<mapBlockIndex, haveData, activeTip>> /\ UNCHANGED countVars
    BY Zenon DEF Inv, Silent, indexVars
  <1>3. Noted(queues.nodes[n], t)
    BY <1>1, AvailabilityNoted, Zenon DEF DownloadInv
  <1>4. SetQueues(r)
    <2>1. q = [queues EXCEPT !.nodes[n] = UpdateBlockAvailability(@, h, mapBlockIndex)]
      BY <1>1, Zenon DEF WithNode, Queues
    <2> HIDE DEF q
    <2> QED  BY <2>1, Zenon DEF Inv
  <1> HIDE DEF t
  <1>5. /\ QueuesExact(q) /\ Keeps(queues, q) /\ q.inFlight = mapBlocksInFlight
        /\ \A m \in Nodes : q.nodes[m].nBlocksInFlight = mapNodeState[m].nBlocksInFlight
    BY <1>1, <1>2, <1>3, NotedQueues, ZenonT(60)
  <1> HIDE DEF q
  <1>6. q.nodes[n].at # "absent"
    BY <1>1, <1>2, <1>5, Zenon DEF Keeps
  <1>7. /\ QueuesExact(u) /\ Keeps(q, u)
        /\ u.inFlight = [q.inFlight EXCEPT ![h] = n]
        /\ u.nodes[n].nBlocksInFlight <= q.nodes[n].nBlocksInFlight + 1
        /\ \A m \in Nodes \ {n} : u.nodes[m].nBlocksInFlight <= q.nodes[m].nBlocksInFlight
    BY <1>5, <1>6, InFlightAdded, Zenon
  <1> HIDE DEF u
  <1>8. /\ QueuesExact(r) /\ Keeps(queues, r)
        /\ \A m \in Nodes : r.nodes[m].nBlocksInFlight <= MAX_BLOCKS_IN_TRANSIT_PER_PEER
        /\ \A g \in Headers : g \in haveData => r.inFlight[g] = NoNode
    <2>1. CASE fetch
      <3>1. r = u
        BY <2>1, Zenon
      <3>2. Keeps(queues, u)
        BY <1>5, <1>7, KeepsTrans, Zenon
      <3>3. \A m \in Nodes : q.nodes[m].nBlocksInFlight \in Int /\ u.nodes[m].nBlocksInFlight \in Int
        BY <1>5, <1>7, QueueFields, Zenon
      <3>4. u.nodes[n].nBlocksInFlight <= MAX_BLOCKS_IN_TRANSIT_PER_PEER
        BY <1>5, <1>7, <2>1, <3>3, DownloadAssumption
      <3>5. \A m \in Nodes \ {n} : u.nodes[m].nBlocksInFlight <= MAX_BLOCKS_IN_TRANSIT_PER_PEER
        BY <1>1, <1>5, <1>7, <3>3, DownloadAssumption DEF AskedLittle
      <3>6. \A g \in Headers : g \in haveData => u.inFlight[g] = NoNode
        <4>1. h \notin haveData
          BY <2>1, Zenon DEF DownloadInv
        <4>2. q.inFlight \in [Headers -> Nodes \cup {NoNode}]
          BY <1>5, QueueFields, Zenon
        <4> QED  BY <1>1, <1>5, <1>7, <4>1, <4>2 DEF AskedLittle
      <3> HIDE DEF r
      <3> QED  BY <1>7, <3>1, <3>2, <3>4, <3>5, <3>6, ZenonT(60)
    <2>2. CASE ~fetch
      <3>1. r = q
        BY <2>2, Zenon
      <3> HIDE DEF r
      <3> QED  BY <1>1, <1>5, <3>1, Zenon DEF AskedLittle
    <2> QED  BY <2>1, <2>2, Zenon
  <1> HIDE DEF r
  <1>9. nSyncStarted' = Cardinality(Syncing(r.nodes)) /\ nPreferredDownload' = Cardinality(PreferredOnes(r.nodes))
    BY <1>1, <1>2, <1>8, SameCounts, Zenon DEF Keeps
  <1>10. SameAt
    BY <1>1, <1>4, <1>8, SameAtSet, Zenon
  <1> QED  BY <1>2, <1>4, <1>8, <1>9, <1>10, QueuesStep, ZenonT(60) DEF DownloadInv

\* "headers": the peer is known to have the block.
LEMMA HeadersInv ==
  ASSUME DownloadInv, NEW n \in Nodes, NEW h \in Headers, HeadersMessage(n, h)
  PROVE  DownloadInv' /\ SameAt
  <1> DEFINE t == UpdateBlockAvailability(mapNodeState[n], h, mapBlockIndex')
             q == WithNode(queues, n, t)
  <1>1. /\ QueuesExact(queues) /\ AskedLittle(queues) /\ queues \in Queues
        /\ queues.nodes = mapNodeState /\ queues.inFlight = mapBlocksInFlight
        /\ queues.queued = nQueuedValidatedHeaders /\ mapNodeState \in [Nodes -> NodeStates]
    BY QueuesNow, Zenon
  <1>2. /\ mapNodeState[n].at # "absent" /\ UNCHANGED <<haveData, activeTip>> /\ UNCHANGED countVars
        /\ mapBlockIndex' = mapBlockIndex \cup {h} /\ UNCHANGED <<mapBlocksInFlight, nQueuedValidatedHeaders>>
    BY Zenon DEF HeadersMessage, Silent
  <1>3. mapBlockIndex' \in SUBSET Headers /\ haveData' \subseteq mapBlockIndex'
    BY <1>2, Zenon DEF DownloadInv
  <1>4. Noted(queues.nodes[n], t)
    BY <1>1, <1>3, AvailabilityNoted, Zenon
  <1>5. mapNodeState' = [mapNodeState EXCEPT ![n] = t]
    BY <1>1, Zenon DEF HeadersMessage
  <1> HIDE DEF t
  <1>6. /\ QueuesExact(q) /\ Keeps(queues, q) /\ q.inFlight = mapBlocksInFlight
        /\ \A m \in Nodes : q.nodes[m].nBlocksInFlight = mapNodeState[m].nBlocksInFlight
    BY <1>1, <1>2, <1>4, NotedQueues, ZenonT(60)
  <1>7. Replaced(q, queues, n, t)
    BY <1>1, <1>4, WithNodeFields, Zenon DEF Noted
  <1> HIDE DEF q
  <1>8. SetQueues(q)
    BY <1>1, <1>2, <1>5, <1>7, Zenon DEF SetQueues, Replaced
  <1>9. /\ \A m \in Nodes : q.nodes[m].nBlocksInFlight <= MAX_BLOCKS_IN_TRANSIT_PER_PEER
        /\ \A g \in Headers : g \in haveData' => q.inFlight[g] = NoNode
    BY <1>1, <1>2, <1>6, Zenon DEF AskedLittle
  <1>10. nSyncStarted' = Cardinality(Syncing(q.nodes)) /\ nPreferredDownload' = Cardinality(PreferredOnes(q.nodes))
    BY <1>1, <1>2, <1>6, SameCounts, Zenon DEF Keeps
  <1>11. activeTip' \in Headers
    BY <1>2, Zenon DEF DownloadInv
  <1>12. SameAt
    BY <1>1, <1>6, <1>8, SameAtSet, Zenon
  <1> QED  BY <1>3, <1>6, <1>8, <1>9, <1>10, <1>11, <1>12, QueuesStep, ZenonT(60)

\* "block": the block is no longer in flight when it is stored.
LEMMA BlockInv ==
  ASSUME DownloadInv, NEW n \in Nodes, NEW h \in Headers, NEW checked, NEW fForceProcessing,
         BlockMessage(n, h, checked, fForceProcessing)
  PROVE  DownloadInv' /\ SameAt
  <1> DEFINE r == MarkBlockAsReceived(queues, h)
             ok == checked /\ HeaderOk(h, mapBlockIndex)
             fRequested == mapBlocksInFlight[h] # NoNode \/ fForceProcessing
             process == ok /\ h \notin haveData /\ (fRequested \/ Len(h) > Len(activeTip))
             stored == process /\ h \notin Malformed
  <1>1. /\ QueuesExact(queues) /\ AskedLittle(queues)
        /\ queues.nodes = mapNodeState /\ queues.inFlight = mapBlocksInFlight
        /\ mapBlocksInFlight \in [Headers -> Nodes \cup {NoNode}]
    BY QueuesNow, Zenon
  <1>2. /\ SetQueues(r) /\ UNCHANGED countVars
        /\ mapBlockIndex' = IF ok THEN mapBlockIndex \cup {h} ELSE mapBlockIndex
        /\ haveData' = IF stored THEN haveData \cup {h} ELSE haveData
        /\ activeTip' \in BestTips(haveData')
    BY Zenon DEF BlockMessage
  <1>3. stored => ok
    BY Zenon
  <1> HIDE DEF ok, stored
  <1>4. mapBlockIndex' \in SUBSET Headers /\ haveData' \subseteq mapBlockIndex' /\ haveData' \subseteq haveData \cup {h}
    BY <1>2, <1>3, Zenon DEF DownloadInv
  <1>5. activeTip' \in Headers
    BY <1>2, Zenon DEF BestTips, DownloadInv
  <1>6. /\ QueuesExact(r) /\ Keeps(queues, r)
        /\ r.inFlight = [queues.inFlight EXCEPT ![h] = NoNode]
        /\ \A m \in Nodes : r.nodes[m].nBlocksInFlight <= queues.nodes[m].nBlocksInFlight
    BY <1>1, ReceivedExact, Zenon
  <1> HIDE DEF r
  <1>7. \A m \in Nodes : r.nodes[m].nBlocksInFlight <= MAX_BLOCKS_IN_TRANSIT_PER_PEER
    <2>1. \A m \in Nodes : r.nodes[m].nBlocksInFlight \in Int /\ queues.nodes[m].nBlocksInFlight \in Int
      BY <1>1, <1>6, QueueFields, Zenon
    <2> QED  BY <1>1, <1>6, <2>1, DownloadAssumption DEF AskedLittle
  <1>8. \A g \in Headers : g \in haveData' => r.inFlight[g] = NoNode
    BY <1>1, <1>4, <1>6, Zenon DEF AskedLittle
  <1>9. nSyncStarted' = Cardinality(Syncing(r.nodes)) /\ nPreferredDownload' = Cardinality(PreferredOnes(r.nodes))
    BY <1>1, <1>2, <1>6, SameCounts, Zenon DEF Keeps
  <1>10. SameAt
    BY <1>1, <1>2, <1>6, SameAtSet, Zenon
  <1> QED  BY <1>2, <1>4, <1>5, <1>6, <1>7, <1>8, <1>9, <1>10, QueuesStep, ZenonT(60)

\* SendMessages: the tests, the start of a sync, and the blocks asked for.
LEMMA SendInv ==
  ASSUME DownloadInv, NEW n \in Nodes, NEW fNear, NEW fInitialDownload, SendMessages(n, fNear, fInitialDownload)
  PROVE  DownloadInv' /\ SameAt
  <1> DEFINE s == mapNodeState[n]
             fFetch == s.fPreferredDownload \/ (nPreferredDownload = 0 /\ n \notin Clients)
             start == ~s.fSyncStarted /\ n \notin Clients /\ ((nSyncStarted = 0 /\ fFetch) \/ fNear)
             begun == s.fSyncStarted \/ start
             v == [s EXCEPT !.fSyncStarted = begun]
             t == TestTimeouts(v)
             q == WithNode(queues, n, t)
             r == AskForBlocks(q, n, fFetch, fInitialDownload)
  <1>1. /\ QueuesExact(queues) /\ AskedLittle(queues) /\ queues \in Queues
        /\ queues.nodes = mapNodeState /\ queues.inFlight = mapBlocksInFlight
        /\ mapNodeState \in [Nodes -> NodeStates] /\ nQueuedValidatedHeaders \in Int
    BY QueuesNow, Zenon
  <1>2. /\ s.at # "absent" /\ UNCHANGED <<mapBlockIndex, haveData, activeTip, nPreferredDownload>>
    BY Zenon DEF SendMessages, Silent, indexVars
  <1>3. nSyncStarted' = nSyncStarted + AsNumber(start) /\ SetQueues(r)
    <2>1. SetQueues(AskForBlocks([queues EXCEPT !.nodes[n] = TestTimeouts([s EXCEPT !.fSyncStarted = @ \/ start])],
                                 n, fFetch, fInitialDownload))
      BY Zenon DEF SendMessages
    <2>2. [s EXCEPT !.fSyncStarted = @ \/ start] = v
      BY Zenon
    <2>3. SetQueues(r)
      BY <2>1, <2>2, Zenon DEF WithNode
    <2>4. nSyncStarted' = nSyncStarted + AsNumber(start)
      BY Zenon DEF SendMessages
    <2> QED  BY <2>3, <2>4, Zenon
  <1>4. s \in NodeStates /\ s.fSyncStarted \in BOOLEAN /\ begun \in BOOLEAN /\ start \in BOOLEAN
    BY <1>1, Zenon DEF NodeStates
  <1>5. start => ~s.fSyncStarted
    BY Zenon
  <1>6. begun <=> (s.fSyncStarted \/ start)
    BY Zenon
  <1> HIDE DEF start, begun, fFetch
  <1>7. /\ v \in NodeStates /\ v.vBlocksInFlight = s.vBlocksInFlight
        /\ v.nBlocksInFlight = s.nBlocksInFlight
        /\ v.nBlocksInFlightValidHeaders = s.nBlocksInFlightValidHeaders
        /\ v.at = s.at /\ v.nStallingSince = s.nStallingSince
        /\ v.fSyncStarted = begun /\ v.fPreferredDownload = s.fPreferredDownload
    <2> HIDE DEF s
    <2> QED  BY <1>4, Zenon DEF NodeStates
  <1> HIDE DEF v
  <1>8. /\ t \in NodeStates /\ Alike(v, t) /\ t.at = v.at /\ t.nStallingSince = v.nStallingSince
        /\ t.fSyncStarted = v.fSyncStarted /\ t.fPreferredDownload = v.fPreferredDownload
    BY <1>1, <1>7, TestedAlike, Zenon
  <1> HIDE DEF t
  <1>9. Alike(queues.nodes[n], t) /\ t.nBlocksInFlight = s.nBlocksInFlight
    BY <1>1, <1>7, <1>8, Zenon DEF Alike
  <1>10. QueuesExact(q)
    BY <1>1, <1>2, <1>7, <1>8, <1>9, AlikeNode, ZenonT(60)
  <1>11. Replaced(q, queues, n, t)
    BY <1>1, <1>8, WithNodeFields, Zenon
  <1> HIDE DEF q
  <1>12. /\ q.nodes[n] = t /\ q.inFlight = mapBlocksInFlight
         /\ \A m \in Nodes \ {n} : q.nodes[m] = mapNodeState[m]
    BY <1>1, <1>11, Zenon DEF Replaced
  <1>13. AskedLittle(q) /\ q.nodes[n].at # "absent"
    BY <1>1, <1>2, <1>7, <1>8, <1>9, <1>12, ZenonT(60) DEF AskedLittle
  <1>14. mapBlockIndex \in SUBSET Headers /\ activeTip \in Headers
    BY Zenon DEF DownloadInv
  <1>15. QueuesExact(r) /\ Keeps(q, r) /\ AskedLittle(r)
    BY <1>10, <1>12, <1>13, <1>14, AskExact, ZenonT(60)
  <1> HIDE DEF r
  <1>16. /\ \A m \in Nodes : r.nodes[m].nBlocksInFlight <= MAX_BLOCKS_IN_TRANSIT_PER_PEER
         /\ \A g \in Headers : g \in haveData' => r.inFlight[g] = NoNode
    BY <1>2, <1>15, Zenon DEF AskedLittle
  <1>17. nPreferredDownload' = Cardinality(PreferredOnes(r.nodes))
    <2>1. \A m \in Nodes : r.nodes[m].fPreferredDownload = mapNodeState[m].fPreferredDownload
      BY <1>7, <1>8, <1>12, <1>15, Zenon DEF Keeps
    <2>2. PreferredOnes(r.nodes) = PreferredOnes(mapNodeState)
      BY <2>1, Zenon DEF PreferredOnes
    <2> QED  BY <1>2, <2>2, Zenon DEF DownloadInv
  <1>18. nSyncStarted' = Cardinality(Syncing(r.nodes))
    <2> DEFINE S == Syncing(mapNodeState)
               T == Syncing(r.nodes)
    <2>1. /\ r.nodes[n].fSyncStarted = begun
          /\ \A m \in Nodes \ {n} : r.nodes[m].fSyncStarted = mapNodeState[m].fSyncStarted
      BY <1>7, <1>8, <1>12, <1>15, Zenon DEF Keeps
    <2>2. /\ IsFiniteSet(S) /\ (s.fSyncStarted <=> n \in S) /\ (begun <=> n \in T)
          /\ \A m : m # n => (m \in T <=> m \in S)
      BY <2>1, CountedFinite, Zenon DEF Syncing
    <2>3. nSyncStarted = Cardinality(S) /\ Cardinality(S) \in Nat
      BY CountedFinite, Zenon DEF DownloadInv
    <2> HIDE DEF S, T
    <2>4. CASE start
      BY <1>3, <1>5, <1>6, <2>2, <2>3, <2>4, Recounted, ZenonT(60) DEF AsNumber, T
    <2>5. CASE ~start
      BY <1>3, <1>5, <1>6, <2>2, <2>3, <2>5, Recounted DEF AsNumber, T
    <2> QED  BY <2>4, <2>5, Zenon
  <1>19. haveData' \subseteq mapBlockIndex' /\ mapBlockIndex' \in SUBSET Headers /\ activeTip' \in Headers
    BY <1>2, Zenon DEF DownloadInv
  <1>20. SameAt
    <2>1. \A m \in Nodes : q.nodes[m].at = mapNodeState[m].at
      BY <1>7, <1>8, <1>12, Zenon
    <2> QED  BY <1>3, <1>15, <2>1, SameAtSet, Zenon
  <1> QED  BY <1>3, <1>15, <1>16, <1>17, <1>18, <1>19, <1>20, QueuesStep, ZenonT(60)

\* Time passes: deadlines only.
LEMMA TickInv ==
  ASSUME DownloadInv, Tick
  PROVE  DownloadInv' /\ SameAt
  <1> DEFINE l(n) == [i \in DOMAIN mapNodeState[n].vBlocksInFlight |-> Older(mapNodeState[n].vBlocksInFlight[i])]
             stall(n) == IF mapNodeState[n].nStallingSince = "no" THEN mapNodeState[n].nStallingSince ELSE "expired"
             t(n) == [mapNodeState[n] EXCEPT !.vBlocksInFlight = l(n), !.nStallingSince = stall(n)]
             r == [nodes |-> [n \in Nodes |-> t(n)], inFlight |-> mapBlocksInFlight, queued |-> nQueuedValidatedHeaders]
  <1>1. /\ QueuesExact(queues) /\ AskedLittle(queues) /\ queues \in Queues
        /\ queues.nodes = mapNodeState /\ queues.inFlight = mapBlocksInFlight
        /\ queues.queued = nQueuedValidatedHeaders
        /\ mapNodeState \in [Nodes -> NodeStates] /\ nQueuedValidatedHeaders \in Int
        /\ mapBlocksInFlight \in [Headers -> Nodes \cup {NoNode}]
    BY QueuesNow, Zenon
  <1>2. UNCHANGED <<mapBlockIndex, haveData, activeTip, mapBlocksInFlight, nQueuedValidatedHeaders>> /\ UNCHANGED countVars
    BY Zenon DEF Tick, indexVars
  <1>3. ASSUME NEW e \in QueuedBlock
        PROVE  Older(e) \in QueuedBlock /\ Older(e).hash = e.hash /\ Older(e).fValidatedHeaders = e.fValidatedHeaders
    BY DownloadAssumption DEF QueuedBlock, Older
  <1>4. mapNodeState' = [n \in Nodes |-> t(n)]
    BY Zenon DEF Tick
  <1>5. ASSUME NEW n \in Nodes
        PROVE  /\ t(n) \in NodeStates /\ Alike(mapNodeState[n], t(n))
               /\ t(n).at = mapNodeState[n].at /\ t(n).nBlocksInFlight = mapNodeState[n].nBlocksInFlight
               /\ t(n).fSyncStarted = mapNodeState[n].fSyncStarted
               /\ t(n).fPreferredDownload = mapNodeState[n].fPreferredDownload
               /\ t(n).nStallingSince # "no" => t(n).vBlocksInFlight # <<>>
               /\ t(n).at = "absent" => t(n) = CNodeState
    <2> DEFINE s == mapNodeState[n]
               k == s.vBlocksInFlight
    <2>1. s \in NodeStates /\ k \in Seq(QueuedBlock)
      BY <1>1, Zenon DEF NodeStates
    <2>2. StateExact(s)
      BY <1>1, Zenon DEF QueuesExact
    <2>3. \A i \in DOMAIN k : k[i] \in QueuedBlock
      BY <2>1
    <2>4. /\ l(n) \in Seq(QueuedBlock) /\ Len(l(n)) = Len(k) /\ DOMAIN l(n) = DOMAIN k
          /\ \A i \in DOMAIN k : l(n)[i].hash = k[i].hash /\ l(n)[i].fValidatedHeaders = k[i].fValidatedHeaders
      BY <1>3, <2>1, <2>3
    <2>5. stall(n) \in {"no", "since", "expired"} /\ (stall(n) = "no" <=> s.nStallingSince = "no")
      BY Zenon
    <2> HIDE DEF l, stall
    <2>6. /\ t(n) \in NodeStates /\ t(n).vBlocksInFlight = l(n) /\ t(n).nStallingSince = stall(n)
          /\ t(n).at = s.at /\ t(n).nBlocksInFlight = s.nBlocksInFlight
          /\ t(n).nBlocksInFlightValidHeaders = s.nBlocksInFlightValidHeaders
          /\ t(n).fSyncStarted = s.fSyncStarted
          /\ t(n).fPreferredDownload = s.fPreferredDownload
      <3>1. t(n) = [s EXCEPT !.vBlocksInFlight = l(n), !.nStallingSince = stall(n)]
        BY Zenon
      <3> HIDE DEF s, t
      <3> QED  BY <2>1, <2>4, <2>5, <3>1, Zenon DEF NodeStates
    <2>7. Alike(s, t(n))
      <3> HIDE DEF t
      <3> QED  BY <2>4, <2>6, Zenon DEF Alike
    <2>8. t(n).nStallingSince # "no" => t(n).vBlocksInFlight # <<>>
      <3> HIDE DEF t
      <3> QED  BY <2>1, <2>2, <2>4, <2>5, <2>6 DEF StateExact
    <2>9. ASSUME s.at = "absent"
          PROVE  t(n) = CNodeState
      <3>1. s = CNodeState
        BY <2>2, <2>9, Zenon DEF StateExact
      <3>2. k = <<>> /\ s.nStallingSince = "no"
        BY <3>1 DEF CNodeState
      <3>3. l(n) = <<>> /\ stall(n) = "no"
        BY <2>4, <2>5, <3>2
      <3>4. t(n) = [CNodeState EXCEPT !.vBlocksInFlight = <<>>, !.nStallingSince = "no"]
        BY <3>1, <3>3, Zenon
      <3>5. /\ CNodeState \in NodeStates /\ CNodeState.vBlocksInFlight = <<>> /\ CNodeState.nStallingSince = "no"
        BY <3>1, <3>2, Built, Zenon
      <3>6. [CNodeState EXCEPT !.vBlocksInFlight = <<>>, !.nStallingSince = "no"] = CNodeState
        BY <3>5, Zenon DEF NodeStates
      <3> QED  BY <3>4, <3>6, Zenon
    <2> HIDE DEF t
    <2> QED  BY <2>6, <2>7, <2>8, <2>9, Zenon
  <1> HIDE DEF t
  <1>6. /\ r \in Queues /\ r.nodes = [n \in Nodes |-> t(n)] /\ r.inFlight = mapBlocksInFlight
        /\ r.queued = nQueuedValidatedHeaders /\ \A n \in Nodes : r.nodes[n] = t(n)
    BY <1>1, <1>5, Zenon DEF Queues
  <1> HIDE DEF r
  <1>7. SetQueues(r)
    BY <1>2, <1>4, <1>6, Zenon DEF SetQueues
  <1>8. QueuesExact(r)
    BY <1>1, <1>5, <1>6, AlikeQueues
  <1>9. /\ \A m \in Nodes : r.nodes[m].nBlocksInFlight <= MAX_BLOCKS_IN_TRANSIT_PER_PEER
        /\ \A g \in Headers : g \in haveData' => r.inFlight[g] = NoNode
    BY <1>1, <1>2, <1>5, <1>6 DEF AskedLittle
  <1>10. nSyncStarted' = Cardinality(Syncing(r.nodes)) /\ nPreferredDownload' = Cardinality(PreferredOnes(r.nodes))
    BY <1>2, <1>5, <1>6, SameCounts, Zenon
  <1>11. SameAt
    BY <1>4, <1>5, Zenon DEF SameAt
  <1> QED  BY <1>2, <1>7, <1>8, <1>9, <1>10, <1>11, QueuesStep, ZenonT(60) DEF DownloadInv

-----------------------------------------------------------------------------
(* The records of the peers. *)

\* The pairs of a peer and a place in its list that InFlightExact counts.
LEMMA PairsCounted ==
  ASSUME DownloadInv
  PROVE  nQueuedValidatedHeaders >= Cardinality(UNION {{n} \X InFlightValid(n) : n \in Nodes})
  <1> DEFINE S == AllValidAsked(mapNodeState)
             T == UNION {{n} \X InFlightValid(n) : n \in Nodes}
             list(n) == mapNodeState[n].vBlocksInFlight
             f == [h \in S |-> <<mapBlocksInFlight[h], Iterator(list(mapBlocksInFlight[h]), h)>>]
  <1>1. /\ QueuesExact(queues) /\ queues.nodes = mapNodeState /\ queues.inFlight = mapBlocksInFlight
        /\ queues.queued = nQueuedValidatedHeaders /\ mapNodeState \in [Nodes -> NodeStates]
    BY QueuesNow, Zenon
  <1>2. \A n \in Nodes : ListExact(mapNodeState[n], mapBlocksInFlight, n)
    BY <1>1, Zenon DEF QueuesExact
  <1>3. IsFiniteSet(S) /\ nQueuedValidatedHeaders >= Cardinality(S)
    BY <1>1, Zenon DEF QueuesExact
  <1>4. \A n \in Nodes : \A i \in DOMAIN list(n) : list(n)[i].hash \in Headers
    <2>1. \A n \in Nodes : list(n) \in Seq(QueuedBlock)
      BY <1>1, Zenon DEF NodeStates
    <2>2. \A n \in Nodes : \A i \in DOMAIN list(n) : list(n)[i] \in QueuedBlock
      BY <2>1
    <2> QED  BY <2>2, Zenon DEF QueuedBlock
  <1>5. \A p : p \in T <=> \E n \in Nodes : \E i \in DOMAIN list(n) : p = <<n, i>> /\ list(n)[i].fValidatedHeaders
    BY DEF InFlightValid
  <1>6. \A h : h \in S <=> \E n \in Nodes : \E i \in DOMAIN list(n) : h \in Headers /\ list(n)[i].hash = h /\ list(n)[i].fValidatedHeaders
    BY DEF AllValidAsked, ValidAsked
  <1>7. ASSUME NEW n \in Nodes, NEW i \in DOMAIN list(n), NEW h, list(n)[i].hash = h
        PROVE  mapBlocksInFlight[h] = n /\ Iterator(list(n), h) = i
    <2>1. mapBlocksInFlight[h] = n /\ \A j \in DOMAIN list(n) : list(n)[j].hash = h => j = i
      BY <1>2, <1>7, Zenon DEF ListExact
    <2>2. \E j \in DOMAIN list(n) : list(n)[j].hash = h
      BY <1>7, Zenon
    <2>3. Iterator(list(n), h) \in DOMAIN list(n) /\ list(n)[Iterator(list(n), h)].hash = h
      BY <2>2, Zenon DEF Iterator
    <2> QED  BY <2>1, <2>3, Zenon
  <1> HIDE DEF S, T
  <1>8. ASSUME NEW h \in S
        PROVE  \E n \in Nodes : \E i \in DOMAIN list(n) :
                  list(n)[i].hash = h /\ list(n)[i].fValidatedHeaders /\ f[h] = <<n, i>>
    <2>1. PICK n \in Nodes : \E i \in DOMAIN list(n) : list(n)[i].hash = h /\ list(n)[i].fValidatedHeaders
      BY <1>6, Zenon
    <2>2. PICK i \in DOMAIN list(n) : list(n)[i].hash = h /\ list(n)[i].fValidatedHeaders
      BY <2>1, Zenon
    <2>3. mapBlocksInFlight[h] = n /\ Iterator(list(n), h) = i
      BY <1>7, <2>2
    <2>4. f[h] = <<n, i>>
      BY <2>3, Zenon
    <2> QED  BY <2>2, <2>4, Zenon
  <1>9. f \in [S -> T]
    <2>1. \A h \in S : f[h] \in T
      <3> HIDE DEF f, list
      <3> QED  BY <1>5, <1>8, Zenon
    <2> QED  BY <2>1, Zenon
  <1>10. ASSUME NEW x \in S, NEW y \in S, f[x] = f[y]
         PROVE  x = y
    <2> HIDE DEF f, list
    <2>1. PICK n \in Nodes : \E i \in DOMAIN list(n) : list(n)[i].hash = x /\ f[x] = <<n, i>>
      BY <1>8, Zenon
    <2>2. PICK i \in DOMAIN list(n) : list(n)[i].hash = x /\ f[x] = <<n, i>>
      BY <2>1, Zenon
    <2>3. PICK m \in Nodes : \E j \in DOMAIN list(m) : list(m)[j].hash = y /\ f[y] = <<m, j>>
      BY <1>8, Zenon
    <2>4. PICK j \in DOMAIN list(m) : list(m)[j].hash = y /\ f[y] = <<m, j>>
      BY <2>3, Zenon
    <2>5. <<n, i>> = <<m, j>>
      BY <1>10, <2>2, <2>4, ZenonT(60)
    <2>6. n = m /\ i = j
      BY <2>5, Zenon
    <2> QED  BY <2>2, <2>4, <2>6, ZenonT(60)
  <1>11. ASSUME NEW t \in T
         PROVE  \E x \in S : f[x] = t
    <2>1. PICK n \in Nodes : \E i \in DOMAIN list(n) : t = <<n, i>> /\ list(n)[i].fValidatedHeaders
      BY <1>5, Zenon
    <2>2. PICK i \in DOMAIN list(n) : t = <<n, i>> /\ list(n)[i].fValidatedHeaders
      BY <2>1, Zenon
    <2> DEFINE h == list(n)[i].hash
    <2>3. h \in S
      BY <1>4, <1>6, <2>2, Zenon
    <2>4. mapBlocksInFlight[h] = n /\ Iterator(list(n), h) = i
      BY <1>7, ZenonT(60)
    <2>5. f[h] = <<n, i>>
      BY <2>3, <2>4, Zenon
    <2> QED  BY <2>2, <2>3, <2>5, Zenon
  <1> HIDE DEF f
  <1>12. Cardinality(T) = Cardinality(S)
    BY <1>3, <1>9, <1>10, <1>11, SameCardinality, Zenon
  <1> QED  BY <1>3, <1>12, Zenon DEF T

\* What InFlightExact says of one peer.
PeerFits(n, s, hashes) ==
    /\ hashes = {h \in Headers : mapBlocksInFlight[h] = n}
    /\ Cardinality(hashes) = Len(s.vBlocksInFlight)
    /\ s.nBlocksInFlight = Len(s.vBlocksInFlight)
    /\ s.nBlocksInFlightValidHeaders = Cardinality(InFlightValid(n))
    /\ s.nBlocksInFlight <= MAX_BLOCKS_IN_TRANSIT_PER_PEER
    /\ s.at = "absent" => s = CNodeState
    /\ s.nStallingSince # "no" => s.vBlocksInFlight # <<>>
    /\ hashes \cap haveData = {}

LEMMA PeerExact ==
  ASSUME DownloadInv, NEW n \in Nodes, NEW s, s = mapNodeState[n],
         NEW hashes, hashes = {s.vBlocksInFlight[i].hash : i \in DOMAIN s.vBlocksInFlight}
  PROVE  PeerFits(n, s, hashes)
  <1> DEFINE l == s.vBlocksInFlight
  <1>1. /\ QueuesExact(queues) /\ AskedLittle(queues)
        /\ queues.nodes = mapNodeState /\ queues.inFlight = mapBlocksInFlight
        /\ mapNodeState \in [Nodes -> NodeStates]
    BY QueuesNow, Zenon
  <1>2. ListExact(s, mapBlocksInFlight, n) /\ StateExact(s)
    BY <1>1, Zenon DEF QueuesExact
  <1>3. l \in Seq(QueuedBlock)
    BY <1>1, Zenon DEF NodeStates
  <1>4. Len(l) \in Nat /\ DOMAIN l = 1..Len(l) /\ \A i \in DOMAIN l : l[i] \in QueuedBlock
    BY <1>3
  <1>5. \A i \in DOMAIN l : l[i].hash \in Headers /\ l[i].fValidatedHeaders \in BOOLEAN
    BY <1>4, Zenon DEF QueuedBlock
  <1>6. hashes = {h \in Headers : mapBlocksInFlight[h] = n}
    BY <1>2, <1>5 DEF ListExact
  <1>7. IsFiniteSet(1..Len(l)) /\ Cardinality(1..Len(l)) = Len(l)
    <2> DEFINE k == Len(l)
    <2>1. k \in Int /\ 1 \in Int /\ k >= 0
      BY <1>4
    <2> HIDE DEF k
    <2>2. IsFiniteSet(1..k) /\ Cardinality(1..k) = IF 1 > k THEN 0 ELSE k - 1 + 1
      BY <2>1, FS_Interval, Zenon
    <2>3. IsFiniteSet(1..k) /\ Cardinality(1..k) = k
      BY <2>1, <2>2
    <2> QED  BY <2>3, Zenon DEF k
  <1>8. Cardinality(hashes) = Len(l)
    <2> DEFINE f == [i \in 1..Len(l) |-> l[i].hash]
    <2>1. f \in [1..Len(l) -> hashes] /\ \A h \in hashes : \E i \in 1..Len(l) : f[i] = h
      BY <1>4, Zenon
    <2>2. \A i, j \in 1..Len(l) : f[i] = f[j] => i = j
      BY <1>2, <1>4, Zenon DEF ListExact
    <2> HIDE DEF f, l
    <2>3. Cardinality(hashes) = Cardinality(1..Len(l))
      BY <1>7, <2>1, <2>2, SameCardinality, ZenonT(60)
    <2> QED  BY <1>7, <2>3, Zenon
  <1>9. Cardinality(InFlightValid(n)) = Cardinality(ValidAsked(s))
    <2> DEFINE S == InFlightValid(n)
               T == ValidAsked(s)
               f == [i \in S |-> l[i].hash]
    <2>1. S = {i \in DOMAIN l : l[i].fValidatedHeaders}
      BY Zenon DEF InFlightValid
    <2>2. IsFiniteSet(S)
      <3>1. S \subseteq 1..Len(l)
        BY <1>4, <2>1, Zenon
      <3> HIDE DEF S
      <3> QED  BY <1>7, <3>1, FS_Subset, Zenon
    <2> HIDE DEF S
    <2>3. f \in [S -> T] /\ \A h \in T : \E i \in S : f[i] = h
      BY <1>5, <2>1, Zenon DEF ValidAsked
    <2>4. \A i, j \in S : f[i] = f[j] => i = j
      BY <1>2, <2>1, Zenon DEF ListExact
    <2> HIDE DEF f, T
    <2>5. Cardinality(T) = Cardinality(S)
      BY <2>2, <2>3, <2>4, SameCardinality, Zenon
    <2> QED  BY <2>5, Zenon DEF S, T
  <1>10. hashes \cap haveData = {}
    BY <1>1, <1>6, DownloadAssumption, Zenon DEF AskedLittle
  <1>11. s.nBlocksInFlight <= MAX_BLOCKS_IN_TRANSIT_PER_PEER
    BY <1>1, Zenon DEF AskedLittle
  <1>12. /\ s.nBlocksInFlight = Len(l) /\ s.nBlocksInFlightValidHeaders = Cardinality(ValidAsked(s))
         /\ s.at = "absent" => s = CNodeState
         /\ s.nStallingSince # "no" => s.vBlocksInFlight # <<>>
    BY <1>2, Zenon DEF StateExact
  <1> QED  BY <1>6, <1>8, <1>9, <1>10, <1>11, <1>12, Zenon DEF PeerFits

LEMMA AllInFlightExact == DownloadInv => InFlightExact
  <1> SUFFICES ASSUME DownloadInv
               PROVE  InFlightExact
    BY Zenon
  <1>1. nQueuedValidatedHeaders >= Cardinality(UNION {{n} \X InFlightValid(n) : n \in Nodes})
    BY PairsCounted, Zenon
  <1>2. /\ nSyncStarted = Cardinality({n \in Nodes : mapNodeState[n].fSyncStarted})
        /\ nPreferredDownload = Cardinality({n \in Nodes : mapNodeState[n].fPreferredDownload})
    BY Zenon DEF DownloadInv, Syncing, PreferredOnes
  <1>3. ASSUME NEW n \in Nodes
        PROVE  LET s == mapNodeState[n]
                   hashes == {s.vBlocksInFlight[i].hash : i \in DOMAIN s.vBlocksInFlight}
               IN  /\ hashes = {h \in Headers : mapBlocksInFlight[h] = n}
                   /\ Cardinality(hashes) = Len(s.vBlocksInFlight)
                   /\ s.nBlocksInFlight = Len(s.vBlocksInFlight)
                   /\ s.nBlocksInFlightValidHeaders = Cardinality(InFlightValid(n))
                   /\ s.nBlocksInFlight <= MAX_BLOCKS_IN_TRANSIT_PER_PEER
                   /\ s.at = "absent" => s = CNodeState
                   /\ s.nStallingSince # "no" => s.vBlocksInFlight # <<>>
                   /\ hashes \cap haveData = {}
    <2> DEFINE s == mapNodeState[n]
               hashes == {s.vBlocksInFlight[i].hash : i \in DOMAIN s.vBlocksInFlight}
    <2>1. s = mapNodeState[n] /\ hashes = {s.vBlocksInFlight[i].hash : i \in DOMAIN s.vBlocksInFlight}
      BY Zenon
    <2> HIDE DEF s, hashes
    <2>2. PeerFits(n, s, hashes)
      BY <2>1, PeerExact, Zenon
    <2> QED  BY <2>2, Zenon DEF PeerFits, s, hashes
  <1> QED  BY <1>1, <1>2, <1>3, Zenon DEF InFlightExact

\* Every orphan came from a peer that is connected.
FromPeers == \A t \in Orphans(maps) : mapNodeState[mapOrphanTransactions[t]].at = "version"

\* It still did when there are no new orphans and no peer left.
LEMMA FewerOrphans ==
  ASSUME FromPeers, SameAt, mapOrphanTransactions \in [OrphanTxids -> Nodes \cup {NoPeer}],
         \A t \in OrphanTxids : mapOrphanTransactions'[t] \in {mapOrphanTransactions[t], NoPeer}
  PROVE  FromPeers'
  <1> SUFFICES ASSUME NEW t \in OrphanTxids, mapOrphanTransactions'[t] # NoPeer
               PROVE  mapNodeState'[mapOrphanTransactions'[t]].at = "version"
    BY Zenon DEF FromPeers, Orphans, maps
  <1>1. mapOrphanTransactions'[t] = mapOrphanTransactions[t] /\ mapOrphanTransactions[t] \in Nodes
    BY Zenon
  <1>2. t \in Orphans(maps)
    BY <1>1, Zenon DEF Orphans, maps
  <1> QED  BY <1>1, <1>2, Zenon DEF FromPeers, SameAt

\* What erasing leaves in mapOrphanTransactions.
LEMMA Erased ==
  ASSUME NEW m, NEW S, NEW e, e = EraseOrphanTx(m, S)
  PROVE  \A t \in OrphanTxids : e.orphans[t] = IF t \in S \cap Orphans(m) THEN NoPeer ELSE m.orphans[t]
  BY Zenon DEF EraseOrphanTx

PeersInv == OrphanInv /\ DownloadInv /\ FromPeers

LEMMA PeersInitInv == PeersInit => PeersInv
  <1> SUFFICES ASSUME PeersInit
               PROVE  PeersInv
    BY Zenon
  <1>1. OrphanInv
    BY OrphanInitInv, Zenon
  <1>2. DownloadInv
    BY DownloadInitInv, Zenon DEF PeersInit
  <1>3. FromPeers
    BY Zenon DEF PeersInit, OrphanInit, FromPeers, Orphans, maps
  <1> QED  BY <1>1, <1>2, <1>3, Zenon DEF PeersInv

\* One step of each kind.
LEMMA PeersStepInv ==
  ASSUME PeersInv, [PeersNext]_peerVars
  PROVE  PeersInv'
  <1>1. OrphanInv /\ DownloadInv /\ FromPeers /\ mapOrphanTransactions \in [OrphanTxids -> Nodes \cup {NoPeer}]
    BY Zenon DEF PeersInv, OrphanInv
  <1>2. OrphanInv'
    BY <1>1, OrphanStepInv, Zenon
  <1>3. ASSUME DownloadStep
        PROVE  DownloadInv' /\ FromPeers'
    <2>1. UNCHANGED mapOrphanTransactions
      BY <1>3, Zenon DEF DownloadStep, orphanVars
    <2>2. \A n \in Nodes : Sends[n] \subseteq Headers
      BY DownloadAssumption, Zenon
    <2>3. DownloadInv' /\ SameAt
      <3>1. ASSUME NEW n \in Nodes, NEW h \in Sends[n]
            PROVE  /\ \A fRecent : Inv(n, h, fRecent) => DownloadInv' /\ SameAt
                   /\ HeadersMessage(n, h) => DownloadInv' /\ SameAt
                   /\ \A checked, fForceProcessing :
                         BlockMessage(n, h, checked, fForceProcessing) => DownloadInv' /\ SameAt
        <4>1. h \in Headers
          BY <2>2, Zenon
        <4> QED  BY <1>1, <4>1, InvInv, HeadersInv, BlockInv, Zenon
      <3>2. ASSUME NEW n \in Nodes, NEW fNear, NEW fInitialDownload, SendMessages(n, fNear, fInitialDownload)
            PROVE  DownloadInv' /\ SameAt
        BY <1>1, <3>2, SendInv, Zenon
      <3>3. Tick => DownloadInv' /\ SameAt
        BY <1>1, TickInv, Zenon
      <3> QED  BY <1>3, <3>1, <3>2, <3>3, ZenonT(60) DEF DownloadStep
    <2>4. FromPeers'
      BY <1>1, <2>1, <2>3, FewerOrphans, Zenon
    <2> QED  BY <2>3, <2>4, Zenon
  <1>4. ASSUME UNCHANGED downloadVars
        PROVE  DownloadInv' /\ SameAt
    <2>1. /\ UNCHANGED <<mapBlockIndex, haveData, activeTip, nSyncStarted, nPreferredDownload, mapNodeState>>
          /\ UNCHANGED queues
      BY <1>4, Zenon DEF downloadVars, indexVars, queueVars, countVars, queues
    <2>2. DownloadInv'
      BY <1>1, <2>1, Zenon DEF DownloadInv, AskedLittle
    <2> QED  BY <2>1, <2>2, Zenon DEF SameAt
  <1>5. ASSUME NEW n \in Nodes, NEW t \in OrphanTxids, ~Silent(n), TxMessage(n, t), UNCHANGED downloadVars
        PROVE  DownloadInv' /\ FromPeers'
    <2>1. ASSUME NEW S, SetMaps(EraseOrphanTx(maps, S))
          PROVE  FromPeers'
      <3>1. \A u \in OrphanTxids : mapOrphanTransactions'[u] \in {mapOrphanTransactions[u], NoPeer}
        BY <2>1, Erased DEF SetMaps, maps
      <3> QED  BY <1>1, <1>4, <1>5, <3>1, FewerOrphans, ZenonT(60)
    <2>2. ASSUME NEW m \in Limited(AddOrphanTx(maps, t, n)), SetMaps(m)
          PROVE  FromPeers'
      <3> DEFINE a == AddOrphanTx(maps, t, n)
      <3>1. \A u \in OrphanTxids : a.orphans[u] = mapOrphanTransactions[u] \/ (u = t /\ a.orphans[u] = n)
        BY <1>1, Zenon DEF AddOrphanTx, maps
      <3> HIDE DEF a
      <3>2. PICK S : m = EraseOrphanTx(a, S)
        BY <2>2, Zenon DEF Limited, a
      <3>3. \A u \in OrphanTxids : mapOrphanTransactions'[u] \in {a.orphans[u], NoPeer}
        BY <2>2, <3>2, Erased DEF SetMaps
      <3>4. \A u \in OrphanTxids : \/ mapOrphanTransactions'[u] \in {mapOrphanTransactions[u], NoPeer}
                                   \/ mapOrphanTransactions'[u] = n
        BY <3>1, <3>3, Zenon
      <3>5. mapNodeState'[n].at = "version"
        BY <1>4, <1>5, Zenon DEF SameAt, Silent
      <3>6. SUFFICES ASSUME NEW u \in OrphanTxids, mapOrphanTransactions'[u] # NoPeer
                     PROVE  mapNodeState'[mapOrphanTransactions'[u]].at = "version"
        BY Zenon DEF FromPeers, Orphans, maps
      <3>7. CASE mapOrphanTransactions'[u] = n
        BY <3>5, <3>7, Zenon
      <3>8. CASE mapOrphanTransactions'[u] = mapOrphanTransactions[u]
        <4>1. u \in Orphans(maps) /\ mapOrphanTransactions[u] \in Nodes
          BY <1>1, <3>6, <3>8, Zenon DEF Orphans, maps
        <4> QED  BY <1>1, <1>4, <1>5, <3>8, <4>1, ZenonT(60) DEF FromPeers, SameAt
      <3> QED  BY <3>4, <3>6, <3>7, <3>8, ZenonT(60)
    <2>3. ASSUME UNCHANGED mapOrphanTransactions
          PROVE  FromPeers'
      BY <1>1, <1>4, <1>5, <2>3, FewerOrphans, ZenonT(60)
    <2>4. FromPeers'
      BY <1>5, <2>1, <2>2, <2>3, ZenonT(60) DEF TxMessage
    <2> QED  BY <1>4, <1>5, <2>4, Zenon
  <1>6. ASSUME NEW t, NEW fMined, AcceptedElsewhere(t, fMined), UNCHANGED downloadVars
        PROVE  DownloadInv' /\ FromPeers'
    <2>1. UNCHANGED mapOrphanTransactions
      BY <1>6, Zenon DEF AcceptedElsewhere
    <2> QED  BY <1>1, <1>4, <1>6, <2>1, FewerOrphans, ZenonT(60)
  <1>7. ASSUME NEW n \in Nodes, InitializeNode(n) \/ Version(n), UNCHANGED orphanVars
        PROVE  DownloadInv' /\ FromPeers'
    <2>1. DownloadInv'
      BY <1>1, <1>7, InitializeInv, VersionInv, Zenon
    <2>2. /\ mapNodeState \in [Nodes -> NodeStates] /\ mapNodeState[n].at # "version"
          /\ \A m \in Nodes \ {n} : mapNodeState'[m] = mapNodeState[m]
      BY <1>1, <1>7, QueuesNow, Zenon DEF InitializeNode, Version
    <2>3. UNCHANGED mapOrphanTransactions
      BY <1>7, Zenon DEF orphanVars
    <2>4. ASSUME NEW t \in OrphanTxids, mapOrphanTransactions[t] # NoPeer
          PROVE  mapNodeState'[mapOrphanTransactions[t]].at = "version"
      <3>1. mapOrphanTransactions[t] \in Nodes /\ mapNodeState[mapOrphanTransactions[t]].at = "version"
        BY <1>1, <2>4, Zenon DEF FromPeers, Orphans, maps
      <3> QED  BY <2>2, <3>1, Zenon
    <2>5. FromPeers'
      BY <2>3, <2>4, Zenon DEF FromPeers, Orphans, maps
    <2> QED  BY <2>1, <2>5, Zenon
  <1>8. ASSUME NEW n \in Nodes, FinalizeNode(n)
        PROVE  DownloadInv' /\ FromPeers'
    <2>1. DownloadInv'
      BY <1>1, <1>8, FinalizeInv, Zenon DEF FinalizeNode
    <2>2. mapNodeState \in [Nodes -> NodeStates]
      BY <1>1, QueuesNow, Zenon
    <2>3. \A m \in Nodes \ {n} : mapNodeState'[m] = mapNodeState[m]
      BY <1>8, <2>2, Zenon DEF FinalizeNode, FinalizeDownload
    <2> DEFINE S == {t \in OrphanTxids : mapOrphanTransactions[t] = n}
    <2>4. SetMaps(EraseOrphanTx(maps, S))
      BY <1>8, Zenon DEF FinalizeNode, EraseOrphansFor
    <2>5. \A t \in OrphanTxids : mapOrphanTransactions'[t] = IF t \in S \cap Orphans(maps) THEN NoPeer ELSE mapOrphanTransactions[t]
      BY <2>4, Erased DEF SetMaps, maps
    <2>6. ASSUME NEW t \in OrphanTxids, mapOrphanTransactions'[t] # NoPeer
          PROVE  mapNodeState'[mapOrphanTransactions'[t]].at = "version"
      <3>1. t \in Orphans(maps) /\ mapOrphanTransactions'[t] = mapOrphanTransactions[t] /\ mapOrphanTransactions[t] # n
        BY <2>5, <2>6, PeersAssumption DEF Orphans, maps
      <3>2. mapOrphanTransactions[t] \in Nodes /\ mapNodeState[mapOrphanTransactions[t]].at = "version"
        BY <1>1, <3>1, Zenon DEF FromPeers, Orphans, maps
      <3> QED  BY <2>3, <3>1, <3>2, Zenon
    <2>7. FromPeers'
      BY <2>6, Zenon DEF FromPeers, Orphans, maps
    <2> QED  BY <2>1, <2>7, Zenon
  <1>9. ASSUME UNCHANGED peerVars
        PROVE  DownloadInv' /\ FromPeers'
    <2>1. UNCHANGED downloadVars /\ UNCHANGED mapOrphanTransactions
      BY <1>9, Zenon DEF peerVars, orphanVars
    <2> QED  BY <1>1, <1>4, <2>1, FewerOrphans, Zenon
  <1>10. CASE DownloadStep
    BY <1>2, <1>3, <1>10, ZenonT(60) DEF PeersInv
  <1>11. CASE OrphanStep
    BY <1>2, <1>5, <1>6, <1>11, ZenonT(60) DEF PeersInv, OrphanStep
  <1>12. CASE ConnectionStep
    BY <1>2, <1>7, <1>8, <1>12, Zenon DEF PeersInv, ConnectionStep
  <1>13. CASE UNCHANGED peerVars
    BY <1>2, <1>9, <1>13, Zenon DEF PeersInv
  <1> QED  BY <1>10, <1>11, <1>12, <1>13, ZenonT(60) DEF PeersNext

\* What is kept for a peer goes with it and is exact: mapBlocksInFlight, the lists of
\* MarkBlockAsInFlight and MarkBlockAsReceived and the counters agree after every message,
\* SendMessages, time-out and FinalizeNode, for any peers and any tree of blocks.
THEOREM RecordsAlwaysExact == PeersSpec => []PeerRecords
  <1>1. PeersInv => PeerRecords
    BY AllInFlightExact, Zenon DEF PeersInv, PeerRecords, FromPeers
  <1> QED  BY <1>1, PeersInitInv, PeersStepInv, PTL DEF PeersSpec

=============================================================================
