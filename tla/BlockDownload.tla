--------------------------- MODULE BlockDownload ---------------------------
(* Which block is asked of which peer: CNodeState, mapBlocksInFlight and their counters,     *)
(* changed by the "inv", "headers" and "block" handlers, by SendMessages and by FinalizeNode,*)
(* all under cs_main.  A block is written as the path of choices that leads to it from the   *)
(* genesis block <<>>: its height is the length, its ancestors are the prefixes.             *)
EXTENDS Lists

CONSTANTS Nodes, NoNode,
          Headers,               \* the blocks that exist, with all their ancestors
          Malformed,             \* those that fail ContextualCheckBlock
          Sends,                 \* for each peer, the blocks that its messages are about
          Preferred, Clients,    \* peers that UpdatePreferredDownload prefers; with fClient
          MAX_BLOCKS_IN_TRANSIT_PER_PEER, BLOCK_DOWNLOAD_WINDOW,
          TickLength,            \* time between two looks at the clock, in half block intervals
          MaxConnections         \* bound on the connections of one behaviour

\* The parent of a block.
pprev(h) == SubSeq(h, 1, Len(h) - 1)

ASSUME DownloadAssumption ==
    /\ NoNode \notin Nodes /\ IsFiniteSet(Nodes)
    /\ <<>> \in Headers /\ Headers \subseteq Seq(UNION {Range(h) : h \in Headers})
    /\ \A h \in Headers : h = <<>> \/ pprev(h) \in Headers
    /\ Sends \in [Nodes -> SUBSET Headers]
    /\ MAX_BLOCKS_IN_TRANSIT_PER_PEER \in Nat \ {0} /\ BLOCK_DOWNLOAD_WINDOW \in Nat \ {0}
    /\ TickLength \in Nat \ {0} /\ MaxConnections \in Nat

VARIABLES
    mapBlockIndex,             \* blocks whose header is known
    haveData,                  \* those with BLOCK_HAVE_DATA
    failedBlocks,              \* those with BLOCK_FAILED_VALID
    activeTip,                 \* chainActive.Tip()
    mapNodeState,              \* CNodeState, and of CNode what decides about it
    mapBlocksInFlight,         \* for each block, the peer it was asked of
    nQueuedValidatedHeaders, nSyncStarted, nPreferredDownload,
    connections

indexVars == <<mapBlockIndex, haveData, failedBlocks, activeTip>>
queueVars == <<mapNodeState, mapBlocksInFlight, nQueuedValidatedHeaders>>
countVars == <<nSyncStarted, nPreferredDownload>>
downloadVars == <<indexVars, queueVars, countVars, connections>>

None == <<"none">>    \* a null pointer, or a null hash

\* A CNodeState as it is built.  at is "absent" before InitializeNode and after FinalizeNode.
\* An entry of vBlocksInFlight has its deadline as the time left; of nStallingSince only
\* matters whether it is set, and set longer ago than BLOCK_STALLING_TIMEOUT.
CNodeState == [at |-> "absent", fDisconnect |-> FALSE,
               pindexBestKnownBlock |-> None, hashLastUnknownBlock |-> None, pindexLastCommonBlock |-> None,
               fSyncStarted |-> FALSE, nStallingSince |-> "no", vBlocksInFlight |-> <<>>,
               nBlocksInFlight |-> 0, nBlocksInFlightValidHeaders |-> 0, fPreferredDownload |-> FALSE]

DownloadInit ==
    /\ mapBlockIndex = {<<>>} /\ haveData = {<<>>} /\ failedBlocks = {} /\ activeTip = <<>>
    /\ mapNodeState = [n \in Nodes |-> CNodeState]
    /\ mapBlocksInFlight = [h \in Headers |-> NoNode]
    /\ nQueuedValidatedHeaders = 0 /\ nSyncStarted = 0 /\ nPreferredDownload = 0
    /\ connections = 0

AsNumber(b) == IF b THEN 1 ELSE 0

-----------------------------------------------------------------------------
(* The queues, as functions from their values q before a call to those after it. *)

queues == [nodes |-> mapNodeState, inFlight |-> mapBlocksInFlight, queued |-> nQueuedValidatedHeaders]

SetQueues(q) == /\ mapNodeState' = q.nodes
                /\ mapBlocksInFlight' = q.inFlight
                /\ nQueuedValidatedHeaders' = q.queued

\* The iterator that mapBlocksInFlight keeps into the list of the peer.
Iterator(list, h) == CHOOSE i \in DOMAIN list : list[i].hash = h

EraseAt(list, i) == SubSeq(list, 1, i - 1) \o SubSeq(list, i + 1, Len(list))

MarkBlockAsReceived(q, h) ==
    IF q.inFlight[h] = NoNode THEN q
    ELSE LET n == q.inFlight[h]
             i == Iterator(q.nodes[n].vBlocksInFlight, h)
             valid == AsNumber(q.nodes[n].vBlocksInFlight[i].fValidatedHeaders)
         IN  [nodes |-> [q.nodes EXCEPT ![n].vBlocksInFlight = EraseAt(@, i),
                                        ![n].nBlocksInFlight = @ - 1,
                                        ![n].nBlocksInFlightValidHeaders = @ - valid,
                                        ![n].nStallingSince = "no"],
              inFlight |-> [q.inFlight EXCEPT ![h] = NoNode],
              queued |-> q.queued - valid]

\* GetBlockTimeout, from now on, in half block intervals.
GetBlockTimeout(nValidatedQueuedBefore) == 4 + nValidatedQueuedBefore

MarkBlockAsInFlight(q, n, h, fValidated) ==
    LET r == MarkBlockAsReceived(q, h)
        entry == [hash |-> h, fValidatedHeaders |-> fValidated, left |-> GetBlockTimeout(r.queued)]
        valid == AsNumber(fValidated)
    IN  [nodes |-> [r.nodes EXCEPT ![n].vBlocksInFlight = Append(@, entry),
                                   ![n].nBlocksInFlight = @ + 1,
                                   ![n].nBlocksInFlightValidHeaders = @ + valid],
         inFlight |-> [r.inFlight EXCEPT ![h] = n],
         queued |-> r.queued + valid]

-----------------------------------------------------------------------------
(* What a peer is known to have. *)

\* A block no worse than the best known one replaces it.
NoteBlock(s, h) ==
    IF s.pindexBestKnownBlock = None \/ Len(h) >= Len(s.pindexBestKnownBlock)
    THEN [s EXCEPT !.pindexBestKnownBlock = h] ELSE s

ProcessBlockAvailability(s, index) ==
    IF s.hashLastUnknownBlock \in index
    THEN [NoteBlock(s, s.hashLastUnknownBlock) EXCEPT !.hashLastUnknownBlock = None] ELSE s

UpdateBlockAvailability(s, h, index) ==
    LET p == ProcessBlockAvailability(s, index)
    IN  IF h \in index THEN NoteBlock(p, h) ELSE [p EXCEPT !.hashLastUnknownBlock = h]

\* Not connected, or its messages are no longer read.
Silent(n) == mapNodeState[n].at # "version" \/ mapNodeState[n].fDisconnect

-----------------------------------------------------------------------------
(* Connections. *)

InitializeNode(n) ==
    /\ mapNodeState[n].at = "absent" /\ connections < MaxConnections
    /\ connections' = connections + 1
    /\ mapNodeState' = [mapNodeState EXCEPT ![n].at = "connected"]
    /\ UNCHANGED <<indexVars, mapBlocksInFlight, nQueuedValidatedHeaders, countVars>>

\* The "version" message: UpdatePreferredDownload.
Version(n) ==
    /\ mapNodeState[n].at = "connected"
    /\ mapNodeState' = [mapNodeState EXCEPT ![n].at = "version", ![n].fPreferredDownload = n \in Preferred]
    /\ nPreferredDownload' = nPreferredDownload - AsNumber(mapNodeState[n].fPreferredDownload)
                                                + AsNumber(n \in Preferred)
    /\ UNCHANGED <<indexVars, mapBlocksInFlight, nQueuedValidatedHeaders, nSyncStarted, connections>>

\* Mutant: the blocks asked of the peer stay in mapBlocksInFlight.
DropInFlightNot(n) == mapBlocksInFlight

\* The loop of FinalizeNode over vBlocksInFlight.
DropInFlight(n) ==
    LET list == mapNodeState[n].vBlocksInFlight
    IN  [h \in Headers |-> IF \E i \in DOMAIN list : list[i].hash = h THEN NoNode ELSE mapBlocksInFlight[h]]

\* FinalizeNode, but for EraseOrphansFor.
FinalizeDownload(n) ==
    /\ mapNodeState[n].at # "absent"
    /\ nSyncStarted' = nSyncStarted - AsNumber(mapNodeState[n].fSyncStarted)
    /\ mapBlocksInFlight' = DropInFlight(n)
    /\ nPreferredDownload' = nPreferredDownload - AsNumber(mapNodeState[n].fPreferredDownload)
    /\ mapNodeState' = [mapNodeState EXCEPT ![n] = CNodeState]
    /\ UNCHANGED <<indexVars, nQueuedValidatedHeaders, connections>>

-----------------------------------------------------------------------------
(* Messages. *)

\* "inv" for one block.  An unknown one may be asked for before its header is known, when the
\* tip is recent.
Inv(n, h, fRecent) ==
    /\ ~Silent(n)
    /\ LET q == [queues EXCEPT !.nodes[n] = UpdateBlockAvailability(@, h, mapBlockIndex)]
           fetch == /\ h \notin mapBlockIndex /\ mapBlocksInFlight[h] = NoNode /\ fRecent
                    /\ mapNodeState[n].nBlocksInFlight < MAX_BLOCKS_IN_TRANSIT_PER_PEER
       IN  SetQueues(IF fetch THEN MarkBlockAsInFlight(q, n, h, FALSE) ELSE q)
    /\ UNCHANGED <<indexVars, countVars, connections>>

\* AcceptBlockHeader succeeds for h: it is known and not failed, or its parent is.
HeaderOk(h, index) ==
    IF h \in index THEN h \notin failedBlocks
    ELSE pprev(h) \in index /\ pprev(h) \notin failedBlocks

\* "headers" with the header of h.
HeadersMessage(n, h) ==
    /\ ~Silent(n)
    /\ HeaderOk(h, mapBlockIndex)
    /\ mapBlockIndex' = mapBlockIndex \cup {h}
    /\ mapNodeState' = [mapNodeState EXCEPT ![n] = UpdateBlockAvailability(@, h, mapBlockIndex')]
    /\ UNCHANGED <<haveData, failedBlocks, activeTip, mapBlocksInFlight, nQueuedValidatedHeaders,
                   countVars, connections>>

\* nChainTx is set: the data of the block and of all its ancestors was received.
Linked(h, data) == \A i \in 0..Len(h) : SubSeq(h, 1, i) \in data

\* What ActivateBestChain may choose: the tip, unless there is a chain with more work.
BestTips(data) ==
    LET linked == {h \in Headers : Linked(h, data)}
        best == {h \in linked : \A x \in linked : Len(x) <= Len(h)}
    IN  IF activeTip \in best THEN {activeTip} ELSE best

\* "block": ProcessNewBlock of h, asked for or not.  checked: its body passes CheckBlock;
\* fForceProcessing: the peer is whitelisted and the initial download is over.  Heights stay
\* below MIN_BLOCKS_TO_KEEP.
BlockMessage(n, h, checked, fForceProcessing) ==
    /\ ~Silent(n)
    /\ SetQueues(MarkBlockAsReceived(queues, h))
    /\ LET fRequested == mapBlocksInFlight[h] # NoNode \/ fForceProcessing
           ok == checked /\ HeaderOk(h, mapBlockIndex)
           process == ok /\ h \notin haveData /\ (fRequested \/ Len(h) > Len(activeTip))
           stored == process /\ h \notin Malformed
       IN  /\ mapBlockIndex' = IF ok THEN mapBlockIndex \cup {h} ELSE mapBlockIndex
           /\ failedBlocks' = IF process /\ ~stored THEN failedBlocks \cup {h} ELSE failedBlocks
           /\ haveData' = IF stored THEN haveData \cup {h} ELSE haveData
           /\ activeTip' \in BestTips(haveData')
    /\ UNCHANGED <<countVars, connections>>

-----------------------------------------------------------------------------
(* SendMessages. *)

\* CChain::Contains, of the active chain.
InActiveChain(h) == Len(h) <= Len(activeTip) /\ SubSeq(activeTip, 1, Len(h)) = h

LastCommonAncestor(pa, pb) ==
    SubSeq(pa, 1, Max({i \in 0..Len(pa) : i <= Len(pb) /\ SubSeq(pa, 1, i) = SubSeq(pb, 1, i)}))

\* One block of the walk of FindNextBlocksToDownload, at height i towards the best known block.
\* w holds its variables, and whether it has returned.
WalkBlock(w, i, n, best, count, nWindowEnd) ==
    LET h == SubSeq(best, 1, i)
    IN  CASE w.returned \/ h \in failedBlocks -> [w EXCEPT !.returned = TRUE]
          [] ~w.returned /\ h \notin failedBlocks /\ (h \in haveData \/ InActiveChain(h)) ->
                IF Linked(h, haveData) THEN [w EXCEPT !.common = h] ELSE w
          [] OTHER ->
                IF mapBlocksInFlight[h] # NoNode
                THEN IF w.waitingfor = NoNode THEN [w EXCEPT !.waitingfor = mapBlocksInFlight[h]] ELSE w
                ELSE IF i > nWindowEnd
                THEN [w EXCEPT !.returned = TRUE,
                               !.staller = IF w.vBlocks = <<>> /\ w.waitingfor # n THEN w.waitingfor ELSE @]
                ELSE [w EXCEPT !.vBlocks = Append(@, h), !.returned = Len(w.vBlocks) + 1 = count]

\* FindNextBlocksToDownload for the peer n in state s: the new pindexLastCommonBlock, the
\* blocks to ask for and the peer that stalls the download.
FindNextBlocksToDownload(s, n, count) ==
    LET nothing == [common |-> s.pindexLastCommonBlock, vBlocks |-> <<>>, staller |-> NoNode,
                    waitingfor |-> NoNode, returned |-> FALSE]
        best == s.pindexBestKnownBlock
        guess == IF s.pindexLastCommonBlock # None THEN s.pindexLastCommonBlock
                 ELSE IF Len(best) < Len(activeTip) THEN SubSeq(activeTip, 1, Len(best)) ELSE activeTip
        common == LastCommonAncestor(guess, best)
        nWindowEnd == Len(common) + BLOCK_DOWNLOAD_WINDOW
        nMaxHeight == IF Len(best) < nWindowEnd + 1 THEN Len(best) ELSE nWindowEnd + 1
    IN  IF best = None \/ (best # None /\ Len(best) < Len(activeTip)) THEN nothing
        ELSE InOrder(LAMBDA w, i : WalkBlock(w, i, n, best, count, nWindowEnd),
                     [nothing EXCEPT !.common = common],
                     [k \in 1..(nMaxHeight - Len(common)) |-> Len(common) + k])

\* The stalling and the time-out tests; the deadline of the oldest request may be reduced.
TestTimeouts(s) ==
    LET limit == GetBlockTimeout(nQueuedValidatedHeaders - s.nBlocksInFlightValidHeaders)
        reduced == IF s.vBlocksInFlight = <<>> \/ s.nStallingSince = "expired" THEN s
                   ELSE [s EXCEPT !.vBlocksInFlight[1].left = IF @ > limit THEN limit ELSE @]
    IN  [reduced EXCEPT !.fDisconnect = \/ s.nStallingSince = "expired"
                                        \/ /\ s.vBlocksInFlight # <<>>
                                           /\ reduced.vBlocksInFlight[1].left < 0]

\* The getdata for blocks, after the tests.
AskForBlocks(q, n, fFetch, fInitialDownload) ==
    LET s == ProcessBlockAvailability(q.nodes[n], mapBlockIndex)
        found == FindNextBlocksToDownload(s, n, MAX_BLOCKS_IN_TRANSIT_PER_PEER - s.nBlocksInFlight)
        asked == InOrder(LAMBDA r, h : MarkBlockAsInFlight(r, n, h, TRUE),
                         [q EXCEPT !.nodes[n] = [s EXCEPT !.pindexLastCommonBlock = found.common]],
                         found.vBlocks)
    IN  IF \/ q.nodes[n].fDisconnect \/ n \in Clients
           \/ ~(fFetch \/ ~fInitialDownload)
           \/ q.nodes[n].nBlocksInFlight >= MAX_BLOCKS_IN_TRANSIT_PER_PEER
        THEN q
        ELSE IF asked.nodes[n].nBlocksInFlight = 0 /\ found.staller # NoNode
                /\ asked.nodes[found.staller].nStallingSince = "no"
        THEN [asked EXCEPT !.nodes[found.staller].nStallingSince = "since"]
        ELSE asked

\* fNear: the best header is of the last day.
SendMessages(n, fNear, fInitialDownload) ==
    /\ ~Silent(n)
    /\ LET s == mapNodeState[n]
           fFetch == s.fPreferredDownload \/ (nPreferredDownload = 0 /\ n \notin Clients)
           start == ~s.fSyncStarted /\ n \notin Clients /\ ((nSyncStarted = 0 /\ fFetch) \/ fNear)
           tested == TestTimeouts([s EXCEPT !.fSyncStarted = @ \/ start])
       IN  /\ nSyncStarted' = nSyncStarted + AsNumber(start)
           /\ SetQueues(AskForBlocks([queues EXCEPT !.nodes[n] = tested], n, fFetch, fInitialDownload))
    /\ UNCHANGED <<indexVars, nPreferredDownload, connections>>

\* Time passes.  A deadline that is over stays over; a tick is longer than BLOCK_STALLING_TIMEOUT.
Older(entry) == [entry EXCEPT !.left = IF @ < TickLength THEN -1 ELSE @ - TickLength]

Tick ==
    /\ mapNodeState' = [n \in Nodes |->
          [mapNodeState[n] EXCEPT
              !.vBlocksInFlight = [i \in DOMAIN @ |-> Older(@[i])],
              !.nStallingSince = IF @ = "no" THEN @ ELSE "expired"]]
    /\ UNCHANGED <<indexVars, mapBlocksInFlight, nQueuedValidatedHeaders, countVars, connections>>

-----------------------------------------------------------------------------
(* Properties. *)

InFlightValid(n) == {i \in DOMAIN mapNodeState[n].vBlocksInFlight : mapNodeState[n].vBlocksInFlight[i].fValidatedHeaders}

\* mapBlocksInFlight, the lists of the peers and the counters agree, whatever the order of
\* announcements, requests, arrivals, time-outs and disconnections: a block is in flight from
\* the one peer whose list has it, once, and that peer is connected, so that the iterators and
\* State(...) that MarkBlockAsReceived and the staller test follow are good; no peer is asked
\* for more than the limit, nor for a block that we have; nSyncStarted and nPreferredDownload
\* count the peers they are about; nQueuedValidatedHeaders counts no fewer than are in flight.
InFlightExact ==
    /\ \A n \in Nodes :
          LET s == mapNodeState[n]
              hashes == {s.vBlocksInFlight[i].hash : i \in DOMAIN s.vBlocksInFlight}
          IN  /\ hashes = {h \in Headers : mapBlocksInFlight[h] = n}
              /\ Cardinality(hashes) = Len(s.vBlocksInFlight)
              /\ s.nBlocksInFlight = Len(s.vBlocksInFlight)
              /\ s.nBlocksInFlightValidHeaders = Cardinality(InFlightValid(n))
              /\ s.nBlocksInFlight <= MAX_BLOCKS_IN_TRANSIT_PER_PEER
              /\ s.at = "absent" => s = CNodeState
              /\ s.nStallingSince # "no" => s.vBlocksInFlight # <<>>
              /\ hashes \cap haveData = {}
    /\ nSyncStarted = Cardinality({n \in Nodes : mapNodeState[n].fSyncStarted})
    /\ nPreferredDownload = Cardinality({n \in Nodes : mapNodeState[n].fPreferredDownload})
    /\ nQueuedValidatedHeaders >= Cardinality(UNION {{n} \X InFlightValid(n) : n \in Nodes})

=============================================================================
