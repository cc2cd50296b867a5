------------------------------- MODULE Peers -------------------------------
(* What the node keeps about its peers: blocks in flight and orphan transactions, which      *)
(* FinalizeNode drops together.                                                              *)
EXTENDS BlockDownload, OrphanTxs

ASSUME PeersAssumption == NoPeer \notin Nodes

peerVars == <<downloadVars, orphanVars>>

PeersInit == DownloadInit /\ OrphanInit

FinalizeNode(n) == FinalizeDownload(n) /\ EraseOrphansFor(n) /\ UNCHANGED <<accepted, recentRejects>>

DownloadStep ==
    /\ \/ \E n \in Nodes : \E h \in Sends[n] :
             \/ \E fRecent \in BOOLEAN : Inv(n, h, fRecent)
             \/ HeadersMessage(n, h)
             \/ \E checked, fForceProcessing \in BOOLEAN : BlockMessage(n, h, checked, fForceProcessing)
       \/ \E n \in Nodes : \E fNear, fInitialDownload \in BOOLEAN : SendMessages(n, fNear, fInitialDownload)
       \/ Tick
    /\ UNCHANGED orphanVars

OrphanStep ==
    /\ \/ \E n \in Nodes, t \in OrphanTxids : ~Silent(n) /\ TxMessage(n, t)
       \/ \E t \in OrphanTxids, fMined \in BOOLEAN : AcceptedElsewhere(t, fMined)
    /\ UNCHANGED downloadVars

ConnectionStep ==
    \/ \E n \in Nodes : (InitializeNode(n) \/ Version(n)) /\ UNCHANGED orphanVars
    \/ \E n \in Nodes : FinalizeNode(n)

PeersNext == DownloadStep \/ OrphanStep \/ ConnectionStep

PeersSpec == PeersInit /\ [][PeersNext]_peerVars

-----------------------------------------------------------------------------
(* Properties. *)

\* What is kept for a peer goes with it: the blocks in flight are exact, and every orphan came
\* from a peer that is still connected (FinalizeNode, EraseOrphansFor).
PeerRecords ==
    /\ InFlightExact
    /\ \A t \in Orphans(maps) : mapNodeState[mapOrphanTransactions[t]].at = "version"

=============================================================================
