----------------------------- MODULE MCRecords -----------------------------
(* Parts of the node that keep the same fact in more than one record: the memory pool and    *)
(* its chain, the blocks and the orphan transactions of the peers, the witnesses of the      *)
(* wallet, the address manager and the commitment tree.  A behaviour is of one part.         *)
EXTENDS MempoolChain, Peers, NoteWitnesses, AddrMan, IncrementalMerkleTree

VARIABLE part

-----------------------------------------------------------------------------
(* Three branches over eight transactions: spends of coinbases, a chain of spends, two       *)
(* double spends, one transparent and one shielded, anchors, expiry and lock heights, and a  *)
(* change of consensus branch after height 4.                                                *)

MCCoinbases == {"ca1", "ca2", "ca3", "ca4", "cb3", "cb4", "cc2", "cc3", "cc4"}
MCTxids == MCCoinbases \cup {"t1", "t2", "t3", "t4", "t5", "t6", "t7", "t8"}

Plain == [vin |-> <<>>, vout |-> 1, nullifiers |-> {}, anchors |-> {}, commitments |-> FALSE,
          nExpiryHeight |-> 0, nLockTime |-> 0, branch |-> 0, standard |-> TRUE]

MCTx == [t \in MCTxids |->
    CASE t = "t1" -> [Plain EXCEPT !.vin = <<COutPoint("ca1", 0)>>, !.vout = 2]
      [] t = "t2" -> [Plain EXCEPT !.vin = <<COutPoint("t1", 0), COutPoint("t1", 1)>>]
      [] t = "t3" -> [Plain EXCEPT !.vin = <<COutPoint("ca1", 0)>>, !.commitments = TRUE, !.standard = FALSE]
      [] t = "t4" -> [Plain EXCEPT !.nullifiers = {"n1"}, !.anchors = {<<"t3">>}, !.nExpiryHeight = 4]
      [] t = "t5" -> [Plain EXCEPT !.vin = <<COutPoint("ca1", 1)>>, !.nullifiers = {"n1"}, !.anchors = {<<>>},
                                   !.nLockTime = 2]
      [] t = "t6" -> [Plain EXCEPT !.vin = <<COutPoint("ca2", 0), COutPoint("ca1", 1)>>]
      [] t = "t7" -> [Plain EXCEPT !.vin = <<COutPoint("t3", 0)>>]
      [] t = "t8" -> [Plain EXCEPT !.vin = <<COutPoint("t2", 0)>>, !.branch = 1]
      [] OTHER    -> [Plain EXCEPT !.vout = 2]]

MCBlocks == {"a1", "a2", "a3", "a4", "b3", "b4", "c2", "c3", "c4"}

MCPprev == [b \in MCBlocks |->
    CASE b = "a1" -> "g" [] b \in {"a2", "c2"} -> "a1" [] b \in {"a3", "b3"} -> "a2"
      [] b = "a4" -> "a3" [] b = "b4" -> "b3" [] b = "c3" -> "c2" [] b = "c4" -> "c3"]

MCVtx == [b \in MCBlocks |->
    CASE b = "a1" -> <<"ca1">> [] b = "a2" -> <<"ca2">> [] b = "a3" -> <<"ca3", "t1", "t2">>
      [] b = "a4" -> <<"ca4", "t6">> [] b = "b3" -> <<"cb3", "t3">> [] b = "b4" -> <<"cb4", "t4">>
      [] b = "c2" -> <<"cc2">> [] b = "c3" -> <<"cc3", "t5">> [] b = "c4" -> <<"cc4", "t5">>]

-----------------------------------------------------------------------------
(* Two peers.  One offers the second block of a chain; the other, which is preferred, the    *)
(* first one and a malformed one.  An orphan spends two transactions, another is rejected,   *)
(* its child is too large to be kept, and a fourth has JoinSplits.                           *)

MCHeaders == {<<>>, <<"a">>, <<"a", "a">>, <<"b">>}
MCMalformed == {<<"b">>}
MCSends == [n \in Nodes |-> IF n \in Preferred THEN {<<"a">>, <<"b">>} ELSE {<<"a", "a">>}]

MCPrevs == [t \in OrphanTxids |->
    CASE t = "u1" -> {} [] t \in {"u2", "u4", "u6"} -> {"u1"} [] t = "u3" -> {"u1", "u2"} [] t = "u5" -> {"u4"}]

-----------------------------------------------------------------------------
(* Notes m, whose key is imported, and n; x and y are commitments of others. *)

MCBodies == {<<"x", "m">>, <<"n">>, <<"y">>}

-----------------------------------------------------------------------------
(* Three addresses that share places in both tables, and two sources. *)

MCNewBucket == [p \in Addrs \X Sources |-> IF p[2] = "s1" \/ p[1] = "p3" THEN 1 ELSE 2]
MCNewPosition == [p \in Addrs \X NewBuckets |-> 1]
MCTriedSlot == [a \in Addrs |-> IF a = "p3" THEN 2 ELSE 1]

-----------------------------------------------------------------------------

Init ==
    /\ part \in {"mempool", "blocks", "orphans", "witnesses", "addresses", "tree"}
    /\ MempoolInit /\ PeersInit /\ WitnessInit /\ AddrManInit /\ TreeInit

Next ==
    /\ \/ /\ part = "mempool" /\ MempoolNext
          /\ UNCHANGED <<peerVars, witnessVars, addrman, treeVars>>
       \/ /\ part \in {"blocks", "orphans"} /\ ConnectionStep
          /\ UNCHANGED <<mempoolVars, witnessVars, addrman, treeVars>>
       \/ /\ part = "blocks" /\ DownloadStep
          /\ UNCHANGED <<mempoolVars, witnessVars, addrman, treeVars>>
       \/ /\ part = "orphans" /\ OrphanStep
          /\ UNCHANGED <<mempoolVars, witnessVars, addrman, treeVars>>
       \/ /\ part = "witnesses" /\ WitnessNext
          /\ UNCHANGED <<mempoolVars, peerVars, addrman, treeVars>>
       \/ /\ part = "addresses" /\ AddrManNext
          /\ UNCHANGED <<mempoolVars, peerVars, witnessVars, treeVars>>
       \/ /\ part = "tree" /\ TreeNext
          /\ UNCHANGED <<mempoolVars, peerVars, witnessVars, addrman>>
    /\ UNCHANGED part

vars == <<part, mempoolVars, peerVars, witnessVars, addrman, treeVars>>

Spec == Init /\ [][Next]_vars

=============================================================================
