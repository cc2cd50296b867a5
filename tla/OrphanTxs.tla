----------------------------- MODULE OrphanTxs -----------------------------
(* Transactions that arrived before those they spend: mapOrphanTransactions with the index   *)
(* mapOrphanTransactionsByPrev, and the "tx" handler.  Of the memory pool only counts what   *)
(* the handler learns from AcceptToMemoryPool: whether the transaction was accepted, or some *)
(* input is missing, or it was rejected for another reason.                                  *)
EXTENDS Integers, Sequences, FiniteSetsExt

CONSTANTS OrphanTxids, NoPeer,
          Prevs,             \* for each transaction, those it spends
          Rejected,          \* transactions that AcceptToMemoryPool rejects, all inputs known,
          Penalised,         \* and those for which it reports nDoS > 0
          TooLarge,          \* larger than 5000 bytes
          WithJoinSplits,    \* vjoinsplit is not empty
          nMaxOrphanTx

ASSUME OrphanAssumption ==
    /\ Prevs \in [OrphanTxids -> SUBSET OrphanTxids]
    /\ Penalised \subseteq Rejected /\ Rejected \subseteq OrphanTxids
    /\ nMaxOrphanTx \in Nat /\ IsFiniteSet(OrphanTxids)

VARIABLES mapOrphanTransactions,         \* for each transaction, fromPeer or NoPeer
          mapOrphanTransactionsByPrev,   \* for each transaction, the orphans that spend it
          accepted,                      \* transactions in the pool or in the chain
          recentRejects

orphanVars == <<mapOrphanTransactions, mapOrphanTransactionsByPrev, accepted, recentRejects>>

OrphanInit ==
    /\ mapOrphanTransactions = [t \in OrphanTxids |-> NoPeer]
    /\ mapOrphanTransactionsByPrev = [t \in OrphanTxids |-> {}]
    /\ accepted = {} /\ recentRejects = {}

-----------------------------------------------------------------------------
(* The maps, as functions from their values m before a call to those after it. *)

maps == [orphans |-> mapOrphanTransactions, byPrev |-> mapOrphanTransactionsByPrev]

SetMaps(m) == mapOrphanTransactions' = m.orphans /\ mapOrphanTransactionsByPrev' = m.byPrev

Orphans(m) == {t \in OrphanTxids : m.orphans[t] # NoPeer}

AddOrphanTx(m, t, peer) ==
    IF m.orphans[t] # NoPeer \/ t \in TooLarge THEN m
    ELSE [orphans |-> [m.orphans EXCEPT ![t] = peer],
          byPrev |-> [p \in OrphanTxids |-> IF p \in Prevs[t] THEN m.byPrev[p] \cup {t} ELSE m.byPrev[p]]]

\* Mutant: the loop over the inputs stops at the first one.
EraseOrphanTxFirst(m, S) ==
    LET gone == S \cap Orphans(m)
        first(t) == CHOOSE p \in Prevs[t] : TRUE
    IN  [orphans |-> [t \in OrphanTxids |-> IF t \in gone THEN NoPeer ELSE m.orphans[t]],
         byPrev |-> [p \in OrphanTxids |-> m.byPrev[p] \ {t \in gone : p = first(t)}]]

\* For every transaction of a set; the order makes no difference.
EraseOrphanTx(m, S) ==
    LET gone == S \cap Orphans(m)
    IN  [orphans |-> [t \in OrphanTxids |-> IF t \in gone THEN NoPeer ELSE m.orphans[t]],
         byPrev |-> [p \in OrphanTxids |-> m.byPrev[p] \ {t \in gone : p \in Prevs[t]}]]

EraseOrphansFor(peer) == SetMaps(EraseOrphanTx(maps, {t \in OrphanTxids : mapOrphanTransactions[t] = peer}))

-----------------------------------------------------------------------------
(* The "tx" message. *)

MissingInputs(t, known) == ~(Prevs[t] \subseteq known)

\* AcceptToMemoryPool.
Accepts(t, known) == ~MissingInputs(t, known) /\ t \notin Rejected /\ t \notin known

AlreadyHaveTx(t) == t \in recentRejects \/ t \in accepted \/ mapOrphanTransactions[t] # NoPeer

\* One orphan of the set that spends the transaction at the head of vWorkQueue.
TryOrphan(w, t) ==
    IF mapOrphanTransactions[t] \in w.setMisbehaving THEN w
    ELSE IF Accepts(t, w.accepted)
    THEN [w EXCEPT !.accepted = @ \cup {t}, !.vWorkQueue = Append(@, t), !.vEraseQueue = @ \cup {t}]
    ELSE IF ~MissingInputs(t, w.accepted)
    THEN [w EXCEPT !.setMisbehaving = IF t \in Penalised THEN @ \cup {mapOrphanTransactions[t]} ELSE @,
                   !.vEraseQueue = @ \cup {t}, !.recentRejects = @ \cup {t}]
    ELSE w

\* The loop over vWorkQueue, begun with t.  No transaction enters the queue twice.
ProcessOrphans(t) ==
    LET loop[n \in 0..Cardinality(OrphanTxids)] ==
            IF n = 0
            THEN [vWorkQueue |-> <<t>>, vEraseQueue |-> {}, setMisbehaving |-> {},
                  accepted |-> accepted \cup {t}, recentRejects |-> recentRejects]
            ELSE LET w == loop[n - 1]
                 IN  IF Len(w.vWorkQueue) < n THEN w
                     ELSE FoldSet(LAMBDA x, r : TryOrphan(r, x), w, mapOrphanTransactionsByPrev[w.vWorkQueue[n]])
    IN  loop[Cardinality(OrphanTxids)]

\* LimitOrphanTxSize, which evicts any of them.
Limited(m) == {EraseOrphanTx(m, S) : S \in {X \in SUBSET Orphans(m) :
                    Cardinality(X) = IF Cardinality(Orphans(m)) > nMaxOrphanTx
                                     THEN Cardinality(Orphans(m)) - nMaxOrphanTx ELSE 0}}

TxMessage(peer, t) ==
    \/ /\ ~AlreadyHaveTx(t) /\ Accepts(t, accepted)
       /\ LET w == ProcessOrphans(t)
          IN  /\ accepted' = w.accepted /\ recentRejects' = w.recentRejects
              /\ SetMaps(EraseOrphanTx(maps, w.vEraseQueue))
    \/ /\ ~AlreadyHaveTx(t) /\ MissingInputs(t, accepted) /\ t \notin WithJoinSplits
       /\ \E m \in Limited(AddOrphanTx(maps, t, peer)) : SetMaps(m)
       /\ UNCHANGED <<accepted, recentRejects>>
    \/ /\ \/ AlreadyHaveTx(t)
          \/ ~Accepts(t, accepted) /\ (~MissingInputs(t, accepted) \/ t \in WithJoinSplits)
       /\ recentRejects' = recentRejects \cup {t}
       /\ UNCHANGED <<mapOrphanTransactions, mapOrphanTransactionsByPrev, accepted>>

\* A transaction gets in without the handler: it is mined, or sent by a local call.  When it
\* is mined the tip is a new one and AlreadyHave empties recentRejects.
AcceptedElsewhere(t, fMined) ==
    /\ Accepts(t, accepted) /\ accepted' = accepted \cup {t}
    /\ recentRejects' = IF fMined THEN {} ELSE recentRejects
    /\ UNCHANGED <<mapOrphanTransactions, mapOrphanTransactionsByPrev>>

-----------------------------------------------------------------------------
\* The two maps of orphans agree: a transaction is listed under those it spends exactly while
\* it is an orphan, so the "tx" handler never looks up one that is gone
\* (mapOrphanTransactions[orphanHash] would add an empty entry) and forgets none; and there are
\* never more than nMaxOrphanTx.
OrphansExact ==
    /\ \A p \in OrphanTxids : mapOrphanTransactionsByPrev[p] = {t \in Orphans(maps) : p \in Prevs[t]}
    /\ Cardinality(Orphans(maps)) <= nMaxOrphanTx

=============================================================================
