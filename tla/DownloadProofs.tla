--------------------------- MODULE DownloadProofs ---------------------------
(* What the operations of BlockDownload do to the queues of blocks in flight, to a           *)
(* CNodeState and to the blocks that are asked for next, for any peers, any tree of blocks   *)
(* and any limits.                                                                           *)
EXTENDS BlockDownload, FiniteSetTheorems, SequenceTheorems, WellFoundedInduction, TLAPS

\* The time that the prover has for a step.
USE SMTT(30)

-----------------------------------------------------------------------------
(* Counting. *)

\* Induction up to n, with a set for the predicate.
LEMMA Counting ==
  ASSUME NEW n \in Nat, NEW K, 0 \in K, \A k \in 0..(n - 1) : k \in K => k + 1 \in K
  PROVE  n \in K
  <1> DEFINE B == {k \in 0..n : k \notin K}
             R == {p \in Nat \X Nat : p[1] < p[2]}
  <1>1. SUFFICES ASSUME n \notin K PROVE FALSE
    BY Zenon
  <1>2. B \subseteq Nat /\ B # {}
    BY <1>1
  <1>3. IsWellFoundedOn(R, Nat)
    BY NatLessThanWellFounded, Zenon DEF OpToRel
  <1>4. \A x, y \in Nat : <<y, x>> \in R <=> y < x
    BY Zenon
  <1> HIDE DEF R, B
  <1>5. PICK m \in B : \A k \in B : <<k, m>> \notin R
    BY <1>2, <1>3, WFMin, Zenon
  <1> USE DEF B
  <1>6. m # 0 /\ m \in Nat /\ m - 1 \in 0..(n - 1)
    BY <1>5
  <1>7. m - 1 \in B
    BY <1>5, <1>6
  <1>8. <<m - 1, m>> \in R
    BY <1>4, <1>6
  <1> QED  BY <1>5, <1>7, <1>8, Zenon

\* A set as large as its indices.
LEMMA SameCardinality ==
  ASSUME NEW S, NEW T, IsFiniteSet(S), NEW f \in [S -> T],
         \A x, y \in S : f[x] = f[y] => x = y, \A t \in T : \E x \in S : f[x] = t
  PROVE  IsFiniteSet(T) /\ Cardinality(T) = Cardinality(S)
  <1>1. f \in Injection(S, T) /\ f \in Surjection(S, T)
    BY Zenon DEF Injection, Surjection, IsInjective
  <1>2. ExistsBijection(S, T)
    BY <1>1, Zenon DEF ExistsBijection, Bijection
  <1> QED  BY <1>2, FS_Bijection, Zenon

\* One element more, or less, in a finite set.
LEMMA OneMore ==
  ASSUME NEW S, NEW T, NEW x, IsFiniteSet(S), x \notin S, NEW b \in BOOLEAN,
         T = IF b THEN S \cup {x} ELSE S
  PROVE  IsFiniteSet(T) /\ Cardinality(T) = Cardinality(S) + AsNumber(b) /\ Cardinality(S) \in Nat
  <1>1. Cardinality(S) \in Nat
    BY FS_CardinalityType, Zenon
  <1>2. CASE b
    BY <1>1, <1>2, FS_AddElement, Zenon DEF AsNumber
  <1>3. CASE ~b
    BY <1>1, <1>3 DEF AsNumber
  <1> QED  BY <1>1, <1>2, <1>3, Zenon

LEMMA OneLess ==
  ASSUME NEW S, NEW x, IsFiniteSet(S), NEW b \in BOOLEAN, b <=> x \in S
  PROVE  /\ IsFiniteSet(S \ {x}) /\ Cardinality(S \ {x}) = Cardinality(S) - AsNumber(b)
         /\ Cardinality(S) \in Nat
  <1>1. Cardinality(S) \in Nat
    BY FS_CardinalityType, Zenon
  <1>2. CASE b
    BY <1>1, <1>2, FS_RemoveElement, Zenon DEF AsNumber
  <1>3. CASE ~b
    <2>1. S \ {x} = S
      BY <1>3, Zenon
    <2>2. Cardinality(S \ {x}) = Cardinality(S)
      BY <2>1, Zenon
    <2> QED  BY <1>1, <1>3, <2>1, <2>2 DEF AsNumber
  <1> QED  BY <1>1, <1>2, <1>3, Zenon

-----------------------------------------------------------------------------
(* The queues of blocks in flight. *)

\* An entry of vBlocksInFlight, and a CNodeState.
QueuedBlock == [hash : Headers, fValidatedHeaders : BOOLEAN, left : Int]

NodeStates ==
    [at : {"absent", "connected", "version"}, fDisconnect : BOOLEAN,
     pindexBestKnownBlock : Headers \cup {None}, hashLastUnknownBlock : Headers \cup {None},
     pindexLastCommonBlock : Headers \cup {None}, fSyncStarted : BOOLEAN,
     nStallingSince : {"no", "since", "expired"}, vBlocksInFlight : Seq(QueuedBlock),
     nBlocksInFlight : Int, nBlocksInFlightValidHeaders : Int, fPreferredDownload : BOOLEAN]

Queues == [nodes : [Nodes -> NodeStates], inFlight : [Headers -> Nodes \cup {NoNode}], queued : Int]

\* The blocks asked of a peer with their header validated, and those of all peers.
ValidAsked(s) ==
    {h \in Headers : \E i \in DOMAIN s.vBlocksInFlight :
        s.vBlocksInFlight[i].hash = h /\ s.vBlocksInFlight[i].fValidatedHeaders}
AllValidAsked(nodes) == UNION {ValidAsked(nodes[n]) : n \in Nodes}

\* The list of the peer n agrees with mapBlocksInFlight.
ListExact(s, inFlight, n) ==
    /\ \A i \in DOMAIN s.vBlocksInFlight : inFlight[s.vBlocksInFlight[i].hash] = n
    /\ \A i, j \in DOMAIN s.vBlocksInFlight :
          s.vBlocksInFlight[i].hash = s.vBlocksInFlight[j].hash => i = j
    /\ \A h \in Headers : inFlight[h] = n => \E i \in DOMAIN s.vBlocksInFlight : s.vBlocksInFlight[i].hash = h

\* So do its counters and the rest of its state.
StateExact(s) ==
    /\ s.nBlocksInFlight = Len(s.vBlocksInFlight)
    /\ IsFiniteSet(ValidAsked(s))
    /\ s.nBlocksInFlightValidHeaders = Cardinality(ValidAsked(s))
    /\ s.at = "absent" => s = CNodeState
    /\ s.nStallingSince # "no" => s.vBlocksInFlight # <<>>

QueuesExact(q) ==
    /\ q \in Queues
    /\ \A n \in Nodes : ListExact(q.nodes[n], q.inFlight, n) /\ StateExact(q.nodes[n])
    /\ IsFiniteSet(AllValidAsked(q.nodes))
    /\ q.queued >= Cardinality(AllValidAsked(q.nodes))

\* What a call on the queues leaves alone.
Keeps(q, r) ==
    \A n \in Nodes : /\ r.nodes[n].at = q.nodes[n].at
                     /\ r.nodes[n].fSyncStarted = q.nodes[n].fSyncStarted
                     /\ r.nodes[n].fPreferredDownload = q.nodes[n].fPreferredDownload

\* A list without its entry i.
LEMMA RemovedAt ==
  ASSUME NEW S, NEW l \in Seq(S), NEW i \in DOMAIN l
  PROVE  /\ EraseAt(l, i) \in Seq(S)
         /\ Len(EraseAt(l, i)) = Len(l) - 1
         /\ \A k \in 1..(Len(l) - 1) : EraseAt(l, i)[k] = IF k < i THEN l[k] ELSE l[k + 1]
  <1>1. i \in 1..Len(l) /\ Len(l) \in Nat /\ \A k \in 1..Len(l) : l[k] \in S
    OBVIOUS
  <1> DEFINE a == SubSeq(l, 1, i - 1)
             b == SubSeq(l, i + 1, Len(l))
  <1>2. /\ a \in Seq(S) /\ Len(a) = i - 1
        /\ \A k \in 1..(i - 1) : a[k] = l[k]
    <2>1. \A k \in 1..(i - 1) : l[k] \in S
      BY <1>1
    <2>2. /\ a \in Seq(S)
          /\ Len(a) = IF 1 <= i - 1 THEN (i - 1) - 1 + 1 ELSE 0
          /\ \A k \in 1..((i - 1) - 1 + 1) : a[k] = l[1 + k - 1]
      BY <1>1, <2>1, SubSeqProperties
    <2> QED  BY <1>1, <2>2
  <1>3. /\ b \in Seq(S) /\ Len(b) = Len(l) - i
        /\ \A k \in 1..(Len(l) - i) : b[k] = l[i + k]
    <2>1. \A k \in (i + 1)..Len(l) : l[k] \in S
      BY <1>1
    <2>2. /\ b \in Seq(S)
          /\ Len(b) = IF i + 1 <= Len(l) THEN Len(l) - (i + 1) + 1 ELSE 0
          /\ \A k \in 1..(Len(l) - (i + 1) + 1) : b[k] = l[(i + 1) + k - 1]
      BY <1>1, <2>1, SubSeqProperties
    <2> QED  BY <1>1, <2>2
  <1>5. EraseAt(l, i) = a \o b
    BY Zenon DEF EraseAt
  <1> HIDE DEF a, b
  <1>4. /\ a \o b \in Seq(S) /\ Len(a \o b) = Len(a) + Len(b)
        /\ \A k \in 1..(Len(a) + Len(b)) : (a \o b)[k] = IF k <= Len(a) THEN a[k] ELSE b[k - Len(a)]
    BY <1>2, <1>3, ConcatProperties, Zenon
  <1>6. ASSUME NEW k \in 1..(Len(l) - 1)
        PROVE  (a \o b)[k] = IF k < i THEN l[k] ELSE l[k + 1]
    <2>1. (a \o b)[k] = IF k <= Len(a) THEN a[k] ELSE b[k - Len(a)]
      <3>1. Len(a) + Len(b) = Len(l) - 1
        BY <1>1, <1>2, <1>3
      <3>2. k \in 1..(Len(a) + Len(b))
        BY <3>1, Zenon
      <3> QED  BY <1>4, <3>2, Zenon
    <2>2. CASE k < i
      BY <1>1, <1>2, <2>1, <2>2
    <2>3. CASE ~(k < i)
      <3>1. k - Len(a) \in 1..(Len(l) - i) /\ i + (k - Len(a)) = k + 1
        BY <1>1, <1>2, <2>3
      <3> QED  BY <1>2, <1>3, <2>1, <2>3, <3>1
    <2> QED  BY <2>2, <2>3, Zenon
  <1>7. Len(a \o b) = Len(l) - 1
    BY <1>1, <1>2, <1>3, <1>4
  <1> QED  BY <1>4, <1>5, <1>6, <1>7, Zenon

\* The state t of the peer n is s without the entry i, for the block h.
EntryRemoved(s, t, inFlight, inFlight2, n, h, i) ==
    /\ n \in Nodes /\ h \in Headers
    /\ s.vBlocksInFlight \in Seq(QueuedBlock) /\ ListExact(s, inFlight, n)
    /\ i \in DOMAIN s.vBlocksInFlight /\ s.vBlocksInFlight[i].hash = h
    /\ t.vBlocksInFlight = EraseAt(s.vBlocksInFlight, i)
    /\ inFlight \in [Headers -> Nodes \cup {NoNode}] /\ inFlight2 = [inFlight EXCEPT ![h] = NoNode]

\* The entries that stay have the blocks that stay.
LEMMA RemovedList ==
  ASSUME NEW s, NEW t, NEW inFlight, NEW inFlight2, NEW n, NEW h, NEW i,
         EntryRemoved(s, t, inFlight, inFlight2, n, h, i)
  PROVE  /\ ListExact(t, inFlight2, n)
         /\ ValidAsked(t) = ValidAsked(s) \ {h}
         /\ s.vBlocksInFlight[i].fValidatedHeaders <=> h \in ValidAsked(s)
         /\ t.vBlocksInFlight \in Seq(QueuedBlock)
         /\ Len(t.vBlocksInFlight) = Len(s.vBlocksInFlight) - 1
  <1> USE DEF EntryRemoved
  <1> DEFINE l == s.vBlocksInFlight
             r == t.vBlocksInFlight
  <1>1. /\ r \in Seq(QueuedBlock) /\ Len(r) = Len(l) - 1
        /\ \A k \in 1..(Len(l) - 1) : r[k] = IF k < i THEN l[k] ELSE l[k + 1]
    BY RemovedAt, Zenon
  <1>2. /\ l \in Seq(QueuedBlock) /\ i \in DOMAIN l /\ l[i].hash = h
        /\ \A k \in DOMAIN l : inFlight[l[k].hash] = n
        /\ \A k, j \in DOMAIN l : l[k].hash = l[j].hash => k = j
        /\ \A g \in Headers : inFlight[g] = n => \E k \in DOMAIN l : l[k].hash = g
    BY Zenon DEF ListExact
  <1>0. /\ inFlight \in [Headers -> Nodes \cup {NoNode}] /\ inFlight2 = [inFlight EXCEPT ![h] = NoNode]
        /\ n \in Nodes /\ h \in Headers
    BY Zenon
  <1> HIDE DEF l, r, EntryRemoved
  <1>3. \A k \in DOMAIN r : \E j \in DOMAIN l : j # i /\ r[k] = l[j]
    <2> TAKE k \in DOMAIN r
    <2>1. k \in 1..(Len(l) - 1)
      BY <1>1
    <2>2. CASE k < i
      <3>1. k \in DOMAIN l /\ k # i /\ r[k] = l[k]
        BY <1>1, <1>2, <2>1, <2>2
      <3> QED  BY <3>1, Zenon
    <2>3. CASE ~(k < i)
      <3>1. k + 1 \in DOMAIN l /\ k + 1 # i /\ r[k] = l[k + 1]
        BY <1>1, <1>2, <2>1, <2>3
      <3> QED  BY <3>1, Zenon
    <2> QED  BY <2>2, <2>3, Zenon
  <1>4. \A j \in DOMAIN l : j # i => \E k \in DOMAIN r : r[k] = l[j]
    <2> TAKE j \in DOMAIN l
    <2> HAVE j # i
    <2>1. CASE j < i
      <3>1. j \in DOMAIN r /\ r[j] = l[j]
        BY <1>1, <1>2, <2>1
      <3> QED  BY <3>1, Zenon
    <2>2. CASE ~(j < i)
      <3>0. j \in 1..Len(l) /\ i \in 1..Len(l) /\ Len(l) \in Nat /\ DOMAIN r = 1..(Len(l) - 1)
        BY <1>1, <1>2
      <3>1. j - 1 \in DOMAIN r /\ j - 1 \in 1..(Len(l) - 1) /\ ~(j - 1 < i) /\ (j - 1) + 1 = j
        BY <3>0, <2>2
      <3>2. r[j - 1] = l[j]
        BY <1>1, <3>1, Zenon
      <3> QED  BY <3>1, <3>2, Zenon
    <2> QED  BY <2>1, <2>2, Zenon
  <1>5. \A k, j \in DOMAIN r : r[k].hash = r[j].hash => k = j
    <2> TAKE k, j \in DOMAIN r
    <2> HAVE r[k].hash = r[j].hash
    <2> DEFINE K == IF k < i THEN k ELSE k + 1
               J == IF j < i THEN j ELSE j + 1
    <2>1. k \in 1..(Len(l) - 1) /\ j \in 1..(Len(l) - 1)
      BY <1>1
    <2>2. K \in DOMAIN l /\ J \in DOMAIN l /\ r[k] = l[K] /\ r[j] = l[J]
      <3>1. K \in DOMAIN l /\ r[k] = l[K]
        BY <1>1, <1>2, <2>1
      <3>2. J \in DOMAIN l /\ r[j] = l[J]
        BY <1>1, <1>2, <2>1
      <3> QED  BY <3>1, <3>2, Zenon
    <2>3. K = J
      BY <1>2, <2>2
    <2> QED  BY <2>1, <2>3, <1>2
  <1>6. \A k \in DOMAIN l : l[k] \in QueuedBlock
    BY <1>2
  <1>7. \A k \in DOMAIN l : k # i => l[k].hash # h
    BY <1>2, Zenon
  <1>8. \A g \in Headers : inFlight2[g] = IF g = h THEN NoNode ELSE inFlight[g]
    BY <1>0, Zenon
  <1>9. \A k \in DOMAIN r : inFlight2[r[k].hash] = n
    BY <1>2, <1>3, <1>6, <1>7, <1>8 DEF QueuedBlock
  <1>10. \A g \in Headers : inFlight2[g] = n => \E k \in DOMAIN r : r[k].hash = g
    BY <1>0, <1>2, <1>4, <1>8, DownloadAssumption
  <1>11. ListExact(t, inFlight2, n)
    BY <1>5, <1>9, <1>10, Zenon DEF ListExact, r
  <1>12. ValidAsked(s) = {g \in Headers : \E k \in DOMAIN l : l[k].hash = g /\ l[k].fValidatedHeaders}
    BY Zenon DEF ValidAsked, l
  <1>13. ValidAsked(t) = {g \in Headers : \E k \in DOMAIN r : r[k].hash = g /\ r[k].fValidatedHeaders}
    BY Zenon DEF ValidAsked, r
  <1>14. ValidAsked(t) = ValidAsked(s) \ {h}
    <2>1. ASSUME NEW g \in ValidAsked(t)
          PROVE  g \in ValidAsked(s) /\ g # h
      BY <1>3, <1>7, <1>12, <1>13
    <2>2. ASSUME NEW g \in ValidAsked(s), g # h
          PROVE  g \in ValidAsked(t)
      BY <2>2, <1>2, <1>4, <1>12, <1>13
    <2> QED  BY <2>1, <2>2, Zenon
  <1>15. l[i].fValidatedHeaders <=> h \in ValidAsked(s)
    BY <1>0, <1>2, <1>7, <1>12, Zenon
  <1> QED  BY <1>1, <1>11, <1>14, <1>15, Zenon DEF l, r

\* The state t of the peer n is s with the entry e.
EntryAdded(s, t, inFlight, inFlight2, n, e) ==
    /\ n \in Nodes /\ e \in QueuedBlock
    /\ s.vBlocksInFlight \in Seq(QueuedBlock) /\ ListExact(s, inFlight, n)
    /\ inFlight[e.hash] # n
    /\ t.vBlocksInFlight = Append(s.vBlocksInFlight, e)
    /\ inFlight \in [Headers -> Nodes \cup {NoNode}] /\ inFlight2 = [inFlight EXCEPT ![e.hash] = n]

\* Its list has one more block.
LEMMA AppendedList ==
  ASSUME NEW s, NEW t, NEW inFlight, NEW inFlight2, NEW n, NEW e,
         EntryAdded(s, t, inFlight, inFlight2, n, e)
  PROVE  /\ ListExact(t, inFlight2, n)
         /\ ValidAsked(t) = IF e.fValidatedHeaders THEN ValidAsked(s) \cup {e.hash} ELSE ValidAsked(s)
         /\ e.hash \notin ValidAsked(s)
         /\ t.vBlocksInFlight \in Seq(QueuedBlock)
         /\ Len(t.vBlocksInFlight) = Len(s.vBlocksInFlight) + 1
  <1> USE DEF EntryAdded
  <1> DEFINE l == s.vBlocksInFlight
             r == t.vBlocksInFlight
             N == Len(l) + 1
  <1>1. /\ r \in Seq(QueuedBlock) /\ Len(r) = N /\ N \in Nat
        /\ \A k \in DOMAIN l : r[k] = l[k] /\ k \in DOMAIN r /\ k # N
        /\ r[N] = e /\ N \in DOMAIN r
        /\ \A k \in DOMAIN r : k = N \/ k \in DOMAIN l
    <2>1. /\ r \in Seq(QueuedBlock) /\ Len(r) = Len(l) + 1
          /\ \A k \in 1..Len(l) : r[k] = l[k]
          /\ r[Len(l) + 1] = e
      BY AppendProperties
    <2>2. DOMAIN l = 1..Len(l) /\ DOMAIN r = 1..Len(r) /\ Len(l) \in Nat
      BY <2>1
    <2> HIDE DEF l, r
    <2> QED  BY <2>1, <2>2
  <1>2. /\ \A k \in DOMAIN l : inFlight[l[k].hash] = n
        /\ \A k, j \in DOMAIN l : l[k].hash = l[j].hash => k = j
        /\ \A g \in Headers : inFlight[g] = n => \E k \in DOMAIN l : l[k].hash = g
        /\ \A k \in DOMAIN l : l[k].hash \in Headers
        /\ e.hash \in Headers
    <2>1. \A k \in DOMAIN l : l[k] \in QueuedBlock
      OBVIOUS
    <2>2. e.hash \in Headers /\ \A k \in DOMAIN l : l[k].hash \in Headers
      BY <2>1, Zenon DEF QueuedBlock
    <2> QED  BY <2>2, Zenon DEF ListExact
  <1>3. ValidAsked(s) = {g \in Headers : \E k \in DOMAIN l : l[k].hash = g /\ l[k].fValidatedHeaders}
    BY Zenon DEF ValidAsked
  <1>4. ValidAsked(t) = {g \in Headers : \E k \in DOMAIN r : r[k].hash = g /\ r[k].fValidatedHeaders}
    BY Zenon DEF ValidAsked
  <1>0. /\ inFlight \in [Headers -> Nodes \cup {NoNode}] /\ inFlight2 = [inFlight EXCEPT ![e.hash] = n]
        /\ n \in Nodes /\ inFlight[e.hash] # n
    BY Zenon
  <1> HIDE DEF l, r, N, EntryAdded
  <1>5. \A g \in Headers : inFlight2[g] = IF g = e.hash THEN n ELSE inFlight[g]
    BY <1>0, Zenon
  <1>6. \A k \in DOMAIN l : l[k].hash # e.hash
    BY <1>0, <1>2, Zenon
  <1>7. \A k \in DOMAIN r : inFlight2[r[k].hash] = n
    BY <1>1, <1>2, <1>5
  <1>8. \A k, j \in DOMAIN r : r[k].hash = r[j].hash => k = j
    BY <1>1, <1>2, <1>6, Zenon
  <1>9. \A g \in Headers : inFlight2[g] = n => \E k \in DOMAIN r : r[k].hash = g
    BY <1>1, <1>2, <1>5
  <1>10. ListExact(t, inFlight2, n)
    BY <1>7, <1>8, <1>9, Zenon DEF ListExact, r
  <1>11. e.hash \notin ValidAsked(s)
    BY <1>3, <1>6, Zenon
  <1>12. ValidAsked(t) = IF e.fValidatedHeaders THEN ValidAsked(s) \cup {e.hash} ELSE ValidAsked(s)
    BY <1>1, <1>2, <1>3, <1>4
  <1> QED  BY <1>1, <1>10, <1>11, <1>12, Zenon DEF l, r, N

\* A block in a list is in flight from that peer, so it is in no other list.
LEMMA ValidInFlight ==
  ASSUME NEW q, QueuesExact(q), NEW n \in Nodes, NEW h \in ValidAsked(q.nodes[n])
  PROVE  h \in Headers /\ q.inFlight[h] = n
  BY DEF QueuesExact, ListExact, ValidAsked

\* The rest stays exact when one peer and one block change.
LEMMA OneNode ==
  ASSUME NEW q, QueuesExact(q), NEW r \in Queues, NEW n \in Nodes, NEW h \in Headers,
         \A m \in Nodes \ {n} : r.nodes[m] = q.nodes[m],
         \A g \in Headers \ {h} : r.inFlight[g] = q.inFlight[g],
         q.inFlight[h] \in {n, NoNode}, r.inFlight[h] \in {n, NoNode},
         ListExact(r.nodes[n], r.inFlight, n), StateExact(r.nodes[n]),
         IsFiniteSet(AllValidAsked(r.nodes)), r.queued >= Cardinality(AllValidAsked(r.nodes))
  PROVE  QueuesExact(r)
  <1>1. ASSUME NEW m \in Nodes \ {n}
        PROVE  ListExact(r.nodes[m], r.inFlight, m) /\ StateExact(r.nodes[m])
    <2>1. r.nodes[m] = q.nodes[m] /\ ListExact(q.nodes[m], q.inFlight, m) /\ StateExact(q.nodes[m])
      BY Zenon DEF QueuesExact
    <2>2. q.inFlight[h] # m /\ r.inFlight[h] # m
      BY DownloadAssumption
    <2>3. q.nodes[m].vBlocksInFlight \in Seq(QueuedBlock)
      BY Zenon DEF QueuesExact, Queues, NodeStates
    <2>4. \A i \in DOMAIN q.nodes[m].vBlocksInFlight : q.nodes[m].vBlocksInFlight[i].hash \in Headers
      <3>1. \A i \in DOMAIN q.nodes[m].vBlocksInFlight : q.nodes[m].vBlocksInFlight[i] \in QueuedBlock
        BY <2>3
      <3> QED  BY <3>1, ZenonT(60) DEF QueuedBlock
    <2>5. \A g \in Headers : r.inFlight[g] = m <=> q.inFlight[g] = m
      BY <2>2, Zenon
    <2>6. ListExact(q.nodes[m], r.inFlight, m)
      BY <2>1, <2>4, <2>5, ZenonT(60) DEF ListExact
    <2> QED  BY <2>1, <2>6, Zenon
  <1> QED  BY <1>1, ZenonT(60) DEF QueuesExact

\* The fields of the queues.
LEMMA QueueFields ==
  ASSUME NEW q, QueuesExact(q), NEW n \in Nodes
  PROVE  /\ q.nodes \in [Nodes -> NodeStates] /\ q.inFlight \in [Headers -> Nodes \cup {NoNode}]
         /\ q.queued \in Int /\ q.nodes[n] \in NodeStates
         /\ q.nodes[n].vBlocksInFlight \in Seq(QueuedBlock)
         /\ q.nodes[n].nBlocksInFlight \in Int /\ q.nodes[n].nBlocksInFlightValidHeaders \in Int
  BY Zenon DEF QueuesExact, Queues, NodeStates

\* MarkBlockAsReceived takes the block out of the one list that has it.
LEMMA ReceivedExact ==
  ASSUME NEW q, QueuesExact(q), NEW h \in Headers, NEW r, r = MarkBlockAsReceived(q, h)
  PROVE  /\ QueuesExact(r) /\ Keeps(q, r)
         /\ r.inFlight = [q.inFlight EXCEPT ![h] = NoNode]
         /\ \A m \in Nodes : r.nodes[m].nBlocksInFlight <= q.nodes[m].nBlocksInFlight
  <1>1. CASE q.inFlight[h] = NoNode
    <2>1. r = q
      BY <1>1, Zenon DEF MarkBlockAsReceived
    <2>2. q.inFlight = [q.inFlight EXCEPT ![h] = NoNode]
      BY <1>1, Zenon DEF QueuesExact, Queues
    <2>3. \A m \in Nodes : q.nodes[m].nBlocksInFlight \in Int
      BY QueueFields, Zenon
    <2> QED  BY <2>1, <2>2, <2>3 DEF Keeps
  <1>2. CASE q.inFlight[h] # NoNode
    <2> DEFINE n == q.inFlight[h]
               s == q.nodes[n]
               i == Iterator(s.vBlocksInFlight, h)
               valid == AsNumber(s.vBlocksInFlight[i].fValidatedHeaders)
    <2>1. n \in Nodes
      BY <1>2, Zenon DEF QueuesExact, Queues
    <2>2. ListExact(s, q.inFlight, n) /\ StateExact(s)
      BY <2>1, Zenon DEF QueuesExact
    <2>3. \E k \in DOMAIN s.vBlocksInFlight : s.vBlocksInFlight[k].hash = h
      BY <2>2, Zenon DEF ListExact
    <2>4. i \in DOMAIN s.vBlocksInFlight /\ s.vBlocksInFlight[i].hash = h
      BY <2>3, Zenon DEF Iterator
    <2>5. /\ s \in NodeStates /\ s.vBlocksInFlight \in Seq(QueuedBlock)
          /\ s.nBlocksInFlight \in Int /\ s.nBlocksInFlightValidHeaders \in Int /\ q.queued \in Int
          /\ q.nodes \in [Nodes -> NodeStates] /\ q.inFlight \in [Headers -> Nodes \cup {NoNode}]
      BY <2>1, QueueFields, Zenon
    <2> DEFINE b == s.vBlocksInFlight[i].fValidatedHeaders
               t == [s EXCEPT !.vBlocksInFlight = EraseAt(@, i), !.nBlocksInFlight = @ - 1,
                              !.nBlocksInFlightValidHeaders = @ - valid, !.nStallingSince = "no"]
    <2>6. /\ r = [nodes |-> r.nodes, inFlight |-> r.inFlight, queued |-> r.queued]
          /\ r.nodes = [q.nodes EXCEPT ![n] = t]
          /\ r.inFlight = [q.inFlight EXCEPT ![h] = NoNode]
          /\ r.queued = q.queued - valid
      <3>1. r = [nodes |-> [q.nodes EXCEPT ![n].vBlocksInFlight = EraseAt(@, i),
                                           ![n].nBlocksInFlight = @ - 1,
                                           ![n].nBlocksInFlightValidHeaders = @ - valid,
                                           ![n].nStallingSince = "no"],
                 inFlight |-> [q.inFlight EXCEPT ![h] = NoNode],
                 queued |-> q.queued - valid]
        BY <1>2, Zenon DEF MarkBlockAsReceived
      <3>2. [q.nodes EXCEPT ![n].vBlocksInFlight = EraseAt(@, i),
                            ![n].nBlocksInFlight = @ - 1,
                            ![n].nBlocksInFlightValidHeaders = @ - valid,
                            ![n].nStallingSince = "no"] = [q.nodes EXCEPT ![n] = t]
        BY <2>1, <2>5, Zenon DEF NodeStates
      <3>3. r = [nodes |-> [q.nodes EXCEPT ![n] = t], inFlight |-> [q.inFlight EXCEPT ![h] = NoNode],
                 queued |-> q.queued - valid]
        BY <3>1, <3>2, ZenonT(60)
      <3> HIDE DEF n, valid, t
      <3> QED  BY <3>3
    <2>7. b \in BOOLEAN /\ valid = AsNumber(b) /\ valid \in Int
      <3>1. s.vBlocksInFlight[i] \in QueuedBlock
        BY <2>4, <2>5
      <3>2. b \in BOOLEAN
        BY <3>1, Zenon DEF QueuedBlock
      <3>3. valid = AsNumber(b)
        BY Zenon
      <3> HIDE DEF b, valid
      <3> QED  BY <3>2, <3>3 DEF AsNumber
    <2> HIDE DEF n, i, s, valid, b
    <2>8. /\ t.vBlocksInFlight = EraseAt(s.vBlocksInFlight, i)
          /\ t.nBlocksInFlight = s.nBlocksInFlight - 1
          /\ t.nBlocksInFlightValidHeaders = s.nBlocksInFlightValidHeaders - valid
          /\ t.nStallingSince = "no" /\ t.at = s.at /\ t.fSyncStarted = s.fSyncStarted
          /\ t.fPreferredDownload = s.fPreferredDownload
      BY <2>5, Zenon DEF NodeStates
    <2>9. /\ ListExact(t, r.inFlight, n)
          /\ ValidAsked(t) = ValidAsked(s) \ {h}
          /\ b <=> h \in ValidAsked(s)
          /\ t.vBlocksInFlight \in Seq(QueuedBlock)
          /\ Len(t.vBlocksInFlight) = Len(s.vBlocksInFlight) - 1
      <3> HIDE DEF t
      <3>1. t.vBlocksInFlight = EraseAt(s.vBlocksInFlight, i)
        BY <2>8, Zenon
      <3>2. r.inFlight = [q.inFlight EXCEPT ![h] = NoNode]
        BY <2>6, Zenon
      <3>3. /\ s.vBlocksInFlight \in Seq(QueuedBlock)
            /\ q.inFlight \in [Headers -> Nodes \cup {NoNode}]
        BY <2>5, Zenon
      <3>4. /\ ListExact(t, r.inFlight, n)
            /\ ValidAsked(t) = ValidAsked(s) \ {h}
            /\ s.vBlocksInFlight[i].fValidatedHeaders <=> h \in ValidAsked(s)
            /\ t.vBlocksInFlight \in Seq(QueuedBlock)
            /\ Len(t.vBlocksInFlight) = Len(s.vBlocksInFlight) - 1
        <4>1. EntryRemoved(s, t, q.inFlight, r.inFlight, n, h, i)
          BY <2>1, <2>2, <2>4, <3>1, <3>2, <3>3, Zenon DEF EntryRemoved
        <4> QED  BY <4>1, RemovedList, Zenon
      <3> QED  BY <3>4, Zenon DEF b
    <2>10. t \in NodeStates
      <3>1. EraseAt(s.vBlocksInFlight, i) \in Seq(QueuedBlock)
        BY <2>8, <2>9, Zenon
      <3>2. s.nBlocksInFlight - 1 \in Int /\ s.nBlocksInFlightValidHeaders - valid \in Int
        BY <2>5, <2>7
      <3> QED  BY <2>5, <3>1, <3>2, Zenon DEF NodeStates
    <2> HIDE DEF t
    <2>11. s.at # "absent"
      <3>1. s.vBlocksInFlight # <<>>
        BY <2>4, <2>5
      <3>2. CNodeState.vBlocksInFlight = <<>>
        BY Zenon DEF CNodeState
      <3> QED  BY <2>2, <3>1, <3>2, Zenon DEF StateExact
    <2>12. StateExact(t)
      <3>1. IsFiniteSet(ValidAsked(s)) /\ s.nBlocksInFlightValidHeaders = Cardinality(ValidAsked(s))
        BY <2>2, Zenon DEF StateExact
      <3>2. /\ IsFiniteSet(ValidAsked(t))
            /\ Cardinality(ValidAsked(t)) = Cardinality(ValidAsked(s)) - AsNumber(b)
        BY <2>7, <2>9, <3>1, OneLess, ZenonT(60)
      <3>3. s.nBlocksInFlight = Len(s.vBlocksInFlight)
        BY <2>2, Zenon DEF StateExact
      <3> QED  BY <2>7, <2>8, <2>9, <2>11, <3>1, <3>2, <3>3, Zenon DEF StateExact
    <2>13. s = q.nodes[n] /\ n = q.inFlight[h]
      BY Zenon DEF s, n
    <2>14. AllValidAsked(r.nodes) = AllValidAsked(q.nodes) \ {h}
      <3>1. \A m \in Nodes : ValidAsked(r.nodes[m]) = ValidAsked(q.nodes[m]) \ {h}
        <4> TAKE m \in Nodes
        <4>1. CASE m = n
          BY <2>1, <2>5, <2>6, <2>9, <2>13, <4>1, Zenon
        <4>2. CASE m # n
          <5>1. r.nodes[m] = q.nodes[m]
            BY <2>5, <2>6, <4>2, Zenon
          <5>2. h \notin ValidAsked(q.nodes[m])
            BY <2>13, <4>2, ValidInFlight, Zenon
          <5> QED  BY <5>1, <5>2, Zenon
        <4> QED  BY <4>1, <4>2, Zenon
      <3> QED  BY <3>1 DEF AllValidAsked
    <2>15. h \in AllValidAsked(q.nodes) <=> b
      <3>1. ASSUME h \in AllValidAsked(q.nodes) PROVE b
        <4>1. PICK m \in Nodes : h \in ValidAsked(q.nodes[m])
          BY <3>1, Zenon DEF AllValidAsked
        <4>2. m = n
          BY <2>13, <4>1, ValidInFlight, Zenon
        <4> QED  BY <2>9, <2>13, <4>1, <4>2, ZenonT(60)
      <3> QED  BY <2>1, <2>9, <2>13, <3>1, Zenon DEF AllValidAsked
    <2>16. IsFiniteSet(AllValidAsked(q.nodes)) /\ q.queued >= Cardinality(AllValidAsked(q.nodes))
      BY Zenon DEF QueuesExact
    <2>17. /\ IsFiniteSet(AllValidAsked(r.nodes))
           /\ Cardinality(AllValidAsked(r.nodes)) = Cardinality(AllValidAsked(q.nodes)) - AsNumber(b)
           /\ Cardinality(AllValidAsked(q.nodes)) \in Nat
      <3> DEFINE A == AllValidAsked(q.nodes)
      <3>1. IsFiniteSet(A) /\ b \in BOOLEAN /\ (b <=> h \in A)
        BY <2>7, <2>15, <2>16, Zenon
      <3>2. AllValidAsked(r.nodes) = A \ {h}
        BY <2>14, Zenon
      <3> HIDE DEF A
      <3>3. /\ IsFiniteSet(A \ {h}) /\ Cardinality(A \ {h}) = Cardinality(A) - AsNumber(b)
            /\ Cardinality(A) \in Nat
        BY <3>1, OneLess, Zenon
      <3> QED  BY <3>2, <3>3, Zenon DEF A
    <2>18. r.queued >= Cardinality(AllValidAsked(r.nodes))
      BY <2>5, <2>6, <2>7, <2>16, <2>17
    <2>19. r \in Queues
      <3>1. r.nodes \in [Nodes -> NodeStates]
        BY <2>1, <2>5, <2>6, <2>10, Zenon
      <3>2. r.inFlight \in [Headers -> Nodes \cup {NoNode}]
        BY <2>5, <2>6, Zenon
      <3>3. r.queued \in Int
        BY <2>5, <2>6, <2>7
      <3> QED  BY <2>6, <3>1, <3>2, <3>3, Zenon DEF Queues
    <2>20. /\ r.nodes[n] = t /\ \A m \in Nodes \ {n} : r.nodes[m] = q.nodes[m]
           /\ \A g \in Headers \ {h} : r.inFlight[g] = q.inFlight[g]
           /\ r.inFlight[h] = NoNode
      BY <2>1, <2>5, <2>6, Zenon
    <2>21. QueuesExact(r)
      BY <2>1, <2>9, <2>12, <2>13, <2>17, <2>18, <2>19, <2>20, OneNode
    <2>22. Keeps(q, r)
      BY <2>8, <2>13, <2>20, Zenon DEF Keeps
    <2>23. \A m \in Nodes : r.nodes[m].nBlocksInFlight <= q.nodes[m].nBlocksInFlight
      <3>1. \A m \in Nodes : q.nodes[m].nBlocksInFlight \in Int
        BY QueueFields, Zenon
      <3> QED  BY <2>8, <2>13, <2>20, <3>1
    <2> QED  BY <2>6, <2>21, <2>22, <2>23, Zenon
  <1> QED  BY <1>1, <1>2, Zenon

\* The queues with one more entry.
WithEntry(q, n, e) ==
    [nodes |-> [q.nodes EXCEPT ![n].vBlocksInFlight = Append(@, e),
                               ![n].nBlocksInFlight = @ + 1,
                               ![n].nBlocksInFlightValidHeaders = @ + AsNumber(e.fValidatedHeaders)],
     inFlight |-> [q.inFlight EXCEPT ![e.hash] = n],
     queued |-> q.queued + AsNumber(e.fValidatedHeaders)]

\* MarkBlockAsInFlight for a block that is in flight from nobody.
LEMMA AddedExact ==
  ASSUME NEW q, QueuesExact(q), NEW n \in Nodes, NEW e \in QueuedBlock, q.inFlight[e.hash] = NoNode,
         q.nodes[n].at # "absent", NEW r,
         r = WithEntry(q, n, e)
  PROVE  /\ QueuesExact(r) /\ Keeps(q, r)
         /\ r.inFlight = [q.inFlight EXCEPT ![e.hash] = n]
         /\ r.nodes[n].nBlocksInFlight = q.nodes[n].nBlocksInFlight + 1
         /\ \A m \in Nodes \ {n} : r.nodes[m].nBlocksInFlight = q.nodes[m].nBlocksInFlight
  <1> DEFINE s == q.nodes[n]
             h == e.hash
             b == e.fValidatedHeaders
             valid == AsNumber(b)
             t == [s EXCEPT !.vBlocksInFlight = Append(@, e), !.nBlocksInFlight = @ + 1,
                            !.nBlocksInFlightValidHeaders = @ + valid]
  <1>1. ListExact(s, q.inFlight, n) /\ StateExact(s)
    BY Zenon DEF QueuesExact
  <1>2. /\ s \in NodeStates /\ s.vBlocksInFlight \in Seq(QueuedBlock)
        /\ s.nBlocksInFlight \in Int /\ s.nBlocksInFlightValidHeaders \in Int /\ q.queued \in Int
        /\ q.nodes \in [Nodes -> NodeStates] /\ q.inFlight \in [Headers -> Nodes \cup {NoNode}]
    BY QueueFields, Zenon
  <1>3. h \in Headers /\ b \in BOOLEAN /\ valid \in Int
    BY DEF QueuedBlock, AsNumber
  <1>4. /\ r = [nodes |-> r.nodes, inFlight |-> r.inFlight, queued |-> r.queued]
        /\ r.nodes = [q.nodes EXCEPT ![n] = t]
        /\ r.inFlight = [q.inFlight EXCEPT ![h] = n]
        /\ r.queued = q.queued + valid
    <2>1. [q.nodes EXCEPT ![n].vBlocksInFlight = Append(@, e),
                          ![n].nBlocksInFlight = @ + 1,
                          ![n].nBlocksInFlightValidHeaders = @ + valid] = [q.nodes EXCEPT ![n] = t]
      BY <1>2, Zenon DEF NodeStates
    <2>2. r = [nodes |-> [q.nodes EXCEPT ![n] = t], inFlight |-> [q.inFlight EXCEPT ![h] = n],
               queued |-> q.queued + valid]
      BY <2>1, Zenon DEF WithEntry
    <2> HIDE DEF h, valid, t
    <2> QED  BY <2>2
  <1>5. /\ t.vBlocksInFlight = Append(s.vBlocksInFlight, e)
        /\ t.nBlocksInFlight = s.nBlocksInFlight + 1
        /\ t.nBlocksInFlightValidHeaders = s.nBlocksInFlightValidHeaders + valid
        /\ t.nStallingSince = s.nStallingSince /\ t.at = s.at /\ t.fSyncStarted = s.fSyncStarted
        /\ t.fPreferredDownload = s.fPreferredDownload
    <2> HIDE DEF valid, s
    <2> QED  BY <1>2, Zenon DEF NodeStates
  <1>6. /\ ListExact(t, r.inFlight, n)
        /\ ValidAsked(t) = IF b THEN ValidAsked(s) \cup {h} ELSE ValidAsked(s)
        /\ h \notin ValidAsked(s)
        /\ t.vBlocksInFlight \in Seq(QueuedBlock)
        /\ Len(t.vBlocksInFlight) = Len(s.vBlocksInFlight) + 1
    <2> HIDE DEF t
    <2>1. EntryAdded(s, t, q.inFlight, r.inFlight, n, e)
      BY <1>1, <1>2, <1>4, <1>5, DownloadAssumption, Zenon DEF EntryAdded
    <2> QED  BY <2>1, AppendedList, Zenon
  <1>7. t \in NodeStates
    <2>1. Append(s.vBlocksInFlight, e) \in Seq(QueuedBlock)
      BY <1>5, <1>6, Zenon
    <2>2. s.nBlocksInFlight + 1 \in Int /\ s.nBlocksInFlightValidHeaders + valid \in Int
      BY <1>2, <1>3
    <2> HIDE DEF s, valid
    <2> QED  BY <1>2, <2>1, <2>2, Zenon DEF NodeStates
  <1> HIDE DEF t
  <1>8. StateExact(t)
    <2>1. /\ IsFiniteSet(ValidAsked(s)) /\ s.nBlocksInFlightValidHeaders = Cardinality(ValidAsked(s))
          /\ s.nBlocksInFlight = Len(s.vBlocksInFlight)
      BY <1>1, Zenon DEF StateExact
    <2>2. /\ IsFiniteSet(ValidAsked(t)) /\ Cardinality(ValidAsked(t)) = Cardinality(ValidAsked(s)) + AsNumber(b)
      BY <1>3, <1>6, <2>1, OneMore, ZenonT(60)
    <2>3. t.vBlocksInFlight # <<>>
      BY <1>2, <1>5
    <2> QED  BY <1>5, <1>6, <2>1, <2>2, <2>3, Zenon DEF StateExact
  <1> HIDE DEF s, b, h, valid
  <1>9. AllValidAsked(r.nodes) = IF b THEN AllValidAsked(q.nodes) \cup {h} ELSE AllValidAsked(q.nodes)
    <2>1. \A m \in Nodes \ {n} : r.nodes[m] = q.nodes[m]
      BY <1>2, <1>4, Zenon
    <2>2. r.nodes[n] = t /\ q.nodes[n] = s
      BY <1>2, <1>4, Zenon DEF s
    <2>3. ASSUME NEW g
          PROVE  (\E m \in Nodes : g \in ValidAsked(r.nodes[m])) <=> (\E m \in Nodes : g \in ValidAsked(q.nodes[m])) \/ (b /\ g = h)
      BY <1>6, <2>1, <2>2, Zenon
    <2> QED  BY <2>3, ZenonT(60) DEF AllValidAsked
  <1>10. h \notin AllValidAsked(q.nodes)
    <2>1. \A m \in Nodes : h \notin ValidAsked(q.nodes[m])
      BY ValidInFlight, DownloadAssumption DEF h
    <2> QED  BY <2>1, Zenon DEF AllValidAsked
  <1>11. IsFiniteSet(AllValidAsked(q.nodes)) /\ q.queued >= Cardinality(AllValidAsked(q.nodes))
    BY Zenon DEF QueuesExact
  <1>12. /\ IsFiniteSet(AllValidAsked(r.nodes))
         /\ Cardinality(AllValidAsked(r.nodes)) = Cardinality(AllValidAsked(q.nodes)) + AsNumber(b)
         /\ Cardinality(AllValidAsked(q.nodes)) \in Nat
    BY <1>3, <1>9, <1>10, <1>11, OneMore, Zenon
  <1>13. r.queued >= Cardinality(AllValidAsked(r.nodes))
    BY <1>2, <1>3, <1>4, <1>11, <1>12 DEF valid
  <1>14. r \in Queues
    <2>1. r.nodes \in [Nodes -> NodeStates]
      BY <1>2, <1>4, <1>7, Zenon
    <2>2. r.inFlight \in [Headers -> Nodes \cup {NoNode}]
      BY <1>2, <1>3, <1>4, Zenon
    <2>3. r.queued \in Int
      BY <1>2, <1>3, <1>4
    <2> QED  BY <1>4, <2>1, <2>2, <2>3, Zenon DEF Queues
  <1>15. /\ r.nodes[n] = t /\ \A m \in Nodes \ {n} : r.nodes[m] = q.nodes[m]
         /\ \A g \in Headers \ {h} : r.inFlight[g] = q.inFlight[g]
         /\ r.inFlight[h] = n
    BY <1>2, <1>3, <1>4, Zenon
  <1>16. q.inFlight[h] = NoNode /\ q.nodes[n] = s
    BY Zenon DEF h, s
  <1>17. QueuesExact(r)
    BY <1>3, <1>6, <1>8, <1>12, <1>13, <1>14, <1>15, <1>16, OneNode
  <1>18. Keeps(q, r)
    BY <1>5, <1>15, <1>16, Zenon DEF Keeps
  <1> QED  BY <1>4, <1>5, <1>15, <1>16, <1>17, <1>18, Zenon DEF h

\* What is left alone by two calls.
LEMMA KeepsTrans ==
  ASSUME NEW q, NEW r, NEW u, Keeps(q, r), Keeps(r, u)
  PROVE  Keeps(q, u)
  BY Zenon DEF Keeps

\* MarkBlockAsInFlight puts the block in the list of the peer, and in no other.
LEMMA InFlightAdded ==
  ASSUME NEW q, QueuesExact(q), NEW n \in Nodes, NEW h \in Headers, NEW fValidated \in BOOLEAN,
         q.nodes[n].at # "absent", NEW u, u = MarkBlockAsInFlight(q, n, h, fValidated)
  PROVE  /\ QueuesExact(u) /\ Keeps(q, u)
         /\ u.inFlight = [q.inFlight EXCEPT ![h] = n]
         /\ u.nodes[n].nBlocksInFlight <= q.nodes[n].nBlocksInFlight + 1
         /\ \A m \in Nodes \ {n} : u.nodes[m].nBlocksInFlight <= q.nodes[m].nBlocksInFlight
  <1> DEFINE r == MarkBlockAsReceived(q, h)
             e == [hash |-> h, fValidatedHeaders |-> fValidated, left |-> GetBlockTimeout(r.queued)]
  <1>1. /\ QueuesExact(r) /\ Keeps(q, r)
        /\ r.inFlight = [q.inFlight EXCEPT ![h] = NoNode]
        /\ \A m \in Nodes : r.nodes[m].nBlocksInFlight <= q.nodes[m].nBlocksInFlight
    BY ReceivedExact, Zenon
  <1>2. u = [nodes |-> [r.nodes EXCEPT ![n].vBlocksInFlight = Append(@, e),
                                       ![n].nBlocksInFlight = @ + 1,
                                       ![n].nBlocksInFlightValidHeaders = @ + AsNumber(fValidated)],
             inFlight |-> [r.inFlight EXCEPT ![h] = n],
             queued |-> r.queued + AsNumber(fValidated)]
    BY Zenon DEF MarkBlockAsInFlight
  <1> HIDE DEF r
  <1>3. r.queued \in Int
    BY <1>1, QueueFields, Zenon
  <1>4. e \in QueuedBlock /\ e.hash = h /\ e.fValidatedHeaders = fValidated
    BY <1>3 DEF QueuedBlock, GetBlockTimeout
  <1> HIDE DEF e
  <1>5. q.inFlight \in [Headers -> Nodes \cup {NoNode}]
    BY QueueFields, Zenon
  <1>6. r.inFlight[e.hash] = NoNode
    BY <1>1, <1>4, <1>5, Zenon
  <1>7. r.nodes[n].at # "absent"
    BY <1>1, Zenon DEF Keeps
  <1>8. u = WithEntry(r, n, e)
    BY <1>2, <1>4, Zenon DEF WithEntry
  <1>9. /\ QueuesExact(u) /\ Keeps(r, u)
        /\ u.inFlight = [r.inFlight EXCEPT ![h] = n]
        /\ u.nodes[n].nBlocksInFlight = r.nodes[n].nBlocksInFlight + 1
        /\ \A m \in Nodes \ {n} : u.nodes[m].nBlocksInFlight = r.nodes[m].nBlocksInFlight
    <2>1. e \in QueuedBlock /\ QueuesExact(r)
      BY <1>1, <1>4, Zenon
    <2>2. /\ QueuesExact(u) /\ Keeps(r, u)
          /\ u.inFlight = [r.inFlight EXCEPT ![e.hash] = n]
          /\ u.nodes[n].nBlocksInFlight = r.nodes[n].nBlocksInFlight + 1
          /\ \A m \in Nodes \ {n} : u.nodes[m].nBlocksInFlight = r.nodes[m].nBlocksInFlight
      BY <1>6, <1>7, <1>8, <2>1, AddedExact
    <2> QED  BY <1>4, <2>2, Zenon
  <1>10. u.inFlight = [q.inFlight EXCEPT ![h] = n]
    BY <1>1, <1>5, <1>9, Zenon
  <1>11. \A m \in Nodes : q.nodes[m].nBlocksInFlight \in Int /\ r.nodes[m].nBlocksInFlight \in Int
    BY <1>1, QueueFields, Zenon
  <1>12. /\ u.nodes[n].nBlocksInFlight <= q.nodes[n].nBlocksInFlight + 1
         /\ \A m \in Nodes \ {n} : u.nodes[m].nBlocksInFlight <= q.nodes[m].nBlocksInFlight
    BY <1>1, <1>9, <1>11
  <1> QED  BY <1>1, <1>9, <1>10, <1>12, KeepsTrans, Zenon

-----------------------------------------------------------------------------
(* What the handlers do to a CNodeState besides its list. *)

\* The lists of s and t name the same blocks, and are counted alike.
Alike(s, t) ==
    /\ Len(t.vBlocksInFlight) = Len(s.vBlocksInFlight)
    /\ \A i \in DOMAIN s.vBlocksInFlight :
          /\ t.vBlocksInFlight[i].hash = s.vBlocksInFlight[i].hash
          /\ t.vBlocksInFlight[i].fValidatedHeaders = s.vBlocksInFlight[i].fValidatedHeaders
    /\ t.nBlocksInFlight = s.nBlocksInFlight
    /\ t.nBlocksInFlightValidHeaders = s.nBlocksInFlightValidHeaders

\* A list like another is as exact.
LEMMA AlikeExact ==
  ASSUME NEW s \in NodeStates, NEW t \in NodeStates, Alike(s, t), NEW inFlight, NEW n,
         ListExact(s, inFlight, n), StateExact(s),
         t.at = "absent" => t = CNodeState, t.nStallingSince # "no" => t.vBlocksInFlight # <<>>
  PROVE  ListExact(t, inFlight, n) /\ StateExact(t) /\ ValidAsked(t) = ValidAsked(s)
  <1>1. s.vBlocksInFlight \in Seq(QueuedBlock) /\ t.vBlocksInFlight \in Seq(QueuedBlock)
    BY Zenon DEF NodeStates
  <1>2. DOMAIN t.vBlocksInFlight = DOMAIN s.vBlocksInFlight
    BY <1>1 DEF Alike
  <1>3. ValidAsked(t) = ValidAsked(s)
    BY <1>2, Zenon DEF ValidAsked, Alike
  <1>4. ListExact(t, inFlight, n)
    BY <1>2, ZenonT(60) DEF ListExact, Alike
  <1>5. StateExact(t)
    BY <1>3, Zenon DEF StateExact, Alike
  <1> QED  BY <1>3, <1>4, <1>5, Zenon

\* So queues that differ in such states only are exact.
LEMMA AlikeQueues ==
  ASSUME NEW q, QueuesExact(q), NEW r \in Queues, r.inFlight = q.inFlight, r.queued = q.queued,
         \A n \in Nodes : /\ Alike(q.nodes[n], r.nodes[n])
                          /\ r.nodes[n].at = "absent" => r.nodes[n] = CNodeState
                          /\ r.nodes[n].nStallingSince # "no" => r.nodes[n].vBlocksInFlight # <<>>
  PROVE  QueuesExact(r)
  <1>1. \A n \in Nodes : q.nodes[n] \in NodeStates /\ r.nodes[n] \in NodeStates
    BY Zenon DEF QueuesExact, Queues
  <1>2. \A n \in Nodes : ListExact(q.nodes[n], q.inFlight, n) /\ StateExact(q.nodes[n])
    BY Zenon DEF QueuesExact
  <1>3. ASSUME NEW n \in Nodes
        PROVE  /\ ListExact(r.nodes[n], r.inFlight, n) /\ StateExact(r.nodes[n])
               /\ ValidAsked(r.nodes[n]) = ValidAsked(q.nodes[n])
    <2>1. ListExact(q.nodes[n], r.inFlight, n)
      BY <1>2, Zenon
    <2> QED  BY <1>1, <1>2, <2>1, AlikeExact
  <1>4. AllValidAsked(r.nodes) = AllValidAsked(q.nodes)
    BY <1>3, Zenon DEF AllValidAsked
  <1>5. /\ IsFiniteSet(AllValidAsked(q.nodes))
        /\ q.queued >= Cardinality(AllValidAsked(q.nodes))
    BY Zenon DEF QueuesExact
  <1>6. /\ IsFiniteSet(AllValidAsked(r.nodes))
        /\ r.queued >= Cardinality(AllValidAsked(r.nodes))
    BY <1>4, <1>5, Zenon
  <1> QED  BY <1>3, <1>6, Zenon DEF QueuesExact

\* The state of one peer is replaced.
WithNode(q, n, t) == [q EXCEPT !.nodes[n] = t]

Replaced(r, q, n, t) ==
    /\ r \in Queues /\ r.nodes = [q.nodes EXCEPT ![n] = t]
    /\ r.inFlight = q.inFlight /\ r.queued = q.queued
    /\ r.nodes[n] = t /\ \A m \in Nodes \ {n} : r.nodes[m] = q.nodes[m]

LEMMA WithNodeFields ==
  ASSUME NEW q \in Queues, NEW n \in Nodes, NEW t \in NodeStates
  PROVE  Replaced(WithNode(q, n, t), q, n, t)
  BY Zenon DEF WithNode, Queues, Replaced

LEMMA AlikeNode ==
  ASSUME NEW q, QueuesExact(q), NEW n \in Nodes, NEW t \in NodeStates,
         Alike(q.nodes[n], t), t.at # "absent",
         t.nStallingSince = "no" \/ t.nStallingSince = q.nodes[n].nStallingSince \/ t.vBlocksInFlight # <<>>
  PROVE  QueuesExact(WithNode(q, n, t))
  <1> DEFINE r == WithNode(q, n, t)
  <1>1. q \in Queues
    BY Zenon DEF QueuesExact
  <1>2. /\ r \in Queues /\ r.inFlight = q.inFlight /\ r.queued = q.queued
        /\ r.nodes[n] = t /\ \A m \in Nodes \ {n} : r.nodes[m] = q.nodes[m]
    BY <1>1, Zenon DEF WithNode, Queues
  <1>3. \A m \in Nodes : Alike(q.nodes[m], q.nodes[m]) /\ StateExact(q.nodes[m])
    <2>1. \A m \in Nodes : StateExact(q.nodes[m])
      BY Zenon DEF QueuesExact
    <2>2. \A m \in Nodes : Alike(q.nodes[m], q.nodes[m])
      BY Zenon DEF Alike
    <2> QED  BY <2>1, <2>2, Zenon
  <1>4. \A m \in Nodes : q.nodes[m].vBlocksInFlight \in Seq(QueuedBlock) /\ q.nodes[m] \in NodeStates
    BY QueueFields, Zenon
  <1> HIDE DEF r
  <1>5. ASSUME NEW m \in Nodes
        PROVE  /\ Alike(q.nodes[m], r.nodes[m])
               /\ r.nodes[m].at = "absent" => r.nodes[m] = CNodeState
               /\ r.nodes[m].nStallingSince # "no" => r.nodes[m].vBlocksInFlight # <<>>
    <2>1. CASE m # n
      BY <1>2, <1>3, <2>1, Zenon DEF StateExact
    <2>2. CASE m = n
      <3>1. t.vBlocksInFlight \in Seq(QueuedBlock)
        BY Zenon DEF NodeStates
      <3>2. q.nodes[n].vBlocksInFlight # <<>> => t.vBlocksInFlight # <<>>
        BY <1>4, <3>1 DEF Alike
      <3>3. q.nodes[n].nStallingSince # "no" => q.nodes[n].vBlocksInFlight # <<>>
        BY <1>3, Zenon DEF StateExact
      <3> QED  BY <1>2, <2>2, <3>2, <3>3, Zenon
    <2> QED  BY <2>1, <2>2, Zenon
  <1>6. QueuesExact(r)
    BY <1>2, <1>5, AlikeQueues, Zenon
  <1> QED  BY <1>6, Zenon DEF r

\* What the handlers note about the blocks of the peer touches nothing else.
Noted(s, t) ==
    /\ t \in NodeStates
    /\ t.vBlocksInFlight = s.vBlocksInFlight /\ t.nBlocksInFlight = s.nBlocksInFlight
    /\ t.nBlocksInFlightValidHeaders = s.nBlocksInFlightValidHeaders
    /\ t.nStallingSince = s.nStallingSince /\ t.at = s.at
    /\ t.fSyncStarted = s.fSyncStarted /\ t.fPreferredDownload = s.fPreferredDownload

LEMMA NotedTrans ==
  ASSUME NEW s, NEW t, NEW u, Noted(s, t), Noted(t, u)
  PROVE  Noted(s, u)
  BY Zenon DEF Noted

LEMMA NoteNoted ==
  ASSUME NEW s \in NodeStates, NEW h \in Headers
  PROVE  /\ Noted(s, NoteBlock(s, h))
         /\ Noted(s, [s EXCEPT !.hashLastUnknownBlock = h])
         /\ Noted(s, [s EXCEPT !.hashLastUnknownBlock = None])
         /\ Noted(s, [s EXCEPT !.pindexLastCommonBlock = h])
         /\ Noted(s, [s EXCEPT !.pindexLastCommonBlock = None])
  BY DEF NodeStates, Noted, NoteBlock

LEMMA AvailabilityNoted ==
  ASSUME NEW s \in NodeStates, NEW index \in SUBSET Headers
  PROVE  /\ Noted(s, ProcessBlockAvailability(s, index))
         /\ \A h \in Headers : Noted(s, UpdateBlockAvailability(s, h, index))
  <1>1. Noted(s, s)
    BY Zenon DEF Noted
  <1>2. ASSUME NEW u \in NodeStates
        PROVE  Noted(u, ProcessBlockAvailability(u, index))
    <2>1. CASE u.hashLastUnknownBlock \in index
      <3> DEFINE v == NoteBlock(u, u.hashLastUnknownBlock)
      <3>1. Noted(u, v)
        BY <2>1, NoteNoted, Zenon
      <3>2. v \in NodeStates
        BY <3>1, Zenon DEF Noted
      <3>3. Noted(v, [v EXCEPT !.hashLastUnknownBlock = None])
        BY <3>2, NoteNoted, DownloadAssumption, Zenon
      <3>4. ProcessBlockAvailability(u, index) = [v EXCEPT !.hashLastUnknownBlock = None]
        BY <2>1, Zenon DEF ProcessBlockAvailability
      <3> QED  BY <3>1, <3>3, <3>4, NotedTrans, Zenon
    <2>2. CASE u.hashLastUnknownBlock \notin index
      BY <2>2, Zenon DEF ProcessBlockAvailability, Noted
    <2> QED  BY <2>1, <2>2, Zenon
  <1>3. ASSUME NEW h \in Headers
        PROVE  Noted(s, UpdateBlockAvailability(s, h, index))
    <2> DEFINE p == ProcessBlockAvailability(s, index)
    <2>1. Noted(s, p)
      BY <1>2, Zenon
    <2>2. p \in NodeStates
      BY <2>1, Zenon DEF Noted
    <2>3. /\ Noted(p, NoteBlock(p, h)) /\ Noted(p, [p EXCEPT !.hashLastUnknownBlock = h])
      BY <2>2, NoteNoted, Zenon
    <2>4. UpdateBlockAvailability(s, h, index) = IF h \in index THEN NoteBlock(p, h) ELSE [p EXCEPT !.hashLastUnknownBlock = h]
      BY Zenon DEF UpdateBlockAvailability
    <2> QED  BY <2>1, <2>3, <2>4, NotedTrans, Zenon
  <1> QED  BY <1>2, <1>3, Zenon

LEMMA NotedQueues ==
  ASSUME NEW q, QueuesExact(q), NEW n \in Nodes, NEW t, Noted(q.nodes[n], t), q.nodes[n].at # "absent"
  PROVE  /\ QueuesExact(WithNode(q, n, t)) /\ Keeps(q, WithNode(q, n, t))
         /\ WithNode(q, n, t).inFlight = q.inFlight
         /\ \A m \in Nodes : WithNode(q, n, t).nodes[m].nBlocksInFlight = q.nodes[m].nBlocksInFlight
  <1>1. /\ t \in NodeStates /\ t.at # "absent" /\ t.nStallingSince = q.nodes[n].nStallingSince
        /\ Alike(q.nodes[n], t) /\ q \in Queues
    <2>1. t \in NodeStates /\ t.at # "absent" /\ t.nStallingSince = q.nodes[n].nStallingSince
      BY Zenon DEF Noted
    <2>2. Alike(q.nodes[n], t)
      BY Zenon DEF Noted, Alike
    <2> QED  BY <2>1, <2>2, Zenon DEF QueuesExact
  <1>2. QueuesExact(WithNode(q, n, t))
    BY <1>1, AlikeNode, Zenon
  <1>3. /\ WithNode(q, n, t).inFlight = q.inFlight /\ WithNode(q, n, t).nodes[n] = t
        /\ \A m \in Nodes \ {n} : WithNode(q, n, t).nodes[m] = q.nodes[m]
    BY <1>1, Zenon DEF WithNode, Queues
  <1> QED  BY <1>2, <1>3, Zenon DEF Keeps, Noted

-----------------------------------------------------------------------------
(* Folds over the first m numbers. *)

\* The last of the numbers up to k.
LEMMA MaxUpTo ==
  ASSUME NEW k \in Nat, NEW s \in SUBSET (1..(k + 1)), k + 1 \in s
  PROVE  Max(s) = k + 1
  <1>1. \A y \in s : k + 1 >= y
    OBVIOUS
  <1>2. \A x \in s : (\A y \in s : x >= y) => x = k + 1
    OBVIOUS
  <1>3. \E x \in s : \A y \in s : x >= y
    BY <1>1, Zenon
  <1>4. Max(s) \in s /\ \A y \in s : Max(s) >= y
    BY <1>3, Zenon DEF Max
  <1> QED  BY <1>2, <1>4, Zenon

\* A fold of WalkBlock chooses such a function.
IsWalkFold(iter, base, seq, n, best, count, nWindowEnd, S) ==
    iter = [s \in SUBSET S |->
        IF s = {} THEN base
        ELSE WalkBlock(iter[s \ {Max(s)}], seq[Max(s)], n, best, count, nWindowEnd)]

LEMMA WalkFoldExists ==
  ASSUME NEW base, NEW seq, NEW n, NEW best, NEW count, NEW nWindowEnd, NEW m \in Nat
  PROVE  \E iter : IsWalkFold(iter, base, seq, n, best, count, nWindowEnd, 1..m)
  <1> DEFINE Op(w, x) == WalkBlock(w, seq[x], n, best, count, nWindowEnd)
  <1> HIDE DEF Op
  <1> DEFINE K == {k \in Nat : \E g : g = [s \in SUBSET (1..k) |->
                      IF s = {} THEN base ELSE Op(g[s \ {Max(s)}], Max(s))]}
  <1>1. 0 \in K
    <2> DEFINE g == [s \in SUBSET (1..0) |-> base]
    <2>1. \A s \in SUBSET (1..0) : s = {}
      OBVIOUS
    <2>2. g = [s \in SUBSET (1..0) |-> IF s = {} THEN base ELSE Op(g[s \ {Max(s)}], Max(s))]
      BY <2>1, Zenon
    <2> HIDE DEF g
    <2> QED  BY <2>2, Zenon
  <1>2. ASSUME NEW k \in 0..(m - 1), k \in K
        PROVE  k + 1 \in K
    <2>1. PICK g : g = [s \in SUBSET (1..k) |-> IF s = {} THEN base ELSE Op(g[s \ {Max(s)}], Max(s))]
      BY <1>2, Zenon
    <2> DEFINE f == [s \in SUBSET (1..(k + 1)) |-> IF k + 1 \in s THEN Op(g[s \ {k + 1}], k + 1) ELSE g[s]]
    <2>2. \A s \in SUBSET (1..k) : g[s] = IF s = {} THEN base ELSE Op(g[s \ {Max(s)}], Max(s))
      BY <2>1, Zenon
    <2>3. \A s \in SUBSET (1..(k + 1)) : s \in SUBSET (1..k) <=> k + 1 \notin s
      OBVIOUS
    <2>4. \A s \in SUBSET (1..k) : s \in SUBSET (1..(k + 1)) /\ f[s] = g[s]
      OBVIOUS
    <2>5. ASSUME NEW s \in SUBSET (1..(k + 1))
          PROVE  f[s] = IF s = {} THEN base ELSE Op(f[s \ {Max(s)}], Max(s))
      <3>1. CASE k + 1 \in s
        <4>1. Max(s) = k + 1
          BY <3>1, MaxUpTo
        <4>2. s \ {k + 1} \in SUBSET (1..k)
          OBVIOUS
        <4>3. f[s \ {k + 1}] = g[s \ {k + 1}]
          BY <2>4, <4>2, Zenon
        <4>4. f[s] = Op(g[s \ {k + 1}], k + 1)
          BY <3>1, Zenon
        <4> HIDE DEF f
        <4> QED  BY <3>1, <4>1, <4>3, <4>4, Zenon
      <3>2. CASE k + 1 \notin s
        <4>1. s \in SUBSET (1..k) /\ s \ {Max(s)} \in SUBSET (1..k)
          BY <2>3, <3>2, Zenon
        <4>2. f[s] = g[s] /\ f[s \ {Max(s)}] = g[s \ {Max(s)}]
          BY <2>4, <4>1, Zenon
        <4> HIDE DEF f
        <4> QED  BY <2>2, <4>1, <4>2, Zenon
      <3> QED  BY <3>1, <3>2, Zenon
    <2>6. f = [s \in SUBSET (1..(k + 1)) |-> f[s]]
      BY Zenon
    <2>7. f = [s \in SUBSET (1..(k + 1)) |-> IF s = {} THEN base ELSE Op(f[s \ {Max(s)}], Max(s))]
      <3> HIDE DEF f
      <3> QED  BY <2>5, <2>6, Zenon
    <2> HIDE DEF f
    <2>8. \E e : e = [s \in SUBSET (1..(k + 1)) |-> IF s = {} THEN base ELSE Op(e[s \ {Max(s)}], Max(s))]
      BY <2>7, Zenon
    <2>9. k + 1 \in Nat
      OBVIOUS
    <2> QED  BY <2>8, <2>9, Zenon
  <1>3. m \in K
    <2>1. \A k \in 0..(m - 1) : k \in K => k + 1 \in K
      BY <1>2, Zenon
    <2> HIDE DEF K
    <2> QED  BY <1>1, <2>1, Counting, Zenon
  <1>4. \E g : g = [s \in SUBSET (1..m) |-> IF s = {} THEN base ELSE Op(g[s \ {Max(s)}], Max(s))]
    BY <1>3, Zenon
  <1> QED  BY <1>4, Zenon DEF Op, IsWalkFold

\* Its values, on the first numbers.
WalkFoldStep(iter, base, seq, n, best, count, nWindowEnd, m) ==
    /\ iter[{}] = base
    /\ \A k \in 0..(m - 1) : iter[1..(k + 1)] = WalkBlock(iter[1..k], seq[k + 1], n, best, count, nWindowEnd)

LEMMA WalkFoldSteps ==
  ASSUME NEW base, NEW seq, NEW n, NEW best, NEW count, NEW nWindowEnd, NEW m \in Nat, NEW iter,
         IsWalkFold(iter, base, seq, n, best, count, nWindowEnd, 1..m)
  PROVE  WalkFoldStep(iter, base, seq, n, best, count, nWindowEnd, m)
  <1>2. \A s \in SUBSET (1..m) : iter[s] =
            IF s = {} THEN base
            ELSE WalkBlock(iter[s \ {Max(s)}], seq[Max(s)], n, best, count, nWindowEnd)
    BY Zenon DEF IsWalkFold
  <1>3. iter[{}] = base
    BY <1>2, Zenon
  <1>4. ASSUME NEW k \in 0..(m - 1)
        PROVE  iter[1..(k + 1)] = WalkBlock(iter[1..k], seq[k + 1], n, best, count, nWindowEnd)
    <2>1. 1..(k + 1) \in SUBSET (1..m) /\ k + 1 \in 1..(k + 1) /\ k \in Nat
      OBVIOUS
    <2>2. Max(1..(k + 1)) = k + 1
      BY <2>1, MaxUpTo, Zenon
    <2>3. (1..(k + 1)) \ {k + 1} = 1..k
      BY <2>1
    <2>4. 1..(k + 1) # {}
      BY <2>1, Zenon
    <2> QED  BY <1>2, <2>1, <2>2, <2>3, <2>4, Zenon
  <1> QED  BY <1>3, <1>4, Zenon DEF WalkFoldStep
\* The same for a fold of MarkBlockAsInFlight.
IsAskFold(iter, base, seq, n, S) ==
    iter = [s \in SUBSET S |->
        IF s = {} THEN base
        ELSE MarkBlockAsInFlight(iter[s \ {Max(s)}], n, seq[Max(s)], TRUE)]

LEMMA AskFoldExists ==
  ASSUME NEW base, NEW seq, NEW n, NEW m \in Nat
  PROVE  \E iter : IsAskFold(iter, base, seq, n, 1..m)
  <1> DEFINE Op(w, x) == MarkBlockAsInFlight(w, n, seq[x], TRUE)
  <1> HIDE DEF Op
  <1> DEFINE K == {k \in Nat : \E g : g = [s \in SUBSET (1..k) |->
                      IF s = {} THEN base ELSE Op(g[s \ {Max(s)}], Max(s))]}
  <1>1. 0 \in K
    <2> DEFINE g == [s \in SUBSET (1..0) |-> base]
    <2>1. \A s \in SUBSET (1..0) : s = {}
      OBVIOUS
    <2>2. g = [s \in SUBSET (1..0) |-> IF s = {} THEN base ELSE Op(g[s \ {Max(s)}], Max(s))]
      BY <2>1, Zenon
    <2> HIDE DEF g
    <2> QED  BY <2>2, Zenon
  <1>2. ASSUME NEW k \in 0..(m - 1), k \in K
        PROVE  k + 1 \in K
    <2>1. PICK g : g = [s \in SUBSET (1..k) |-> IF s = {} THEN base ELSE Op(g[s \ {Max(s)}], Max(s))]
      BY <1>2, Zenon
    <2> DEFINE f == [s \in SUBSET (1..(k + 1)) |-> IF k + 1 \in s THEN Op(g[s \ {k + 1}], k + 1) ELSE g[s]]
    <2>2. \A s \in SUBSET (1..k) : g[s] = IF s = {} THEN base ELSE Op(g[s \ {Max(s)}], Max(s))
      BY <2>1, Zenon
    <2>3. \A s \in SUBSET (1..(k + 1)) : s \in SUBSET (1..k) <=> k + 1 \notin s
      OBVIOUS
    <2>4. \A s \in SUBSET (1..k) : s \in SUBSET (1..(k + 1)) /\ f[s] = g[s]
      OBVIOUS
    <2>5. ASSUME NEW s \in SUBSET (1..(k + 1))
          PROVE  f[s] = IF s = {} THEN base ELSE Op(f[s \ {Max(s)}], Max(s))
      <3>1. CASE k + 1 \in s
        <4>1. Max(s) = k + 1
          BY <3>1, MaxUpTo
        <4>2. s \ {k + 1} \in SUBSET (1..k)
          OBVIOUS
        <4>3. f[s \ {k + 1}] = g[s \ {k + 1}]
          BY <2>4, <4>2, Zenon
        <4>4. f[s] = Op(g[s \ {k + 1}], k + 1)
          BY <3>1, Zenon
        <4> HIDE DEF f
        <4> QED  BY <3>1, <4>1, <4>3, <4>4, Zenon
      <3>2. CASE k + 1 \notin s
        <4>1. s \in SUBSET (1..k) /\ s \ {Max(s)} \in SUBSET (1..k)
          BY <2>3, <3>2, Zenon
        <4>2. f[s] = g[s] /\ f[s \ {Max(s)}] = g[s \ {Max(s)}]
          BY <2>4, <4>1, Zenon
        <4> HIDE DEF f
        <4> QED  BY <2>2, <4>1, <4>2, Zenon
      <3> QED  BY <3>1, <3>2, Zenon
    <2>6. f = [s \in SUBSET (1..(k + 1)) |-> f[s]]
      BY Zenon
    <2>7. f = [s \in SUBSET (1..(k + 1)) |-> IF s = {} THEN base ELSE Op(f[s \ {Max(s)}], Max(s))]
      <3> HIDE DEF f
      <3> QED  BY <2>5, <2>6, Zenon
    <2> HIDE DEF f
    <2>8. \E e : e = [s \in SUBSET (1..(k + 1)) |-> IF s = {} THEN base ELSE Op(e[s \ {Max(s)}], Max(s))]
      BY <2>7, Zenon
    <2>9. k + 1 \in Nat
      OBVIOUS
    <2> QED  BY <2>8, <2>9, Zenon
  <1>3. m \in K
    <2>1. \A k \in 0..(m - 1) : k \in K => k + 1 \in K
      BY <1>2, Zenon
    <2> HIDE DEF K
    <2> QED  BY <1>1, <2>1, Counting, Zenon
  <1>4. \E g : g = [s \in SUBSET (1..m) |-> IF s = {} THEN base ELSE Op(g[s \ {Max(s)}], Max(s))]
    BY <1>3, Zenon
  <1> QED  BY <1>4, Zenon DEF Op, IsAskFold

\* Its values, on the first numbers.
AskFoldStep(iter, base, seq, n, m) ==
    /\ iter[{}] = base
    /\ \A k \in 0..(m - 1) : iter[1..(k + 1)] = MarkBlockAsInFlight(iter[1..k], n, seq[k + 1], TRUE)

LEMMA AskFoldSteps ==
  ASSUME NEW base, NEW seq, NEW n, NEW m \in Nat, NEW iter,
         IsAskFold(iter, base, seq, n, 1..m)
  PROVE  AskFoldStep(iter, base, seq, n, m)
  <1>2. \A s \in SUBSET (1..m) : iter[s] =
            IF s = {} THEN base
            ELSE MarkBlockAsInFlight(iter[s \ {Max(s)}], n, seq[Max(s)], TRUE)
    BY Zenon DEF IsAskFold
  <1>3. iter[{}] = base
    BY <1>2, Zenon
  <1>4. ASSUME NEW k \in 0..(m - 1)
        PROVE  iter[1..(k + 1)] = MarkBlockAsInFlight(iter[1..k], n, seq[k + 1], TRUE)
    <2>1. 1..(k + 1) \in SUBSET (1..m) /\ k + 1 \in 1..(k + 1) /\ k \in Nat
      OBVIOUS
    <2>2. Max(1..(k + 1)) = k + 1
      BY <2>1, MaxUpTo, Zenon
    <2>3. (1..(k + 1)) \ {k + 1} = 1..k
      BY <2>1
    <2>4. 1..(k + 1) # {}
      BY <2>1, Zenon
    <2> QED  BY <1>2, <2>1, <2>2, <2>3, <2>4, Zenon
  <1> QED  BY <1>3, <1>4, Zenon DEF AskFoldStep

-----------------------------------------------------------------------------
(* FindNextBlocksToDownload. *)

\* Blocks are sequences, and the ancestors of a block are blocks.
LEMMA HeaderSeq ==
  ASSUME NEW h \in Headers
  PROVE  /\ h \in Seq(Range(h)) /\ Len(h) \in Nat
         /\ h \in Seq(UNION {Range(x) : x \in Headers})
  <1>1. h \in Seq(UNION {Range(x) : x \in Headers})
    BY DownloadAssumption, Zenon
  <1>2. Len(h) \in Nat /\ DOMAIN h = 1..Len(h) /\ h = [i \in 1..Len(h) |-> h[i]]
    BY <1>1
  <1>3. \A i \in 1..Len(h) : h[i] \in Range(h)
    BY <1>2, Zenon DEF Range
  <1>4. h \in Seq(Range(h))
    BY <1>2, <1>3
  <1> QED  BY <1>1, <1>2, <1>4, Zenon

LEMMA PrefixHeader ==
  ASSUME NEW h \in Headers, NEW i \in 0..Len(h)
  PROVE  /\ SubSeq(h, 1, i) \in Headers
         /\ Len(SubSeq(h, 1, i)) = i
  <1> DEFINE S == UNION {Range(x) : x \in Headers}
             P(k) == SubSeq(h, 1, Len(h) - k)
             K == {k \in Nat : k <= Len(h) => P(k) \in Headers}
  <1>1. h \in Seq(S) /\ Len(h) \in Nat
    BY HeaderSeq, Zenon
  <1> HIDE DEF S
  <1>2. ASSUME NEW k \in 0..Len(h)
        PROVE  /\ P(k) \in Seq(S) /\ Len(P(k)) = Len(h) - k
               /\ \A j \in 1..(Len(h) - k) : P(k)[j] = h[j]
    <2>1. \A j \in 1..(Len(h) - k) : h[j] \in S
      BY <1>1
    <2>2. Len(h) - k \in Int
      BY <1>1
    <2>3. /\ P(k) \in Seq(S)
          /\ Len(P(k)) = IF 1 <= Len(h) - k THEN (Len(h) - k) - 1 + 1 ELSE 0
          /\ \A j \in 1..((Len(h) - k) - 1 + 1) : P(k)[j] = h[1 + j - 1]
      BY <2>1, <2>2, SubSeqProperties
    <2> QED  BY <1>1, <2>3
  <1>3. 0 \in K
    <2>1. P(0) = h
      BY <1>1
    <2> QED  BY <2>1, Zenon
  <1>4. ASSUME NEW k \in 0..((Len(h) - i) - 1), k \in K
        PROVE  k + 1 \in K
    <2>1. k \in 0..Len(h) /\ k + 1 \in 0..Len(h) /\ k + 1 \in Nat /\ k <= Len(h)
      BY <1>1
    <2>2. P(k) \in Headers /\ P(k) \in Seq(S) /\ Len(P(k)) = Len(h) - k /\ Len(P(k)) > 0
      <3>1. P(k) \in Headers
        BY <1>4, <2>1, Zenon
      <3>2. P(k) \in Seq(S) /\ Len(P(k)) = Len(h) - k
        BY <1>2, <2>1, Zenon
      <3> HIDE DEF P
      <3> QED  BY <1>1, <2>1, <3>1, <3>2
    <2>3. P(k) # <<>>
      <3> HIDE DEF P
      <3> QED  BY <2>2
    <2>4. pprev(P(k)) \in Headers
      BY <2>2, <2>3, DownloadAssumption, Zenon
    <2>5. pprev(P(k)) = P(k + 1)
      <3> DEFINE m == (Len(h) - k) - 1
      <3>0. m \in Nat /\ m = Len(h) - (k + 1) /\ m = Len(P(k)) - 1
        BY <1>1, <2>1, <2>2
      <3>1. pprev(P(k)) = SubSeq(P(k), 1, m)
        BY <3>0, Zenon DEF pprev
      <3>2. P(k + 1) \in Seq(S) /\ Len(P(k + 1)) = m /\ \A j \in 1..m : P(k + 1)[j] = h[j]
        BY <1>2, <2>1, <3>0, Zenon
      <3>3. \A j \in 1..m : P(k)[j] = h[j] /\ P(k)[j] \in S
        <4>1. \A j \in 1..(Len(h) - k) : P(k)[j] = h[j]
          BY <1>2, <2>1, Zenon
        <4>2. \A j \in 1..m : j \in 1..(Len(h) - k) /\ h[j] \in S
          BY <1>1, <2>1, <3>0
        <4> HIDE DEF P, m
        <4> QED  BY <4>1, <4>2, Zenon
      <3> HIDE DEF P, m
      <3>4. /\ SubSeq(P(k), 1, m) \in Seq(S)
            /\ Len(SubSeq(P(k), 1, m)) = IF 1 <= m THEN m - 1 + 1 ELSE 0
            /\ \A j \in 1..(m - 1 + 1) : SubSeq(P(k), 1, m)[j] = P(k)[1 + j - 1]
        BY <3>0, <3>3, SubSeqProperties
      <3>5. Len(SubSeq(P(k), 1, m)) = m /\ \A j \in 1..m : SubSeq(P(k), 1, m)[j] = h[j]
        BY <3>0, <3>3, <3>4
      <3>6. SubSeq(P(k), 1, m) = P(k + 1)
        BY <3>2, <3>4, <3>5, SeqEqual, Zenon
      <3> QED  BY <3>1, <3>6, Zenon
    <2> QED  BY <2>1, <2>4, <2>5, Zenon
  <1>5. Len(h) - i \in Nat /\ Len(h) - i <= Len(h) /\ Len(h) - i \in 0..Len(h)
    BY <1>1
  <1>6. Len(h) - i \in K
    <2>1. \A k \in 0..((Len(h) - i) - 1) : k \in K => k + 1 \in K
      BY <1>4, Zenon
    <2> HIDE DEF K
    <2> QED  BY <1>3, <1>5, <2>1, Counting, Zenon
  <1>7. P(Len(h) - i) \in Headers /\ Len(P(Len(h) - i)) = Len(h) - (Len(h) - i)
    BY <1>2, <1>5, <1>6, Zenon
  <1>8. Len(h) - (Len(h) - i) = i
    BY <1>1
  <1> QED  BY <1>7, <1>8, Zenon

\* The last common ancestor is a block.
LEMMA CommonHeader ==
  ASSUME NEW a \in Headers, NEW b \in Headers
  PROVE  LastCommonAncestor(a, b) \in Headers
  <1> DEFINE C == {i \in 0..Len(a) : i <= Len(b) /\ SubSeq(a, 1, i) = SubSeq(b, 1, i)}
             K == {k \in Nat : \A i \in C : i <= Len(a) - k}
  <1>1. Len(a) \in Nat /\ Len(b) \in Nat
    BY HeaderSeq, Zenon
  <1>2. 0 \in C
    <2>1. SubSeq(a, 1, 0) = <<>> /\ SubSeq(b, 1, 0) = <<>>
      BY SubSeqEmpty
    <2> QED  BY <1>1, <2>1
  <1>3. C \subseteq 0..Len(a)
    BY Zenon
  <1> HIDE DEF C
  <1>4. \E x \in C : \A y \in C : x >= y
    <2>1. SUFFICES ASSUME \A x \in C : \E y \in C : ~(x >= y) PROVE FALSE
      BY Zenon
    <2>2. ASSUME NEW k \in 0..((Len(a) + 1) - 1), k \in K
          PROVE  k + 1 \in K
      <3>1. ASSUME NEW x \in C
            PROVE  x <= Len(a) - (k + 1)
        <4>1. PICK y \in C : ~(x >= y)
          BY <2>1, Zenon
        <4> QED  BY <1>1, <1>3, <2>2, <4>1
      <3> QED  BY <3>1
    <2>3. 0 \in K
      BY <1>1, <1>3
    <2>4. Len(a) + 1 \in Nat /\ \A k \in 0..((Len(a) + 1) - 1) : k \in K => k + 1 \in K
      BY <1>1, <2>2
    <2>5. Len(a) + 1 \in K
      <3> HIDE DEF K
      <3> QED  BY <2>3, <2>4, Counting, Zenon
    <2> QED  BY <1>1, <1>2, <2>5
  <1>5. Max(C) \in C
    BY <1>4, Zenon DEF Max
  <1>6. LastCommonAncestor(a, b) = SubSeq(a, 1, Max(C))
    BY Zenon DEF LastCommonAncestor, C
  <1> QED  BY <1>3, <1>5, <1>6, PrefixHeader, Zenon

\* The variables of the walk.
Walks == [common : Headers \cup {None}, vBlocks : Seq(Headers), staller : Nodes \cup {NoNode},
          waitingfor : Nodes \cup {NoNode}, returned : BOOLEAN]

\* It finds no more blocks than asked for and none that we have, and names a staller only when it
\* found none: a peer other than n from which a block is in flight.
WalkFits(w, n, count) ==
    /\ w \in Walks
    /\ Len(w.vBlocks) <= count /\ (~w.returned => Len(w.vBlocks) < count)
    /\ \A i \in DOMAIN w.vBlocks : w.vBlocks[i] \notin haveData
    /\ w.waitingfor # NoNode => \E h \in Headers : mapBlocksInFlight[h] = w.waitingfor
    /\ w.staller # NoNode => /\ w.returned /\ w.vBlocks = <<>> /\ w.staller # n
                             /\ \E h \in Headers : mapBlocksInFlight[h] = w.staller

LEMMA WalkStep ==
  ASSUME NEW w, NEW n, NEW count \in Nat, NEW best \in Headers, NEW i \in 0..Len(best), NEW nWindowEnd,
         mapBlocksInFlight \in [Headers -> Nodes \cup {NoNode}], WalkFits(w, n, count)
  PROVE  WalkFits(WalkBlock(w, i, n, best, count, nWindowEnd), n, count)
  <1> DEFINE h == SubSeq(best, 1, i)
             r == WalkBlock(w, i, n, best, count, nWindowEnd)
  <1>1. h \in Headers
    BY PrefixHeader, Zenon
  <1>2. /\ w \in Walks /\ w.vBlocks \in Seq(Headers) /\ w.returned \in BOOLEAN /\ Len(w.vBlocks) \in Nat
    BY DEF WalkFits, Walks
  <1>3. CASE w.returned \/ h \in failedBlocks
    <2>1. r = [w EXCEPT !.returned = TRUE]
      BY <1>3, Zenon DEF WalkBlock
    <2> HIDE DEF h, r
    <2>2. /\ r \in Walks /\ r.returned = TRUE /\ r.vBlocks = w.vBlocks /\ r.waitingfor = w.waitingfor
          /\ r.staller = w.staller
      BY <1>2, <2>1, Zenon DEF Walks
    <2>3. WalkFits(r, n, count)
      BY <2>2, Zenon DEF WalkFits
    <2> QED  BY <2>3, Zenon DEF r
  <1>4. CASE ~w.returned /\ h \notin failedBlocks /\ (h \in haveData \/ InActiveChain(h))
    <2>1. r = IF Linked(h, haveData) THEN [w EXCEPT !.common = h] ELSE w
      BY <1>4, Zenon DEF WalkBlock
    <2> HIDE DEF h, r
    <2>2. /\ r \in Walks /\ r.returned = w.returned /\ r.vBlocks = w.vBlocks /\ r.waitingfor = w.waitingfor
          /\ r.staller = w.staller
      BY <1>1, <1>2, <2>1, Zenon DEF Walks
    <2>3. WalkFits(r, n, count)
      BY <2>2, Zenon DEF WalkFits
    <2> QED  BY <2>3, Zenon DEF r
  <1>5. CASE ~w.returned /\ h \notin failedBlocks /\ ~(h \in haveData \/ InActiveChain(h))
    <2>1. r = IF mapBlocksInFlight[h] # NoNode
              THEN IF w.waitingfor = NoNode THEN [w EXCEPT !.waitingfor = mapBlocksInFlight[h]] ELSE w
              ELSE IF i > nWindowEnd
              THEN [w EXCEPT !.returned = TRUE,
                             !.staller = IF w.vBlocks = <<>> /\ w.waitingfor # n THEN w.waitingfor ELSE @]
              ELSE [w EXCEPT !.vBlocks = Append(@, h), !.returned = Len(w.vBlocks) + 1 = count]
      BY <1>5, Zenon DEF WalkBlock
    <2>2. h \notin haveData
      BY <1>5, Zenon
    <2>3. w.staller = NoNode
      BY <1>5, Zenon DEF WalkFits
    <2>4. mapBlocksInFlight[h] \in Nodes \cup {NoNode}
      BY <1>1, Zenon
    <2>  SUFFICES WalkFits(r, n, count)
      BY Zenon
    <2> HIDE DEF h, r
    <2>5. CASE mapBlocksInFlight[h] # NoNode /\ w.waitingfor = NoNode
      <3>1. r = [w EXCEPT !.waitingfor = mapBlocksInFlight[h]]
        BY <2>1, <2>5, Zenon
      <3>2. /\ r \in Walks /\ r.returned = w.returned /\ r.vBlocks = w.vBlocks
            /\ r.waitingfor = mapBlocksInFlight[h] /\ r.staller = w.staller
        BY <1>2, <2>4, <3>1, Zenon DEF Walks
      <3>3. r.staller = NoNode
        BY <2>3, <3>2, Zenon
      <3>4. \E x \in Headers : mapBlocksInFlight[x] = r.waitingfor
        BY <1>1, <3>2, Zenon
      <3>5. Len(r.vBlocks) < count /\ Len(r.vBlocks) <= count
        BY <1>5, <3>2, Zenon DEF WalkFits
      <3>6. \A k \in DOMAIN r.vBlocks : r.vBlocks[k] \notin haveData
        BY <3>2, Zenon DEF WalkFits
      <3> QED  BY <3>2, <3>3, <3>4, <3>5, <3>6, Zenon DEF WalkFits
    <2>6. CASE mapBlocksInFlight[h] # NoNode /\ w.waitingfor # NoNode
      <3>1. r = w
        BY <2>1, <2>6, Zenon
      <3> QED  BY <3>1, Zenon
    <2>7. CASE mapBlocksInFlight[h] = NoNode /\ i > nWindowEnd
      <3>1. r = [w EXCEPT !.returned = TRUE,
                          !.staller = IF w.vBlocks = <<>> /\ w.waitingfor # n THEN w.waitingfor ELSE @]
        BY <2>1, <2>7, Zenon
      <3>2. /\ r \in Walks /\ r.returned = TRUE /\ r.vBlocks = w.vBlocks /\ r.waitingfor = w.waitingfor
            /\ r.staller = IF w.vBlocks = <<>> /\ w.waitingfor # n THEN w.waitingfor ELSE w.staller
        BY <1>2, <3>1, Zenon DEF Walks
      <3>3. r.staller # NoNode => /\ r.vBlocks = <<>> /\ r.staller # n
                                  /\ \E x \in Headers : mapBlocksInFlight[x] = r.staller
        BY <2>3, <3>2, Zenon DEF WalkFits
      <3>4. /\ Len(r.vBlocks) <= count
            /\ \A k \in DOMAIN r.vBlocks : r.vBlocks[k] \notin haveData
            /\ r.waitingfor # NoNode => \E x \in Headers : mapBlocksInFlight[x] = r.waitingfor
        BY <3>2, Zenon DEF WalkFits
      <3> QED  BY <3>2, <3>3, <3>4, Zenon DEF WalkFits
    <2>8. CASE mapBlocksInFlight[h] = NoNode /\ ~(i > nWindowEnd)
      <3>1. r = [w EXCEPT !.vBlocks = Append(@, h), !.returned = Len(w.vBlocks) + 1 = count]
        BY <2>1, <2>8, Zenon
      <3>2. Append(w.vBlocks, h) \in Seq(Headers)
        BY <1>1, <1>2
      <3>3. /\ r \in Walks /\ r.returned = (Len(w.vBlocks) + 1 = count) /\ r.vBlocks = Append(w.vBlocks, h)
            /\ r.waitingfor = w.waitingfor /\ r.staller = w.staller
        BY <1>2, <3>1, <3>2, Zenon DEF Walks
      <3>4. Len(w.vBlocks) < count
        BY <1>5, Zenon DEF WalkFits
      <3>5. Len(r.vBlocks) = Len(w.vBlocks) + 1
        BY <1>2, <3>3
      <3>6. \A k \in DOMAIN r.vBlocks : r.vBlocks[k] \notin haveData
        <4>1. \A k \in DOMAIN w.vBlocks : w.vBlocks[k] \notin haveData
          BY Zenon DEF WalkFits
        <4>2. /\ \A k \in DOMAIN r.vBlocks : k = Len(w.vBlocks) + 1 \/ k \in DOMAIN w.vBlocks
              /\ \A k \in DOMAIN w.vBlocks : r.vBlocks[k] = w.vBlocks[k]
              /\ r.vBlocks[Len(w.vBlocks) + 1] = h
          BY <1>1, <1>2, <3>3
        <4> QED  BY <2>2, <4>1, <4>2, Zenon
      <3>7. /\ Len(r.vBlocks) <= count /\ (~r.returned => Len(r.vBlocks) < count)
        <4>1. CASE Len(w.vBlocks) + 1 = count
          <5>1. r = [w EXCEPT !.vBlocks = Append(@, h), !.returned = TRUE]
            BY <3>1, <4>1, Zenon
          <5>2. r.returned
            BY <1>2, <5>1, Zenon DEF Walks
          <5> QED  BY <1>2, <3>5, <4>1, <5>2
        <4>2. CASE Len(w.vBlocks) + 1 # count
          BY <1>2, <3>4, <3>5, <4>2
        <4> QED  BY <4>1, <4>2, Zenon
      <3>8. /\ r.staller = NoNode
            /\ r.waitingfor # NoNode => \E x \in Headers : mapBlocksInFlight[x] = r.waitingfor
        BY <2>3, <3>3, Zenon DEF WalkFits
      <3> QED  BY <3>3, <3>6, <3>7, <3>8, Zenon DEF WalkFits
    <2> QED  BY <2>5, <2>6, <2>7, <2>8, Zenon
  <1> QED  BY <1>3, <1>4, <1>5, Zenon

\* The whole walk.
LEMMA FoundFits ==
  ASSUME NEW s \in NodeStates, NEW n, NEW count \in Nat \ {0}, activeTip \in Headers,
         mapBlocksInFlight \in [Headers -> Nodes \cup {NoNode}]
  PROVE  WalkFits(FindNextBlocksToDownload(s, n, count), n, count)
  <1> DEFINE nothing == [common |-> s.pindexLastCommonBlock, vBlocks |-> <<>>, staller |-> NoNode,
                         waitingfor |-> NoNode, returned |-> FALSE]
             best == s.pindexBestKnownBlock
             guess == IF s.pindexLastCommonBlock # None THEN s.pindexLastCommonBlock
                      ELSE IF Len(best) < Len(activeTip) THEN SubSeq(activeTip, 1, Len(best)) ELSE activeTip
             common == LastCommonAncestor(guess, best)
             nWindowEnd == Len(common) + BLOCK_DOWNLOAD_WINDOW
             nMaxHeight == IF Len(best) < nWindowEnd + 1 THEN Len(best) ELSE nWindowEnd + 1
             base == [nothing EXCEPT !.common = common]
             seq == [k \in 1..(nMaxHeight - Len(common)) |-> Len(common) + k]
             iter == CHOOSE f : IsWalkFold(f, base, seq, n, best, count, nWindowEnd, DOMAIN seq)
  <1>1. /\ s.pindexLastCommonBlock \in Headers \cup {None} /\ best \in Headers \cup {None}
    BY Zenon DEF NodeStates
  <1>2. WalkFits(nothing, n, count)
    BY <1>1 DEF WalkFits, Walks
  <1>3. CASE best = None \/ (best # None /\ Len(best) < Len(activeTip))
    <2>1. FindNextBlocksToDownload(s, n, count) = nothing
      BY <1>3, Zenon DEF FindNextBlocksToDownload
    <2> QED  BY <1>2, <2>1, Zenon
  <1>4. CASE ~(best = None \/ (best # None /\ Len(best) < Len(activeTip)))
    <2>1. FindNextBlocksToDownload(s, n, count) = iter[DOMAIN seq]
      BY <1>4, Zenon DEF FindNextBlocksToDownload, InOrder, MapThenFoldSet, IsWalkFold
    <2>2. best \in Headers /\ Len(best) \in Nat
      BY <1>1, <1>4, HeaderSeq, Zenon
    <2>3. guess \in Headers
      <3>1. Len(activeTip) \in Nat
        BY HeaderSeq, Zenon
      <3>2. Len(best) < Len(activeTip) => SubSeq(activeTip, 1, Len(best)) \in Headers
        BY <2>2, <3>1, PrefixHeader
      <3> HIDE DEF best
      <3> QED  BY <1>1, <3>2, Zenon
    <2> HIDE DEF guess, best, nothing
    <2>4. common \in Headers /\ Len(common) \in Nat
      BY <2>2, <2>3, CommonHeader, HeaderSeq, Zenon
    <2> HIDE DEF common
    <2>5. WalkFits(base, n, count)
      <3>1. nothing \in Walks
        BY <1>2, Zenon DEF WalkFits
      <3>2. /\ base \in Walks /\ base.vBlocks = nothing.vBlocks /\ base.waitingfor = nothing.waitingfor
            /\ base.staller = nothing.staller /\ base.returned = nothing.returned
        BY <2>4, <3>1, Zenon DEF Walks
      <3> HIDE DEF base
      <3> QED  BY <1>2, <3>2, Zenon DEF WalkFits
    <2> DEFINE m == IF nMaxHeight - Len(common) < 0 THEN 0 ELSE nMaxHeight - Len(common)
    <2>6. nWindowEnd \in Nat /\ nMaxHeight \in Nat /\ nMaxHeight <= Len(best)
      BY <2>2, <2>4, DownloadAssumption
    <2> HIDE DEF nMaxHeight, nWindowEnd, base
    <2>7. m \in Nat /\ DOMAIN seq = 1..m /\ \A k \in 1..m : seq[k] \in 0..Len(best)
      <3>1. m \in Nat /\ 1..(nMaxHeight - Len(common)) = 1..m
        BY <2>4, <2>6
      <3>2. DOMAIN seq = 1..m
        BY <3>1, Zenon
      <3>3. ASSUME NEW k \in 1..m
            PROVE  seq[k] \in 0..Len(best)
        <4>1. k \in 1..(nMaxHeight - Len(common))
          BY <3>1, Zenon
        <4>2. seq[k] = Len(common) + k
          BY <4>1, Zenon
        <4> QED  BY <2>2, <2>4, <2>6, <4>1, <4>2
      <3> QED  BY <3>1, <3>2, <3>3, Zenon
    <2>8. IsWalkFold(iter, base, seq, n, best, count, nWindowEnd, 1..m)
      <3> HIDE DEF m, seq
      <3>1. \E f : IsWalkFold(f, base, seq, n, best, count, nWindowEnd, 1..m)
        BY <2>7, WalkFoldExists, Zenon
      <3>2. \E f : IsWalkFold(f, base, seq, n, best, count, nWindowEnd, DOMAIN seq)
        BY <2>7, <3>1, Zenon
      <3>3. IsWalkFold(iter, base, seq, n, best, count, nWindowEnd, DOMAIN seq)
        BY <3>2, Zenon
      <3> HIDE DEF iter
      <3> QED  BY <2>7, <3>3, Zenon
    <2> HIDE DEF m, seq, iter
    <2>9. /\ iter[{}] = base
          /\ \A k \in 0..(m - 1) :
                iter[1..(k + 1)] = WalkBlock(iter[1..k], seq[k + 1], n, best, count, nWindowEnd)
      <3>1. WalkFoldStep(iter, base, seq, n, best, count, nWindowEnd, m)
        BY <2>7, <2>8, WalkFoldSteps, Zenon
      <3> QED  BY <3>1, Zenon DEF WalkFoldStep
    <2> DEFINE K == {k \in Nat : WalkFits(iter[1..k], n, count)}
    <2>10. 0 \in K
      <3>1. 1..0 = {}
        OBVIOUS
      <3>2. iter[1..0] = base
        BY <2>9, <3>1, Zenon
      <3> QED  BY <2>5, <3>2, Zenon
    <2>11. ASSUME NEW k \in 0..(m - 1), k \in K
           PROVE  k + 1 \in K
      <3>1. seq[k + 1] \in 0..Len(best) /\ k + 1 \in Nat
        BY <2>7
      <3>2. WalkFits(iter[1..k], n, count)
        BY <2>11, Zenon
      <3>3. WalkFits(WalkBlock(iter[1..k], seq[k + 1], n, best, count, nWindowEnd), n, count)
        BY <2>2, <3>1, <3>2, WalkStep, Zenon
      <3>4. WalkFits(iter[1..(k + 1)], n, count)
        BY <2>9, <3>3, Zenon
      <3> QED  BY <3>1, <3>4, Zenon
    <2>12. m \in K
      <3>1. \A k \in 0..(m - 1) : k \in K => k + 1 \in K
        BY <2>11, Zenon
      <3> HIDE DEF K
      <3> QED  BY <2>7, <2>10, <3>1, Counting, Zenon
    <2>13. iter[DOMAIN seq] = iter[1..m]
      BY <2>7, Zenon
    <2> QED  BY <2>1, <2>12, <2>13, Zenon
  <1> QED  BY <1>3, <1>4, Zenon

-----------------------------------------------------------------------------
(* Asking for the blocks that were found. *)

\* No peer is asked for too many blocks, and no block that we have is asked for.
AskedLittle(q) ==
    /\ \A m \in Nodes : q.nodes[m].nBlocksInFlight <= MAX_BLOCKS_IN_TRANSIT_PER_PEER
    /\ \A h \in Headers : h \in haveData => q.inFlight[h] = NoNode

\* After k of the blocks.
AskedSome(r, q, n, k) ==
    /\ QueuesExact(r) /\ Keeps(q, r)
    /\ r.nodes[n].nBlocksInFlight <= q.nodes[n].nBlocksInFlight + k
    /\ \A m \in Nodes \ {n} : r.nodes[m].nBlocksInFlight <= MAX_BLOCKS_IN_TRANSIT_PER_PEER
    /\ \A h \in Headers : h \in haveData => r.inFlight[h] = NoNode

LEMMA AskOne ==
  ASSUME NEW q, QueuesExact(q), NEW n \in Nodes, q.nodes[n].at # "absent", NEW k \in Nat, NEW r,
         AskedSome(r, q, n, k), NEW h \in Headers, h \notin haveData
  PROVE  AskedSome(MarkBlockAsInFlight(r, n, h, TRUE), q, n, k + 1)
  <1> DEFINE u == MarkBlockAsInFlight(r, n, h, TRUE)
  <1>1. QueuesExact(r) /\ Keeps(q, r)
    BY Zenon DEF AskedSome
  <1>2. r.nodes[n].at # "absent"
    BY <1>1, Zenon DEF Keeps
  <1>3. /\ QueuesExact(u) /\ Keeps(r, u)
        /\ u.inFlight = [r.inFlight EXCEPT ![h] = n]
        /\ u.nodes[n].nBlocksInFlight <= r.nodes[n].nBlocksInFlight + 1
        /\ \A m \in Nodes \ {n} : u.nodes[m].nBlocksInFlight <= r.nodes[m].nBlocksInFlight
    BY <1>1, <1>2, InFlightAdded, Zenon
  <1> HIDE DEF u
  <1>4. Keeps(q, u)
    BY <1>1, <1>3, KeepsTrans, Zenon
  <1>5. /\ \A m \in Nodes : /\ q.nodes[m].nBlocksInFlight \in Int /\ r.nodes[m].nBlocksInFlight \in Int
                            /\ u.nodes[m].nBlocksInFlight \in Int
        /\ r.inFlight \in [Headers -> Nodes \cup {NoNode}]
    BY <1>1, <1>3, QueueFields, Zenon
  <1>6. u.nodes[n].nBlocksInFlight <= q.nodes[n].nBlocksInFlight + (k + 1)
    BY <1>3, <1>5 DEF AskedSome
  <1>7. \A m \in Nodes \ {n} : u.nodes[m].nBlocksInFlight <= MAX_BLOCKS_IN_TRANSIT_PER_PEER
    BY <1>3, <1>5, DownloadAssumption DEF AskedSome
  <1>8. \A x \in Headers : x \in haveData => u.inFlight[x] = NoNode
    BY <1>3, <1>5, Zenon DEF AskedSome
  <1> QED  BY <1>3, <1>4, <1>6, <1>7, <1>8, Zenon DEF AskedSome, u

\* The loop over the blocks.
AskedFor(q, n, blocks) == InOrder(LAMBDA r, h : MarkBlockAsInFlight(r, n, h, TRUE), q, blocks)

LEMMA AskAll ==
  ASSUME NEW q, QueuesExact(q), AskedLittle(q), NEW n \in Nodes, q.nodes[n].at # "absent",
         NEW blocks \in Seq(Headers), \A i \in DOMAIN blocks : blocks[i] \notin haveData,
         q.nodes[n].nBlocksInFlight + Len(blocks) <= MAX_BLOCKS_IN_TRANSIT_PER_PEER,
         NEW r, r = AskedFor(q, n, blocks)
  PROVE  /\ QueuesExact(r) /\ Keeps(q, r) /\ AskedLittle(r)
         /\ blocks = <<>> => r = q
  <1> DEFINE iter == CHOOSE f : IsAskFold(f, q, blocks, n, DOMAIN blocks)
             m == Len(blocks)
  <1>1. r = iter[DOMAIN blocks]
    BY Zenon DEF AskedFor, InOrder, MapThenFoldSet, IsAskFold
  <1>2. m \in Nat /\ DOMAIN blocks = 1..m
    OBVIOUS
  <1> HIDE DEF m
  <1>3. IsAskFold(iter, q, blocks, n, 1..m)
    <2>1. \E f : IsAskFold(f, q, blocks, n, 1..m)
      BY <1>2, AskFoldExists, Zenon
    <2>2. \E f : IsAskFold(f, q, blocks, n, DOMAIN blocks)
      BY <1>2, <2>1, Zenon
    <2>3. IsAskFold(iter, q, blocks, n, DOMAIN blocks)
      BY <2>2, Zenon
    <2> HIDE DEF iter
    <2> QED  BY <1>2, <2>3, Zenon
  <1> HIDE DEF iter
  <1>4. AskFoldStep(iter, q, blocks, n, m)
    BY <1>2, <1>3, AskFoldSteps, Zenon
  <1>5. /\ iter[{}] = q
        /\ \A k \in 0..(m - 1) : iter[1..(k + 1)] = MarkBlockAsInFlight(iter[1..k], n, blocks[k + 1], TRUE)
    BY <1>4, Zenon DEF AskFoldStep
  <1>6. 1..0 = {}
    OBVIOUS
  <1> DEFINE K == {k \in Nat : AskedSome(iter[1..k], q, n, k)}
  <1>7. 0 \in K
    <2>1. \A x \in Nodes : q.nodes[x].nBlocksInFlight \in Int
      BY QueueFields, Zenon
    <2>2. Keeps(q, q)
      BY Zenon DEF Keeps
    <2>3. AskedSome(q, q, n, 0)
      BY <2>1, <2>2 DEF AskedSome, AskedLittle
    <2>4. iter[1..0] = q
      BY <1>5, <1>6, Zenon
    <2> QED  BY <2>3, <2>4, Zenon
  <1>8. ASSUME NEW k \in 0..(m - 1), k \in K
        PROVE  k + 1 \in K
    <2>1. k \in Nat /\ k + 1 \in Nat /\ k + 1 \in DOMAIN blocks
      BY <1>2
    <2>2. blocks[k + 1] \in Headers /\ blocks[k + 1] \notin haveData
      BY <2>1
    <2>3. AskedSome(iter[1..k], q, n, k)
      BY <1>8, Zenon
    <2>4. AskedSome(MarkBlockAsInFlight(iter[1..k], n, blocks[k + 1], TRUE), q, n, k + 1)
      BY <2>1, <2>2, <2>3, AskOne, Zenon
    <2>5. AskedSome(iter[1..(k + 1)], q, n, k + 1)
      BY <1>5, <2>4, Zenon
    <2> QED  BY <2>1, <2>5, Zenon
  <1>9. m \in K
    <2>1. \A k \in 0..(m - 1) : k \in K => k + 1 \in K
      BY <1>8, Zenon
    <2> HIDE DEF K
    <2> QED  BY <1>2, <1>7, <2>1, Counting, Zenon
  <1>10. AskedSome(r, q, n, m)
    <2>1. r = iter[1..m]
      BY <1>1, <1>2, Zenon
    <2> QED  BY <1>9, <2>1, Zenon
  <1>11. AskedLittle(r)
    <2>1. \A x \in Nodes : q.nodes[x].nBlocksInFlight \in Int /\ r.nodes[x].nBlocksInFlight \in Int
      BY <1>10, QueueFields, Zenon DEF AskedSome
    <2>2. r.nodes[n].nBlocksInFlight <= MAX_BLOCKS_IN_TRANSIT_PER_PEER
      BY <1>2, <1>10, <2>1, DownloadAssumption DEF AskedSome, m
    <2> QED  BY <1>10, <2>2, Zenon DEF AskedSome, AskedLittle
  <1>12. ASSUME blocks = <<>>
         PROVE  r = q
    <2>1. DOMAIN blocks = {}
      BY <1>12
    <2> QED  BY <1>1, <1>5, <2>1, Zenon
  <1> QED  BY <1>10, <1>11, <1>12, Zenon DEF AskedSome

\* TestTimeouts changes deadlines and fDisconnect only.
LEMMA TestedAlike ==
  ASSUME NEW s \in NodeStates, nQueuedValidatedHeaders \in Int, NEW t, t = TestTimeouts(s)
  PROVE  /\ t \in NodeStates /\ Alike(s, t) /\ t.at = s.at /\ t.nStallingSince = s.nStallingSince
         /\ t.fSyncStarted = s.fSyncStarted /\ t.fPreferredDownload = s.fPreferredDownload
  <1> DEFINE limit == GetBlockTimeout(nQueuedValidatedHeaders - s.nBlocksInFlightValidHeaders)
             same == s.vBlocksInFlight = <<>> \/ s.nStallingSince = "expired"
             l == s.vBlocksInFlight
             e == [l[1] EXCEPT !.left = IF @ > limit THEN limit ELSE @]
             reduced == IF same THEN s ELSE [s EXCEPT !.vBlocksInFlight = [l EXCEPT ![1] = e]]
             over == \/ s.nStallingSince = "expired"
                     \/ s.vBlocksInFlight # <<>> /\ reduced.vBlocksInFlight[1].left < 0
  <1>1. /\ l \in Seq(QueuedBlock) /\ s.nBlocksInFlightValidHeaders \in Int
    BY Zenon DEF NodeStates
  <1>2. limit \in Int
    BY <1>1 DEF GetBlockTimeout
  <1>3. t = [reduced EXCEPT !.fDisconnect = over]
    BY Zenon DEF TestTimeouts
  <1>4. /\ reduced \in NodeStates /\ Alike(s, reduced) /\ reduced.at = s.at
        /\ reduced.nStallingSince = s.nStallingSince
        /\ reduced.fSyncStarted = s.fSyncStarted /\ reduced.fPreferredDownload = s.fPreferredDownload
    <2>1. CASE same
      <3>1. reduced = s
        BY <2>1, Zenon
      <3>2. Alike(s, s)
        BY Zenon DEF Alike
      <3> HIDE DEF reduced
      <3> QED  BY <3>1, <3>2, Zenon
    <2>2. CASE ~same
      <3>1. l # <<>> /\ 1 \in DOMAIN l
        BY <1>1, <2>2
      <3>2. l[1] \in QueuedBlock
        BY <1>1, <3>1
      <3>3. /\ e \in QueuedBlock /\ e.hash = l[1].hash /\ e.fValidatedHeaders = l[1].fValidatedHeaders
        <4> HIDE DEF limit
        <4> QED  BY <1>2, <3>2, Zenon DEF QueuedBlock
      <3> HIDE DEF e
      <3> DEFINE k == [l EXCEPT ![1] = e]
      <3>4. /\ k \in Seq(QueuedBlock) /\ Len(k) = Len(l)
            /\ \A i \in DOMAIN l : k[i].hash = l[i].hash /\ k[i].fValidatedHeaders = l[i].fValidatedHeaders
        BY <1>1, <3>1, <3>3
      <3>5. reduced = [s EXCEPT !.vBlocksInFlight = k]
        BY <2>2, Zenon
      <3> HIDE DEF k, reduced, l
      <3>6. /\ reduced \in NodeStates /\ reduced.vBlocksInFlight = k
            /\ reduced.nBlocksInFlight = s.nBlocksInFlight
            /\ reduced.nBlocksInFlightValidHeaders = s.nBlocksInFlightValidHeaders
            /\ reduced.at = s.at /\ reduced.nStallingSince = s.nStallingSince
            /\ reduced.fSyncStarted = s.fSyncStarted /\ reduced.fPreferredDownload = s.fPreferredDownload
        BY <3>4, <3>5, Zenon DEF NodeStates
      <3>7. Alike(s, reduced)
        BY <3>4, <3>6, Zenon DEF Alike, l
      <3> QED  BY <3>6, <3>7, Zenon
    <2> HIDE DEF same
    <2> QED  BY <2>1, <2>2, Zenon
  <1> HIDE DEF reduced
  <1>5. over \in BOOLEAN
    BY Zenon
  <1> HIDE DEF over
  <1>6. /\ t \in NodeStates /\ t.vBlocksInFlight = reduced.vBlocksInFlight
        /\ t.nBlocksInFlight = reduced.nBlocksInFlight
        /\ t.nBlocksInFlightValidHeaders = reduced.nBlocksInFlightValidHeaders
        /\ t.at = reduced.at /\ t.nStallingSince = reduced.nStallingSince
        /\ t.fSyncStarted = reduced.fSyncStarted /\ t.fPreferredDownload = reduced.fPreferredDownload
    BY <1>3, <1>4, <1>5, Zenon DEF NodeStates
  <1>7. Alike(s, t)
    BY <1>4, <1>6, Zenon DEF Alike
  <1> QED  BY <1>4, <1>6, <1>7, Zenon

\* A peer that a block is in flight from has a list, and is connected.
LEMMA AskedOf ==
  ASSUME NEW q, QueuesExact(q), NEW n \in Nodes, NEW h \in Headers, q.inFlight[h] = n
  PROVE  q.nodes[n].vBlocksInFlight # <<>> /\ q.nodes[n].at # "absent"
  <1>1. \E i \in DOMAIN q.nodes[n].vBlocksInFlight : q.nodes[n].vBlocksInFlight[i].hash = h
    BY Zenon DEF QueuesExact, ListExact
  <1>2. q.nodes[n].vBlocksInFlight # <<>>
    BY <1>1
  <1>3. StateExact(q.nodes[n])
    BY Zenon DEF QueuesExact
  <1>4. CNodeState.vBlocksInFlight = <<>>
    BY Zenon DEF CNodeState
  <1> QED  BY <1>2, <1>3, <1>4, Zenon DEF StateExact

\* The getdata of SendMessages.
LEMMA AskExact ==
  ASSUME NEW q, QueuesExact(q), AskedLittle(q), q.inFlight = mapBlocksInFlight,
         NEW n \in Nodes, q.nodes[n].at # "absent", mapBlockIndex \in SUBSET Headers, activeTip \in Headers,
         NEW fFetch, NEW fInitialDownload, NEW r, r = AskForBlocks(q, n, fFetch, fInitialDownload)
  PROVE  QueuesExact(r) /\ Keeps(q, r) /\ AskedLittle(r)
  <1> DEFINE s == ProcessBlockAvailability(q.nodes[n], mapBlockIndex)
             count == MAX_BLOCKS_IN_TRANSIT_PER_PEER - s.nBlocksInFlight
             found == FindNextBlocksToDownload(s, n, count)
             t == [s EXCEPT !.pindexLastCommonBlock = found.common]
             base == WithNode(q, n, t)
             asked == AskedFor(base, n, found.vBlocks)
             skip == \/ q.nodes[n].fDisconnect \/ n \in Clients
                     \/ ~(fFetch \/ ~fInitialDownload)
                     \/ q.nodes[n].nBlocksInFlight >= MAX_BLOCKS_IN_TRANSIT_PER_PEER
             stalls == /\ asked.nodes[n].nBlocksInFlight = 0 /\ found.staller # NoNode
                       /\ asked.nodes[found.staller].nStallingSince = "no"
  <1>1. r = IF skip THEN q
            ELSE IF stalls THEN [asked EXCEPT !.nodes[found.staller].nStallingSince = "since"] ELSE asked
    BY Zenon DEF AskForBlocks, WithNode, AskedFor
  <1>2. CASE skip
    <2>1. r = q
      BY <1>1, <1>2, Zenon
    <2> QED  BY <2>1, Zenon DEF Keeps
  <1>3. CASE ~skip
    <2>1. /\ q.nodes[n] \in NodeStates /\ q.nodes[n].nBlocksInFlight \in Int
          /\ q.inFlight \in [Headers -> Nodes \cup {NoNode}]
      BY QueueFields, Zenon
    <2>2. Noted(q.nodes[n], s)
      BY <2>1, AvailabilityNoted, Zenon
    <2> HIDE DEF s
    <2>3. /\ s \in NodeStates /\ s.nBlocksInFlight = q.nodes[n].nBlocksInFlight
      BY <2>2, Zenon DEF Noted
    <2>4. q.nodes[n].nBlocksInFlight >= 0
      <3>1. q.nodes[n].nBlocksInFlight = Len(q.nodes[n].vBlocksInFlight)
        BY Zenon DEF QueuesExact, StateExact
      <3>2. q.nodes[n].vBlocksInFlight \in Seq(QueuedBlock)
        BY QueueFields, Zenon
      <3> QED  BY <3>1, <3>2
    <2>5. count \in Nat \ {0}
      BY <1>3, <2>1, <2>3, DownloadAssumption
    <2> HIDE DEF count
    <2>6. WalkFits(found, n, count)
      BY <2>1, <2>3, <2>5, FoundFits, Zenon
    <2> HIDE DEF found
    <2>7. /\ found.common \in Headers \cup {None} /\ found.vBlocks \in Seq(Headers)
          /\ found.staller \in Nodes \cup {NoNode}
          /\ Len(found.vBlocks) <= count
          /\ \A i \in DOMAIN found.vBlocks : found.vBlocks[i] \notin haveData
      BY <2>6, Zenon DEF WalkFits, Walks
    <2>8. Noted(q.nodes[n], t)
      <3>1. Noted(s, t)
        BY <2>3, <2>7, NoteNoted, Zenon
      <3> QED  BY <2>2, <3>1, NotedTrans, Zenon
    <2> HIDE DEF t
    <2>9. /\ QueuesExact(base) /\ Keeps(q, base) /\ base.inFlight = q.inFlight
          /\ \A m \in Nodes : base.nodes[m].nBlocksInFlight = q.nodes[m].nBlocksInFlight
      BY <2>8, NotedQueues, ZenonT(60)
    <2> HIDE DEF base
    <2>10. AskedLittle(base) /\ base.nodes[n].at # "absent"
      BY <2>9, Zenon DEF AskedLittle, Keeps
    <2>11. base.nodes[n].nBlocksInFlight + Len(found.vBlocks) <= MAX_BLOCKS_IN_TRANSIT_PER_PEER
      BY <2>1, <2>3, <2>7, <2>9, DownloadAssumption DEF count
    <2>12. /\ QueuesExact(asked) /\ Keeps(base, asked) /\ AskedLittle(asked)
           /\ found.vBlocks = <<>> => asked = base
      BY <2>7, <2>9, <2>10, <2>11, AskAll, Zenon
    <2> HIDE DEF asked
    <2>13. Keeps(q, asked)
      BY <2>9, <2>12, KeepsTrans, Zenon
    <2>14. CASE ~stalls
      <3>1. r = asked
        BY <1>1, <1>3, <2>14, Zenon
      <3> QED  BY <2>12, <2>13, <3>1, Zenon
    <2>15. CASE stalls
      <3> DEFINE m == found.staller
                 v == [asked.nodes[m] EXCEPT !.nStallingSince = "since"]
      <3>1. r = [asked EXCEPT !.nodes[m].nStallingSince = "since"]
        BY <1>1, <1>3, <2>15, Zenon
      <3>2. m \in Nodes /\ asked = base /\ \E h \in Headers : mapBlocksInFlight[h] = m
        BY <2>6, <2>7, <2>12, <2>15, Zenon DEF WalkFits
      <3> HIDE DEF m
      <3>3. asked.nodes[m].vBlocksInFlight # <<>> /\ asked.nodes[m].at # "absent"
        BY <2>9, <3>2, AskedOf, Zenon
      <3>4. asked \in Queues /\ asked.nodes[m] \in NodeStates
        BY <2>12, <3>2, QueueFields, Zenon DEF QueuesExact
      <3>5. r = WithNode(asked, m, v)
        BY <3>1, <3>2, <3>4, Zenon DEF WithNode, Queues
      <3>6. /\ v \in NodeStates /\ v.vBlocksInFlight = asked.nodes[m].vBlocksInFlight
            /\ v.nBlocksInFlight = asked.nodes[m].nBlocksInFlight
            /\ v.nBlocksInFlightValidHeaders = asked.nodes[m].nBlocksInFlightValidHeaders
            /\ v.at = asked.nodes[m].at
            /\ v.fSyncStarted = asked.nodes[m].fSyncStarted
            /\ v.fPreferredDownload = asked.nodes[m].fPreferredDownload
        BY <3>4, Zenon DEF NodeStates
      <3> HIDE DEF v
      <3>7. Alike(asked.nodes[m], v)
        BY <3>6, Zenon DEF Alike
      <3>8. QueuesExact(r)
        BY <2>12, <3>2, <3>3, <3>5, <3>6, <3>7, AlikeNode, Zenon
      <3>9. /\ r.inFlight = asked.inFlight /\ r.nodes[m] = v
            /\ \A k \in Nodes \ {m} : r.nodes[k] = asked.nodes[k]
        <4>1. Replaced(WithNode(asked, m, v), asked, m, v)
          BY <3>2, <3>4, <3>6, WithNodeFields, Zenon
        <4> QED  BY <3>5, <4>1, Zenon DEF Replaced
      <3>10. Keeps(asked, r)
        BY <3>6, <3>9, Zenon DEF Keeps
      <3>11. AskedLittle(r)
        BY <2>12, <3>6, <3>9, Zenon DEF AskedLittle
      <3> QED  BY <2>13, <3>8, <3>10, <3>11, KeepsTrans, Zenon
    <2> QED  BY <2>14, <2>15, Zenon
  <1> QED  BY <1>2, <1>3, Zenon

=============================================================================
