------------------------------ MODULE AddrMan ------------------------------
(* The address manager CAddrMan: a table of addresses, four indexes into it and three        *)
(* counters, changed together under CAddrMan::cs.  Times and attempts only decide whether an *)
(* entry IsTerrible, which is any choice here; hashing with nKey is the constants NewBucket, *)
(* NewPosition and TriedSlot.                                                                *)
EXTENDS Lists, FiniteSets

CONSTANTS Addrs, Sources,
          NewBuckets,        \* the new buckets
          NewBucket,         \* GetNewBucket of an address and a source
          NewPosition,       \* GetBucketPosition of an address and a new bucket
          TriedSlot,         \* for each address, its place among the tried ones
          ADDRMAN_NEW_BUCKETS_PER_ADDRESS, ADDRMAN_GETADDR_MAX_PCT,
          MaxIds             \* bound on nIdCount

NewSlots == {<<p[2], NewPosition[p]>> : p \in Addrs \X NewBuckets}
TriedSlots == {TriedSlot[a] : a \in Addrs}

ASSUME AddrManAssumption ==
    /\ NewBucket \in [Addrs \X Sources -> NewBuckets]
    /\ DOMAIN NewPosition = Addrs \X NewBuckets /\ DOMAIN TriedSlot = Addrs
    /\ ADDRMAN_NEW_BUCKETS_PER_ADDRESS \in Nat \ {0} /\ ADDRMAN_GETADDR_MAX_PCT \in 0..100
    /\ MaxIds \in Nat

VARIABLE addrman

NoId == -1

\* mapInfo by nId; positions in vRandom count from 1.  asserted: no assertion has failed.
AddrManInit ==
    addrman = [mapInfo |-> <<>>, mapAddr |-> [a \in Addrs |-> NoId], vRandom |-> <<>>,
               vvNew |-> [s \in NewSlots |-> NoId], vvTried |-> [s \in TriedSlots |-> NoId],
               nNew |-> 0, nTried |-> 0, nIdCount |-> 0, asserted |-> TRUE]

-----------------------------------------------------------------------------
(* The manager m before and after a call. *)

Ids(m) == DOMAIN m.mapInfo

NewSlotOf(a, b) == <<b, NewPosition[a, b]>>

Without(f, x) == [y \in DOMAIN f \ {x} |-> f[y]]

With(f, x, v) == [y \in DOMAIN f \cup {x} |-> IF y = x THEN v ELSE f[y]]

Create(m, a, source) ==
    LET nId == m.nIdCount
        info == [addr |-> a, source |-> source, nRefCount |-> 0, fInTried |-> FALSE,
                 nRandomPos |-> Len(m.vRandom) + 1]
    IN  [m EXCEPT !.nIdCount = nId + 1, !.mapInfo = With(@, nId, info),
                  !.mapAddr[a] = nId, !.vRandom = Append(@, nId)]

\* Mutant: the entry that goes to the other place keeps its nRandomPos.
SwapRandomOneSided(m, i, j) ==
    IF i = j THEN m
    ELSE LET id1 == m.vRandom[i]  id2 == m.vRandom[j]
         IN  [m EXCEPT !.mapInfo[id1].nRandomPos = j, !.vRandom = [@ EXCEPT ![i] = id2, ![j] = id1]]

SwapRandom(m, i, j) ==
    IF i = j THEN m
    ELSE LET id1 == m.vRandom[i]
             id2 == m.vRandom[j]
         IN  [m EXCEPT !.mapInfo = [@ EXCEPT ![id1].nRandomPos = j, ![id2].nRandomPos = i],
                       !.vRandom = [@ EXCEPT ![i] = id2, ![j] = id1],
                       !.asserted = @ /\ {i, j} \subseteq DOMAIN m.vRandom /\ {id1, id2} \subseteq Ids(m)]

Delete(m, nId) ==
    LET info == m.mapInfo[nId]
        moved == SwapRandom(m, info.nRandomPos, Len(m.vRandom))
    IN  [moved EXCEPT !.vRandom = SubSeq(@, 1, Len(@) - 1), !.mapAddr[info.addr] = NoId,
                      !.mapInfo = Without(@, nId), !.nNew = @ - 1,
                      !.asserted = @ /\ ~info.fInTried /\ info.nRefCount = 0]

ClearNew(m, slot) ==
    LET nId == m.vvNew[slot]
        cleared == [m EXCEPT !.mapInfo[nId].nRefCount = @ - 1, !.vvNew[slot] = NoId,
                             !.asserted = @ /\ m.mapInfo[nId].nRefCount > 0]
    IN  IF nId = NoId THEN m
        ELSE IF cleared.mapInfo[nId].nRefCount = 0 THEN Delete(cleared, nId) ELSE cleared

\* The evicted entry of the tried table goes back to the new one.
Evict(m, slot) ==
    LET nIdEvict == m.vvTried[slot]
        old == m.mapInfo[nIdEvict]
        place == NewSlotOf(old.addr, NewBucket[old.addr, old.source])
        out == [m EXCEPT !.mapInfo[nIdEvict].fInTried = FALSE, !.vvTried[slot] = NoId, !.nTried = @ - 1]
        clear == ClearNew(out, place)
    IN  IF nIdEvict = NoId THEN m
        ELSE [clear EXCEPT !.mapInfo[nIdEvict].nRefCount = 1, !.vvNew[place] = nIdEvict, !.nNew = @ + 1,
                           !.asserted = @ /\ clear.vvNew[place] = NoId]

MakeTried(m, nId) ==
    LET a == m.mapInfo[nId].addr
        held == {s \in NewSlots : m.vvNew[s] = nId /\ s = NewSlotOf(a, s[1])}
        out == [m EXCEPT !.vvNew = [s \in NewSlots |-> IF s \in held THEN NoId ELSE @[s]],
                         !.mapInfo[nId].nRefCount = @ - Cardinality(held), !.nNew = @ - 1]
        free == Evict(out, TriedSlot[a])
    IN  [free EXCEPT !.vvTried[TriedSlot[a]] = nId, !.nTried = @ + 1, !.mapInfo[nId].fInTried = TRUE,
                     !.asserted = @ /\ out.mapInfo[nId].nRefCount = 0 /\ free.vvTried[TriedSlot[a]] = NoId]

Find(m, a) == IF m.mapAddr[a] \in Ids(m) THEN m.mapAddr[a] ELSE NoId

Good_(m, a) ==
    LET nId == Find(m, a)
        found == \E b \in NewBuckets : m.vvNew[NewSlotOf(a, b)] = nId
    IN  IF nId = NoId \/ (nId # NoId /\ (m.mapInfo[nId].fInTried \/ ~found)) THEN m ELSE MakeTried(m, nId)

\* The new bucket that the source gives the entry, if it may have it.
PlaceNew(m, nId, source, terrible) ==
    LET info == m.mapInfo[nId]
        slot == NewSlotOf(info.addr, NewBucket[info.addr, source])
        there == m.vvNew[slot]
        fInsert == there = NoId \/ (there # NoId /\ (terrible \/ (m.mapInfo[there].nRefCount > 1 /\ info.nRefCount = 0)))
    IN  IF there = nId THEN m
        ELSE IF fInsert THEN [ClearNew(m, slot) EXCEPT !.mapInfo[nId].nRefCount = @ + 1, !.vvNew[slot] = nId]
        ELSE IF info.nRefCount = 0 THEN Delete(m, nId) ELSE m

\* For a known address: fresh if it has a newer time and passes the stochastic test.
Add_(m, a, source, fresh, terrible) ==
    LET nId == Find(m, a)
        created == [Create(m, a, source) EXCEPT !.nNew = @ + 1]
    IN  IF nId = NoId THEN PlaceNew(created, m.nIdCount, source, terrible)
        ELSE IF ~fresh \/ m.mapInfo[nId].fInTried
                \/ m.mapInfo[nId].nRefCount = ADDRMAN_NEW_BUCKETS_PER_ADDRESS THEN m
        ELSE PlaceNew(m, nId, source, terrible)

\* GetAddr_ brings entries to the front of vRandom until it has nNodes that are not terrible:
\* what it may leave behind.
GetAddr_(m) ==
    LET nNodes == (ADDRMAN_GETADDR_MAX_PCT * Len(m.vRandom)) \div 100
        step(S, n) == UNION {IF x.got >= nNodes THEN {x}
                             ELSE {[man |-> SwapRandom(x.man, n, p[1]), got |-> x.got + p[2]] :
                                      p \in (n..Len(m.vRandom)) \X {0, 1}} : x \in S}
    IN  {x.man : x \in InOrder(step, {[man |-> m, got |-> 0]}, [n \in DOMAIN m.vRandom |-> n])}

\* Serialize to peers.dat and Unserialize: the entries are renumbered, new ones first, each in
\* the order of their nId; the new table is written, the rest is built again.  The places are
\* found again with the nKey that was written: in a state with AddrManCheck no two entries meet,
\* none is at its limit, and Unserialize loses none.
NewIds(m) == {i \in Ids(m) : m.mapInfo[i].nRefCount # 0}

TriedIds(m) == {i \in Ids(m) : m.mapInfo[i].fInTried}

Before(S, i) == Cardinality({j \in S : j < i})

Number(m, i) == IF i \in NewIds(m) THEN Before(NewIds(m), i)
                ELSE Cardinality(NewIds(m)) + Before(TriedIds(m), i)

Numbered(m, n) == CHOOSE i \in NewIds(m) \cup TriedIds(m) : Number(m, i) = n

Reload(m) ==
    LET numNew == Cardinality(NewIds(m))
        numTried == Cardinality(TriedIds(m))
        ids == 0..(numNew + numTried - 1)
        info(n) == m.mapInfo[Numbered(m, n)]
    IN  [mapInfo |-> [n \in ids |->
                        [addr |-> info(n).addr, source |-> info(n).source,
                         nRefCount |-> Cardinality({s \in NewSlots : m.vvNew[s] = Numbered(m, n)}),
                         fInTried |-> n >= numNew, nRandomPos |-> n + 1]],
         mapAddr |-> [a \in Addrs |-> IF \E n \in ids : info(n).addr = a
                                      THEN CHOOSE n \in ids : info(n).addr = a ELSE NoId],
         vRandom |-> [k \in 1..(numNew + numTried) |-> k - 1],
         vvNew |-> [s \in NewSlots |-> IF m.vvNew[s] = NoId THEN NoId ELSE Number(m, m.vvNew[s])],
         vvTried |-> [t \in TriedSlots |->
                        IF \E n \in ids : n >= numNew /\ TriedSlot[info(n).addr] = t
                        THEN CHOOSE n \in ids : n >= numNew /\ TriedSlot[info(n).addr] = t ELSE NoId],
         nNew |-> m.nNew, nTried |-> m.nTried, nIdCount |-> numNew + numTried,
         asserted |-> m.asserted /\ numNew = m.nNew /\ numTried = m.nTried]

-----------------------------------------------------------------------------
(* Actions. *)

AddAddress(a, source, fresh, terrible) ==
    addrman.nIdCount < MaxIds /\ addrman' = Add_(addrman, a, source, fresh, terrible)

Good(a) == addrman' = Good_(addrman, a)

GetAddr == addrman' \in GetAddr_(addrman)

DumpAndLoad == addrman' = Reload(addrman)

AddrManNext ==
    \/ \E a \in Addrs, source \in Sources, fresh, terrible \in BOOLEAN : AddAddress(a, source, fresh, terrible)
    \/ \E a \in Addrs : Good(a)
    \/ GetAddr
    \/ DumpAndLoad

AddrManSpec == AddrManInit /\ [][AddrManNext]_addrman

-----------------------------------------------------------------------------
(* Properties. *)

\* The table and its indexes agree after any sequence of calls, and no assertion has failed:
\* what Check_ tests under DEBUG_ADDRMAN, and also that mapAddr has no address that mapInfo has
\* not, so that an address that was deleted can be added again.
AddrManCheck ==
    LET m == addrman
    IN  /\ m.asserted
        /\ Len(m.vRandom) = m.nNew + m.nTried
        /\ m.nTried = Cardinality({i \in Ids(m) : m.mapInfo[i].fInTried})
        /\ m.nNew = Cardinality({i \in Ids(m) : ~m.mapInfo[i].fInTried})
        /\ \A i \in Ids(m) :
              LET info == m.mapInfo[i]
                  places == {s \in NewSlots : m.vvNew[s] = i}
              IN  /\ m.mapAddr[info.addr] = i
                  /\ info.nRandomPos \in DOMAIN m.vRandom /\ m.vRandom[info.nRandomPos] = i
                  /\ info.nRefCount = Cardinality(places)
                  /\ info.nRefCount <= ADDRMAN_NEW_BUCKETS_PER_ADDRESS
                  /\ info.fInTried <=> info.nRefCount = 0
                  /\ info.fInTried <=> \E t \in TriedSlots : m.vvTried[t] = i
                  /\ \A s \in places : s = NewSlotOf(info.addr, s[1])
        /\ \A t \in TriedSlots : m.vvTried[t] # NoId =>
              m.vvTried[t] \in Ids(m) /\ TriedSlot[m.mapInfo[m.vvTried[t]].addr] = t
        /\ \A s \in NewSlots : m.vvNew[s] # NoId => m.vvNew[s] \in Ids(m)
        /\ \A a \in Addrs : m.mapAddr[a] # NoId => m.mapAddr[a] \in Ids(m)

=============================================================================
