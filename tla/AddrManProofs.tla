--------------------------- MODULE AddrManProofs ---------------------------
(* The table of the address manager and its indexes agree after any sequence of calls, for   *)
(* any addresses, buckets and positions.                                                     *)
EXTENDS AddrMan, FiniteSetTheorems, WellFoundedInduction, TLAPS

\* The time that the prover has for a step.
USE SMTT(30)

-----------------------------------------------------------------------------
(* The inductive invariant.  H are the entries that a call has in hand: neither in the new    *)
(* nor in the tried table; U those that nNew does not count.                                 *)

Info == [addr : Addrs, source : Sources, nRefCount : Int, fInTried : BOOLEAN, nRandomPos : Int]

Infos == UNION {[I -> Info] : I \in SUBSET Nat}
AddrMap == [Addrs -> Nat \cup {NoId}]
NewTable == [NewSlots -> Nat \cup {NoId}]
TriedTable == [TriedSlots -> Nat \cup {NoId}]

Managers == [mapInfo : Infos, mapAddr : AddrMap, vRandom : Seq(Nat), vvNew : NewTable, vvTried : TriedTable,
             nNew : Int, nTried : Int, nIdCount : Nat, asserted : BOOLEAN]

Places(m, i) == {s \in NewSlots : m.vvNew[s] = i}

AddressesExact(m) ==
    /\ \A i \in Ids(m) : m.mapAddr[m.mapInfo[i].addr] = i
    /\ \A a \in Addrs : m.mapAddr[a] # NoId =>
          m.mapAddr[a] \in Ids(m) /\ m.mapInfo[m.mapAddr[a]].addr = a

RandomExact(m) ==
    /\ \A k \in DOMAIN m.vRandom : m.vRandom[k] \in Ids(m) /\ m.mapInfo[m.vRandom[k]].nRandomPos = k
    /\ \A i \in Ids(m) : /\ m.mapInfo[i].nRandomPos \in DOMAIN m.vRandom
                         /\ m.vRandom[m.mapInfo[i].nRandomPos] = i

NewExact(m) ==
    /\ \A s \in NewSlots : m.vvNew[s] # NoId =>
          m.vvNew[s] \in Ids(m) /\ s = NewSlotOf(m.mapInfo[m.vvNew[s]].addr, s[1])
    /\ \A i \in Ids(m) : /\ IsFiniteSet(Places(m, i))
                         /\ m.mapInfo[i].nRefCount = Cardinality(Places(m, i))
                         /\ m.mapInfo[i].nRefCount <= ADDRMAN_NEW_BUCKETS_PER_ADDRESS

TriedExact(m) ==
    /\ \A t \in TriedSlots : m.vvTried[t] # NoId =>
          /\ m.vvTried[t] \in Ids(m) /\ m.mapInfo[m.vvTried[t]].fInTried
          /\ TriedSlot[m.mapInfo[m.vvTried[t]].addr] = t
    /\ \A i \in Ids(m) : m.mapInfo[i].fInTried => m.vvTried[TriedSlot[m.mapInfo[i].addr]] = i

InHand(m, H) ==
    /\ H \subseteq Ids(m)
    /\ \A i \in Ids(m) : /\ m.mapInfo[i].fInTried => m.mapInfo[i].nRefCount = 0
                         /\ i \in H <=> ~m.mapInfo[i].fInTried /\ m.mapInfo[i].nRefCount = 0

Counted(m, U) ==
    /\ IsFiniteSet(Ids(m)) /\ Len(m.vRandom) = Cardinality(Ids(m))
    /\ \A i \in Ids(m) : i < m.nIdCount
    /\ U \subseteq Ids(m) \ TriedIds(m)
    /\ m.nTried = Cardinality(TriedIds(m))
    /\ m.nNew = Cardinality((Ids(m) \ TriedIds(m)) \ U)

AddrInv(m, H, U) ==
    /\ m \in Managers /\ m.asserted
    /\ AddressesExact(m) /\ RandomExact(m) /\ NewExact(m) /\ TriedExact(m)
    /\ InHand(m, H) /\ Counted(m, U)

-----------------------------------------------------------------------------
(* Records and counting. *)

\* The parts of a manager have their types.
LEMMA ManagerFields ==
  ASSUME NEW m \in Managers
  PROVE  /\ m.mapInfo \in [Ids(m) -> Info] /\ Ids(m) \in SUBSET Nat
         /\ m.mapAddr \in [Addrs -> Nat \cup {NoId}] /\ m.vRandom \in Seq(Nat)
         /\ m.vvNew \in [NewSlots -> Nat \cup {NoId}]
         /\ m.vvTried \in [TriedSlots -> Nat \cup {NoId}]
         /\ m.nNew \in Int /\ m.nTried \in Int /\ m.nIdCount \in Nat /\ m.asserted \in BOOLEAN
  BY Zenon DEF Managers, Ids, Infos, AddrMap, NewTable, TriedTable

\* An entry has its parts.
LEMMA InfoFields ==
  ASSUME NEW m \in Managers, NEW i \in Ids(m)
  PROVE  /\ m.mapInfo[i] \in Info /\ i \in Nat /\ i # NoId
         /\ m.mapInfo[i].addr \in Addrs /\ m.mapInfo[i].source \in Sources
         /\ m.mapInfo[i].nRefCount \in Int /\ m.mapInfo[i].fInTried \in BOOLEAN
         /\ m.mapInfo[i].nRandomPos \in Int
  <1>1. m.mapInfo[i] \in Info /\ i \in Nat
    BY ManagerFields, Zenon
  <1>2. i # NoId
    BY <1>1 DEF NoId
  <1> QED  BY <1>1, <1>2, Zenon DEF Info

\* The first part of a pair.
LEMMA PairFirst == \A x, y : <<x, y>>[1] = x
  OBVIOUS

\* The second part of a pair.
LEMMA PairSecond == \A x, y : <<x, y>>[2] = y
  OBVIOUS

\* The place of an address in a new bucket.
LEMMA SlotOf ==
  ASSUME NEW a \in Addrs, NEW b \in NewBuckets
  PROVE  NewSlotOf(a, b) \in NewSlots /\ NewSlotOf(a, b)[1] = b
  <1>1. <<a, b>> \in Addrs \X NewBuckets /\ <<a, b>>[2] = b
    BY PairSecond, Zenon
  <1>2. NewSlotOf(a, b) = <<b, NewPosition[<<a, b>>]>>
    BY Zenon DEF NewSlotOf
  <1>3. NewSlotOf(a, b) \in NewSlots
    BY <1>1, <1>2, Zenon DEF NewSlots
  <1> QED  BY <1>2, <1>3, PairFirst, Zenon

\* The entry at a place of the tried table.
LEMMA TriedThere ==
  ASSUME NEW m, TriedExact(m), NEW t \in TriedSlots, m.vvTried[t] # NoId
  PROVE  /\ m.vvTried[t] \in Ids(m) /\ m.mapInfo[m.vvTried[t]].fInTried
         /\ TriedSlot[m.mapInfo[m.vvTried[t]].addr] = t
  BY Zenon DEF TriedExact

\* A tried entry is at its place.
LEMMA TriedFound ==
  ASSUME NEW m, TriedExact(m), NEW i \in Ids(m), m.mapInfo[i].fInTried
  PROVE  m.vvTried[TriedSlot[m.mapInfo[i].addr]] = i
  BY Zenon DEF TriedExact

\* Two entries that differ in nRandomPos only.
Alike(x, y) == x.addr = y.addr /\ x.source = y.source /\ x.nRefCount = y.nRefCount /\ x.fInTried = y.fInTried

\* An entry with another position.
LEMMA InfoMoved ==
  ASSUME NEW x \in Info, NEW p \in Int, NEW y, y = [x EXCEPT !.nRandomPos = p]
  PROVE  y \in Info /\ Alike(y, x) /\ y.nRandomPos = p
  BY Zenon DEF Info, Alike

-----------------------------------------------------------------------------
(* SwapRandom and Delete. *)

\* What SwapRandom makes of m: two positions are exchanged and nothing else changes.
Swapped(m, i, j, r) ==
    /\ r \in Managers /\ Ids(r) = Ids(m)
    /\ r.mapAddr = m.mapAddr /\ r.vvNew = m.vvNew /\ r.vvTried = m.vvTried
    /\ r.nNew = m.nNew /\ r.nTried = m.nTried /\ r.nIdCount = m.nIdCount /\ r.asserted = m.asserted
    /\ r.vRandom = [m.vRandom EXCEPT ![i] = m.vRandom[j], ![j] = m.vRandom[i]]
    /\ \A k \in Ids(m) : Alike(r.mapInfo[k], m.mapInfo[k])
    /\ \A k \in Ids(m) \ {m.vRandom[i], m.vRandom[j]} : r.mapInfo[k] = m.mapInfo[k]
    /\ r.mapInfo[m.vRandom[i]].nRandomPos = j /\ r.mapInfo[m.vRandom[j]].nRandomPos = i

\* The fields of SwapRandom.
LEMMA SwapFields ==
  ASSUME NEW m \in Managers, NEW i \in DOMAIN m.vRandom, NEW j \in DOMAIN m.vRandom, i # j,
         m.vRandom[i] \in Ids(m), m.vRandom[j] \in Ids(m), m.vRandom[i] # m.vRandom[j]
  PROVE  Swapped(m, i, j, SwapRandom(m, i, j))
  <1> DEFINE id1 == m.vRandom[i]
             id2 == m.vRandom[j]
             r == SwapRandom(m, i, j)
  <1> DEFINE infos == [m.mapInfo EXCEPT ![id1].nRandomPos = j, ![id2].nRandomPos = i]
             random == [m.vRandom EXCEPT ![i] = id2, ![j] = id1]
             asserted == m.asserted /\ {i, j} \subseteq DOMAIN m.vRandom /\ {id1, id2} \subseteq Ids(m)
  <1>1. r = [m EXCEPT !.mapInfo = infos, !.vRandom = random, !.asserted = asserted]
    BY Zenon DEF SwapRandom
  <1>0. id1 = m.vRandom[i] /\ id2 = m.vRandom[j] /\ id1 # id2 /\ id1 \in Ids(m) /\ id2 \in Ids(m)
    BY Zenon
  <1> HIDE DEF id1, id2, r
  <1>2. /\ m.mapInfo \in [Ids(m) -> Info] /\ Ids(m) \in SUBSET Nat /\ m.vRandom \in Seq(Nat)
        /\ m.asserted \in BOOLEAN
    BY ManagerFields, Zenon
  <1>3. i \in Int /\ j \in Int
    BY <1>2
  <1>4. /\ DOMAIN infos = Ids(m)
        /\ infos[id1] = [m.mapInfo[id1] EXCEPT !.nRandomPos = j]
        /\ infos[id2] = [m.mapInfo[id2] EXCEPT !.nRandomPos = i]
        /\ \A k \in Ids(m) \ {id1, id2} : infos[k] = m.mapInfo[k]
    BY <1>0, <1>2, Zenon
  <1> HIDE DEF infos
  <1>5. /\ \A k \in Ids(m) : infos[k] \in Info /\ Alike(infos[k], m.mapInfo[k])
        /\ infos[id1].nRandomPos = j /\ infos[id2].nRandomPos = i
    <2>1. /\ infos[id1] \in Info /\ Alike(infos[id1], m.mapInfo[id1]) /\ infos[id1].nRandomPos = j
      <3>1. m.mapInfo[id1] \in Info
        BY <1>0, <1>2, Zenon
      <3>2. infos[id1] = [m.mapInfo[id1] EXCEPT !.nRandomPos = j]
        BY <1>4, Zenon
      <3> QED BY <1>3, <3>1, <3>2, Zenon DEF Info, Alike
    <2>2. /\ infos[id2] \in Info /\ Alike(infos[id2], m.mapInfo[id2]) /\ infos[id2].nRandomPos = i
      <3>1. m.mapInfo[id2] \in Info
        BY <1>0, <1>2, Zenon
      <3>2. infos[id2] = [m.mapInfo[id2] EXCEPT !.nRandomPos = i]
        BY <1>4, Zenon
      <3> QED BY <1>3, <3>1, <3>2, InfoMoved
    <2>3. \A k \in Ids(m) \ {id1, id2} : infos[k] \in Info /\ Alike(infos[k], m.mapInfo[k])
      BY <1>2, <1>4, Zenon DEF Alike
    <2> QED  BY <2>1, <2>2, <2>3, Zenon
  <1>6. infos \in Infos
    <2>1. infos = [k \in Ids(m) |-> infos[k]]
      BY <1>1, <1>4, Zenon DEF infos
    <2> QED  BY <1>2, <1>5, <2>1, Zenon DEF Infos
  <1>7. random \in Seq(Nat)
    BY <1>0, <1>2
  <1>8. asserted = m.asserted
    BY <1>0, <1>2, Zenon
  <1> HIDE DEF random, asserted
  <1>9. r \in Managers
    BY <1>1, <1>2, <1>6, <1>7, <1>8, Zenon DEF Managers
  <1>10. /\ r.mapAddr = m.mapAddr /\ r.vvNew = m.vvNew /\ r.vvTried = m.vvTried
         /\ r.nNew = m.nNew /\ r.nTried = m.nTried /\ r.nIdCount = m.nIdCount /\ r.asserted = asserted
         /\ r.vRandom = random /\ r.mapInfo = infos
    BY <1>1, Zenon DEF Managers
  <1>11. Ids(r) = Ids(m)
    BY <1>4, <1>10, Zenon DEF Ids
  <1>12. r.vRandom = [m.vRandom EXCEPT ![i] = id2, ![j] = id1]
    BY <1>10, Zenon DEF random
  <1>13. \A k \in Ids(m) : Alike(r.mapInfo[k], m.mapInfo[k])
    BY <1>5, <1>10, Zenon
  <1>14. \A k \in Ids(m) \ {id1, id2} : r.mapInfo[k] = m.mapInfo[k]
    BY <1>4, <1>10, Zenon
  <1>15. r.mapInfo[id1].nRandomPos = j /\ r.mapInfo[id2].nRandomPos = i
    BY <1>5, <1>10, Zenon
  <1>16. r.asserted = m.asserted
    BY <1>8, <1>10, Zenon
  <1> QED  BY <1>0, <1>9, <1>10, <1>11, <1>12, <1>13, <1>14, <1>15, <1>16, Zenon DEF Swapped, r

\* What does not depend on the positions.
LEMMA AlikeKeeps ==
  ASSUME NEW m, NEW r, NEW H, NEW U, AddrInv(m, H, U), Ids(r) = Ids(m),
         \A k \in Ids(m) : Alike(r.mapInfo[k], m.mapInfo[k]),
         r.mapAddr = m.mapAddr, r.vvNew = m.vvNew, r.vvTried = m.vvTried, r.nNew = m.nNew,
         r.nTried = m.nTried, r.nIdCount = m.nIdCount, Len(r.vRandom) = Len(m.vRandom)
  PROVE  AddressesExact(r) /\ NewExact(r) /\ TriedExact(r) /\ InHand(r, H) /\ Counted(r, U)
  <1>1. \A k \in Ids(m) : r.mapInfo[k].addr = m.mapInfo[k].addr /\ r.mapInfo[k].fInTried = m.mapInfo[k].fInTried
    BY Zenon DEF Alike
  <1>a. AddressesExact(m) /\ TriedExact(m)
    BY Zenon DEF AddrInv
  <1>2. AddressesExact(r)
    <2>1. ASSUME NEW k \in Ids(r)
          PROVE  r.mapAddr[r.mapInfo[k].addr] = k
      <3>1. m.mapAddr[m.mapInfo[k].addr] = k
        BY <1>a, Zenon DEF AddressesExact
      <3> QED  BY <1>1, <3>1, Zenon
    <2>2. ASSUME NEW a \in Addrs, r.mapAddr[a] # NoId
          PROVE  r.mapAddr[a] \in Ids(r) /\ r.mapInfo[r.mapAddr[a]].addr = a
      <3>1. m.mapAddr[a] \in Ids(m) /\ m.mapInfo[m.mapAddr[a]].addr = a
        BY <1>a, <2>2, Zenon DEF AddressesExact
      <3> QED  BY <1>1, <3>1, Zenon
    <2> QED  BY <2>1, <2>2, Zenon DEF AddressesExact
  <1>3. \A k \in Ids(m) : Places(r, k) = Places(m, k)
    BY Zenon DEF Places
  <1>4. NewExact(r)
    BY <1>3, Zenon DEF AddrInv, NewExact, Alike
  <1>5. TriedExact(r)
    <2>1. ASSUME NEW k \in Ids(r), r.mapInfo[k].fInTried
          PROVE  r.vvTried[TriedSlot[r.mapInfo[k].addr]] = k
      <3>1. m.vvTried[TriedSlot[m.mapInfo[k].addr]] = k
        BY <1>1, <1>a, <2>1, TriedFound, Zenon
      <3> QED  BY <1>1, <3>1, Zenon
    <2>2. ASSUME NEW t \in TriedSlots, r.vvTried[t] # NoId
          PROVE  /\ r.vvTried[t] \in Ids(r) /\ r.mapInfo[r.vvTried[t]].fInTried
                 /\ TriedSlot[r.mapInfo[r.vvTried[t]].addr] = t
      <3>1. /\ m.vvTried[t] \in Ids(m) /\ m.mapInfo[m.vvTried[t]].fInTried
            /\ TriedSlot[m.mapInfo[m.vvTried[t]].addr] = t
        <4>1. m.vvTried[t] # NoId
          BY <2>2, Zenon
        <4> QED  BY <1>a, <4>1, TriedThere, ZenonT(60)
      <3> QED  BY <1>1, <3>1, Zenon
    <2> QED  BY <2>1, <2>2, Zenon DEF TriedExact
  <1>6. InHand(r, H)
    BY Zenon DEF AddrInv, InHand, Alike
  <1>7. TriedIds(r) = TriedIds(m)
    BY Zenon DEF TriedIds, Alike
  <1>8. Counted(r, U)
    BY <1>7, Zenon DEF AddrInv, Counted
  <1> QED  BY <1>2, <1>4, <1>5, <1>6, <1>8, Zenon

\* vRandom names each entry once.
LEMMA RandomOnce ==
  ASSUME NEW m, RandomExact(m), NEW i \in DOMAIN m.vRandom, NEW j \in DOMAIN m.vRandom,
         m.vRandom[i] = m.vRandom[j]
  PROVE  i = j
  BY Zenon DEF RandomExact

\* What a caller of SwapRandom relies on.
Exchanged(m, i, j, r) ==
    /\ Ids(r) = Ids(m) /\ \A k \in Ids(m) : Alike(r.mapInfo[k], m.mapInfo[k])
    /\ r.mapAddr = m.mapAddr /\ r.vvNew = m.vvNew /\ r.vvTried = m.vvTried
    /\ r.nNew = m.nNew /\ r.nTried = m.nTried /\ r.nIdCount = m.nIdCount
    /\ Len(r.vRandom) = Len(m.vRandom) /\ r.vRandom[j] = m.vRandom[i]

\* SwapRandom keeps the invariant, and exchanges two entries of vRandom.
LEMMA SwapInv ==
  ASSUME NEW m, NEW H, NEW U, AddrInv(m, H, U), NEW i \in DOMAIN m.vRandom, NEW j \in DOMAIN m.vRandom
  PROVE  AddrInv(SwapRandom(m, i, j), H, U) /\ Exchanged(m, i, j, SwapRandom(m, i, j))
  <1> DEFINE r == SwapRandom(m, i, j)
  <1>1. CASE i = j
    <2>1. r = m
      BY <1>1, Zenon DEF SwapRandom
    <2> HIDE DEF r
    <2> QED  BY <1>1, <2>1, Zenon DEF Alike, Exchanged, r
  <1>2. CASE i # j
    <2> DEFINE id1 == m.vRandom[i]
               id2 == m.vRandom[j]
    <2>1. m \in Managers /\ m.asserted /\ RandomExact(m)
      BY Zenon DEF AddrInv
    <2>2. id1 \in Ids(m) /\ id2 \in Ids(m)
      BY <2>1, Zenon DEF RandomExact
    <2>3. id1 # id2
      BY <1>2, <2>1, RandomOnce, Zenon
    <2>4. id1 = m.vRandom[i] /\ id2 = m.vRandom[j]
      BY Zenon
    <2> HIDE DEF id1, id2
    <2>5. /\ r \in Managers /\ Ids(r) = Ids(m)
          /\ r.mapAddr = m.mapAddr /\ r.vvNew = m.vvNew /\ r.vvTried = m.vvTried
          /\ r.nNew = m.nNew /\ r.nTried = m.nTried /\ r.nIdCount = m.nIdCount /\ r.asserted = m.asserted
          /\ r.vRandom = [m.vRandom EXCEPT ![i] = id2, ![j] = id1]
          /\ \A k \in Ids(m) : Alike(r.mapInfo[k], m.mapInfo[k])
          /\ \A k \in Ids(m) \ {id1, id2} : r.mapInfo[k] = m.mapInfo[k]
          /\ r.mapInfo[id1].nRandomPos = j /\ r.mapInfo[id2].nRandomPos = i
      <3>1. Swapped(m, i, j, r)
        BY <1>2, <2>1, <2>2, <2>3, <2>4, SwapFields, Zenon
      <3> HIDE DEF r
      <3> QED  BY <2>4, <3>1, Zenon DEF Swapped
    <2> HIDE DEF r
    <2>6. m.vRandom \in Seq(Nat) /\ r.vRandom \in Seq(Nat)
      BY <2>1, <2>5, ManagerFields, Zenon
    <2>7. /\ DOMAIN r.vRandom = DOMAIN m.vRandom /\ r.vRandom[i] = id2 /\ r.vRandom[j] = id1
          /\ \A k \in DOMAIN m.vRandom \ {i, j} : r.vRandom[k] = m.vRandom[k]
      BY <1>2, <2>5, Zenon
    <2>8. Len(r.vRandom) = Len(m.vRandom)
      BY <2>6, <2>7
    <2>9. RandomExact(r)
      <3>1. ASSUME NEW k \in DOMAIN r.vRandom
            PROVE  r.vRandom[k] \in Ids(r) /\ r.mapInfo[r.vRandom[k]].nRandomPos = k
        <4>1. CASE k \in {i, j}
          BY <2>2, <2>5, <2>7, <4>1, Zenon
        <4>2. CASE k \notin {i, j}
          <5>1. k \in DOMAIN m.vRandom /\ r.vRandom[k] = m.vRandom[k]
            BY <2>7, <3>1, <4>2, Zenon
          <5>2. m.vRandom[k] # id1 /\ m.vRandom[k] # id2
            BY <2>1, <2>4, <4>2, <5>1, RandomOnce, Zenon
          <5>3. m.vRandom[k] \in Ids(m) /\ m.mapInfo[m.vRandom[k]].nRandomPos = k
            BY <2>1, <5>1, Zenon DEF RandomExact
          <5>4. r.mapInfo[m.vRandom[k]] = m.mapInfo[m.vRandom[k]] /\ Ids(r) = Ids(m)
            BY <2>5, <5>2, <5>3, Zenon
          <5> QED  BY <5>1, <5>3, <5>4, Zenon
        <4> QED  BY <4>1, <4>2, Zenon
      <3>2. ASSUME NEW k \in Ids(r)
            PROVE  r.mapInfo[k].nRandomPos \in DOMAIN r.vRandom /\ r.vRandom[r.mapInfo[k].nRandomPos] = k
        <4>1. CASE k \in {id1, id2}
          BY <2>5, <2>7, <4>1, Zenon
        <4>2. CASE k \notin {id1, id2}
          <5>1. k \in Ids(m) /\ r.mapInfo[k] = m.mapInfo[k]
            BY <2>5, <3>2, <4>2, Zenon
          <5>2. m.mapInfo[k].nRandomPos \in DOMAIN m.vRandom /\ m.vRandom[m.mapInfo[k].nRandomPos] = k
            BY <2>1, <5>1, Zenon DEF RandomExact
          <5>3. m.mapInfo[k].nRandomPos \notin {i, j}
            BY <2>4, <4>2, <5>2, Zenon
          <5> QED  BY <2>7, <5>1, <5>2, <5>3, Zenon
        <4> QED  BY <4>1, <4>2, Zenon
      <3> QED  BY <3>1, <3>2, Zenon DEF RandomExact
    <2>10. AddressesExact(r) /\ NewExact(r) /\ TriedExact(r) /\ InHand(r, H) /\ Counted(r, U)
      BY <2>5, <2>8, AlikeKeeps, Zenon
    <2>11. AddrInv(r, H, U)
      BY <2>1, <2>5, <2>9, <2>10, Zenon DEF AddrInv
    <2> QED  BY <2>4, <2>5, <2>7, <2>8, <2>11, Zenon DEF r, Exchanged
  <1> QED  BY <1>1, <1>2, Zenon

\* An entry that has no place in the new table is not named there.
LEMMA NotPlaced ==
  ASSUME NEW m, NewExact(m), NEW i \in Ids(m), m.mapInfo[i].nRefCount = 0
  PROVE  \A s \in NewSlots : m.vvNew[s] # i
  <1>1. IsFiniteSet(Places(m, i)) /\ Cardinality(Places(m, i)) = 0
    BY Zenon DEF NewExact
  <1>2. Places(m, i) = {}
    BY <1>1, FS_EmptySet, Zenon
  <1> QED  BY <1>2, Zenon DEF Places

\* What Delete makes of m: the entry is gone from the table and from vRandom.
Deleted(m, nId, r) ==
    /\ Ids(r) = Ids(m) \ {nId} /\ \A k \in Ids(r) : Alike(r.mapInfo[k], m.mapInfo[k])
    /\ r.vvNew = m.vvNew /\ r.vvTried = m.vvTried /\ r.nIdCount = m.nIdCount

\* Delete removes an entry that is in hand.
LEMMA DeleteInv ==
  ASSUME NEW m, NEW H, NEW U, AddrInv(m, H, U), NEW nId \in H, nId \notin U
  PROVE  AddrInv(Delete(m, nId), H \ {nId}, U) /\ Deleted(m, nId, Delete(m, nId))
  <1> DEFINE info == m.mapInfo[nId]
             n == Len(m.vRandom)
             q == SwapRandom(m, info.nRandomPos, n)
             r == Delete(m, nId)
  <1>1. /\ m \in Managers /\ nId \in Ids(m) /\ RandomExact(m) /\ ~info.fInTried /\ info.nRefCount = 0
        /\ info.nRandomPos \in DOMAIN m.vRandom /\ m.vRandom[info.nRandomPos] = nId
    BY Zenon DEF AddrInv, InHand, RandomExact
  <1>2. n \in DOMAIN m.vRandom /\ n \in Nat \ {0} /\ m.vRandom \in Seq(Nat)
    <2>1. m.vRandom \in Seq(Nat) /\ info.nRandomPos \in DOMAIN m.vRandom
      BY <1>1, ManagerFields, Zenon
    <2> HIDE DEF info
    <2> QED  BY <2>1
  <1>3. r = [q EXCEPT !.vRandom = SubSeq(q.vRandom, 1, Len(q.vRandom) - 1),
                      !.mapAddr = [q.mapAddr EXCEPT ![info.addr] = NoId],
                      !.mapInfo = Without(q.mapInfo, nId), !.nNew = q.nNew - 1,
                      !.asserted = q.asserted /\ ~info.fInTried /\ info.nRefCount = 0]
    BY Zenon DEF Delete
  <1> HIDE DEF r
  <1>4. /\ AddrInv(q, H, U) /\ Ids(q) = Ids(m) /\ \A k \in Ids(m) : Alike(q.mapInfo[k], m.mapInfo[k])
        /\ q.mapAddr = m.mapAddr /\ q.vvNew = m.vvNew /\ q.vvTried = m.vvTried
        /\ q.nNew = m.nNew /\ q.nTried = m.nTried /\ q.nIdCount = m.nIdCount
        /\ Len(q.vRandom) = n /\ q.vRandom[n] = nId
    <2>1. AddrInv(q, H, U) /\ Exchanged(m, info.nRandomPos, n, q)
      BY <1>1, <1>2, SwapInv, Zenon
    <2> HIDE DEF q, info
    <2> QED  BY <1>1, <2>1, Zenon DEF Exchanged
  <1>5. q.mapInfo[nId].addr = info.addr
    BY <1>1, <1>4, Zenon DEF Alike
  <1> HIDE DEF q
  <1> DEFINE random == SubSeq(q.vRandom, 1, n - 1)
             addrs == [q.mapAddr EXCEPT ![info.addr] = NoId]
             infos == Without(q.mapInfo, nId)
  <1>6. q \in Managers /\ q.asserted
    BY <1>4, Zenon DEF AddrInv
  <1>7. info.addr \in Addrs
    BY <1>1, InfoFields, Zenon
  <1>8. /\ q.vRandom \in Seq(Nat) /\ q.mapAddr \in [Addrs -> Nat \cup {NoId}] /\ q.nNew \in Int
        /\ q.mapInfo \in [Ids(q) -> Info] /\ Ids(q) \in SUBSET Nat
    BY <1>6, ManagerFields, Zenon
  <1> HIDE DEF info, n
  <1>9. /\ random \in Seq(Nat) /\ Len(random) = n - 1 /\ DOMAIN random = 1..(n - 1)
        /\ \A k \in 1..(n - 1) : k \in DOMAIN q.vRandom /\ k # n /\ random[k] = q.vRandom[k]
    <2>1. q.vRandom \in Seq(Nat) /\ Len(q.vRandom) = n /\ n \in Nat \ {0}
      BY <1>2, <1>4, <1>8, Zenon
    <2> QED  BY <2>1
  <1>10. addrs \in AddrMap /\ \A a \in Addrs : addrs[a] = IF a = info.addr THEN NoId ELSE q.mapAddr[a]
    BY <1>7, <1>8, Zenon DEF AddrMap
  <1>11. DOMAIN infos = Ids(q) \ {nId} /\ \A k \in Ids(q) \ {nId} : infos[k] = q.mapInfo[k]
    BY Zenon DEF Without, Ids
  <1>12. infos \in Infos
    <2>1. infos = [k \in Ids(q) \ {nId} |-> q.mapInfo[k]]
      BY Zenon DEF Without, Ids
    <2>2. infos \in [Ids(q) \ {nId} -> Info]
      BY <1>8, <2>1, Zenon
    <2> QED  BY <1>8, <2>2, Zenon DEF Infos
  <1>13. q.nNew - 1 \in Int
    BY <1>8
  <1> HIDE DEF random, addrs, infos
  <1>14. r = [q EXCEPT !.vRandom = random, !.mapAddr = addrs, !.mapInfo = infos, !.nNew = q.nNew - 1,
                       !.asserted = TRUE]
    BY <1>1, <1>3, <1>4, <1>6, Zenon DEF random, addrs, infos, info
  <1>15. r \in Managers
    BY <1>6, <1>9, <1>10, <1>12, <1>13, <1>14, Zenon DEF Managers
  <1>16. /\ r.vRandom = random /\ r.mapAddr = addrs /\ r.mapInfo = infos /\ r.nNew = q.nNew - 1 /\ r.asserted
         /\ r.vvNew = q.vvNew /\ r.vvTried = q.vvTried /\ r.nTried = q.nTried /\ r.nIdCount = q.nIdCount
    BY <1>6, <1>14, Zenon DEF Managers
  <1>17. Ids(r) = Ids(q) \ {nId} /\ \A k \in Ids(r) : r.mapInfo[k] = q.mapInfo[k]
    BY <1>11, <1>16, Zenon DEF Ids
  <1>18. AddressesExact(r)
    <2>1. ASSUME NEW k \in Ids(r)
          PROVE  r.mapAddr[r.mapInfo[k].addr] = k
      <3>1. k \in Ids(q) /\ k # nId /\ r.mapInfo[k] = q.mapInfo[k]
        BY <1>17, <2>1, Zenon
      <3>2. q.mapAddr[q.mapInfo[k].addr] = k /\ q.mapAddr[info.addr] = nId /\ q.mapInfo[k].addr \in Addrs
        <4>1. AddressesExact(q) /\ nId \in Ids(q)
          BY <1>1, <1>4, Zenon DEF AddrInv
        <4>2. q.mapAddr[q.mapInfo[k].addr] = k /\ q.mapAddr[info.addr] = nId
          BY <1>5, <3>1, <4>1, Zenon DEF AddressesExact
        <4>3. q.mapInfo[k].addr \in Addrs
          BY <1>6, <3>1, InfoFields, Zenon
        <4> QED  BY <4>2, <4>3, Zenon
      <3> QED  BY <1>10, <1>16, <3>1, <3>2, Zenon
    <2>2. ASSUME NEW a \in Addrs, r.mapAddr[a] # NoId
          PROVE  r.mapAddr[a] \in Ids(r) /\ r.mapInfo[r.mapAddr[a]].addr = a
      <3>1. a # info.addr /\ r.mapAddr[a] = q.mapAddr[a]
        BY <1>10, <1>16, <2>2, Zenon
      <3>2. q.mapAddr[a] \in Ids(q) /\ q.mapInfo[q.mapAddr[a]].addr = a
        BY <1>4, <2>2, <3>1, Zenon DEF AddrInv, AddressesExact
      <3>3. q.mapAddr[a] # nId
        BY <1>5, <3>1, <3>2, Zenon
      <3> QED  BY <1>17, <3>1, <3>2, <3>3, Zenon
    <2> QED  BY <2>1, <2>2, Zenon DEF AddressesExact
  <1>19. RandomExact(r)
    <2>0. RandomExact(q)
      BY <1>4, Zenon DEF AddrInv
    <2>1. ASSUME NEW k \in DOMAIN r.vRandom
          PROVE  r.vRandom[k] \in Ids(r) /\ r.mapInfo[r.vRandom[k]].nRandomPos = k
      <3>1. k \in DOMAIN q.vRandom /\ k # n /\ r.vRandom[k] = q.vRandom[k]
        BY <1>9, <1>16, <2>1, Zenon
      <3>2. q.vRandom[k] \in Ids(q) /\ q.mapInfo[q.vRandom[k]].nRandomPos = k
        BY <2>0, <3>1, Zenon DEF RandomExact
      <3>3. n \in DOMAIN q.vRandom
        BY <1>2, <1>4, <1>8
      <3>4. q.vRandom[k] # nId
        BY <1>4, <2>0, <3>1, <3>3, RandomOnce, Zenon
      <3> QED  BY <1>17, <3>1, <3>2, <3>4, Zenon
    <2>2. ASSUME NEW k \in Ids(r)
          PROVE  r.mapInfo[k].nRandomPos \in DOMAIN r.vRandom /\ r.vRandom[r.mapInfo[k].nRandomPos] = k
      <3> DEFINE p == q.mapInfo[k].nRandomPos
      <3>1. p \in DOMAIN q.vRandom /\ q.vRandom[p] = k /\ k # nId /\ r.mapInfo[k].nRandomPos = p
        BY <1>17, <2>0, <2>2, Zenon DEF RandomExact
      <3> HIDE DEF p
      <3>2. p \in 1..(n - 1)
        BY <1>2, <1>4, <1>8, <3>1
      <3> QED  BY <1>9, <1>16, <3>1, <3>2, Zenon
    <2> QED  BY <2>1, <2>2, Zenon DEF RandomExact
  <1>20. q.mapInfo[nId].nRefCount = 0 /\ ~q.mapInfo[nId].fInTried /\ nId \in Ids(q)
    BY <1>1, <1>4, Zenon DEF Alike, info
  <1>21. NewExact(r)
    <2>0. NewExact(q)
      BY <1>4, Zenon DEF AddrInv
    <2>1. \A s \in NewSlots : q.vvNew[s] # nId
      BY <1>20, <2>0, NotPlaced, Zenon
    <2>2. \A k \in Ids(r) : Places(r, k) = Places(q, k)
      BY <1>16, Zenon DEF Places
    <2>3. ASSUME NEW s \in NewSlots, r.vvNew[s] # NoId
          PROVE  r.vvNew[s] \in Ids(r) /\ s = NewSlotOf(r.mapInfo[r.vvNew[s]].addr, s[1])
      <3>1. q.vvNew[s] \in Ids(q) /\ s = NewSlotOf(q.mapInfo[q.vvNew[s]].addr, s[1])
        BY <1>16, <2>0, <2>3, Zenon DEF NewExact
      <3> QED  BY <1>16, <1>17, <2>1, <3>1, Zenon
    <2>4. \A k \in Ids(r) : /\ IsFiniteSet(Places(r, k)) /\ r.mapInfo[k].nRefCount = Cardinality(Places(r, k))
                            /\ r.mapInfo[k].nRefCount <= ADDRMAN_NEW_BUCKETS_PER_ADDRESS
      BY <1>17, <2>0, <2>2, Zenon DEF NewExact
    <2> QED  BY <2>3, <2>4, Zenon DEF NewExact
  <1>22. TriedExact(r)
    <2>0. TriedExact(q)
      BY <1>4, Zenon DEF AddrInv
    <2>a. r.vvTried = q.vvTried
      BY <1>16, Zenon
    <2>1. ASSUME NEW t \in TriedSlots, r.vvTried[t] # NoId
          PROVE  /\ r.vvTried[t] \in Ids(r) /\ r.mapInfo[r.vvTried[t]].fInTried
                 /\ TriedSlot[r.mapInfo[r.vvTried[t]].addr] = t
      <3>1. /\ q.vvTried[t] \in Ids(q) /\ q.mapInfo[q.vvTried[t]].fInTried
            /\ TriedSlot[q.mapInfo[q.vvTried[t]].addr] = t
        <4>1. q.vvTried[t] # NoId
          BY <2>1, <2>a, Zenon
        <4> QED  BY <2>0, <4>1, TriedThere, ZenonT(60)
      <3>2. q.vvTried[t] # nId
        BY <1>20, <3>1, Zenon
      <3>3. q.vvTried[t] \in Ids(r) /\ r.mapInfo[q.vvTried[t]] = q.mapInfo[q.vvTried[t]]
        BY <1>17, <3>1, <3>2, Zenon
      <3> QED  BY <2>a, <3>1, <3>3, Zenon
    <2>2. ASSUME NEW k \in Ids(r), r.mapInfo[k].fInTried
          PROVE  r.vvTried[TriedSlot[r.mapInfo[k].addr]] = k
      <3>1. k \in Ids(q) /\ r.mapInfo[k] = q.mapInfo[k]
        BY <1>17, <2>2, Zenon
      <3>2. q.vvTried[TriedSlot[q.mapInfo[k].addr]] = k
        BY <2>0, <2>2, <3>1, TriedFound, Zenon
      <3> QED  BY <2>a, <3>1, <3>2, Zenon
    <2> QED  BY <2>1, <2>2, Zenon DEF TriedExact
  <1>23. InHand(r, H \ {nId})
    <2>0. InHand(q, H)
      BY <1>4, Zenon DEF AddrInv
    <2> QED  BY <1>17, <2>0, Zenon DEF InHand
  <1>24. Counted(r, U)
    <2>0. Counted(q, U)
      BY <1>4, Zenon DEF AddrInv
    <2>1. TriedIds(r) = TriedIds(q)
      <3>1. \A k : k \in Ids(r) <=> k \in Ids(q) /\ k # nId
        BY <1>17, Zenon
      <3>2. \A k \in Ids(r) : r.mapInfo[k].fInTried = q.mapInfo[k].fInTried
        BY <1>17, Zenon
      <3>3. \A k : k \in TriedIds(r) <=> k \in TriedIds(q)
        BY <1>20, <3>1, <3>2, Zenon DEF TriedIds
      <3> QED  BY <3>3, Zenon
    <2>2. IsFiniteSet(Ids(r)) /\ Cardinality(Ids(r)) = Cardinality(Ids(q)) - 1
      BY <1>17, <1>20, <2>0, FS_RemoveElement, Zenon DEF Counted
    <2> DEFINE N == (Ids(q) \ TriedIds(q)) \ U
    <2>3. (Ids(r) \ TriedIds(r)) \ U = N \ {nId} /\ nId \in N
      BY <1>17, <1>20, <2>1, Zenon DEF TriedIds
    <2>4. IsFiniteSet(N)
      BY <2>0, FS_Subset, Zenon DEF Counted
    <2>5. Cardinality(N \ {nId}) = Cardinality(N) - 1 /\ q.nNew = Cardinality(N)
      BY <2>0, <2>3, <2>4, FS_RemoveElement, ZenonT(60) DEF Counted
    <2> HIDE DEF N
    <2>6. r.nNew = Cardinality((Ids(r) \ TriedIds(r)) \ U)
      BY <1>16, <2>3, <2>5, Zenon
    <2>7. Len(r.vRandom) = Cardinality(Ids(r))
      BY <1>4, <1>9, <1>16, <2>0, <2>2, Zenon DEF Counted
    <2>8. \A k \in Ids(r) : k < r.nIdCount
      BY <1>16, <1>17, <2>0, Zenon DEF Counted
    <2>9. U \subseteq Ids(r) \ TriedIds(r) /\ r.nTried = Cardinality(TriedIds(r))
      BY <1>16, <1>17, <2>0, <2>1, Zenon DEF Counted
    <2> QED  BY <2>2, <2>6, <2>7, <2>8, <2>9, Zenon DEF Counted
  <1>25. AddrInv(r, H \ {nId}, U)
    BY <1>15, <1>16, <1>18, <1>19, <1>21, <1>22, <1>23, <1>24, Zenon DEF AddrInv
  <1>26. Deleted(m, nId, r)
    BY <1>4, <1>16, <1>17, Zenon DEF Deleted
  <1> QED  BY <1>25, <1>26, Zenon DEF r

-----------------------------------------------------------------------------
(* The changes that the calls are made of: the places of an entry in the new table, whether  *)
(* nNew counts it, and its place in the tried table.                                         *)

\* The entry nId has c places, the ones that the new table T gives it.
Placed(m, nId, T, c) == [m EXCEPT !.mapInfo[nId].nRefCount = c, !.vvNew = T]

\* What Placed leaves alone.
PlacedOnly(m, nId, T, c, r) ==
    /\ r \in Managers /\ Ids(r) = Ids(m)
    /\ r.mapAddr = m.mapAddr /\ r.vvNew = T /\ r.vvTried = m.vvTried /\ r.vRandom = m.vRandom
    /\ r.nNew = m.nNew /\ r.nTried = m.nTried /\ r.nIdCount = m.nIdCount /\ r.asserted = m.asserted
    /\ \A k \in Ids(m) \ {nId} : r.mapInfo[k] = m.mapInfo[k]
    /\ r.mapInfo[nId].addr = m.mapInfo[nId].addr /\ r.mapInfo[nId].source = m.mapInfo[nId].source
    /\ r.mapInfo[nId].fInTried = m.mapInfo[nId].fInTried
    /\ r.mapInfo[nId].nRandomPos = m.mapInfo[nId].nRandomPos /\ r.mapInfo[nId].nRefCount = c

\* The fields of Placed.
LEMMA PlacedFields ==
  ASSUME NEW m \in Managers, NEW nId \in Ids(m), NEW T \in NewTable, NEW c \in Int
  PROVE  PlacedOnly(m, nId, T, c, Placed(m, nId, T, c))
  <1> DEFINE r == Placed(m, nId, T, c)
             y == [m.mapInfo[nId] EXCEPT !.nRefCount = c]
             infos == [m.mapInfo EXCEPT ![nId] = y]
  <1>1. r = [m EXCEPT !.mapInfo = infos, !.vvNew = T]
    BY Zenon DEF Placed, Managers
  <1>2. m.mapInfo \in [Ids(m) -> Info] /\ Ids(m) \in SUBSET Nat /\ m.mapInfo[nId] \in Info
    BY ManagerFields, InfoFields, Zenon
  <1>3. /\ y \in Info /\ y.addr = m.mapInfo[nId].addr /\ y.source = m.mapInfo[nId].source
        /\ y.fInTried = m.mapInfo[nId].fInTried
        /\ y.nRandomPos = m.mapInfo[nId].nRandomPos /\ y.nRefCount = c
    BY <1>2, Zenon DEF Info
  <1> HIDE DEF r, y
  <1>4. DOMAIN infos = Ids(m) /\ infos[nId] = y /\ \A k \in Ids(m) \ {nId} : infos[k] = m.mapInfo[k]
    BY <1>2, Zenon
  <1>5. infos \in Infos
    <2>1. infos \in [Ids(m) -> Info]
      BY <1>2, <1>3, Zenon
    <2> QED  BY <1>2, <2>1, Zenon DEF Infos
  <1> HIDE DEF infos
  <1>6. r \in Managers
    BY <1>1, <1>5, Zenon DEF Managers
  <1>7. /\ r.mapAddr = m.mapAddr /\ r.vvNew = T /\ r.vvTried = m.vvTried /\ r.vRandom = m.vRandom
        /\ r.nNew = m.nNew /\ r.nTried = m.nTried /\ r.nIdCount = m.nIdCount /\ r.asserted = m.asserted
        /\ r.mapInfo = infos
    BY <1>1, Zenon DEF Managers
  <1>8. Ids(r) = Ids(m)
    BY <1>4, <1>7, Zenon DEF Ids
  <1>9. /\ r.mapInfo[nId] = y /\ \A k \in Ids(m) \ {nId} : r.mapInfo[k] = m.mapInfo[k]
    BY <1>4, <1>7, Zenon
  <1>10. PlacedOnly(m, nId, T, c, r)
    BY <1>3, <1>6, <1>7, <1>8, <1>9, Zenon DEF PlacedOnly
  <1> QED  BY <1>10, Zenon DEF r

\* An entry that is not tried may get and lose places in the new table.
LEMMA PlacedInv ==
  ASSUME NEW m, NEW H, NEW U, AddrInv(m, H, U), NEW nId \in Ids(m), ~m.mapInfo[nId].fInTried,
         NEW T \in NewTable, NEW c \in Nat,
         \A s \in NewSlots : T[s] = m.vvNew[s] \/ (T[s] \in {nId, NoId} /\ m.vvNew[s] \in {nId, NoId}),
         \A s \in NewSlots : T[s] = nId => s = NewSlotOf(m.mapInfo[nId].addr, s[1]),
         IsFiniteSet({s \in NewSlots : T[s] = nId}), c = Cardinality({s \in NewSlots : T[s] = nId}),
         c <= ADDRMAN_NEW_BUCKETS_PER_ADDRESS
  PROVE  AddrInv(Placed(m, nId, T, c), IF c = 0 THEN H \cup {nId} ELSE H \ {nId}, U)
  <1> DEFINE r == Placed(m, nId, T, c)
             G == IF c = 0 THEN H \cup {nId} ELSE H \ {nId}
  <1>1. m \in Managers /\ m.asserted
    BY Zenon DEF AddrInv
  <1>2. PlacedOnly(m, nId, T, c, r)
    BY <1>1, PlacedFields
  <1> HIDE DEF r
  <1>3. \A k \in Ids(m) : /\ r.mapInfo[k].addr = m.mapInfo[k].addr /\ r.mapInfo[k].fInTried = m.mapInfo[k].fInTried
                          /\ r.mapInfo[k].nRandomPos = m.mapInfo[k].nRandomPos
    BY <1>2, Zenon DEF PlacedOnly
  <1>4. Ids(r) = Ids(m) /\ r.vvNew = T
    BY <1>2, Zenon DEF PlacedOnly
  <1>5. AddressesExact(r)
    <2>0. r.mapAddr = m.mapAddr /\ AddressesExact(m)
      BY <1>2, Zenon DEF PlacedOnly, AddrInv
    <2>1. \A k \in Ids(r) : r.mapAddr[r.mapInfo[k].addr] = k
      BY <1>3, <1>4, <2>0, Zenon DEF AddressesExact
    <2>2. ASSUME NEW a \in Addrs, r.mapAddr[a] # NoId
          PROVE  r.mapAddr[a] \in Ids(r) /\ r.mapInfo[r.mapAddr[a]].addr = a
      <3>1. m.mapAddr[a] \in Ids(m) /\ m.mapInfo[m.mapAddr[a]].addr = a
        BY <2>0, <2>2, Zenon DEF AddressesExact
      <3> QED  BY <1>3, <1>4, <2>0, <3>1, Zenon
    <2> QED  BY <2>1, <2>2, Zenon DEF AddressesExact
  <1>6. RandomExact(r)
    <2>0. r.vRandom = m.vRandom /\ RandomExact(m)
      BY <1>2, Zenon DEF PlacedOnly, AddrInv
    <2>1. ASSUME NEW k \in DOMAIN r.vRandom
          PROVE  r.vRandom[k] \in Ids(r) /\ r.mapInfo[r.vRandom[k]].nRandomPos = k
      <3>1. m.vRandom[k] \in Ids(m) /\ m.mapInfo[m.vRandom[k]].nRandomPos = k
        BY <2>0, <2>1, Zenon DEF RandomExact
      <3> QED  BY <1>3, <1>4, <2>0, <3>1, Zenon
    <2>2. ASSUME NEW k \in Ids(r)
          PROVE  r.mapInfo[k].nRandomPos \in DOMAIN r.vRandom /\ r.vRandom[r.mapInfo[k].nRandomPos] = k
      <3>1. m.mapInfo[k].nRandomPos \in DOMAIN m.vRandom /\ m.vRandom[m.mapInfo[k].nRandomPos] = k
        BY <1>4, <2>0, <2>2, Zenon DEF RandomExact
      <3> QED  BY <1>3, <1>4, <2>0, <2>2, <3>1, Zenon
    <2> QED  BY <2>1, <2>2, Zenon DEF RandomExact
  <1>7. NewExact(r)
    <2>0. NewExact(m) /\ nId # NoId
      BY <1>1, InfoFields, Zenon DEF AddrInv
    <2>1. \A k \in Ids(m) \ {nId} : Places(r, k) = Places(m, k)
      <3> TAKE k \in Ids(m) \ {nId}
      <3>1. k # NoId /\ k # nId
        BY <1>1, InfoFields, Zenon
      <3> QED  BY <1>4, <3>1, Zenon DEF Places
    <2>2. Places(r, nId) = {s \in NewSlots : T[s] = nId}
      BY <1>4, Zenon DEF Places
    <2>3. ASSUME NEW s \in NewSlots, r.vvNew[s] # NoId
          PROVE  r.vvNew[s] \in Ids(r) /\ s = NewSlotOf(r.mapInfo[r.vvNew[s]].addr, s[1])
      <3>1. CASE T[s] = nId
        BY <1>3, <1>4, <3>1, Zenon
      <3>2. CASE T[s] # nId
        <4>1. m.vvNew[s] = T[s] /\ m.vvNew[s] # NoId
          BY <1>4, <2>3, <3>2, Zenon
        <4>2. m.vvNew[s] \in Ids(m) /\ s = NewSlotOf(m.mapInfo[m.vvNew[s]].addr, s[1])
          BY <2>0, <4>1, Zenon DEF NewExact
        <4> QED  BY <1>3, <1>4, <4>1, <4>2, Zenon
      <3> QED  BY <3>1, <3>2, Zenon
    <2>4. ASSUME NEW k \in Ids(r)
          PROVE  /\ IsFiniteSet(Places(r, k)) /\ r.mapInfo[k].nRefCount = Cardinality(Places(r, k))
                 /\ r.mapInfo[k].nRefCount <= ADDRMAN_NEW_BUCKETS_PER_ADDRESS
      <3>1. CASE k = nId
        BY <1>2, <2>2, <3>1, Zenon DEF PlacedOnly
      <3>2. CASE k # nId
        <4>1. k \in Ids(m) /\ r.mapInfo[k] = m.mapInfo[k] /\ Places(r, k) = Places(m, k)
          BY <1>2, <1>4, <2>1, <2>4, <3>2, Zenon DEF PlacedOnly
        <4>2. /\ IsFiniteSet(Places(m, k)) /\ m.mapInfo[k].nRefCount = Cardinality(Places(m, k))
              /\ m.mapInfo[k].nRefCount <= ADDRMAN_NEW_BUCKETS_PER_ADDRESS
          BY <2>0, <4>1, Zenon DEF NewExact
        <4> QED  BY <4>1, <4>2, Zenon
      <3> QED  BY <3>1, <3>2, Zenon
    <2> QED  BY <2>3, <2>4, Zenon DEF NewExact
  <1>8. TriedExact(r)
    <2>0. TriedExact(m) /\ r.vvTried = m.vvTried
      BY <1>2, Zenon DEF AddrInv, PlacedOnly
    <2>1. ASSUME NEW t \in TriedSlots, r.vvTried[t] # NoId
          PROVE  /\ r.vvTried[t] \in Ids(r) /\ r.mapInfo[r.vvTried[t]].fInTried
                 /\ TriedSlot[r.mapInfo[r.vvTried[t]].addr] = t
      <3>1. /\ m.vvTried[t] \in Ids(m) /\ m.mapInfo[m.vvTried[t]].fInTried
            /\ TriedSlot[m.mapInfo[m.vvTried[t]].addr] = t
        BY <2>0, <2>1, Zenon DEF TriedExact
      <3> QED  BY <1>3, <1>4, <2>0, <3>1, Zenon
    <2>2. \A k \in Ids(r) : r.mapInfo[k].fInTried => r.vvTried[TriedSlot[r.mapInfo[k].addr]] = k
      BY <1>3, <1>4, <2>0, ZenonT(60) DEF TriedExact
    <2> QED  BY <2>1, <2>2, Zenon DEF TriedExact
  <1>9. InHand(r, G)
    <2>0. InHand(m, H)
      BY Zenon DEF AddrInv
    <2>1. G \subseteq Ids(r)
      BY <1>4, <2>0, Zenon DEF InHand
    <2>2. ASSUME NEW k \in Ids(r)
          PROVE  /\ r.mapInfo[k].fInTried => r.mapInfo[k].nRefCount = 0
                 /\ k \in G <=> ~r.mapInfo[k].fInTried /\ r.mapInfo[k].nRefCount = 0
      <3>1. CASE k = nId
        BY <1>2, <3>1, Zenon DEF PlacedOnly
      <3>2. CASE k # nId
        <4>1. k \in Ids(m) /\ r.mapInfo[k] = m.mapInfo[k] /\ (k \in G <=> k \in H)
          BY <1>2, <1>4, <2>2, <3>2, Zenon DEF PlacedOnly
        <4> QED  BY <2>0, <4>1, Zenon DEF InHand
      <3> QED  BY <3>1, <3>2, Zenon
    <2> QED  BY <2>1, <2>2, Zenon DEF InHand
  <1>10. Counted(r, U)
    <2>1. TriedIds(r) = TriedIds(m)
      BY <1>3, <1>4, Zenon DEF TriedIds
    <2> QED  BY <1>2, <1>4, <2>1, Zenon DEF AddrInv, Counted, PlacedOnly
  <1>11. AddrInv(r, G, U)
    BY <1>1, <1>2, <1>5, <1>6, <1>7, <1>8, <1>9, <1>10, Zenon DEF AddrInv, PlacedOnly
  <1> QED  BY <1>11, Zenon DEF r


\* An assertion that holds changes nothing.
LEMMA AssertedStays ==
  ASSUME NEW m \in Managers, m.asserted
  PROVE  [m EXCEPT !.asserted = TRUE] = m
  BY Zenon DEF Managers

\* ClearNew, before it deletes the entry.
LEMMA ClearedAs ==
  ASSUME NEW m \in Managers, m.asserted, NEW nId \in Ids(m), m.mapInfo[nId].nRefCount > 0, NEW s \in NewSlots
  PROVE  [m EXCEPT !.mapInfo[nId].nRefCount = @ - 1, !.vvNew[s] = NoId,
                   !.asserted = @ /\ m.mapInfo[nId].nRefCount > 0]
            = Placed(m, nId, [m.vvNew EXCEPT ![s] = NoId], m.mapInfo[nId].nRefCount - 1)
  <1> DEFINE c == m.mapInfo[nId].nRefCount - 1
             T == [m.vvNew EXCEPT ![s] = NoId]
             p == Placed(m, nId, T, c)
             infos == [m.mapInfo EXCEPT ![nId].nRefCount = c]
  <1>1. [m EXCEPT !.mapInfo[nId].nRefCount = @ - 1, !.vvNew[s] = NoId,
                  !.asserted = @ /\ m.mapInfo[nId].nRefCount > 0]
           = [m EXCEPT !.mapInfo = infos, !.vvNew = T, !.asserted = TRUE]
    BY Zenon DEF Managers
  <1>2. p = [m EXCEPT !.mapInfo = infos, !.vvNew = T]
    BY Zenon DEF Placed, Managers
  <1>3. [m EXCEPT !.mapInfo = infos, !.vvNew = T, !.asserted = TRUE] = [m EXCEPT !.mapInfo = infos, !.vvNew = T]
    <2> HIDE DEF infos, T
    <2> QED  BY Zenon DEF Managers
  <1> QED  BY <1>1, <1>2, <1>3, Zenon

\* What a caller of ClearNew relies on.
Cleared(m, s, r) ==
    /\ r.vvNew = [m.vvNew EXCEPT ![s] = NoId] /\ r.vvTried = m.vvTried /\ r.nIdCount = m.nIdCount
    /\ Ids(r) \subseteq Ids(m) /\ Ids(m) \ {m.vvNew[s]} \subseteq Ids(r)
    /\ \A k \in Ids(r) \ {m.vvNew[s]} : Alike(r.mapInfo[k], m.mapInfo[k])

\* ClearNew empties a place of the new table, and deletes the entry that had no other.
LEMMA ClearNewInv ==
  ASSUME NEW m, NEW H, NEW U, AddrInv(m, H, U), U \subseteq H, NEW s \in NewSlots
  PROVE  AddrInv(ClearNew(m, s), H, U) /\ Cleared(m, s, ClearNew(m, s))
  <1> DEFINE nId == m.vvNew[s]
             T == [m.vvNew EXCEPT ![s] = NoId]
             c == m.mapInfo[nId].nRefCount - 1
             p == Placed(m, nId, T, c)
             r == ClearNew(m, s)
  <1>1. m \in Managers /\ m.asserted /\ NewExact(m) /\ InHand(m, H)
    BY Zenon DEF AddrInv
  <1>2. m.vvNew \in [NewSlots -> Nat \cup {NoId}]
    BY <1>1, ManagerFields, Zenon
  <1>3. CASE nId = NoId
    <2>1. r = m
      BY <1>3, Zenon DEF ClearNew
    <2>2. T = m.vvNew
      BY <1>2, <1>3, Zenon
    <2> HIDE DEF r, T
    <2>3. \A k \in Ids(m) : Alike(m.mapInfo[k], m.mapInfo[k])
      BY Zenon DEF Alike
    <2>4. Cleared(m, s, m)
      BY <2>2, <2>3, Zenon DEF Cleared, T
    <2> QED  BY <2>1, <2>4, Zenon DEF r
  <1>4. CASE nId # NoId
    <2>1. nId \in Ids(m) /\ IsFiniteSet(Places(m, nId)) /\ m.mapInfo[nId].nRefCount = Cardinality(Places(m, nId))
          /\ m.mapInfo[nId].nRefCount <= ADDRMAN_NEW_BUCKETS_PER_ADDRESS
      BY <1>1, <1>4, Zenon DEF NewExact
    <2>2. s \in Places(m, nId)
      BY Zenon DEF Places
    <2>3. {x \in NewSlots : T[x] = nId} = Places(m, nId) \ {s}
      BY <1>2, <1>4, Zenon DEF Places
    <2>4. /\ IsFiniteSet(Places(m, nId) \ {s})
          /\ Cardinality(Places(m, nId) \ {s}) = Cardinality(Places(m, nId)) - 1
      BY <2>1, <2>2, FS_RemoveElement, Zenon
    <2>5. Cardinality(Places(m, nId) \ {s}) \in Nat
      BY <2>4, FS_CardinalityType, Zenon
    <2>6. c \in Nat /\ c = Cardinality({x \in NewSlots : T[x] = nId}) /\ IsFiniteSet({x \in NewSlots : T[x] = nId})
      BY <2>1, <2>3, <2>4, <2>5, Zenon
    <2>7. m.mapInfo[nId].nRefCount \in Int
      BY <1>1, <2>1, InfoFields, Zenon
    <2>8. m.mapInfo[nId].nRefCount > 0 /\ m.mapInfo[nId].nRefCount # 0 /\ c <= m.mapInfo[nId].nRefCount
      BY <2>6, <2>7
    <2>9. c <= ADDRMAN_NEW_BUCKETS_PER_ADDRESS
      BY <2>1, <2>6, <2>7, <2>8, AddrManAssumption
    <2>10. ~m.mapInfo[nId].fInTried /\ nId \notin H
      BY <1>1, <2>1, <2>8, Zenon DEF InHand
    <2>11. T \in NewTable
      BY <1>2, Zenon DEF NewTable
    <2>12. \A x \in NewSlots : T[x] = m.vvNew[x] \/ (T[x] \in {nId, NoId} /\ m.vvNew[x] \in {nId, NoId})
      BY <1>2, Zenon
    <2>13. \A x \in NewSlots : T[x] = nId => x = NewSlotOf(m.mapInfo[nId].addr, x[1])
      BY <1>1, <1>2, <1>4, Zenon DEF NewExact
    <2>14. r = IF p.mapInfo[nId].nRefCount = 0 THEN Delete(p, nId) ELSE p
      <3> DEFINE cleared == [m EXCEPT !.mapInfo[nId].nRefCount = @ - 1, !.vvNew[s] = NoId,
                                      !.asserted = @ /\ m.mapInfo[nId].nRefCount > 0]
      <3>1. cleared = p
        BY <1>1, <2>1, <2>8, ClearedAs, Zenon
      <3>2. r = IF nId = NoId THEN m
                ELSE IF cleared.mapInfo[nId].nRefCount = 0 THEN Delete(cleared, nId) ELSE cleared
        BY Zenon DEF ClearNew
      <3> HIDE DEF cleared, r, p, nId
      <3> QED  BY <1>4, <3>1, <3>2, Zenon
    <2>15. PlacedOnly(m, nId, T, c, p)
      <3>1. c \in Int
        BY <2>6
      <3> HIDE DEF T, c
      <3> QED  BY <1>1, <2>1, <2>11, <3>1, PlacedFields, Zenon
    <2>16. AddrInv(p, IF c = 0 THEN H \cup {nId} ELSE H \ {nId}, U)
      <3> HIDE DEF T, c, nId
      <3> QED  BY <2>1, <2>6, <2>9, <2>10, <2>11, <2>12, <2>13, PlacedInv, Zenon
    <2> HIDE DEF p, r, c
    <2>17. p.mapInfo[nId].nRefCount = c
      BY <2>15, Zenon DEF PlacedOnly
    <2>18. /\ p.vvNew = T /\ p.vvTried = m.vvTried /\ p.nIdCount = m.nIdCount /\ Ids(p) = Ids(m)
           /\ \A k \in Ids(m) \ {nId} : p.mapInfo[k] = m.mapInfo[k]
      BY <2>15, Zenon DEF PlacedOnly
    <2>19. CASE c = 0
      <3>1. r = Delete(p, nId)
        BY <2>14, <2>17, <2>19, Zenon
      <3>2. AddrInv(p, H \cup {nId}, U) /\ nId \notin U /\ nId \in H \cup {nId} /\ (H \cup {nId}) \ {nId} = H
        BY <2>10, <2>16, <2>19, Zenon
      <3>3. AddrInv(Delete(p, nId), (H \cup {nId}) \ {nId}, U) /\ Deleted(p, nId, Delete(p, nId))
        <4> HIDE DEF nId
        <4> QED  BY <3>2, DeleteInv, Zenon
      <3>4. AddrInv(r, H, U) /\ Deleted(p, nId, r)
        BY <3>1, <3>2, <3>3, Zenon
      <3>5. Cleared(m, s, r)
        <4>1. Ids(r) = Ids(m) \ {nId} /\ \A k \in Ids(r) : Alike(r.mapInfo[k], p.mapInfo[k])
          BY <2>18, <3>4, Zenon DEF Deleted
        <4>2. r.vvNew = T /\ r.vvTried = m.vvTried /\ r.nIdCount = m.nIdCount
          BY <2>18, <3>4, Zenon DEF Deleted
        <4>3. \A k \in Ids(r) \ {nId} : Alike(r.mapInfo[k], m.mapInfo[k])
          BY <2>18, <4>1, Zenon
        <4> QED  BY <4>1, <4>2, <4>3, Zenon DEF Cleared
      <3> QED  BY <3>4, <3>5, Zenon DEF r
    <2>20. CASE c # 0
      <3>1. r = p /\ H \ {nId} = H
        BY <2>10, <2>14, <2>17, <2>20, Zenon
      <3>2. AddrInv(r, H, U)
        BY <2>16, <2>20, <3>1, Zenon
      <3>3. Cleared(m, s, r)
        <4>1. \A k \in Ids(r) \ {nId} : Alike(r.mapInfo[k], m.mapInfo[k])
          BY <2>18, <3>1, Zenon DEF Alike
        <4> QED  BY <2>18, <3>1, <4>1, Zenon DEF Cleared
      <3> QED  BY <3>2, <3>3, Zenon DEF r
    <2> QED  BY <2>19, <2>20, Zenon
  <1> QED  BY <1>3, <1>4, Zenon


\* An entry that is not tried gets one more place in the new table.
LEMMA GivePlaceInv ==
  ASSUME NEW m, NEW H, NEW U, AddrInv(m, H, U), NEW nId \in Ids(m), ~m.mapInfo[nId].fInTried,
         m.mapInfo[nId].nRefCount < ADDRMAN_NEW_BUCKETS_PER_ADDRESS, NEW s \in NewSlots, m.vvNew[s] = NoId,
         s = NewSlotOf(m.mapInfo[nId].addr, s[1])
  PROVE  AddrInv(Placed(m, nId, [m.vvNew EXCEPT ![s] = nId], m.mapInfo[nId].nRefCount + 1), H \ {nId}, U)
  <1> DEFINE T == [m.vvNew EXCEPT ![s] = nId]
             c == m.mapInfo[nId].nRefCount + 1
  <1>1. m \in Managers /\ NewExact(m)
    BY Zenon DEF AddrInv
  <1>2. /\ m.vvNew \in [NewSlots -> Nat \cup {NoId}] /\ nId \in Nat /\ nId # NoId
        /\ m.mapInfo[nId].nRefCount \in Int
    BY <1>1, ManagerFields, InfoFields, Zenon
  <1>3. IsFiniteSet(Places(m, nId)) /\ m.mapInfo[nId].nRefCount = Cardinality(Places(m, nId))
    BY <1>1, Zenon DEF NewExact
  <1>4. {x \in NewSlots : T[x] = nId} = Places(m, nId) \cup {s}
    BY <1>2, Zenon DEF Places
  <1>5. s \notin Places(m, nId)
    BY <1>2, Zenon DEF Places
  <1>6. IsFiniteSet(Places(m, nId) \cup {s}) /\ Cardinality(Places(m, nId) \cup {s}) = Cardinality(Places(m, nId)) + 1
    BY <1>3, <1>5, FS_AddElement, Zenon
  <1>7. Cardinality(Places(m, nId)) \in Nat
    BY <1>3, FS_CardinalityType, Zenon
  <1>8. c \in Nat /\ c # 0 /\ c <= ADDRMAN_NEW_BUCKETS_PER_ADDRESS
    BY <1>3, <1>7, AddrManAssumption
  <1>9. c = Cardinality({x \in NewSlots : T[x] = nId}) /\ IsFiniteSet({x \in NewSlots : T[x] = nId})
    BY <1>3, <1>4, <1>6, Zenon
  <1>10. T \in NewTable
    BY <1>2, Zenon DEF NewTable
  <1>11. \A x \in NewSlots : T[x] = m.vvNew[x] \/ (T[x] \in {nId, NoId} /\ m.vvNew[x] \in {nId, NoId})
    BY <1>2, Zenon
  <1>12. \A x \in NewSlots : T[x] = nId => x = NewSlotOf(m.mapInfo[nId].addr, x[1])
    BY <1>1, <1>2, Zenon DEF NewExact
  <1> HIDE DEF T, c
  <1>13. AddrInv(Placed(m, nId, T, c), IF c = 0 THEN H \cup {nId} ELSE H \ {nId}, U)
    BY <1>8, <1>9, <1>10, <1>11, <1>12, PlacedInv, Zenon
  <1>14. AddrInv(Placed(m, nId, T, c), H \ {nId}, U)
    BY <1>8, <1>13, Zenon
  <1> QED  BY <1>14, Zenon DEF T, c

\* nNew counts the entries outside V.
LEMMA CountedAs ==
  ASSUME NEW m, NEW H, NEW U, AddrInv(m, H, U), NEW V, V \subseteq Ids(m) \ TriedIds(m), NEW n \in Int,
         n = Cardinality((Ids(m) \ TriedIds(m)) \ V)
  PROVE  AddrInv([m EXCEPT !.nNew = n], H, V)
  <1> DEFINE r == [m EXCEPT !.nNew = n]
  <1>1. m \in Managers
    BY Zenon DEF AddrInv
  <1>2. /\ r \in Managers /\ r.mapInfo = m.mapInfo /\ r.mapAddr = m.mapAddr /\ r.vRandom = m.vRandom
        /\ r.vvNew = m.vvNew /\ r.vvTried = m.vvTried /\ r.nNew = n /\ r.nTried = m.nTried
        /\ r.nIdCount = m.nIdCount /\ r.asserted = m.asserted
    BY <1>1, Zenon DEF Managers
  <1> HIDE DEF r
  <1>3. Ids(r) = Ids(m)
    BY <1>2, Zenon DEF Ids
  <1>4. TriedIds(r) = TriedIds(m)
    BY <1>2, <1>3, Zenon DEF TriedIds
  <1>5. Counted(r, V)
    BY <1>2, <1>3, <1>4, Zenon DEF AddrInv, Counted
  <1>6. /\ AddressesExact(m) => AddressesExact(r)
        /\ RandomExact(m) => RandomExact(r)
        /\ InHand(m, H) => InHand(r, H)
    <2>1. r.mapInfo = m.mapInfo /\ r.mapAddr = m.mapAddr /\ r.vRandom = m.vRandom
      BY <1>2, Zenon
    <2>2. AddressesExact(m) => AddressesExact(r)
      BY <1>3, <2>1, Zenon DEF AddressesExact
    <2>3. RandomExact(m) => RandomExact(r)
      BY <1>3, <2>1, Zenon DEF RandomExact
    <2>4. InHand(m, H) => InHand(r, H)
      BY <1>3, <2>1, Zenon DEF InHand
    <2> QED  BY <2>2, <2>3, <2>4, Zenon
  <1>7. NewExact(m) => NewExact(r)
    <2>1. r.mapInfo = m.mapInfo /\ r.vvNew = m.vvNew
      BY <1>2, Zenon
    <2>2. \A i : Places(r, i) = Places(m, i)
      BY <2>1, Zenon DEF Places
    <2> QED  BY <1>3, <2>1, <2>2, Zenon DEF NewExact
  <1>8. ASSUME TriedExact(m)  PROVE TriedExact(r)
    <2>1. ASSUME NEW t \in TriedSlots, r.vvTried[t] # NoId
          PROVE  /\ r.vvTried[t] \in Ids(r) /\ r.mapInfo[r.vvTried[t]].fInTried
                 /\ TriedSlot[r.mapInfo[r.vvTried[t]].addr] = t
      <3>1. /\ m.vvTried[t] \in Ids(m) /\ m.mapInfo[m.vvTried[t]].fInTried
            /\ TriedSlot[m.mapInfo[m.vvTried[t]].addr] = t
        <4>1. r.vvTried = m.vvTried
          BY <1>2, Zenon
        <4>2. m.vvTried[t] # NoId
          BY <2>1, <4>1, Zenon
        <4> QED  BY <1>8, <4>2, TriedThere, Zenon
      <3> QED  BY <1>2, <1>3, <3>1, Zenon
    <2>2. ASSUME NEW i \in Ids(r), r.mapInfo[i].fInTried
          PROVE  r.vvTried[TriedSlot[r.mapInfo[i].addr]] = i
      <3>1. r.mapInfo = m.mapInfo /\ r.vvTried = m.vvTried /\ i \in Ids(m)
        BY <1>2, <1>3, Zenon
      <3>2. m.vvTried[TriedSlot[m.mapInfo[i].addr]] = i
        BY <1>8, <2>2, <3>1, TriedFound, ZenonT(60)
      <3> QED  BY <3>1, <3>2, Zenon
    <2> QED  BY <2>1, <2>2, Zenon DEF TriedExact
  <1>9. AddrInv(r, H, V)
    BY <1>2, <1>5, <1>6, <1>7, <1>8, Zenon DEF AddrInv
  <1> QED  BY <1>9, Zenon DEF r

\* nNew counts one entry more.
LEMMA CountInv ==
  ASSUME NEW m, NEW H, NEW U, AddrInv(m, H, U), NEW nId \in U
  PROVE  AddrInv([m EXCEPT !.nNew = @ + 1], H, U \ {nId})
  <1> DEFINE A == (Ids(m) \ TriedIds(m)) \ U
             B == (Ids(m) \ TriedIds(m)) \ (U \ {nId})
  <1>1. m \in Managers /\ IsFiniteSet(Ids(m)) /\ U \subseteq Ids(m) \ TriedIds(m) /\ m.nNew = Cardinality(A)
    BY Zenon DEF AddrInv, Counted
  <1>2. B = A \cup {nId} /\ nId \notin A /\ A \subseteq Ids(m) /\ U \ {nId} \subseteq Ids(m) \ TriedIds(m)
    BY <1>1, Zenon
  <1> HIDE DEF A
  <1>3. IsFiniteSet(A)
    BY <1>1, <1>2, FS_Subset, Zenon
  <1>4. Cardinality(A \cup {nId}) = Cardinality(A) + 1
    BY <1>2, <1>3, FS_AddElement, Zenon
  <1>5. m.nNew + 1 = Cardinality(B)
    BY <1>1, <1>2, <1>4, Zenon
  <1>6. m.nNew + 1 \in Int
    BY <1>1, ManagerFields
  <1>7. AddrInv([m EXCEPT !.nNew = m.nNew + 1], H, U \ {nId})
    BY <1>2, <1>5, <1>6, CountedAs, Zenon
  <1> QED  BY <1>7, Zenon

\* nNew counts one entry less.
LEMMA UncountInv ==
  ASSUME NEW m, NEW H, NEW U, AddrInv(m, H, U), NEW nId \in (Ids(m) \ TriedIds(m)) \ U
  PROVE  AddrInv([m EXCEPT !.nNew = @ - 1], H, U \cup {nId})
  <1> DEFINE A == (Ids(m) \ TriedIds(m)) \ U
             B == (Ids(m) \ TriedIds(m)) \ (U \cup {nId})
  <1>1. m \in Managers /\ IsFiniteSet(Ids(m)) /\ U \subseteq Ids(m) \ TriedIds(m) /\ m.nNew = Cardinality(A)
    BY Zenon DEF AddrInv, Counted
  <1>2. B = A \ {nId} /\ nId \in A /\ A \subseteq Ids(m) /\ U \cup {nId} \subseteq Ids(m) \ TriedIds(m)
    BY <1>1, Zenon
  <1> HIDE DEF A
  <1>3. IsFiniteSet(A)
    BY <1>1, <1>2, FS_Subset, Zenon
  <1>4. Cardinality(A \ {nId}) = Cardinality(A) - 1
    BY <1>2, <1>3, FS_RemoveElement, Zenon
  <1>5. m.nNew - 1 = Cardinality(B)
    BY <1>1, <1>2, <1>4, Zenon
  <1>6. m.nNew - 1 \in Int
    BY <1>1, ManagerFields
  <1>7. AddrInv([m EXCEPT !.nNew = m.nNew - 1], H, U \cup {nId})
    BY <1>2, <1>5, <1>6, CountedAs, Zenon
  <1> QED  BY <1>7, Zenon


-----------------------------------------------------------------------------
(* Add_. *)

\* PlaceNew finds a place for an entry that is not tried, or deletes it if it has none.
LEMMA PlaceNewInv ==
  ASSUME NEW m, NEW H, AddrInv(m, H, {}), NEW nId \in Ids(m), H \subseteq {nId}, ~m.mapInfo[nId].fInTried,
         m.mapInfo[nId].nRefCount < ADDRMAN_NEW_BUCKETS_PER_ADDRESS, NEW source \in Sources,
         NEW terrible \in BOOLEAN
  PROVE  AddrInv(PlaceNew(m, nId, source, terrible), {}, {})
  <1> DEFINE info == m.mapInfo[nId]
             slot == NewSlotOf(info.addr, NewBucket[info.addr, source])
             there == m.vvNew[slot]
             fInsert == there = NoId \/ (there # NoId /\ (terrible \/ (m.mapInfo[there].nRefCount > 1 /\ info.nRefCount = 0)))
             q == ClearNew(m, slot)
             r == PlaceNew(m, nId, source, terrible)
  <1>1. r = IF there = nId THEN m
            ELSE IF fInsert THEN [q EXCEPT !.mapInfo[nId].nRefCount = @ + 1, !.vvNew[slot] = nId]
            ELSE IF info.nRefCount = 0 THEN Delete(m, nId) ELSE m
    BY Zenon DEF PlaceNew
  <1>2. m \in Managers /\ NewExact(m) /\ InHand(m, H)
    BY Zenon DEF AddrInv
  <1>3. /\ info.addr \in Addrs /\ nId # NoId /\ NewBucket[info.addr, source] \in NewBuckets
    BY <1>2, InfoFields, AddrManAssumption, Zenon
  <1>4. slot \in NewSlots /\ slot = NewSlotOf(info.addr, slot[1])
    BY <1>3, SlotOf, Zenon
  <1>5. nId \in H <=> info.nRefCount = 0
    BY <1>2, Zenon DEF InHand
  <1> HIDE DEF r, q, slot
  <1>6. CASE there = nId
    <2>1. info.nRefCount # 0
      BY <1>2, <1>4, <1>6, NotPlaced, Zenon
    <2>2. H = {}
      BY <1>5, <2>1, Zenon
    <2> QED  BY <1>1, <1>6, <2>2, Zenon DEF r
  <1>7. CASE there # nId /\ fInsert
    <2>1. AddrInv(q, H, {}) /\ Cleared(m, slot, q)
      <3> DEFINE E == {}
      <3>1. E \subseteq H /\ AddrInv(m, H, E)
        BY <1>1, Zenon
      <3> HIDE DEF there, E
      <3>2. AddrInv(ClearNew(m, slot), H, E) /\ Cleared(m, slot, ClearNew(m, slot))
        BY <1>4, <3>1, ClearNewInv, ZenonT(60)
      <3> QED  BY <3>2, Zenon DEF q, E
    <2>2. nId \in Ids(q) /\ Alike(q.mapInfo[nId], info)
      BY <1>7, <2>1, Zenon DEF Cleared
    <2>3. q.vvNew[slot] = NoId
      <3>1. m.vvNew \in [NewSlots -> Nat \cup {NoId}] /\ q.vvNew = [m.vvNew EXCEPT ![slot] = NoId]
        BY <1>2, <2>1, ManagerFields, Zenon DEF Cleared
      <3> QED  BY <1>4, <3>1, Zenon
    <2>4. AddrInv(Placed(q, nId, [q.vvNew EXCEPT ![slot] = nId], q.mapInfo[nId].nRefCount + 1), H \ {nId}, {})
      <3>1. /\ q.mapInfo[nId].nRefCount = info.nRefCount /\ q.mapInfo[nId].addr = info.addr
            /\ q.mapInfo[nId].fInTried = info.fInTried
        BY <2>2, Zenon DEF Alike
      <3>2. /\ q.mapInfo[nId].nRefCount < ADDRMAN_NEW_BUCKETS_PER_ADDRESS
            /\ slot = NewSlotOf(q.mapInfo[nId].addr, slot[1]) /\ ~q.mapInfo[nId].fInTried
        BY <1>4, <3>1, Zenon
      <3> QED  BY <1>4, <2>1, <2>2, <2>3, <3>2, GivePlaceInv, Zenon
    <2>5. [q EXCEPT !.mapInfo[nId].nRefCount = @ + 1, !.vvNew[slot] = nId]
             = Placed(q, nId, [q.vvNew EXCEPT ![slot] = nId], q.mapInfo[nId].nRefCount + 1)
      <3>1. q \in Managers
        BY <2>1, Zenon DEF AddrInv
      <3> QED  BY <3>1, Zenon DEF Placed, Managers
    <2>6. H \ {nId} = {}
      BY Zenon
    <2>7. r = Placed(q, nId, [q.vvNew EXCEPT ![slot] = nId], q.mapInfo[nId].nRefCount + 1)
      <3> HIDE DEF fInsert, there
      <3> QED  BY <1>1, <1>7, <2>5, Zenon
    <2>8. AddrInv(r, {}, {})
      BY <2>4, <2>6, <2>7, Zenon
    <2> QED  BY <2>8, Zenon DEF r
  <1>8. CASE there # nId /\ ~fInsert /\ info.nRefCount = 0
    <2>1. AddrInv(Delete(m, nId), H \ {nId}, {}) /\ H \ {nId} = {}
      BY <1>5, <1>8, DeleteInv, Zenon
    <2>2. r = Delete(m, nId)
      <3> HIDE DEF fInsert, there
      <3> QED  BY <1>1, <1>8, Zenon
    <2>3. AddrInv(r, {}, {})
      BY <2>1, <2>2, Zenon
    <2> QED  BY <2>3, Zenon DEF r
  <1>9. CASE there # nId /\ ~fInsert /\ info.nRefCount # 0
    <2>1. H = {}
      BY <1>5, <1>9, Zenon
    <2>2. r = m
      <3> HIDE DEF fInsert, there
      <3> QED  BY <1>1, <1>9, Zenon
    <2> QED  BY <2>1, <2>2, Zenon DEF r
  <1> HIDE DEF fInsert, there
  <1> QED  BY <1>6, <1>7, <1>8, <1>9, Zenon

\* What Create makes of m.
Created(m, a, source, r) ==
    /\ r \in Managers /\ Ids(r) = Ids(m) \cup {m.nIdCount}
    /\ r.mapAddr = [m.mapAddr EXCEPT ![a] = m.nIdCount] /\ r.vRandom = Append(m.vRandom, m.nIdCount)
    /\ r.vvNew = m.vvNew /\ r.vvTried = m.vvTried /\ r.nNew = m.nNew /\ r.nTried = m.nTried
    /\ r.nIdCount = m.nIdCount + 1 /\ r.asserted = m.asserted
    /\ \A k \in Ids(m) : r.mapInfo[k] = m.mapInfo[k]
    /\ r.mapInfo[m.nIdCount].addr = a /\ r.mapInfo[m.nIdCount].nRefCount = 0
    /\ ~r.mapInfo[m.nIdCount].fInTried /\ r.mapInfo[m.nIdCount].nRandomPos = Len(m.vRandom) + 1

\* The fields of Create.
LEMMA CreateFields ==
  ASSUME NEW m \in Managers, m.nIdCount \notin Ids(m), NEW a \in Addrs, NEW source \in Sources
  PROVE  Created(m, a, source, Create(m, a, source))
  <1> DEFINE nId == m.nIdCount
             info == [addr |-> a, source |-> source, nRefCount |-> 0, fInTried |-> FALSE,
                      nRandomPos |-> Len(m.vRandom) + 1]
             infos == With(m.mapInfo, nId, info)
             addresses == [m.mapAddr EXCEPT ![a] = nId]
             random == Append(m.vRandom, nId)
             r == Create(m, a, source)
  <1>1. r = [m EXCEPT !.nIdCount = nId + 1, !.mapInfo = infos, !.mapAddr = addresses, !.vRandom = random]
    BY Zenon DEF Create, Managers
  <1>2. /\ m.mapInfo \in [Ids(m) -> Info] /\ Ids(m) \in SUBSET Nat /\ m.vRandom \in Seq(Nat) /\ nId \in Nat
        /\ m.mapAddr \in [Addrs -> Nat \cup {NoId}]
    BY ManagerFields, Zenon
  <1>3. info \in Info /\ info.addr = a /\ info.nRefCount = 0 /\ ~info.fInTried /\ info.nRandomPos = Len(m.vRandom) + 1
    <2>1. Len(m.vRandom) + 1 \in Int /\ 0 \in Int
      BY <1>2
    <2> QED  BY <2>1, Zenon DEF Info
  <1>4. random \in Seq(Nat) /\ nId + 1 \in Nat
    BY <1>2
  <1>5. addresses \in AddrMap
    BY <1>2, Zenon DEF AddrMap
  <1> HIDE DEF info
  <1>6. /\ DOMAIN infos = Ids(m) \cup {nId} /\ infos[nId] = info
        /\ \A k \in Ids(m) : infos[k] = m.mapInfo[k]
    BY Zenon DEF With, Ids
  <1>7. infos \in Infos
    <2>1. infos \in [Ids(m) \cup {nId} -> Info]
      <3>1. \A k \in Ids(m) \cup {nId} : infos[k] \in Info
        BY <1>2, <1>3, <1>6, Zenon
      <3>2. infos = [k \in DOMAIN infos |-> infos[k]]
        BY Zenon DEF With
      <3> HIDE DEF infos
      <3> QED  BY <1>6, <3>1, <3>2, Zenon
    <2>2. Ids(m) \cup {nId} \in SUBSET Nat
      BY <1>2, Zenon
    <2> QED  BY <2>1, <2>2, Zenon DEF Infos
  <1> HIDE DEF infos, addresses, random, r
  <1>8. r \in Managers
    BY <1>1, <1>4, <1>5, <1>7, Zenon DEF Managers
  <1>9. /\ r.mapInfo = infos /\ r.mapAddr = addresses /\ r.vRandom = random /\ r.vvNew = m.vvNew
        /\ r.vvTried = m.vvTried /\ r.nNew = m.nNew /\ r.nTried = m.nTried /\ r.nIdCount = nId + 1
        /\ r.asserted = m.asserted
    BY <1>1, Zenon DEF Managers
  <1>10. Ids(r) = Ids(m) \cup {nId}
    BY <1>6, <1>9, Zenon DEF Ids
  <1>11. Created(m, a, source, r)
    BY <1>3, <1>6, <1>8, <1>9, <1>10, Zenon DEF Created, addresses, random
  <1> QED  BY <1>11, Zenon DEF r


\* Create adds an entry, in hand and not counted.
LEMMA CreateInv ==
  ASSUME NEW m, AddrInv(m, {}, {}), NEW a \in Addrs, m.mapAddr[a] = NoId, NEW source \in Sources
  PROVE  AddrInv(Create(m, a, source), {m.nIdCount}, {m.nIdCount}) /\ Created(m, a, source, Create(m, a, source))
  <1> DEFINE n == m.nIdCount
             r == Create(m, a, source)
  <1>1. m \in Managers /\ m.asserted /\ Counted(m, {})
    BY Zenon DEF AddrInv
  <1>2. /\ m.mapInfo \in [Ids(m) -> Info] /\ Ids(m) \in SUBSET Nat /\ m.vRandom \in Seq(Nat) /\ n \in Nat
        /\ m.mapAddr \in [Addrs -> Nat \cup {NoId}]
        /\ m.vvNew \in [NewSlots -> Nat \cup {NoId}] /\ m.vvTried \in [TriedSlots -> Nat \cup {NoId}]
    BY <1>1, ManagerFields, Zenon
  <1>3. n \notin Ids(m)
    <2>1. \A i \in Ids(m) : i < n
      BY <1>1, Zenon DEF Counted
    <2> QED  BY <1>2, <2>1
  <1>4. n # NoId
    BY <1>2 DEF NoId
  <1>5. Created(m, a, source, r)
    BY <1>1, <1>3, CreateFields, Zenon
  <1> HIDE DEF r
  <1>6. Ids(r) = Ids(m) \cup {n} /\ \A k \in Ids(m) : r.mapInfo[k] = m.mapInfo[k] /\ k # n
    BY <1>3, <1>5, Zenon DEF Created
  <1>7. r.mapInfo[n].addr = a /\ r.mapInfo[n].nRefCount = 0 /\ ~r.mapInfo[n].fInTried
        /\ r.mapInfo[n].nRandomPos = Len(m.vRandom) + 1
    BY <1>5, Zenon DEF Created
  <1>8. AddressesExact(r)
    <2>0. AddressesExact(m) /\ r.mapAddr = [m.mapAddr EXCEPT ![a] = n]
      BY <1>5, Zenon DEF AddrInv, Created
    <2>1. r.mapAddr[a] = n /\ \A b \in Addrs \ {a} : r.mapAddr[b] = m.mapAddr[b]
      BY <1>2, <2>0, Zenon
    <2>2. ASSUME NEW k \in Ids(r)  PROVE r.mapAddr[r.mapInfo[k].addr] = k
      <3>1. CASE k = n
        BY <1>7, <2>1, <3>1, Zenon
      <3>2. CASE k # n
        <4>1. k \in Ids(m) /\ r.mapInfo[k] = m.mapInfo[k]
          BY <1>6, <3>2, Zenon
        <4>2. m.mapInfo[k].addr \in Addrs /\ m.mapAddr[m.mapInfo[k].addr] = k /\ k # NoId
          BY <1>1, <2>0, <4>1, InfoFields, Zenon DEF AddressesExact
        <4> QED  BY <2>1, <4>1, <4>2, Zenon
      <3> QED  BY <3>1, <3>2, Zenon
    <2>3. ASSUME NEW b \in Addrs, r.mapAddr[b] # NoId
          PROVE  r.mapAddr[b] \in Ids(r) /\ r.mapInfo[r.mapAddr[b]].addr = b
      <3>1. CASE b = a
        BY <1>6, <1>7, <2>1, <3>1, Zenon
      <3>2. CASE b # a
        <4>1. r.mapAddr[b] = m.mapAddr[b]
          BY <2>1, <3>2, Zenon
        <4>2. m.mapAddr[b] \in Ids(m) /\ m.mapInfo[m.mapAddr[b]].addr = b
          BY <2>0, <2>3, <4>1, Zenon DEF AddressesExact
        <4> QED  BY <1>6, <4>1, <4>2, Zenon
      <3> QED  BY <3>1, <3>2, Zenon
    <2> QED  BY <2>2, <2>3, Zenon DEF AddressesExact
  <1>9. RandomExact(r)
    <2> DEFINE L == Len(m.vRandom)
    <2>0. RandomExact(m) /\ r.vRandom = Append(m.vRandom, n)
      BY <1>5, Zenon DEF AddrInv, Created
    <2>1. /\ DOMAIN r.vRandom = DOMAIN m.vRandom \cup {L + 1} /\ r.vRandom[L + 1] = n /\ L + 1 \notin DOMAIN m.vRandom
          /\ \A k \in DOMAIN m.vRandom : r.vRandom[k] = m.vRandom[k]
      BY <1>2, <2>0
    <2> HIDE DEF L
    <2>2. ASSUME NEW k \in DOMAIN r.vRandom
          PROVE  r.vRandom[k] \in Ids(r) /\ r.mapInfo[r.vRandom[k]].nRandomPos = k
      <3>1. CASE k = L + 1
        BY <1>6, <1>7, <2>1, <3>1, Zenon DEF L
      <3>2. CASE k # L + 1
        <4>1. k \in DOMAIN m.vRandom /\ r.vRandom[k] = m.vRandom[k]
          BY <2>1, <3>2, Zenon
        <4>2. m.vRandom[k] \in Ids(m) /\ m.mapInfo[m.vRandom[k]].nRandomPos = k
          BY <2>0, <4>1, Zenon DEF RandomExact
        <4> QED  BY <1>6, <4>1, <4>2, Zenon
      <3> QED  BY <3>1, <3>2, Zenon
    <2>3. ASSUME NEW k \in Ids(r)
          PROVE  r.mapInfo[k].nRandomPos \in DOMAIN r.vRandom /\ r.vRandom[r.mapInfo[k].nRandomPos] = k
      <3>1. CASE k = n
        BY <1>7, <2>1, <3>1, Zenon DEF L
      <3>2. CASE k # n
        <4>1. k \in Ids(m) /\ r.mapInfo[k] = m.mapInfo[k]
          BY <1>6, <3>2, Zenon
        <4>2. m.mapInfo[k].nRandomPos \in DOMAIN m.vRandom /\ m.vRandom[m.mapInfo[k].nRandomPos] = k
          BY <2>0, <4>1, Zenon DEF RandomExact
        <4> QED  BY <2>1, <4>1, <4>2, Zenon
      <3> QED  BY <3>1, <3>2, Zenon
    <2> QED  BY <2>2, <2>3, Zenon DEF RandomExact
  <1>10. NewExact(r)
    <2>0. NewExact(m) /\ r.vvNew = m.vvNew
      BY <1>5, Zenon DEF AddrInv, Created
    <2>1. ASSUME NEW s \in NewSlots, r.vvNew[s] # NoId
          PROVE  r.vvNew[s] \in Ids(r) /\ s = NewSlotOf(r.mapInfo[r.vvNew[s]].addr, s[1])
      <3>1. m.vvNew[s] \in Ids(m) /\ s = NewSlotOf(m.mapInfo[m.vvNew[s]].addr, s[1])
        BY <2>0, <2>1, Zenon DEF NewExact
      <3> QED  BY <1>6, <2>0, <3>1, Zenon
    <2>2. \A k : Places(r, k) = Places(m, k)
      BY <2>0, Zenon DEF Places
    <2>3. Places(m, n) = {}
      BY <1>3, <1>4, <2>0, Zenon DEF Places, NewExact
    <2>4. ASSUME NEW k \in Ids(r)
          PROVE  /\ IsFiniteSet(Places(r, k)) /\ r.mapInfo[k].nRefCount = Cardinality(Places(r, k))
                 /\ r.mapInfo[k].nRefCount <= ADDRMAN_NEW_BUCKETS_PER_ADDRESS
      <3>1. CASE k = n
        <4>1. IsFiniteSet({}) /\ Cardinality({}) = 0
          BY FS_EmptySet, Zenon
        <4>2. 0 <= ADDRMAN_NEW_BUCKETS_PER_ADDRESS
          BY AddrManAssumption
        <4> QED  BY <1>7, <2>2, <2>3, <3>1, <4>1, <4>2, Zenon
      <3>2. CASE k # n
        <4>1. k \in Ids(m) /\ r.mapInfo[k] = m.mapInfo[k]
          BY <1>6, <3>2, Zenon
        <4>2. /\ IsFiniteSet(Places(m, k)) /\ m.mapInfo[k].nRefCount = Cardinality(Places(m, k))
              /\ m.mapInfo[k].nRefCount <= ADDRMAN_NEW_BUCKETS_PER_ADDRESS
          BY <2>0, <4>1, Zenon DEF NewExact
        <4> QED  BY <2>2, <4>1, <4>2, Zenon
      <3> QED  BY <3>1, <3>2, Zenon
    <2> QED  BY <2>1, <2>4, Zenon DEF NewExact
  <1>11. TriedExact(r)
    <2>0. TriedExact(m) /\ r.vvTried = m.vvTried
      BY <1>5, Zenon DEF AddrInv, Created
    <2>1. ASSUME NEW t \in TriedSlots, r.vvTried[t] # NoId
          PROVE  /\ r.vvTried[t] \in Ids(r) /\ r.mapInfo[r.vvTried[t]].fInTried
                 /\ TriedSlot[r.mapInfo[r.vvTried[t]].addr] = t
      <3>1. /\ m.vvTried[t] \in Ids(m) /\ m.mapInfo[m.vvTried[t]].fInTried
            /\ TriedSlot[m.mapInfo[m.vvTried[t]].addr] = t
        BY <2>0, <2>1, Zenon DEF TriedExact
      <3> QED  BY <1>6, <2>0, <3>1, ZenonT(60)
    <2>2. ASSUME NEW k \in Ids(r), r.mapInfo[k].fInTried
          PROVE  r.vvTried[TriedSlot[r.mapInfo[k].addr]] = k
      <3>1. k \in Ids(m) /\ r.mapInfo[k] = m.mapInfo[k]
        BY <1>6, <1>7, <2>2, Zenon
      <3>2. m.vvTried[TriedSlot[m.mapInfo[k].addr]] = k
        BY <2>0, <2>2, <3>1, TriedFound, Zenon
      <3> QED  BY <2>0, <3>1, <3>2, Zenon
    <2> QED  BY <2>1, <2>2, Zenon DEF TriedExact
  <1>12. InHand(r, {n})
    <2>0. InHand(m, {})
      BY Zenon DEF AddrInv
    <2>1. ASSUME NEW k \in Ids(r)
          PROVE  /\ r.mapInfo[k].fInTried => r.mapInfo[k].nRefCount = 0
                 /\ k \in {n} <=> ~r.mapInfo[k].fInTried /\ r.mapInfo[k].nRefCount = 0
      <3>1. CASE k = n
        BY <1>7, <3>1, Zenon
      <3>2. CASE k # n
        <4>1. k \in Ids(m) /\ r.mapInfo[k] = m.mapInfo[k]
          BY <1>6, <3>2, Zenon
        <4>2. /\ m.mapInfo[k].fInTried => m.mapInfo[k].nRefCount = 0
              /\ ~(~m.mapInfo[k].fInTried /\ m.mapInfo[k].nRefCount = 0)
          BY <2>0, <4>1, Zenon DEF InHand
        <4> QED  BY <3>2, <4>1, <4>2, Zenon
      <3> QED  BY <3>1, <3>2, Zenon
    <2>2. {n} \subseteq Ids(r)
      BY <1>6, Zenon
    <2> QED  BY <2>1, <2>2, Zenon DEF InHand
  <1>13. Counted(r, {n})
    <2>0. /\ IsFiniteSet(Ids(m)) /\ Len(m.vRandom) = Cardinality(Ids(m)) /\ \A i \in Ids(m) : i < n
          /\ m.nTried = Cardinality(TriedIds(m)) /\ m.nNew = Cardinality((Ids(m) \ TriedIds(m)) \ {})
      BY <1>1, Zenon DEF Counted
    <2>1. IsFiniteSet(Ids(r)) /\ Cardinality(Ids(r)) = Cardinality(Ids(m)) + 1
      <3>1. IsFiniteSet(Ids(m)) /\ n \notin Ids(m)
        BY <1>3, <2>0, Zenon
      <3>2. IsFiniteSet(Ids(m) \cup {n}) /\ Cardinality(Ids(m) \cup {n}) = Cardinality(Ids(m)) + 1
        BY <3>1, FS_AddElement, Zenon
      <3>3. Ids(r) = Ids(m) \cup {n}
        BY <1>6, Zenon
      <3> QED  BY <3>2, <3>3, Zenon
    <2>2. r.vRandom = Append(m.vRandom, n) /\ r.nNew = m.nNew /\ r.nTried = m.nTried /\ r.nIdCount = n + 1
      BY <1>5, Zenon DEF Created
    <2>3. Len(r.vRandom) = Len(m.vRandom) + 1
      BY <1>2, <2>2
    <2>4. \A i \in Ids(r) : i < r.nIdCount
      <3>1. \A i \in Ids(m) : i < n + 1
        BY <1>2, <2>0
      <3>2. n < n + 1
        BY <1>2
      <3> QED  BY <1>6, <2>2, <3>1, <3>2, Zenon
    <2>5. TriedIds(r) = TriedIds(m)
      <3>1. \A k : k \in TriedIds(r) <=> k \in TriedIds(m)
        BY <1>6, <1>7, Zenon DEF TriedIds
      <3> QED  BY <3>1, Zenon
    <2>6. n \notin TriedIds(m)
      BY <1>3, Zenon DEF TriedIds
    <2>7. (Ids(r) \ TriedIds(r)) \ {n} = (Ids(m) \ TriedIds(m)) \ {} /\ {n} \subseteq Ids(r) \ TriedIds(r)
      BY <1>3, <1>6, <2>5, <2>6, Zenon
    <2> QED  BY <2>0, <2>1, <2>2, <2>3, <2>4, <2>5, <2>7, Zenon DEF Counted
  <1>14. AddrInv(r, {n}, {n})
    BY <1>1, <1>5, <1>8, <1>9, <1>10, <1>11, <1>12, <1>13, Zenon DEF AddrInv, Created
  <1> QED  BY <1>5, <1>14, Zenon DEF r

\* Add_ keeps the invariant.
LEMMA AddInv ==
  ASSUME NEW m, AddrInv(m, {}, {}), NEW a \in Addrs, NEW source \in Sources,
         NEW fresh \in BOOLEAN, NEW terrible \in BOOLEAN
  PROVE  AddrInv(Add_(m, a, source, fresh, terrible), {}, {})
  <1> DEFINE nId == Find(m, a)
             n == m.nIdCount
             q == Create(m, a, source)
             created == [q EXCEPT !.nNew = @ + 1]
             r == Add_(m, a, source, fresh, terrible)
  <1>1. r = IF nId = NoId THEN PlaceNew(created, n, source, terrible)
            ELSE IF ~fresh \/ m.mapInfo[nId].fInTried
                    \/ m.mapInfo[nId].nRefCount = ADDRMAN_NEW_BUCKETS_PER_ADDRESS THEN m
            ELSE PlaceNew(m, nId, source, terrible)
    BY Zenon DEF Add_
  <1>2. m \in Managers /\ AddressesExact(m) /\ NewExact(m)
    BY Zenon DEF AddrInv
  <1>3. CASE nId = NoId
    <2>1. m.mapAddr[a] = NoId
      BY <1>2, <1>3, InfoFields, Zenon DEF Find, AddressesExact
    <2>2. AddrInv(q, {n}, {n}) /\ Created(m, a, source, q)
      BY <2>1, CreateInv, Zenon
    <2> HIDE DEF q
    <2>3. AddrInv(created, {n}, {n} \ {n}) /\ {n} \ {n} = {}
      BY <2>2, CountInv, Zenon
    <2>4. created.mapInfo = q.mapInfo
      <3>1. q \in Managers
        BY <2>2, Zenon DEF Created
      <3> QED  BY <3>1, Zenon DEF Managers
    <2> HIDE DEF created
    <2>5. n \in Ids(created) /\ ~created.mapInfo[n].fInTried /\ created.mapInfo[n].nRefCount = 0
      BY <2>2, <2>4, Zenon DEF Created, Ids
    <2>6. created.mapInfo[n].nRefCount < ADDRMAN_NEW_BUCKETS_PER_ADDRESS
      BY <2>5, AddrManAssumption
    <2>7. AddrInv(created, {n}, {}) /\ {n} \subseteq {n}
      BY <2>3, Zenon
    <2> HIDE DEF n
    <2>8. AddrInv(PlaceNew(created, n, source, terrible), {}, {})
      BY <2>5, <2>6, <2>7, PlaceNewInv, Zenon
    <2> HIDE DEF r
    <2>9. AddrInv(r, {}, {})
      BY <1>1, <1>3, <2>8, Zenon
    <2> QED  BY <2>9, Zenon DEF r
  <1>4. CASE nId # NoId /\ ~(~fresh \/ m.mapInfo[nId].fInTried
                              \/ m.mapInfo[nId].nRefCount = ADDRMAN_NEW_BUCKETS_PER_ADDRESS)
    <2>1. nId \in Ids(m)
      BY <1>4, Zenon DEF Find
    <2>2. m.mapInfo[nId].nRefCount \in Int /\ m.mapInfo[nId].nRefCount <= ADDRMAN_NEW_BUCKETS_PER_ADDRESS
      BY <1>2, <2>1, InfoFields, Zenon DEF NewExact
    <2>3. m.mapInfo[nId].nRefCount < ADDRMAN_NEW_BUCKETS_PER_ADDRESS
      BY <1>4, <2>2, AddrManAssumption
    <2> HIDE DEF nId
    <2>4. AddrInv(PlaceNew(m, nId, source, terrible), {}, {})
      <3> DEFINE H == {}
      <3>1. AddrInv(m, H, {}) /\ H \subseteq {nId} /\ ~m.mapInfo[nId].fInTried
        BY <1>4, Zenon
      <3> HIDE DEF H
      <3> QED  BY <2>1, <2>3, <3>1, PlaceNewInv, Zenon
    <2> HIDE DEF r
    <2>5. AddrInv(r, {}, {})
      BY <1>1, <1>4, <2>4, Zenon
    <2> QED  BY <2>5, Zenon DEF r
  <1>5. CASE nId # NoId /\ (~fresh \/ m.mapInfo[nId].fInTried
                              \/ m.mapInfo[nId].nRefCount = ADDRMAN_NEW_BUCKETS_PER_ADDRESS)
    <2> HIDE DEF r, nId
    <2>1. r = m
      BY <1>1, <1>5, Zenon
    <2>2. AddrInv(r, {}, {})
      BY <2>1, Zenon
    <2> QED  BY <2>2, Zenon DEF r
  <1> HIDE DEF nId
  <1> QED  BY <1>3, <1>4, <1>5, Zenon


-----------------------------------------------------------------------------
(* Good_. *)

\* The entry nId is tried or no more; V is the tried table after that and n their number.
Marked(m, nId, V, f, n) == [m EXCEPT !.mapInfo[nId].fInTried = f, !.vvTried = V, !.nTried = n]

\* What Marked leaves alone.
MarkedOnly(m, nId, V, f, n, r) ==
    /\ r \in Managers /\ Ids(r) = Ids(m)
    /\ r.mapAddr = m.mapAddr /\ r.vvNew = m.vvNew /\ r.vvTried = V /\ r.vRandom = m.vRandom
    /\ r.nNew = m.nNew /\ r.nTried = n /\ r.nIdCount = m.nIdCount /\ r.asserted = m.asserted
    /\ \A k \in Ids(m) \ {nId} : r.mapInfo[k] = m.mapInfo[k]
    /\ \A k \in Ids(m) : /\ r.mapInfo[k].addr = m.mapInfo[k].addr /\ r.mapInfo[k].source = m.mapInfo[k].source
                         /\ r.mapInfo[k].nRandomPos = m.mapInfo[k].nRandomPos
                         /\ r.mapInfo[k].nRefCount = m.mapInfo[k].nRefCount
    /\ r.mapInfo[nId].fInTried = f

\* The fields of Marked.
LEMMA MarkedFields ==
  ASSUME NEW m \in Managers, NEW nId \in Ids(m), NEW V \in TriedTable, NEW f \in BOOLEAN, NEW n \in Int
  PROVE  MarkedOnly(m, nId, V, f, n, Marked(m, nId, V, f, n))
  <1> DEFINE r == Marked(m, nId, V, f, n)
             y == [m.mapInfo[nId] EXCEPT !.fInTried = f]
             infos == [m.mapInfo EXCEPT ![nId] = y]
  <1>1. r = [m EXCEPT !.mapInfo = infos, !.vvTried = V, !.nTried = n]
    BY Zenon DEF Marked, Managers
  <1>2. m.mapInfo \in [Ids(m) -> Info] /\ Ids(m) \in SUBSET Nat /\ m.mapInfo[nId] \in Info
    BY ManagerFields, InfoFields, Zenon
  <1>3. /\ y \in Info /\ y.addr = m.mapInfo[nId].addr /\ y.source = m.mapInfo[nId].source
        /\ y.nRefCount = m.mapInfo[nId].nRefCount
        /\ y.nRandomPos = m.mapInfo[nId].nRandomPos /\ y.fInTried = f
    BY <1>2, Zenon DEF Info
  <1> HIDE DEF r, y
  <1>4. DOMAIN infos = Ids(m) /\ infos[nId] = y /\ \A k \in Ids(m) \ {nId} : infos[k] = m.mapInfo[k]
    BY <1>2, Zenon
  <1>5. infos \in Infos
    <2>1. infos \in [Ids(m) -> Info]
      BY <1>2, <1>3, Zenon
    <2> QED  BY <1>2, <2>1, Zenon DEF Infos
  <1> HIDE DEF infos
  <1>6. r \in Managers
    BY <1>1, <1>5, Zenon DEF Managers
  <1>7. /\ r.mapAddr = m.mapAddr /\ r.vvNew = m.vvNew /\ r.vvTried = V /\ r.vRandom = m.vRandom
        /\ r.nNew = m.nNew /\ r.nTried = n /\ r.nIdCount = m.nIdCount /\ r.asserted = m.asserted
        /\ r.mapInfo = infos
    BY <1>1, Zenon DEF Managers
  <1>8. Ids(r) = Ids(m)
    BY <1>4, <1>7, Zenon DEF Ids
  <1>9. /\ r.mapInfo[nId] = y /\ \A k \in Ids(m) \ {nId} : r.mapInfo[k] = m.mapInfo[k]
    BY <1>4, <1>7, Zenon
  <1>10. \A k \in Ids(m) : /\ r.mapInfo[k].addr = m.mapInfo[k].addr /\ r.mapInfo[k].source = m.mapInfo[k].source
                           /\ r.mapInfo[k].nRandomPos = m.mapInfo[k].nRandomPos
                           /\ r.mapInfo[k].nRefCount = m.mapInfo[k].nRefCount
    BY <1>3, <1>9, Zenon
  <1>11. MarkedOnly(m, nId, V, f, n, r)
    BY <1>3, <1>6, <1>7, <1>8, <1>9, <1>10, Zenon DEF MarkedOnly
  <1> QED  BY <1>11, Zenon DEF r

\* Marked changes none of the other indexes.
LEMMA MarkedKeeps ==
  ASSUME NEW m, NEW H, NEW U, AddrInv(m, H, U), NEW r, NEW nId, NEW V, NEW f, NEW n,
         MarkedOnly(m, nId, V, f, n, r)
  PROVE  AddressesExact(r) /\ RandomExact(r) /\ NewExact(r)
  <1>1. \A k \in Ids(m) : /\ r.mapInfo[k].addr = m.mapInfo[k].addr
                          /\ r.mapInfo[k].nRandomPos = m.mapInfo[k].nRandomPos
                          /\ r.mapInfo[k].nRefCount = m.mapInfo[k].nRefCount
    BY Zenon DEF MarkedOnly
  <1>2. Ids(r) = Ids(m)
    BY Zenon DEF MarkedOnly
  <1>3. AddressesExact(r)
    <2>0. r.mapAddr = m.mapAddr /\ AddressesExact(m)
      BY Zenon DEF MarkedOnly, AddrInv
    <2>1. \A k \in Ids(r) : r.mapAddr[r.mapInfo[k].addr] = k
      BY <1>1, <1>2, <2>0, Zenon DEF AddressesExact
    <2>2. ASSUME NEW a \in Addrs, r.mapAddr[a] # NoId
          PROVE  r.mapAddr[a] \in Ids(r) /\ r.mapInfo[r.mapAddr[a]].addr = a
      <3>1. m.mapAddr[a] \in Ids(m) /\ m.mapInfo[m.mapAddr[a]].addr = a
        BY <2>0, <2>2, Zenon DEF AddressesExact
      <3> QED  BY <1>1, <1>2, <2>0, <3>1, Zenon
    <2> QED  BY <2>1, <2>2, Zenon DEF AddressesExact
  <1>4. RandomExact(r)
    <2>0. r.vRandom = m.vRandom /\ RandomExact(m)
      BY Zenon DEF MarkedOnly, AddrInv
    <2>1. ASSUME NEW k \in DOMAIN r.vRandom
          PROVE  r.vRandom[k] \in Ids(r) /\ r.mapInfo[r.vRandom[k]].nRandomPos = k
      <3>1. m.vRandom[k] \in Ids(m) /\ m.mapInfo[m.vRandom[k]].nRandomPos = k
        BY <2>0, <2>1, Zenon DEF RandomExact
      <3> QED  BY <1>1, <1>2, <2>0, <3>1, Zenon
    <2>2. ASSUME NEW k \in Ids(r)
          PROVE  r.mapInfo[k].nRandomPos \in DOMAIN r.vRandom /\ r.vRandom[r.mapInfo[k].nRandomPos] = k
      <3>1. m.mapInfo[k].nRandomPos \in DOMAIN m.vRandom /\ m.vRandom[m.mapInfo[k].nRandomPos] = k
        BY <1>2, <2>0, <2>2, Zenon DEF RandomExact
      <3> QED  BY <1>1, <1>2, <2>0, <2>2, <3>1, Zenon
    <2> QED  BY <2>1, <2>2, Zenon DEF RandomExact
  <1>5. NewExact(r)
    <2>0. r.vvNew = m.vvNew /\ NewExact(m)
      BY Zenon DEF MarkedOnly, AddrInv
    <2>1. ASSUME NEW s \in NewSlots, r.vvNew[s] # NoId
          PROVE  r.vvNew[s] \in Ids(r) /\ s = NewSlotOf(r.mapInfo[r.vvNew[s]].addr, s[1])
      <3>1. m.vvNew[s] \in Ids(m) /\ s = NewSlotOf(m.mapInfo[m.vvNew[s]].addr, s[1])
        BY <2>0, <2>1, Zenon DEF NewExact
      <3> QED  BY <1>1, <1>2, <2>0, <3>1, Zenon
    <2>2. \A k : Places(r, k) = Places(m, k)
      BY <2>0, Zenon DEF Places
    <2>3. ASSUME NEW k \in Ids(r)
          PROVE  /\ IsFiniteSet(Places(r, k)) /\ r.mapInfo[k].nRefCount = Cardinality(Places(r, k))
                 /\ r.mapInfo[k].nRefCount <= ADDRMAN_NEW_BUCKETS_PER_ADDRESS
      <3>1. /\ IsFiniteSet(Places(m, k)) /\ m.mapInfo[k].nRefCount = Cardinality(Places(m, k))
            /\ m.mapInfo[k].nRefCount <= ADDRMAN_NEW_BUCKETS_PER_ADDRESS
        BY <1>2, <2>0, <2>3, Zenon DEF NewExact
      <3> QED  BY <1>1, <1>2, <2>2, <2>3, <3>1, Zenon
    <2> QED  BY <2>1, <2>3, Zenon DEF NewExact
  <1> QED  BY <1>3, <1>4, <1>5, Zenon

\* An entry in hand goes to its place in the tried table.
LEMMA TryInv ==
  ASSUME NEW m, NEW H, NEW U, AddrInv(m, H, U), NEW nId \in H, nId \in U,
         m.vvTried[TriedSlot[m.mapInfo[nId].addr]] = NoId
  PROVE  AddrInv(Marked(m, nId, [m.vvTried EXCEPT ![TriedSlot[m.mapInfo[nId].addr]] = nId], TRUE, m.nTried + 1),
                 H \ {nId}, U \ {nId})
  <1> DEFINE slot == TriedSlot[m.mapInfo[nId].addr]
             V == [m.vvTried EXCEPT ![slot] = nId]
             n == m.nTried + 1
             r == Marked(m, nId, V, TRUE, n)
  <1>1. m \in Managers /\ m.asserted /\ TriedExact(m) /\ InHand(m, H) /\ Counted(m, U)
    BY Zenon DEF AddrInv
  <1>2. nId \in Ids(m) /\ ~m.mapInfo[nId].fInTried /\ m.mapInfo[nId].nRefCount = 0
    BY <1>1, Zenon DEF InHand
  <1>3. /\ m.vvTried \in [TriedSlots -> Nat \cup {NoId}] /\ m.nTried \in Int /\ nId \in Nat
        /\ m.mapInfo[nId].addr \in Addrs /\ nId # NoId
    BY <1>1, <1>2, ManagerFields, InfoFields, Zenon
  <1>4. slot \in TriedSlots
    BY <1>3, Zenon DEF TriedSlots
  <1>5. V \in TriedTable /\ V[slot] = nId /\ \A t \in TriedSlots \ {slot} : V[t] = m.vvTried[t]
    BY <1>3, <1>4, Zenon DEF TriedTable
  <1>6. n \in Int
    BY <1>3
  <1>7. MarkedOnly(m, nId, V, TRUE, n, r)
    <2> HIDE DEF V, n
    <2> QED  BY <1>1, <1>2, <1>5, <1>6, MarkedFields, Zenon
  <1> HIDE DEF r, V, n
  <1>8. AddressesExact(r) /\ RandomExact(r) /\ NewExact(r)
    BY <1>7, MarkedKeeps, Zenon
  <1>9. /\ r \in Managers /\ r.asserted /\ Ids(r) = Ids(m) /\ r.vvTried = V /\ r.mapInfo[nId].fInTried
        /\ \A k \in Ids(m) \ {nId} : r.mapInfo[k] = m.mapInfo[k]
    BY <1>1, <1>7, Zenon DEF MarkedOnly
  <1>10. r.mapInfo[nId].addr = m.mapInfo[nId].addr /\ r.mapInfo[nId].nRefCount = 0
    BY <1>2, <1>7, Zenon DEF MarkedOnly
  <1>11. TriedExact(r)
    <2>1. ASSUME NEW t \in TriedSlots, r.vvTried[t] # NoId
          PROVE  /\ r.vvTried[t] \in Ids(r) /\ r.mapInfo[r.vvTried[t]].fInTried
                 /\ TriedSlot[r.mapInfo[r.vvTried[t]].addr] = t
      <3>1. CASE t = slot
        <4>1. r.vvTried[t] = nId
          BY <1>5, <1>9, <3>1, Zenon
        <4>2. TriedSlot[r.mapInfo[nId].addr] = t
          BY <1>10, <3>1, Zenon
        <4> QED  BY <1>2, <1>9, <4>1, <4>2, Zenon
      <3>2. CASE t # slot
        <4>1. r.vvTried[t] = m.vvTried[t]
          BY <1>5, <1>9, <3>2, Zenon
        <4>2. m.vvTried[t] # NoId
          BY <2>1, <4>1, Zenon
        <4>3. /\ m.vvTried[t] \in Ids(m) /\ m.mapInfo[m.vvTried[t]].fInTried
              /\ TriedSlot[m.mapInfo[m.vvTried[t]].addr] = t
          BY <1>1, <4>2, TriedThere, Zenon
        <4>4. m.vvTried[t] # nId
          BY <1>2, <4>3, Zenon
        <4>5. r.mapInfo[m.vvTried[t]] = m.mapInfo[m.vvTried[t]]
          BY <1>9, <4>3, <4>4, Zenon
        <4> QED  BY <1>9, <4>1, <4>3, <4>5, Zenon
      <3> QED  BY <3>1, <3>2, Zenon
    <2>2. ASSUME NEW k \in Ids(r), r.mapInfo[k].fInTried
          PROVE  r.vvTried[TriedSlot[r.mapInfo[k].addr]] = k
      <3>1. CASE k = nId
        BY <1>5, <1>9, <1>10, <3>1, Zenon
      <3>2. CASE k # nId
        <4>1. k \in Ids(m) /\ r.mapInfo[k] = m.mapInfo[k]
          BY <1>9, <3>2, Zenon
        <4>2. m.vvTried[TriedSlot[m.mapInfo[k].addr]] = k /\ k # NoId /\ m.mapInfo[k].addr \in Addrs
          BY <1>1, <2>2, <4>1, TriedFound, InfoFields, Zenon
        <4>3. TriedSlot[m.mapInfo[k].addr] \in TriedSlots
          BY <4>2, Zenon DEF TriedSlots
        <4>4. TriedSlot[m.mapInfo[k].addr] # slot
          BY <4>2, Zenon
        <4>5. V[TriedSlot[m.mapInfo[k].addr]] = k
          BY <1>5, <4>2, <4>3, <4>4, Zenon
        <4> QED  BY <1>9, <4>1, <4>5, Zenon
      <3> QED  BY <3>1, <3>2, Zenon
    <2> QED  BY <2>1, <2>2, Zenon DEF TriedExact
  <1>12. InHand(r, H \ {nId})
    <2>1. ASSUME NEW k \in Ids(r)
          PROVE  /\ r.mapInfo[k].fInTried => r.mapInfo[k].nRefCount = 0
                 /\ k \in H \ {nId} <=> ~r.mapInfo[k].fInTried /\ r.mapInfo[k].nRefCount = 0
      <3>1. CASE k = nId
        BY <1>9, <1>10, <3>1, Zenon
      <3>2. CASE k # nId
        <4>1. k \in Ids(m) /\ r.mapInfo[k] = m.mapInfo[k] /\ (k \in H \ {nId} <=> k \in H)
          BY <1>9, <3>2, Zenon
        <4> QED  BY <1>1, <4>1, Zenon DEF InHand
      <3> QED  BY <3>1, <3>2, Zenon
    <2>2. H \ {nId} \subseteq Ids(r)
      BY <1>1, <1>9, Zenon DEF InHand
    <2> QED  BY <2>1, <2>2, Zenon DEF InHand
  <1>13. Counted(r, U \ {nId})
    <2>0. /\ IsFiniteSet(Ids(m)) /\ Len(m.vRandom) = Cardinality(Ids(m)) /\ \A i \in Ids(m) : i < m.nIdCount
          /\ U \subseteq Ids(m) \ TriedIds(m)
          /\ m.nTried = Cardinality(TriedIds(m)) /\ m.nNew = Cardinality((Ids(m) \ TriedIds(m)) \ U)
      BY <1>1, Zenon DEF Counted
    <2>1. r.vRandom = m.vRandom /\ r.nNew = m.nNew /\ r.nTried = n /\ r.nIdCount = m.nIdCount
      BY <1>7, Zenon DEF MarkedOnly
    <2>2. nId \notin TriedIds(m) /\ TriedIds(m) \subseteq Ids(m)
      BY <1>2, Zenon DEF TriedIds
    <2>3. TriedIds(r) = TriedIds(m) \cup {nId}
      <3>1. \A k : k \in TriedIds(r) <=> k \in TriedIds(m) \cup {nId}
        BY <1>2, <1>9, Zenon DEF TriedIds
      <3> QED  BY <3>1, Zenon
    <2>4. IsFiniteSet(TriedIds(m))
      BY <2>0, <2>2, FS_Subset, Zenon
    <2>5. Cardinality(TriedIds(m) \cup {nId}) = Cardinality(TriedIds(m)) + 1
      BY <2>2, <2>4, FS_AddElement, Zenon
    <2>6. (Ids(r) \ TriedIds(r)) \ (U \ {nId}) = (Ids(m) \ TriedIds(m)) \ U /\ U \ {nId} \subseteq Ids(r) \ TriedIds(r)
      BY <1>9, <2>0, <2>3, Zenon
    <2>7. r.nTried = Cardinality(TriedIds(r))
      BY <2>0, <2>1, <2>3, <2>5, Zenon DEF n
    <2> QED  BY <1>9, <2>0, <2>1, <2>6, <2>7, Zenon DEF Counted
  <1>14. AddrInv(r, H \ {nId}, U \ {nId})
    BY <1>8, <1>9, <1>11, <1>12, <1>13, Zenon DEF AddrInv
  <1> QED  BY <1>14, Zenon DEF r, V, n


\* The entry at a place of the tried table leaves it.
LEMMA UntryInv ==
  ASSUME NEW m, NEW H, NEW U, AddrInv(m, H, U), NEW slot \in TriedSlots, m.vvTried[slot] # NoId
  PROVE  AddrInv(Marked(m, m.vvTried[slot], [m.vvTried EXCEPT ![slot] = NoId], FALSE, m.nTried - 1),
                 H \cup {m.vvTried[slot]}, U \cup {m.vvTried[slot]})
  <1> DEFINE e == m.vvTried[slot]
             V == [m.vvTried EXCEPT ![slot] = NoId]
             n == m.nTried - 1
             r == Marked(m, e, V, FALSE, n)
  <1>1. m \in Managers /\ m.asserted /\ TriedExact(m) /\ InHand(m, H) /\ Counted(m, U)
    BY Zenon DEF AddrInv
  <1>2. e \in Ids(m) /\ m.mapInfo[e].fInTried /\ TriedSlot[m.mapInfo[e].addr] = slot
    BY <1>1, TriedThere, Zenon
  <1>3. /\ m.vvTried \in [TriedSlots -> Nat \cup {NoId}] /\ m.nTried \in Int
    BY <1>1, ManagerFields, Zenon
  <1>4. m.mapInfo[e].nRefCount = 0
    BY <1>1, <1>2, Zenon DEF InHand
  <1>5. V \in TriedTable /\ V[slot] = NoId /\ \A t \in TriedSlots \ {slot} : V[t] = m.vvTried[t]
    BY <1>3, Zenon DEF TriedTable
  <1>6. n \in Int /\ FALSE \in BOOLEAN
    BY <1>3
  <1>0. e = m.vvTried[slot]
    BY Zenon
  <1>7. MarkedOnly(m, e, V, FALSE, n, r)
    <2> HIDE DEF V, n, e
    <2> QED  BY <1>1, <1>2, <1>5, <1>6, MarkedFields, Zenon
  <1> HIDE DEF r, V, n, e
  <1>8. AddressesExact(r) /\ RandomExact(r) /\ NewExact(r)
    BY <1>7, MarkedKeeps, Zenon
  <1>9. /\ r \in Managers /\ r.asserted /\ Ids(r) = Ids(m) /\ r.vvTried = V /\ ~r.mapInfo[e].fInTried
        /\ \A k \in Ids(m) \ {e} : r.mapInfo[k] = m.mapInfo[k]
    BY <1>1, <1>7, Zenon DEF MarkedOnly
  <1>10. r.mapInfo[e].nRefCount = 0
    BY <1>2, <1>4, <1>7, Zenon DEF MarkedOnly
  <1>11. TriedExact(r)
    <2>1. ASSUME NEW t \in TriedSlots, r.vvTried[t] # NoId
          PROVE  /\ r.vvTried[t] \in Ids(r) /\ r.mapInfo[r.vvTried[t]].fInTried
                 /\ TriedSlot[r.mapInfo[r.vvTried[t]].addr] = t
      <3>1. t # slot
        BY <1>5, <1>9, <2>1, Zenon
      <3>2. r.vvTried[t] = m.vvTried[t]
        BY <1>5, <1>9, <3>1, Zenon
      <3>3. m.vvTried[t] # NoId
        BY <2>1, <3>2, Zenon
      <3>4. /\ m.vvTried[t] \in Ids(m) /\ m.mapInfo[m.vvTried[t]].fInTried
            /\ TriedSlot[m.mapInfo[m.vvTried[t]].addr] = t
        BY <1>1, <3>3, TriedThere, Zenon
      <3>5. m.vvTried[t] # e
        BY <1>2, <3>1, <3>4, Zenon
      <3>6. r.mapInfo[m.vvTried[t]] = m.mapInfo[m.vvTried[t]]
        BY <1>9, <3>4, <3>5, Zenon
      <3> QED  BY <1>9, <3>2, <3>4, <3>6, Zenon
    <2>2. ASSUME NEW k \in Ids(r), r.mapInfo[k].fInTried
          PROVE  r.vvTried[TriedSlot[r.mapInfo[k].addr]] = k
      <3>1. k # e
        BY <1>9, <2>2, Zenon
      <3>2. k \in Ids(m) /\ r.mapInfo[k] = m.mapInfo[k]
        BY <1>9, <3>1, Zenon
      <3>3. m.vvTried[TriedSlot[m.mapInfo[k].addr]] = k /\ m.mapInfo[k].addr \in Addrs
        BY <1>1, <2>2, <3>2, TriedFound, InfoFields, Zenon
      <3>4. TriedSlot[m.mapInfo[k].addr] \in TriedSlots
        BY <3>3, Zenon DEF TriedSlots
      <3>5. TriedSlot[m.mapInfo[k].addr] # slot
        BY <1>0, <3>1, <3>3, Zenon
      <3>6. V[TriedSlot[m.mapInfo[k].addr]] = k
        BY <1>5, <3>3, <3>4, <3>5, Zenon
      <3> QED  BY <1>9, <3>2, <3>6, Zenon
    <2> QED  BY <2>1, <2>2, Zenon DEF TriedExact
  <1>12. InHand(r, H \cup {e})
    <2>1. ASSUME NEW k \in Ids(r)
          PROVE  /\ r.mapInfo[k].fInTried => r.mapInfo[k].nRefCount = 0
                 /\ k \in H \cup {e} <=> ~r.mapInfo[k].fInTried /\ r.mapInfo[k].nRefCount = 0
      <3>1. CASE k = e
        BY <1>9, <1>10, <3>1, Zenon
      <3>2. CASE k # e
        <4>1. k \in Ids(m) /\ r.mapInfo[k] = m.mapInfo[k] /\ (k \in H \cup {e} <=> k \in H)
          BY <1>9, <3>2, Zenon
        <4> QED  BY <1>1, <4>1, Zenon DEF InHand
      <3> QED  BY <3>1, <3>2, Zenon
    <2>2. H \cup {e} \subseteq Ids(r)
      BY <1>1, <1>2, <1>9, Zenon DEF InHand
    <2> QED  BY <2>1, <2>2, Zenon DEF InHand
  <1>13. Counted(r, U \cup {e})
    <2>0. /\ IsFiniteSet(Ids(m)) /\ Len(m.vRandom) = Cardinality(Ids(m)) /\ \A i \in Ids(m) : i < m.nIdCount
          /\ U \subseteq Ids(m) \ TriedIds(m)
          /\ m.nTried = Cardinality(TriedIds(m)) /\ m.nNew = Cardinality((Ids(m) \ TriedIds(m)) \ U)
      BY <1>1, Zenon DEF Counted
    <2>1. r.vRandom = m.vRandom /\ r.nNew = m.nNew /\ r.nTried = n /\ r.nIdCount = m.nIdCount
      BY <1>7, Zenon DEF MarkedOnly
    <2>2. e \in TriedIds(m) /\ TriedIds(m) \subseteq Ids(m)
      BY <1>2, Zenon DEF TriedIds
    <2>3. TriedIds(r) = TriedIds(m) \ {e}
      <3>1. \A k : k \in TriedIds(r) <=> k \in TriedIds(m) \ {e}
        BY <1>2, <1>9, Zenon DEF TriedIds
      <3> QED  BY <3>1, Zenon
    <2>4. IsFiniteSet(TriedIds(m))
      BY <2>0, <2>2, FS_Subset, Zenon
    <2>5. Cardinality(TriedIds(m) \ {e}) = Cardinality(TriedIds(m)) - 1
      BY <2>2, <2>4, FS_RemoveElement, Zenon
    <2>6. (Ids(r) \ TriedIds(r)) \ (U \cup {e}) = (Ids(m) \ TriedIds(m)) \ U /\ U \cup {e} \subseteq Ids(r) \ TriedIds(r)
      BY <1>2, <1>9, <2>0, <2>2, <2>3, Zenon
    <2>7. r.nTried = Cardinality(TriedIds(r))
      BY <2>0, <2>1, <2>3, <2>5, Zenon DEF n
    <2> QED  BY <1>9, <2>0, <2>1, <2>6, <2>7, Zenon DEF Counted
  <1>14. AddrInv(r, H \cup {e}, U \cup {e})
    BY <1>8, <1>9, <1>11, <1>12, <1>13, Zenon DEF AddrInv
  <1> QED  BY <1>14, Zenon DEF r, V, n, e

\* What MakeTried relies on: the place is free, and the entries in hand are as before.
Evicted(m, H, slot, r) ==
    /\ r.vvTried = [m.vvTried EXCEPT ![slot] = NoId]
    /\ \A k \in H : k \in Ids(r) /\ Alike(r.mapInfo[k], m.mapInfo[k])

\* Evict, after the place in the new table is cleared.
PutBack(m, e, s) ==
    [m EXCEPT !.mapInfo[e].nRefCount = 1, !.vvNew[s] = e, !.nNew = @ + 1, !.asserted = @ /\ m.vvNew[s] = NoId]

\* That gives the entry a place and counts it.
LEMMA EvictedAs ==
  ASSUME NEW m \in Managers, m.asserted, NEW e \in Ids(m), NEW s \in NewSlots, m.vvNew[s] = NoId
  PROVE  PutBack(m, e, s) = [Placed(m, e, [m.vvNew EXCEPT ![s] = e], 1) EXCEPT !.nNew = @ + 1]
  <1> DEFINE T == [m.vvNew EXCEPT ![s] = e]
             infos == [m.mapInfo EXCEPT ![e].nRefCount = 1]
  <1>1. PutBack(m, e, s) = [m EXCEPT !.mapInfo = infos, !.vvNew = T, !.nNew = m.nNew + 1, !.asserted = TRUE]
    BY Zenon DEF PutBack, Managers
  <1>2. [Placed(m, e, T, 1) EXCEPT !.nNew = @ + 1]
           = [m EXCEPT !.mapInfo = infos, !.vvNew = T, !.nNew = m.nNew + 1]
    <2>1. Placed(m, e, T, 1) = [m EXCEPT !.mapInfo = infos, !.vvNew = T]
      BY Zenon DEF Placed, Managers
    <2> HIDE DEF infos, T
    <2> QED  BY <2>1, Zenon DEF Managers
  <1>3. [m EXCEPT !.mapInfo = infos, !.vvNew = T, !.nNew = m.nNew + 1, !.asserted = TRUE]
           = [m EXCEPT !.mapInfo = infos, !.vvNew = T, !.nNew = m.nNew + 1]
    <2> HIDE DEF infos, T
    <2> QED  BY Zenon DEF Managers
  <1> QED  BY <1>1, <1>2, <1>3, Zenon


\* Evict frees a place of the tried table.
LEMMA EvictInv ==
  ASSUME NEW m, NEW H, AddrInv(m, H, H), NEW slot \in TriedSlots
  PROVE  AddrInv(Evict(m, slot), H, H) /\ Evicted(m, H, slot, Evict(m, slot))
  <1> DEFINE e == m.vvTried[slot]
             old == m.mapInfo[e]
             place == NewSlotOf(old.addr, NewBucket[old.addr, old.source])
             V == [m.vvTried EXCEPT ![slot] = NoId]
             out == Marked(m, e, V, FALSE, m.nTried - 1)
             clear == ClearNew(out, place)
             r == Evict(m, slot)
  <1>1. m \in Managers /\ m.asserted /\ TriedExact(m) /\ InHand(m, H)
    BY Zenon DEF AddrInv
  <1>2. m.vvTried \in [TriedSlots -> Nat \cup {NoId}] /\ m.nTried \in Int
    BY <1>1, ManagerFields, Zenon
  <1>3. out = [m EXCEPT !.mapInfo[e].fInTried = FALSE, !.vvTried[slot] = NoId, !.nTried = @ - 1]
    BY <1>1, Zenon DEF Marked, Managers
  <1>4. r = IF e = NoId THEN m
            ELSE [clear EXCEPT !.mapInfo[e].nRefCount = 1, !.vvNew[place] = e, !.nNew = @ + 1,
                               !.asserted = @ /\ clear.vvNew[place] = NoId]
    <2> DEFINE q == [m EXCEPT !.mapInfo[e].fInTried = FALSE, !.vvTried[slot] = NoId, !.nTried = @ - 1]
    <2>1. r = IF e = NoId THEN m
              ELSE [ClearNew(q, place) EXCEPT !.mapInfo[e].nRefCount = 1, !.vvNew[place] = e, !.nNew = @ + 1,
                                              !.asserted = @ /\ ClearNew(q, place).vvNew[place] = NoId]
      BY Zenon DEF Evict
    <2>2. q = out
      BY <1>3, Zenon
    <2> HIDE DEF q, out, r, e, place
    <2> QED  BY <2>1, <2>2, Zenon
  <1>5. CASE e = NoId
    <2>1. r = m
      BY <1>4, <1>5, Zenon
    <2>2. V = m.vvTried
      BY <1>2, <1>5, Zenon
    <2>3. Evicted(m, H, slot, m)
      BY <1>1, <2>2, Zenon DEF Evicted, InHand, Alike
    <2> HIDE DEF r
    <2>4. AddrInv(r, H, H) /\ Evicted(m, H, slot, r)
      BY <2>1, <2>3, Zenon
    <2> QED  BY <2>4, Zenon DEF r
  <1>6. CASE e # NoId
    <2>1. e \in Ids(m) /\ old.fInTried
      BY <1>1, <1>6, TriedThere, Zenon
    <2>2. e \notin H
      BY <1>1, <2>1, Zenon DEF InHand
    <2>3. AddrInv(out, H \cup {e}, H \cup {e})
      BY <1>6, UntryInv, Zenon
    <2>4. MarkedOnly(m, e, V, FALSE, m.nTried - 1, out)
      <3>1. V \in TriedTable
        BY <1>2, Zenon DEF TriedTable
      <3>2. m.nTried - 1 \in Int /\ FALSE \in BOOLEAN
        BY <1>2
      <3> HIDE DEF V, e
      <3> QED  BY <1>1, <2>1, <3>1, <3>2, MarkedFields, Zenon
    <2>5. old.addr \in Addrs /\ NewBucket[old.addr, old.source] \in NewBuckets
      <3>1. old.addr \in Addrs /\ old.source \in Sources
        BY <1>1, <2>1, InfoFields, Zenon
      <3> QED  BY <3>1, AddrManAssumption, Zenon
    <2>6. place \in NewSlots /\ place = NewSlotOf(old.addr, place[1])
      BY <2>5, SlotOf, Zenon
    <2>7. AddrInv(clear, H \cup {e}, H \cup {e}) /\ Cleared(out, place, clear)
      <3> HIDE DEF out, place, e
      <3> QED  BY <2>3, <2>6, ClearNewInv, ZenonT(60)
    <2> DEFINE done == [Placed(clear, e, [clear.vvNew EXCEPT ![place] = e], 1) EXCEPT !.nNew = @ + 1]
    <2> HIDE DEF out, place, clear, r, V
    <2>8. NewExact(out) /\ InHand(out, H \cup {e}) /\ out \in Managers
      BY <2>3, Zenon DEF AddrInv
    <2>9. \A k \in H \cup {e} : k \in Ids(out) /\ k # out.vvNew[place]
      <3> TAKE k \in H \cup {e}
      <3>1. k \in Ids(out) /\ out.mapInfo[k].nRefCount = 0
        BY <2>8, Zenon DEF InHand
      <3> QED  BY <2>6, <2>8, <3>1, NotPlaced, Zenon
    <2>10. \A k \in H \cup {e} : k \in Ids(clear) /\ Alike(clear.mapInfo[k], out.mapInfo[k])
      BY <2>7, <2>9, Zenon DEF Cleared
    <2>11. clear.vvNew[place] = NoId
      <3>1. out.vvNew \in [NewSlots -> Nat \cup {NoId}] /\ clear.vvNew = [out.vvNew EXCEPT ![place] = NoId]
        BY <2>7, <2>8, ManagerFields, Zenon DEF Cleared
      <3> QED  BY <2>6, <3>1, Zenon
    <2>12. /\ e \in Ids(clear) /\ ~clear.mapInfo[e].fInTried /\ clear.mapInfo[e].nRefCount = 0
           /\ clear.mapInfo[e].addr = old.addr /\ clear \in Managers /\ clear.asserted
      <3>1. e \in Ids(clear) /\ Alike(clear.mapInfo[e], out.mapInfo[e])
        BY <2>10, Zenon
      <3>2. InHand(clear, H \cup {e}) /\ clear \in Managers /\ clear.asserted
        BY <2>7, Zenon DEF AddrInv
      <3>3. ~clear.mapInfo[e].fInTried /\ clear.mapInfo[e].nRefCount = 0
        BY <3>1, <3>2, Zenon DEF InHand
      <3>4. out.mapInfo[e].addr = old.addr
        BY <2>1, <2>4, Zenon DEF MarkedOnly
      <3> QED  BY <3>1, <3>2, <3>3, <3>4, Zenon DEF Alike
    <2>13. AddrInv(Placed(clear, e, [clear.vvNew EXCEPT ![place] = e], 1), (H \cup {e}) \ {e}, H \cup {e})
      <3>1. 0 < ADDRMAN_NEW_BUCKETS_PER_ADDRESS /\ 0 + 1 = 1
        BY AddrManAssumption
      <3>2. /\ clear.mapInfo[e].nRefCount < ADDRMAN_NEW_BUCKETS_PER_ADDRESS /\ clear.mapInfo[e].nRefCount + 1 = 1
            /\ place = NewSlotOf(clear.mapInfo[e].addr, place[1])
        BY <2>6, <2>12, <3>1, Zenon
      <3> HIDE DEF e
      <3>3. AddrInv(Placed(clear, e, [clear.vvNew EXCEPT ![place] = e], clear.mapInfo[e].nRefCount + 1),
                    (H \cup {e}) \ {e}, H \cup {e})
        BY <2>6, <2>7, <2>11, <2>12, <3>2, GivePlaceInv, Zenon
      <3> QED  BY <3>2, <3>3, Zenon
    <2>14. PlacedOnly(clear, e, [clear.vvNew EXCEPT ![place] = e], 1, Placed(clear, e, [clear.vvNew EXCEPT ![place] = e], 1))
      <3> DEFINE T == [clear.vvNew EXCEPT ![place] = e]
      <3>1. T \in NewTable
        <4>1. clear.vvNew \in [NewSlots -> Nat \cup {NoId}] /\ e \in Nat
          BY <2>12, ManagerFields, InfoFields, Zenon
        <4> HIDE DEF e
        <4> QED  BY <4>1, Zenon DEF NewTable
      <3>2. 1 \in Int
        OBVIOUS
      <3> HIDE DEF T, e
      <3>3. PlacedOnly(clear, e, T, 1, Placed(clear, e, T, 1))
        BY <2>12, <3>1, <3>2, PlacedFields, Zenon
      <3> QED  BY <3>3, Zenon DEF T
    <2> DEFINE p == Placed(clear, e, [clear.vvNew EXCEPT ![place] = e], 1)
    <2>15. r = done
      <3>1. r = PutBack(clear, e, place)
        BY <1>4, <1>6, Zenon DEF PutBack
      <3> HIDE DEF e
      <3>2. PutBack(clear, e, place) = done
        <4>1. clear \in Managers /\ clear.asserted /\ e \in Ids(clear) /\ place \in NewSlots
          BY <2>6, <2>12, Zenon
        <4>2. PutBack(clear, e, place)
                = [Placed(clear, e, [clear.vvNew EXCEPT ![place] = e], 1) EXCEPT !.nNew = @ + 1]
          <5> HIDE DEF done
          <5> QED  BY <2>11, <4>1, EvictedAs, Zenon
        <4> QED  BY <4>2, Zenon
      <3> QED  BY <3>1, <3>2, Zenon
    <2> HIDE DEF p
    <2>16. done = [p EXCEPT !.nNew = @ + 1] /\ PlacedOnly(clear, e, [clear.vvNew EXCEPT ![place] = e], 1, p)
           /\ AddrInv(p, H, H \cup {e})
      <3>1. (H \cup {e}) \ {e} = H
        BY <2>2, Zenon
      <3> QED  BY <2>13, <2>14, <3>1, Zenon DEF p
    <2> HIDE DEF done
    <2>17. AddrInv(r, H, H)
      <3>1. (H \cup {e}) \ {e} = H /\ e \in H \cup {e}
        BY <2>2, Zenon
      <3> HIDE DEF e
      <3>2. AddrInv(done, H, (H \cup {e}) \ {e})
        BY <2>16, <3>1, CountInv, Zenon
      <3> QED  BY <2>15, <3>1, <3>2, Zenon
    <2>18. Evicted(m, H, slot, r)
      <3>1. r.vvTried = p.vvTried /\ r.mapInfo = p.mapInfo
        <4>1. p \in Managers
          BY <2>16, Zenon DEF PlacedOnly
        <4> QED  BY <2>15, <2>16, <4>1, Zenon DEF Managers
      <3>2. p.vvTried = clear.vvTried /\ clear.vvTried = out.vvTried /\ out.vvTried = V
        BY <2>4, <2>7, <2>16, Zenon DEF PlacedOnly, Cleared, MarkedOnly
      <3>3. ASSUME NEW k \in H
            PROVE  k \in Ids(r) /\ Alike(r.mapInfo[k], m.mapInfo[k])
        <4>1. k # e /\ k \in Ids(m) /\ k \in Ids(clear) /\ Alike(clear.mapInfo[k], out.mapInfo[k])
          BY <1>1, <2>2, <2>10, Zenon DEF InHand
        <4>2. out.mapInfo[k] = m.mapInfo[k]
          BY <2>4, <4>1, Zenon DEF MarkedOnly
        <4>3. p.mapInfo[k] = clear.mapInfo[k] /\ Ids(p) = Ids(clear)
          BY <2>16, <4>1, Zenon DEF PlacedOnly
        <4> QED  BY <3>1, <4>1, <4>2, <4>3, Zenon DEF Ids
      <3> QED  BY <3>1, <3>2, <3>3, Zenon DEF Evicted, V
    <2> QED  BY <2>17, <2>18, Zenon DEF r
  <1> QED  BY <1>5, <1>6, Zenon


\* MakeTried, after the entry has lost its places.
TakenOut(m, nId, T, n) == [m EXCEPT !.vvNew = T, !.mapInfo[nId].nRefCount = n, !.nNew = @ - 1]

\* MakeTried, after its place is free.
PutIn(m, nId, t, P) == [m EXCEPT !.vvTried[t] = nId, !.nTried = @ + 1, !.mapInfo[nId].fInTried = TRUE,
                                 !.asserted = @ /\ P /\ m.vvTried[t] = NoId]

Uncounted(m) == [m EXCEPT !.nNew = @ - 1]

\* Taking out leaves an entry without a place that is not counted.
LEMMA TakenOutAs ==
  ASSUME NEW m \in Managers, NEW nId \in Ids(m), NEW T \in NewTable, NEW n \in Int
  PROVE  TakenOut(m, nId, T, n) = Uncounted(Placed(m, nId, T, n))
  <1> DEFINE infos == [m.mapInfo EXCEPT ![nId].nRefCount = n]
  <1>1. TakenOut(m, nId, T, n) = [m EXCEPT !.vvNew = T, !.mapInfo = infos, !.nNew = m.nNew - 1]
    BY Zenon DEF TakenOut, Managers
  <1>2. Placed(m, nId, T, n) = [m EXCEPT !.mapInfo = infos, !.vvNew = T]
    BY Zenon DEF Placed, Managers
  <1> HIDE DEF infos
  <1>3. [[m EXCEPT !.mapInfo = infos, !.vvNew = T] EXCEPT !.nNew = @ - 1]
          = [m EXCEPT !.vvNew = T, !.mapInfo = infos, !.nNew = m.nNew - 1]
    BY Zenon DEF Managers
  <1> QED  BY <1>1, <1>2, <1>3, Zenon DEF Uncounted

\* Putting in marks the entry as tried.
LEMMA PutInAs ==
  ASSUME NEW m \in Managers, m.asserted, NEW nId \in Ids(m), NEW t \in TriedSlots, m.vvTried[t] = NoId, NEW P, P
  PROVE  PutIn(m, nId, t, P) = Marked(m, nId, [m.vvTried EXCEPT ![t] = nId], TRUE, m.nTried + 1)
  <1> DEFINE V == [m.vvTried EXCEPT ![t] = nId]
             infos == [m.mapInfo EXCEPT ![nId].fInTried = TRUE]
  <1>1. PutIn(m, nId, t, P) = [m EXCEPT !.vvTried = V, !.nTried = m.nTried + 1, !.mapInfo = infos, !.asserted = TRUE]
    BY Zenon DEF PutIn, Managers
  <1>2. Marked(m, nId, V, TRUE, m.nTried + 1) = [m EXCEPT !.mapInfo = infos, !.vvTried = V, !.nTried = m.nTried + 1]
    BY Zenon DEF Marked, Managers
  <1>3. [m EXCEPT !.vvTried = V, !.nTried = m.nTried + 1, !.mapInfo = infos, !.asserted = TRUE]
           = [m EXCEPT !.mapInfo = infos, !.vvTried = V, !.nTried = m.nTried + 1]
    <2> HIDE DEF infos, V
    <2> QED  BY Zenon DEF Managers
  <1> QED  BY <1>1, <1>2, <1>3, Zenon

\* MakeTried moves an entry from the new table to the tried one.
LEMMA MakeTriedInv ==
  ASSUME NEW m, AddrInv(m, {}, {}), NEW nId \in Ids(m), ~m.mapInfo[nId].fInTried
  PROVE  AddrInv(MakeTried(m, nId), {}, {})
  <1> DEFINE a == m.mapInfo[nId].addr
             held == {s \in NewSlots : m.vvNew[s] = nId /\ s = NewSlotOf(a, s[1])}
             T == [s \in NewSlots |-> IF s \in held THEN NoId ELSE m.vvNew[s]]
             c == m.mapInfo[nId].nRefCount - Cardinality(held)
             p == Placed(m, nId, T, c)
             out == TakenOut(m, nId, T, c)
             free == Evict(out, TriedSlot[a])
             r == MakeTried(m, nId)
  <1>1. m \in Managers /\ m.asserted /\ NewExact(m)
    BY Zenon DEF AddrInv
  <1>2. r = PutIn(free, nId, TriedSlot[a], out.mapInfo[nId].nRefCount = 0)
    <2> DEFINE o == [m EXCEPT !.vvNew = [s \in NewSlots |-> IF s \in held THEN NoId ELSE @[s]],
                              !.mapInfo[nId].nRefCount = @ - Cardinality(held), !.nNew = @ - 1]
               f == Evict(o, TriedSlot[a])
    <2>1. r = [f EXCEPT !.vvTried[TriedSlot[a]] = nId, !.nTried = @ + 1, !.mapInfo[nId].fInTried = TRUE,
                        !.asserted = @ /\ o.mapInfo[nId].nRefCount = 0 /\ f.vvTried[TriedSlot[a]] = NoId]
      BY Zenon DEF MakeTried
    <2>2. o = out
      BY <1>1, Zenon DEF TakenOut, Managers
    <2> HIDE DEF o, out, r, a
    <2>3. f = free
      BY <2>2, Zenon
    <2> HIDE DEF f, free
    <2>4. (free.asserted /\ out.mapInfo[nId].nRefCount = 0 /\ free.vvTried[TriedSlot[a]] = NoId)
            = (free.asserted /\ (out.mapInfo[nId].nRefCount = 0) /\ free.vvTried[TriedSlot[a]] = NoId)
      BY Zenon
    <2> QED  BY <2>1, <2>2, <2>3, <2>4, Zenon DEF PutIn
  <1>3. /\ m.vvNew \in [NewSlots -> Nat \cup {NoId}] /\ a \in Addrs /\ nId # NoId
        /\ m.mapInfo[nId].nRefCount \in Int
    BY <1>1, ManagerFields, InfoFields, Zenon
  <1>4. /\ IsFiniteSet(Places(m, nId)) /\ m.mapInfo[nId].nRefCount = Cardinality(Places(m, nId))
        /\ m.mapInfo[nId].nRefCount <= ADDRMAN_NEW_BUCKETS_PER_ADDRESS
    BY <1>1, Zenon DEF NewExact
  <1>5. held = Places(m, nId)
    <2>1. \A s \in NewSlots : m.vvNew[s] = nId => s = NewSlotOf(a, s[1])
      BY <1>1, <1>3, Zenon DEF NewExact
    <2> QED  BY <2>1, Zenon DEF Places
  <1>6. c = 0
    <2>1. c = m.mapInfo[nId].nRefCount - m.mapInfo[nId].nRefCount
      BY <1>4, <1>5, Zenon
    <2> QED  BY <1>3, <2>1
  <1> HIDE DEF held, c
  <1>7. T \in NewTable
    BY <1>3, Zenon DEF NewTable
  <1>8. \A s \in NewSlots : T[s] = IF s \in Places(m, nId) THEN NoId ELSE m.vvNew[s]
    BY <1>5, Zenon
  <1> HIDE DEF T
  <1>9. /\ {s \in NewSlots : T[s] = nId} = {}
        /\ \A s \in NewSlots : T[s] = m.vvNew[s] \/ (T[s] \in {nId, NoId} /\ m.vvNew[s] \in {nId, NoId})
        /\ \A s \in NewSlots : T[s] # nId
    <2>1. ASSUME NEW s \in NewSlots
          PROVE  /\ T[s] = m.vvNew[s] \/ (T[s] \in {nId, NoId} /\ m.vvNew[s] \in {nId, NoId})
                 /\ T[s] # nId
      <3>1. CASE m.vvNew[s] = nId
        <4>1. T[s] = NoId
          BY <1>8, <3>1, Zenon DEF Places
        <4> QED  BY <1>3, <3>1, <4>1, Zenon
      <3>2. CASE m.vvNew[s] # nId
        <4>1. T[s] = m.vvNew[s]
          BY <1>8, <3>2, Zenon DEF Places
        <4> QED  BY <3>2, <4>1, Zenon
      <3> QED  BY <3>1, <3>2, Zenon
    <2> QED  BY <2>1, Zenon
  <1>10. AddrInv(p, {nId}, {})
    <2>1. IsFiniteSet({s \in NewSlots : T[s] = nId}) /\ c = Cardinality({s \in NewSlots : T[s] = nId})
      BY <1>6, <1>9, FS_EmptySet, Zenon
    <2>2. c <= ADDRMAN_NEW_BUCKETS_PER_ADDRESS /\ c \in Nat
      BY <1>6, AddrManAssumption
    <2> DEFINE E == {}
    <2>3. (IF c = 0 THEN E \cup {nId} ELSE E \ {nId}) = {nId} /\ AddrInv(m, E, E)
      BY <1>6, Zenon
    <2>4. \A s \in NewSlots : T[s] = nId => s = NewSlotOf(m.mapInfo[nId].addr, s[1])
      BY <1>9, Zenon
    <2>5. \A s \in NewSlots : T[s] = m.vvNew[s] \/ (T[s] \in {nId, NoId} /\ m.vvNew[s] \in {nId, NoId})
      BY <1>9, Zenon
    <2> HIDE DEF E
    <2>6. AddrInv(p, IF c = 0 THEN E \cup {nId} ELSE E \ {nId}, E)
      BY <1>7, <2>1, <2>2, <2>3, <2>4, <2>5, PlacedInv, ZenonT(60)
    <2>7. AddrInv(p, {nId}, E)
      BY <2>3, <2>6, Zenon
    <2> QED  BY <2>7, Zenon DEF E
  <1>11. PlacedOnly(m, nId, T, c, p)
    <2>1. c \in Int
      BY <1>6
    <2> QED  BY <1>1, <1>7, <2>1, PlacedFields, Zenon
  <1> HIDE DEF p
  <1>12. out = [p EXCEPT !.nNew = @ - 1]
    <2>1. c \in Int /\ m \in Managers /\ nId \in Ids(m)
      BY <1>1, <1>6
    <2>2. TakenOut(m, nId, T, c) = Uncounted(Placed(m, nId, T, c))
      <3> HIDE DEF T, out
      <3> QED  BY <1>7, <2>1, TakenOutAs, ZenonT(60)
    <2> QED  BY <2>2, Zenon DEF p, Uncounted
  <1>13. AddrInv(out, {nId}, {nId})
    <2>1. nId \in (Ids(p) \ TriedIds(p)) \ {}
      BY <1>11, Zenon DEF PlacedOnly, TriedIds
    <2>2. AddrInv([p EXCEPT !.nNew = @ - 1], {nId}, {} \cup {nId}) /\ {} \cup {nId} = {nId}
      BY <1>10, <2>1, UncountInv, Zenon
    <2> QED  BY <1>12, <2>2, Zenon
  <1>14. out.mapInfo = p.mapInfo /\ p.mapInfo[nId].addr = a /\ p.mapInfo[nId].nRefCount = 0
    <2>1. p \in Managers /\ p.mapInfo[nId].addr = a /\ p.mapInfo[nId].nRefCount = 0
      BY <1>6, <1>11, Zenon DEF PlacedOnly
    <2> HIDE DEF out
    <2> QED  BY <1>12, <2>1, Zenon DEF Managers
  <1>15. TriedSlot[a] \in TriedSlots
    BY <1>3, Zenon DEF TriedSlots
  <1> HIDE DEF out, a, r
  <1>16. AddrInv(free, {nId}, {nId}) /\ Evicted(out, {nId}, TriedSlot[a], free)
    BY <1>13, <1>15, EvictInv, Zenon
  <1> HIDE DEF free
  <1>17. nId \in Ids(free) /\ free.mapInfo[nId].addr = a
    <2>1. nId \in Ids(free) /\ Alike(free.mapInfo[nId], out.mapInfo[nId])
      BY <1>16, Zenon DEF Evicted
    <2> QED  BY <1>14, <2>1, Zenon DEF Alike
  <1>18. free.vvTried[TriedSlot[a]] = NoId
    <2>1. out.vvTried \in [TriedSlots -> Nat \cup {NoId}] /\ free.vvTried = [out.vvTried EXCEPT ![TriedSlot[a]] = NoId]
      BY <1>13, <1>16, ManagerFields, Zenon DEF AddrInv, Evicted
    <2> QED  BY <1>15, <2>1, Zenon
  <1>19. AddrInv(Marked(free, nId, [free.vvTried EXCEPT ![TriedSlot[a]] = nId], TRUE, free.nTried + 1),
                 {nId} \ {nId}, {nId} \ {nId})
    <2>1. nId \in {nId} /\ free.vvTried[TriedSlot[free.mapInfo[nId].addr]] = NoId
      BY <1>17, <1>18, Zenon
    <2>2. AddrInv(Marked(free, nId, [free.vvTried EXCEPT ![TriedSlot[free.mapInfo[nId].addr]] = nId], TRUE, free.nTried + 1),
                  {nId} \ {nId}, {nId} \ {nId})
      BY <1>16, <2>1, TryInv, Zenon
    <2> QED  BY <1>17, <2>2, Zenon
  <1>20. r = Marked(free, nId, [free.vvTried EXCEPT ![TriedSlot[a]] = nId], TRUE, free.nTried + 1)
    <2>1. free \in Managers /\ free.asserted /\ out.mapInfo[nId].nRefCount = 0
      BY <1>14, <1>16, Zenon DEF AddrInv
    <2> DEFINE P == out.mapInfo[nId].nRefCount = 0
    <2>2. P /\ nId \in Ids(free)
      BY <1>17, <2>1, Zenon
    <2>3. r = PutIn(free, nId, TriedSlot[a], P)
      BY <1>2, Zenon
    <2> HIDE DEF P
    <2>4. PutIn(free, nId, TriedSlot[a], P)
            = Marked(free, nId, [free.vvTried EXCEPT ![TriedSlot[a]] = nId], TRUE, free.nTried + 1)
      BY <1>15, <1>18, <2>1, <2>2, PutInAs, ZenonT(60)
    <2> QED  BY <2>3, <2>4, Zenon
  <1>21. AddrInv(r, {}, {})
    <2>1. {nId} \ {nId} = {}
      BY Zenon
    <2> QED  BY <1>19, <1>20, <2>1, Zenon
  <1> QED  BY <1>21, Zenon DEF r

\* Good_ keeps the invariant.
LEMMA GoodInv ==
  ASSUME NEW m, AddrInv(m, {}, {}), NEW a \in Addrs
  PROVE  AddrInv(Good_(m, a), {}, {})
  <1> DEFINE nId == Find(m, a)
             found == \E b \in NewBuckets : m.vvNew[NewSlotOf(a, b)] = nId
             r == Good_(m, a)
  <1>1. r = IF nId = NoId \/ (nId # NoId /\ (m.mapInfo[nId].fInTried \/ ~found)) THEN m ELSE MakeTried(m, nId)
    BY Zenon DEF Good_
  <1> HIDE DEF r, found
  <1>2. CASE nId # NoId /\ ~m.mapInfo[nId].fInTried /\ found
    <2>1. nId \in Ids(m)
      BY <1>2, Zenon DEF Find
    <2> HIDE DEF nId
    <2>2. AddrInv(MakeTried(m, nId), {}, {})
      BY <1>2, <2>1, MakeTriedInv, Zenon
    <2>3. AddrInv(r, {}, {})
      BY <1>1, <1>2, <2>2, Zenon
    <2> QED  BY <2>3, Zenon DEF r
  <1>3. CASE ~(nId # NoId /\ ~m.mapInfo[nId].fInTried /\ found)
    <2> HIDE DEF nId
    <2>1. r = m
      BY <1>1, <1>3, Zenon
    <2>2. AddrInv(r, {}, {})
      BY <2>1, Zenon
    <2> QED  BY <2>2, Zenon DEF r
  <1> HIDE DEF nId
  <1> QED  BY <1>2, <1>3, Zenon


-----------------------------------------------------------------------------
(* GetAddr_: the loop over vRandom. *)

\* Induction up to n, with a set for the predicate.
LEMMA Counting ==
  ASSUME NEW n \in Nat, NEW K, 0 \in K, \A k \in 0..(n - 1) : k \in K => k + 1 \in K
  PROVE  n \in K
  <1> DEFINE B == {k \in 0..n : k \notin K}
             R == {p \in Nat \X Nat : p[1] < p[2]}
  <1>1. SUFFICES ASSUME n \notin K PROVE FALSE
    BY Zenon
  <1>2. B \subseteq Nat /\ B # {}
    BY <1>1
  <1>3. IsWellFoundedOn(R, Nat)
    BY NatLessThanWellFounded, Zenon DEF OpToRel
  <1>4. \A x, y \in Nat : <<y, x>> \in R <=> y < x
    BY Zenon
  <1> HIDE DEF R, B
  <1>5. PICK m \in B : \A k \in B : <<k, m>> \notin R
    BY <1>2, <1>3, WFMin, Zenon
  <1> USE DEF B
  <1>6. m # 0 /\ m \in Nat /\ m - 1 \in 0..(n - 1)
    BY <1>5
  <1>7. m - 1 \in B
    BY <1>5, <1>6
  <1>8. <<m - 1, m>> \in R
    BY <1>4, <1>6
  <1> QED  BY <1>5, <1>7, <1>8, Zenon

\* The last of the numbers up to k.
LEMMA MaxUpTo ==
  ASSUME NEW k \in Nat, NEW s \in SUBSET (1..(k + 1)), k + 1 \in s
  PROVE  Max(s) = k + 1
  <1>1. \A y \in s : k + 1 >= y
    OBVIOUS
  <1>2. \A x \in s : (\A y \in s : x >= y) => x = k + 1
    OBVIOUS
  <1>3. \E x \in s : \A y \in s : x >= y
    BY <1>1, Zenon
  <1>4. Max(s) \in s /\ \A y \in s : Max(s) >= y
    BY <1>3, Zenon DEF Max
  <1> QED  BY <1>2, <1>4, Zenon

\* One round of the loop, on every manager that may be there.
Brought(nNodes, last, S, n) ==
    UNION {IF x.got >= nNodes THEN {x}
           ELSE {[man |-> SwapRandom(x.man, n, p[1]), got |-> x.got + p[2]] : p \in (n..last) \X {0, 1}} : x \in S}

\* What MapThenFoldSet makes of the loop.
IsBringFold(iter, base, nNodes, last, seq, S) ==
    iter = [s \in SUBSET S |->
        IF s = {} THEN base
        ELSE Brought(nNodes, last, iter[s \ {Max(s)}], seq[Max(s)])]

\* There is such a function.
LEMMA BringFoldExists ==
  ASSUME NEW base, NEW nNodes, NEW last, NEW seq, NEW m \in Nat
  PROVE  \E iter : IsBringFold(iter, base, nNodes, last, seq, 1..m)
  <1> DEFINE Op(w, x) == Brought(nNodes, last, w, seq[x])
  <1> HIDE DEF Op
  <1> DEFINE K == {k \in Nat : \E g : g = [s \in SUBSET (1..k) |->
                      IF s = {} THEN base ELSE Op(g[s \ {Max(s)}], Max(s))]}
  <1>1. 0 \in K
    <2> DEFINE g == [s \in SUBSET (1..0) |-> base]
    <2>1. \A s \in SUBSET (1..0) : s = {}
      OBVIOUS
    <2>2. g = [s \in SUBSET (1..0) |-> IF s = {} THEN base ELSE Op(g[s \ {Max(s)}], Max(s))]
      BY <2>1, Zenon
    <2> HIDE DEF g
    <2> QED  BY <2>2, Zenon
  <1>2. ASSUME NEW k \in 0..(m - 1), k \in K
        PROVE  k + 1 \in K
    <2>1. PICK g : g = [s \in SUBSET (1..k) |-> IF s = {} THEN base ELSE Op(g[s \ {Max(s)}], Max(s))]
      BY <1>2, Zenon
    <2> DEFINE f == [s \in SUBSET (1..(k + 1)) |-> IF k + 1 \in s THEN Op(g[s \ {k + 1}], k + 1) ELSE g[s]]
    <2>2. \A s \in SUBSET (1..k) : g[s] = IF s = {} THEN base ELSE Op(g[s \ {Max(s)}], Max(s))
      BY <2>1, Zenon
    <2>3. \A s \in SUBSET (1..(k + 1)) : s \in SUBSET (1..k) <=> k + 1 \notin s
      OBVIOUS
    <2>4. \A s \in SUBSET (1..k) : s \in SUBSET (1..(k + 1)) /\ f[s] = g[s]
      OBVIOUS
    <2>5. ASSUME NEW s \in SUBSET (1..(k + 1))
          PROVE  f[s] = IF s = {} THEN base ELSE Op(f[s \ {Max(s)}], Max(s))
      <3>1. CASE k + 1 \in s
        <4>1. Max(s) = k + 1
          BY <3>1, MaxUpTo
        <4>2. s \ {k + 1} \in SUBSET (1..k)
          OBVIOUS
        <4>3. f[s \ {k + 1}] = g[s \ {k + 1}]
          BY <2>4, <4>2, Zenon
        <4>4. f[s] = Op(g[s \ {k + 1}], k + 1)
          BY <3>1, Zenon
        <4> HIDE DEF f
        <4> QED  BY <3>1, <4>1, <4>3, <4>4, Zenon
      <3>2. CASE k + 1 \notin s
        <4>1. s \in SUBSET (1..k) /\ s \ {Max(s)} \in SUBSET (1..k)
          BY <2>3, <3>2, Zenon
        <4>2. f[s] = g[s] /\ f[s \ {Max(s)}] = g[s \ {Max(s)}]
          BY <2>4, <4>1, Zenon
        <4> HIDE DEF f
        <4> QED  BY <2>2, <4>1, <4>2, Zenon
      <3> QED  BY <3>1, <3>2, Zenon
    <2>6. f = [s \in SUBSET (1..(k + 1)) |-> f[s]]
      BY Zenon
    <2>7. f = [s \in SUBSET (1..(k + 1)) |-> IF s = {} THEN base ELSE Op(f[s \ {Max(s)}], Max(s))]
      <3> HIDE DEF f
      <3> QED  BY <2>5, <2>6, Zenon
    <2> HIDE DEF f
    <2>8. \E e : e = [s \in SUBSET (1..(k + 1)) |-> IF s = {} THEN base ELSE Op(e[s \ {Max(s)}], Max(s))]
      BY <2>7, Zenon
    <2>9. k + 1 \in Nat
      OBVIOUS
    <2> QED  BY <2>8, <2>9, Zenon
  <1>3. m \in K
    <2>1. \A k \in 0..(m - 1) : k \in K => k + 1 \in K
      BY <1>2, Zenon
    <2> HIDE DEF K
    <2> QED  BY <1>1, <2>1, Counting, Zenon
  <1>4. \E g : g = [s \in SUBSET (1..m) |-> IF s = {} THEN base ELSE Op(g[s \ {Max(s)}], Max(s))]
    BY <1>3, Zenon
  <1> QED  BY <1>4, Zenon DEF Op, IsBringFold

\* Its values, on the first numbers.
BringFoldStep(iter, base, nNodes, last, seq, m) ==
    /\ iter[{}] = base
    /\ \A k \in 0..(m - 1) : iter[1..(k + 1)] = Brought(nNodes, last, iter[1..k], seq[k + 1])

\* It has them.
LEMMA BringFoldSteps ==
  ASSUME NEW base, NEW nNodes, NEW last, NEW seq, NEW m \in Nat, NEW iter,
         IsBringFold(iter, base, nNodes, last, seq, 1..m)
  PROVE  BringFoldStep(iter, base, nNodes, last, seq, m)
  <1>2. \A s \in SUBSET (1..m) : iter[s] =
            IF s = {} THEN base
            ELSE Brought(nNodes, last, iter[s \ {Max(s)}], seq[Max(s)])
    BY Zenon DEF IsBringFold
  <1>3. iter[{}] = base
    BY <1>2, Zenon
  <1>4. ASSUME NEW k \in 0..(m - 1)
        PROVE  iter[1..(k + 1)] = Brought(nNodes, last, iter[1..k], seq[k + 1])
    <2>1. 1..(k + 1) \in SUBSET (1..m) /\ k + 1 \in 1..(k + 1) /\ k \in Nat
      OBVIOUS
    <2>2. Max(1..(k + 1)) = k + 1
      BY <2>1, MaxUpTo, Zenon
    <2>3. (1..(k + 1)) \ {k + 1} = 1..k
      BY <2>1
    <2>4. 1..(k + 1) # {}
      BY <2>1, Zenon
    <2> QED  BY <1>2, <2>1, <2>2, <2>3, <2>4, Zenon
  <1> QED  BY <1>3, <1>4, Zenon DEF BringFoldStep

\* Every manager that the loop may have made.
Fit(S, n) == \A x \in S : AddrInv(x.man, {}, {}) /\ Len(x.man.vRandom) = n

\* A round keeps the invariant.
LEMMA BringOne ==
  ASSUME NEW S, NEW last \in Nat, Fit(S, last), NEW n \in 1..last, NEW nNodes
  PROVE  Fit(Brought(nNodes, last, S, n), last)
  <1> SUFFICES ASSUME NEW y \in Brought(nNodes, last, S, n)
               PROVE  AddrInv(y.man, {}, {}) /\ Len(y.man.vRandom) = last
    BY Zenon DEF Fit
  <1>1. PICK x \in S : y \in IF x.got >= nNodes THEN {x}
                             ELSE {[man |-> SwapRandom(x.man, n, p[1]), got |-> x.got + p[2]] : p \in (n..last) \X {0, 1}}
    BY Zenon DEF Brought
  <1>2. AddrInv(x.man, {}, {}) /\ Len(x.man.vRandom) = last
    BY Zenon DEF Fit
  <1>3. CASE y = x
    BY <1>2, <1>3, Zenon
  <1>4. CASE y # x
    <2>1. PICK p \in (n..last) \X {0, 1} : y = [man |-> SwapRandom(x.man, n, p[1]), got |-> x.got + p[2]]
      BY <1>1, <1>4, Zenon
    <2>2. y.man = SwapRandom(x.man, n, p[1]) /\ p[1] \in n..last
      BY <2>1, Zenon
    <2>3. x.man.vRandom \in Seq(Nat)
      BY <1>2, ManagerFields, Zenon DEF AddrInv
    <2>4. n \in DOMAIN x.man.vRandom /\ p[1] \in DOMAIN x.man.vRandom
      BY <1>2, <2>2, <2>3
    <2>5. AddrInv(SwapRandom(x.man, n, p[1]), {}, {}) /\ Exchanged(x.man, n, p[1], SwapRandom(x.man, n, p[1]))
      BY <1>2, <2>4, SwapInv, Zenon
    <2> QED  BY <1>2, <2>2, <2>5, Zenon DEF Exchanged
  <1> QED  BY <1>3, <1>4, Zenon

\* GetAddr_ keeps the invariant.
LEMMA GetAddrInv ==
  ASSUME NEW m, AddrInv(m, {}, {}), NEW r \in GetAddr_(m)
  PROVE  AddrInv(r, {}, {})
  <1> DEFINE nNodes == (ADDRMAN_GETADDR_MAX_PCT * Len(m.vRandom)) \div 100
             last == Len(m.vRandom)
             base == {[man |-> m, got |-> 0]}
             seq == [n \in DOMAIN m.vRandom |-> n]
             iter == CHOOSE f : IsBringFold(f, base, nNodes, last, seq, DOMAIN seq)
  <1>1. GetAddr_(m) = {x.man : x \in iter[DOMAIN seq]}
    BY Zenon DEF GetAddr_, InOrder, MapThenFoldSet, IsBringFold, Brought
  <1>2. last \in Nat /\ DOMAIN m.vRandom = 1..last
    <2>1. m.vRandom \in Seq(Nat)
      BY ManagerFields, Zenon DEF AddrInv
    <2> QED  BY <2>1
  <1>3. DOMAIN seq = 1..last /\ \A k \in 1..last : seq[k] = k
    BY <1>2, Zenon
  <1>4. Fit(base, last)
    <2>1. ASSUME NEW x \in base
          PROVE  AddrInv(x.man, {}, {}) /\ Len(x.man.vRandom) = last
      <3>1. x = [man |-> m, got |-> 0]
        BY Zenon
      <3>2. x.man = m
        BY <3>1
      <3> HIDE DEF base
      <3> QED  BY <3>2, Zenon
    <2> HIDE DEF base, last
    <2> QED  BY <2>1, Zenon DEF Fit
  <1> HIDE DEF nNodes, base, seq, last
  <1>5. IsBringFold(iter, base, nNodes, last, seq, 1..last)
    <2>1. \E f : IsBringFold(f, base, nNodes, last, seq, 1..last)
      BY <1>2, BringFoldExists, Zenon
    <2>2. \E f : IsBringFold(f, base, nNodes, last, seq, DOMAIN seq)
      BY <1>3, <2>1, Zenon
    <2>3. IsBringFold(iter, base, nNodes, last, seq, DOMAIN seq)
      BY <2>2, Zenon
    <2> HIDE DEF iter
    <2> QED  BY <1>3, <2>3, Zenon
  <1> HIDE DEF iter
  <1>6. BringFoldStep(iter, base, nNodes, last, seq, last)
    BY <1>2, <1>5, BringFoldSteps, Zenon
  <1> DEFINE K == {k \in Nat : Fit(iter[1..k], last)}
  <1>7. 0 \in K
    <2>1. 1..0 = {} /\ 0 \in Nat
      OBVIOUS
    <2>2. iter[1..0] = base
      BY <1>6, <2>1, Zenon DEF BringFoldStep
    <2> QED  BY <1>4, <2>1, <2>2, Zenon
  <1>8. ASSUME NEW k \in 0..(last - 1), k \in K
        PROVE  k + 1 \in K
    <2>1. k + 1 \in Nat /\ k + 1 \in 1..last
      BY <1>2
    <2>2. iter[1..(k + 1)] = Brought(nNodes, last, iter[1..k], k + 1)
      <3>1. iter[1..(k + 1)] = Brought(nNodes, last, iter[1..k], seq[k + 1])
        BY <1>6, Zenon DEF BringFoldStep
      <3> QED  BY <1>3, <2>1, <3>1, Zenon
    <2>3. Fit(iter[1..k], last)
      BY <1>8, Zenon
    <2>4. Fit(Brought(nNodes, last, iter[1..k], k + 1), last)
      BY <1>2, <2>1, <2>3, BringOne, Zenon
    <2> QED  BY <2>1, <2>2, <2>4, Zenon
  <1>9. last \in K
    <2>1. \A k \in 0..(last - 1) : k \in K => k + 1 \in K
      BY <1>8, Zenon
    <2> HIDE DEF K
    <2> QED  BY <1>2, <1>7, <2>1, Counting, Zenon
  <1>10. Fit(iter[DOMAIN seq], last)
    BY <1>3, <1>9, Zenon
  <1> QED  BY <1>1, <1>10, Zenon DEF Fit


-----------------------------------------------------------------------------
(* Reload: the entries are numbered again. *)

\* The first n numbers.
LEMMA UpTo ==
  ASSUME NEW n \in Nat
  PROVE  IsFiniteSet(0..(n - 1)) /\ Cardinality(0..(n - 1)) = n
  <1> DEFINE a == 0
             b == n - 1
  <1>1. a \in Int /\ b \in Int
    OBVIOUS
  <1> HIDE DEF a, b
  <1>2. IsFiniteSet(a..b) /\ Cardinality(a..b) = IF a > b THEN 0 ELSE b - a + 1
    BY <1>1, FS_Interval, Zenon
  <1>3. (IF a > b THEN 0 ELSE b - a + 1) = n
    BY DEF a, b
  <1>4. IsFiniteSet(a..b) /\ Cardinality(a..b) = n
    BY <1>2, <1>3, Zenon
  <1> QED  BY <1>4, Zenon DEF a, b

\* The numbers below an element.
LEMMA BeforeBounds ==
  ASSUME NEW S \in SUBSET Nat, IsFiniteSet(S), NEW i \in S
  PROVE  /\ Before(S, i) \in Nat /\ Before(S, i) < Cardinality(S) /\ Cardinality(S) \in Nat
         /\ \A j \in S : j < i => Before(S, j) < Before(S, i)
  <1> DEFINE B(x) == {k \in S : k < x}
  <1>0. Cardinality(S) \in Nat
    BY FS_CardinalityType, Zenon
  <1>1. \A x : IsFiniteSet(B(x)) /\ Cardinality(B(x)) \in Nat /\ Before(S, x) = Cardinality(B(x))
    <2> TAKE x
    <2>1. B(x) \in SUBSET S
      BY Zenon
    <2>2. Before(S, x) = Cardinality(B(x))
      BY Zenon DEF Before
    <2> HIDE DEF B
    <2>3. IsFiniteSet(B(x))
      BY <2>1, FS_Subset, Zenon
    <2> QED  BY <2>2, <2>3, FS_CardinalityType, Zenon
  <1>2. B(i) \in SUBSET S /\ i \notin B(i)
    <2>1. ~(i < i)
      OBVIOUS
    <2> QED  BY <2>1, Zenon
  <1>3. ASSUME NEW j \in S, j < i
        PROVE  B(j) \in SUBSET B(i) /\ j \in B(i) /\ j \notin B(j)
    <2>1. i \in Nat /\ j \in Nat /\ \A k \in S : k \in Nat
      BY Zenon
    <2>2. ~(j < j)
      BY <2>1
    <2>3. ASSUME NEW k \in S, k < j
          PROVE  k < i
      <3>1. k \in Nat
        BY <2>1, Zenon
      <3> QED  BY <1>3, <2>1, <2>3, <3>1
    <2> QED  BY <1>3, <2>2, <2>3, Zenon
  <1> HIDE DEF B
  <1>4. Cardinality(B(i)) <= Cardinality(S) /\ Cardinality(B(i)) # Cardinality(S)
    <2>1. Cardinality(B(i)) <= Cardinality(S) /\ (Cardinality(S) = Cardinality(B(i)) => S = B(i))
      BY <1>2, FS_Subset, Zenon
    <2> QED  BY <1>2, <2>1, Zenon
  <1>5. ASSUME NEW j \in S, j < i
        PROVE  Before(S, j) < Before(S, i)
    <2>1. Cardinality(B(j)) <= Cardinality(B(i)) /\ (Cardinality(B(i)) = Cardinality(B(j)) => B(i) = B(j))
      BY <1>1, <1>3, <1>5, FS_Subset, Zenon
    <2>2. Cardinality(B(i)) # Cardinality(B(j))
      BY <1>3, <1>5, <2>1, Zenon
    <2>3. Cardinality(B(j)) \in Nat /\ Cardinality(B(i)) \in Nat
      BY <1>1, Zenon
    <2>4. Cardinality(B(j)) < Cardinality(B(i))
      BY <2>1, <2>2, <2>3
    <2>5. Before(S, j) = Cardinality(B(j)) /\ Before(S, i) = Cardinality(B(i))
      BY <1>1, Zenon
    <2> QED  BY <2>4, <2>5, Zenon
  <1>6. Cardinality(B(i)) \in Nat /\ Cardinality(B(i)) < Cardinality(S)
    <2>1. Cardinality(B(i)) \in Nat
      BY <1>1, Zenon
    <2> QED  BY <1>0, <1>4, <2>1
  <1> QED  BY <1>0, <1>1, <1>5, <1>6, Zenon

\* Different elements have different numbers below them.
LEMMA BeforeOnce ==
  ASSUME NEW S \in SUBSET Nat, IsFiniteSet(S), NEW i \in S, NEW j \in S, Before(S, i) = Before(S, j)
  PROVE  i = j
  <1>1. Before(S, i) \in Nat /\ (j < i => Before(S, j) < Before(S, i)) /\ (i < j => Before(S, i) < Before(S, j))
    BY BeforeBounds, Zenon
  <1>2. i \in Nat /\ j \in Nat
    BY Zenon
  <1>3. ~(j < i) /\ ~(i < j)
    BY <1>1
  <1> QED  BY <1>2, <1>3

\* The entries that peers.dat gets, and how they are numbered there.
Renumbered(m) ==
    /\ Cardinality(NewIds(m)) \in Nat /\ Cardinality(TriedIds(m)) \in Nat
    /\ m.nNew = Cardinality(NewIds(m)) /\ m.nTried = Cardinality(TriedIds(m))
    /\ \A i \in Ids(m) : /\ Number(m, i) \in 0..(Cardinality(NewIds(m)) + Cardinality(TriedIds(m)) - 1)
                         /\ Numbered(m, Number(m, i)) = i
    /\ \A n \in 0..(Cardinality(NewIds(m)) + Cardinality(TriedIds(m)) - 1) :
          /\ Numbered(m, n) \in Ids(m) /\ Number(m, Numbered(m, n)) = n
          /\ m.mapInfo[Numbered(m, n)].fInTried <=> n >= Cardinality(NewIds(m))

\* Every entry has a number of its own, and none is left out.
LEMMA NumberBijection ==
  ASSUME NEW m, AddrInv(m, {}, {})
  PROVE  Renumbered(m)
  <1> DEFINE N == NewIds(m)
             T == TriedIds(m)
             cn == Cardinality(N)
             ct == Cardinality(T)
             ids == 0..(cn + ct - 1)
             f == [i \in Ids(m) |-> Number(m, i)]
  <1>1. m \in Managers /\ InHand(m, {}) /\ Counted(m, {})
    BY Zenon DEF AddrInv
  <1>2. Ids(m) \in SUBSET Nat /\ IsFiniteSet(Ids(m))
    BY <1>1, ManagerFields, Zenon DEF Counted
  <1>3. \A i \in Ids(m) : m.mapInfo[i].fInTried \in BOOLEAN
    BY <1>1, InfoFields, Zenon
  <1>4. \A i \in Ids(m) : i \in N <=> i \notin T
    <2> TAKE i \in Ids(m)
    <2>1. /\ m.mapInfo[i].fInTried => m.mapInfo[i].nRefCount = 0
          /\ ~(~m.mapInfo[i].fInTried /\ m.mapInfo[i].nRefCount = 0)
      BY <1>1, Zenon DEF InHand
    <2> QED  BY <2>1, Zenon DEF NewIds, TriedIds
  <1>5. N \subseteq Ids(m) /\ T \subseteq Ids(m)
    BY Zenon DEF NewIds, TriedIds
  <1>6. N \cap T = {} /\ N \cup T = Ids(m) /\ (Ids(m) \ T) \ {} = N
    BY <1>4, <1>5, Zenon
  <1>7. N \in SUBSET Nat /\ T \in SUBSET Nat /\ IsFiniteSet(N) /\ IsFiniteSet(T)
    BY <1>2, <1>5, FS_Subset, Zenon
  <1>8. cn \in Nat /\ ct \in Nat
    BY <1>7, FS_CardinalityType, Zenon
  <1>9. m.nNew = cn /\ m.nTried = ct
    BY <1>1, <1>6, Zenon DEF Counted
  <1>10. Cardinality(Ids(m)) = cn + ct
    <2>1. Cardinality(N \cup T) = cn + ct - Cardinality(N \cap T)
      BY <1>7, FS_Union, Zenon
    <2>2. Cardinality(N \cap T) = 0
      BY <1>6, FS_EmptySet, Zenon
    <2>3. Cardinality(Ids(m)) = cn + ct - 0
      BY <1>6, <2>1, <2>2, Zenon
    <2> QED  BY <1>8, <2>3
  <1>11. /\ \A i \in N : Number(m, i) = Before(N, i)
         /\ \A i \in T : Number(m, i) = cn + Before(T, i)
    <2>1. \A i \in T : i \notin N
      BY <1>4, <1>5, Zenon
    <2> QED  BY <2>1, Zenon DEF Number
  <1> HIDE DEF N, T, cn, ct
  <1>12. /\ \A i \in N : Before(N, i) \in Nat /\ Before(N, i) < cn
         /\ \A i \in T : Before(T, i) \in Nat /\ Before(T, i) < ct
    BY <1>7, BeforeBounds, Zenon DEF cn, ct
  <1>13. \A i \in N : Number(m, i) \in ids /\ ~(Number(m, i) >= cn) /\ Number(m, i) \in Nat
    <2> TAKE i \in N
    <2>1. Before(N, i) \in Nat /\ Before(N, i) < cn /\ Number(m, i) = Before(N, i)
      BY <1>11, <1>12, Zenon
    <2> QED  BY <1>8, <2>1
  <1>14. \A i \in T : Number(m, i) \in ids /\ Number(m, i) >= cn /\ Number(m, i) \in Nat
    <2> TAKE i \in T
    <2>1. Before(T, i) \in Nat /\ Before(T, i) < ct /\ Number(m, i) = cn + Before(T, i)
      BY <1>11, <1>12, Zenon
    <2> QED  BY <1>8, <2>1
  <1>15. ASSUME NEW i \in Ids(m), NEW j \in Ids(m), Number(m, i) = Number(m, j)
         PROVE  i = j
    <2>1. CASE i \in N /\ j \in N
      <3>1. Before(N, i) = Before(N, j)
        BY <1>11, <1>15, <2>1, Zenon
      <3> QED  BY <1>7, <2>1, <3>1, BeforeOnce, Zenon
    <2>2. CASE i \in T /\ j \in T
      <3>1. cn + Before(T, i) = cn + Before(T, j)
        BY <1>11, <1>15, <2>2, Zenon
      <3>2. Before(T, i) \in Nat /\ Before(T, j) \in Nat
        BY <1>12, <2>2, Zenon
      <3>3. Before(T, i) = Before(T, j)
        BY <1>8, <3>1, <3>2
      <3> QED  BY <1>7, <2>2, <3>3, BeforeOnce, Zenon
    <2>3. CASE ~(i \in N /\ j \in N) /\ ~(i \in T /\ j \in T)
      BY <1>6, <1>13, <1>14, <1>15, <2>3, Zenon
    <2> QED  BY <2>1, <2>2, <2>3, Zenon
  <1>16. \A i \in Ids(m) : Number(m, i) \in ids
    BY <1>6, <1>13, <1>14, Zenon
  <1>17. f \in Injection(Ids(m), ids)
    <2>1. f \in [Ids(m) -> ids]
      <3> HIDE DEF ids
      <3> QED  BY <1>16, Zenon
    <2>2. IsInjective(f)
      BY <1>15, Zenon DEF IsInjective
    <2> HIDE DEF f, ids
    <2> QED  BY <2>1, <2>2, Zenon DEF Injection
  <1>18. IsFiniteSet(ids) /\ Cardinality(ids) = cn + ct
    <2> DEFINE n == cn + ct
    <2>1. n \in Nat
      BY <1>8
    <2> HIDE DEF n
    <2>2. IsFiniteSet(0..(n - 1)) /\ Cardinality(0..(n - 1)) = n
      BY <2>1, UpTo, Zenon
    <2>3. ids = 0..(n - 1)
      <3>1. cn + ct - 1 = n - 1
        BY <1>8 DEF n
      <3> QED  BY <3>1, Zenon
    <2> HIDE DEF ids
    <2> QED  BY <2>2, <2>3, Zenon DEF n
  <1>19. f \in Surjection(Ids(m), ids)
    <2> HIDE DEF f, ids
    <2> QED  BY <1>10, <1>17, <1>18, FS_Injection, Zenon
  <1>20. \A n \in ids : \E i \in Ids(m) : Number(m, i) = n
    <2>1. \A n \in ids : \E i \in Ids(m) : f[i] = n
      <3> HIDE DEF f, ids
      <3> QED  BY <1>19, Zenon DEF Surjection
    <2> HIDE DEF ids
    <2> QED  BY <2>1, Zenon
  <1> HIDE DEF f
  <1>21. \A n \in ids : Numbered(m, n) \in Ids(m) /\ Number(m, Numbered(m, n)) = n
    <2> TAKE n \in ids
    <2>1. Numbered(m, n) = CHOOSE i \in Ids(m) : Number(m, i) = n
      BY <1>6, Zenon DEF Numbered, N, T
    <2> HIDE DEF ids
    <2>2. \E i \in Ids(m) : Number(m, i) = n
      BY <1>20, Zenon
    <2> QED  BY <2>1, <2>2, Zenon
  <1>22. \A i \in Ids(m) : Numbered(m, Number(m, i)) = i
    <2> HIDE DEF ids
    <2> QED  BY <1>15, <1>16, <1>21, Zenon
  <1>23. \A n \in ids : m.mapInfo[Numbered(m, n)].fInTried <=> n >= cn
    <2> TAKE n \in ids
    <2>1. Numbered(m, n) \in Ids(m) /\ Number(m, Numbered(m, n)) = n
      BY <1>21, Zenon
    <2>2. Numbered(m, n) \in T <=> n >= cn
      BY <1>6, <1>13, <1>14, <2>1, Zenon
    <2>3. Numbered(m, n) \in T <=> m.mapInfo[Numbered(m, n)].fInTried
      BY <2>1, Zenon DEF T, TriedIds
    <2> QED  BY <2>2, <2>3, Zenon
  <1> QED  BY <1>8, <1>9, <1>16, <1>21, <1>22, <1>23, Zenon DEF Renumbered, N, T, cn, ct


\* What Reload makes of m: the same entries under other numbers.
Reloaded(m, r) ==
    /\ r \in Managers /\ r.asserted = m.asserted /\ r.nNew = m.nNew /\ r.nTried = m.nTried
    /\ Ids(r) = 0..(m.nNew + m.nTried - 1) /\ r.nIdCount = m.nNew + m.nTried
    /\ r.vRandom = [k \in 1..(m.nNew + m.nTried) |-> k - 1]
    /\ \A n \in Ids(r) :
          /\ r.mapInfo[n].addr = m.mapInfo[Numbered(m, n)].addr
          /\ r.mapInfo[n].nRefCount = m.mapInfo[Numbered(m, n)].nRefCount
          /\ r.mapInfo[n].fInTried <=> n >= m.nNew
          /\ r.mapInfo[n].nRandomPos = n + 1
    /\ \A a \in Addrs :
          /\ r.mapAddr[a] # NoId => r.mapAddr[a] \in Ids(r) /\ m.mapInfo[Numbered(m, r.mapAddr[a])].addr = a
          /\ \A n \in Ids(r) : m.mapInfo[Numbered(m, n)].addr = a => r.mapAddr[a] # NoId
    /\ \A s \in NewSlots : r.vvNew[s] = IF m.vvNew[s] = NoId THEN NoId ELSE Number(m, m.vvNew[s])
    /\ \A t \in TriedSlots :
          /\ r.vvTried[t] # NoId => /\ r.vvTried[t] \in Ids(r) /\ r.vvTried[t] >= m.nNew
                                    /\ TriedSlot[m.mapInfo[Numbered(m, r.vvTried[t])].addr] = t
          /\ \A n \in Ids(r) : n >= m.nNew /\ TriedSlot[m.mapInfo[Numbered(m, n)].addr] = t => r.vvTried[t] # NoId

\* The fields of Reload.
LEMMA ReloadFields ==
  ASSUME NEW m, AddrInv(m, {}, {})
  PROVE  Reloaded(m, Reload(m))
  <1> DEFINE cn == Cardinality(NewIds(m))
             ct == Cardinality(TriedIds(m))
             ids == 0..(cn + ct - 1)
             info(n) == m.mapInfo[Numbered(m, n)]
             one(n) == [addr |-> info(n).addr, source |-> info(n).source,
                        nRefCount |-> Cardinality({s \in NewSlots : m.vvNew[s] = Numbered(m, n)}),
                        fInTried |-> n >= cn, nRandomPos |-> n + 1]
             infos == [n \in ids |-> one(n)]
             addresses == [a \in Addrs |-> IF \E n \in ids : info(n).addr = a
                                           THEN CHOOSE n \in ids : info(n).addr = a ELSE NoId]
             random == [k \in 1..(cn + ct) |-> k - 1]
             new == [s \in NewSlots |-> IF m.vvNew[s] = NoId THEN NoId ELSE Number(m, m.vvNew[s])]
             tried == [t \in TriedSlots |->
                         IF \E n \in ids : n >= cn /\ TriedSlot[info(n).addr] = t
                         THEN CHOOSE n \in ids : n >= cn /\ TriedSlot[info(n).addr] = t ELSE NoId]
             ok == m.asserted /\ cn = m.nNew /\ ct = m.nTried
             r == Reload(m)
  <1>1. r = [mapInfo |-> infos, mapAddr |-> addresses, vRandom |-> random, vvNew |-> new, vvTried |-> tried,
             nNew |-> m.nNew, nTried |-> m.nTried, nIdCount |-> cn + ct, asserted |-> ok]
    BY Zenon DEF Reload
  <1>2. m \in Managers /\ m.asserted /\ NewExact(m) /\ Renumbered(m)
    BY NumberBijection, Zenon DEF AddrInv
  <1>3. cn \in Nat /\ ct \in Nat /\ m.nNew = cn /\ m.nTried = ct
    BY <1>2, Zenon DEF Renumbered
  <1>4. /\ \A n \in ids : Numbered(m, n) \in Ids(m)
        /\ \A i \in Ids(m) : Number(m, i) \in ids
    BY <1>2, Zenon DEF Renumbered
  <1>5. ids \subseteq Nat /\ cn + ct \in Nat
    BY <1>3
  <1>6. ok = TRUE /\ ok \in BOOLEAN
    BY <1>2, <1>3, Zenon
  <1>7. random \in Seq(Nat)
    BY <1>3
  <1>8. \A n \in ids : Cardinality({s \in NewSlots : m.vvNew[s] = Numbered(m, n)}) = info(n).nRefCount
    <2> TAKE n \in ids
    <2>1. Numbered(m, n) \in Ids(m)
      BY <1>4, Zenon
    <2>2. info(n).nRefCount = Cardinality(Places(m, Numbered(m, n)))
      BY <1>2, <2>1, Zenon DEF NewExact
    <2> HIDE DEF ids
    <2> QED  BY <2>2, Zenon DEF Places
  <1>9. ASSUME NEW n \in ids
        PROVE  /\ one(n) \in Info /\ one(n).addr = info(n).addr /\ one(n).nRefCount = info(n).nRefCount
               /\ one(n).fInTried <=> n >= cn
               /\ one(n).nRandomPos = n + 1
    <2> DEFINE b == n >= cn
               c == Cardinality({s \in NewSlots : m.vvNew[s] = Numbered(m, n)})
    <2>1. b \in BOOLEAN /\ n + 1 \in Int
      BY <1>3
    <2>2. info(n).addr \in Addrs /\ info(n).source \in Sources /\ c \in Int /\ c = info(n).nRefCount
      <3>1. Numbered(m, n) \in Ids(m) /\ c = info(n).nRefCount
        BY <1>4, <1>8, Zenon
      <3> HIDE DEF c
      <3> QED  BY <1>2, <3>1, InfoFields, Zenon
    <2>3. one(n) = [addr |-> info(n).addr, source |-> info(n).source, nRefCount |-> c, fInTried |-> b,
                    nRandomPos |-> n + 1]
      BY Zenon
    <2> HIDE DEF one, info, b, c, ids
    <2>4. one(n) \in Info
      BY <2>1, <2>2, <2>3 DEF Info
    <2>5. one(n).addr = info(n).addr /\ one(n).nRefCount = c /\ one(n).nRandomPos = n + 1
      BY <2>3
    <2>6. one(n).fInTried = b
      BY <2>3
    <2> QED  BY <2>2, <2>4, <2>5, <2>6, Zenon DEF b
  <1> HIDE DEF one
  <1>10. infos \in Infos /\ DOMAIN infos = ids /\ \A n \in ids : infos[n] = one(n)
    <2>1. ids \in SUBSET Nat
      BY <1>5, Zenon
    <2> HIDE DEF ids
    <2>2. infos \in [ids -> Info]
      BY <1>9, Zenon
    <2> QED  BY <2>1, <2>2, Zenon DEF Infos
  <1>0. NoId \notin Nat
    BY DEF NoId
  <1>11. /\ addresses \in AddrMap
         /\ \A a \in Addrs : /\ addresses[a] # NoId => addresses[a] \in ids /\ info(addresses[a]).addr = a
                             /\ \A n \in ids : info(n).addr = a => addresses[a] # NoId
    <2> HIDE DEF ids, info
    <2>1. ASSUME NEW a \in Addrs
          PROVE  /\ addresses[a] # NoId => addresses[a] \in ids /\ info(addresses[a]).addr = a
                 /\ \A n \in ids : info(n).addr = a => addresses[a] # NoId
                 /\ addresses[a] \in Nat \cup {NoId}
      <3>1. CASE \E n \in ids : info(n).addr = a
        <4> DEFINE c == CHOOSE n \in ids : info(n).addr = a
        <4>1. addresses[a] = c
          BY <3>1, Zenon
        <4>2. c \in ids /\ info(c).addr = a
          BY <3>1, Zenon
        <4> HIDE DEF c, addresses
        <4>3. c \in Nat /\ c # NoId
          BY <1>0, <1>5, <4>2, Zenon
        <4> QED  BY <4>1, <4>2, <4>3, Zenon
      <3>2. CASE ~\E n \in ids : info(n).addr = a
        <4>1. addresses[a] = NoId
          BY <3>2, Zenon
        <4> HIDE DEF addresses
        <4> QED  BY <3>2, <4>1, Zenon
      <3> QED  BY <3>1, <3>2, Zenon
    <2>2. addresses = [a \in Addrs |-> addresses[a]]
      BY Zenon
    <2> HIDE DEF addresses
    <2>3. addresses \in AddrMap
      BY <2>1, <2>2, Zenon DEF AddrMap
    <2> QED  BY <2>1, <2>3, Zenon
  <1>12. new \in NewTable
    <2> HIDE DEF ids
    <2>1. \A s \in NewSlots : new[s] \in Nat \cup {NoId}
      <3> TAKE s \in NewSlots
      <3>1. CASE m.vvNew[s] = NoId
        BY <3>1, Zenon
      <3>2. CASE m.vvNew[s] # NoId
        <4>1. m.vvNew[s] \in Ids(m)
          BY <1>2, <3>2, Zenon DEF NewExact
        <4>2. Number(m, m.vvNew[s]) \in Nat
          BY <1>4, <1>5, <4>1, Zenon
        <4> QED  BY <3>2, <4>2, Zenon
      <3> QED  BY <3>1, <3>2, Zenon
    <2>2. new = [s \in NewSlots |-> new[s]]
      BY Zenon
    <2> HIDE DEF new
    <2> QED  BY <2>1, <2>2, Zenon DEF NewTable
  <1>13. /\ tried \in TriedTable
         /\ \A t \in TriedSlots :
               /\ tried[t] # NoId => tried[t] \in ids /\ tried[t] >= cn /\ TriedSlot[info(tried[t]).addr] = t
               /\ \A n \in ids : n >= cn /\ TriedSlot[info(n).addr] = t => tried[t] # NoId
    <2> HIDE DEF ids, info, cn
    <2>1. ASSUME NEW t \in TriedSlots
          PROVE  /\ tried[t] # NoId => tried[t] \in ids /\ tried[t] >= cn /\ TriedSlot[info(tried[t]).addr] = t
                 /\ \A n \in ids : n >= cn /\ TriedSlot[info(n).addr] = t => tried[t] # NoId
                 /\ tried[t] \in Nat \cup {NoId}
      <3>1. CASE \E n \in ids : n >= cn /\ TriedSlot[info(n).addr] = t
        <4> DEFINE c == CHOOSE n \in ids : n >= cn /\ TriedSlot[info(n).addr] = t
        <4>1. tried[t] = c
          BY <3>1, Zenon
        <4>2. c \in ids /\ c >= cn /\ TriedSlot[info(c).addr] = t
          BY <3>1, Zenon
        <4> HIDE DEF c, tried
        <4>3. c \in Nat /\ c # NoId
          BY <1>0, <1>5, <4>2, Zenon
        <4> QED  BY <4>1, <4>2, <4>3, Zenon
      <3>2. CASE ~\E n \in ids : n >= cn /\ TriedSlot[info(n).addr] = t
        <4>1. tried[t] = NoId
          BY <3>2, Zenon
        <4> HIDE DEF tried
        <4> QED  BY <3>2, <4>1, Zenon
      <3> QED  BY <3>1, <3>2, Zenon
    <2>2. tried = [t \in TriedSlots |-> tried[t]]
      BY Zenon
    <2> HIDE DEF tried
    <2>3. tried \in TriedTable
      BY <2>1, <2>2, Zenon DEF TriedTable
    <2> QED  BY <2>1, <2>3, Zenon
  <1>14. m.nNew \in Int /\ m.nTried \in Int
    BY <1>2, ManagerFields, Zenon
  <1>15. \A s \in NewSlots : new[s] = IF m.vvNew[s] = NoId THEN NoId ELSE Number(m, m.vvNew[s])
    BY Zenon
  <1> HIDE DEF r, infos, addresses, random, new, tried, ok
  <1>16. /\ r.mapInfo = infos /\ r.mapAddr = addresses /\ r.vRandom = random /\ r.vvNew = new /\ r.vvTried = tried
         /\ r.nNew = m.nNew /\ r.nTried = m.nTried /\ r.nIdCount = cn + ct /\ r.asserted = ok
    BY <1>1, Zenon
  <1>17. r \in Managers
    <2> HIDE DEF cn, ct
    <2> QED  BY <1>1, <1>5, <1>6, <1>7, <1>10, <1>11, <1>12, <1>13, <1>14, Zenon DEF Managers
  <1>18. Ids(r) = ids
    BY <1>10, <1>16, Zenon DEF Ids
  <1>19. r.asserted = m.asserted
    <2>1. m.asserted = TRUE
      BY <1>2, ManagerFields, Zenon
    <2> QED  BY <1>6, <1>16, <2>1, Zenon
  <1>20. ASSUME NEW n \in Ids(r)
         PROVE  /\ r.mapInfo[n].addr = info(n).addr /\ r.mapInfo[n].nRefCount = info(n).nRefCount
                /\ r.mapInfo[n].fInTried <=> n >= m.nNew
                /\ r.mapInfo[n].nRandomPos = n + 1
    <2> HIDE DEF ids, info, cn
    <2>1. n \in ids /\ r.mapInfo[n] = one(n)
      BY <1>10, <1>16, <1>18, Zenon
    <2> QED  BY <1>3, <1>9, <2>1, Zenon
  <1>21. /\ Ids(r) = 0..(m.nNew + m.nTried - 1) /\ r.nIdCount = m.nNew + m.nTried
         /\ r.vRandom = [k \in 1..(m.nNew + m.nTried) |-> k - 1]
    <2> HIDE DEF cn, ct
    <2> QED  BY <1>3, <1>16, <1>18, Zenon DEF random
  <1>22. \A a \in Addrs :
            /\ r.mapAddr[a] # NoId => r.mapAddr[a] \in Ids(r) /\ info(r.mapAddr[a]).addr = a
            /\ \A n \in Ids(r) : info(n).addr = a => r.mapAddr[a] # NoId
    <2> HIDE DEF ids, info
    <2> QED  BY <1>11, <1>16, <1>18, Zenon
  <1>23. \A s \in NewSlots : r.vvNew[s] = IF m.vvNew[s] = NoId THEN NoId ELSE Number(m, m.vvNew[s])
    BY <1>15, <1>16, Zenon
  <1>24. \A t \in TriedSlots :
            /\ r.vvTried[t] # NoId => /\ r.vvTried[t] \in Ids(r) /\ r.vvTried[t] >= m.nNew
                                      /\ TriedSlot[info(r.vvTried[t]).addr] = t
            /\ \A n \in Ids(r) : n >= m.nNew /\ TriedSlot[info(n).addr] = t => r.vvTried[t] # NoId
    <2> HIDE DEF ids, info, cn
    <2>1. r.vvTried = tried /\ m.nNew = cn
      BY <1>3, <1>16, Zenon
    <2> QED  BY <1>13, <1>18, <2>1, Zenon
  <1>25. Reloaded(m, r)
    <2> HIDE DEF ids, cn, ct
    <2> QED  BY <1>16, <1>17, <1>19, <1>20, <1>21, <1>22, <1>23, <1>24, Zenon DEF Reloaded
  <1> QED  BY <1>25, Zenon DEF r


\* Reload keeps the invariant.
LEMMA ReloadInv ==
  ASSUME NEW m, AddrInv(m, {}, {})
  PROVE  AddrInv(Reload(m), {}, {})
  <1> DEFINE r == Reload(m)
             L == m.nNew + m.nTried
             id(n) == Numbered(m, n)
  <1>1. m \in Managers /\ m.asserted /\ AddressesExact(m) /\ NewExact(m) /\ TriedExact(m) /\ InHand(m, {})
    BY Zenon DEF AddrInv
  <1>2. Reloaded(m, r)
    BY ReloadFields, Zenon
  <1> HIDE DEF r
  <1>3. Renumbered(m)
    BY NumberBijection, Zenon
  <1>4. m.nNew \in Nat /\ m.nTried \in Nat
    BY <1>3, Zenon DEF Renumbered
  <1>5. r \in Managers /\ r.asserted /\ Ids(r) = 0..(m.nNew + m.nTried - 1)
    BY <1>1, <1>2, Zenon DEF Reloaded
  <1>6. \A n \in Ids(r) : id(n) \in Ids(m) /\ Number(m, id(n)) = n /\ (m.mapInfo[id(n)].fInTried <=> n >= m.nNew)
    <2>1. m.nNew = Cardinality(NewIds(m)) /\ m.nTried = Cardinality(TriedIds(m))
      BY <1>3, Zenon DEF Renumbered
    <2>2. \A n \in 0..(m.nNew + m.nTried - 1) :
             id(n) \in Ids(m) /\ Number(m, id(n)) = n /\ (m.mapInfo[id(n)].fInTried <=> n >= m.nNew)
      BY <1>3, <2>1, Zenon DEF Renumbered
    <2> QED  BY <1>5, <2>2, Zenon
  <1>7. \A i \in Ids(m) : Number(m, i) \in Ids(r) /\ id(Number(m, i)) = i
    <2>1. m.nNew = Cardinality(NewIds(m)) /\ m.nTried = Cardinality(TriedIds(m))
      BY <1>3, Zenon DEF Renumbered
    <2>2. \A i \in Ids(m) : Number(m, i) \in 0..(m.nNew + m.nTried - 1) /\ id(Number(m, i)) = i
      BY <1>3, <2>1, Zenon DEF Renumbered
    <2> QED  BY <1>5, <2>2, Zenon
  <1>8. \A n \in Ids(r) : /\ r.mapInfo[n].addr = m.mapInfo[id(n)].addr
                          /\ r.mapInfo[n].nRefCount = m.mapInfo[id(n)].nRefCount
                          /\ r.mapInfo[n].fInTried <=> n >= m.nNew
                          /\ r.mapInfo[n].nRandomPos = n + 1
    BY <1>2, Zenon DEF Reloaded
  <1>9. \A n \in Ids(r) : /\ r.mapInfo[n].fInTried <=> m.mapInfo[id(n)].fInTried
                          /\ m.mapInfo[id(n)].addr \in Addrs /\ n # NoId /\ id(n) # NoId
    <2> TAKE n \in Ids(r)
    <2>1. id(n) \in Ids(m)
      BY <1>6, Zenon
    <2>2. m.mapInfo[id(n)].addr \in Addrs /\ n # NoId /\ id(n) # NoId
      <3> HIDE DEF id
      <3> QED  BY <1>1, <1>5, <2>1, InfoFields, Zenon
    <2> QED  BY <1>6, <1>8, <2>2, Zenon
  <1> HIDE DEF id
  <1>10. ASSUME NEW k \in Ids(r), NEW n \in Ids(r), id(k) = id(n)
         PROVE  k = n
    BY <1>6, <1>10, Zenon
  <1>11. AddressesExact(r)
    <2>0. \A a \in Addrs :
            /\ r.mapAddr[a] # NoId => r.mapAddr[a] \in Ids(r) /\ m.mapInfo[id(r.mapAddr[a])].addr = a
            /\ \A n \in Ids(r) : m.mapInfo[id(n)].addr = a => r.mapAddr[a] # NoId
      BY <1>2, Zenon DEF Reloaded, id
    <2>1. ASSUME NEW n \in Ids(r)
          PROVE  r.mapAddr[r.mapInfo[n].addr] = n
      <3> DEFINE a == m.mapInfo[id(n)].addr
                 k == r.mapAddr[a]
      <3>1. a \in Addrs /\ r.mapInfo[n].addr = a /\ id(n) \in Ids(m)
        BY <1>6, <1>8, <1>9, Zenon
      <3>2. k # NoId
        BY <2>0, <3>1, Zenon
      <3>3. k \in Ids(r) /\ m.mapInfo[id(k)].addr = a
        BY <2>0, <3>1, <3>2, Zenon
      <3>4. id(k) \in Ids(m)
        BY <1>6, <3>3, Zenon
      <3>5. m.mapAddr[a] = id(k) /\ m.mapAddr[a] = id(n)
        <4>1. m.mapAddr[m.mapInfo[id(k)].addr] = id(k) /\ m.mapAddr[m.mapInfo[id(n)].addr] = id(n)
          BY <1>1, <3>1, <3>4, Zenon DEF AddressesExact
        <4> QED  BY <3>3, <4>1, Zenon
      <3> HIDE DEF k, a
      <3>6. k = n
        BY <1>10, <3>3, <3>5, Zenon
      <3> QED  BY <3>1, <3>6, Zenon DEF k
    <2>2. ASSUME NEW a \in Addrs, r.mapAddr[a] # NoId
          PROVE  r.mapAddr[a] \in Ids(r) /\ r.mapInfo[r.mapAddr[a]].addr = a
      BY <1>8, <2>0, <2>2, Zenon
    <2> QED  BY <2>1, <2>2, Zenon DEF AddressesExact
  <1>12. RandomExact(r)
    <2>0. r.vRandom = [k \in 1..L |-> k - 1]
      BY <1>2, Zenon DEF Reloaded
    <2>1. DOMAIN r.vRandom = 1..L /\ \A k \in 1..L : r.vRandom[k] = k - 1
      BY <2>0, Zenon
    <2>2. \A k \in 1..L : k - 1 \in Ids(r) /\ (k - 1) + 1 = k
      BY <1>4, <1>5
    <2>3. \A n \in Ids(r) : n + 1 \in 1..L /\ (n + 1) - 1 = n
      BY <1>4, <1>5
    <2> HIDE DEF L
    <2>4. ASSUME NEW k \in DOMAIN r.vRandom
          PROVE  r.vRandom[k] \in Ids(r) /\ r.mapInfo[r.vRandom[k]].nRandomPos = k
      <3>1. r.vRandom[k] = k - 1 /\ k - 1 \in Ids(r) /\ (k - 1) + 1 = k
        BY <2>1, <2>2, <2>4, Zenon
      <3> QED  BY <1>8, <3>1, Zenon
    <2>5. ASSUME NEW n \in Ids(r)
          PROVE  r.mapInfo[n].nRandomPos \in DOMAIN r.vRandom /\ r.vRandom[r.mapInfo[n].nRandomPos] = n
      <3>1. r.mapInfo[n].nRandomPos = n + 1 /\ n + 1 \in 1..L /\ (n + 1) - 1 = n
        BY <1>8, <2>3, Zenon
      <3>2. r.vRandom[n + 1] = (n + 1) - 1
        BY <2>1, <3>1, Zenon
      <3> QED  BY <2>1, <3>1, <3>2, Zenon
    <2> QED  BY <2>4, <2>5, Zenon DEF RandomExact
  <1>13. NewExact(r)
    <2>0. \A s \in NewSlots : r.vvNew[s] = IF m.vvNew[s] = NoId THEN NoId ELSE Number(m, m.vvNew[s])
      BY <1>2, Zenon DEF Reloaded
    <2>1. ASSUME NEW s \in NewSlots, r.vvNew[s] # NoId
          PROVE  /\ m.vvNew[s] # NoId /\ m.vvNew[s] \in Ids(m) /\ r.vvNew[s] = Number(m, m.vvNew[s])
                 /\ r.vvNew[s] \in Ids(r) /\ id(r.vvNew[s]) = m.vvNew[s]
                 /\ s = NewSlotOf(r.mapInfo[r.vvNew[s]].addr, s[1])
      <3>1. m.vvNew[s] # NoId /\ r.vvNew[s] = Number(m, m.vvNew[s])
        BY <2>0, <2>1, Zenon
      <3>2. m.vvNew[s] \in Ids(m) /\ s = NewSlotOf(m.mapInfo[m.vvNew[s]].addr, s[1])
        BY <1>1, <3>1, Zenon DEF NewExact
      <3>3. r.vvNew[s] \in Ids(r) /\ id(r.vvNew[s]) = m.vvNew[s]
        BY <1>7, <3>1, <3>2, Zenon
      <3>4. r.mapInfo[r.vvNew[s]].addr = m.mapInfo[m.vvNew[s]].addr
        BY <1>8, <3>3, Zenon
      <3> QED  BY <3>1, <3>2, <3>3, <3>4, Zenon
    <2>2. ASSUME NEW n \in Ids(r)
          PROVE  Places(r, n) = Places(m, id(n))
      <3>1. ASSUME NEW s \in NewSlots
            PROVE  r.vvNew[s] = n <=> m.vvNew[s] = id(n)
        <4>1. ASSUME r.vvNew[s] = n  PROVE m.vvNew[s] = id(n)
          <5>1. r.vvNew[s] # NoId
            BY <1>9, <4>1, Zenon
          <5> QED  BY <2>1, <4>1, <5>1, Zenon
        <4>2. ASSUME m.vvNew[s] = id(n)  PROVE r.vvNew[s] = n
          <5>1. m.vvNew[s] # NoId /\ Number(m, id(n)) = n
            BY <1>6, <1>9, <4>2, Zenon
          <5> QED  BY <2>0, <4>2, <5>1, Zenon
        <4> QED  BY <4>1, <4>2, Zenon
      <3> QED  BY <3>1, Zenon DEF Places
    <2>3. ASSUME NEW n \in Ids(r)
          PROVE  /\ IsFiniteSet(Places(r, n)) /\ r.mapInfo[n].nRefCount = Cardinality(Places(r, n))
                 /\ r.mapInfo[n].nRefCount <= ADDRMAN_NEW_BUCKETS_PER_ADDRESS
      <3>1. id(n) \in Ids(m)
        BY <1>6, Zenon
      <3>2. /\ IsFiniteSet(Places(m, id(n))) /\ m.mapInfo[id(n)].nRefCount = Cardinality(Places(m, id(n)))
            /\ m.mapInfo[id(n)].nRefCount <= ADDRMAN_NEW_BUCKETS_PER_ADDRESS
        BY <1>1, <3>1, Zenon DEF NewExact
      <3>3. r.mapInfo[n].nRefCount = m.mapInfo[id(n)].nRefCount
        BY <1>8, Zenon
      <3> QED  BY <2>2, <3>2, <3>3, Zenon
    <2> QED  BY <2>1, <2>3, Zenon DEF NewExact
  <1>14. TriedExact(r)
    <2>0. \A t \in TriedSlots :
             /\ r.vvTried[t] # NoId => /\ r.vvTried[t] \in Ids(r) /\ r.vvTried[t] >= m.nNew
                                       /\ TriedSlot[m.mapInfo[id(r.vvTried[t])].addr] = t
             /\ \A n \in Ids(r) : n >= m.nNew /\ TriedSlot[m.mapInfo[id(n)].addr] = t => r.vvTried[t] # NoId
      BY <1>2, Zenon DEF Reloaded, id
    <2>1. ASSUME NEW t \in TriedSlots, r.vvTried[t] # NoId
          PROVE  /\ r.vvTried[t] \in Ids(r) /\ r.mapInfo[r.vvTried[t]].fInTried
                 /\ TriedSlot[r.mapInfo[r.vvTried[t]].addr] = t
      <3>1. /\ r.vvTried[t] \in Ids(r) /\ r.vvTried[t] >= m.nNew
            /\ TriedSlot[m.mapInfo[id(r.vvTried[t])].addr] = t
        BY <2>0, <2>1, Zenon
      <3> QED  BY <1>8, <3>1, Zenon
    <2>2. ASSUME NEW n \in Ids(r), r.mapInfo[n].fInTried
          PROVE  r.vvTried[TriedSlot[r.mapInfo[n].addr]] = n
      <3> DEFINE t == TriedSlot[m.mapInfo[id(n)].addr]
                 k == r.vvTried[t]
      <3>1. m.mapInfo[id(n)].addr \in Addrs /\ r.mapInfo[n].addr = m.mapInfo[id(n)].addr /\ n >= m.nNew
        BY <1>8, <1>9, <2>2, Zenon
      <3>2. t \in TriedSlots
        BY <3>1, Zenon DEF TriedSlots
      <3>3. k # NoId
        BY <2>0, <3>1, <3>2, Zenon
      <3>4. k \in Ids(r) /\ k >= m.nNew /\ TriedSlot[m.mapInfo[id(k)].addr] = t
        BY <2>0, <3>2, <3>3, Zenon
      <3>5. /\ id(k) \in Ids(m) /\ m.mapInfo[id(k)].fInTried
            /\ id(n) \in Ids(m) /\ m.mapInfo[id(n)].fInTried
        <4> HIDE DEF k
        <4> QED  BY <1>6, <3>1, <3>4, Zenon
      <3>6. m.vvTried[t] = id(k) /\ m.vvTried[t] = id(n)
        <4>1. m.vvTried[TriedSlot[m.mapInfo[id(k)].addr]] = id(k)
          <5> HIDE DEF k
          <5> QED  BY <1>1, <3>5, TriedFound, Zenon
        <4>2. m.vvTried[TriedSlot[m.mapInfo[id(n)].addr]] = id(n)
          BY <1>1, <3>5, TriedFound, Zenon
        <4> QED  BY <3>4, <4>1, <4>2, Zenon
      <3> HIDE DEF k, t
      <3>7. k = n
        BY <1>10, <3>4, <3>6, Zenon
      <3> QED  BY <3>1, <3>7, Zenon DEF k, t
    <2> QED  BY <2>1, <2>2, Zenon DEF TriedExact
  <1>15. InHand(r, {})
    <2>1. ASSUME NEW n \in Ids(r)
          PROVE  /\ r.mapInfo[n].fInTried => r.mapInfo[n].nRefCount = 0
                 /\ n \in {} <=> ~r.mapInfo[n].fInTried /\ r.mapInfo[n].nRefCount = 0
      <3>1. id(n) \in Ids(m) /\ (r.mapInfo[n].fInTried <=> m.mapInfo[id(n)].fInTried)
            /\ r.mapInfo[n].nRefCount = m.mapInfo[id(n)].nRefCount
        BY <1>6, <1>8, <1>9, Zenon
      <3>2. /\ m.mapInfo[id(n)].fInTried => m.mapInfo[id(n)].nRefCount = 0
            /\ ~(~m.mapInfo[id(n)].fInTried /\ m.mapInfo[id(n)].nRefCount = 0)
        BY <1>1, <3>1, Zenon DEF InHand
      <3> QED  BY <3>1, <3>2, Zenon
    <2> QED  BY <2>1, Zenon DEF InHand
  <1>16. Counted(r, {})
    <2>1. L \in Nat /\ m.nNew + m.nTried - 1 = L - 1
      BY <1>4
    <2>2. Ids(r) = 0..(L - 1)
      BY <1>5, <2>1, Zenon
    <2>3. /\ r.vRandom = [k \in 1..L |-> k - 1] /\ r.nNew = m.nNew /\ r.nTried = m.nTried /\ r.nIdCount = L
      BY <1>2, Zenon DEF Reloaded
    <2>4. L - m.nNew = m.nTried /\ m.nNew <= L
      BY <1>4
    <2> HIDE DEF L
    <2>5. IsFiniteSet(0..(L - 1)) /\ Cardinality(0..(L - 1)) = L
      BY <2>1, UpTo, Zenon
    <2>6. Len(r.vRandom) = L
      BY <2>1, <2>3
    <2>7. \A n \in Ids(r) : n < L
      BY <2>1, <2>2
    <2>8. Ids(r) \ TriedIds(r) = 0..(m.nNew - 1)
      <3>1. \A n \in Ids(r) : n \in TriedIds(r) <=> n >= m.nNew
        BY <1>8, Zenon DEF TriedIds
      <3>2. \A n : n \in 0..(m.nNew - 1) <=> n \in 0..(L - 1) /\ ~(n >= m.nNew)
        BY <1>4, <2>1, <2>4
      <3> QED  BY <2>2, <3>1, <3>2, Zenon
    <2>9. IsFiniteSet(0..(m.nNew - 1)) /\ Cardinality(0..(m.nNew - 1)) = m.nNew
      BY <1>4, UpTo, Zenon
    <2>10. Cardinality(TriedIds(r)) = m.nTried
      <3>1. TriedIds(r) \subseteq Ids(r)
        BY Zenon DEF TriedIds
      <3>2. Ids(r) \cap (Ids(r) \ TriedIds(r)) = Ids(r) \ TriedIds(r) /\ Ids(r) \ (Ids(r) \ TriedIds(r)) = TriedIds(r)
        BY <3>1, Zenon
      <3>3. IsFiniteSet(Ids(r)) /\ Cardinality(Ids(r)) = L
        BY <2>2, <2>5, Zenon
      <3>4. Cardinality(Ids(r) \ (Ids(r) \ TriedIds(r))) = Cardinality(Ids(r)) - Cardinality(Ids(r) \cap (Ids(r) \ TriedIds(r)))
        BY <3>3, FS_Difference, Zenon
      <3>5. Cardinality(TriedIds(r)) = L - m.nNew
        BY <2>8, <2>9, <3>2, <3>3, <3>4, Zenon
      <3> QED  BY <2>4, <3>5, Zenon
    <2>11. /\ IsFiniteSet(Ids(r)) /\ Len(r.vRandom) = Cardinality(Ids(r)) /\ \A n \in Ids(r) : n < r.nIdCount
           /\ {} \subseteq Ids(r) \ TriedIds(r) /\ r.nTried = Cardinality(TriedIds(r))
      BY <2>2, <2>3, <2>5, <2>6, <2>7, <2>10, Zenon
    <2>12. r.nNew = Cardinality((Ids(r) \ TriedIds(r)) \ {})
      <3>1. (Ids(r) \ TriedIds(r)) \ {} = Ids(r) \ TriedIds(r)
        BY Zenon
      <3> QED  BY <2>3, <2>8, <2>9, <3>1, Zenon
    <2> QED  BY <2>11, <2>12, Zenon DEF Counted
  <1>17. AddrInv(r, {}, {})
    BY <1>5, <1>11, <1>12, <1>13, <1>14, <1>15, <1>16, Zenon DEF AddrInv
  <1> QED  BY <1>17, Zenon DEF r


-----------------------------------------------------------------------------
(* The invariant. *)

\* An empty manager has the invariant.
LEMMA InitInv ==
  ASSUME AddrManInit
  PROVE  AddrInv(addrman, {}, {})
  <1> DEFINE none == [a \in Addrs |-> NoId]
             noNew == [s \in NewSlots |-> NoId]
             noTried == [s \in TriedSlots |-> NoId]
  <1>1. none \in AddrMap /\ \A a \in Addrs : none[a] = NoId
    BY Zenon DEF AddrMap
  <1>2. noNew \in NewTable /\ \A s \in NewSlots : noNew[s] = NoId
    BY Zenon DEF NewTable
  <1>3. noTried \in TriedTable /\ \A t \in TriedSlots : noTried[t] = NoId
    BY Zenon DEF TriedTable
  <1>4. addrman = [mapInfo |-> <<>>, mapAddr |-> none, vRandom |-> <<>>, vvNew |-> noNew, vvTried |-> noTried,
                   nNew |-> 0, nTried |-> 0, nIdCount |-> 0, asserted |-> TRUE]
    BY Zenon DEF AddrManInit
  <1> HIDE DEF none, noNew, noTried
  <1>5. <<>> \in Infos
    <2>1. <<>> \in [{} -> Info]
      BY SMT
    <2>2. {} \in SUBSET Nat
      BY Zenon
    <2> QED  BY <2>1, <2>2, Zenon DEF Infos
  <1>6. addrman \in Managers
    <2> DEFINE A == AddrMap  B == NewTable  C == TriedTable  I == Infos
    <2>1. none \in A /\ noNew \in B /\ noTried \in C /\ <<>> \in I
      BY <1>1, <1>2, <1>3, <1>5, Zenon
    <2>2. Managers = [mapInfo : I, mapAddr : A, vRandom : Seq(Nat), vvNew : B, vvTried : C,
                      nNew : Int, nTried : Int, nIdCount : Nat, asserted : BOOLEAN]
      BY Zenon DEF Managers
    <2> HIDE DEF A, B, C, I
    <2> QED  BY <1>4, <2>1, <2>2
  <1>7. /\ addrman.mapInfo = <<>> /\ addrman.mapAddr = none /\ addrman.vRandom = <<>>
        /\ addrman.vvNew = noNew /\ addrman.vvTried = noTried
    BY <1>4
  <1>8. addrman.nNew = 0 /\ addrman.nTried = 0 /\ addrman.asserted
    BY <1>4
  <1>9. Ids(addrman) = {} /\ DOMAIN addrman.vRandom = {} /\ Len(addrman.vRandom) = 0
    BY <1>7 DEF Ids
  <1>10. AddressesExact(addrman)
    BY <1>1, <1>7, <1>9, Zenon DEF AddressesExact
  <1>11. RandomExact(addrman)
    BY <1>9, Zenon DEF RandomExact
  <1>12. NewExact(addrman)
    BY <1>2, <1>7, <1>9, Zenon DEF NewExact
  <1>13. TriedExact(addrman)
    BY <1>3, <1>7, <1>9, Zenon DEF TriedExact
  <1>14. InHand(addrman, {})
    BY <1>9, Zenon DEF InHand
  <1>15. Counted(addrman, {})
    <2>1. IsFiniteSet({}) /\ Cardinality({}) = 0
      BY FS_EmptySet, Zenon
    <2>2. TriedIds(addrman) = {} /\ (Ids(addrman) \ TriedIds(addrman)) \ {} = {}
      BY <1>9, Zenon DEF TriedIds
    <2> QED  BY <1>8, <1>9, <2>1, <2>2, Zenon DEF Counted
  <1> QED  BY <1>6, <1>8, <1>10, <1>11, <1>12, <1>13, <1>14, <1>15, Zenon DEF AddrInv

\* Every call keeps the invariant.
LEMMA NextInv ==
  ASSUME AddrInv(addrman, {}, {}), [AddrManNext]_addrman
  PROVE  AddrInv(addrman', {}, {})
  <1>1. CASE \E a \in Addrs, source \in Sources, fresh, terrible \in BOOLEAN : AddAddress(a, source, fresh, terrible)
    <2> PICK a \in Addrs, source \in Sources, fresh \in BOOLEAN, terrible \in BOOLEAN :
               AddAddress(a, source, fresh, terrible)
      BY <1>1, Zenon
    <2>1. addrman' = Add_(addrman, a, source, fresh, terrible)
      BY Zenon DEF AddAddress
    <2>2. AddrInv(Add_(addrman, a, source, fresh, terrible), {}, {})
      BY AddInv, Zenon
    <2> QED  BY <2>1, <2>2, Zenon
  <1>2. CASE \E a \in Addrs : Good(a)
    <2> PICK a \in Addrs : Good(a)
      BY <1>2, Zenon
    <2>1. addrman' = Good_(addrman, a)
      BY Zenon DEF Good
    <2>2. AddrInv(Good_(addrman, a), {}, {})
      BY GoodInv, Zenon
    <2> QED  BY <2>1, <2>2, Zenon
  <1>3. CASE GetAddr
    <2>1. addrman' \in GetAddr_(addrman)
      BY <1>3, Zenon DEF GetAddr
    <2> QED  BY <2>1, GetAddrInv, Zenon
  <1>4. CASE DumpAndLoad
    <2>1. addrman' = Reload(addrman)
      BY <1>4, Zenon DEF DumpAndLoad
    <2>2. AddrInv(Reload(addrman), {}, {})
      BY ReloadInv, Zenon
    <2> QED  BY <2>1, <2>2, Zenon
  <1>5. CASE UNCHANGED addrman
    BY <1>5, Zenon
  <1> QED  BY <1>1, <1>2, <1>3, <1>4, <1>5, Zenon DEF AddrManNext

\* What the invariant says between calls is AddrManCheck.
LEMMA InvChecks ==
  ASSUME AddrInv(addrman, {}, {})
  PROVE  AddrManCheck
  <1> DEFINE m == addrman
  <1>1. /\ m \in Managers /\ m.asserted /\ AddressesExact(m) /\ RandomExact(m) /\ NewExact(m) /\ TriedExact(m)
        /\ InHand(m, {}) /\ Counted(m, {})
    BY Zenon DEF AddrInv
  <1> HIDE DEF m
  <1>2. m.nTried = Cardinality(TriedIds(m)) /\ m.nNew = Cardinality(Ids(m) \ TriedIds(m))
    <2>1. (Ids(m) \ TriedIds(m)) \ {} = Ids(m) \ TriedIds(m)
      BY Zenon
    <2> QED  BY <1>1, <2>1, Zenon DEF Counted
  <1>3. Len(m.vRandom) = m.nNew + m.nTried
    <2>1. IsFiniteSet(Ids(m)) /\ Len(m.vRandom) = Cardinality(Ids(m))
      BY <1>1, Zenon DEF Counted
    <2>2. TriedIds(m) \subseteq Ids(m)
      BY Zenon DEF TriedIds
    <2>3. IsFiniteSet(TriedIds(m))
      BY <2>1, <2>2, FS_Subset, Zenon
    <2>4. Ids(m) \cap TriedIds(m) = TriedIds(m)
      BY <2>2, Zenon
    <2>5. Cardinality(Ids(m) \ TriedIds(m)) = Cardinality(Ids(m)) - Cardinality(Ids(m) \cap TriedIds(m))
      BY <2>1, FS_Difference, Zenon
    <2>6. Cardinality(Ids(m)) \in Nat /\ Cardinality(TriedIds(m)) \in Nat
      BY <2>1, <2>3, FS_CardinalityType, Zenon
    <2>7. m.nNew = Cardinality(Ids(m)) - m.nTried
      BY <1>2, <2>4, <2>5, Zenon
    <2>8. m.nTried \in Nat
      BY <1>2, <2>6, Zenon
    <2> QED  BY <2>1, <2>6, <2>7, <2>8
  <1>4. m.nTried = Cardinality({i \in Ids(m) : m.mapInfo[i].fInTried})
    BY <1>2, Zenon DEF TriedIds
  <1>5. m.nNew = Cardinality({i \in Ids(m) : ~m.mapInfo[i].fInTried})
    <2>1. {i \in Ids(m) : ~m.mapInfo[i].fInTried} = Ids(m) \ TriedIds(m)
      BY Zenon DEF TriedIds
    <2> QED  BY <1>2, <2>1, Zenon
  <1>6. ASSUME NEW i \in Ids(m)
        PROVE  LET info == m.mapInfo[i]
                   places == {s \in NewSlots : m.vvNew[s] = i}
               IN  /\ m.mapAddr[info.addr] = i
                   /\ info.nRandomPos \in DOMAIN m.vRandom /\ m.vRandom[info.nRandomPos] = i
                   /\ info.nRefCount = Cardinality(places)
                   /\ info.nRefCount <= ADDRMAN_NEW_BUCKETS_PER_ADDRESS
                   /\ info.fInTried <=> info.nRefCount = 0
                   /\ info.fInTried <=> \E t \in TriedSlots : m.vvTried[t] = i
                   /\ \A s \in places : s = NewSlotOf(info.addr, s[1])
    <2> DEFINE info == m.mapInfo[i]
    <2>1. m.mapAddr[info.addr] = i
      BY <1>1, Zenon DEF AddressesExact
    <2>2. info.nRandomPos \in DOMAIN m.vRandom /\ m.vRandom[info.nRandomPos] = i
      BY <1>1, Zenon DEF RandomExact
    <2>3. info.nRefCount = Cardinality(Places(m, i)) /\ info.nRefCount <= ADDRMAN_NEW_BUCKETS_PER_ADDRESS
      BY <1>1, Zenon DEF NewExact
    <2>4. info.fInTried <=> info.nRefCount = 0
      BY <1>1, Zenon DEF InHand
    <2>5. i # NoId /\ info.addr \in Addrs
      BY <1>1, InfoFields, Zenon
    <2>6. ASSUME info.fInTried
          PROVE  \E t \in TriedSlots : m.vvTried[t] = i
      <3>1. TriedSlot[info.addr] \in TriedSlots
        BY <2>5, Zenon DEF TriedSlots
      <3>2. m.vvTried[TriedSlot[info.addr]] = i
        BY <1>1, <2>6, Zenon DEF TriedExact
      <3> QED  BY <3>1, <3>2, Zenon
    <2>7. ASSUME NEW t \in TriedSlots, m.vvTried[t] = i
          PROVE  info.fInTried
      <3>1. m.vvTried[t] # NoId
        BY <2>5, <2>7, Zenon
      <3>2. m.mapInfo[m.vvTried[t]].fInTried
        BY <1>1, <3>1, Zenon DEF TriedExact
      <3> QED  BY <2>7, <3>2, Zenon
    <2>8. ASSUME NEW s \in Places(m, i)
          PROVE  s = NewSlotOf(info.addr, s[1])
      <3>1. s \in NewSlots /\ m.vvNew[s] = i
        BY Zenon DEF Places
      <3>2. m.vvNew[s] # NoId
        BY <2>5, <3>1, Zenon
      <3>3. s = NewSlotOf(m.mapInfo[m.vvNew[s]].addr, s[1])
        BY <1>1, <3>1, <3>2, Zenon DEF NewExact
      <3>4. m.mapInfo[m.vvNew[s]] = info
        BY <3>1, Zenon
      <3> QED  BY <3>3, <3>4, Zenon
    <2>9. info.fInTried <=> \E t \in TriedSlots : m.vvTried[t] = i
      BY <2>6, <2>7, Zenon
    <2>10. /\ info.nRefCount = Cardinality({s \in NewSlots : m.vvNew[s] = i})
           /\ \A s \in {u \in NewSlots : m.vvNew[u] = i} : s = NewSlotOf(info.addr, s[1])
      BY <2>3, <2>8, Zenon DEF Places
    <2> QED  BY <2>1, <2>2, <2>3, <2>4, <2>9, <2>10, Zenon
  <1>7. /\ \A t \in TriedSlots : m.vvTried[t] # NoId =>
              m.vvTried[t] \in Ids(m) /\ TriedSlot[m.mapInfo[m.vvTried[t]].addr] = t
        /\ \A s \in NewSlots : m.vvNew[s] # NoId => m.vvNew[s] \in Ids(m)
        /\ \A a \in Addrs : m.mapAddr[a] # NoId => m.mapAddr[a] \in Ids(m)
    BY <1>1, Zenon DEF TriedExact, NewExact, AddressesExact
  <1> QED  BY <1>1, <1>3, <1>4, <1>5, <1>6, <1>7, Zenon DEF AddrManCheck, m

\* After any sequence of additions, connections, answers to getaddr and restarts, for any number
\* of addresses and any buckets they hash to: the table and its four indexes agree, the counters
\* are exact, and no assertion of addrman.cpp has failed (AddrManCheck).
THEOREM AddressesIndexed == AddrManSpec => []AddrManCheck
  <1>1. AddrManInit => AddrInv(addrman, {}, {})
    BY InitInv
  <1>2. AddrInv(addrman, {}, {}) /\ [AddrManNext]_addrman => AddrInv(addrman, {}, {})'
    BY NextInv
  <1>3. AddrInv(addrman, {}, {}) => AddrManCheck
    BY InvChecks
  <1> QED  BY <1>1, <1>2, <1>3, PTL DEF AddrManSpec

=============================================================================
