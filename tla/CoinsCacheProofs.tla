-------------------------- MODULE CoinsCacheProofs --------------------------
(***************************************************************************)
(* Proofs about CoinsCache, for any values of its constants.  The first    *)
(* half says what a read, a write and a flush do to one map of a coins     *)
(* cache and to what it represents over the view below it: the coins       *)
(* first, then the anchors, the nullifiers and the cached hashes.  In the  *)
(* second half one lemma per action says that it preserves the invariant   *)
(* Inv and what it does to the ledgers of the database, of pcoinsTip and   *)
(* of the view.                                                            *)
(***************************************************************************)
EXTENDS CoinsCache, TLAPS

\* The time that the prover has for a step.
USE SMTT(30)

USE DEF DIRTY, FRESH

CoinsMaps == [Txids -> CoinsEntry]
AnchorMaps == [Types -> [Roots -> AnchorEntry]]
NfMaps == [Types -> [Nfs -> NfEntry]]

-----------------------------------------------------------------------------
(* Coins: dc in the database, tc in pcoinsTip, vc in the view. *)

\* The strengthening of the flags for coins: what the view holds without being
\* FRESH, pcoinsTip holds too.
CoinsInv(dc, tc, vc) ==
    /\ CoinsFlags(tc, dc)
    /\ CoinsFlags(vc, OverCoins(tc, dc))
    /\ \A x \in Txids : vc[x].in => FRESH \in vc[x].flags \/ tc[x].in

AskDb(dc, x) == [found |-> dc[x] # Pruned, coins |-> dc[x]]
AskTip(dc, tc, x) == LET e == FetchCoins(tc, x, AskDb(dc, x))[x]
                     IN  [found |-> e.in, coins |-> e.coins]

\* A read through pcoinsTip may add an entry there; nothing looks different.
LEMMA CoinsTipRead ==
    ASSUME NEW dc \in [Txids -> Coins], NEW tc \in CoinsMaps, NEW vc \in CoinsMaps,
           NEW x \in Txids, CoinsInv(dc, tc, vc)
    PROVE  LET tc1 == FetchCoins(tc, x, AskDb(dc, x)) IN
           /\ tc1 \in CoinsMaps
           /\ OverCoins(tc1, dc) = OverCoins(tc, dc)
           /\ CoinsInv(dc, tc1, vc)
           /\ tc1[x].in \/ OverCoins(tc, dc)[x] = Pruned
           /\ tc1[x].in => tc1[x].coins = OverCoins(tc, dc)[x]
           /\ ~tc1[x].in => tc1[x] = tc[x]
<1> DEFINE tc1 == FetchCoins(tc, x, AskDb(dc, x))
<1>1. tc1 \in CoinsMaps
  BY PrunedAssumption, Zenon DEF FetchCoins, AskDb, CoinsMaps, CoinsEntry
<1>2. \A y \in Txids : y # x => tc1[y] = tc[y]
  BY Zenon DEF FetchCoins, AskDb, CoinsMaps, CoinsEntry
<1>3. CASE tc[x].in \/ dc[x] = Pruned
  <2>1. tc1 = tc
    BY <1>3, Zenon DEF FetchCoins, AskDb
  <2> QED BY <1>1, <1>3, <2>1, Zenon DEF OverCoins, CoinsInv
<1>4. CASE ~tc[x].in /\ dc[x] # Pruned
  <2>1. tc1[x] = [in |-> TRUE, coins |-> dc[x], flags |-> {}]
    BY <1>4, Zenon DEF FetchCoins, AskDb, CoinsMaps
  <2>2. OverCoins(tc1, dc) = OverCoins(tc, dc)
    BY <1>1, <1>2, <1>4, <2>1 DEF OverCoins, CoinsMaps
  <2>3. CoinsFlags(tc1, dc)
    BY <1>1, <1>2, <1>4, <2>1 DEF CoinsInv, CoinsFlags, CoinsMaps
  <2>4. \A y \in Txids : vc[y].in => FRESH \in vc[y].flags \/ tc1[y].in
    BY <1>2, <2>1 DEF CoinsInv
  <2> QED BY <1>1, <1>4, <2>1, <2>2, <2>3, <2>4 DEF OverCoins, CoinsInv
<1> QED BY <1>3, <1>4, Zenon

\* A read through the view may add an entry to it and to pcoinsTip.
LEMMA CoinsViewRead ==
    ASSUME NEW dc \in [Txids -> Coins], NEW tc \in CoinsMaps, NEW vc \in CoinsMaps,
           NEW x \in Txids, CoinsInv(dc, tc, vc)
    PROVE  LET tc1 == IF vc[x].in THEN tc ELSE FetchCoins(tc, x, AskDb(dc, x))
               vc1 == FetchCoins(vc, x, AskTip(dc, tc, x)) IN
           /\ tc1 \in CoinsMaps /\ vc1 \in CoinsMaps
           /\ OverCoins(tc1, dc) = OverCoins(tc, dc)
           /\ OverCoins(vc1, OverCoins(tc1, dc)) = OverCoins(vc, OverCoins(tc, dc))
           /\ CoinsInv(dc, tc1, vc1)
<1> DEFINE tp == FetchCoins(tc, x, AskDb(dc, x))
           L == OverCoins(tc, dc)
           vc1 == FetchCoins(vc, x, AskTip(dc, tc, x))
<1>1. /\ tp \in CoinsMaps
      /\ OverCoins(tp, dc) = L
      /\ CoinsInv(dc, tp, vc)
      /\ tp[x].in => tp[x].coins = L[x]
  BY CoinsTipRead, Zenon
<1>2. CASE vc[x].in
  <2>1. vc1 = vc
    BY <1>2, Zenon DEF FetchCoins
  <2> QED BY <1>2, <2>1, Zenon
<1>3. CASE ~vc[x].in /\ ~tp[x].in
  <2>1. vc1 = vc
    BY <1>3, Zenon DEF FetchCoins, AskTip
  <2> QED BY <1>1, <1>3, <2>1, Zenon
<1>4. CASE ~vc[x].in /\ tp[x].in
  <2> DEFINE fl == IF L[x] = Pruned THEN {FRESH} ELSE {}
  <2>1. vc1 = [vc EXCEPT ![x] = [in |-> TRUE, coins |-> L[x], flags |-> fl]]
    BY <1>1, <1>4, Zenon DEF FetchCoins, AskTip
  <2>2. L[x] \in Coins /\ fl \in SUBSET {DIRTY, FRESH}
    BY Zenon DEF OverCoins, CoinsMaps, CoinsEntry
  <2>3. vc1 \in CoinsMaps
    BY <2>1, <2>2 DEF CoinsMaps, CoinsEntry
  <2>a. CoinsFlags(vc, L)
    BY Zenon DEF CoinsInv
  <2> HIDE DEF vc1, tp, L
  <2>4. /\ vc1[x] = [in |-> TRUE, coins |-> L[x], flags |-> fl]
        /\ \A y \in Txids : y # x => vc1[y] = vc[y]
    BY <2>1, Zenon DEF CoinsMaps
  <2>5. OverCoins(vc1, L) = OverCoins(vc, L)
    BY <1>4, <2>4 DEF OverCoins
  <2>6. CoinsFlags(vc1, L)
    BY <2>4, <2>a DEF CoinsFlags
  <2>7. \A y \in Txids : vc1[y].in => FRESH \in vc1[y].flags \/ tp[y].in
    BY <1>1, <1>4, <2>4, Zenon DEF CoinsInv
  <2> QED BY <1>1, <1>4, <2>3, <2>5, <2>6, <2>7, Zenon DEF CoinsInv, tp, vc1, L
<1> QED BY <1>2, <1>3, <1>4, Zenon

\* A write through a modifier changes the coins of that transaction in the view's
\* ledger, whether the entry is kept, created or erased.
LEMMA CoinsWrite ==
    ASSUME NEW dc \in [Txids -> Coins], NEW tc \in CoinsMaps, NEW vc \in CoinsMaps,
           NEW x \in Txids, NEW c \in Coins, CoinsInv(dc, tc, vc)
    PROVE  LET tc1 == IF vc[x].in THEN tc ELSE FetchCoins(tc, x, AskDb(dc, x))
               vc1 == [vc EXCEPT ![x] = ModifiedEntry(@, AskTip(dc, tc, x), c)] IN
           /\ tc1 \in CoinsMaps /\ vc1 \in CoinsMaps
           /\ OverCoins(tc1, dc) = OverCoins(tc, dc)
           /\ OverCoins(vc1, OverCoins(tc1, dc)) = [OverCoins(vc, OverCoins(tc, dc)) EXCEPT ![x] = c]
           /\ CoinsInv(dc, tc1, vc1)
<1> DEFINE tp == FetchCoins(tc, x, AskDb(dc, x))
           tc1 == IF vc[x].in THEN tc ELSE tp
           L == OverCoins(tc, dc)
           e == ModifiedEntry(vc[x], AskTip(dc, tc, x), c)
           vc1 == [vc EXCEPT ![x] = e]
<1>1. /\ tp \in CoinsMaps
      /\ OverCoins(tp, dc) = L
      /\ CoinsInv(dc, tp, vc)
      /\ tp[x].in \/ L[x] = Pruned
      /\ tp[x].in => tp[x].coins = L[x]
      /\ ~tp[x].in => tp[x] = tc[x]
  BY CoinsTipRead, Zenon
<1>2. /\ tc1 \in CoinsMaps
      /\ OverCoins(tc1, dc) = L
      /\ CoinsInv(dc, tc1, vc)
  BY <1>1, Zenon
<1>3. L \in [Txids -> Coins]
  BY Zenon DEF OverCoins, CoinsMaps, CoinsEntry
<1>4. AskTip(dc, tc, x) = [found |-> tp[x].in, coins |-> tp[x].coins]
  BY Zenon DEF AskTip
<1>5. /\ e \in CoinsEntry
      /\ e.in => e.coins = c /\ DIRTY \in e.flags
      /\ e.in /\ FRESH \in e.flags => L[x] = Pruned
      /\ e.in => FRESH \in e.flags \/ tc1[x].in
      /\ ~e.in => c = Pruned /\ L[x] = Pruned
  <2>1. CASE vc[x].in
    <3>1. /\ vc[x] \in CoinsEntry
          /\ FRESH \in vc[x].flags => L[x] = Pruned
          /\ FRESH \in vc[x].flags \/ tc1[x].in
      BY <1>2, <2>1, Zenon DEF CoinsMaps, CoinsInv, CoinsFlags
    <3> HIDE DEF tc1, L
    <3> QED BY <2>1, <3>1, PrunedAssumption, Zenon DEF ModifiedEntry, CoinsEntry, NoCoins
  <2>2. CASE ~vc[x].in
    <3>1. tc1[x] = tp[x]
      BY <2>2, Zenon
    <3>2. tp[x] \in CoinsEntry
      BY <1>1, Zenon DEF CoinsMaps
    <3>3. /\ AskTip(dc, tc, x).found <=> tp[x].in
          /\ AskTip(dc, tc, x).coins = tp[x].coins
      BY <1>4
    <3> HIDE DEF tc1, L, tp
    <3> QED BY <1>1, <2>2, <3>1, <3>2, <3>3, PrunedAssumption, Zenon DEF ModifiedEntry, CoinsEntry, NoCoins
  <2> QED BY <2>1, <2>2, Zenon
<1>6. vc1 \in CoinsMaps
  BY <1>5, Zenon DEF CoinsMaps
<1>7. vc1[x] = e /\ \A y \in Txids : y # x => vc1[y] = vc[y]
  BY Zenon DEF CoinsMaps
<1> HIDE DEF vc1, e, tc1, tp, L
<1>8. OverCoins(vc1, L) = [OverCoins(vc, L) EXCEPT ![x] = c]
  BY <1>5, <1>7, Zenon DEF OverCoins
<1>9. CoinsInv(dc, tc1, vc1)
  BY <1>2, <1>5, <1>7, Zenon DEF CoinsInv, CoinsFlags
<1> QED BY <1>2, <1>6, <1>8, <1>9, Zenon DEF vc1, e, tc1, tp, L

\* A flush of the view gives pcoinsTip the view's coins.
LEMMA CoinsFlushView ==
    ASSUME NEW dc \in [Txids -> Coins], NEW tc \in CoinsMaps, NEW vc \in CoinsMaps,
           CoinsInv(dc, tc, vc)
    PROVE  LET tc1 == BatchWriteCoins(vc, tc) IN
           /\ tc1 \in CoinsMaps
           /\ OverCoins(tc1, dc) = OverCoins(vc, OverCoins(tc, dc))
           /\ CoinsFlags(tc1, dc)
<1> DEFINE tc1 == BatchWriteCoins(vc, tc)
<1>1. ASSUME NEW x \in Txids
      PROVE  /\ tc1[x] \in CoinsEntry
             /\ (IF tc1[x].in THEN tc1[x].coins ELSE dc[x])
                  = (IF vc[x].in THEN vc[x].coins ELSE IF tc[x].in THEN tc[x].coins ELSE dc[x])
             /\ tc1[x].in => /\ DIRTY \notin tc1[x].flags => tc1[x].coins = dc[x]
                             /\ FRESH \in tc1[x].flags => dc[x] = Pruned
  <2>1. vc[x] \in CoinsEntry /\ tc[x] \in CoinsEntry
    BY Zenon DEF CoinsMaps
  <2>2. /\ tc[x].in => /\ DIRTY \notin tc[x].flags => tc[x].coins = dc[x]
                       /\ FRESH \in tc[x].flags => dc[x] = Pruned
        /\ vc[x].in => /\ DIRTY \notin vc[x].flags => vc[x].coins = IF tc[x].in THEN tc[x].coins ELSE dc[x]
                       /\ FRESH \in vc[x].flags => Pruned = IF tc[x].in THEN tc[x].coins ELSE dc[x]
                       /\ FRESH \in vc[x].flags \/ tc[x].in
    BY Zenon DEF CoinsInv, CoinsFlags, OverCoins
  <2>3. tc1[x] = IF ~vc[x].in \/ DIRTY \notin vc[x].flags THEN tc[x]
                 ELSE IF ~tc[x].in
                      THEN IF vc[x].coins = Pruned THEN tc[x]
                           ELSE [in |-> TRUE, coins |-> vc[x].coins, flags |-> {DIRTY, FRESH}]
                 ELSE IF FRESH \in tc[x].flags /\ vc[x].coins = Pruned THEN NoCoins
                 ELSE [in |-> TRUE, coins |-> vc[x].coins, flags |-> tc[x].flags \cup {DIRTY}]
    BY Zenon DEF BatchWriteCoins
  <2> HIDE DEF tc1
  <2> QED BY <2>1, <2>2, <2>3, PrunedAssumption DEF CoinsEntry, NoCoins
<1>2. tc1 \in CoinsMaps
  BY <1>1, Zenon DEF CoinsMaps, BatchWriteCoins
<1> HIDE DEF tc1
<1>3. OverCoins(tc1, dc) = OverCoins(vc, OverCoins(tc, dc))
  BY <1>1, Zenon DEF OverCoins
<1>4. CoinsFlags(tc1, dc)
  BY <1>1, Zenon DEF CoinsFlags
<1> QED BY <1>2, <1>3, <1>4, Zenon DEF tc1

\* A flush of pcoinsTip writes its coins to the database.
LEMMA CoinsFlushTip ==
    ASSUME NEW dc \in [Txids -> Coins], NEW tc \in CoinsMaps, CoinsFlags(tc, dc)
    PROVE  [x \in Txids |-> IF tc[x].in /\ DIRTY \in tc[x].flags THEN tc[x].coins ELSE dc[x]]
             = OverCoins(tc, dc)
BY Zenon DEF OverCoins, CoinsFlags, CoinsMaps, CoinsEntry

\* A cache that has just been constructed or flushed has its type.
LEMMA EmptyCacheType ==
    EmptyCache \in Caches
<1>1. /\ NoCoins \in CoinsEntry /\ NoAnchor \in AnchorEntry /\ NoNf \in NfEntry
  BY PrunedAssumption, RootAssumption, Zenon DEF NoCoins, CoinsEntry, NoAnchor, AnchorEntry, NoNf, NfEntry
<1> DEFINE c == [x \in Txids |-> NoCoins]
           a == [t \in Types |-> [r \in Roots |-> NoAnchor]]
           n == [t \in Types |-> [nf \in Nfs |-> NoNf]]
           h == [t \in Types |-> Null]
<1>2. /\ c \in [Txids -> CoinsEntry] /\ a \in [Types -> [Roots -> AnchorEntry]]
      /\ n \in [Types -> [Nfs -> NfEntry]] /\ h \in [Types -> Roots \cup {Null}]
  BY <1>1, Zenon
<1>3. EmptyCache = [cacheCoins |-> c, cacheAnchors |-> a, cacheNullifiers |-> n,
                    hashBlock |-> Null, hashAnchor |-> h]
  BY Zenon DEF EmptyCache
<1> HIDE DEF c, a, n, h
<1> QED BY <1>2, <1>3, Zenon DEF Caches

\* An empty cache shows the view below it.
LEMMA CoinsEmpty ==
    ASSUME NEW dc \in [Txids -> Coins]
    PROVE  LET m == EmptyCache.cacheCoins IN
           /\ m \in CoinsMaps
           /\ OverCoins(m, dc) = dc
           /\ CoinsFlags(m, dc)
           /\ \A x \in Txids : ~m[x].in
BY PrunedAssumption, Zenon DEF EmptyCache, CoinsMaps, CoinsEntry, NoCoins, OverCoins, CoinsFlags

-----------------------------------------------------------------------------
(* Anchors: a map m over a view whose anchors are L. *)

RootSets == [Types -> SUBSET Roots]

Trees(m) == \A t \in Types, r \in Roots : m[t][r].in => m[t][r].tree = r

\* A read may add an entry; it answers what the ledger holds, with the right tree.
LEMMA AnchorRead ==
    ASSUME NEW m \in AnchorMaps, NEW L \in RootSets, NEW t \in Types, NEW rt \in Roots,
           NEW base, base.found <=> rt \in L[t], base.found => base.tree = rt,
           AnchorFlags(m, L), Trees(m)
    PROVE  LET m1 == GetAnchorAt(m, t, rt, base) IN
           /\ m1 \in AnchorMaps
           /\ OverAnchors(m1, L) = OverAnchors(m, L)
           /\ AnchorFlags(m1, L)
           /\ Trees(m1)
           /\ m1[t][rt].in /\ m1[t][rt].entered <=> rt \in OverAnchors(m, L)[t]
           /\ rt \in OverAnchors(m, L)[t] => m1[t][rt].tree = rt
<1> DEFINE m1 == GetAnchorAt(m, t, rt, base)
<1>1. CASE m[t][rt].in \/ ~base.found
  <2>1. m1 = m
    BY <1>1, Zenon DEF GetAnchorAt
  <2> HIDE DEF m1
  <2>2. m[t][rt].in /\ m[t][rt].entered <=> rt \in OverAnchors(m, L)[t]
    BY <1>1, Zenon DEF OverAnchors, AnchorMaps, AnchorEntry
  <2> QED BY <2>1, <2>2, Zenon DEF Trees, m1
<1>2. CASE ~m[t][rt].in /\ base.found
  <2> DEFINE e == [in |-> TRUE, entered |-> TRUE, tree |-> rt, flags |-> {}]
  <2>1. m1 = [m EXCEPT ![t] = [m[t] EXCEPT ![rt] = e]]
    BY <1>2, Zenon DEF GetAnchorAt
  <2>2. e \in AnchorEntry
    BY Zenon DEF AnchorEntry
  <2>3. m1 \in AnchorMaps
    BY <2>1, <2>2 DEF AnchorMaps
  <2> HIDE DEF m1
  <2>4. /\ m1[t][rt] = e
        /\ \A u \in Types, r \in Roots : u # t \/ r # rt => m1[u][r] = m[u][r]
    BY <2>1, Zenon DEF AnchorMaps
  <2>5. ASSUME NEW u \in Types
        PROVE  OverAnchors(m1, L)[u] = OverAnchors(m, L)[u]
    BY <1>2, <2>4 DEF OverAnchors
  <2>6. OverAnchors(m1, L) = OverAnchors(m, L)
    BY <2>5, Zenon DEF OverAnchors
  <2>7. AnchorFlags(m1, L) /\ Trees(m1)
    BY <1>2, <2>4 DEF AnchorFlags, Trees
  <2>8. rt \in OverAnchors(m, L)[t]
    BY <1>2, Zenon DEF OverAnchors
  <2> QED BY <2>3, <2>4, <2>6, <2>7, <2>8 DEF m1
<1> QED BY <1>1, <1>2, Zenon

\* A pushed or popped root changes membership of that root and nothing else.
LEMMA AnchorWrite ==
    ASSUME NEW m \in AnchorMaps, NEW L \in RootSets, NEW t \in Types, NEW rt \in Roots,
           NEW on \in BOOLEAN, AnchorFlags(m, L), Trees(m)
    PROVE  LET m1 == [m EXCEPT ![t][rt] =
                        [in |-> TRUE, entered |-> on, tree |-> rt, flags |-> {DIRTY}]] IN
           /\ m1 \in AnchorMaps
           /\ OverAnchors(m1, L) = [OverAnchors(m, L) EXCEPT
                                      ![t] = IF on THEN @ \cup {rt} ELSE @ \ {rt}]
           /\ AnchorFlags(m1, L)
           /\ Trees(m1)
<1> DEFINE e == [in |-> TRUE, entered |-> on, tree |-> rt, flags |-> {DIRTY}]
           m1 == [m EXCEPT ![t][rt] = e]
           N == OverAnchors(m, L)
<1>1. e \in AnchorEntry
  BY Zenon DEF AnchorEntry
<1>2. m1 \in AnchorMaps
  BY <1>1, Zenon DEF AnchorMaps
<1>3. /\ m1[t][rt] = e
      /\ \A u \in Types, r \in Roots : u # t \/ r # rt => m1[u][r] = m[u][r]
  BY Zenon DEF AnchorMaps
<1> HIDE DEF m1
<1>4. ASSUME NEW u \in Types
      PROVE  OverAnchors(m1, L)[u] = [N EXCEPT ![t] = IF on THEN @ \cup {rt} ELSE @ \ {rt}][u]
  <2>1. CASE u # t
    BY <1>3, <2>1, Zenon DEF OverAnchors
  <2>2. CASE u = t /\ on
    BY <1>3, <2>2 DEF OverAnchors
  <2>3. CASE u = t /\ ~on
    BY <1>3, <2>3 DEF OverAnchors
  <2> QED BY <2>1, <2>2, <2>3, Zenon
<1>5. OverAnchors(m1, L) = [N EXCEPT ![t] = IF on THEN @ \cup {rt} ELSE @ \ {rt}]
  BY <1>4, Zenon DEF OverAnchors
<1>6. AnchorFlags(m1, L) /\ Trees(m1)
  BY <1>3 DEF AnchorFlags, Trees
<1> QED BY <1>2, <1>5, <1>6, Zenon DEF m1

\* A flush of the view gives pcoinsTip the view's anchors.
LEMMA AnchorFlushView ==
    ASSUME NEW ta \in AnchorMaps, NEW va \in AnchorMaps, NEW L \in RootSets,
           AnchorFlags(ta, L), AnchorFlags(va, OverAnchors(ta, L)), Trees(ta), Trees(va)
    PROVE  LET m1 == BatchWriteAnchors(va, ta) IN
           /\ m1 \in AnchorMaps
           /\ OverAnchors(m1, L) = OverAnchors(va, OverAnchors(ta, L))
           /\ AnchorFlags(m1, L)
           /\ Trees(m1)
<1> DEFINE m1 == BatchWriteAnchors(va, ta)
<1>1. ASSUME NEW t \in Types, NEW r \in Roots
      PROVE  /\ m1[t][r] \in AnchorEntry
             /\ m1[t][r].in => m1[t][r].tree = r
             /\ r \in OverAnchors(m1, L)[t] <=> r \in OverAnchors(va, OverAnchors(ta, L))[t]
             /\ m1[t][r].in /\ DIRTY \notin m1[t][r].flags
                  => (m1[t][r].entered <=> r \in L[t])
  <2> DEFINE e == va[t][r]  p == ta[t][r]
  <2>1. e \in AnchorEntry /\ p \in AnchorEntry
    BY Zenon DEF AnchorMaps
  <2>2. /\ p.in /\ DIRTY \notin p.flags => (p.entered <=> r \in L[t])
        /\ e.in /\ DIRTY \notin e.flags =>
             (e.entered <=> IF p.in THEN p.entered ELSE r \in L[t])
        /\ p.in => p.tree = r
        /\ e.in => e.tree = r
    BY DEF AnchorFlags, OverAnchors, Trees
  <2>3. m1[t][r] = IF ~e.in \/ DIRTY \notin e.flags THEN p
                   ELSE IF ~p.in \/ p.entered # e.entered
                        THEN [in |-> TRUE, entered |-> e.entered, flags |-> {DIRTY},
                              tree |-> IF p.in THEN p.tree ELSE e.tree]
                   ELSE p
    BY Zenon DEF BatchWriteAnchors
  <2>4. /\ r \in OverAnchors(m1, L)[t]
             <=> IF m1[t][r].in THEN m1[t][r].entered ELSE r \in L[t]
        /\ r \in OverAnchors(va, OverAnchors(ta, L))[t]
             <=> IF e.in THEN e.entered ELSE IF p.in THEN p.entered ELSE r \in L[t]
    BY Zenon DEF OverAnchors
  <2> HIDE DEF m1, e, p
  <2>5. CASE ~e.in \/ DIRTY \notin e.flags \/ (p.in /\ p.entered = e.entered)
    <3>1. m1[t][r] = p
      BY <2>1, <2>3, <2>5, Zenon DEF AnchorEntry
    <3> QED BY <2>1, <2>2, <2>4, <2>5, <3>1, Zenon DEF AnchorEntry
  <2>6. CASE e.in /\ DIRTY \in e.flags /\ ~(p.in /\ p.entered = e.entered)
    <3>1. m1[t][r] = [in |-> TRUE, entered |-> e.entered, flags |-> {DIRTY}, tree |-> r]
      BY <2>1, <2>2, <2>3, <2>6, Zenon DEF AnchorEntry
    <3> QED BY <2>1, <2>2, <2>4, <2>6, <3>1, Zenon DEF AnchorEntry
  <2> QED BY <2>5, <2>6, Zenon
<1>2. m1 \in AnchorMaps
  BY <1>1, Zenon DEF AnchorMaps, BatchWriteAnchors
<1> HIDE DEF m1
<1>3. ASSUME NEW t \in Types
      PROVE  OverAnchors(m1, L)[t] = OverAnchors(va, OverAnchors(ta, L))[t]
  <2>1. OverAnchors(m1, L)[t] \subseteq Roots /\ OverAnchors(va, OverAnchors(ta, L))[t] \subseteq Roots
    BY Zenon DEF OverAnchors
  <2> QED BY <1>1, <2>1, Zenon
<1>4. OverAnchors(m1, L) = OverAnchors(va, OverAnchors(ta, L))
  BY <1>3, Zenon DEF OverAnchors
<1>5. AnchorFlags(m1, L) /\ Trees(m1)
  BY <1>1, Zenon DEF AnchorFlags, Trees
<1> QED BY <1>2, <1>4, <1>5, Zenon DEF m1

\* The database after a flush of pcoinsTip, and an empty cache over it, have the
\* anchors pcoinsTip had.
LEMMA AnchorFlushTip ==
    ASSUME NEW ta \in AnchorMaps, NEW da \in RootSets,
           LET L == [t \in Types |-> da[t] \cup {EmptyRoot}] IN
             /\ AnchorFlags(ta, L)
             /\ \A t \in Types : EmptyRoot \in OverAnchors(ta, L)[t]
    PROVE  LET L == [t \in Types |-> da[t] \cup {EmptyRoot}]
               da1 == [t \in Types |-> {r \in Roots :
                         LET e == ta[t][r]
                         IN  IF e.in /\ DIRTY \in e.flags /\ (e.entered => r # EmptyRoot)
                             THEN e.entered ELSE r \in da[t]}] IN
           /\ da1 \in RootSets
           /\ [t \in Types |-> da1[t] \cup {EmptyRoot}] = OverAnchors(ta, L)
<1> DEFINE L == [t \in Types |-> da[t] \cup {EmptyRoot}]
           da1 == [t \in Types |-> {r \in Roots :
                     LET e == ta[t][r]
                     IN  IF e.in /\ DIRTY \in e.flags /\ (e.entered => r # EmptyRoot)
                         THEN e.entered ELSE r \in da[t]}]
<1>1. da1 \in RootSets
  BY Zenon DEF RootSets
<1>2. ASSUME NEW t \in Types, NEW r \in Roots
      PROVE  r \in da1[t] \cup {EmptyRoot} <=> r \in OverAnchors(ta, L)[t]
  <2>1. ta[t][r] \in AnchorEntry
    BY Zenon DEF AnchorMaps
  <2>2. CASE r = EmptyRoot
    BY <2>2, Zenon
  <2>3. CASE r # EmptyRoot
    <3>1. r \in OverAnchors(ta, L)[t] <=> IF ta[t][r].in THEN ta[t][r].entered ELSE r \in da[t]
      BY <2>3, Zenon DEF OverAnchors
    <3>2. r \in da1[t] <=> IF ta[t][r].in /\ DIRTY \in ta[t][r].flags
                           THEN ta[t][r].entered ELSE r \in da[t]
      BY <2>3, Zenon
    <3>3. ta[t][r].in /\ DIRTY \notin ta[t][r].flags => (ta[t][r].entered <=> r \in da[t])
      BY <2>3, Zenon DEF AnchorFlags
    <3> QED BY <2>3, <3>1, <3>2, <3>3, Zenon
  <2> QED BY <2>2, <2>3, Zenon
<1>3. ASSUME NEW t \in Types
      PROVE  da1[t] \cup {EmptyRoot} = OverAnchors(ta, L)[t]
  <2>1. da1[t] \cup {EmptyRoot} \subseteq Roots /\ OverAnchors(ta, L)[t] \subseteq Roots
    BY <1>1, RootAssumption, Zenon DEF OverAnchors, RootSets
  <2> HIDE DEF da1, L
  <2> QED BY <1>2, <2>1, Zenon
<1>4. [t \in Types |-> da1[t] \cup {EmptyRoot}] = OverAnchors(ta, L)
  <2> HIDE DEF da1, L
  <2> QED BY <1>3, Zenon DEF OverAnchors
<1> QED BY <1>1, <1>4, Zenon

NoAnchors == [t \in Types |-> [r \in Roots |-> NoAnchor]]

\* A cache with no anchors answers as the view below it does.
LEMMA AnchorEmpty ==
    ASSUME NEW L \in RootSets
    PROVE  /\ NoAnchors \in AnchorMaps
           /\ OverAnchors(NoAnchors, L) = L
           /\ AnchorFlags(NoAnchors, L)
           /\ Trees(NoAnchors)
<1>1. NoAnchor \in AnchorEntry /\ ~NoAnchor.in
  BY RootAssumption, Zenon DEF NoAnchor, AnchorEntry
<1>2. \A t \in Types, r \in Roots : NoAnchors[t][r] = NoAnchor
  BY Zenon DEF NoAnchors
<1>3. NoAnchors \in AnchorMaps
  BY <1>1, Zenon DEF NoAnchors, AnchorMaps
<1>4. ASSUME NEW t \in Types
      PROVE  OverAnchors(NoAnchors, L)[t] = L[t]
  <2>1. L[t] \subseteq Roots
    BY Zenon DEF RootSets
  <2> QED BY <1>1, <1>2, <2>1, Zenon DEF OverAnchors
<1>5. OverAnchors(NoAnchors, L) = L
  BY <1>4, Zenon DEF OverAnchors, RootSets
<1> QED BY <1>1, <1>2, <1>3, <1>5, Zenon DEF AnchorFlags, Trees

\* The anchors a cache represents are sets of roots.
LEMMA OverAnchorsType ==
    ASSUME NEW m \in AnchorMaps, NEW L \in RootSets
    PROVE  OverAnchors(m, L) \in RootSets
BY Zenon DEF OverAnchors, RootSets

-----------------------------------------------------------------------------
(* Nullifiers: a map m over a view whose spent nullifiers are S. *)

NfSets == [Types -> SUBSET Nfs]

\* A read may add an entry; it answers what the ledger holds.
LEMMA NfRead ==
    ASSUME NEW m \in NfMaps, NEW S \in NfSets, NEW t \in Types, NEW nf \in Nfs,
           NEW spent \in BOOLEAN, spent <=> nf \in S[t], NullifierFlags(m, S)
    PROVE  LET m1 == GetNullifier(m, t, nf, spent) IN
           /\ m1 \in NfMaps
           /\ OverNullifiers(m1, S) = OverNullifiers(m, S)
           /\ NullifierFlags(m1, S)
           /\ m1[t][nf].entered <=> nf \in OverNullifiers(m, S)[t]
           /\ m1[t][nf].entered \in BOOLEAN
<1> DEFINE m1 == GetNullifier(m, t, nf, spent)
<1>1. CASE m[t][nf].in
  <2>1. m1 = m
    BY <1>1, Zenon DEF GetNullifier
  <2>2. m[t][nf].entered <=> nf \in OverNullifiers(m, S)[t]
    BY <1>1, Zenon DEF OverNullifiers
  <2>3. m[t][nf].entered \in BOOLEAN
    BY Zenon DEF NfMaps, NfEntry
  <2> HIDE DEF m1
  <2> QED BY <2>1, <2>2, <2>3, Zenon DEF m1
<1>2. CASE ~m[t][nf].in
  <2> DEFINE e == [in |-> TRUE, entered |-> spent, flags |-> {}]
  <2>1. m1 = [m EXCEPT ![t] = [m[t] EXCEPT ![nf] = e]]
    BY <1>2, Zenon DEF GetNullifier
  <2>2. e \in NfEntry
    BY Zenon DEF NfEntry
  <2>3. m1 \in NfMaps
    BY <2>1, <2>2 DEF NfMaps
  <2> HIDE DEF m1
  <2>4. /\ m1[t][nf] = e
        /\ \A u \in Types, n \in Nfs : u # t \/ n # nf => m1[u][n] = m[u][n]
    BY <2>1, Zenon DEF NfMaps
  <2>5. ASSUME NEW u \in Types
        PROVE  OverNullifiers(m1, S)[u] = OverNullifiers(m, S)[u]
    BY <1>2, <2>4 DEF OverNullifiers
  <2>6. OverNullifiers(m1, S) = OverNullifiers(m, S)
    BY <2>5, Zenon DEF OverNullifiers
  <2>7. NullifierFlags(m1, S)
    BY <1>2, <2>4 DEF NullifierFlags
  <2>8. spent <=> nf \in OverNullifiers(m, S)[t]
    BY <1>2, Zenon DEF OverNullifiers
  <2> QED BY <2>3, <2>4, <2>6, <2>7, <2>8 DEF m1
<1> QED BY <1>1, <1>2, Zenon

\* A write changes that nullifier and nothing else.
LEMMA NfWrite ==
    ASSUME NEW m \in NfMaps, NEW S \in NfSets, NEW t \in Types, NEW nf \in Nfs,
           NEW spent \in BOOLEAN, NullifierFlags(m, S)
    PROVE  LET m1 == [m EXCEPT ![t][nf] = [in |-> TRUE, entered |-> spent, flags |-> {DIRTY}]] IN
           /\ m1 \in NfMaps
           /\ OverNullifiers(m1, S) = [OverNullifiers(m, S) EXCEPT
                                         ![t] = IF spent THEN @ \cup {nf} ELSE @ \ {nf}]
           /\ NullifierFlags(m1, S)
<1> DEFINE e == [in |-> TRUE, entered |-> spent, flags |-> {DIRTY}]
           m1 == [m EXCEPT ![t][nf] = e]
           N == OverNullifiers(m, S)
<1>1. e \in NfEntry
  BY Zenon DEF NfEntry
<1>2. m1 \in NfMaps
  BY <1>1, Zenon DEF NfMaps
<1>3. /\ m1[t][nf] = e
      /\ \A u \in Types, n \in Nfs : u # t \/ n # nf => m1[u][n] = m[u][n]
  BY Zenon DEF NfMaps
<1> HIDE DEF m1
<1>4. ASSUME NEW u \in Types
      PROVE  OverNullifiers(m1, S)[u] = [N EXCEPT ![t] = IF spent THEN @ \cup {nf} ELSE @ \ {nf}][u]
  <2>1. CASE u # t
    BY <1>3, <2>1, ZenonT(60) DEF OverNullifiers
  <2>2. CASE u = t /\ spent
    BY <1>3, <2>2 DEF OverNullifiers
  <2>3. CASE u = t /\ ~spent
    BY <1>3, <2>3 DEF OverNullifiers
  <2> QED BY <2>1, <2>2, <2>3, Zenon
<1>5. OverNullifiers(m1, S) = [N EXCEPT ![t] = IF spent THEN @ \cup {nf} ELSE @ \ {nf}]
  BY <1>4, Zenon DEF OverNullifiers
<1>6. NullifierFlags(m1, S)
  BY <1>3 DEF NullifierFlags
<1> QED BY <1>2, <1>5, <1>6, Zenon DEF m1

\* A flush of the view gives pcoinsTip the view's nullifiers.
LEMMA NfFlushView ==
    ASSUME NEW tn \in NfMaps, NEW vn \in NfMaps, NEW S \in NfSets,
           NullifierFlags(tn, S), NullifierFlags(vn, OverNullifiers(tn, S))
    PROVE  LET m1 == BatchWriteNullifiers(vn, tn) IN
           /\ m1 \in NfMaps
           /\ OverNullifiers(m1, S) = OverNullifiers(vn, OverNullifiers(tn, S))
           /\ NullifierFlags(m1, S)
<1> DEFINE m1 == BatchWriteNullifiers(vn, tn)
<1>1. ASSUME NEW t \in Types, NEW n \in Nfs
      PROVE  /\ m1[t][n] \in NfEntry
             /\ n \in OverNullifiers(m1, S)[t] <=> n \in OverNullifiers(vn, OverNullifiers(tn, S))[t]
             /\ m1[t][n].in /\ DIRTY \notin m1[t][n].flags
                  => (m1[t][n].entered <=> n \in S[t])
  <2> DEFINE e == vn[t][n]  p == tn[t][n]
  <2>1. e \in NfEntry /\ p \in NfEntry
    BY Zenon DEF NfMaps
  <2>2. /\ p.in /\ DIRTY \notin p.flags => (p.entered <=> n \in S[t])
        /\ e.in /\ DIRTY \notin e.flags =>
             (e.entered <=> IF p.in THEN p.entered ELSE n \in S[t])
    BY Zenon DEF NullifierFlags, OverNullifiers
  <2>3. m1[t][n] = IF ~e.in \/ DIRTY \notin e.flags THEN p
                   ELSE IF ~p.in \/ p.entered # e.entered
                        THEN [in |-> TRUE, entered |-> e.entered, flags |-> {DIRTY}]
                   ELSE p
    BY Zenon DEF BatchWriteNullifiers
  <2>4. /\ n \in OverNullifiers(m1, S)[t]
             <=> IF m1[t][n].in THEN m1[t][n].entered ELSE n \in S[t]
        /\ n \in OverNullifiers(vn, OverNullifiers(tn, S))[t]
             <=> IF e.in THEN e.entered ELSE IF p.in THEN p.entered ELSE n \in S[t]
    BY Zenon DEF OverNullifiers
  <2> HIDE DEF m1, e, p
  <2>5. CASE ~e.in \/ DIRTY \notin e.flags \/ (p.in /\ p.entered = e.entered)
    <3>1. m1[t][n] = p
      BY <2>1, <2>3, <2>5, Zenon DEF NfEntry
    <3> QED BY <2>1, <2>2, <2>4, <2>5, <3>1, Zenon DEF NfEntry
  <2>6. CASE e.in /\ DIRTY \in e.flags /\ ~(p.in /\ p.entered = e.entered)
    <3>1. m1[t][n] = [in |-> TRUE, entered |-> e.entered, flags |-> {DIRTY}]
      BY <2>1, <2>3, <2>6, Zenon DEF NfEntry
    <3> QED BY <2>1, <2>2, <2>4, <2>6, <3>1, ZenonT(60) DEF NfEntry
  <2> QED BY <2>5, <2>6, Zenon
<1>2. m1 \in NfMaps
  BY <1>1, Zenon DEF NfMaps, BatchWriteNullifiers
<1> HIDE DEF m1
<1>3. ASSUME NEW t \in Types
      PROVE  OverNullifiers(m1, S)[t] = OverNullifiers(vn, OverNullifiers(tn, S))[t]
  <2>1. OverNullifiers(m1, S)[t] \subseteq Nfs /\ OverNullifiers(vn, OverNullifiers(tn, S))[t] \subseteq Nfs
    BY Zenon DEF OverNullifiers
  <2> QED BY <1>1, <2>1, Zenon
<1>4. OverNullifiers(m1, S) = OverNullifiers(vn, OverNullifiers(tn, S))
  BY <1>3, Zenon DEF OverNullifiers
<1>5. NullifierFlags(m1, S)
  BY <1>1, Zenon DEF NullifierFlags
<1> QED BY <1>2, <1>4, <1>5, Zenon DEF m1

\* The database after a flush of pcoinsTip has the nullifiers pcoinsTip had.
LEMMA NfFlushTip ==
    ASSUME NEW tn \in NfMaps, NEW S \in NfSets, NullifierFlags(tn, S)
    PROVE  [t \in Types |-> {n \in Nfs :
              LET e == tn[t][n]
              IN  IF e.in /\ DIRTY \in e.flags THEN e.entered ELSE n \in S[t]}]
             = OverNullifiers(tn, S)
<1>1. ASSUME NEW t \in Types, NEW n \in Nfs
      PROVE  (IF tn[t][n].in /\ DIRTY \in tn[t][n].flags THEN tn[t][n].entered ELSE n \in S[t])
               <=> IF tn[t][n].in THEN tn[t][n].entered ELSE n \in S[t]
  BY Zenon DEF NullifierFlags
<1> QED BY <1>1, Zenon DEF OverNullifiers

NoNfs == [t \in Types |-> [n \in Nfs |-> NoNf]]

\* A cache with no nullifiers answers as the view below it does.
LEMMA NfEmpty ==
    ASSUME NEW S \in NfSets
    PROVE  /\ NoNfs \in NfMaps
           /\ OverNullifiers(NoNfs, S) = S
           /\ NullifierFlags(NoNfs, S)
<1>1. NoNf \in NfEntry /\ ~NoNf.in
  BY Zenon DEF NoNf, NfEntry
<1>2. \A t \in Types, n \in Nfs : NoNfs[t][n] = NoNf
  BY Zenon DEF NoNfs
<1>3. NoNfs \in NfMaps
  BY <1>1, Zenon DEF NoNfs, NfMaps
<1>4. ASSUME NEW t \in Types
      PROVE  OverNullifiers(NoNfs, S)[t] = S[t]
  <2>1. S[t] \subseteq Nfs
    BY Zenon DEF NfSets
  <2> QED BY <1>1, <1>2, <2>1, Zenon DEF OverNullifiers
<1>5. OverNullifiers(NoNfs, S) = S
  BY <1>4, Zenon DEF OverNullifiers, NfSets
<1> QED BY <1>1, <1>2, <1>3, <1>5, Zenon DEF NullifierFlags

\* The nullifiers a cache represents are sets of nullifiers.
LEMMA OverNullifiersType ==
    ASSUME NEW m \in NfMaps, NEW S \in NfSets
    PROVE  OverNullifiers(m, S) \in NfSets
BY Zenon DEF OverNullifiers, NfSets

-----------------------------------------------------------------------------
(* The cached hashes: h over a view whose best anchors are b. *)

Hashes == [Types -> Roots \cup {Null}]

\* A read may cache the hash; it answers the best anchor of the ledger.
LEMMA HashRead ==
    ASSUME NEW h \in Hashes, NEW b \in [Types -> Roots], NEW t \in Types
    PROVE  /\ GetBestAnchor(h, t, b[t]) \in Hashes
           /\ OverBestAnchor(GetBestAnchor(h, t, b[t]), b) = OverBestAnchor(h, b)
           /\ GetBestAnchor(h, t, b[t])[t] = OverBestAnchor(h, b)[t]
           /\ OverBestAnchor(h, b) \in [Types -> Roots]
BY NullAssumption, Zenon DEF GetBestAnchor, OverBestAnchor, Hashes

-----------------------------------------------------------------------------
(* The inductive invariant. *)

DbAnchors == [t \in Types |-> db.anchors[t] \cup {EmptyRoot}]

\* The empty root is an anchor whatever the caches hold.
AnchorInv(da, ta, va) ==
    /\ AnchorFlags(ta, da)
    /\ AnchorFlags(va, OverAnchors(ta, da))
    /\ Trees(ta)
    /\ Trees(va)
    /\ \A t \in Types : /\ EmptyRoot \in OverAnchors(ta, da)[t]
                         /\ EmptyRoot \in OverAnchors(va, OverAnchors(ta, da))[t]

NfInv(dn, tn, vn) ==
    /\ NullifierFlags(tn, dn)
    /\ NullifierFlags(vn, OverNullifiers(tn, dn))

MapsInv == /\ CoinsInv(db.coins, tip.cacheCoins, view.cacheCoins)
           /\ AnchorInv(DbAnchors, tip.cacheAnchors, view.cacheAnchors)
           /\ NfInv(db.nullifiers, tip.cacheNullifiers, view.cacheNullifiers)
           /\ ~open => view = EmptyCache

Inv == TypeOK /\ MapsInv

\* What each view represents, map by map.
LEMMA Represented ==
      /\ DbLedger = [coins |-> db.coins, anchors |-> DbAnchors, nullifiers |-> db.nullifiers,
                     bestBlock |-> db.bestBlock, bestAnchor |-> db.bestAnchor]
      /\ TipLedger = [coins      |-> OverCoins(tip.cacheCoins, db.coins),
                      anchors    |-> OverAnchors(tip.cacheAnchors, DbAnchors),
                      nullifiers |-> OverNullifiers(tip.cacheNullifiers, db.nullifiers),
                      bestBlock  |-> GetBestBlock(tip.hashBlock, db.bestBlock),
                      bestAnchor |-> OverBestAnchor(tip.hashAnchor, db.bestAnchor)]
      /\ ViewLedger = [coins      |-> OverCoins(view.cacheCoins, TipLedger.coins),
                       anchors    |-> OverAnchors(view.cacheAnchors, TipLedger.anchors),
                       nullifiers |-> OverNullifiers(view.cacheNullifiers, TipLedger.nullifiers),
                       bestBlock  |-> GetBestBlock(view.hashBlock, TipLedger.bestBlock),
                       bestAnchor |-> OverBestAnchor(view.hashAnchor, TipLedger.bestAnchor)]
BY Zenon DEF Over, DbLedger, DbAnchors, TipLedger, ViewLedger

\* The types of the maps and of what they represent.
FieldsTyped ==
    /\ db \in Databases /\ tip \in Caches /\ view \in Caches /\ open \in BOOLEAN
    /\ db.coins \in [Txids -> Coins] /\ DbAnchors \in RootSets
    /\ db.anchors \in RootSets /\ db.nullifiers \in NfSets
    /\ db.bestBlock \in Blocks /\ db.bestAnchor \in [Types -> Roots]
    /\ tip.cacheCoins \in CoinsMaps /\ view.cacheCoins \in CoinsMaps
    /\ tip.cacheAnchors \in AnchorMaps /\ view.cacheAnchors \in AnchorMaps
    /\ tip.cacheNullifiers \in NfMaps /\ view.cacheNullifiers \in NfMaps
    /\ tip.hashBlock \in Blocks \cup {Null} /\ view.hashBlock \in Blocks \cup {Null}
    /\ tip.hashAnchor \in Hashes /\ view.hashAnchor \in Hashes
    /\ OverAnchors(tip.cacheAnchors, DbAnchors) \in RootSets
    /\ OverNullifiers(tip.cacheNullifiers, db.nullifiers) \in NfSets
    /\ OverBestAnchor(tip.hashAnchor, db.bestAnchor) \in [Types -> Roots]
    /\ GetBestBlock(tip.hashBlock, db.bestBlock) \in Blocks

\* The invariant gives every field of db, tip and view its type.
LEMMA FieldTypes ==
    TypeOK => FieldsTyped
<1> SUFFICES ASSUME TypeOK PROVE FieldsTyped
  BY Zenon
<1>1. db \in Databases /\ tip \in Caches /\ view \in Caches /\ open \in BOOLEAN
  BY Zenon DEF TypeOK
<1>2. /\ db.coins \in [Txids -> Coins] /\ db.anchors \in RootSets /\ db.nullifiers \in NfSets
      /\ db.bestBlock \in Blocks /\ db.bestAnchor \in [Types -> Roots]
  BY <1>1, Zenon DEF Databases, RootSets, NfSets
<1>3. DbAnchors \in RootSets
  BY <1>2, RootAssumption, Zenon DEF DbAnchors, RootSets
<1>4. /\ tip.cacheCoins \in CoinsMaps /\ view.cacheCoins \in CoinsMaps
      /\ tip.cacheAnchors \in AnchorMaps /\ view.cacheAnchors \in AnchorMaps
      /\ tip.cacheNullifiers \in NfMaps /\ view.cacheNullifiers \in NfMaps
      /\ tip.hashBlock \in Blocks \cup {Null} /\ view.hashBlock \in Blocks \cup {Null}
      /\ tip.hashAnchor \in Hashes /\ view.hashAnchor \in Hashes
  BY <1>1, Zenon DEF Caches, CoinsMaps, AnchorMaps, NfMaps, Hashes
<1>5. OverAnchors(tip.cacheAnchors, DbAnchors) \in RootSets
  BY <1>3, <1>4, OverAnchorsType, Zenon
<1>6. OverNullifiers(tip.cacheNullifiers, db.nullifiers) \in NfSets
  BY <1>2, <1>4, OverNullifiersType, Zenon
<1>7. OverBestAnchor(tip.hashAnchor, db.bestAnchor) \in [Types -> Roots]
  BY <1>2, <1>4, NullAssumption, Zenon DEF OverBestAnchor, Hashes
<1>8. GetBestBlock(tip.hashBlock, db.bestBlock) \in Blocks
  BY <1>2, <1>4, Zenon DEF GetBestBlock
<1> QED BY <1>1, <1>2, <1>3, <1>4, <1>5, <1>6, <1>7, <1>8, Zenon DEF FieldsTyped

\* The view's ledger with the nullifiers replaced, and with the anchors and best anchors.
LEMMA ViewLedgerWith ==
    ASSUME NEW n, NEW a, NEW h
    PROVE  /\ [ViewLedger EXCEPT !.nullifiers = n]
                = [coins |-> ViewLedger.coins, anchors |-> ViewLedger.anchors, nullifiers |-> n,
                   bestBlock |-> ViewLedger.bestBlock, bestAnchor |-> ViewLedger.bestAnchor]
           /\ [ViewLedger EXCEPT !.anchors = a, !.bestAnchor = h]
                = [coins |-> ViewLedger.coins, anchors |-> a, nullifiers |-> ViewLedger.nullifiers,
                   bestBlock |-> ViewLedger.bestBlock, bestAnchor |-> h]
<1> DEFINE D == ViewLedger
           E == [D EXCEPT !.nullifiers = n]
           F == [D EXCEPT !.anchors = a, !.bestAnchor = h]
<1>1. D \in [coins : {D.coins}, anchors : {D.anchors}, nullifiers : {D.nullifiers},
             bestBlock : {D.bestBlock}, bestAnchor : {D.bestAnchor}]
  BY Zenon DEF ViewLedger, Over
<1> HIDE DEF D
<1>2. E \in [coins : {D.coins}, anchors : {D.anchors}, nullifiers : {n},
             bestBlock : {D.bestBlock}, bestAnchor : {D.bestAnchor}]
  BY <1>1, Zenon
<1>3. F \in [coins : {D.coins}, anchors : {a}, nullifiers : {D.nullifiers},
             bestBlock : {D.bestBlock}, bestAnchor : {h}]
  BY <1>1, Zenon
<1> HIDE DEF E, F
<1>4. E = [coins |-> D.coins, anchors |-> D.anchors, nullifiers |-> n,
           bestBlock |-> D.bestBlock, bestAnchor |-> D.bestAnchor]
  BY <1>2, Zenon
<1>5. F = [coins |-> D.coins, anchors |-> a, nullifiers |-> D.nullifiers,
           bestBlock |-> D.bestBlock, bestAnchor |-> h]
  BY <1>3, Zenon
<1> QED BY <1>4, <1>5, Zenon DEF D, E, F

\* Nothing that is seen through a view changes.
SameLedgers == DbLedger' = DbLedger /\ TipLedger' = TipLedger /\ ViewLedger' = ViewLedger

\* A cache with one member replaced.
LEMMA WithCoins ==
    ASSUME NEW c \in Caches, NEW m \in CoinsMaps, NEW d, d = [c EXCEPT !.cacheCoins = m]
    PROVE  /\ d \in Caches
           /\ d.cacheCoins = m
           /\ d.cacheAnchors = c.cacheAnchors
           /\ d.cacheNullifiers = c.cacheNullifiers
           /\ d.hashBlock = c.hashBlock
           /\ d.hashAnchor = c.hashAnchor
BY Zenon DEF Caches, CoinsMaps

\* Replacing the anchors of a cache leaves its other members as they were.
LEMMA WithAnchors ==
    ASSUME NEW c \in Caches, NEW m \in AnchorMaps, NEW d, d = [c EXCEPT !.cacheAnchors = m]
    PROVE  /\ d \in Caches
           /\ d.cacheAnchors = m
           /\ d.cacheCoins = c.cacheCoins
           /\ d.cacheNullifiers = c.cacheNullifiers
           /\ d.hashBlock = c.hashBlock
           /\ d.hashAnchor = c.hashAnchor
BY Zenon DEF Caches, AnchorMaps

\* Replacing the nullifiers of a cache leaves its other members as they were.
LEMMA WithNullifiers ==
    ASSUME NEW c \in Caches, NEW m \in NfMaps, NEW d, d = [c EXCEPT !.cacheNullifiers = m]
    PROVE  /\ d \in Caches
           /\ d.cacheNullifiers = m
           /\ d.cacheCoins = c.cacheCoins
           /\ d.cacheAnchors = c.cacheAnchors
           /\ d.hashBlock = c.hashBlock
           /\ d.hashAnchor = c.hashAnchor
BY Zenon DEF Caches, NfMaps

\* Replacing hashBlock of a cache leaves its other members as they were.
LEMMA WithHashBlock ==
    ASSUME NEW c \in Caches, NEW m \in Blocks \cup {Null}, NEW d, d = [c EXCEPT !.hashBlock = m]
    PROVE  /\ d \in Caches
           /\ d.hashBlock = m
           /\ d.cacheCoins = c.cacheCoins
           /\ d.cacheAnchors = c.cacheAnchors
           /\ d.cacheNullifiers = c.cacheNullifiers
           /\ d.hashAnchor = c.hashAnchor
BY Zenon DEF Caches

\* Replacing hashAnchor of a cache leaves its other members as they were.
LEMMA WithHashAnchor ==
    ASSUME NEW c \in Caches, NEW m \in Hashes, NEW d, d = [c EXCEPT !.hashAnchor = m]
    PROVE  /\ d \in Caches
           /\ d.hashAnchor = m
           /\ d.cacheCoins = c.cacheCoins
           /\ d.cacheAnchors = c.cacheAnchors
           /\ d.cacheNullifiers = c.cacheNullifiers
           /\ d.hashBlock = c.hashBlock
BY Zenon DEF Caches, Hashes

\* What the reads of pcoinsTip do to its own maps.
LEMMA TipAnchorRead ==
    ASSUME Inv, NEW t \in Types, NEW rt \in Roots
    PROVE  LET a == TipGetAnchorAt(t, rt)
               N == OverAnchors(tip.cacheAnchors, DbAnchors) IN
           /\ a \in AnchorMaps
           /\ OverAnchors(a, DbAnchors) = N
           /\ AnchorFlags(a, DbAnchors)
           /\ Trees(a)
           /\ TipAnchor(t, rt).found <=> rt \in N[t]
           /\ rt \in N[t] => TipAnchor(t, rt).tree = rt
<1> DEFINE base == DbAnchor(t, rt)
<1>1. TypeOK /\ AnchorFlags(tip.cacheAnchors, DbAnchors) /\ Trees(tip.cacheAnchors)
  BY Zenon DEF Inv, AnchorInv, MapsInv
<1>2. base.tree = rt /\ (base.found <=> rt \in DbAnchors[t])
  BY <1>1, Zenon DEF DbAnchor, DbAnchors
<1>3. DbAnchors \in RootSets /\ tip.cacheAnchors \in AnchorMaps
  BY <1>1, FieldTypes, Zenon DEF FieldsTyped
<1> HIDE DEF base
<1>4. LET a == GetAnchorAt(tip.cacheAnchors, t, rt, base)
          N == OverAnchors(tip.cacheAnchors, DbAnchors) IN
      /\ a \in AnchorMaps
      /\ OverAnchors(a, DbAnchors) = N
      /\ AnchorFlags(a, DbAnchors)
      /\ Trees(a)
      /\ a[t][rt].in /\ a[t][rt].entered <=> rt \in N[t]
      /\ rt \in N[t] => a[t][rt].tree = rt
  BY <1>1, <1>2, <1>3, AnchorRead
<1> QED BY <1>4, Zenon DEF TipGetAnchorAt, TipAnchor, base

\* The view finds exactly the anchors of the ledger it represents (GetSproutAnchorAt, GetSaplingAnchorAt).
LEMMA ViewAnchorRead ==
    ASSUME Inv, NEW t \in Types, NEW rt \in Roots
    PROVE  LET a == GetAnchorAt(view.cacheAnchors, t, rt, TipAnchor(t, rt))
               L == OverAnchors(tip.cacheAnchors, DbAnchors)
               N == OverAnchors(view.cacheAnchors, L) IN
           /\ a \in AnchorMaps
           /\ OverAnchors(a, L) = N
           /\ AnchorFlags(a, L)
           /\ Trees(a)
           /\ ViewHasAnchor(t, rt) <=> rt \in N[t]
           /\ rt \in N[t] => a[t][rt].tree = rt
<1> DEFINE base == TipAnchor(t, rt)
           L == OverAnchors(tip.cacheAnchors, DbAnchors)
<1>1. TypeOK /\ AnchorFlags(view.cacheAnchors, L) /\ Trees(view.cacheAnchors)
  BY Zenon DEF Inv, AnchorInv, MapsInv
<1>2. (base.found <=> rt \in L[t]) /\ (rt \in L[t] => base.tree = rt)
  BY TipAnchorRead, Zenon
<1>3. L \in RootSets /\ view.cacheAnchors \in AnchorMaps
  BY <1>1, FieldTypes, Zenon DEF FieldsTyped
<1> HIDE DEF base, L
<1>4. LET a == GetAnchorAt(view.cacheAnchors, t, rt, base)
          N == OverAnchors(view.cacheAnchors, L) IN
      /\ a \in AnchorMaps
      /\ OverAnchors(a, L) = N
      /\ AnchorFlags(a, L)
      /\ Trees(a)
      /\ a[t][rt].in /\ a[t][rt].entered <=> rt \in N[t]
      /\ rt \in N[t] => a[t][rt].tree = rt
  BY <1>1, <1>2, <1>3, AnchorRead
<1> QED BY <1>4, Zenon DEF ViewHasAnchor, base, L

\* pcoinsTip answers a nullifier as the ledger it represents (GetNullifier).
LEMMA TipNfRead ==
    ASSUME Inv, NEW t \in Types, NEW nf \in Nfs
    PROVE  LET n == TipGetNullifier(t, nf)
               N == OverNullifiers(tip.cacheNullifiers, db.nullifiers) IN
           /\ n \in NfMaps
           /\ OverNullifiers(n, db.nullifiers) = N
           /\ NullifierFlags(n, db.nullifiers)
           /\ TipNullifier(t, nf) <=> nf \in N[t]
           /\ TipNullifier(t, nf) \in BOOLEAN
<1> DEFINE spent == DbNullifier(t, nf)
<1>1. TypeOK /\ NullifierFlags(tip.cacheNullifiers, db.nullifiers)
  BY Zenon DEF Inv, NfInv, MapsInv
<1>2. db.nullifiers \in NfSets /\ tip.cacheNullifiers \in NfMaps
  BY <1>1, FieldTypes, Zenon DEF FieldsTyped
<1>3. spent \in BOOLEAN /\ (spent <=> nf \in db.nullifiers[t])
  BY DEF DbNullifier
<1> HIDE DEF spent
<1>4. LET n == GetNullifier(tip.cacheNullifiers, t, nf, spent)
          N == OverNullifiers(tip.cacheNullifiers, db.nullifiers) IN
      /\ n \in NfMaps
      /\ OverNullifiers(n, db.nullifiers) = N
      /\ NullifierFlags(n, db.nullifiers)
      /\ n[t][nf].entered <=> nf \in N[t]
      /\ n[t][nf].entered \in BOOLEAN
  BY <1>1, <1>2, <1>3, NfRead
<1> QED BY <1>4, Zenon DEF TipGetNullifier, TipNullifier, spent

\* What a step leaves alone when it touches one kind of map.
OnlyCoins == /\ tip'.cacheAnchors = tip.cacheAnchors /\ view'.cacheAnchors = view.cacheAnchors
             /\ tip'.cacheNullifiers = tip.cacheNullifiers
             /\ view'.cacheNullifiers = view.cacheNullifiers
             /\ tip'.hashBlock = tip.hashBlock /\ view'.hashBlock = view.hashBlock
             /\ tip'.hashAnchor = tip.hashAnchor /\ view'.hashAnchor = view.hashAnchor

OnlyAnchors == /\ tip'.cacheCoins = tip.cacheCoins /\ view'.cacheCoins = view.cacheCoins
               /\ tip'.cacheNullifiers = tip.cacheNullifiers
               /\ view'.cacheNullifiers = view.cacheNullifiers
               /\ tip'.hashBlock = tip.hashBlock /\ view'.hashBlock = view.hashBlock
               /\ tip'.hashAnchor = tip.hashAnchor /\ view'.hashAnchor = view.hashAnchor

OnlyNullifiers == /\ tip'.cacheCoins = tip.cacheCoins /\ view'.cacheCoins = view.cacheCoins
                  /\ tip'.cacheAnchors = tip.cacheAnchors /\ view'.cacheAnchors = view.cacheAnchors
                  /\ tip'.hashBlock = tip.hashBlock /\ view'.hashBlock = view.hashBlock
                  /\ tip'.hashAnchor = tip.hashAnchor /\ view'.hashAnchor = view.hashAnchor

OnlyHashBlock == /\ tip'.cacheCoins = tip.cacheCoins /\ view'.cacheCoins = view.cacheCoins
                 /\ tip'.cacheAnchors = tip.cacheAnchors /\ view'.cacheAnchors = view.cacheAnchors
                 /\ tip'.cacheNullifiers = tip.cacheNullifiers
                 /\ view'.cacheNullifiers = view.cacheNullifiers
                 /\ tip'.hashAnchor = tip.hashAnchor /\ view'.hashAnchor = view.hashAnchor

\* A read of pcoinsTip changes no ledger.
LEMMA StepTipRead ==
    ASSUME Inv, TipRead
    PROVE  Inv' /\ SameLedgers
<1>0. FieldsTyped /\ MapsInv
  BY FieldTypes, Zenon DEF Inv
<1>1. UNCHANGED <<db, view, open>> /\ ~open
  BY Zenon DEF TipRead
<1>2. ASSUME NEW txid \in Txids, tip' = [tip EXCEPT !.cacheCoins = TipFetchCoins(txid)]
      PROVE  Inv' /\ SameLedgers
  <2> DEFINE m == TipFetchCoins(txid)
  <2>1. m = FetchCoins(tip.cacheCoins, txid, AskDb(db.coins, txid))
    BY Zenon DEF TipFetchCoins, DbCoins, AskDb
  <2>2. /\ m \in CoinsMaps
        /\ OverCoins(m, db.coins) = OverCoins(tip.cacheCoins, db.coins)
        /\ CoinsInv(db.coins, m, view.cacheCoins)
    BY <1>0, <2>1, CoinsTipRead DEF FieldsTyped, MapsInv
  <2> HIDE DEF m
  <2>3. /\ tip' \in Caches
        /\ tip'.cacheCoins = m
        /\ tip'.cacheAnchors = tip.cacheAnchors
        /\ tip'.cacheNullifiers = tip.cacheNullifiers
        /\ tip'.hashBlock = tip.hashBlock
        /\ tip'.hashAnchor = tip.hashAnchor
    BY <1>0, <1>2, <2>2, WithCoins DEF m, FieldsTyped
  <2>4. SameLedgers
    BY <1>1, <2>2, <2>3, Zenon DEF SameLedgers, DbLedger, TipLedger, ViewLedger, Over
  <2>5. Inv'
    BY <1>0, <1>1, <2>2, <2>3, Zenon DEF TypeOK, DbAnchors, FieldsTyped, MapsInv, Inv
  <2> QED BY <2>4, <2>5, Zenon
<1>3. ASSUME NEW t \in Types, NEW rt \in Roots, tip' = [tip EXCEPT !.cacheAnchors = TipGetAnchorAt(t, rt)]
      PROVE  Inv' /\ SameLedgers
  <2> DEFINE a == TipGetAnchorAt(t, rt)
  <2>1. /\ a \in AnchorMaps
        /\ OverAnchors(a, DbAnchors) = OverAnchors(tip.cacheAnchors, DbAnchors)
        /\ AnchorFlags(a, DbAnchors)
        /\ Trees(a)
    BY TipAnchorRead, Zenon
  <2>2. AnchorInv(DbAnchors, a, view.cacheAnchors)
    BY <1>0, <2>1, Zenon DEF AnchorInv, FieldsTyped, MapsInv
  <2> HIDE DEF a
  <2>3. /\ tip' \in Caches
        /\ tip'.cacheCoins = tip.cacheCoins
        /\ tip'.cacheAnchors = a
        /\ tip'.cacheNullifiers = tip.cacheNullifiers
        /\ tip'.hashBlock = tip.hashBlock
        /\ tip'.hashAnchor = tip.hashAnchor
    BY <1>0, <1>3, <2>1, WithAnchors DEF a, FieldsTyped
  <2>4. SameLedgers
    BY <1>1, <2>1, <2>3, Zenon DEF SameLedgers, DbLedger, TipLedger, ViewLedger, Over, DbAnchors
  <2>5. Inv'
    BY <1>0, <1>1, <2>2, <2>3, Zenon DEF TypeOK, DbAnchors, FieldsTyped, MapsInv, Inv
  <2> QED BY <2>4, <2>5, Zenon
<1>4. ASSUME NEW t \in Types, NEW nf \in Nfs,
             tip' = [tip EXCEPT !.cacheNullifiers = TipGetNullifier(t, nf)]
      PROVE  Inv' /\ SameLedgers
  <2> DEFINE n == TipGetNullifier(t, nf)
  <2>1. /\ n \in NfMaps
        /\ OverNullifiers(n, db.nullifiers) = OverNullifiers(tip.cacheNullifiers, db.nullifiers)
        /\ NullifierFlags(n, db.nullifiers)
    BY TipNfRead, Zenon
  <2>2. NfInv(db.nullifiers, n, view.cacheNullifiers)
    BY <1>0, <2>1, Zenon DEF NfInv, FieldsTyped, MapsInv
  <2> HIDE DEF n
  <2>3. /\ tip' \in Caches
        /\ tip'.cacheCoins = tip.cacheCoins
        /\ tip'.cacheAnchors = tip.cacheAnchors
        /\ tip'.cacheNullifiers = n
        /\ tip'.hashBlock = tip.hashBlock
        /\ tip'.hashAnchor = tip.hashAnchor
    BY <1>0, <1>4, <2>1, WithNullifiers DEF n, FieldsTyped
  <2>4. SameLedgers
    BY <1>1, <2>1, <2>3, Zenon DEF SameLedgers, DbLedger, TipLedger, ViewLedger, Over
  <2>5. Inv'
    BY <1>0, <1>1, <2>2, <2>3, Zenon DEF TypeOK, DbAnchors, FieldsTyped, MapsInv, Inv
  <2> QED BY <2>4, <2>5, Zenon
<1>5. CASE tip' = [tip EXCEPT !.hashBlock = TipGetBestBlock]
  <2>1. TipGetBestBlock = GetBestBlock(tip.hashBlock, db.bestBlock)
    BY Zenon DEF TipGetBestBlock
  <2>2. /\ tip' \in Caches
        /\ tip'.cacheCoins = tip.cacheCoins
        /\ tip'.cacheAnchors = tip.cacheAnchors
        /\ tip'.cacheNullifiers = tip.cacheNullifiers
        /\ tip'.hashBlock = GetBestBlock(tip.hashBlock, db.bestBlock)
        /\ tip'.hashAnchor = tip.hashAnchor
    BY <1>0, <1>5, <2>1, WithHashBlock DEF FieldsTyped
  <2>3. GetBestBlock(tip'.hashBlock, db.bestBlock) = GetBestBlock(tip.hashBlock, db.bestBlock)
    BY <2>2, NullAssumption, Zenon DEF GetBestBlock
  <2>4. SameLedgers
    BY <1>1, <2>2, <2>3, Zenon DEF SameLedgers, DbLedger, TipLedger, ViewLedger, Over
  <2>5. Inv'
    BY <1>0, <1>1, <2>2, Zenon DEF TypeOK, DbAnchors, FieldsTyped, MapsInv, Inv
  <2> QED BY <2>4, <2>5, Zenon
<1>6. ASSUME NEW t \in Types, tip' = [tip EXCEPT !.hashAnchor = TipGetBestAnchor(t)]
      PROVE  Inv' /\ SameLedgers
  <2> DEFINE h == TipGetBestAnchor(t)
  <2>1. /\ h \in Hashes
        /\ OverBestAnchor(h, db.bestAnchor) = OverBestAnchor(tip.hashAnchor, db.bestAnchor)
    BY <1>0, HashRead, Zenon DEF TipGetBestAnchor, FieldsTyped, MapsInv
  <2> HIDE DEF h
  <2>2. /\ tip' \in Caches
        /\ tip'.cacheCoins = tip.cacheCoins
        /\ tip'.cacheAnchors = tip.cacheAnchors
        /\ tip'.cacheNullifiers = tip.cacheNullifiers
        /\ tip'.hashBlock = tip.hashBlock
        /\ tip'.hashAnchor = h
    BY <1>0, <1>6, <2>1, WithHashAnchor DEF h, FieldsTyped
  <2>4. SameLedgers
    BY <1>1, <2>1, <2>2, Zenon DEF SameLedgers, DbLedger, TipLedger, ViewLedger, Over
  <2>5. Inv'
    BY <1>0, <1>1, <2>2, Zenon DEF TypeOK, DbAnchors, FieldsTyped, MapsInv, Inv
  <2> QED BY <2>4, <2>5, Zenon
<1> QED BY <1>2, <1>3, <1>4, <1>5, <1>6, Zenon DEF TipRead

\* A coins read of the view changes no ledger, although it fills two caches.
LEMMA StepViewGetCoins ==
    ASSUME Inv, NEW txid \in Txids, ViewGetCoins(txid)
    PROVE  Inv' /\ SameLedgers
<1>0. FieldsTyped /\ MapsInv
  BY FieldTypes, Zenon DEF Inv
<1> DEFINE tc == IF view.cacheCoins[txid].in THEN tip.cacheCoins
                 ELSE FetchCoins(tip.cacheCoins, txid, AskDb(db.coins, txid))
           vc == FetchCoins(view.cacheCoins, txid, AskTip(db.coins, tip.cacheCoins, txid))
<1>1. UNCHANGED <<db, open>> /\ open
  BY Zenon DEF ViewGetCoins
<1>2. /\ tc \in CoinsMaps /\ vc \in CoinsMaps
      /\ OverCoins(tc, db.coins) = OverCoins(tip.cacheCoins, db.coins)
      /\ OverCoins(vc, OverCoins(tc, db.coins))
           = OverCoins(view.cacheCoins, OverCoins(tip.cacheCoins, db.coins))
      /\ CoinsInv(db.coins, tc, vc)
  BY <1>0, CoinsViewRead, Zenon DEF FieldsTyped, MapsInv
<1>3. /\ view' = [view EXCEPT !.cacheCoins = vc]
      /\ tip' = IF view.cacheCoins[txid].in THEN tip
                ELSE [tip EXCEPT !.cacheCoins = FetchCoins(tip.cacheCoins, txid, AskDb(db.coins, txid))]
  BY Zenon DEF ViewGetCoins, TipAskedForCoins, TipCoins, TipFetchCoins, DbCoins, AskDb, AskTip
<1>4. /\ tip' \in Caches /\ view' \in Caches
      /\ tip'.cacheCoins = tc /\ view'.cacheCoins = vc
      /\ OnlyCoins
  <2>1. CASE view.cacheCoins[txid].in
    BY <1>0, <1>2, <1>3, <2>1, WithCoins DEF OnlyCoins, FieldsTyped
  <2>2. CASE ~view.cacheCoins[txid].in
    BY <1>0, <1>2, <1>3, <2>2, WithCoins DEF OnlyCoins, FieldsTyped
  <2> QED BY <2>1, <2>2, Zenon
<1> HIDE DEF tc, vc
<1>5. SameLedgers
  BY <1>1, <1>2, <1>4, Zenon DEF SameLedgers, DbLedger, TipLedger, ViewLedger, Over, OnlyCoins
<1>6. Inv'
  BY <1>0, <1>1, <1>2, <1>4, Zenon DEF TypeOK, DbAnchors, OnlyCoins, FieldsTyped, MapsInv, Inv
<1> QED BY <1>5, <1>6, Zenon

\* A write changes the ledger of the view and of nothing below it.
SameBelow == DbLedger' = DbLedger /\ TipLedger' = TipLedger

\* ModifyCoins changes one coins entry of the view's ledger and nothing below.
LEMMA StepModifyCoins ==
    ASSUME Inv, NEW txid \in Txids, NEW c \in Coins, ModifyCoins(txid, c)
    PROVE  Inv' /\ SameBelow /\ Ledger!WriteCoins(txid, c)
<1>0. FieldsTyped /\ MapsInv
  BY FieldTypes, Zenon DEF Inv
<1> DEFINE tc == IF view.cacheCoins[txid].in THEN tip.cacheCoins
                 ELSE FetchCoins(tip.cacheCoins, txid, AskDb(db.coins, txid))
           e == ModifiedEntry(view.cacheCoins[txid], AskTip(db.coins, tip.cacheCoins, txid), c)
           vc == [view.cacheCoins EXCEPT ![txid] = e]
           N == OverCoins(view.cacheCoins, OverCoins(tip.cacheCoins, db.coins))
<1>1. UNCHANGED <<db, open>> /\ open
  BY Zenon DEF ModifyCoins
<1>2. /\ tc \in CoinsMaps /\ vc \in CoinsMaps
      /\ OverCoins(tc, db.coins) = OverCoins(tip.cacheCoins, db.coins)
      /\ OverCoins(vc, OverCoins(tc, db.coins)) = [N EXCEPT ![txid] = c]
      /\ CoinsInv(db.coins, tc, vc)
  BY <1>0, CoinsWrite, Zenon DEF FieldsTyped, MapsInv
<1>3. /\ view' = [view EXCEPT !.cacheCoins = vc]
      /\ tip' = IF view.cacheCoins[txid].in THEN tip
                ELSE [tip EXCEPT !.cacheCoins = FetchCoins(tip.cacheCoins, txid, AskDb(db.coins, txid))]
  BY Zenon DEF ModifyCoins, TipAskedForCoins, TipCoins, TipFetchCoins, DbCoins, AskDb, AskTip
<1> HIDE DEF e, vc
<1>4. /\ tip' \in Caches /\ view' \in Caches
      /\ tip'.cacheCoins = tc /\ view'.cacheCoins = vc
      /\ OnlyCoins
  <2>1. CASE view.cacheCoins[txid].in
    BY <1>0, <1>2, <1>3, <2>1, WithCoins DEF OnlyCoins, FieldsTyped
  <2>2. CASE ~view.cacheCoins[txid].in
    BY <1>0, <1>2, <1>3, <2>2, WithCoins DEF OnlyCoins, FieldsTyped
  <2> QED BY <2>1, <2>2, Zenon
<1> HIDE DEF tc, N
<1>5. SameBelow
  BY <1>1, <1>2, <1>4, Zenon DEF SameBelow, DbLedger, TipLedger, Over, OnlyCoins
<1>6. ViewLedger.coins = N
  BY Zenon DEF ViewLedger, TipLedger, DbLedger, Over, N
<1>7. ViewLedger' = [coins      |-> [ViewLedger.coins EXCEPT ![txid] = c],
                     anchors    |-> ViewLedger.anchors,
                     nullifiers |-> ViewLedger.nullifiers,
                     bestBlock  |-> ViewLedger.bestBlock,
                     bestAnchor |-> ViewLedger.bestAnchor]
  BY <1>1, <1>2, <1>4, <1>5, <1>6, ZenonT(60) DEF SameBelow, ViewLedger, TipLedger, DbLedger, Over, OnlyCoins
<1>8. Ledger!WriteCoins(txid, c)
  BY <1>7 DEF Ledger!WriteCoins, ViewLedger, Over
<1>9. Inv'
  BY <1>0, <1>1, <1>2, <1>4, Zenon DEF TypeOK, DbAnchors, OnlyCoins, FieldsTyped, MapsInv, Inv
<1> QED BY <1>5, <1>8, <1>9, Zenon

\* An anchor read of the view changes no ledger.
LEMMA StepViewGetAnchorAt ==
    ASSUME Inv, NEW t \in Types, NEW rt \in Roots, ViewGetAnchorAt(t, rt)
    PROVE  Inv' /\ SameLedgers
<1>0. FieldsTyped /\ MapsInv
  BY FieldTypes, Zenon DEF Inv
<1> DEFINE ask == TipGetAnchorAt(t, rt)
           ta == IF view.cacheAnchors[t][rt].in THEN tip.cacheAnchors ELSE ask
           va == GetAnchorAt(view.cacheAnchors, t, rt, TipAnchor(t, rt))
           L == OverAnchors(tip.cacheAnchors, DbAnchors)
<1>1. UNCHANGED <<db, open>> /\ open
  BY Zenon DEF ViewGetAnchorAt
<1>2. /\ ask \in AnchorMaps
      /\ OverAnchors(ask, DbAnchors) = L
      /\ AnchorFlags(ask, DbAnchors)
      /\ Trees(ask)
      /\ va \in AnchorMaps
      /\ OverAnchors(va, L) = OverAnchors(view.cacheAnchors, L)
      /\ AnchorFlags(va, L)
      /\ Trees(va)
  BY TipAnchorRead, ViewAnchorRead, Zenon
<1>3. /\ view' = [view EXCEPT !.cacheAnchors = va]
      /\ tip' = IF view.cacheAnchors[t][rt].in THEN tip ELSE [tip EXCEPT !.cacheAnchors = ask]
  BY Zenon DEF ViewGetAnchorAt
<1> HIDE DEF ask, va
<1>4. /\ tip' \in Caches /\ view' \in Caches
      /\ tip'.cacheAnchors = ta /\ view'.cacheAnchors = va
      /\ OnlyAnchors
  <2>1. CASE view.cacheAnchors[t][rt].in
    BY <1>0, <1>2, <1>3, <2>1, WithAnchors DEF OnlyAnchors, FieldsTyped
  <2>2. CASE ~view.cacheAnchors[t][rt].in
    BY <1>0, <1>2, <1>3, <2>2, WithAnchors DEF OnlyAnchors, FieldsTyped
  <2> QED BY <2>1, <2>2, Zenon
<1>5. /\ OverAnchors(ta, DbAnchors) = L
      /\ AnchorInv(DbAnchors, ta, va)
  BY <1>0, <1>2, Zenon DEF AnchorInv, FieldsTyped, MapsInv
<1> HIDE DEF ta, L
<1>6. SameLedgers
  BY <1>1, <1>2, <1>4, <1>5, Zenon DEF SameLedgers, DbLedger, TipLedger, ViewLedger, Over, OnlyAnchors,
                                DbAnchors, L
<1>7. Inv'
  BY <1>0, <1>1, <1>4, <1>5, Zenon DEF TypeOK, DbAnchors, OnlyAnchors, FieldsTyped, MapsInv, Inv
<1> QED BY <1>6, <1>7, Zenon

\* A nullifier read of the view changes no ledger.
LEMMA StepViewGetNullifier ==
    ASSUME Inv, NEW t \in Types, NEW nf \in Nfs, ViewGetNullifier(t, nf)
    PROVE  Inv' /\ SameLedgers
<1>0. FieldsTyped /\ MapsInv
  BY FieldTypes, Zenon DEF Inv
<1> DEFINE ask == TipGetNullifier(t, nf)
           spent == TipNullifier(t, nf)
           tn == IF view.cacheNullifiers[t][nf].in THEN tip.cacheNullifiers ELSE ask
           vn == GetNullifier(view.cacheNullifiers, t, nf, spent)
           S == OverNullifiers(tip.cacheNullifiers, db.nullifiers)
<1>1. UNCHANGED <<db, open>> /\ open
  BY Zenon DEF ViewGetNullifier
<1>2. /\ ask \in NfMaps
      /\ OverNullifiers(ask, db.nullifiers) = S
      /\ NullifierFlags(ask, db.nullifiers)
      /\ spent \in BOOLEAN
      /\ spent <=> nf \in S[t]
  BY TipNfRead, Zenon
<1>3. /\ view' = [view EXCEPT !.cacheNullifiers = vn]
      /\ tip' = IF view.cacheNullifiers[t][nf].in THEN tip ELSE [tip EXCEPT !.cacheNullifiers = ask]
  BY Zenon DEF ViewGetNullifier
<1> HIDE DEF ask, spent, S
<1>4. /\ vn \in NfMaps
      /\ OverNullifiers(vn, S) = OverNullifiers(view.cacheNullifiers, S)
      /\ NullifierFlags(vn, S)
  <2>1. NullifierFlags(view.cacheNullifiers, S) /\ S \in NfSets /\ view.cacheNullifiers \in NfMaps
    BY <1>0, Zenon DEF NfInv, S, FieldsTyped, MapsInv
  <2> QED BY <1>2, <2>1, NfRead
<1> HIDE DEF vn
<1>5. /\ tip' \in Caches /\ view' \in Caches
      /\ tip'.cacheNullifiers = tn /\ view'.cacheNullifiers = vn
      /\ OnlyNullifiers
  <2>1. CASE view.cacheNullifiers[t][nf].in
    BY <1>0, <1>4, <1>3, <2>1, WithNullifiers DEF OnlyNullifiers, FieldsTyped
  <2>2. CASE ~view.cacheNullifiers[t][nf].in
    BY <1>0, <1>2, <1>4, <1>3, <2>2, WithNullifiers DEF OnlyNullifiers, FieldsTyped
  <2> QED BY <2>1, <2>2, Zenon
<1>6. /\ OverNullifiers(tn, db.nullifiers) = S
      /\ NfInv(db.nullifiers, tn, vn)
  BY <1>0, <1>2, <1>4, Zenon DEF NfInv, S, FieldsTyped, MapsInv
<1> HIDE DEF tn
<1>7. SameLedgers
  BY <1>1, <1>4, <1>5, <1>6, Zenon DEF SameLedgers, DbLedger, TipLedger, ViewLedger, Over, OnlyNullifiers, S
<1>8. Inv'
  BY <1>0, <1>1, <1>5, <1>6, Zenon DEF TypeOK, DbAnchors, OnlyNullifiers, FieldsTyped, MapsInv, Inv
<1> QED BY <1>7, <1>8, Zenon

\* SetNullifiers changes one nullifier of the view's ledger and nothing below.
LEMMA StepSetNullifiers ==
    ASSUME Inv, NEW t \in Types, NEW nf \in Nfs, NEW spent \in BOOLEAN, SetNullifiers(t, nf, spent)
    PROVE  Inv' /\ SameBelow /\ Ledger!WriteNullifier(t, nf, spent)
<1>0. FieldsTyped /\ MapsInv
  BY FieldTypes, Zenon DEF Inv
<1> DEFINE e == [in |-> TRUE, entered |-> spent, flags |-> {DIRTY}]
           vn == [view.cacheNullifiers EXCEPT ![t][nf] = e]
           S == OverNullifiers(tip.cacheNullifiers, db.nullifiers)
           N == OverNullifiers(view.cacheNullifiers, S)
<1>1. UNCHANGED <<db, tip, open>> /\ open
  BY Zenon DEF SetNullifiers
<1>2. view' = [view EXCEPT !.cacheNullifiers = vn]
  BY Zenon DEF SetNullifiers
<1>3. /\ vn \in NfMaps
      /\ OverNullifiers(vn, S) = [N EXCEPT ![t] = IF spent THEN @ \cup {nf} ELSE @ \ {nf}]
      /\ NullifierFlags(vn, S)
  <2>1. NullifierFlags(view.cacheNullifiers, S) /\ S \in NfSets /\ view.cacheNullifiers \in NfMaps
    BY <1>0, Zenon DEF NfInv, FieldsTyped, MapsInv
  <2> HIDE DEF S
  <2> QED BY <2>1, NfWrite
<1> HIDE DEF vn, S, N
<1>4. /\ view' \in Caches
      /\ view'.cacheNullifiers = vn
      /\ OnlyNullifiers
  BY <1>0, <1>1, <1>2, <1>3, WithNullifiers DEF OnlyNullifiers, FieldsTyped
<1>5. NfInv(db.nullifiers, tip.cacheNullifiers, vn)
  BY <1>0, <1>3, Zenon DEF NfInv, S, FieldsTyped, MapsInv
<1>6. SameBelow
  BY <1>1, Zenon DEF SameBelow, DbLedger, TipLedger
<1>7. ViewLedger.nullifiers = N /\ TipLedger.nullifiers = S
  BY Zenon DEF ViewLedger, TipLedger, DbLedger, Over, N, S
<1>8. ViewLedger' = [coins      |-> ViewLedger.coins,
                     anchors    |-> ViewLedger.anchors,
                     nullifiers |-> [ViewLedger.nullifiers EXCEPT
                                       ![t] = IF spent THEN @ \cup {nf} ELSE @ \ {nf}],
                     bestBlock  |-> ViewLedger.bestBlock,
                     bestAnchor |-> ViewLedger.bestAnchor]
  <2>1. ViewLedger'.nullifiers = OverNullifiers(vn, S)
    BY <1>4, <1>6, <1>7, Zenon DEF ViewLedger, Over, SameBelow
  <2> QED BY <1>3, <1>4, <1>6, <1>7, <2>1, Zenon DEF SameBelow, ViewLedger, Over, OnlyNullifiers
<1>9. Ledger!WriteNullifier(t, nf, spent)
  <2> DEFINE n == [ViewLedger.nullifiers EXCEPT ![t] = IF spent THEN @ \cup {nf} ELSE @ \ {nf}]
  <2>1. ViewLedger' = [coins |-> ViewLedger.coins, anchors |-> ViewLedger.anchors, nullifiers |-> n,
                       bestBlock |-> ViewLedger.bestBlock, bestAnchor |-> ViewLedger.bestAnchor]
    BY <1>8, Zenon
  <2>2. ViewLedger' = [ViewLedger EXCEPT !.nullifiers = n]
    <3> HIDE DEF n
    <3> QED BY <2>1, ViewLedgerWith, Zenon
  <2> QED BY <2>2, Zenon DEF Ledger!WriteNullifier
<1>10. Inv'
  BY <1>0, <1>1, <1>4, <1>5, Zenon DEF TypeOK, DbAnchors, OnlyNullifiers, FieldsTyped, MapsInv, Inv
<1> QED BY <1>6, <1>9, <1>10, Zenon

\* Reading the best block changes no ledger.
LEMMA StepViewGetBestBlock ==
    ASSUME Inv, ViewGetBestBlock
    PROVE  Inv' /\ SameLedgers
<1>0. FieldsTyped /\ MapsInv
  BY FieldTypes, Zenon DEF Inv
<1> DEFINE tb == GetBestBlock(tip.hashBlock, db.bestBlock)
           vb == GetBestBlock(view.hashBlock, tb)
<1>1. UNCHANGED <<db, open>> /\ open
  BY Zenon DEF ViewGetBestBlock
<1>2. /\ view' = [view EXCEPT !.hashBlock = vb]
      /\ tip' = IF view.hashBlock = Null THEN [tip EXCEPT !.hashBlock = tb] ELSE tip
  BY Zenon DEF ViewGetBestBlock, TipGetBestBlock
<1>3. tb \in Blocks /\ vb \in Blocks /\ tb # Null
  BY <1>0, NullAssumption, Zenon DEF GetBestBlock, FieldsTyped
<1>4. /\ GetBestBlock(tb, db.bestBlock) = tb
      /\ GetBestBlock(vb, tb) = vb
  BY <1>3, NullAssumption, Zenon DEF GetBestBlock
<1> HIDE DEF tb, vb
<1>5. /\ tip' \in Caches /\ view' \in Caches
      /\ tip'.hashBlock \in {tip.hashBlock, tb} /\ view'.hashBlock = vb
      /\ OnlyHashBlock
  <2>1. CASE view.hashBlock = Null
    BY <1>0, <1>2, <1>3, <2>1, WithHashBlock DEF OnlyHashBlock, FieldsTyped
  <2>2. CASE view.hashBlock # Null
    BY <1>0, <1>2, <1>3, <2>2, WithHashBlock DEF OnlyHashBlock, FieldsTyped
  <2> QED BY <2>1, <2>2, Zenon
<1>6. SameLedgers
  BY <1>1, <1>4, <1>5, Zenon DEF SameLedgers, DbLedger, TipLedger, ViewLedger, Over, OnlyHashBlock, tb, vb
<1>7. Inv'
  BY <1>0, <1>1, <1>5, Zenon DEF TypeOK, DbAnchors, OnlyHashBlock, FieldsTyped, MapsInv, Inv
<1> QED BY <1>6, <1>7, Zenon

\* SetBestBlock changes the best block of the view's ledger and nothing below.
LEMMA StepSetBestBlock ==
    ASSUME Inv, NEW b \in Blocks, SetBestBlock(b)
    PROVE  Inv' /\ SameBelow /\ Ledger!WriteBestBlock(b)
<1>0. FieldsTyped /\ MapsInv
  BY FieldTypes, Zenon DEF Inv
<1>1. UNCHANGED <<db, tip, open>> /\ open /\ view' = [view EXCEPT !.hashBlock = b]
  BY Zenon DEF SetBestBlock
<1>2. /\ view' \in Caches
      /\ view'.hashBlock = b
      /\ OnlyHashBlock
  BY <1>0, <1>1, WithHashBlock DEF OnlyHashBlock, FieldsTyped
<1>3. SameBelow
  BY <1>1, Zenon DEF SameBelow, DbLedger, TipLedger
<1>4. ViewLedger' = [coins      |-> ViewLedger.coins,
                     anchors    |-> ViewLedger.anchors,
                     nullifiers |-> ViewLedger.nullifiers,
                     bestBlock  |-> b,
                     bestAnchor |-> ViewLedger.bestAnchor]
  BY <1>2, <1>3, NullAssumption, Zenon DEF SameBelow, ViewLedger, Over, OnlyHashBlock, GetBestBlock
<1>5. Ledger!WriteBestBlock(b)
  BY <1>4 DEF Ledger!WriteBestBlock, ViewLedger, Over
<1>6. Inv'
  BY <1>0, <1>1, <1>2, Zenon DEF TypeOK, DbAnchors, OnlyHashBlock, FieldsTyped, MapsInv, Inv
<1> QED BY <1>3, <1>5, <1>6, Zenon

\* A new view represents the ledger of pcoinsTip.
LEMMA StepOpenView ==
    ASSUME Inv, OpenView
    PROVE  Inv' /\ SameLedgers
<1>1. UNCHANGED <<db, tip, view>> /\ open' = TRUE
  BY Zenon DEF OpenView
<1>2. SameLedgers
  BY <1>1, Zenon DEF SameLedgers, DbLedger, TipLedger, ViewLedger
<1>3. Inv'
  BY <1>1, Zenon DEF Inv, TypeOK, DbAnchors, MapsInv
<1> QED BY <1>2, <1>3, Zenon

\* An empty cache shows the view below it.
LEMMA EmptyCacheFacts ==
    ASSUME NEW D \in [coins : [Txids -> Coins], anchors : RootSets, nullifiers : NfSets,
                      bestBlock : Blocks, bestAnchor : [Types -> Roots]]
    PROVE  /\ EmptyCache \in Caches
           /\ Over(EmptyCache, D) = D
<1>1. /\ EmptyCache.cacheCoins \in CoinsMaps
      /\ OverCoins(EmptyCache.cacheCoins, D.coins) = D.coins
  BY CoinsEmpty, Zenon
<1>2. /\ EmptyCache.cacheAnchors = NoAnchors
      /\ EmptyCache.cacheNullifiers = NoNfs
      /\ EmptyCache.hashBlock = Null
      /\ EmptyCache.hashAnchor = [t \in Types |-> Null]
  BY Zenon DEF EmptyCache, NoAnchors, NoNfs
<1>3. /\ NoAnchors \in AnchorMaps /\ OverAnchors(NoAnchors, D.anchors) = D.anchors
      /\ NoNfs \in NfMaps /\ OverNullifiers(NoNfs, D.nullifiers) = D.nullifiers
  BY AnchorEmpty, NfEmpty, Zenon
<1>4. EmptyCache \in Caches
  BY <1>1, <1>2, <1>3, Zenon DEF EmptyCache, Caches, CoinsMaps, AnchorMaps, NfMaps
<1>5. GetBestBlock(Null, D.bestBlock) = D.bestBlock
  BY Zenon DEF GetBestBlock
<1>6. OverBestAnchor([t \in Types |-> Null], D.bestAnchor) = D.bestAnchor
  BY Zenon DEF OverBestAnchor
<1>7. D = [coins |-> D.coins, anchors |-> D.anchors, nullifiers |-> D.nullifiers,
           bestBlock |-> D.bestBlock, bestAnchor |-> D.bestAnchor]
  BY Zenon
<1>8. Over(EmptyCache, D) = [coins |-> D.coins, anchors |-> D.anchors, nullifiers |-> D.nullifiers,
                             bestBlock |-> D.bestBlock, bestAnchor |-> D.bestAnchor]
  BY <1>1, <1>2, <1>3, <1>5, <1>6, Zenon DEF Over
<1> QED BY <1>4, <1>7, <1>8, Zenon

\* The state when no block is being processed.
NoView ==
    /\ TypeOK
    /\ CoinsFlags(tip.cacheCoins, db.coins)
    /\ AnchorFlags(tip.cacheAnchors, DbAnchors)
    /\ Trees(tip.cacheAnchors)
    /\ \A t \in Types : EmptyRoot \in OverAnchors(tip.cacheAnchors, DbAnchors)[t]
    /\ NullifierFlags(tip.cacheNullifiers, db.nullifiers)
    /\ view = EmptyCache

\* An empty view over pcoinsTip satisfies the invariant and shows what pcoinsTip shows.
LEMMA EmptyView ==
    NoView => Inv /\ ViewLedger = TipLedger
<1> SUFFICES ASSUME NoView PROVE Inv /\ ViewLedger = TipLedger
  BY Zenon
<1> USE DEF NoView
<1>1. TipLedger \in [coins : [Txids -> Coins], anchors : RootSets, nullifiers : NfSets,
                     bestBlock : Blocks, bestAnchor : [Types -> Roots]]
  <2>1. OverCoins(tip.cacheCoins, db.coins) \in [Txids -> Coins]
    BY FieldTypes, Zenon DEF OverCoins, CoinsMaps, CoinsEntry, FieldsTyped
  <2> QED BY FieldTypes, <2>1, Zenon DEF TipLedger, Over, DbLedger, DbAnchors, FieldsTyped
<1>2. ViewLedger = TipLedger
  BY <1>1, EmptyCacheFacts, Zenon DEF ViewLedger
<1>3. CoinsInv(db.coins, tip.cacheCoins, view.cacheCoins)
  <2>1. OverCoins(tip.cacheCoins, db.coins) \in [Txids -> Coins]
    BY FieldTypes, Zenon DEF OverCoins, CoinsMaps, CoinsEntry, FieldsTyped
  <2>2. \A x \in Txids : ~EmptyCache.cacheCoins[x].in
    BY Zenon DEF EmptyCache, NoCoins
  <2> QED BY <2>1, <2>2, Zenon DEF CoinsInv, CoinsFlags
<1>4. AnchorInv(DbAnchors, tip.cacheAnchors, view.cacheAnchors)
  <2>1. view.cacheAnchors = NoAnchors
    BY Zenon DEF EmptyCache, NoAnchors
  <2> QED BY FieldTypes, <2>1, AnchorEmpty, Zenon DEF AnchorInv, FieldsTyped
<1>5. NfInv(db.nullifiers, tip.cacheNullifiers, view.cacheNullifiers)
  <2>1. view.cacheNullifiers = NoNfs
    BY Zenon DEF EmptyCache, NoNfs
  <2> QED BY FieldTypes, <2>1, NfEmpty, Zenon DEF NfInv, FieldsTyped
<1> QED BY <1>2, <1>3, <1>4, <1>5, Zenon DEF Inv, MapsInv

\* The best anchors the code reads are those of the ledgers, and asking for one
\* changes nothing that is seen.
BestAnchorsSeen(t) ==
    /\ TipHashAsked(t) \in Hashes
    /\ OverBestAnchor(TipHashAsked(t), db.bestAnchor) = OverBestAnchor(tip.hashAnchor, db.bestAnchor)
    /\ TipBestAnchor(t) = OverBestAnchor(tip.hashAnchor, db.bestAnchor)[t]
    /\ ViewBestAnchor(t)
         = OverBestAnchor(view.hashAnchor, OverBestAnchor(tip.hashAnchor, db.bestAnchor))[t]
    /\ ViewBestAnchor(t) \in Roots

\* GetBestAnchor answers with the best anchor of the ledger the cache represents.
LEMMA BestAnchorRead ==
    ASSUME TypeOK, NEW t \in Types
    PROVE  BestAnchorsSeen(t)
<1>1. /\ TipGetBestAnchor(t) \in Hashes
      /\ OverBestAnchor(TipGetBestAnchor(t), db.bestAnchor) = OverBestAnchor(tip.hashAnchor, db.bestAnchor)
      /\ TipBestAnchor(t) = OverBestAnchor(tip.hashAnchor, db.bestAnchor)[t]
  BY FieldTypes, HashRead, ZenonT(60) DEF TipGetBestAnchor, TipBestAnchor, FieldsTyped
<1>2. /\ TipHashAsked(t) \in Hashes
      /\ OverBestAnchor(TipHashAsked(t), db.bestAnchor) = OverBestAnchor(tip.hashAnchor, db.bestAnchor)
  BY FieldTypes, <1>1, Zenon DEF TipHashAsked, FieldsTyped
<1>3. /\ ViewBestAnchor(t)
           = OverBestAnchor(view.hashAnchor, OverBestAnchor(tip.hashAnchor, db.bestAnchor))[t]
      /\ ViewBestAnchor(t) \in Roots
  <2> DEFINE b == OverBestAnchor(tip.hashAnchor, db.bestAnchor)
  <2>1. b \in [Types -> Roots] /\ ViewBestAnchor(t) = GetBestAnchor(view.hashAnchor, t, b[t])[t]
    BY FieldTypes, <1>1, Zenon DEF ViewBestAnchor, FieldsTyped
  <2> HIDE DEF b
  <2>2. /\ GetBestAnchor(view.hashAnchor, t, b[t])[t] = OverBestAnchor(view.hashAnchor, b)[t]
        /\ OverBestAnchor(view.hashAnchor, b) \in [Types -> Roots]
    BY FieldTypes, <2>1, HashRead, Zenon DEF FieldsTyped
  <2> QED BY <2>1, <2>2, Zenon DEF b
<1> QED BY <1>1, <1>2, <1>3, Zenon DEF BestAnchorsSeen

OnlyAnchorsAndBest == /\ tip'.cacheCoins = tip.cacheCoins /\ view'.cacheCoins = view.cacheCoins
                      /\ tip'.cacheNullifiers = tip.cacheNullifiers
                      /\ view'.cacheNullifiers = view.cacheNullifiers
                      /\ tip'.hashBlock = tip.hashBlock /\ view'.hashBlock = view.hashBlock

\* PushAnchor adds one root to the view's ledger and makes it the best anchor.
LEMMA StepPushAnchor ==
    ASSUME Inv, NEW t \in Types, NEW rt \in Roots, PushAnchor(t, rt)
    PROVE  /\ Inv' /\ SameBelow
           /\ rt # ViewLedger.bestAnchor[t] => rt \notin ViewLedger.anchors[t]
           /\ ViewLedger' = [coins      |-> ViewLedger.coins,
                             anchors    |-> IF rt = ViewLedger.bestAnchor[t] THEN ViewLedger.anchors
                                            ELSE [ViewLedger.anchors EXCEPT ![t] = @ \cup {rt}],
                             nullifiers |-> ViewLedger.nullifiers,
                             bestBlock  |-> ViewLedger.bestBlock,
                             bestAnchor |-> [ViewLedger.bestAnchor EXCEPT ![t] = rt]]
<1>0. FieldsTyped /\ MapsInv
  BY FieldTypes, Zenon DEF Inv
<1> DEFINE e == [in |-> TRUE, entered |-> TRUE, tree |-> rt, flags |-> {DIRTY}]
           va == IF rt = ViewBestAnchor(t) THEN view.cacheAnchors
                 ELSE [view.cacheAnchors EXCEPT ![t][rt] = e]
           vh == [view.hashAnchor EXCEPT ![t] = rt]
           L == OverAnchors(tip.cacheAnchors, DbAnchors)
           N == OverAnchors(view.cacheAnchors, L)
<1>1. UNCHANGED <<db, open>> /\ open
  BY Zenon DEF PushAnchor
<1>2. BestAnchorsSeen(t)
  BY BestAnchorRead, Zenon DEF Inv
<1>3. rt # ViewBestAnchor(t) => rt \notin N[t]
  BY ViewAnchorRead, Zenon DEF PushAnchor
<1>4. /\ va \in AnchorMaps
      /\ AnchorFlags(va, L) /\ Trees(va)
      /\ OverAnchors(va, L) = IF rt = ViewBestAnchor(t) THEN N ELSE [N EXCEPT ![t] = @ \cup {rt}]
  <2>1. AnchorFlags(view.cacheAnchors, L) /\ Trees(view.cacheAnchors) /\ L \in RootSets
    BY <1>0, Zenon DEF AnchorInv, FieldsTyped, MapsInv
  <2>2. CASE rt = ViewBestAnchor(t)
    BY <1>0, <2>1, <2>2, Zenon DEF FieldsTyped
  <2>3. CASE rt # ViewBestAnchor(t)
    <3> HIDE DEF L
    <3>1. LET m1 == [view.cacheAnchors EXCEPT ![t][rt] = e] IN
          /\ m1 \in AnchorMaps
          /\ OverAnchors(m1, L) = [OverAnchors(view.cacheAnchors, L) EXCEPT
                                     ![t] = IF TRUE THEN @ \cup {rt} ELSE @ \ {rt}]
          /\ AnchorFlags(m1, L)
          /\ Trees(m1)
      BY <1>0, <2>1, AnchorWrite, Zenon DEF FieldsTyped, MapsInv
    <3> QED BY <2>3, <3>1, Zenon
  <2> QED BY <2>2, <2>3, Zenon
<1>5. vh \in Hashes
  BY <1>0, Zenon DEF Hashes, FieldsTyped
<1> HIDE DEF L, N, vh
<1>6. /\ tip' \in Caches /\ view' \in Caches
      /\ tip'.hashAnchor = TipHashAsked(t) /\ view'.hashAnchor = vh
      /\ tip'.cacheAnchors = tip.cacheAnchors /\ view'.cacheAnchors = va
      /\ OnlyAnchorsAndBest
  <2>1. tip' = [tip EXCEPT !.hashAnchor = TipHashAsked(t)]
    BY Zenon DEF PushAnchor
  <2>2. view' = [[view EXCEPT !.hashAnchor = vh] EXCEPT !.cacheAnchors = va]
    <3>1. CASE rt = ViewBestAnchor(t)
      BY <1>0, <3>1, ZenonT(60) DEF PushAnchor, vh, Caches, FieldsTyped
    <3>2. CASE rt # ViewBestAnchor(t)
      BY <1>0, <3>2, ZenonT(60) DEF PushAnchor, vh, Caches, FieldsTyped
    <3> QED BY <3>1, <3>2, Zenon
  <2> HIDE DEF va
  <2> DEFINE w == [view EXCEPT !.hashAnchor = vh]
  <2>3. /\ w \in Caches /\ w.hashAnchor = vh
        /\ w.cacheCoins = view.cacheCoins /\ w.cacheAnchors = view.cacheAnchors
        /\ w.cacheNullifiers = view.cacheNullifiers /\ w.hashBlock = view.hashBlock
    BY <1>0, <1>5, WithHashAnchor DEF FieldsTyped
  <2>4. view' = [w EXCEPT !.cacheAnchors = va]
    BY <2>2, Zenon
  <2> HIDE DEF w
  <2>5. /\ view' \in Caches /\ view'.hashAnchor = w.hashAnchor
        /\ view'.cacheCoins = w.cacheCoins /\ view'.cacheAnchors = va
        /\ view'.cacheNullifiers = w.cacheNullifiers /\ view'.hashBlock = w.hashBlock
    BY <1>0, <1>4, <2>3, <2>4, WithAnchors DEF FieldsTyped
  <2>6. /\ tip' \in Caches /\ tip'.hashAnchor = TipHashAsked(t)
        /\ tip'.cacheCoins = tip.cacheCoins /\ tip'.cacheAnchors = tip.cacheAnchors
        /\ tip'.cacheNullifiers = tip.cacheNullifiers /\ tip'.hashBlock = tip.hashBlock
    BY <1>0, <1>2, <2>1, WithHashAnchor DEF BestAnchorsSeen, FieldsTyped
  <2> QED BY <2>3, <2>5, <2>6, Zenon DEF OnlyAnchorsAndBest
<1> HIDE DEF va
<1>7. SameBelow
  BY <1>1, <1>2, <1>6, Zenon DEF SameBelow, DbLedger, TipLedger, Over, OnlyAnchorsAndBest, BestAnchorsSeen
<1>8. /\ ViewLedger.anchors = N /\ TipLedger.anchors = L
      /\ TipLedger.bestAnchor = OverBestAnchor(tip.hashAnchor, db.bestAnchor)
      /\ ViewLedger.bestAnchor = OverBestAnchor(view.hashAnchor, TipLedger.bestAnchor)
      /\ ViewLedger.bestAnchor[t] = ViewBestAnchor(t)
  BY <1>2, Zenon DEF ViewLedger, TipLedger, DbLedger, Over, N, L, DbAnchors, BestAnchorsSeen
<1>9. ViewLedger'.anchors = OverAnchors(va, L)
  BY <1>6, <1>7, <1>8, Zenon DEF SameBelow, ViewLedger, Over
<1>10. ViewLedger'.bestAnchor = [ViewLedger.bestAnchor EXCEPT ![t] = rt]
  <2>1. ViewLedger'.bestAnchor = OverBestAnchor(vh, TipLedger.bestAnchor)
    BY <1>6, <1>7, Zenon DEF SameBelow, ViewLedger, Over
  <2>2. OverBestAnchor(vh, TipLedger.bestAnchor) = [ViewLedger.bestAnchor EXCEPT ![t] = rt]
    BY <1>0, <1>8, NullAssumption, Zenon DEF OverBestAnchor, vh, Hashes, FieldsTyped
  <2> QED BY <2>1, <2>2, Zenon
<1>11. /\ ViewLedger'.coins = ViewLedger.coins
       /\ ViewLedger'.nullifiers = ViewLedger.nullifiers
       /\ ViewLedger'.bestBlock = ViewLedger.bestBlock
  BY <1>6, <1>7, Zenon DEF SameBelow, ViewLedger, Over, OnlyAnchorsAndBest
<1>12. ViewLedger' = [coins |-> ViewLedger'.coins, anchors |-> ViewLedger'.anchors,
                      nullifiers |-> ViewLedger'.nullifiers,
                      bestBlock |-> ViewLedger'.bestBlock, bestAnchor |-> ViewLedger'.bestAnchor]
  BY Zenon DEF ViewLedger, Over
<1>13. AnchorInv(DbAnchors, tip.cacheAnchors, va)
  <2>1. N \in RootSets /\ \A u \in Types : EmptyRoot \in N[u]
    BY <1>0, OverAnchorsType, Zenon DEF AnchorInv, N, L, FieldsTyped, MapsInv
  <2>2. \A u \in Types : EmptyRoot \in OverAnchors(va, L)[u]
    BY <1>4, <2>1, Zenon DEF RootSets
  <2> QED BY <1>0, <1>4, <2>2, Zenon DEF AnchorInv, L, FieldsTyped, MapsInv
<1>14. Inv'
  BY <1>0, <1>1, <1>6, <1>13, Zenon DEF TypeOK, DbAnchors, OnlyAnchorsAndBest, FieldsTyped, MapsInv, Inv
<1> QED BY <1>3, <1>4, <1>7, <1>8, <1>9, <1>10, <1>11, <1>12, <1>14, Zenon

\* PopAnchor removes the best anchor of the view's ledger and returns to the given root.
LEMMA StepPopAnchor ==
    ASSUME Inv, NEW t \in Types, NEW rt \in Roots, PopAnchor(t, rt)
    PROVE  LET cur == ViewLedger.bestAnchor[t] IN
           /\ Inv' /\ SameBelow
           /\ rt # cur => /\ cur # EmptyRoot
                          /\ rt \in ViewLedger.anchors[t]
                          /\ rt = EmptyRoot => Floor[t] = EmptyRoot
           /\ ViewLedger' = [coins      |-> ViewLedger.coins,
                             anchors    |-> IF rt = cur THEN ViewLedger.anchors
                                            ELSE [ViewLedger.anchors EXCEPT ![t] = @ \ {cur}],
                             nullifiers |-> ViewLedger.nullifiers,
                             bestBlock  |-> ViewLedger.bestBlock,
                             bestAnchor |-> [ViewLedger.bestAnchor EXCEPT ![t] = rt]]
<1>0. FieldsTyped /\ MapsInv
  BY FieldTypes, Zenon DEF Inv
<1> DEFINE cur == ViewBestAnchor(t)
           ask == TipGetAnchorAt(t, cur)
           tree == GetAnchorAt(view.cacheAnchors, t, cur, TipAnchor(t, cur))[t][cur].tree
           e == [in |-> TRUE, entered |-> FALSE, tree |-> tree, flags |-> {DIRTY}]
           ta == IF rt = cur \/ view.cacheAnchors[t][cur].in THEN tip.cacheAnchors ELSE ask
           va == IF rt = cur THEN view.cacheAnchors ELSE [view.cacheAnchors EXCEPT ![t][cur] = e]
           vh == [view.hashAnchor EXCEPT ![t] = rt]
           L == OverAnchors(tip.cacheAnchors, DbAnchors)
           N == OverAnchors(view.cacheAnchors, L)
<1>1. UNCHANGED <<db, open>> /\ open
  BY Zenon DEF PopAnchor
<1>2. BestAnchorsSeen(t) /\ cur \in Roots
  BY BestAnchorRead, Zenon DEF BestAnchorsSeen, Inv
<1>3. rt # cur => /\ cur # EmptyRoot
                  /\ cur \in N[t]
                  /\ rt \in N[t]
                  /\ rt = EmptyRoot => Floor[t] = EmptyRoot
  BY <1>2, ViewAnchorRead, Zenon DEF PopAnchor
<1>a. /\ view' = IF rt = cur THEN [view EXCEPT !.hashAnchor = vh]
                 ELSE [[view EXCEPT !.hashAnchor = vh] EXCEPT !.cacheAnchors = va]
      /\ tip' = IF rt = cur THEN [tip EXCEPT !.hashAnchor = TipHashAsked(t)]
                ELSE [[tip EXCEPT !.hashAnchor = TipHashAsked(t)] EXCEPT !.cacheAnchors = ta]
  <2>1. CASE rt = cur
    BY <2>1, Zenon DEF PopAnchor
  <2>2. CASE rt # cur
    BY <1>0, <2>2, Zenon DEF PopAnchor, Caches, FieldsTyped
  <2> QED BY <2>1, <2>2, Zenon
<1>4. /\ ta \in AnchorMaps
      /\ AnchorFlags(ta, DbAnchors) /\ Trees(ta)
      /\ OverAnchors(ta, DbAnchors) = L
  <2>1. /\ ask \in AnchorMaps
        /\ OverAnchors(ask, DbAnchors) = L
        /\ AnchorFlags(ask, DbAnchors)
        /\ Trees(ask)
    BY <1>2, TipAnchorRead, Zenon
  <2> HIDE DEF ask, L
  <2> QED BY <1>0, <2>1, Zenon DEF AnchorInv, L, FieldsTyped, MapsInv
<1>5. /\ va \in AnchorMaps
      /\ AnchorFlags(va, L) /\ Trees(va)
      /\ OverAnchors(va, L) = IF rt = cur THEN N ELSE [N EXCEPT ![t] = @ \ {cur}]
  <2>1. AnchorFlags(view.cacheAnchors, L) /\ Trees(view.cacheAnchors) /\ L \in RootSets
    BY <1>0, Zenon DEF AnchorInv, FieldsTyped, MapsInv
  <2>2. CASE rt = cur
    BY <1>0, <2>1, <2>2, Zenon DEF FieldsTyped
  <2>3. CASE rt # cur
    <3>1. tree = cur
      BY <1>2, <1>3, <2>3, ViewAnchorRead, Zenon
    <3> HIDE DEF L, tree, cur
    <3>2. LET m1 == [view.cacheAnchors EXCEPT ![t][cur] =
                       [in |-> TRUE, entered |-> FALSE, tree |-> cur, flags |-> {DIRTY}]] IN
          /\ m1 \in AnchorMaps
          /\ OverAnchors(m1, L) = [OverAnchors(view.cacheAnchors, L) EXCEPT
                                     ![t] = IF FALSE THEN @ \cup {cur} ELSE @ \ {cur}]
          /\ AnchorFlags(m1, L)
          /\ Trees(m1)
      BY <1>0, <1>2, <2>1, AnchorWrite, Zenon DEF FieldsTyped, MapsInv
    <3> QED BY <2>3, <3>1, <3>2, Zenon
  <2> QED BY <2>2, <2>3, Zenon
<1>6. vh \in Hashes
  BY <1>0, Zenon DEF Hashes, FieldsTyped
<1>7. /\ tip' \in Caches /\ view' \in Caches
      /\ tip'.hashAnchor = TipHashAsked(t) /\ view'.hashAnchor = vh
      /\ tip'.cacheAnchors = ta /\ view'.cacheAnchors = va
      /\ OnlyAnchorsAndBest
  <2> DEFINE w == [view EXCEPT !.hashAnchor = vh]
             u == [tip EXCEPT !.hashAnchor = TipHashAsked(t)]
  <2>1. rt = cur => ta = tip.cacheAnchors /\ va = view.cacheAnchors
    BY Zenon
  <2> HIDE DEF cur, ta, va, vh, L, N
  <2>2. /\ w \in Caches /\ w.hashAnchor = vh
        /\ w.cacheCoins = view.cacheCoins /\ w.cacheAnchors = view.cacheAnchors
        /\ w.cacheNullifiers = view.cacheNullifiers /\ w.hashBlock = view.hashBlock
    BY <1>0, <1>6, WithHashAnchor DEF FieldsTyped
  <2>3. /\ u \in Caches /\ u.hashAnchor = TipHashAsked(t)
        /\ u.cacheCoins = tip.cacheCoins /\ u.cacheAnchors = tip.cacheAnchors
        /\ u.cacheNullifiers = tip.cacheNullifiers /\ u.hashBlock = tip.hashBlock
    BY <1>0, <1>2, WithHashAnchor DEF BestAnchorsSeen, FieldsTyped
  <2>4. /\ view' = IF rt = cur THEN w ELSE [w EXCEPT !.cacheAnchors = va]
        /\ tip' = IF rt = cur THEN u ELSE [u EXCEPT !.cacheAnchors = ta]
    BY <1>a, Zenon
  <2> HIDE DEF u, w
  <2>5. CASE rt = cur
    BY <2>1, <2>2, <2>3, <2>4, <2>5, Zenon DEF OnlyAnchorsAndBest
  <2>6. CASE rt # cur
    <3>1. view' = [w EXCEPT !.cacheAnchors = va] /\ tip' = [u EXCEPT !.cacheAnchors = ta]
      BY <2>4, <2>6, Zenon
    <3>2. /\ view' \in Caches /\ view'.hashAnchor = w.hashAnchor
          /\ view'.cacheCoins = w.cacheCoins /\ view'.cacheAnchors = va
          /\ view'.cacheNullifiers = w.cacheNullifiers /\ view'.hashBlock = w.hashBlock
      BY <1>0, <1>5, <2>2, <3>1, WithAnchors DEF FieldsTyped
    <3>3. /\ tip' \in Caches /\ tip'.hashAnchor = u.hashAnchor
          /\ tip'.cacheCoins = u.cacheCoins /\ tip'.cacheAnchors = ta
          /\ tip'.cacheNullifiers = u.cacheNullifiers /\ tip'.hashBlock = u.hashBlock
      BY <1>0, <1>4, <2>3, <3>1, WithAnchors DEF FieldsTyped
    <3> QED BY <2>2, <2>3, <3>2, <3>3, Zenon DEF OnlyAnchorsAndBest
  <2> QED BY <2>5, <2>6, Zenon
<1> HIDE DEF ta, va, vh, L, N
<1>8. SameBelow
  BY <1>1, <1>2, <1>4, <1>7, ZenonT(60) DEF SameBelow, DbLedger, TipLedger, Over, OnlyAnchorsAndBest, BestAnchorsSeen,
                                DbAnchors, L
<1>9. /\ ViewLedger.anchors = N /\ TipLedger.anchors = L
      /\ TipLedger.bestAnchor = OverBestAnchor(tip.hashAnchor, db.bestAnchor)
      /\ ViewLedger.bestAnchor = OverBestAnchor(view.hashAnchor, TipLedger.bestAnchor)
      /\ ViewLedger.bestAnchor[t] = cur
  BY <1>2, ZenonT(60) DEF ViewLedger, TipLedger, DbLedger, Over, N, L, DbAnchors, BestAnchorsSeen
<1>10. ViewLedger'.anchors = OverAnchors(va, L)
  BY <1>7, <1>8, <1>9, Zenon DEF SameBelow, ViewLedger, Over
<1>11. ViewLedger'.bestAnchor = [ViewLedger.bestAnchor EXCEPT ![t] = rt]
  <2>1. ViewLedger'.bestAnchor = OverBestAnchor(vh, TipLedger.bestAnchor)
    BY <1>7, <1>8, Zenon DEF SameBelow, ViewLedger, Over
  <2>2. OverBestAnchor(vh, TipLedger.bestAnchor) = [ViewLedger.bestAnchor EXCEPT ![t] = rt]
    BY <1>0, <1>9, NullAssumption, Zenon DEF OverBestAnchor, vh, Hashes, FieldsTyped
  <2> QED BY <2>1, <2>2, Zenon
<1>12. /\ ViewLedger'.coins = ViewLedger.coins
       /\ ViewLedger'.nullifiers = ViewLedger.nullifiers
       /\ ViewLedger'.bestBlock = ViewLedger.bestBlock
  BY <1>7, <1>8, Zenon DEF SameBelow, ViewLedger, Over, OnlyAnchorsAndBest
<1>13. ViewLedger' = [coins |-> ViewLedger'.coins, anchors |-> ViewLedger'.anchors,
                      nullifiers |-> ViewLedger'.nullifiers,
                      bestBlock |-> ViewLedger'.bestBlock, bestAnchor |-> ViewLedger'.bestAnchor]
  BY Zenon DEF ViewLedger, Over
<1>14. AnchorInv(DbAnchors, ta, va)
  <2>1. N \in RootSets /\ \A u \in Types : EmptyRoot \in N[u] /\ EmptyRoot \in L[u]
    BY <1>0, OverAnchorsType, Zenon DEF AnchorInv, N, L, FieldsTyped, MapsInv
  <2>2. \A u \in Types : EmptyRoot \in OverAnchors(va, L)[u]
    BY <1>3, <1>5, <2>1, Zenon DEF RootSets
  <2> QED BY <1>0, <1>4, <1>5, <2>1, <2>2, Zenon DEF AnchorInv, FieldsTyped, MapsInv
<1>15. Inv'
  BY <1>0, <1>1, <1>7, <1>14, Zenon DEF TypeOK, DbAnchors, OnlyAnchorsAndBest, FieldsTyped, MapsInv, Inv
<1> QED BY <1>3, <1>5, <1>8, <1>9, <1>10, <1>11, <1>12, <1>13, <1>15, Zenon

\* Two empty caches satisfy the invariant and show the database.
LEMMA EmptyCaches ==
    TypeOK /\ tip = EmptyCache /\ view = EmptyCache =>
        Inv /\ TipLedger = DbLedger /\ ViewLedger = DbLedger
<1> SUFFICES ASSUME TypeOK, tip = EmptyCache, view = EmptyCache
             PROVE  Inv /\ TipLedger = DbLedger /\ ViewLedger = DbLedger
  BY Zenon
<1>1. /\ tip.cacheAnchors = NoAnchors /\ tip.cacheNullifiers = NoNfs
  BY Zenon DEF EmptyCache, NoAnchors, NoNfs
<1>2. CoinsFlags(tip.cacheCoins, db.coins)
  BY Zenon DEF CoinsFlags, EmptyCache, NoCoins
<1>3. /\ AnchorFlags(tip.cacheAnchors, DbAnchors) /\ Trees(tip.cacheAnchors)
      /\ OverAnchors(tip.cacheAnchors, DbAnchors) = DbAnchors
      /\ NullifierFlags(tip.cacheNullifiers, db.nullifiers)
  BY <1>1, FieldTypes, AnchorEmpty, NfEmpty, Zenon DEF FieldsTyped
<1>4. \A t \in Types : EmptyRoot \in DbAnchors[t]
  BY Zenon DEF DbAnchors
<1>5. Inv /\ ViewLedger = TipLedger
  BY <1>2, <1>3, <1>4, EmptyView, Zenon DEF NoView
<1>6. DbLedger \in [coins : [Txids -> Coins], anchors : RootSets, nullifiers : NfSets,
                    bestBlock : Blocks, bestAnchor : [Types -> Roots]]
  BY FieldTypes, Represented, Zenon DEF FieldsTyped
<1>7. TipLedger = DbLedger
  BY <1>6, EmptyCacheFacts, Zenon DEF TipLedger
<1> QED BY <1>5, <1>7, Zenon

\* The view's changes reach pcoinsTip, all of them.
LEMMA StepFlushView ==
    ASSUME Inv, FlushView
    PROVE  Inv' /\ DbLedger' = DbLedger /\ TipLedger' = ViewLedger /\ ViewLedger' = ViewLedger
<1>0. FieldsTyped /\ MapsInv
  BY FieldTypes, Zenon DEF Inv
<1>1. /\ db' = db /\ view' = EmptyCache /\ open' = FALSE
      /\ tip' = BatchWrite(view, tip)
      /\ view.hashBlock # Null
      /\ \A t \in Types : view.hashAnchor[t] # Null
  BY Zenon DEF FlushView
<1> DEFINE c1 == BatchWriteCoins(view.cacheCoins, tip.cacheCoins)
           a1 == BatchWriteAnchors(view.cacheAnchors, tip.cacheAnchors)
           n1 == BatchWriteNullifiers(view.cacheNullifiers, tip.cacheNullifiers)
<1>2. tip' = [cacheCoins |-> c1, cacheAnchors |-> a1, cacheNullifiers |-> n1,
              hashBlock |-> view.hashBlock, hashAnchor |-> view.hashAnchor]
  BY <1>1, Zenon DEF BatchWrite
<1>3. /\ c1 \in CoinsMaps
      /\ OverCoins(c1, db.coins) = OverCoins(view.cacheCoins, OverCoins(tip.cacheCoins, db.coins))
      /\ CoinsFlags(c1, db.coins)
  BY <1>0, CoinsFlushView, Zenon DEF FieldsTyped, MapsInv
<1>4. /\ a1 \in AnchorMaps
      /\ OverAnchors(a1, DbAnchors)
           = OverAnchors(view.cacheAnchors, OverAnchors(tip.cacheAnchors, DbAnchors))
      /\ AnchorFlags(a1, DbAnchors)
      /\ Trees(a1)
  BY <1>0, AnchorFlushView, Zenon DEF AnchorInv, FieldsTyped, MapsInv
<1>5. /\ n1 \in NfMaps
      /\ OverNullifiers(n1, db.nullifiers)
           = OverNullifiers(view.cacheNullifiers, OverNullifiers(tip.cacheNullifiers, db.nullifiers))
      /\ NullifierFlags(n1, db.nullifiers)
  BY <1>0, NfFlushView, Zenon DEF NfInv, FieldsTyped, MapsInv
<1> HIDE DEF c1, a1, n1
<1>6. tip' \in Caches
  BY <1>0, <1>2, <1>3, <1>4, <1>5, Zenon DEF Caches, CoinsMaps, AnchorMaps, NfMaps, Hashes, FieldsTyped
<1>7. EmptyCache \in Caches
  BY EmptyCacheType, Zenon
<1>8. NoView'
  <2>1. TypeOK'
    BY <1>0, <1>1, <1>6, <1>7, Zenon DEF TypeOK, FieldsTyped, MapsInv, Inv
  <2>2. /\ tip'.cacheCoins = c1 /\ tip'.cacheAnchors = a1 /\ tip'.cacheNullifiers = n1
        /\ DbAnchors' = DbAnchors
    BY <1>1, <1>2 DEF DbAnchors
  <2>3. \A t \in Types : EmptyRoot \in OverAnchors(a1, DbAnchors)[t]
    BY <1>0, <1>4, Zenon DEF AnchorInv, FieldsTyped, MapsInv
  <2> QED BY <1>1, <1>3, <1>4, <1>5, <2>1, <2>2, <2>3, Zenon DEF NoView
<1>9. (Inv /\ ViewLedger = TipLedger)'
  BY <1>8, EmptyView, PTL
<1>10. DbLedger' = DbLedger
  BY <1>1, Zenon DEF DbLedger
<1>11. TipLedger' = ViewLedger
  <2>1. GetBestBlock(view.hashBlock, db.bestBlock)
          = GetBestBlock(view.hashBlock, GetBestBlock(tip.hashBlock, db.bestBlock))
    BY <1>1, Zenon DEF GetBestBlock
  <2>2. OverBestAnchor(view.hashAnchor, db.bestAnchor)
          = OverBestAnchor(view.hashAnchor, OverBestAnchor(tip.hashAnchor, db.bestAnchor))
    BY <1>1, Zenon DEF OverBestAnchor
  <2>3. TipLedger' = [coins |-> OverCoins(c1, db.coins), anchors |-> OverAnchors(a1, DbAnchors),
                      nullifiers |-> OverNullifiers(n1, db.nullifiers),
                      bestBlock  |-> GetBestBlock(view.hashBlock, db.bestBlock),
                      bestAnchor |-> OverBestAnchor(view.hashAnchor, db.bestAnchor)]
    <3>1. TipLedger' = Over(tip', DbLedger) /\ DbLedger.anchors = DbAnchors
      BY <1>1, Zenon DEF TipLedger, DbLedger, DbAnchors
    <3> QED BY <1>2, <3>1, Zenon DEF Over, DbLedger
  <2> QED BY <1>3, <1>4, <1>5, <2>1, <2>2, <2>3, Represented, Zenon
<1> QED BY <1>9, <1>10, <1>11, Zenon

\* Destroying a view leaves the ledgers below it as they were.
LEMMA StepDropView ==
    ASSUME Inv, DropView
    PROVE  Inv' /\ DbLedger' = DbLedger /\ TipLedger' = TipLedger /\ ViewLedger' = TipLedger
<1>1. /\ db' = db /\ tip' = tip /\ view' = EmptyCache /\ open' = FALSE
  BY Zenon DEF DropView
<1>2. NoView'
  BY <1>1, EmptyCacheType, Zenon DEF NoView, TypeOK, DbAnchors, AnchorInv, NfInv, CoinsInv, Inv, MapsInv
<1>3. (Inv /\ ViewLedger = TipLedger)'
  BY <1>2, EmptyView, PTL
<1>4. DbLedger' = DbLedger /\ TipLedger' = TipLedger
  BY <1>1, Zenon DEF DbLedger, TipLedger
<1> QED BY <1>3, <1>4, Zenon

\* A flush of pcoinsTip keeps its ledger and writes it to the database, except an empty best anchor.
LEMMA StepFlushTip ==
    ASSUME Inv, FlushTip
    PROVE  /\ Inv' /\ TipLedger' = TipLedger /\ ViewLedger' = TipLedger /\ ViewLedger = TipLedger
           /\ DbLedger'.coins = TipLedger.coins /\ DbLedger'.anchors = TipLedger.anchors
           /\ DbLedger'.nullifiers = TipLedger.nullifiers /\ DbLedger'.bestBlock = TipLedger.bestBlock
           /\ \A t \in Types : TipLedger.bestAnchor[t] # EmptyRoot
                                 => DbLedger'.bestAnchor[t] = TipLedger.bestAnchor[t]
<1>0. FieldsTyped /\ MapsInv
  BY FieldTypes, Zenon DEF Inv
<1>1. /\ db' = DbBatchWrite(tip) /\ tip' = Flushed(tip) /\ view' = view /\ view = EmptyCache
      /\ open' = open
  BY <1>0, Zenon DEF FlushTip, MapsInv
<1> DEFINE c1 == [x \in Txids |->
                    IF tip.cacheCoins[x].in /\ DIRTY \in tip.cacheCoins[x].flags
                    THEN tip.cacheCoins[x].coins ELSE db.coins[x]]
           a1 == [t \in Types |-> {r \in Roots :
                    LET e == tip.cacheAnchors[t][r]
                    IN  IF e.in /\ DIRTY \in e.flags /\ (e.entered => r # EmptyRoot)
                        THEN e.entered ELSE r \in db.anchors[t]}]
           n1 == [t \in Types |-> {n \in Nfs :
                    LET e == tip.cacheNullifiers[t][n]
                    IN  IF e.in /\ DIRTY \in e.flags THEN e.entered ELSE n \in db.nullifiers[t]}]
           b1 == IF tip.hashBlock # Null THEN tip.hashBlock ELSE db.bestBlock
           h1 == [t \in Types |-> IF tip.hashAnchor[t] \notin {Null, EmptyRoot}
                                  THEN tip.hashAnchor[t] ELSE db.bestAnchor[t]]
<1>2. db' = [coins |-> c1, anchors |-> a1, nullifiers |-> n1, bestBlock |-> b1, bestAnchor |-> h1]
  BY <1>1, Zenon DEF DbBatchWrite
<1>3. /\ c1 = OverCoins(tip.cacheCoins, db.coins)
      /\ OverCoins(tip.cacheCoins, db.coins) \in [Txids -> Coins]
  <2>1. CoinsFlags(tip.cacheCoins, db.coins)
    BY <1>0, Zenon DEF CoinsInv, FieldsTyped, MapsInv
  <2>2. OverCoins(tip.cacheCoins, db.coins) \in [Txids -> Coins]
    BY <1>0, Zenon DEF OverCoins, CoinsMaps, CoinsEntry, FieldsTyped
  <2> QED BY <1>0, <2>1, <2>2, CoinsFlushTip, Zenon DEF FieldsTyped, MapsInv
<1>4. /\ a1 \in RootSets
      /\ [t \in Types |-> a1[t] \cup {EmptyRoot}] = OverAnchors(tip.cacheAnchors, DbAnchors)
  BY <1>0, AnchorFlushTip, Zenon DEF AnchorInv, DbAnchors, FieldsTyped, MapsInv
<1>5. /\ n1 = OverNullifiers(tip.cacheNullifiers, db.nullifiers)
      /\ n1 \in NfSets
  BY <1>0, NfFlushTip, Zenon DEF NfInv, FieldsTyped, MapsInv
<1>6. b1 = GetBestBlock(tip.hashBlock, db.bestBlock) /\ b1 \in Blocks
  BY <1>0, Zenon DEF GetBestBlock, FieldsTyped
<1>7. /\ h1 \in [Types -> Roots]
      /\ \A t \in Types : OverBestAnchor(tip.hashAnchor, db.bestAnchor)[t] # EmptyRoot
                            => h1[t] = OverBestAnchor(tip.hashAnchor, db.bestAnchor)[t]
  BY <1>0, Zenon DEF OverBestAnchor, Hashes, FieldsTyped
<1> HIDE DEF c1, a1, n1, b1, h1
<1>8. db' \in Databases
  BY <1>2, <1>3, <1>4, <1>5, <1>6, <1>7, Zenon DEF Databases, RootSets, NfSets
<1>9. DbLedger' = [coins |-> OverCoins(tip.cacheCoins, db.coins),
                   anchors |-> OverAnchors(tip.cacheAnchors, DbAnchors),
                   nullifiers |-> OverNullifiers(tip.cacheNullifiers, db.nullifiers),
                   bestBlock  |-> GetBestBlock(tip.hashBlock, db.bestBlock),
                   bestAnchor |-> h1]
  BY <1>2, <1>3, <1>4, <1>5, <1>6, Zenon DEF DbLedger
<1>10. /\ tip' \in Caches
       /\ tip'.cacheCoins = EmptyCache.cacheCoins /\ tip'.cacheAnchors = EmptyCache.cacheAnchors
       /\ tip'.cacheNullifiers = EmptyCache.cacheNullifiers
       /\ tip'.hashBlock = tip.hashBlock /\ tip'.hashAnchor = tip.hashAnchor
  BY <1>0, <1>1, EmptyCacheType, Zenon DEF Flushed, Caches, Hashes, FieldsTyped
<1>11. NoView /\ NoView'
  <2>1. NoView
    BY <1>0, <1>1, Zenon DEF NoView, CoinsInv, AnchorInv, NfInv, FieldsTyped, MapsInv, Inv
  <2>2. TypeOK'
    BY <1>0, <1>1, <1>8, <1>10, Zenon DEF TypeOK, FieldsTyped, MapsInv, Inv
  <2>3. DbAnchors' = OverAnchors(tip.cacheAnchors, DbAnchors) /\ db'.coins = c1 /\ db'.nullifiers = n1
    BY <1>2, <1>4, Zenon DEF DbAnchors
  <2>4. CoinsFlags(EmptyCache.cacheCoins, c1)
    BY Zenon DEF CoinsFlags, EmptyCache, NoCoins
  <2>5. /\ tip'.cacheAnchors = NoAnchors /\ tip'.cacheNullifiers = NoNfs
    BY <1>10, Zenon DEF EmptyCache, NoAnchors, NoNfs
  <2>6. /\ AnchorFlags(NoAnchors, DbAnchors') /\ Trees(NoAnchors)
        /\ OverAnchors(NoAnchors, DbAnchors') = OverAnchors(tip.cacheAnchors, DbAnchors)
    BY <1>0, <2>3, AnchorEmpty, Zenon DEF FieldsTyped
  <2>7. \A t \in Types : EmptyRoot \in OverAnchors(NoAnchors, DbAnchors')[t]
    BY <1>0, <2>6, Zenon DEF AnchorInv, FieldsTyped, MapsInv
  <2>8. NullifierFlags(NoNfs, n1)
    BY <1>5, NfEmpty, Zenon
  <2>9. NoView'
    BY <1>1, <1>10, <2>2, <2>3, <2>4, <2>5, <2>6, <2>7, <2>8, Zenon DEF NoView
  <2> QED BY <2>1, <2>9, Zenon
<1>12. /\ ViewLedger = TipLedger
       /\ (Inv /\ ViewLedger = TipLedger)'
  BY <1>11, EmptyView, PTL
<1>13. TipLedger' = TipLedger
  <2>1. /\ OverCoins(EmptyCache.cacheCoins, DbLedger'.coins) = DbLedger'.coins
        /\ OverAnchors(EmptyCache.cacheAnchors, DbLedger'.anchors) = DbLedger'.anchors
        /\ OverNullifiers(EmptyCache.cacheNullifiers, DbLedger'.nullifiers) = DbLedger'.nullifiers
    <3>1. EmptyCache.cacheAnchors = NoAnchors /\ EmptyCache.cacheNullifiers = NoNfs
      BY Zenon DEF EmptyCache, NoAnchors, NoNfs
    <3> QED BY <1>0, <1>3, <1>9, <3>1, CoinsEmpty, AnchorEmpty, NfEmpty, Zenon DEF FieldsTyped
  <2>2. GetBestBlock(tip.hashBlock, DbLedger'.bestBlock) = GetBestBlock(tip.hashBlock, db.bestBlock)
    BY <1>9, Zenon DEF GetBestBlock
  <2>3. OverBestAnchor(tip.hashAnchor, DbLedger'.bestAnchor) = OverBestAnchor(tip.hashAnchor, db.bestAnchor)
    BY <1>9, Zenon DEF OverBestAnchor, h1
  <2>4. TipLedger' = Over(tip', DbLedger')
    BY Zenon DEF TipLedger
  <2>5. TipLedger' = [coins |-> DbLedger'.coins, anchors |-> DbLedger'.anchors,
                      nullifiers |-> DbLedger'.nullifiers,
                      bestBlock  |-> GetBestBlock(tip.hashBlock, db.bestBlock),
                      bestAnchor |-> OverBestAnchor(tip.hashAnchor, db.bestAnchor)]
    BY <1>10, <2>1, <2>2, <2>3, <2>4, Zenon DEF Over
  <2> QED BY <1>9, <2>5, Represented, Zenon
<1> QED BY <1>7, <1>9, <1>12, <1>13, Represented, Zenon

\* A restart returns to the database.
LEMMA StepRestart ==
    ASSUME TypeOK, Restart
    PROVE  Inv' /\ DbLedger' = DbLedger /\ TipLedger' = DbLedger /\ ViewLedger' = DbLedger
<1>1. db' = db /\ tip' = EmptyCache /\ view' = EmptyCache /\ open' = FALSE
  BY Zenon DEF Restart
<1>2. (TypeOK /\ tip = EmptyCache /\ view = EmptyCache)'
  BY <1>1, EmptyCacheType, Zenon DEF TypeOK
<1>3. (Inv /\ TipLedger = DbLedger /\ ViewLedger = DbLedger)'
  BY <1>2, EmptyCaches, PTL
<1>4. DbLedger' = DbLedger
  BY <1>1, Zenon DEF DbLedger
<1> QED BY <1>3, <1>4, Zenon

-----------------------------------------------------------------------------
(* Theorems. *)

\* The invariant holds when the node starts.
LEMMA InitInv ==
    Init => Inv /\ TipLedger = DbLedger /\ ViewLedger = DbLedger
<1> SUFFICES ASSUME Init PROVE Inv /\ TipLedger = DbLedger /\ ViewLedger = DbLedger
  BY Zenon
<1>1. db \in Databases
  <2>1. [t \in Types |-> {Floor[t]} \ {EmptyRoot}] \in [Types -> SUBSET Roots] /\ Floor \in [Types -> Roots]
    BY RootAssumption, Zenon
  <2> QED BY <2>1, Zenon DEF Init, Databases
<1>2. TypeOK /\ tip = EmptyCache /\ view = EmptyCache
  BY <1>1, EmptyCacheType, Zenon DEF Init, TypeOK
<1> QED BY <1>2, EmptyCaches, Zenon

\* Every step of the views keeps the invariant.
LEMMA NextInv ==
    Inv /\ [Next]_vars => Inv'
<1> SUFFICES ASSUME Inv, [Next]_vars PROVE Inv'
  BY Zenon
<1>1. CASE OpenView
  BY <1>1, StepOpenView, Zenon
<1>2. CASE TipRead
  BY <1>2, StepTipRead, Zenon
<1>3. CASE ViewGetBestBlock
  BY <1>3, StepViewGetBestBlock, Zenon
<1>4. ASSUME NEW txid \in Txids, ViewGetCoins(txid) PROVE Inv'
  BY <1>4, StepViewGetCoins, Zenon
<1>5. ASSUME NEW txid \in Txids, NEW c \in Coins, ModifyCoins(txid, c) PROVE Inv'
  BY <1>5, StepModifyCoins, Zenon
<1>6. ASSUME NEW t \in Types, NEW rt \in Roots, ViewGetAnchorAt(t, rt) PROVE Inv'
  BY <1>6, StepViewGetAnchorAt, Zenon
<1>7. ASSUME NEW t \in Types, NEW rt \in Roots, PushAnchor(t, rt) PROVE Inv'
  BY <1>7, StepPushAnchor, Zenon
<1>8. ASSUME NEW t \in Types, NEW rt \in Roots, PopAnchor(t, rt) PROVE Inv'
  BY <1>8, StepPopAnchor, Zenon
<1>9. ASSUME NEW t \in Types, NEW nf \in Nfs, ViewGetNullifier(t, nf) PROVE Inv'
  BY <1>9, StepViewGetNullifier, Zenon
<1>10. ASSUME NEW t \in Types, NEW nf \in Nfs, NEW spent \in BOOLEAN, SetNullifiers(t, nf, spent) PROVE Inv'
  BY <1>10, StepSetNullifiers, Zenon
<1>11. ASSUME NEW b \in Blocks, SetBestBlock(b) PROVE Inv'
  BY <1>11, StepSetBestBlock, Zenon
<1>12. CASE FlushView
  BY <1>12, StepFlushView, Zenon
<1>13. CASE DropView
  BY <1>13, StepDropView, Zenon
<1>14. CASE FlushTip
  BY <1>14, StepFlushTip, Zenon
<1>15. CASE Restart
  BY <1>15, StepRestart, Zenon DEF Inv
<1>16. CASE UNCHANGED vars
  BY <1>16, Zenon DEF vars, Inv, TypeOK, DbAnchors, MapsInv
<1> QED BY <1>1, <1>2, <1>3, <1>4, <1>5, <1>6, <1>7, <1>8, <1>9, <1>10, <1>11, <1>12, <1>13,
           <1>14, <1>15, <1>16 DEF Next

\* The strengthened invariant holds in every reachable state.
THEOREM Invariant == Spec => []Inv
<1>1. Init => Inv
  BY InitInv, Zenon
<1>2. Inv /\ [Next]_vars => Inv'
  BY NextInv, Zenon
<1> QED BY <1>1, <1>2, PTL DEF Spec

\* The database, pcoinsTip and the view always have their types.
THEOREM TypeCorrect == Spec => []TypeOK
<1>1. Inv => TypeOK
  BY Zenon DEF Inv
<1> QED BY <1>1, Invariant, PTL

\* In every order of reads, writes, flushes and restarts, an entry that is not DIRTY is
\* the entry of the view below and a FRESH entry is absent or pruned there, as the
\* comments on CCoinsCacheEntry::Flags say.
THEOREM FlagsCorrect == Spec => []FlagsSound
<1>1. Inv => FlagsSound
  BY Represented, Zenon DEF Inv, FlagsSound, CoinsInv, AnchorInv, NfInv, MapsInv
<1> QED BY <1>1, Invariant, PTL

\* The assertion on FRESH in CCoinsViewCache::BatchWrite never fails.
THEOREM FlushAssertHolds == Spec => []FlushAssert
<1>1. Inv => FlushAssert
  BY Zenon DEF Inv, FlushAssert, CoinsInv, MapsInv
<1> QED BY <1>1, Invariant, PTL

\* An anchor offered by a cache comes with the tree of that root.
THEOREM TreesCorrect == Spec => []TreeOfRoot
<1>1. Inv => TreeOfRoot
  BY Zenon DEF Inv, TreeOfRoot, AnchorInv, Trees, MapsInv
<1> QED BY <1>1, Invariant, PTL

-----------------------------------------------------------------------------
(* The best anchor and the refinement hold above the Floor: as long as no  *)
(* reorganisation goes back to the empty tree, which CCoinsViewDB does not *)
(* record as the best anchor.                                              *)

AboveFloor == \A t \in Types : Floor[t] # EmptyRoot

BestIn(D) == \A t \in Types : D.bestAnchor[t] \in D.anchors[t] /\ D.bestAnchor[t] # EmptyRoot

BestInv == BestIn(DbLedger) /\ BestIn(TipLedger) /\ BestIn(ViewLedger)

\* The ledgers of Inv have the types of the abstract ledger.
LEMMA LedgerTypes ==
    ASSUME TypeOK
    PROVE  /\ DbLedger \in Ledger!Ledgers
           /\ TipLedger.bestAnchor \in [Types -> Roots] /\ TipLedger.anchors \in RootSets
           /\ ViewLedger.bestAnchor \in [Types -> Roots] /\ ViewLedger.anchors \in RootSets
<1>1. DbLedger \in Ledger!Ledgers
  BY FieldTypes, Represented, Zenon DEF Ledger!Ledgers, RootSets, NfSets, FieldsTyped
<1>2. TipLedger.bestAnchor \in [Types -> Roots] /\ TipLedger.anchors \in RootSets
  BY FieldTypes, Represented, Zenon DEF FieldsTyped
<1>3. /\ ViewLedger.bestAnchor = OverBestAnchor(view.hashAnchor, TipLedger.bestAnchor)
      /\ ViewLedger.anchors = OverAnchors(view.cacheAnchors, TipLedger.anchors)
  BY Represented, Zenon
<1>4. ViewLedger.bestAnchor \in [Types -> Roots]
  <2>1. view.hashAnchor \in Hashes
    BY FieldTypes, Zenon DEF FieldsTyped
  <2>2. ASSUME NEW t \in Types PROVE ViewLedger.bestAnchor[t] \in Roots
    BY <1>2, <1>3, <2>1, Zenon DEF OverBestAnchor, Hashes
  <2> QED BY <1>3, <2>2, Zenon DEF OverBestAnchor
<1>5. ViewLedger.anchors \in RootSets
  BY FieldTypes, <1>2, <1>3, OverAnchorsType, Zenon DEF FieldsTyped
<1> QED BY <1>1, <1>2, <1>4, <1>5, Zenon

\* A flush of pcoinsTip writes its whole ledger, the best anchors included.
LEMMA FlushTipWritesAll ==
    ASSUME Inv, BestIn(TipLedger), FlushTip
    PROVE  DbLedger' = TipLedger
<1>1. /\ DbLedger'.coins = TipLedger.coins /\ DbLedger'.anchors = TipLedger.anchors
      /\ DbLedger'.nullifiers = TipLedger.nullifiers /\ DbLedger'.bestBlock = TipLedger.bestBlock
      /\ \A t \in Types : DbLedger'.bestAnchor[t] = TipLedger.bestAnchor[t]
      /\ TypeOK /\ TypeOK'
  BY StepFlushTip, Zenon DEF BestIn, Inv
<1>2. (TypeOK => DbLedger.bestAnchor \in [Types -> Roots])'
  BY FieldTypes, Zenon DEF DbLedger, Databases, TypeOK
<1>3. DbLedger'.bestAnchor = TipLedger.bestAnchor
  BY <1>1, <1>2, LedgerTypes
<1>4. /\ TipLedger = [coins |-> TipLedger.coins, anchors |-> TipLedger.anchors,
                      nullifiers |-> TipLedger.nullifiers, bestBlock |-> TipLedger.bestBlock,
                      bestAnchor |-> TipLedger.bestAnchor]
      /\ DbLedger' = [coins |-> DbLedger'.coins, anchors |-> DbLedger'.anchors,
                      nullifiers |-> DbLedger'.nullifiers, bestBlock |-> DbLedger'.bestBlock,
                      bestAnchor |-> DbLedger'.bestAnchor]
  BY Zenon DEF TipLedger, DbLedger, Over
<1> QED BY <1>1, <1>3, <1>4, Zenon

\* A root pushed is new or the current one, a root popped to is still there.
LEMMA StepAnchors ==
    ASSUME Inv, BestIn(ViewLedger), AboveFloor, NEW t \in Types, NEW rt \in Roots,
           PushAnchor(t, rt) \/ PopAnchor(t, rt)
    PROVE  /\ SameBelow
           /\ BestIn(ViewLedger)'
           /\ ViewLedger' = ViewLedger \/ Ledger!PushRoot(t, rt) \/ Ledger!PopRoot(t, rt)
<1> DEFINE D == ViewLedger
           cur == D.bestAnchor[t]
           h == [D.bestAnchor EXCEPT ![t] = rt]
           more == [D.anchors EXCEPT ![t] = @ \cup {rt}]
           less == [D.anchors EXCEPT ![t] = @ \ {cur}]
<1>1. /\ D.bestAnchor \in [Types -> Roots] /\ D.anchors \in [Types -> SUBSET Roots]
      /\ \A u \in Types : EmptyRoot \in D.anchors[u]
      /\ cur \in D.anchors[t]
  <2>1. TypeOK /\ \A u \in Types : EmptyRoot \in D.anchors[u]
    BY Represented, Zenon DEF Inv, AnchorInv, MapsInv
  <2> QED BY <2>1, LedgerTypes, Zenon DEF RootSets, BestIn
<1>2. D = [coins |-> D.coins, anchors |-> D.anchors, nullifiers |-> D.nullifiers,
           bestBlock |-> D.bestBlock, bestAnchor |-> D.bestAnchor]
  BY Represented, Zenon
<1>3. CASE PushAnchor(t, rt)
  <2>1. /\ SameBelow
        /\ rt # cur => rt \notin D.anchors[t]
        /\ ViewLedger' = [coins |-> D.coins, anchors |-> IF rt = cur THEN D.anchors ELSE more,
                          nullifiers |-> D.nullifiers, bestBlock |-> D.bestBlock, bestAnchor |-> h]
    BY <1>3, StepPushAnchor, Zenon
  <2>2. rt = cur => more = D.anchors
    BY <1>1, Zenon
  <2>3. ViewLedger' = [coins |-> D.coins, anchors |-> more, nullifiers |-> D.nullifiers,
                       bestBlock |-> D.bestBlock, bestAnchor |-> h]
    <3> HIDE DEF D, cur, h, more
    <3> QED BY <2>1, <2>2, Zenon
  <2>4. Ledger!PushRoot(t, rt)
    <3>1. ViewLedger' = [ViewLedger EXCEPT !.anchors = more, !.bestAnchor = h]
      <4> HIDE DEF h, more
      <4> QED BY <2>3, ViewLedgerWith, Zenon
    <3> QED BY <3>1, Zenon DEF Ledger!PushRoot
  <2>5. ASSUME NEW u \in Types
        PROVE  ViewLedger'.bestAnchor[u] \in ViewLedger'.anchors[u] /\ ViewLedger'.bestAnchor[u] # EmptyRoot
    <3>1. ViewLedger'.bestAnchor = h /\ ViewLedger'.anchors = more
      BY <2>3, Zenon
    <3>2. CASE u = t
      BY <1>1, <2>1, <3>1, <3>2, Zenon DEF BestIn
    <3>3. CASE u # t
      <4>1. h[u] = D.bestAnchor[u] /\ more[u] = D.anchors[u]
        BY <1>1, <3>3, Zenon
      <4> QED BY <3>1, <4>1, Zenon DEF BestIn
    <3> QED BY <3>2, <3>3, Zenon
  <2> QED BY <2>1, <2>4, <2>5, Zenon DEF BestIn
<1>4. CASE PopAnchor(t, rt)
  <2>1. /\ SameBelow
        /\ rt # cur => rt \in D.anchors[t] /\ rt # EmptyRoot
        /\ ViewLedger' = [coins |-> D.coins, anchors |-> IF rt = cur THEN D.anchors ELSE less,
                          nullifiers |-> D.nullifiers, bestBlock |-> D.bestBlock, bestAnchor |-> h]
    BY <1>4, StepPopAnchor, Zenon DEF AboveFloor
  <2>2. CASE rt = cur
    <3>1. h = D.bestAnchor
      BY <1>1, <2>2, Zenon
    <3> HIDE DEF h
    <3>2. ViewLedger' = ViewLedger
      BY <1>2, <2>1, <2>2, <3>1, Zenon
    <3> QED BY <2>1, <3>2, Zenon DEF BestIn
  <2>3. CASE rt # cur
    <3>1. ViewLedger' = [coins |-> D.coins, anchors |-> less, nullifiers |-> D.nullifiers,
                         bestBlock |-> D.bestBlock, bestAnchor |-> h]
      BY <2>1, <2>3, Zenon
    <3>2. ViewLedger' = [ViewLedger EXCEPT !.anchors = less, !.bestAnchor = h]
      <4> HIDE DEF h, less
      <4> QED BY <3>1, ViewLedgerWith, Zenon
    <3>3. Ledger!PopRoot(t, rt)
      BY <3>2, Zenon DEF Ledger!PopRoot
    <3>4. ASSUME NEW u \in Types
          PROVE  ViewLedger'.bestAnchor[u] \in ViewLedger'.anchors[u] /\ ViewLedger'.bestAnchor[u] # EmptyRoot
      <4>1. ViewLedger'.bestAnchor = h /\ ViewLedger'.anchors = less
        BY <3>1, Zenon
      <4>2. CASE u = t
        BY <1>1, <2>1, <2>3, <4>1, <4>2, Zenon DEF BestIn
      <4>3. CASE u # t
        <5>1. h[u] = D.bestAnchor[u] /\ less[u] = D.anchors[u]
          BY <1>1, <4>3, Zenon
        <5> QED BY <4>1, <5>1, Zenon DEF BestIn
      <4> QED BY <4>2, <4>3, Zenon
    <3> QED BY <2>1, <3>3, <3>4, Zenon DEF BestIn
  <2> QED BY <2>2, <2>3, Zenon
<1> QED BY <1>3, <1>4, Zenon

\* Every step keeps the best anchors known and is a step of CoinsLedger or a stutter.
LEMMA NextLedger ==
    ASSUME AboveFloor
    PROVE  Inv /\ BestInv /\ [Next]_vars => BestInv' /\ [Ledger!Next]_(Ledger!vars)
<1> DEFINE Goal == BestInv' /\ [Ledger!Next]_(Ledger!vars)
<1> SUFFICES ASSUME Inv, BestInv, [Next]_vars PROVE Goal
  BY Zenon
<1>1. ASSUME SameLedgers, open' = open PROVE Goal
  BY <1>1, Zenon DEF SameLedgers, BestInv, BestIn, Ledger!vars
<1>2. ASSUME SameBelow, open, open' = open, BestIn(ViewLedger)',
             \/ \E txid \in Txids, c \in Coins : Ledger!WriteCoins(txid, c)
             \/ \E t \in Types, nf \in Nfs, spent \in BOOLEAN : Ledger!WriteNullifier(t, nf, spent)
             \/ \E t \in Types, rt \in Roots : Ledger!PushRoot(t, rt) \/ Ledger!PopRoot(t, rt)
             \/ \E b \in Blocks : Ledger!WriteBestBlock(b)
      PROVE  Goal
  <2>1. BestInv'
    BY <1>2, Zenon DEF SameBelow, BestInv, BestIn
  <2>2. Ledger!Write
    BY <1>2, Zenon DEF SameBelow, Ledger!Write
  <2> QED BY <2>1, <2>2, Zenon DEF Ledger!Next
<1>3. ASSUME ViewLedger'.anchors = ViewLedger.anchors, ViewLedger'.bestAnchor = ViewLedger.bestAnchor
      PROVE  BestIn(ViewLedger)'
  BY <1>3, Zenon DEF BestInv, BestIn
<1> HIDE DEF Goal
<1>4. CASE OpenView
  <2>1. SameLedgers /\ ~open /\ open' = TRUE
    BY <1>4, StepOpenView, Zenon DEF OpenView
  <2>2. Ledger!Begin
    BY <2>1, Zenon DEF SameLedgers, Ledger!Begin
  <2> QED BY <2>1, <2>2, Zenon DEF Goal, SameLedgers, BestInv, BestIn, Ledger!Next
<1>5. CASE TipRead
  BY <1>1, <1>5, StepTipRead, Zenon DEF TipRead
<1>6. CASE ViewGetBestBlock
  BY <1>1, <1>6, StepViewGetBestBlock, Zenon DEF ViewGetBestBlock
<1>7. ASSUME NEW txid \in Txids, ViewGetCoins(txid) PROVE Goal
  BY <1>1, <1>7, StepViewGetCoins, Zenon DEF ViewGetCoins
<1>8. ASSUME NEW txid \in Txids, NEW c \in Coins, ModifyCoins(txid, c) PROVE Goal
  <2>1. SameBelow /\ Ledger!WriteCoins(txid, c) /\ open /\ open' = open
    BY <1>8, StepModifyCoins, Zenon DEF ModifyCoins
  <2>2. ViewLedger'.anchors = ViewLedger.anchors /\ ViewLedger'.bestAnchor = ViewLedger.bestAnchor
    BY <2>1, Zenon DEF Ledger!WriteCoins, ViewLedger, Over
  <2> QED BY <1>2, <1>3, <2>1, <2>2, Zenon
<1>9. ASSUME NEW t \in Types, NEW rt \in Roots, ViewGetAnchorAt(t, rt) PROVE Goal
  BY <1>1, <1>9, StepViewGetAnchorAt, Zenon DEF ViewGetAnchorAt
<1>10. ASSUME NEW t \in Types, NEW rt \in Roots, PushAnchor(t, rt) \/ PopAnchor(t, rt) PROVE Goal
  <2>1. /\ SameBelow
        /\ BestIn(ViewLedger)'
        /\ ViewLedger' = ViewLedger \/ Ledger!PushRoot(t, rt) \/ Ledger!PopRoot(t, rt)
    BY <1>10, StepAnchors, Zenon DEF BestInv
  <2>2. open /\ open' = open
    BY <1>10, Zenon DEF PushAnchor, PopAnchor
  <2>3. CASE ViewLedger' = ViewLedger
    BY <1>1, <2>1, <2>2, <2>3, Zenon DEF SameLedgers, SameBelow
  <2>4. CASE Ledger!PushRoot(t, rt) \/ Ledger!PopRoot(t, rt)
    BY <1>2, <2>1, <2>2, <2>4, Zenon
  <2> QED BY <2>1, <2>3, <2>4, Zenon
<1>11. ASSUME NEW t \in Types, NEW nf \in Nfs, ViewGetNullifier(t, nf) PROVE Goal
  BY <1>1, <1>11, StepViewGetNullifier, Zenon DEF ViewGetNullifier
<1>12. ASSUME NEW t \in Types, NEW nf \in Nfs, NEW spent \in BOOLEAN, SetNullifiers(t, nf, spent)
       PROVE  Goal
  <2>1. SameBelow /\ Ledger!WriteNullifier(t, nf, spent) /\ open /\ open' = open
    BY <1>12, StepSetNullifiers, Zenon DEF SetNullifiers
  <2>2. ViewLedger'.anchors = ViewLedger.anchors /\ ViewLedger'.bestAnchor = ViewLedger.bestAnchor
    BY <2>1, ViewLedgerWith, Zenon DEF Ledger!WriteNullifier
  <2> QED BY <1>2, <1>3, <2>1, <2>2, Zenon
<1>13. ASSUME NEW b \in Blocks, SetBestBlock(b) PROVE Goal
  <2>1. SameBelow /\ Ledger!WriteBestBlock(b) /\ open /\ open' = open
    BY <1>13, StepSetBestBlock, Zenon DEF SetBestBlock
  <2>2. ViewLedger'.anchors = ViewLedger.anchors /\ ViewLedger'.bestAnchor = ViewLedger.bestAnchor
    BY <2>1, Zenon DEF Ledger!WriteBestBlock, ViewLedger, Over
  <2> QED BY <1>2, <1>3, <2>1, <2>2, Zenon
<1>14. CASE FlushView
  <2>1. /\ DbLedger' = DbLedger /\ TipLedger' = ViewLedger /\ ViewLedger' = ViewLedger
        /\ open /\ open' = FALSE
    BY <1>14, StepFlushView, Zenon DEF FlushView
  <2> QED BY <2>1, Zenon DEF Goal, BestInv, BestIn, Ledger!Next, Ledger!Commit
<1>15. CASE DropView
  <2>1. /\ DbLedger' = DbLedger /\ TipLedger' = TipLedger /\ ViewLedger' = TipLedger
        /\ open /\ open' = FALSE
    BY <1>15, StepDropView, Zenon DEF DropView
  <2> QED BY <2>1, Zenon DEF Goal, BestInv, BestIn, Ledger!Next, Ledger!Abort
<1>16. CASE FlushTip
  <2>1. /\ DbLedger' = TipLedger /\ TipLedger' = TipLedger /\ ViewLedger' = ViewLedger
        /\ ~open /\ open' = open
    BY <1>16, StepFlushTip, FlushTipWritesAll, Zenon DEF FlushTip, BestInv
  <2> QED BY <2>1, Zenon DEF Goal, BestInv, BestIn, Ledger!Next, Ledger!Sync
<1>17. CASE Restart
  <2>1. /\ DbLedger' = DbLedger /\ TipLedger' = DbLedger /\ ViewLedger' = DbLedger
        /\ open' = FALSE
    BY <1>17, StepRestart, Zenon DEF Restart, Inv
  <2> QED BY <2>1, Zenon DEF Goal, BestInv, BestIn, Ledger!Next, Ledger!Crash
<1>18. CASE UNCHANGED vars
  <2>1. SameLedgers /\ open' = open
    BY <1>18, Zenon DEF vars, SameLedgers, DbLedger, TipLedger, ViewLedger
  <2> QED BY <1>1, <2>1, Zenon
<1> QED BY <1>4, <1>5, <1>6, <1>7, <1>8, <1>9, <1>10, <1>11, <1>12, <1>13, <1>14, <1>15, <1>16,
           <1>17, <1>18 DEF Next

\* The initial states map to initial states of CoinsLedger.
LEMMA InitLedger ==
    ASSUME AboveFloor
    PROVE  Init => BestInv /\ Ledger!Init
<1> SUFFICES ASSUME Init PROVE BestInv /\ Ledger!Init
  BY Zenon
<1>1. TypeOK /\ TipLedger = DbLedger /\ ViewLedger = DbLedger /\ open = FALSE
  BY InitInv, Zenon DEF Inv, Init
<1>2. BestIn(DbLedger)
  <2>1. db.bestAnchor = Floor /\ db.anchors = [t \in Types |-> {Floor[t]} \ {EmptyRoot}]
    BY Zenon DEF Init
  <2> QED BY <2>1, Zenon DEF BestIn, DbLedger, AboveFloor
<1> QED BY <1>1, <1>2, LedgerTypes, Zenon DEF BestInv, Ledger!Init

\* The tree of the best anchor can always be fetched, through the view and through
\* pcoinsTip: the assertions of ConnectBlock and BringBestAnchorIntoCache hold.
THEOREM BestAnchorAlwaysKnown ==
    ASSUME AboveFloor
    PROVE  Spec => []BestAnchorKnown
<1>1. Init => Inv /\ BestInv
  BY InitInv, InitLedger, Zenon
<1>2. Inv /\ BestInv /\ [Next]_vars => (Inv /\ BestInv)'
  BY NextInv, NextLedger, Zenon
<1>3. Inv /\ BestInv => BestAnchorKnown
  <2> SUFFICES ASSUME Inv, BestInv, NEW t \in Types
               PROVE  /\ ViewHasAnchor(t, ViewBestAnchor(t))
                      /\ TipAnchor(t, TipBestAnchor(t)).found
    BY Zenon DEF BestAnchorKnown
  <2>1. TypeOK /\ BestAnchorsSeen(t)
    BY BestAnchorRead, Zenon DEF Inv
  <2>2. /\ TipLedger.bestAnchor = OverBestAnchor(tip.hashAnchor, db.bestAnchor)
        /\ ViewLedger.bestAnchor = OverBestAnchor(view.hashAnchor, TipLedger.bestAnchor)
        /\ TipLedger.anchors = OverAnchors(tip.cacheAnchors, DbAnchors)
        /\ ViewLedger.anchors = OverAnchors(view.cacheAnchors, TipLedger.anchors)
    BY Represented, Zenon
  <2>3. /\ TipBestAnchor(t) = TipLedger.bestAnchor[t] /\ ViewBestAnchor(t) = ViewLedger.bestAnchor[t]
        /\ TipBestAnchor(t) \in Roots /\ ViewBestAnchor(t) \in Roots
    BY <2>1, <2>2, LedgerTypes, Zenon DEF BestAnchorsSeen
  <2>4. /\ TipBestAnchor(t) \in OverAnchors(tip.cacheAnchors, DbAnchors)[t]
        /\ ViewBestAnchor(t)
             \in OverAnchors(view.cacheAnchors, OverAnchors(tip.cacheAnchors, DbAnchors))[t]
    BY <2>2, <2>3, Zenon DEF BestInv, BestIn
  <2> QED BY <2>3, <2>4, TipAnchorRead, ViewAnchorRead, Zenon
<1> QED BY <1>1, <1>2, <1>3, PTL DEF Spec

\* The stack of caches implements CoinsLedger: reads change nothing that is seen, a flush
\* moves all changes and nothing else, a restart returns to the last flush of pcoinsTip.
THEOREM Refinement ==
    ASSUME AboveFloor
    PROVE  Spec => LedgerSpec
<1>1. Init => Inv /\ BestInv /\ Ledger!Init
  BY InitInv, InitLedger, Zenon
<1>2. Inv /\ BestInv /\ [Next]_vars => (Inv /\ BestInv)'
  BY NextInv, NextLedger, Zenon
<1>3. Inv /\ BestInv /\ [Next]_vars => [Ledger!Next]_(Ledger!vars)
  BY NextLedger, Zenon
<1> QED BY <1>1, <1>2, <1>3, PTL DEF Spec, LedgerSpec, Ledger!Spec
=============================================================================
