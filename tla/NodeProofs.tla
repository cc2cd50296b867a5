----------------------------- MODULE NodeProofs -----------------------------
(* Proofs about the parts where threads wait for one another, the scheduler, the script      *)
(* check queue and the RPC server, and about the memory pool.                                *)
EXTENDS CheckQueue, Scheduler, RpcServer, MempoolChain, TLAPS

\* The time that the prover has for a step.
USE SMTT(30)

-----------------------------------------------------------------------------
(* Facts about finite sets. *)

INSTANCE FiniteSetTheorems

-----------------------------------------------------------------------------
(* The check queue is idle between blocks and Wait returns the right verdict, for any number *)
(* of worker threads, checks and blocks, any batch size, and interrupts at any time.         *)

-----------------------------------------------------------------------------
(* Sequences of checks, and the size of a batch. *)

\* Adding checks adds what they return.
LEMMA AllOfConcat ==
  ASSUME NEW s \in Seq(BOOLEAN), NEW u \in Seq(BOOLEAN)
  PROVE  AllOf(s \o u) <=> AllOf(s) /\ AllOf(u)
  <1>1. ASSUME NEW i \in DOMAIN s
        PROVE  i \in DOMAIN (s \o u) /\ (s \o u)[i] = s[i]
    OBVIOUS
  <1>2. ASSUME NEW i \in DOMAIN u
        PROVE  Len(s) + i \in DOMAIN (s \o u) /\ (s \o u)[Len(s) + i] = u[i]
    OBVIOUS
  <1>3. ASSUME NEW i \in DOMAIN (s \o u), i \notin DOMAIN s
        PROVE  i - Len(s) \in DOMAIN u /\ (s \o u)[i] = u[i - Len(s)]
    BY <1>3
  <1> QED  BY <1>1, <1>2, <1>3, Zenon DEF AllOf

\* Cutting the stack of checks in two loses none of them.
LEMMA AllOfCut ==
  ASSUME NEW s \in Seq(BOOLEAN), NEW k \in 0..Len(s)
  PROVE  /\ SubSeq(s, 1, k) \in Seq(BOOLEAN) /\ SubSeq(s, k + 1, Len(s)) \in Seq(BOOLEAN)
         /\ Len(SubSeq(s, 1, k)) = k /\ Len(SubSeq(s, k + 1, Len(s))) = Len(s) - k
         /\ AllOf(s) <=> AllOf(SubSeq(s, 1, k)) /\ AllOf(SubSeq(s, k + 1, Len(s)))
  <1> DEFINE a == SubSeq(s, 1, k)
             b == SubSeq(s, k + 1, Len(s))
  <1>1. a \in Seq(BOOLEAN) /\ Len(a) = k /\ b \in Seq(BOOLEAN) /\ Len(b) = Len(s) - k
    OBVIOUS
  <1>2. ASSUME NEW i \in DOMAIN a
        PROVE  i \in DOMAIN s /\ s[i] = a[i]
    OBVIOUS
  <1>3. ASSUME NEW i \in DOMAIN b
        PROVE  k + i \in DOMAIN s /\ s[k + i] = b[i]
    OBVIOUS
  <1>4. ASSUME NEW i \in DOMAIN s
        PROVE  \/ i \in DOMAIN a /\ s[i] = a[i]
               \/ i - k \in DOMAIN b /\ s[i] = b[i - k]
    OBVIOUS
  <1>5. AllOf(s) <=> AllOf(a) /\ AllOf(b)
    BY <1>2, <1>3, <1>4, Zenon DEF AllOf
  <1> QED  BY <1>1, <1>5, Zenon

\* Division rounds down.
LEMMA DivBounds ==
  ASSUME NEW a \in Nat, NEW d \in Nat \ {0}
  PROVE  a \div d \in 0..a
  OBVIOUS

\* The larger and the smaller of two numbers.
LEMMA MaxMinOfTwo ==
  ASSUME NEW a \in Int, NEW b \in Int
  PROVE  /\ Max({a, b}) \in {a, b} /\ Max({a, b}) >= a /\ Max({a, b}) >= b
         /\ Min({a, b}) \in {a, b} /\ Min({a, b}) <= a /\ Min({a, b}) <= b
  <1>1. \E x \in {a, b} : \A y \in {a, b} : x >= y
    OBVIOUS
  <1>2. \E x \in {a, b} : \A y \in {a, b} : x =< y
    OBVIOUS
  <1>3. Max({a, b}) \in {a, b} /\ \A y \in {a, b} : Max({a, b}) >= y
    BY <1>1, Zenon DEF Max
  <1>4. Min({a, b}) \in {a, b} /\ \A y \in {a, b} : Min({a, b}) =< y
    BY <1>2, Zenon DEF Min
  <1> QED  BY <1>3, <1>4, Zenon

\* A batch has at least one check, and no more than there are.
LEMMA BatchLenBounds ==
  ASSUME NEW total \in Nat, NEW idle \in Nat, checks \in Seq(BOOLEAN), checks # <<>>
  PROVE  BatchLen(total, idle) \in 1..Len(checks)
  <1> DEFINE q == Len(checks) \div (total + idle + 1)
             m == Min({nBatchSize, q})
  <1>1. q \in 0..Len(checks) /\ Len(checks) \in Nat \ {0}
    BY DivBounds
  <1>2. q \in Int /\ nBatchSize \in Int
    BY <1>1, CheckQueueAssumption
  <1>3. BatchLen(total, idle) = Max({1, m})
    BY Zenon DEF BatchLen
  <1> HIDE DEF q
  <1>4. m \in {nBatchSize, q} /\ m <= q
    BY <1>2, MaxMinOfTwo, Zenon
  <1> HIDE DEF m
  <1>5. m \in Int /\ 1 \in Int
    BY <1>2, <1>4
  <1>6. Max({1, m}) \in {1, m} /\ Max({1, m}) >= 1
    BY <1>5, MaxMinOfTwo, Zenon
  <1>7. \A x \in {1, m} : x >= 1 => x \in 1..Len(checks)
    BY <1>1, <1>4, <1>5
  <1> QED  BY <1>3, <1>6, <1>7, Zenon

-----------------------------------------------------------------------------
(* Counting threads, and the checks in their batches. *)

InLoop == [at : {"new", "gone", "wait", "woken", "busy", "out"}, batch : Seq(BOOLEAN), fOk : BOOLEAN]
LoopType == [Threads -> InLoop]

Busy(l) == {t \in Threads : l[t].at = "busy"}
Asleep(l) == {t \in Threads : l[t].at \in {"wait", "woken"}}

\* The checks in the batches, each as its thread and its place.
Pending(l) == {p \in Threads \X Nat : l[p[1]].at = "busy" /\ p[2] \in 1..Len(l[p[1]].batch)}
PendingBut(l, t) == {p \in Pending(l) : p[1] # t}

\* The threads are the workers and the master, finitely many.
LEMMA ThreadsFinite == IsFiniteSet(Threads) /\ Master \in Threads
  BY CheckQueueAssumption, FS_AddElement, Zenon DEF Threads

\* Any set of threads is finite and has a size.
LEMMA SubsetsOfThreads ==
  ASSUME NEW S \in SUBSET Threads
  PROVE  IsFiniteSet(S) /\ Cardinality(S) \in Nat
  BY ThreadsFinite, FS_Subset, FS_CardinalityType, Zenon

\* The counts when thread t has gone to v.
Moved(l, m, t, v) ==
    /\ Cardinality(Busy(m)) = Cardinality(Busy(l) \ {t}) + (IF v.at = "busy" THEN 1 ELSE 0)
    /\ Cardinality(Asleep(m)) =
          Cardinality(Asleep(l) \ {t}) + (IF v.at \in {"wait", "woken"} THEN 1 ELSE 0)
    /\ IsFiniteSet(Pending(m))
    /\ Cardinality(Pending(m)) =
          Cardinality(PendingBut(l, t)) + (IF v.at = "busy" THEN Len(v.batch) ELSE 0)

\* What the counts become when one thread goes to another place.
LEMMA MoveThread ==
  ASSUME NEW l \in LoopType, NEW t \in Threads, NEW v \in InLoop, IsFiniteSet(Pending(l)),
         NEW m \in LoopType, m[t] = v, \A x \in Threads \ {t} : m[x] = l[x]
  PROVE  Moved(l, m, t, v)
  <1>1. m \in LoopType /\ m[t] = v /\ \A x \in Threads \ {t} : m[x] = l[x]
    BY Zenon
  <1>2. Cardinality(Busy(m)) = Cardinality(Busy(l) \ {t}) + (IF v.at = "busy" THEN 1 ELSE 0)
    <2>1. Busy(m) = (Busy(l) \ {t}) \cup (IF v.at = "busy" THEN {t} ELSE {})
      BY <1>1, Zenon DEF Busy
    <2>2. IsFiniteSet(Busy(l) \ {t}) /\ Cardinality(Busy(l) \ {t}) \in Nat
      BY SubsetsOfThreads, Zenon DEF Busy
    <2>3. CASE v.at = "busy"
      BY <2>1, <2>2, <2>3, FS_AddElement, Zenon
    <2>4. CASE v.at # "busy"
      BY <2>1, <2>2, <2>4
    <2> QED  BY <2>3, <2>4, Zenon
  <1>3. Cardinality(Asleep(m)) =
           Cardinality(Asleep(l) \ {t}) + (IF v.at \in {"wait", "woken"} THEN 1 ELSE 0)
    <2>1. Asleep(m) = (Asleep(l) \ {t}) \cup (IF v.at \in {"wait", "woken"} THEN {t} ELSE {})
      BY <1>1, Zenon DEF Asleep
    <2>2. IsFiniteSet(Asleep(l) \ {t}) /\ Cardinality(Asleep(l) \ {t}) \in Nat
      BY SubsetsOfThreads, Zenon DEF Asleep
    <2>3. CASE v.at \in {"wait", "woken"}
      BY <2>1, <2>2, <2>3, FS_AddElement, Zenon
    <2>4. CASE v.at \notin {"wait", "woken"}
      BY <2>1, <2>2, <2>4
    <2> QED  BY <2>3, <2>4, Zenon
  <1>4. IsFiniteSet(Pending(m)) /\ Cardinality(Pending(m)) =
           Cardinality(PendingBut(l, t)) + (IF v.at = "busy" THEN Len(v.batch) ELSE 0)
    <2> DEFINE n == Len(v.batch)
               mine == {t} \X (1..n)
               rest == PendingBut(l, t)
    <2>1. n \in Nat
      BY DEF InLoop
    <2>2. IsFiniteSet(rest) /\ Cardinality(rest) \in Nat
      BY FS_Subset, FS_CardinalityType, Zenon DEF PendingBut
    <2>3. IsFiniteSet(mine) /\ Cardinality(mine) = n
      <3>1. IsFiniteSet(1..n) /\ Cardinality(1..n) = n
        BY <2>1, FS_Interval
      <3>2. IsFiniteSet({t}) /\ Cardinality({t}) = 1
        BY FS_Singleton, Zenon
      <3>3. IsFiniteSet({t} \X (1..n)) /\ Cardinality({t} \X (1..n)) = Cardinality({t}) * Cardinality(1..n)
        BY <3>1, <3>2, FS_Product, Zenon
      <3> HIDE DEF n
      <3>4. Cardinality({t}) * Cardinality(1..n) = n
        BY <2>1, <3>1, <3>2
      <3> QED  BY <3>3, <3>4, Zenon
    <2>4. Pending(m) = rest \cup (IF v.at = "busy" THEN mine ELSE {})
      <3>1. ASSUME NEW p
            PROVE  p \in Pending(m) <=>
                      p \in rest \/ (v.at = "busy" /\ p \in mine)
        <4>1. CASE p \in Threads \X Nat /\ p[1] = t
          BY <1>1, <2>1, <4>1, Zenon DEF Pending, PendingBut
        <4>2. CASE p \in Threads \X Nat /\ p[1] # t
          BY <1>1, <2>1, <4>2, Zenon DEF Pending, PendingBut
        <4>3. CASE p \notin Threads \X Nat
          BY <2>1, <4>3 DEF Pending, PendingBut
        <4> QED  BY <4>1, <4>2, <4>3, Zenon
      <3> HIDE DEF mine, rest
      <3> QED  BY <3>1, Zenon
    <2>5. rest \cap mine = {}
      BY Zenon DEF PendingBut, Pending
    <2> HIDE DEF mine, rest, n
    <2>6. CASE v.at = "busy"
      <3>1. Cardinality(rest \cap mine) = 0
        BY <2>5, FS_EmptySet, Zenon
      <3>2. Pending(m) = rest \cup mine
        BY <2>4, <2>6, Zenon
      <3>3. /\ IsFiniteSet(rest \cup mine)
            /\ Cardinality(rest \cup mine)
                  = Cardinality(rest) + Cardinality(mine) - Cardinality(rest \cap mine)
        BY <2>2, <2>3, FS_Union, Zenon
      <3>4. Cardinality(rest \cup mine) = Cardinality(rest) + n
        BY <2>1, <2>2, <2>3, <3>1, <3>3
      <3> QED  BY <2>6, <3>2, <3>3, <3>4, Zenon DEF rest, n
    <2>7. CASE v.at # "busy"
      BY <2>2, <2>4, <2>7 DEF rest
    <2> QED  BY <2>6, <2>7, Zenon
  <1> QED  BY <1>2, <1>3, <1>4, Zenon DEF Moved

-----------------------------------------------------------------------------
(* The invariant. *)

CheckQueueType ==
    /\ checks \in Seq(BOOLEAN) /\ fAllOk \in BOOLEAN
    /\ nIdle \in Nat /\ nTotal \in Nat /\ nTodo \in Nat
    /\ loop \in LoopType
    /\ control \in {"none", "add", "wait", "unwind"}
    /\ added \in [num : Nat, ok : BOOLEAN] /\ verdict \in BOOLEAN

\* nTotal counts the threads that are busy and those nIdle counts, which may be more than are
\* asleep: an interrupted thread stays in both.  nTodo counts the checks in the stack and in
\* the batches.
Counts ==
    /\ nTotal = nIdle + Cardinality(Busy(loop))
    /\ nIdle >= Cardinality(Asleep(loop))
    /\ IsFiniteSet(Pending(loop))
    /\ nTodo = Len(checks) + Cardinality(Pending(loop))
    /\ \A t \in Busy(loop) : loop[t].batch # <<>>

\* A check that fails is in the stack, in a batch, or known: with ok for fAllOk, and without
\* the batch of the threads in T.
Known(ok, T) ==
    /\ control # "none" =>
          (added.ok <=> ok /\ AllOf(checks) /\ \A x \in Busy(loop) \ T : AllOf(loop[x].batch))
    /\ \A x \in Busy(loop) \ T : ok => loop[x].fOk

\* Between blocks.
Between == control = "none" => nTodo = 0 /\ fAllOk /\ loop[Master].at = "out" /\ verdict = added.ok

CheckQueueInv == CheckQueueType /\ Counts /\ Known(fAllOk, {}) /\ Between

\* With no check left, nobody is busy.
LEMMA NothingPending ==
  ASSUME NEW t \in Threads, loop \in LoopType, IsFiniteSet(Pending(loop)),
         Cardinality(PendingBut(loop, t)) = 0, \A x \in Busy(loop) : loop[x].batch # <<>>
  PROVE  Busy(loop) \ {t} = {}
  <1>1. PendingBut(loop, t) = {}
    BY FS_Subset, FS_EmptySet, Zenon DEF PendingBut
  <1>2. ASSUME NEW x \in Busy(loop) \ {t}
        PROVE  <<x, 1>> \in PendingBut(loop, t)
    BY DEF PendingBut, Pending, Busy, LoopType, InLoop
  <1> QED  BY <1>1, <1>2, Zenon

\* What the invariant says between blocks is what the constructor of CCheckQueueControl
\* asserts, and that Wait was right.
LEMMA IdleBetween == CheckQueueInv => CheckQueueIdle /\ VerdictRight
  <1> SUFFICES ASSUME CheckQueueInv, control = "none"
               PROVE  IsIdle /\ verdict = added.ok
    BY Zenon DEF CheckQueueIdle, VerdictRight
  <1>1. nTodo = 0 /\ fAllOk /\ loop[Master].at = "out" /\ verdict = added.ok
    BY Zenon DEF CheckQueueInv, Between
  <1>2. Cardinality(Pending(loop)) \in Nat /\ Len(checks) \in Nat
    BY FS_CardinalityType DEF CheckQueueInv, Counts, CheckQueueType
  <1>3. Cardinality(Pending(loop)) = 0
    BY <1>1, <1>2 DEF CheckQueueInv, Counts
  <1>4. PendingBut(loop, Master) = Pending(loop)
    BY <1>1, Zenon DEF PendingBut, Pending
  <1>5. Busy(loop) \ {Master} = {} /\ Master \notin Busy(loop)
    BY <1>1, <1>3, <1>4, NothingPending, ThreadsFinite, Zenon DEF CheckQueueInv, Counts, CheckQueueType, Busy
  <1>6. Cardinality(Busy(loop)) = 0
    BY <1>5, FS_EmptySet, Zenon
  <1> QED  BY <1>1, <1>6 DEF CheckQueueInv, Counts, CheckQueueType, IsIdle

\* The invariant holds when the threads start.
LEMMA CheckQueueInitInv == CheckQueueInit => CheckQueueInv
  <1> SUFFICES ASSUME CheckQueueInit PROVE CheckQueueInv
    BY Zenon
  <1>1. Busy(loop) = {} /\ Asleep(loop) = {} /\ Pending(loop) = {}
    BY Zenon DEF CheckQueueInit, At, Busy, Asleep, Pending
  <1>2. IsFiniteSet({}) /\ Cardinality({}) = 0
    BY FS_EmptySet, Zenon
  <1>3. checks = <<>> /\ Len(checks) = 0 /\ checks \in Seq(BOOLEAN)
    BY DEF CheckQueueInit
  <1>4. loop \in LoopType
    BY DEF CheckQueueInit, At, LoopType, InLoop
  <1>5. CheckQueueType /\ Between
    BY <1>3, <1>4, ThreadsFinite, Zenon DEF CheckQueueInit, CheckQueueType, Between, NoChecks, At
  <1>6. Counts
    <2>1. /\ Cardinality(Busy(loop)) = 0 /\ Cardinality(Asleep(loop)) = 0
          /\ IsFiniteSet(Pending(loop)) /\ Cardinality(Pending(loop)) = 0
      BY <1>1, <1>2, Zenon
    <2>2. nTotal = 0 /\ nIdle = 0 /\ nTodo = 0
      BY Zenon DEF CheckQueueInit
    <2> QED  BY <1>1, <1>3, <2>1, <2>2 DEF Counts
  <1>7. Known(fAllOk, {})
    BY <1>1, Zenon DEF CheckQueueInit, Known
  <1> QED  BY <1>5, <1>6, <1>7, Zenon DEF CheckQueueInv

\* What holds at the head of the inner loop of Loop, of the thread t and of the values the
\* members have there.
AtHead(t, total, idle, ok, todo) ==
    /\ idle \in Nat /\ ok \in BOOLEAN
    /\ total = idle + 1 + Cardinality(Busy(loop) \ {t})
    /\ idle >= Cardinality(Asleep(loop) \ {t})
    /\ todo = Len(checks) + Cardinality(PendingBut(loop, t))
    /\ Known(ok, {t})
    /\ control = "none" => t # Master /\ todo = 0 /\ ok

\* Notifying a thread changes no count.
LEMMA WakeCounts ==
  ASSUME loop \in LoopType, NEW W \in SUBSET {x \in Threads : loop[x].at = "wait"},
         NEW m, m = [x \in Threads |-> IF x \in W THEN [loop[x] EXCEPT !.at = "woken"] ELSE loop[x]]
  PROVE  /\ m \in LoopType
         /\ Busy(m) = Busy(loop) /\ Asleep(m) = Asleep(loop) /\ Pending(m) = Pending(loop)
         /\ \A x \in Busy(loop) : m[x] = loop[x]
         /\ \A x \in Threads \ W : m[x] = loop[x]
  <1>1. \A x \in Threads : /\ m[x] \in InLoop
                           /\ x \notin W => m[x] = loop[x]
                           /\ x \in W => m[x].at = "woken" /\ loop[x].at = "wait"
    BY Zenon DEF LoopType, InLoop
  <1>2. m \in LoopType
    BY <1>1, Zenon DEF LoopType
  <1>3. Busy(m) = Busy(loop) /\ Asleep(m) = Asleep(loop)
    BY <1>1, Zenon DEF Busy, Asleep
  <1>4. Pending(m) = Pending(loop)
    BY <1>1, Zenon DEF Pending
  <1> QED  BY <1>1, <1>2, <1>3, <1>4, Zenon DEF Busy

\* From the head of the loop every way on keeps the invariant.
LEMMA LoopHeadInv ==
  ASSUME CheckQueueInv, NEW t \in Threads, NEW total, NEW idle, NEW ok, NEW todo,
         NEW W \in SUBSET {x \in Threads : loop[x].at = "wait"}, t \notin W,
         control = "none" => W = {},
         AtHead(t, total, idle, ok, todo), LoopHead(t, total, idle, ok, todo, W)
  PROVE  CheckQueueInv'
  <1> DEFINE m == [x \in Threads |-> IF x \in W THEN [loop[x] EXCEPT !.at = "woken"] ELSE loop[x]]
             n == BatchLen(total, idle)
  <1>1. /\ loop \in LoopType /\ checks \in Seq(BOOLEAN) /\ IsFiniteSet(Pending(loop))
        /\ idle \in Nat /\ ok \in BOOLEAN
        /\ UNCHANGED <<added, blocks, interrupts>> /\ nTodo' = todo
    BY Zenon DEF CheckQueueInv, CheckQueueType, Counts, AtHead, LoopHead
  <1>2. /\ m \in LoopType
        /\ Busy(m) = Busy(loop) /\ Asleep(m) = Asleep(loop) /\ Pending(m) = Pending(loop)
        /\ \A x \in Busy(loop) : m[x] = loop[x]
        /\ \A x \in Threads \ W : m[x] = loop[x]
    BY <1>1, WakeCounts, Zenon
  <1> HIDE DEF m
  <1>3. /\ Cardinality(Busy(loop) \ {t}) \in Nat /\ Cardinality(Asleep(loop) \ {t}) \in Nat
        /\ Cardinality(PendingBut(loop, t)) \in Nat /\ PendingBut(m, t) = PendingBut(loop, t)
    <2>1. Busy(loop) \ {t} \in SUBSET Threads /\ Asleep(loop) \ {t} \in SUBSET Threads
      BY Zenon DEF Busy, Asleep
    <2>2. IsFiniteSet(PendingBut(loop, t))
      BY <1>1, FS_Subset, Zenon DEF PendingBut
    <2> QED  BY <1>2, <2>1, <2>2, SubsetsOfThreads, FS_CardinalityType, Zenon DEF PendingBut
  <1>4. total \in Nat /\ todo \in Nat /\ Len(checks) \in Nat
    BY <1>1, <1>3 DEF AtHead
  <1>5. ASSUME NEW v \in InLoop, loop' = [m EXCEPT ![t] = v]
        PROVE  /\ loop' \in LoopType /\ loop'[t] = v
               /\ Busy(loop') \ {t} = Busy(loop) \ {t}
               /\ \A x \in Busy(loop) \ {t} : loop'[x] = loop[x]
               /\ t # Master /\ Master \notin W => loop'[Master] = loop[Master]
               /\ Moved(loop, loop', t, v)
    <2>1. loop' \in LoopType /\ loop'[t] = v /\ \A x \in Threads \ {t} : loop'[x] = m[x]
      BY <1>2, <1>5, Zenon DEF LoopType
    <2>2. /\ Busy(loop') \ {t} = Busy(loop) \ {t}
          /\ \A x \in Busy(loop) \ {t} : loop'[x] = loop[x]
          /\ t # Master /\ Master \notin W => loop'[Master] = loop[Master]
      BY <1>2, <2>1, ThreadsFinite, Zenon DEF Busy
    <2>3. IsFiniteSet(Pending(m))
      BY <1>1, <1>2, Zenon
    <2>4. Moved(m, loop', t, v)
      BY <1>2, <1>5, <2>1, <2>3, MoveThread, Zenon
    <2> QED  BY <1>2, <1>3, <2>1, <2>2, <2>4, Zenon DEF Moved
  <1>6. CASE LoopReturn(t, total, ok, todo) /\ nIdle' = idle /\ loop' = [m EXCEPT ![t] = At("out")]
    <2>1. At("out") \in InLoop /\ At("out").at = "out"
      BY DEF At, InLoop
    <2>2. /\ t = Master /\ todo = 0 /\ checks = <<>> /\ checks' = checks /\ nTotal' = total - 1
          /\ fAllOk' = TRUE /\ verdict' = ok /\ control' = "none" /\ nIdle' = idle
      BY <1>6, Zenon DEF LoopReturn
    <2>3. Cardinality(PendingBut(loop, t)) = 0 /\ Len(checks) = 0
      BY <1>3, <1>4, <2>2 DEF AtHead
    <2>4. Busy(loop) \ {t} = {}
      BY <1>1, <2>3, NothingPending, Zenon DEF CheckQueueInv, Counts
    <2>5. control # "none" /\ ok = added.ok
      <3>1. control # "none" /\ AllOf(checks)
        BY <2>2 DEF AtHead, AllOf
      <3>2. added.ok \in BOOLEAN
        BY Zenon DEF CheckQueueInv, CheckQueueType
      <3> QED  BY <1>1, <2>4, <3>1, <3>2, Zenon DEF AtHead, Known
    <2>6. loop' \in LoopType /\ loop'[t].at = "out" /\ Busy(loop') = {}
      BY <1>5, <1>6, <2>1, <2>4, Zenon DEF Busy
    <2>7. Counts'
      <3>1. /\ Cardinality(Busy(loop')) = Cardinality(Busy(loop) \ {t})
            /\ Cardinality(Asleep(loop')) = Cardinality(Asleep(loop) \ {t})
            /\ IsFiniteSet(Pending(loop')) /\ Cardinality(Pending(loop')) = 0
        <4>1. Moved(loop, loop', t, At("out"))
          BY <1>5, <1>6, <2>1, ZenonT(60)
        <4> QED  BY <1>3, <2>1, <2>3, <4>1 DEF Moved
      <3>2. nTotal' = nIdle' + Cardinality(Busy(loop')) /\ nIdle' >= Cardinality(Asleep(loop'))
        BY <1>1, <1>3, <2>2, <3>1 DEF AtHead
      <3>3. nTodo' = Len(checks') + Cardinality(Pending(loop'))
        <4>1. nTodo' = 0 /\ Len(checks') = 0 /\ Cardinality(Pending(loop')) = 0
          BY <1>1, <2>2, <2>3, <3>1, ZenonT(60)
        <4> QED  BY <4>1
      <3> QED  BY <2>6, <3>1, <3>2, <3>3, ZenonT(60) DEF Counts
    <2>8. CheckQueueType'
      BY <1>1, <1>3, <1>4, <2>2, <2>6 DEF CheckQueueInv, CheckQueueType, AtHead
    <2>9. Known(fAllOk, {})' /\ Between'
      BY <1>1, <2>2, <2>5, <2>6, Zenon DEF Known, Between
    <2> QED  BY <2>7, <2>8, <2>9, Zenon DEF CheckQueueInv
  <1>7. CASE LoopSleep(t, total, ok, todo) /\ nIdle' = idle + 1 /\ loop' = [m EXCEPT ![t] = At("wait")]
    <2>1. At("wait") \in InLoop /\ At("wait").at = "wait"
      BY DEF At, InLoop
    <2>2. /\ checks' = checks /\ nTotal' = total /\ fAllOk' = ok /\ verdict' = verdict
          /\ nIdle' = idle + 1 /\ control' = IF t = Master THEN "wait" ELSE control
      BY <1>7, Zenon DEF LoopSleep
    <2>3. loop' \in LoopType /\ Busy(loop') = Busy(loop) \ {t}
      BY <1>5, <1>7, <2>1, Zenon DEF Busy
    <2>4. Counts'
      <3>1. \A x \in Busy(loop') : loop'[x].batch # <<>>
        BY <1>5, <1>7, <2>1, <2>3, ZenonT(60) DEF CheckQueueInv, Counts
      <3>2. /\ Cardinality(Busy(loop')) = Cardinality(Busy(loop) \ {t})
            /\ Cardinality(Asleep(loop')) = Cardinality(Asleep(loop) \ {t}) + 1
            /\ IsFiniteSet(Pending(loop'))
            /\ Cardinality(Pending(loop')) = Cardinality(PendingBut(loop, t))
        <4>1. Moved(loop, loop', t, At("wait"))
          BY <1>5, <1>7, <2>1, ZenonT(60)
        <4> QED  BY <1>3, <2>1, <4>1 DEF Moved
      <3>3. nTotal' = nIdle' + Cardinality(Busy(loop')) /\ nIdle' >= Cardinality(Asleep(loop'))
        BY <1>1, <1>3, <2>2, <3>2 DEF AtHead
      <3>4. nTodo' = Len(checks') + Cardinality(Pending(loop'))
        BY <1>1, <2>2, <3>2, ZenonT(60) DEF AtHead
      <3> QED  BY <3>1, <3>2, <3>3, <3>4, Zenon DEF Counts
    <2>5. CheckQueueType'
      BY <1>1, <1>3, <1>4, <2>2, <2>3 DEF CheckQueueInv, CheckQueueType
    <2>6. Known(fAllOk, {})'
      BY <1>1, <1>5, <1>7, <2>1, <2>2, <2>3, Zenon DEF Known, AtHead
    <2>7. Between'
      BY <1>1, <1>5, <1>7, <2>1, <2>2, ZenonT(60) DEF Between, AtHead, CheckQueueInv
    <2> QED  BY <2>4, <2>5, <2>6, <2>7, Zenon DEF CheckQueueInv
  <1>8. ASSUME LoopTake(t, n, total, ok), nIdle' = idle,
               loop' = [m EXCEPT ![t] = [at |-> "busy", fOk |-> ok,
                                         batch |-> SubSeq(checks, Len(checks) - n + 1, Len(checks))]]
        PROVE  CheckQueueInv'
    <2> DEFINE k == Len(checks) - n
               b == SubSeq(checks, k + 1, Len(checks))
               v == [at |-> "busy", fOk |-> ok, batch |-> b]
    <2>1. n \in 1..Len(checks)
      BY <1>1, <1>4, <1>8, BatchLenBounds, Zenon DEF LoopTake
    <2> HIDE DEF n
    <2>2. k \in 0..Len(checks) /\ Len(checks) - k = n
      BY <1>4, <2>1
    <2>3. /\ checks' = SubSeq(checks, 1, k) /\ nTotal' = total /\ fAllOk' = ok /\ verdict' = verdict
          /\ nIdle' = idle /\ control' = (IF t = Master THEN "wait" ELSE control) /\ checks # <<>>
      BY <1>8, Zenon DEF LoopTake
    <2>4. /\ SubSeq(checks, 1, k) \in Seq(BOOLEAN) /\ b \in Seq(BOOLEAN)
          /\ Len(SubSeq(checks, 1, k)) = k /\ Len(b) = Len(checks) - k
          /\ AllOf(checks) <=> AllOf(SubSeq(checks, 1, k)) /\ AllOf(b)
      BY <1>1, <2>2, AllOfCut, Zenon
    <2>5. loop' = [m EXCEPT ![t] = v]
      BY <1>8, Zenon
    <2> HIDE DEF b, k
    <2>6. v \in InLoop /\ v.at = "busy" /\ v.batch = b /\ v.fOk = ok
      BY <1>1, <2>4, Zenon DEF InLoop
    <2> HIDE DEF v
    <2>7. /\ loop' \in LoopType /\ loop'[t] = v /\ Busy(loop') = (Busy(loop) \ {t}) \cup {t}
          /\ \A x \in Busy(loop) \ {t} : loop'[x] = loop[x]
      BY <1>5, <2>5, <2>6, ZenonT(60) DEF Busy
    <2>8. Counts'
      <3>1. \A x \in Busy(loop') : loop'[x].batch # <<>>
        <4>1. b # <<>>
          BY <2>1, <2>2, <2>4
        <4> QED  BY <2>6, <2>7, <4>1, Zenon DEF CheckQueueInv, Counts
      <3>2. /\ Cardinality(Busy(loop')) = Cardinality(Busy(loop) \ {t}) + 1
            /\ Cardinality(Asleep(loop')) = Cardinality(Asleep(loop) \ {t})
            /\ IsFiniteSet(Pending(loop'))
            /\ Cardinality(Pending(loop')) = Cardinality(PendingBut(loop, t)) + Len(b)
        <4>1. Moved(loop, loop', t, v)
          BY <1>5, <2>5, <2>6, ZenonT(60)
        <4> QED  BY <1>3, <2>6, <4>1 DEF Moved
      <3>3. nTotal' = nIdle' + Cardinality(Busy(loop')) /\ nIdle' >= Cardinality(Asleep(loop'))
        BY <1>1, <1>3, <2>3, <3>2 DEF AtHead
      <3>4. nTodo' = Len(checks') + Cardinality(Pending(loop'))
        <4>1. Len(checks') = k /\ Len(b) = Len(checks) - k /\ k \in Int
          BY <1>4, <2>2, <2>3, <2>4
        <4>2. nTodo' = Len(checks) + Cardinality(PendingBut(loop, t))
          BY <1>1, Zenon DEF AtHead
        <4> QED  BY <1>3, <1>4, <3>2, <4>1, <4>2
      <3> QED  BY <3>1, <3>2, <3>3, <3>4, Zenon DEF Counts
    <2>9. CheckQueueType'
      BY <1>1, <1>4, <2>3, <2>4, <2>7, ZenonT(60) DEF CheckQueueInv, CheckQueueType
    <2>10. control # "none"
      BY <1>3, <1>4, <2>1 DEF AtHead
    <2>11. Known(fAllOk, {})'
      BY <1>1, <2>3, <2>4, <2>6, <2>7, <2>10, Zenon DEF Known, AtHead
    <2>12. Between'
      BY <2>3, <2>10, Zenon DEF Between
    <2> QED  BY <2>8, <2>9, <2>11, <2>12, Zenon DEF CheckQueueInv
  <1> QED  BY <1>6, <1>7, <1>8, Zenon DEF LoopHead, m

-----------------------------------------------------------------------------
(* The steps. *)

\* A thread that is not busy and not asleep is in no count; one that is asleep only in nIdle.
LEMMA NotBusy ==
  ASSUME NEW t \in Threads, t \notin Busy(loop)
  PROVE  Busy(loop) \ {t} = Busy(loop) /\ PendingBut(loop, t) = Pending(loop)
  BY Zenon DEF Busy, PendingBut, Pending

\* What the invariant says of the counts, for arithmetic.
LEMMA CountFacts ==
  ASSUME CheckQueueInv
  PROVE  /\ nIdle \in Nat /\ nTotal \in Nat /\ nTodo \in Nat /\ Len(checks) \in Nat
         /\ fAllOk \in BOOLEAN
         /\ Cardinality(Busy(loop)) \in Nat /\ Cardinality(Asleep(loop)) \in Nat
         /\ Cardinality(Pending(loop)) \in Nat
         /\ nTotal = nIdle + Cardinality(Busy(loop)) /\ nIdle >= Cardinality(Asleep(loop))
         /\ nTodo = Len(checks) + Cardinality(Pending(loop))
         /\ control = "none" => nTodo = 0 /\ fAllOk
  <1>1. Cardinality(Busy(loop)) \in Nat /\ Cardinality(Asleep(loop)) \in Nat
    BY SubsetsOfThreads, Zenon DEF Busy, Asleep
  <1>2. Cardinality(Pending(loop)) \in Nat
    BY FS_CardinalityType, Zenon DEF CheckQueueInv, Counts
  <1>3. control = "none" => nTodo = 0 /\ fAllOk
    BY Zenon DEF CheckQueueInv, Between
  <1>4. checks \in Seq(BOOLEAN) /\ nIdle \in Nat /\ nTotal \in Nat /\ nTodo \in Nat /\ fAllOk \in BOOLEAN
    BY Zenon DEF CheckQueueInv, CheckQueueType
  <1>5. Len(checks) \in Nat
    BY <1>4
  <1> QED  BY <1>1, <1>2, <1>3, <1>4, <1>5, Zenon DEF CheckQueueInv, Counts

\* A thread that enters Loop keeps the invariant.
LEMMA LoopEnterInv ==
  ASSUME CheckQueueInv, NEW t \in Threads, LoopEnter(t)
  PROVE  CheckQueueInv'
  <1>1. loop[t].at \in {"new", "out"} /\ (t = Master => control # "none")
    BY CheckQueueAssumption, Zenon DEF LoopEnter
  <1>2. t \notin Busy(loop) /\ Asleep(loop) \ {t} = Asleep(loop)
    BY <1>1, Zenon DEF Busy, Asleep
  <1>3. Busy(loop) \ {t} = Busy(loop) /\ PendingBut(loop, t) = Pending(loop)
    BY <1>2, NotBusy, Zenon
  <1>4. Cardinality(Busy(loop)) \in Nat
    BY SubsetsOfThreads, Zenon DEF Busy
  <1>5. Known(fAllOk, {t})
    BY <1>3, Zenon DEF CheckQueueInv, Known
  <1>6. AtHead(t, nTotal + 1, nIdle, fAllOk, nTodo)
    <2>1. /\ Cardinality(Busy(loop) \ {t}) = Cardinality(Busy(loop))
          /\ Cardinality(Asleep(loop) \ {t}) = Cardinality(Asleep(loop))
          /\ Cardinality(PendingBut(loop, t)) = Cardinality(Pending(loop))
      BY <1>2, <1>3, Zenon
    <2>2. /\ nIdle \in Nat /\ nTotal + 1 = nIdle + 1 + Cardinality(Busy(loop) \ {t})
          /\ nIdle >= Cardinality(Asleep(loop) \ {t})
          /\ nTodo = Len(checks) + Cardinality(PendingBut(loop, t))
      BY <2>1, <1>4, CountFacts
    <2>3. fAllOk \in BOOLEAN /\ (control = "none" => t # Master /\ nTodo = 0 /\ fAllOk)
      BY <1>1, <1>2, <1>3, <1>4, CountFacts, Zenon
    <2> QED  BY <1>5, <2>2, <2>3, Zenon DEF AtHead
  <1>7. LoopHead(t, nTotal + 1, nIdle, fAllOk, nTodo, {})
    BY Zenon DEF LoopEnter
  <1> QED  BY <1>6, <1>7, LoopHeadInv

\* So does one that wakes from its condition variable.
LEMMA LoopWokenInv ==
  ASSUME CheckQueueInv, NEW t \in Threads, LoopWoken(t)
  PROVE  CheckQueueInv'
  <1>1. t \in Asleep(loop) /\ t \notin Busy(loop)
    BY Zenon DEF LoopWoken, Busy, Asleep
  <1>2. Busy(loop) \ {t} = Busy(loop) /\ PendingBut(loop, t) = Pending(loop)
    BY <1>1, NotBusy, Zenon
  <1>3. Cardinality(Busy(loop)) \in Nat
    BY SubsetsOfThreads, Zenon DEF Busy
  <1>4. /\ Cardinality(Asleep(loop) \ {t}) = Cardinality(Asleep(loop)) - 1
        /\ Cardinality(Asleep(loop) \ {t}) \in Nat /\ Cardinality(Asleep(loop)) \in Nat
    <2>1. Asleep(loop) \in SUBSET Threads /\ Asleep(loop) \ {t} \in SUBSET Threads
      BY Zenon DEF Asleep
    <2>2. IsFiniteSet(Asleep(loop))
      BY <2>1, SubsetsOfThreads, Zenon
    <2> QED  BY <1>1, <2>1, <2>2, SubsetsOfThreads, FS_RemoveElement, Zenon
  <1>5. Known(fAllOk, {t})
    BY <1>2, Zenon DEF CheckQueueInv, Known
  <1>6. control = "none" => t # Master
    BY Zenon DEF CheckQueueInv, Between, LoopWoken
  <1>7. AtHead(t, nTotal, nIdle - 1, fAllOk, nTodo)
    <2>1. /\ Cardinality(Busy(loop) \ {t}) = Cardinality(Busy(loop))
          /\ Cardinality(PendingBut(loop, t)) = Cardinality(Pending(loop))
      BY <1>2, Zenon
    <2>2. /\ nIdle - 1 \in Nat /\ nTotal = nIdle - 1 + 1 + Cardinality(Busy(loop) \ {t})
          /\ nIdle - 1 >= Cardinality(Asleep(loop) \ {t})
          /\ nTodo = Len(checks) + Cardinality(PendingBut(loop, t))
      BY <2>1, <1>4, CountFacts
    <2>3. fAllOk \in BOOLEAN /\ (control = "none" => t # Master /\ nTodo = 0 /\ fAllOk)
      BY <1>2, <1>3, <1>4, <1>6, CountFacts, Zenon
    <2> QED  BY <1>5, <2>2, <2>3, Zenon DEF AtHead
  <1>8. LoopHead(t, nTotal, nIdle - 1, fAllOk, nTodo, {})
    BY Zenon DEF LoopWoken
  <1> QED  BY <1>6, <1>7, <1>8, LoopHeadInv

\* A thread that comes back with its batch done takes the batch out of what is pending, and
\* what its checks returned into fAllOk.
LEMMA LoopDoneInv ==
  ASSUME CheckQueueInv, NEW t \in Threads, LoopDone(t)
  PROVE  CheckQueueInv'
  <1> DEFINE n == Len(loop[t].batch)
             ok == fAllOk /\ BatchOk(loop[t])
             W == MasterToNotify(t, nTodo - n)
  <1>1. /\ t \in Busy(loop) /\ t \notin Asleep(loop) /\ loop[t] \in InLoop
        /\ loop[t].batch \in Seq(BOOLEAN) /\ n \in Nat \ {0}
    <2>1. t \in Busy(loop) /\ t \notin Asleep(loop)
      BY Zenon DEF LoopDone, Busy, Asleep
    <2>2. loop[t] \in InLoop /\ loop[t].batch # <<>>
      BY <2>1, Zenon DEF CheckQueueInv, CheckQueueType, LoopType, Counts
    <2>3. loop[t].batch \in Seq(BOOLEAN)
      BY <2>2, Zenon DEF InLoop
    <2>4. n \in Nat \ {0}
      BY <2>2, <2>3
    <2> QED  BY <2>1, <2>2, <2>3, <2>4, Zenon
  <1>2. /\ Cardinality(Busy(loop)) = Cardinality(Busy(loop) \ {t}) + 1
        /\ Cardinality(Busy(loop) \ {t}) \in Nat
        /\ Asleep(loop) \ {t} = Asleep(loop)
    <2>1. Busy(loop) \in SUBSET Threads /\ Busy(loop) \ {t} \in SUBSET Threads
      BY Zenon DEF Busy
    <2>2. /\ IsFiniteSet(Busy(loop)) /\ Cardinality(Busy(loop)) \in Nat
          /\ Cardinality(Busy(loop) \ {t}) \in Nat
      BY <2>1, SubsetsOfThreads, Zenon
    <2>3. Cardinality(Busy(loop) \ {t}) = Cardinality(Busy(loop)) - 1
      BY <1>1, <2>2, FS_RemoveElement, Zenon
    <2> QED  BY <1>1, <2>2, <2>3
  <1>3. /\ Cardinality(Pending(loop)) = Cardinality(PendingBut(loop, t)) + n
        /\ Cardinality(PendingBut(loop, t)) \in Nat
    <2>1. loop \in LoopType /\ IsFiniteSet(Pending(loop))
      BY Zenon DEF CheckQueueInv, CheckQueueType, Counts
    <2>2. Moved(loop, loop, t, loop[t])
      BY <1>1, <2>1, MoveThread, Zenon
    <2>3. IsFiniteSet(PendingBut(loop, t))
      BY <2>1, FS_Subset, Zenon DEF PendingBut
    <2> QED  BY <2>2, <2>3, FS_CardinalityType, Zenon DEF Moved, LoopDone
  <1>4. control # "none"
    <2>1. nTodo # 0
      BY <1>1, <1>3 DEF CheckQueueInv, Counts, CheckQueueType
    <2> QED  BY <2>1, Zenon DEF CheckQueueInv, Between
  <1>5. ok \in BOOLEAN /\ (ok => fAllOk) /\ (fAllOk => loop[t].fOk) /\ (ok <=> fAllOk /\ AllOf(loop[t].batch))
    BY <1>1, Zenon DEF BatchOk, AllOf, CheckQueueInv, CheckQueueType, Known, InLoop
  <1> HIDE DEF ok
  <1>6. Known(ok, {t})
    <2>1. /\ added.ok <=> /\ fAllOk /\ AllOf(checks)
                          /\ \A x \in Busy(loop) : AllOf(loop[x].batch)
          /\ \A x \in Busy(loop) : fAllOk => loop[x].fOk
      BY <1>4, Zenon DEF CheckQueueInv, Known
    <2> QED  BY <1>1, <1>5, <2>1, Zenon DEF Known
  <1> HIDE DEF n
  <1>7. AtHead(t, nTotal, nIdle, ok, nTodo - n)
    <2>1. Cardinality(Asleep(loop) \ {t}) = Cardinality(Asleep(loop))
      BY <1>2, Zenon
    <2>2. Cardinality(Busy(loop)) = Cardinality(Busy(loop) \ {t}) + 1 /\ Cardinality(Busy(loop) \ {t}) \in Nat
      BY <1>2, Zenon
    <2>3. /\ nIdle \in Nat /\ nTotal = nIdle + 1 + Cardinality(Busy(loop) \ {t})
          /\ nIdle >= Cardinality(Asleep(loop) \ {t})
          /\ nTodo - n = Len(checks) + Cardinality(PendingBut(loop, t))
      <3>1. nIdle \in Nat /\ nIdle >= Cardinality(Asleep(loop) \ {t})
        BY <2>1, CountFacts, Zenon
      <3>2. nTotal = nIdle + 1 + Cardinality(Busy(loop) \ {t})
        BY <2>2, CountFacts
      <3>3. nTodo - n = Len(checks) + Cardinality(PendingBut(loop, t))
        BY <1>1, <1>3, CountFacts
      <3> QED  BY <3>1, <3>2, <3>3, Zenon
    <2>4. ok \in BOOLEAN /\ (control = "none" => t # Master /\ nTodo - n = 0 /\ ok)
      BY <1>1, <1>2, <1>3, <1>4, <1>5, CountFacts, Zenon
    <2> QED  BY <1>6, <2>3, <2>4, Zenon DEF AtHead
  <1>8. LoopHead(t, nTotal, nIdle, ok, nTodo - n, W)
    BY Zenon DEF LoopDone, ok, n
  <1>9. W \in SUBSET {x \in Threads : loop[x].at = "wait"} /\ t \notin W
    BY ThreadsFinite, Zenon DEF MasterToNotify
  <1> HIDE DEF W
  <1> QED  BY <1>4, <1>7, <1>8, <1>9, LoopHeadInv, Zenon

\* An interrupted thread leaves the counts as they are.
LEMMA LoopInterruptedInv ==
  ASSUME CheckQueueInv, NEW t \in Threads, LoopInterrupted(t)
  PROVE  CheckQueueInv'
  <1> DEFINE v == At(IF t = Master THEN "out" ELSE "gone")
  <1>1. /\ v \in InLoop /\ v.at \in {"out", "gone"} /\ loop' = [loop EXCEPT ![t] = v]
        /\ t \notin Busy(loop) /\ loop \in LoopType /\ IsFiniteSet(Pending(loop))
    BY DEF LoopInterrupted, At, InLoop, Busy, CheckQueueInv, CheckQueueType, Counts
  <1> HIDE DEF v
  <1>2. loop' \in LoopType /\ loop'[t] = v /\ \A x \in Threads \ {t} : loop'[x] = loop[x]
    BY <1>1, Zenon DEF LoopType
  <1>3. Busy(loop) \ {t} = Busy(loop) /\ PendingBut(loop, t) = Pending(loop)
    BY <1>1, NotBusy, Zenon
  <1>4. Busy(loop') = Busy(loop) /\ \A x \in Busy(loop) : loop'[x] = loop[x]
    BY <1>1, <1>2, Zenon DEF Busy
  <1>5. Moved(loop, loop', t, v)
    BY <1>1, <1>2, MoveThread, Zenon
  <1>6. /\ Cardinality(Pending(loop')) = Cardinality(Pending(loop)) /\ IsFiniteSet(Pending(loop'))
        /\ Cardinality(Asleep(loop')) = Cardinality(Asleep(loop) \ {t})
    <2>1. Cardinality(Pending(loop)) \in Nat /\ Cardinality(Asleep(loop) \ {t}) \in Nat
      BY <1>1, FS_CardinalityType, SubsetsOfThreads, Zenon DEF Asleep
    <2> QED  BY <1>1, <1>3, <1>5, <2>1 DEF Moved
  <1>7. Cardinality(Asleep(loop) \ {t}) <= Cardinality(Asleep(loop))
    <2>1. Asleep(loop) \in SUBSET Threads
      BY Zenon DEF Asleep
    <2> QED  BY <2>1, SubsetsOfThreads, FS_Subset, Zenon
  <1>8. Cardinality(Asleep(loop)) \in Nat /\ Cardinality(Asleep(loop) \ {t}) \in Nat
    BY SubsetsOfThreads, Zenon DEF Asleep
  <1>9. control = "none" => t # Master
    BY Zenon DEF CheckQueueInv, Between, LoopInterrupted
  <1>10. Counts'
    <2>1. UNCHANGED <<checks, nTotal, nTodo>> /\ nIdle' = nIdle
      BY Zenon DEF LoopInterrupted, IdleAfterInterrupt
    <2>2. \A x \in Busy(loop') : loop'[x].batch # <<>>
      BY <1>4, Zenon DEF CheckQueueInv, Counts
    <2> QED  BY <1>4, <1>6, <1>7, <1>8, <2>1, <2>2, CountFacts DEF Counts
  <1>11. CheckQueueType'
    BY <1>2, Zenon DEF CheckQueueInv, CheckQueueType, LoopInterrupted, IdleAfterInterrupt
  <1>12. Known(fAllOk, {})'
    <2>1. t = Master => control # "none"
      BY <1>9, Zenon
    <2> QED  BY <1>4, <2>1, Zenon DEF CheckQueueInv, Known, LoopInterrupted
  <1>13. Between'
    BY <1>2, <1>9, ThreadsFinite, Zenon DEF CheckQueueInv, Between, LoopInterrupted
  <1> QED  BY <1>10, <1>11, <1>12, <1>13, ZenonT(60) DEF CheckQueueInv

\* Add puts the checks on the stack and tells workers that wait.
LEMMA AddInv ==
  ASSUME CheckQueueInv, NEW vChecks \in Seq(BOOLEAN), Add(vChecks)
  PROVE  CheckQueueInv'
  <1>1. PICK W \in Notified(Len(vChecks)) :
          loop' = [x \in Threads |-> IF x \in W THEN [loop[x] EXCEPT !.at = "woken"] ELSE loop[x]]
    BY Zenon DEF Add
  <1>2. W \in SUBSET {x \in Threads : loop[x].at = "wait"} /\ Master \notin W
    BY CheckQueueAssumption DEF Notified, Threads
  <1>3. loop \in LoopType
    BY Zenon DEF CheckQueueInv, CheckQueueType
  <1>4. /\ loop' \in LoopType
        /\ Busy(loop') = Busy(loop) /\ Asleep(loop') = Asleep(loop) /\ Pending(loop') = Pending(loop)
        /\ \A x \in Busy(loop) : loop'[x] = loop[x]
        /\ \A x \in Threads \ W : loop'[x] = loop[x]
    BY <1>1, <1>2, <1>3, WakeCounts, Zenon
  <1>5. /\ checks' \in Seq(BOOLEAN) /\ Len(checks') = Len(checks) + Len(vChecks)
        /\ AllOf(checks') <=> AllOf(checks) /\ AllOf(vChecks)
    <2>1. checks \in Seq(BOOLEAN) /\ checks' = checks \o vChecks
      BY Zenon DEF CheckQueueInv, CheckQueueType, Add
    <2> QED  BY <2>1, AllOfConcat
  <1>6. Len(vChecks) \in Nat /\ nTodo' = nTodo + Len(vChecks) /\ UNCHANGED <<nIdle, nTotal, fAllOk, control, verdict>>
    BY DEF Add
  <1>7. Counts'
    <2>1. /\ Cardinality(Busy(loop')) = Cardinality(Busy(loop))
          /\ Cardinality(Asleep(loop')) = Cardinality(Asleep(loop))
          /\ Cardinality(Pending(loop')) = Cardinality(Pending(loop)) /\ IsFiniteSet(Pending(loop'))
      BY <1>4, Zenon DEF CheckQueueInv, Counts
    <2>2. \A x \in Busy(loop') : loop'[x].batch # <<>>
      BY <1>4, Zenon DEF CheckQueueInv, Counts
    <2>3. nTodo' = Len(checks') + Cardinality(Pending(loop'))
      BY <1>5, <1>6, <2>1, CountFacts
    <2> QED  BY <1>6, <2>1, <2>2, <2>3, CountFacts, Zenon DEF Counts
  <1>8. /\ control = "add" /\ added.ok \in BOOLEAN /\ added'.ok = (added.ok /\ AllOf(vChecks))
        /\ added' \in [num : Nat, ok : BOOLEAN]
    BY DEF Add, CheckQueueInv, CheckQueueType, AllOf
  <1>9. CheckQueueType'
    BY <1>4, <1>5, <1>6, <1>8, CountFacts DEF CheckQueueInv, CheckQueueType
  <1>10. Known(fAllOk, {})'
    <2>1. /\ added.ok <=> fAllOk /\ AllOf(checks) /\ \A x \in Busy(loop) : AllOf(loop[x].batch)
          /\ \A x \in Busy(loop) : fAllOk => loop[x].fOk
      BY <1>8, Zenon DEF CheckQueueInv, Known
    <2> QED  BY <1>4, <1>5, <1>6, <1>8, <2>1, Zenon DEF Known
  <1>11. Between'
    BY <1>6, <1>8, Zenon DEF Between
  <1> QED  BY <1>7, <1>9, <1>10, <1>11, Zenon DEF CheckQueueInv

\* A block begins with no check anywhere, so that nothing of the block before can count.
LEMMA ControlInv ==
  ASSUME CheckQueueInv, Control
  PROVE  CheckQueueInv'
  <1>1. control = "none" /\ IsIdle
    BY IdleBetween, Zenon DEF Control, CheckQueueIdle
  <1>2. /\ UNCHANGED <<checks, nIdle, nTotal, fAllOk, nTodo, loop, verdict>>
        /\ added' = NoChecks /\ control' = "add"
    BY Zenon DEF Control
  <1>3. Cardinality(Busy(loop)) = 0 /\ Len(checks) = 0 /\ fAllOk
    BY <1>1, CountFacts DEF IsIdle
  <1>4. Busy(loop) = {} /\ AllOf(checks)
    <2>1. IsFiniteSet(Busy(loop))
      BY SubsetsOfThreads, Zenon DEF Busy
    <2>2. checks \in Seq(BOOLEAN)
      BY Zenon DEF CheckQueueInv, CheckQueueType
    <2> QED  BY <1>3, <2>1, <2>2, FS_EmptySet DEF AllOf
  <1>5. CheckQueueType' /\ Counts'
    BY <1>2, Zenon DEF CheckQueueInv, CheckQueueType, Counts, NoChecks
  <1>6. Known(fAllOk, {})' /\ Between'
    BY <1>2, <1>3, <1>4, Zenon DEF Known, Between, NoChecks
  <1> QED  BY <1>5, <1>6, Zenon DEF CheckQueueInv

\* Every step of the queue keeps the invariant.
LEMMA CheckQueueStepInv ==
  ASSUME CheckQueueInv, [CheckQueueNext]_checkQueueVars
  PROVE  CheckQueueInv'
  <1>1. ASSUME NEW n \in 0..2, NEW vChecks \in [1..n -> BOOLEAN], Add(vChecks)
        PROVE  CheckQueueInv'
    <2>1. vChecks \in Seq(BOOLEAN)
      OBVIOUS
    <2> QED  BY <1>1, <2>1, AddInv, Zenon
  <1>2. CASE UNCHANGED <<checks, nIdle, nTotal, fAllOk, nTodo, loop, control, added, verdict>>
    BY <1>2, Zenon DEF CheckQueueInv, CheckQueueType, Counts, Known, Between
  <1> QED
    BY <1>1, <1>2, ControlInv, LoopEnterInv, LoopDoneInv, LoopWokenInv, LoopInterruptedInv, Zenon
    DEF CheckQueueNext, LoopStep, InterruptThreads, checkQueueVars

\* The assertion in the constructor of CCheckQueueControl (checkqueue.h, isIdle) cannot fail.
THEOREM AlwaysIdleBetweenBlocks == CheckQueueSpec => []CheckQueueIdle
  BY IdleBetween, CheckQueueInitInv, CheckQueueStepInv, PTL DEF CheckQueueSpec

\* CCheckQueue::Wait returns whether every check that was added succeeds, with workers that
\* start, sleep, are interrupted or skip the checks of a block already found invalid.
THEOREM WaitReturnsTheVerdict == CheckQueueSpec => []VerdictRight
  BY IdleBetween, CheckQueueInitInv, CheckQueueStepInv, PTL DEF CheckQueueSpec

-----------------------------------------------------------------------------
(* The shutdown of the RPC server is safe for any number of HTTP workers, async workers,     *)
(* requests and operations: closeAndWait and finishAndWait leave no operation unfinished,    *)
(* and the work queue is deleted after its last worker has left it.                          *)

\* The empty queue is a queue of anything.
LEMMA EmptySeq == \A S : <<>> \in Seq(S)
  OBVIOUS

-----------------------------------------------------------------------------
(* The queue of operations. *)

AsyncPlaces == {"loop", "doze", "wait", "awake", "have", "start", "exec", "gone"}
CloserPlaces == {"no", "cancel", "cancelling", "notify", "join", "joined"}
AsyncWorkerType == [AsyncWorkers -> [at : AsyncPlaces, op : Operations \cup {NoOperation}]]

AsyncType ==
    /\ operation_id_queue \in Seq(Operations) /\ operation_map \subseteq Operations
    /\ closed \in BOOLEAN /\ finish \in BOOLEAN
    /\ state \in [Operations -> Final \cup {"none", "READY", "EXECUTING"}]
    /\ asyncWorker \in AsyncWorkerType
    /\ closer \in CloserPlaces
    /\ toCancel \subseteq Operations /\ cancelOp \in Operations \cup {NoOperation}

\* The worker that holds an operation, and what the lock protects: a worker past the wait finds
\* an operation unless the queue is closed or finishing.
WorkersInv ==
    \A w \in AsyncWorkers :
       /\ asyncWorker[w].at \in {"have", "start", "exec"} => asyncWorker[w].op \in Operations
       /\ asyncWorker[w].at \in {"doze", "awake"} => asyncLock = w
       /\ asyncWorker[w].at = "awake" => operation_id_queue # <<>> \/ closed \/ finish
       /\ asyncWorker[w].at = "gone" => closed \/ (finish /\ operation_id_queue = <<>>)

Held(op, places) == \E w \in AsyncWorkers : asyncWorker[w].at \in places /\ asyncWorker[w].op = op
Queued(op) == \E i \in DOMAIN operation_id_queue : operation_id_queue[i] = op

\* Who will end an operation: the worker that executes it; while the queue is open or finishing
\* the queue or the worker that has it; when it is closed cancelAllOperations.
WillEnd(op) ==
    /\ state[op] # "none"
    /\ state[op] = "EXECUTING" => Held(op, {"exec"})
    /\ state[op] = "READY" /\ ~closed => Queued(op) \/ Held(op, {"have", "start"})
    /\ state[op] = "READY" /\ closed => closer = "cancel" \/ op \in toCancel \/ op = cancelOp

CloserInv ==
    /\ closer = "no" => ~closed /\ ~finish
    /\ closer = "cancelling" => asyncLock = "closer"
    /\ closer # "cancelling" => toCancel = {} /\ cancelOp = NoOperation
    /\ closer = "joined" => \A w \in AsyncWorkers : asyncWorker[w].at = "gone"

AsyncInv == AsyncType /\ WorkersInv /\ (\A op \in operation_map : WillEnd(op)) /\ CloserInv

\* The invariant says what the join relies on.
LEMMA JoinedEnds == AsyncInv => OperationsEnded
  <1> SUFFICES ASSUME AsyncInv, closer = "joined", NEW op \in operation_map
               PROVE  state[op] \in Final
    BY Zenon DEF OperationsEnded
  <1>1. PICK w \in AsyncWorkers : asyncWorker[w].at = "gone"
    BY AsyncAssumption, Zenon DEF AsyncInv, CloserInv
  <1>2. closed \/ operation_id_queue = <<>>
    BY <1>1, Zenon DEF AsyncInv, WorkersInv
  <1>3. ~Held(op, {"exec"}) /\ ~Held(op, {"have", "start"})
    BY Zenon DEF AsyncInv, CloserInv, Held
  <1>4. toCancel = {} /\ op # cancelOp
    BY AsyncAssumption, Zenon DEF AsyncInv, CloserInv, AsyncType
  <1>5. state[op] # "EXECUTING" /\ state[op] # "none"
    BY <1>3, Zenon DEF AsyncInv, WillEnd
  <1>6. state[op] # "READY"
    BY <1>2, <1>3, <1>4 DEF AsyncInv, WillEnd, Queued
  <1> QED  BY <1>5, <1>6, Zenon DEF AsyncInv, AsyncType

\* The invariant of the asynchronous queue holds before StartRPC.
LEMMA AsyncInitInv == RpcInit => AsyncInv
  <1> SUFFICES ASSUME RpcInit PROVE AsyncInv
    BY Zenon
  <1>1. AsyncType
    BY EmptySeq, Zenon DEF RpcInit, AsyncInit, AsyncType, AsyncWorkerType, AsyncPlaces, CloserPlaces, Running
  <1>2. WorkersInv /\ CloserInv /\ operation_map = {}
    BY Zenon DEF RpcInit, AsyncInit, WorkersInv, CloserInv, Running
  <1> QED  BY <1>1, <1>2, Zenon DEF AsyncInv

\* A notification moves workers that wait, and no others.
LEMMA WakeAsyncMoves ==
  ASSUME AsyncInv, NEW W \in SUBSET Dozing
  PROVE  /\ WakeAsync(W) \in AsyncWorkerType
         /\ \A w \in AsyncWorkers : \/ WakeAsync(W)[w] = asyncWorker[w]
                                    \/ asyncWorker[w].at = "wait" /\ WakeAsync(W)[w].at = "loop"
  BY Zenon DEF AsyncInv, AsyncType, AsyncWorkerType, AsyncPlaces, WakeAsync, Dozing, Running

\* The workers of a step that moves only workers that wait.
OnlyWakes ==
    /\ asyncWorker' \in AsyncWorkerType
    /\ \A w \in AsyncWorkers : \/ asyncWorker'[w] = asyncWorker[w]
                               \/ asyncWorker[w].at = "wait" /\ asyncWorker'[w].at = "loop"

\* Such a step takes no operation from its worker.
LEMMA OnlyWakesHeld ==
  ASSUME OnlyWakes, NEW op, NEW P, "wait" \notin P, Held(op, P)
  PROVE  Held(op, P)'
  BY Zenon DEF OnlyWakes, Held

\* addOperation, open or refused.
LEMMA AddOperationInv ==
  ASSUME AsyncInv, NEW o \in Operations, AddOperation(o)
  PROVE  AsyncInv'
  <1>1. OnlyWakes
    <2>1. CASE UNCHANGED asyncWorker
      BY <2>1, Zenon DEF AsyncInv, AsyncType, OnlyWakes
    <2>2. ASSUME NEW w \in Dozing, asyncWorker' = WakeAsync({w})
          PROVE  OnlyWakes
      <3>1. {w} \in SUBSET Dozing
        BY Zenon
      <3> QED  BY <2>2, <3>1, WakeAsyncMoves, Zenon DEF OnlyWakes
    <2> QED  BY <2>1, <2>2, Zenon DEF AddOperation
  <1>2. /\ state' = [state EXCEPT ![o] = "READY"] /\ state[o] = "none" /\ o \notin operation_map
        /\ \A op \in operation_map : state'[op] = state[op]
    BY Zenon DEF AddOperation, AsyncInv, AsyncType, WillEnd
  <1>3. CloserInv'
    BY <1>1, Zenon DEF AddOperation, AsyncInv, CloserInv, OnlyWakes
  <1>4. CASE closed \/ finish
    <2>1. UNCHANGED <<operation_id_queue, operation_map, asyncWorker>>
      BY <1>4, Zenon DEF AddOperation
    <2>2. AsyncType' /\ WorkersInv'
      BY <1>2, <2>1, ZenonT(60) DEF AddOperation, AsyncInv, AsyncType, WorkersInv
    <2>3. \A op \in operation_map : WillEnd(op)'
      BY <1>2, <2>1 DEF AddOperation, AsyncInv, WillEnd, Held, Queued
    <2> QED  BY <1>3, <2>1, <2>2, <2>3, Zenon DEF AsyncInv
  <1>5. CASE ~closed /\ ~finish
    <2>1. /\ operation_map' = operation_map \cup {o}
          /\ operation_id_queue' = Append(operation_id_queue, o)
      BY <1>5, ZenonT(60) DEF AddOperation
    <2>2. AsyncType'
      BY <1>1, <1>2, <2>1 DEF AddOperation, AsyncInv, AsyncType, OnlyWakes
    <2>3. WorkersInv'
      BY <1>1, <1>5, AsyncAssumption, ZenonT(60) DEF AddOperation, AsyncInv, WorkersInv, OnlyWakes
    <2>4. \A op : Queued(op) \/ op = o => Queued(op)'
      BY <2>1 DEF Queued, AsyncInv, AsyncType
    <2>5. ASSUME NEW op \in operation_map
          PROVE  WillEnd(op)'
      <3>1. WillEnd(op) /\ state'[op] = state[op] /\ ~closed' /\ ~closed
        BY <1>2, <1>5, <2>5, Zenon DEF AsyncInv, AddOperation
      <3>2. Held(op, {"exec"}) => Held(op, {"exec"})'
        BY <1>1, OnlyWakesHeld, Zenon
      <3>3. Held(op, {"have", "start"}) => Held(op, {"have", "start"})'
        BY <1>1, OnlyWakesHeld, Zenon
      <3> QED  BY <2>4, <3>1, <3>2, <3>3, Zenon DEF WillEnd
    <2>6. WillEnd(o)'
      BY <1>2, <1>5, <2>4, ZenonT(60) DEF WillEnd, AddOperation, AsyncInv, AsyncType
    <2> QED  BY <1>3, <2>1, <2>2, <2>3, <2>5, <2>6, ZenonT(60) DEF AsyncInv
  <1> QED  BY <1>4, <1>5, Zenon

\* z_getoperationresult takes only ended operations away.
LEMMA PopFinishedInv ==
  ASSUME AsyncInv, PopFinished
  PROVE  AsyncInv'
  BY DEF AsyncInv, PopFinished, AsyncType, WorkersInv, CloserInv, WillEnd, Held, Queued

\* The steps of a worker: an operation it takes from the queue it holds until the operation has
\* ended, unless it finds it cancelled.
LEMMA AsyncStepInv ==
  ASSUME AsyncInv, NEW w \in AsyncWorkers, AsyncStep(w)
  PROVE  AsyncInv'
  <1> USE DEF AsyncInv
  <1>1. CASE AsyncEvaluate(w)
    <2>1. PICK a \in {"doze", "awake"} : asyncWorker' = [asyncWorker EXCEPT ![w].at = a]
      BY <1>1, Zenon DEF AsyncEvaluate
    <2>2. AsyncType'
      <3>1. asyncWorker' \in AsyncWorkerType
        BY <2>1, Zenon DEF AsyncType, AsyncWorkerType, AsyncPlaces
      <3> QED  BY <1>1, <3>1, Zenon DEF AsyncEvaluate, AsyncType
    <2>3. /\ \A v \in AsyncWorkers \ {w} : asyncWorker'[v] = asyncWorker[v]
          /\ asyncWorker[w].at = "loop" /\ asyncWorker'[w].at \in {"doze", "awake"}
          /\ asyncWorker'[w].at = "awake" => operation_id_queue # <<>> \/ closed \/ finish
      BY <1>1, Zenon DEF AsyncEvaluate, AsyncType, AsyncWorkerType
    <2>4. WorkersInv'
      BY <1>1, <2>3, AsyncAssumption, Zenon DEF AsyncEvaluate, WorkersInv
    <2>5. \A op \in operation_map : WillEnd(op)'
      BY <1>1, <2>3 DEF AsyncEvaluate, WillEnd, Held, Queued
    <2> QED  BY <1>1, <2>2, <2>3, <2>4, <2>5, Zenon DEF AsyncEvaluate, CloserInv
  <1>2. CASE AsyncWait(w)
    <2>1. AsyncType'
      BY <1>2, Zenon DEF AsyncWait, AsyncType, AsyncWorkerType, AsyncPlaces
    <2>2. /\ \A v \in AsyncWorkers \ {w} : asyncWorker'[v] = asyncWorker[v]
          /\ asyncWorker[w].at = "doze" /\ asyncWorker'[w].at = "wait"
      BY <1>2, Zenon DEF AsyncWait, AsyncType, AsyncWorkerType
    <2>3. WorkersInv'
      BY <1>2, <2>2, Zenon DEF AsyncWait, WorkersInv
    <2>4. \A op \in operation_map : WillEnd(op)'
      BY <1>2, <2>2 DEF AsyncWait, WillEnd, Held, Queued
    <2> QED  BY <1>2, <2>1, <2>2, <2>3, <2>4, AsyncAssumption, Zenon DEF AsyncWait, CloserInv, WorkersInv
  <1>3. CASE AsyncAwake(w)
    <2>1. CASE AsyncLeaves
      <3>1. /\ operation_id_queue' = <<>>
            /\ asyncWorker' = [asyncWorker EXCEPT ![w] = Running("gone", NoOperation)]
        BY <1>3, <2>1, Zenon DEF AsyncAwake
      <3>2. /\ \A v \in AsyncWorkers \ {w} : asyncWorker'[v] = asyncWorker[v]
            /\ asyncWorker[w].at = "awake" /\ asyncWorker'[w].at = "gone"
        BY <1>3, <3>1, Zenon DEF AsyncAwake, AsyncType, AsyncWorkerType, Running
      <3>3. AsyncType'
        BY <1>3, <3>1, EmptySeq, Zenon DEF AsyncAwake, AsyncType, AsyncWorkerType, AsyncPlaces, Running
      <3>4. WorkersInv'
        BY <1>3, <2>1, <3>1, <3>2, Zenon DEF AsyncAwake, AsyncLeaves, WorkersInv
      <3>5. closed \/ operation_id_queue' = operation_id_queue
        BY <2>1, <3>1, Zenon DEF AsyncLeaves
      <3>6. \A op \in operation_map : WillEnd(op)'
        <4> TAKE op \in operation_map
        <4>1. WillEnd(op) /\ UNCHANGED <<state, closed, closer, toCancel, cancelOp>>
          BY <1>3, Zenon DEF AsyncAwake
        <4>2. ASSUME NEW places, "awake" \notin places, Held(op, places)
              PROVE  Held(op, places)'
          BY <3>2, <4>2, Zenon DEF Held
        <4>3. Held(op, {"exec"}) => Held(op, {"exec"})'
          BY <4>2, Zenon
        <4>4. Held(op, {"have", "start"}) => Held(op, {"have", "start"})'
          BY <4>2, Zenon
        <4>5. ~closed /\ Queued(op) => Queued(op)'
          BY <3>5, Zenon DEF Queued
        <4> QED  BY <4>1, <4>3, <4>4, <4>5, Zenon DEF WillEnd
      <3> QED  BY <1>3, <3>2, <3>3, <3>4, <3>6, AsyncAssumption, ZenonT(60) DEF AsyncAwake, CloserInv, WorkersInv
    <2>2. CASE ~AsyncLeaves
      <3> DEFINE o == Head(operation_id_queue)
      <3>1. operation_id_queue # <<>> /\ ~closed
        BY <1>3, <2>2, Zenon DEF AsyncAwake, AsyncLeaves, WorkersInv
      <3>2. /\ o \in Operations /\ Tail(operation_id_queue) \in Seq(Operations)
            /\ \A op : Queued(op) => op = o \/ \E i \in DOMAIN Tail(operation_id_queue) :
                                                  Tail(operation_id_queue)[i] = op
        <4>1. o = operation_id_queue[1] /\ Len(operation_id_queue) \in Nat \ {0}
          BY <3>1 DEF AsyncType
        <4>2. ASSUME NEW i \in DOMAIN operation_id_queue, i # 1
              PROVE  /\ i - 1 \in DOMAIN Tail(operation_id_queue)
                     /\ Tail(operation_id_queue)[i - 1] = operation_id_queue[i]
          BY <3>1, <4>2 DEF AsyncType
        <4>3. Tail(operation_id_queue) \in Seq(Operations) /\ o \in Operations
          BY <3>1 DEF AsyncType
        <4> QED  BY <4>1, <4>2, <4>3, Zenon DEF Queued
      <3>3. operation_id_queue' = Tail(operation_id_queue)
        BY <1>3, <2>2, Zenon DEF AsyncAwake
      <3>4. PICK p \in {Running("have", o), Running("loop", NoOperation)} :
               /\ asyncWorker' = [asyncWorker EXCEPT ![w] = p]
               /\ o \in operation_map => p = Running("have", o)
        BY <1>3, <2>2, ZenonT(60) DEF AsyncAwake
      <3>5. p \in [at : AsyncPlaces, op : Operations \cup {NoOperation}]
        BY <3>2, <3>4 DEF Running, AsyncPlaces
      <3>6. /\ \A v \in AsyncWorkers \ {w} : asyncWorker'[v] = asyncWorker[v]
            /\ asyncWorker[w].at = "awake" /\ asyncWorker'[w] = p
            /\ asyncWorker' \in AsyncWorkerType
        BY <1>3, <3>4, <3>5, Zenon DEF AsyncAwake, AsyncType, AsyncWorkerType
      <3>7. AsyncType'
        BY <1>3, <3>2, <3>3, <3>6, ZenonT(60) DEF AsyncAwake, AsyncType
      <3>8. p.at \in {"have", "loop"} /\ (p.at = "have" => p.op = o)
        BY <3>4 DEF Running
      <3>9. WorkersInv'
        <4>1. ASSUME NEW v \in AsyncWorkers, v # w
              PROVE  asyncWorker[v].at \notin {"doze", "awake"}
          BY <1>3, <4>1, Zenon DEF AsyncAwake, WorkersInv
        <4>2. ASSUME NEW v \in AsyncWorkers, v # w, asyncWorker[v].at = "gone"
              PROVE  FALSE
          BY <3>1, <2>2, <4>2, Zenon DEF WorkersInv, AsyncLeaves
        <4> QED  BY <3>2, <3>6, <3>8, <4>1, <4>2, Zenon DEF WorkersInv
      <3>10. ASSUME NEW op \in operation_map
             PROVE  WillEnd(op)'
        <4>1. WillEnd(op) /\ ~closed' /\ state' = state
          BY <1>3, <3>1, Zenon DEF AsyncAwake
        <4>2. Held(op, {"exec"}) => Held(op, {"exec"})'
          BY <3>6, Zenon DEF Held
        <4>3. Held(op, {"have", "start"}) => Held(op, {"have", "start"})'
          BY <3>6, Zenon DEF Held
        <4>4. Queued(op) => Queued(op)' \/ op = o
          BY <3>2, <3>3, Zenon DEF Queued
        <4>5. op = o => Held(op, {"have", "start"})'
          BY <3>4, <3>6 DEF Held, Running
        <4> QED  BY <3>1, <4>1, <4>2, <4>3, <4>4, <4>5, Zenon DEF WillEnd
      <3>11. CloserInv'
        BY <1>3, <3>6, <3>8, AsyncAssumption, Zenon DEF AsyncAwake, CloserInv, WorkersInv
      <3> QED  BY <1>3, <3>7, <3>9, <3>10, <3>11, Zenon DEF AsyncAwake
    <2> QED  BY <2>1, <2>2, Zenon
  <1>4. CASE AsyncBegin(w)
    <2>1. asyncWorker[w].op \in Operations
      BY <1>4, Zenon DEF AsyncBegin, WorkersInv
    <2>2. /\ \A v \in AsyncWorkers \ {w} : asyncWorker'[v] = asyncWorker[v]
          /\ asyncWorker[w].at = "have"
          /\ \/ asyncWorker'[w] = Running("start", asyncWorker[w].op)
             \/ state[asyncWorker[w].op] = "CANCELLED" /\ asyncWorker'[w] = Running("loop", NoOperation)
      BY <1>4, Zenon DEF AsyncBegin, AsyncType, AsyncWorkerType
    <2>3. AsyncType'
      BY <1>4, <2>1, Zenon DEF AsyncBegin, AsyncType, AsyncWorkerType, AsyncPlaces, Running
    <2>4. WorkersInv'
      <3> SUFFICES ASSUME NEW v \in AsyncWorkers
                   PROVE  /\ asyncWorker'[v].at \in {"have", "start", "exec"} => asyncWorker'[v].op \in Operations
                          /\ asyncWorker'[v].at \in {"doze", "awake"} => asyncLock' = v
                          /\ asyncWorker'[v].at = "awake" => operation_id_queue' # <<>> \/ closed' \/ finish'
                          /\ asyncWorker'[v].at = "gone" => closed' \/ (finish' /\ operation_id_queue' = <<>>)
        BY Zenon DEF WorkersInv
      <3>1. UNCHANGED <<asyncLock, operation_id_queue, closed, finish>>
        BY <1>4, ZenonT(60) DEF AsyncBegin
      <3>2. CASE v = w
        BY <2>1, <2>2, <3>2 DEF Running
      <3>3. CASE v # w
        BY <2>2, <3>1, <3>3, ZenonT(60) DEF WorkersInv
      <3> QED  BY <3>2, <3>3, Zenon
    <2>5. \A op \in operation_map : WillEnd(op)'
      BY <1>4, <2>2 DEF AsyncBegin, WillEnd, Held, Queued, Running
    <2> QED  BY <1>4, <2>2, <2>3, <2>4, <2>5, Zenon DEF AsyncBegin, CloserInv
  <1>5. CASE AsyncStart(w)
    <2>1. asyncWorker[w].op \in Operations
      BY <1>5, Zenon DEF AsyncStart, WorkersInv
    <2>2. /\ \A v \in AsyncWorkers \ {w} : asyncWorker'[v] = asyncWorker[v]
          /\ asyncWorker[w].at = "start"
          /\ asyncWorker'[w].at = "exec" /\ asyncWorker'[w].op = asyncWorker[w].op
      BY <1>5, Zenon DEF AsyncStart, AsyncType, AsyncWorkerType
    <2>3. AsyncType'
      BY <1>5, <2>1, Zenon DEF AsyncStart, AsyncType, AsyncWorkerType, AsyncPlaces
    <2>4. WorkersInv'
      BY <1>5, <2>1, <2>2, Zenon DEF AsyncStart, WorkersInv
    <2>5. \A op \in operation_map : WillEnd(op)'
      <3> TAKE op \in operation_map
      <3>1. /\ WillEnd(op) /\ UNCHANGED <<operation_id_queue, closed, closer, toCancel, cancelOp>>
            /\ state'[op] = IF op = asyncWorker[w].op THEN "EXECUTING" ELSE state[op]
        BY <1>5, Zenon DEF AsyncStart, AsyncType
      <3>2. CASE op = asyncWorker[w].op
        <4>1. Held(op, {"exec"})'
          BY <2>2, <3>2, Zenon DEF Held
        <4> QED  BY <3>1, <3>2, <4>1, Zenon DEF WillEnd
      <3>3. CASE op # asyncWorker[w].op
        <4>1. ASSUME NEW places, Held(op, places)
              PROVE  Held(op, places)'
          BY <2>2, <3>3, <4>1, Zenon DEF Held
        <4>2. Held(op, {"exec"}) => Held(op, {"exec"})'
          BY <4>1, Zenon
        <4>3. Held(op, {"have", "start"}) => Held(op, {"have", "start"})'
          BY <4>1, Zenon
        <4>4. Queued(op) => Queued(op)'
          BY <3>1, Zenon DEF Queued
        <4> QED  BY <3>1, <3>3, <4>2, <4>3, <4>4, Zenon DEF WillEnd
      <3> QED  BY <3>2, <3>3, Zenon
    <2> QED  BY <1>5, <2>2, <2>3, <2>4, <2>5, Zenon DEF AsyncStart, CloserInv
  <1>6. CASE AsyncEnd(w)
    <2>1. asyncWorker[w].op \in Operations
      BY <1>6, Zenon DEF AsyncEnd, WorkersInv
    <2>2. /\ \A v \in AsyncWorkers \ {w} : asyncWorker'[v] = asyncWorker[v]
          /\ asyncWorker[w].at = "exec" /\ asyncWorker'[w] = Running("loop", NoOperation)
      BY <1>6, Zenon DEF AsyncEnd, AsyncType, AsyncWorkerType
    <2>3. AsyncType'
      BY <1>6, <2>1, ZenonT(60) DEF AsyncEnd, AsyncType, AsyncWorkerType, AsyncPlaces, Running, Final
    <2>4. WorkersInv'
      BY <1>6, <2>2 DEF AsyncEnd, WorkersInv, Running
    <2>5. \A op \in operation_map : WillEnd(op)'
      BY <1>6, <2>2 DEF AsyncEnd, WillEnd, Held, Queued, Running, AsyncType
    <2> QED  BY <1>6, <2>2, <2>3, <2>4, <2>5, Zenon DEF AsyncEnd, CloserInv, Running
  <1> QED  BY <1>1, <1>2, <1>3, <1>4, <1>5, <1>6, Zenon DEF AsyncStep

\* The steps of closeAndWait and finishAndWait.
LEMMA CloserStepInv ==
  ASSUME AsyncInv, CloseStore \/ CloserStep
  PROVE  AsyncInv'
  <1> USE DEF AsyncInv
  <1>1. CASE CloseStore
    <2>1. AsyncType' /\ WorkersInv' /\ CloserInv'
      BY <1>1, Zenon DEF CloseStore, AsyncType, CloserPlaces, WorkersInv, CloserInv
    <2>2. ASSUME NEW op \in operation_map
          PROVE  WillEnd(op)'
      <3>1. WillEnd(op) /\ ~closed /\ UNCHANGED <<operation_id_queue, state, asyncWorker>>
        BY <1>1, <2>2, Zenon DEF CloseStore, CloserInv
      <3>2. Held(op, {"exec"}) => Held(op, {"exec"})'
        BY <3>1, Zenon DEF Held
      <3>3. Held(op, {"have", "start"}) => Held(op, {"have", "start"})'
        BY <3>1, Zenon DEF Held
      <3>4. Queued(op) => Queued(op)'
        BY <3>1, Zenon DEF Queued
      <3>5. closed' => closer' = "cancel"
        BY <1>1, <3>1, Zenon DEF CloseStore
      <3> QED  BY <3>1, <3>2, <3>3, <3>4, <3>5, ZenonT(60) DEF WillEnd
    <2> QED  BY <1>1, <2>1, <2>2, Zenon DEF CloseStore
  <1>2. CASE CancelAllOperations
    <2>1. AsyncType' /\ WorkersInv' /\ CloserInv'
      BY <1>2, AsyncAssumption, Zenon DEF CancelAllOperations, AsyncType, CloserPlaces, WorkersInv, CloserInv
    <2>2. ASSUME NEW op \in operation_map
          PROVE  WillEnd(op)'
      BY <1>2, ZenonT(60) DEF CancelAllOperations, WillEnd, Held, Queued
    <2> QED  BY <1>2, <2>1, <2>2, Zenon DEF CancelAllOperations
  <1>3. ASSUME NEW o \in Operations, CancelRead(o)
        PROVE  AsyncInv'
    <2>1. AsyncType' /\ WorkersInv' /\ CloserInv'
      BY <1>3, Zenon DEF CancelRead, AsyncType, WorkersInv, CloserInv
    <2>2. ASSUME NEW op \in operation_map
          PROVE  WillEnd(op)'
      BY <1>3, AsyncAssumption, ZenonT(60) DEF CancelRead, Cancels, WillEnd, Held, Queued, AsyncType
    <2> QED  BY <1>3, <2>1, <2>2, Zenon DEF CancelRead
  <1>4. CASE CancelWrite
    <2>1. cancelOp \in Operations /\ closer = "cancelling"
      BY <1>4, Zenon DEF CancelWrite, AsyncType, CloserInv
    <2>2. AsyncType' /\ WorkersInv' /\ CloserInv'
      BY <1>4, <2>1, Zenon DEF CancelWrite, AsyncType, WorkersInv, CloserInv, Final
    <2>3. ASSUME NEW op \in operation_map
          PROVE  WillEnd(op)'
      BY <1>4, <2>1, ZenonT(60) DEF CancelWrite, WillEnd, Held, Queued, AsyncType
    <2> QED  BY <1>4, <2>2, <2>3, Zenon DEF CancelWrite
  <1>5. CASE CancelDone \/ WaitNotify
    <2>1. OnlyWakes
      BY <1>5, WakeAsyncMoves, Zenon DEF CancelDone, WaitNotify, OnlyWakes
    <2>2. asyncLock \notin AsyncWorkers \/ asyncLock' = asyncLock
      BY <1>5, AsyncAssumption, Zenon DEF CancelDone, WaitNotify, CloserInv
    <2>3. /\ closer \in {"cancelling", "notify"} /\ closer' \in {"notify", "join"}
          /\ toCancel' = {} /\ cancelOp' = NoOperation /\ toCancel = {} /\ cancelOp = NoOperation
          /\ UNCHANGED <<operation_id_queue, operation_map, closed, finish, state>>
      BY <1>5, Zenon DEF CancelDone, WaitNotify, CloserInv
    <2>4. AsyncType' /\ WorkersInv' /\ CloserInv'
      BY <2>1, <2>2, <2>3, Zenon DEF OnlyWakes, AsyncType, CloserPlaces, WorkersInv, CloserInv
    <2>5. ASSUME NEW op \in operation_map
          PROVE  WillEnd(op)'
      <3>1. Held(op, {"exec"}) => Held(op, {"exec"})'
        BY <2>1, OnlyWakesHeld, Zenon
      <3>2. Held(op, {"have", "start"}) => Held(op, {"have", "start"})'
        BY <2>1, OnlyWakesHeld, Zenon
      <3>3. WillEnd(op) /\ (Queued(op) => Queued(op)') /\ ~(closer = "cancel")
        BY <2>3, Zenon DEF Queued
      <3> QED  BY <2>3, <3>1, <3>2, <3>3, ZenonT(60) DEF WillEnd
    <2> QED  BY <2>3, <2>4, <2>5, Zenon
  <1>6. CASE WaitJoin
    BY <1>6, ZenonT(60) DEF WaitJoin, AsyncType, CloserPlaces, WorkersInv, WillEnd, Held, Queued, CloserInv
  <1> QED  BY <1>1, <1>2, <1>3, <1>4, <1>5, <1>6, Zenon DEF CloserStep

\* Every step of the RPC server keeps the invariant of the queue of operations.
LEMMA AsyncNextInv ==
  ASSUME AsyncInv, [RpcNext]_rpcVars
  PROVE  AsyncInv'
  <1>1. CASE UNCHANGED asyncVars
    BY <1>1 DEF asyncVars, AsyncInv, AsyncType, WorkersInv, WillEnd, Held, Queued, CloserInv
  <1> QED
    BY <1>1, AddOperationInv, PopFinishedInv, AsyncStepInv, CloserStepInv, Zenon
    DEF RpcNext, rpcVars, WorkerStep, Handle, AsyncThread, HandleSIGTERM, MainThread, Interrupt,
        StopRPC, Shutdown

\* When closeAndWait or finishAndWait has returned, every operation still in the map has ended:
\* a cancellation that races with a worker (isReady and then the write, without the worker's
\* knowledge) never leaves one ready or executing.
THEOREM OperationsEndedAlways == RpcSpec => []OperationsEnded
  BY JoinedEnds, AsyncInitInv, AsyncNextInv, PTL DEF RpcSpec

-----------------------------------------------------------------------------
(* The HTTP work queue. *)

\* Where a worker is that is not in Run, and where it is in Run.
Outside == {"created", "gone", "late"}
HttpPlaces == Outside \cup {"top", "wait", "woken", "call", "called", "leave"}
HttpWorkerType == [HttpWorkers -> [at : HttpPlaces, req : Nat]]
InQueue == {w \in HttpWorkers : httpWorker[w].at \notin Outside}

\* numThreads counts the workers that have entered Run and not left it, so the queue that
\* WaitExit finds without threads has none.
HttpInv ==
    /\ httpQueue \in Seq(Nat)
    /\ httpWorker \in HttpWorkerType
    /\ numThreads = Cardinality(InQueue)
    /\ QueueUnused

\* A notification changes where workers wait and nothing else.
LEMMA WakeWorkersMoves ==
  ASSUME HttpInv, NEW W \in SUBSET WaitingWorkers
  PROVE  /\ WakeWorkers(W) \in HttpWorkerType
         /\ \A w \in HttpWorkers : WakeWorkers(W)[w].at \in Outside <=> httpWorker[w].at \in Outside
  BY Zenon DEF HttpInv, HttpWorkerType, HttpPlaces, WakeWorkers, WaitingWorkers, InRun, NoRequest, Outside

\* A step after which the same workers have left keeps the count.
LEMMA SameWorkers ==
  ASSUME HttpInv, httpWorker' \in HttpWorkerType, httpQueue' \in Seq(Nat),
         UNCHANGED numThreads, waitExit' = "deleted" => waitExit = "deleted",
         \A w \in HttpWorkers : httpWorker'[w].at \in Outside <=> httpWorker[w].at \in Outside
  PROVE  HttpInv'
  <1>1. InQueue' = InQueue
    BY Zenon DEF InQueue
  <1> QED  BY <1>1, Zenon DEF HttpInv, QueueUnused, Outside

\* ThreadCounter counts a worker that enters Run.
LEMMA HttpStartInv ==
  ASSUME HttpInv, NEW w \in HttpWorkers, HttpStart(w)
  PROVE  HttpInv'
  <1>1. httpWorker \in HttpWorkerType /\ httpWorker[w].at \in Outside
    BY Zenon DEF HttpInv, HttpStart, Outside
  <1>2. CASE waitExit = "deleted"
    <2>1. InRun("late", NoRequest) \in [at : HttpPlaces, req : Nat] /\ InRun("late", NoRequest).at \in Outside
      BY DEF HttpPlaces, Outside, InRun, NoRequest
    <2>2. httpWorker' = [httpWorker EXCEPT ![w] = InRun("late", NoRequest)]
      BY <1>2, Zenon DEF HttpStart
    <2>3. /\ httpWorker' \in HttpWorkerType
          /\ \A v \in HttpWorkers : httpWorker'[v].at \in Outside <=> httpWorker[v].at \in Outside
      BY <1>1, <2>1, <2>2, Zenon DEF HttpWorkerType
    <2> QED  BY <1>2, <2>3, SameWorkers, Zenon DEF HttpStart, HttpInv
  <1>3. CASE waitExit # "deleted"
    <2>1. InRun("top", NoRequest) \in [at : HttpPlaces, req : Nat] /\ InRun("top", NoRequest).at \notin Outside
      BY DEF HttpPlaces, Outside, InRun, NoRequest
    <2>2. httpWorker' = [httpWorker EXCEPT ![w] = InRun("top", NoRequest)]
      BY <1>3, Zenon DEF HttpStart
    <2>3. /\ httpWorker' \in HttpWorkerType /\ httpWorker'[w].at \notin Outside
          /\ \A v \in HttpWorkers : v # w => httpWorker'[v] = httpWorker[v]
      BY <1>1, <2>1, <2>2, Zenon DEF HttpWorkerType
    <2>4. w \notin InQueue /\ InQueue' = InQueue \cup {w}
      BY <1>1, <2>3 DEF InQueue
    <2>5. IsFiniteSet(InQueue)
      BY HttpAssumption, FS_Subset, Zenon DEF InQueue
    <2>6. Cardinality(InQueue') = Cardinality(InQueue) + 1
      BY <2>4, <2>5, FS_AddElement, Zenon
    <2> QED  BY <1>3, <2>3, <2>6, Zenon DEF HttpInv, HttpStart, QueueUnused
  <1> QED  BY <1>2, <1>3, Zenon

\* The last notification of a worker that leaves, and the count without it.
LEMMA HttpLeaveInv ==
  ASSUME HttpInv, NEW w \in HttpWorkers, HttpLeave(w)
  PROVE  HttpInv'
  <1>1. /\ httpWorker' \in HttpWorkerType
        /\ httpWorker'[w].at \in Outside
        /\ \A v \in HttpWorkers \ {w} : httpWorker'[v].at \in Outside <=> httpWorker[v].at \in Outside
    BY WakeWorkersMoves, Zenon DEF HttpLeave, HttpWorkerType, HttpPlaces, InRun, NoRequest, Outside
  <1>2. w \in InQueue /\ InQueue' = InQueue \ {w}
    BY <1>1, Zenon DEF InQueue, HttpLeave, Outside
  <1>3. IsFiniteSet(InQueue)
    BY HttpAssumption, FS_Subset, Zenon DEF InQueue
  <1>4. Cardinality(InQueue') = Cardinality(InQueue) - 1
    BY <1>2, <1>3, FS_RemoveElement, Zenon
  <1>5. waitExit # "deleted" /\ waitExit' # "deleted"
    BY Zenon DEF HttpLeave, HttpInv, QueueUnused, WakeExit, Outside
  <1> QED  BY <1>1, <1>4, <1>5, Zenon DEF HttpInv, HttpLeave, QueueUnused, Outside

\* StopHTTPServer deletes the queue only when nobody is counted.
LEMMA StopHTTPServerInv ==
  ASSUME HttpInv, StopHTTPServer
  PROVE  HttpInv'
  <1>1. IsFiniteSet(InQueue) /\ InQueue' = InQueue
    BY HttpAssumption, FS_Subset, Zenon DEF InQueue, StopHTTPServer
  <1>2. CASE ExitWaits
    BY <1>1, <1>2, Zenon DEF StopHTTPServer, ExitWaits, HttpInv, QueueUnused, Outside
  <1>3. CASE ~ExitWaits
    <2>1. Cardinality(InQueue) \in Nat
      BY <1>1, FS_CardinalityType, Zenon
    <2>2. Cardinality(InQueue) = 0
      BY <1>3, <2>1 DEF ExitWaits, HttpInv
    <2>3. InQueue = {}
      BY <1>1, <2>2, FS_EmptySet, Zenon
    <2>4. httpQueue' = <<>>
      BY <1>3, Zenon DEF StopHTTPServer
    <2>5. httpQueue' \in Seq(Nat)
      BY <2>4, ZenonT(60), EmptySeq
    <2> QED  BY <1>1, <2>3, <2>5, Zenon DEF StopHTTPServer, HttpInv, QueueUnused, InQueue, Outside
  <1> QED  BY <1>2, <1>3, Zenon

\* The HTTP invariant holds before StartHTTPServer.
LEMMA HttpInitInv == RpcInit => HttpInv
  <1> SUFFICES ASSUME RpcInit PROVE HttpInv
    BY Zenon
  <1>1. InQueue = {}
    BY Zenon DEF RpcInit, HttpInit, InQueue, InRun, Outside
  <1>2. numThreads = Cardinality(InQueue)
    BY <1>1, FS_EmptySet, Zenon DEF RpcInit, HttpInit
  <1> QED
    BY <1>2 DEF RpcInit, HttpInit, HttpInv, QueueUnused, InRun, NoRequest, HttpWorkerType, HttpPlaces, Outside

\* Every step of the RPC server keeps the invariant of the work queue.
LEMMA HttpStepInv ==
  ASSUME HttpInv, [RpcNext]_rpcVars
  PROVE  HttpInv'
  <1>1. CASE UNCHANGED httpVars
    BY <1>1, SameWorkers, Zenon DEF httpVars, HttpInv
  <1>2. CASE HttpStep
    <2>1. ASSUME NEW r \in Requests, HttpEnqueue(r)
          PROVE  HttpInv'
      <3>1. r \in Nat /\ httpQueue' \in Seq(Nat)
        BY <2>1, HttpAssumption DEF Requests, HttpEnqueue, HttpInv
      <3>2. /\ httpWorker' \in HttpWorkerType
            /\ \A w \in HttpWorkers : httpWorker'[w].at \in Outside <=> httpWorker[w].at \in Outside
        <4>1. ASSUME NEW w \in WaitingWorkers, httpWorker' = WakeWorkers({w})
              PROVE  <3>2
          BY <4>1, WakeWorkersMoves, Zenon
        <4> QED  BY <2>1, <4>1, Zenon DEF HttpEnqueue, NotifyOneHttp, HttpInv
      <3> QED  BY <2>1, <3>1, <3>2, SameWorkers, ZenonT(60) DEF HttpEnqueue, NotifyOneHttp
    <2>2. ASSUME NEW r \in Requests, HttpRefuse(r) \/ HttpReject(r) \/ HttpSend(r)
          PROVE  HttpInv'
      BY <2>2, SameWorkers, Zenon DEF HttpRefuse, HttpReject, HttpSend, HttpInv
    <2> QED  BY <1>2, <2>1, <2>2, Zenon DEF HttpStep
  <1>3. ASSUME NEW broken \in BOOLEAN, EventLoopEnds(broken)
        PROVE  HttpInv'
    BY <1>3, SameWorkers, Zenon DEF EventLoopEnds, HttpInv
  <1>4. ASSUME NEW w \in HttpWorkers, HttpTake(w)
        PROVE  HttpInv'
    <2>1. httpQueue # <<>> => Head(httpQueue) \in Nat /\ Tail(httpQueue) \in Seq(Nat)
      BY DEF HttpInv
    <2>2. httpQueue' \in Seq(Nat)
      BY <1>4, <2>1, Zenon DEF HttpTake, HttpInv
    <2>3. PICK p \in [at : HttpPlaces \ Outside, req : Nat] : httpWorker' = [httpWorker EXCEPT ![w] = p]
      BY <1>4, <2>1, Zenon DEF HttpTake, InRun, HttpPlaces, NoRequest, Outside
    <2>4. /\ httpWorker' \in HttpWorkerType
          /\ \A v \in HttpWorkers : httpWorker'[v].at \in Outside <=> httpWorker[v].at \in Outside
      <3>1. httpWorker[w].at \notin Outside
        BY <1>4, ZenonT(60) DEF HttpTake, Outside
      <3> QED  BY <2>3, <3>1, Zenon DEF HttpInv, HttpWorkerType
    <2> QED  BY <1>4, <2>2, <2>4, SameWorkers, ZenonT(60) DEF HttpTake
  <1>5. ASSUME NEW w \in HttpWorkers, HttpAnswer(w)
        PROVE  HttpInv'
    <2>1. /\ httpWorker' \in HttpWorkerType
          /\ \A v \in HttpWorkers : httpWorker'[v].at \in Outside <=> httpWorker[v].at \in Outside
      BY <1>5, Zenon DEF HttpAnswer, HttpInv, HttpWorkerType, HttpPlaces, InRun, NoRequest, Outside
    <2> QED  BY <1>5, <2>1, SameWorkers, Zenon DEF HttpAnswer, HttpInv
  <1>6. ASSUME NEW w \in HttpWorkers, Handle(w)
        PROVE  HttpInv'
    <2>1. /\ httpWorker' \in HttpWorkerType
          /\ \A v \in HttpWorkers : httpWorker'[v].at \in Outside <=> httpWorker[v].at \in Outside
      BY <1>6, Zenon DEF Handle, Called, HttpInv, HttpWorkerType, HttpPlaces, Outside
    <2> QED  BY <1>6, <2>1, SameWorkers, Zenon DEF Handle, HttpInv
  <1>7. CASE InterruptHTTPServer
    BY <1>7, WakeWorkersMoves, SameWorkers, Zenon DEF InterruptHTTPServer, NotifyAllHttp, WakeExit, HttpInv
  <1> QED
    BY <1>1, <1>2, <1>3, <1>4, <1>5, <1>6, <1>7, HttpStartInv, HttpLeaveInv, StopHTTPServerInv, ZenonT(60)
    DEF RpcNext, rpcVars, WorkerStep, AsyncThread, HandleSIGTERM, MainThread, Interrupt, StopRPC, Shutdown

\* ~WorkQueue's precondition (httpserver.cpp:101) as far as ThreadCounter counts: the queue is
\* deleted when every worker that has entered Run has left it, whatever order the start of
\* the workers, requests and the shutdown come in, and however many workers there are.
THEOREM QueueUnusedAlways == RpcSpec => []QueueUnused
  <1>1. HttpInv => QueueUnused
    BY Zenon DEF HttpInv
  <1> QED  BY <1>1, HttpInitInv, HttpStepInv, PTL DEF RpcSpec

-----------------------------------------------------------------------------
(* With one service thread, as init.cpp starts, no task is called early: for any tasks, any  *)
(* times and any delay of a repeating task.                                                  *)

\* init.cpp starts one thread for scheduler.serviceQueue.
OneThread == \A s, t \in ServiceThreads : s = t

Entries == [time : Nat, task : Tasks]
Places == {"new", "top", "wait", "until", "timeout", "call", "done", "gone"}

\* What the thread waits for stays in the queue until it takes an entry, which is then no later;
\* and what it has timed out on, or calls, is due.
SchedulerInv ==
    /\ now \in Nat
    /\ taskQueue \subseteq Entries
    /\ service \in [ServiceThreads -> [at : Places, entry : Entries]]
    /\ \A t \in ServiceThreads :
          /\ service[t].at \in {"until", "timeout"} => service[t].entry \in taskQueue
          /\ service[t].at \in {"timeout", "call"} => service[t].entry.time <= now

\* Any entry can stand for none: the type of the places where no entry is meant.
LEMMA NoEntryType == NoEntry \in Entries
  <1>1. PICK k \in Tasks : TRUE
    BY SchedulerAssumption, Zenon
  <1>2. (CHOOSE j \in Tasks : TRUE) \in Tasks
    BY <1>1, Zenon
  <1> QED  BY <1>2, Zenon DEF NoEntry, Entry, Entries

\* Notifying threads keeps their types, and moves only threads to the head of the loop.
LEMMA NotifyMoves ==
  ASSUME SchedulerInv, NEW S
  PROVE  /\ Notify(S) \in [ServiceThreads -> [at : Places, entry : Entries]]
         /\ \A t \in ServiceThreads : Notify(S)[t] = service[t] \/ Notify(S)[t].at = "top"
  BY NoEntryType, Zenon DEF SchedulerInv, Notify, InService, Places

\* What is scheduled from outside, or by a repeating task, is an entry.
LEMMA ScheduledIsEntry == \A t \in Nat, k \in Tasks : Entry(t, k) \in Entries
  BY Zenon DEF Entry, Entries

\* The invariant holds at first.
LEMMA SchedulerInitInv == SchedulerInit => SchedulerInv
  BY NoEntryType DEF SchedulerInit, SchedulerInv, InService, Places

\* Every step of the scheduler keeps the invariant.
LEMMA SchedulerStepInv ==
  ASSUME OneThread, SchedulerInv, [SchedulerNext]_schedulerVars
  PROVE  SchedulerInv'
  <1>1. ASSUME NEW k \in Tasks, NEW u \in now..MaxTime, Schedule(k, u)
        PROVE  SchedulerInv'
    <2>1. u \in Nat
      BY SchedulerAssumption DEF SchedulerInv
    <2>2. PICK S \in NotifyOne : service' = Notify(S)
      BY <1>1, Zenon DEF Schedule
    <2> QED  BY <1>1, <2>1, <2>2, NotifyMoves, ScheduledIsEntry, ZenonT(60) DEF Schedule, SchedulerInv
  <1>2. ASSUME NEW drain \in BOOLEAN, SchedulerStop(drain)
        PROVE  SchedulerInv'
    BY <1>2, NotifyMoves, Zenon DEF SchedulerStop, SchedulerInv
  <1>3. ASSUME NEW t \in ServiceThreads, ServiceStep(t)
        PROVE  SchedulerInv'
    <2>1. CASE ServiceStart(t)
      BY <2>1, ZenonT(60) DEF ServiceStart, SchedulerInv, Places
    <2>2. CASE ServiceLoop(t)
      BY <2>2, NoEntryType DEF ServiceLoop, ServiceHead, SchedulerInv, InService, Begin, Places
    <2>3. CASE ServiceTimeout(t)
      BY <2>3, Zenon DEF ServiceTimeout, WaitOver, SchedulerInv, Places, Entries
    <2>4. CASE ServiceTake(t)
      <3>1. CASE service' = [service EXCEPT ![t] = InService("top", NoEntry)] /\ UNCHANGED taskQueue
        BY <2>4, <3>1, NoEntryType, Zenon DEF ServiceTake, SchedulerInv, InService, Places
      <3>2. ASSUME NEW e \in Begin,
                   taskQueue' = taskQueue \ {e},
                   service' = [service EXCEPT ![t] = InService("call", e)]
            PROVE  SchedulerInv'
        <4>1. e \in taskQueue /\ e.time <= now
          BY <2>4 DEF ServiceTake, Begin, SchedulerInv, Entries
        <4> QED  BY <2>4, <3>2, <4>1, ZenonT(60) DEF ServiceTake, SchedulerInv, InService, OneThread, Places
      <3> QED  BY <2>4, <3>1, <3>2, Zenon DEF ServiceTake
    <2>5. CASE ServiceCall(t)
      <3>1. now + deltaSeconds \in Nat /\ service[t].entry.task \in Tasks
        <4>1. now \in Nat /\ deltaSeconds \in Nat
          BY SchedulerAssumption, Zenon DEF SchedulerInv
        <4>2. service[t].entry \in Entries
          BY Zenon DEF SchedulerInv
        <4>3. service[t].entry.task \in Tasks
          BY <4>2, Zenon DEF Entries
        <4> QED  BY <4>1, <4>3
      <3>2. taskQueue' \subseteq Entries /\ taskQueue \subseteq taskQueue'
        BY <2>5, <3>1, ScheduledIsEntry DEF ServiceCall, SchedulerInv
      <3>3. /\ service' \in [ServiceThreads -> [at : Places, entry : Entries]]
            /\ \A s \in ServiceThreads : service'[s] = service[s] \/ service'[s].at = "top"
        BY <2>5, NotifyMoves, NoEntryType DEF ServiceCall, SchedulerInv, InService, Places
      <3> QED  BY <2>5, <3>2, <3>3, Zenon DEF ServiceCall, SchedulerInv
    <2>6. CASE ServiceInterrupted(t)
      BY <2>6, NoEntryType, Zenon DEF ServiceInterrupted, SchedulerInv, InService, Places
    <2> QED  BY <1>3, <2>1, <2>2, <2>3, <2>4, <2>5, <2>6, ZenonT(60) DEF ServiceStep
  <1>4. CASE ServiceInterrupt
    BY <1>4, Zenon DEF ServiceInterrupt, SchedulerInv
  <1>5. CASE Tick
    BY <1>5 DEF Tick, SchedulerInv, Entries
  <1>6. CASE UNCHANGED schedulerVars
    BY <1>6, Zenon DEF schedulerVars, SchedulerInv
  <1> QED  BY <1>1, <1>2, <1>3, <1>4, <1>5, <1>6, ZenonT(60) DEF SchedulerNext

\* With a single service thread a task is never called before its time (CScheduler::serviceQueue
\* takes what is first after the wait, not what it waited for).
THEOREM NeverEarly ==
  ASSUME OneThread
  PROVE  SchedulerSpec => []NotEarly
  <1>1. SchedulerInv => NotEarly
    BY Zenon DEF SchedulerInv, NotEarly
  <1> QED  BY <1>1, SchedulerInitInv, SchedulerStepInv, PTL DEF SchedulerSpec

-----------------------------------------------------------------------------
(* The indexes of the memory pool are exact for any transactions and any blocks, in every    *)
(* state of a reorganisation.                                                                *)

PoolInv ==
    /\ mapTx \subseteq Txids
    /\ mapNextTx \in [Spendable -> Txids \cup {NoTx}]
    /\ mapNullifiers \in [Nullifiers -> Txids \cup {NoTx}]
    /\ PoolIndexes

\* The pool begins empty.
LEMMA PoolInitInv == MempoolInit => PoolInv
  BY Zenon DEF MempoolInit, PoolInit, PoolInv, PoolIndexes

\* addUnchecked, of a transaction that conflicts with none in the pool.
LEMMA AddUncheckedInv ==
  ASSUME PoolInv, NEW t \in Txids, NEW fSpendsCoinbase, NEW branch,
         t \notin mapTx, ~ConflictsInPool(t), AddUnchecked(t, fSpendsCoinbase, branch)
  PROVE  PoolInv'
  <1>1. mapTx' = mapTx \cup {t}
    BY Zenon DEF AddUnchecked
  <1>2. ASSUME NEW out \in Spendable
        PROVE  {u \in mapTx' : out \in Inputs(u)} = {mapNextTx'[out]} \ {NoTx}
    <2>1. mapNextTx'[out] = IF out \in Inputs(t) THEN t ELSE mapNextTx[out]
      BY Zenon DEF AddUnchecked
    <2>2. {u \in mapTx : out \in Inputs(u)} = {mapNextTx[out]} \ {NoTx}
      BY ZenonT(60) DEF PoolInv, PoolIndexes
    <2>3. out \in Inputs(t) => mapNextTx[out] = NoTx
      BY Zenon DEF ConflictsInPool
    <2> QED  BY <1>1, <2>1, <2>2, <2>3, PoolAssumption, ZenonT(60)
  <1>3. ASSUME NEW nf \in Nullifiers
        PROVE  {u \in mapTx' : nf \in Tx[u].nullifiers} = {mapNullifiers'[nf]} \ {NoTx}
    <2>1. mapNullifiers'[nf] = IF nf \in Tx[t].nullifiers THEN t ELSE mapNullifiers[nf]
      BY Zenon DEF AddUnchecked
    <2>2. {u \in mapTx : nf \in Tx[u].nullifiers} = {mapNullifiers[nf]} \ {NoTx}
      BY Zenon DEF PoolInv, PoolIndexes
    <2>3. nf \in Tx[t].nullifiers => mapNullifiers[nf] = NoTx
      BY Zenon DEF ConflictsInPool
    <2> QED  BY <1>1, <2>1, <2>2, <2>3, PoolAssumption, ZenonT(60)
  <1>4. /\ mapTx' \subseteq Txids
        /\ mapNextTx' \in [Spendable -> Txids \cup {NoTx}]
        /\ mapNullifiers' \in [Nullifiers -> Txids \cup {NoTx}]
    BY Zenon DEF AddUnchecked, PoolInv
  <1> QED  BY <1>2, <1>3, <1>4, Zenon DEF PoolInv, PoolIndexes

\* remove, whatever its list holds: an output is given up only with the one transaction that
\* spends it.
LEMMA EraseInv ==
  ASSUME PoolInv, NEW R, Erase(R)
  PROVE  PoolInv'
  <1> DEFINE gone == R \cap mapTx
  <1>1. mapTx' = mapTx \ gone
    BY ZenonT(60) DEF Erase
  <1>2. ASSUME NEW out \in Spendable
        PROVE  {u \in mapTx' : out \in Inputs(u)} = {mapNextTx'[out]} \ {NoTx}
    <2>1. mapNextTx'[out] = IF \E t \in gone : out \in Inputs(t) THEN NoTx ELSE mapNextTx[out]
      BY Zenon DEF Erase
    <2>2. {u \in mapTx : out \in Inputs(u)} = {mapNextTx[out]} \ {NoTx}
      BY ZenonT(60) DEF PoolInv, PoolIndexes
    <2> QED  BY <1>1, <2>1, <2>2
  <1>3. ASSUME NEW nf \in Nullifiers
        PROVE  {u \in mapTx' : nf \in Tx[u].nullifiers} = {mapNullifiers'[nf]} \ {NoTx}
    <2>1. mapNullifiers'[nf] =
             IF \E t \in gone : nf \in Tx[t].nullifiers THEN NoTx ELSE mapNullifiers[nf]
      BY Zenon DEF Erase
    <2>2. {u \in mapTx : nf \in Tx[u].nullifiers} = {mapNullifiers[nf]} \ {NoTx}
      BY Zenon DEF PoolInv, PoolIndexes
    <2> QED  BY <1>1, <2>1, <2>2
  <1>4. /\ mapTx' \subseteq Txids
        /\ mapNextTx' \in [Spendable -> Txids \cup {NoTx}]
        /\ mapNullifiers' \in [Nullifiers -> Txids \cup {NoTx}]
    BY Zenon DEF Erase, PoolInv
  <1> QED  BY <1>2, <1>3, <1>4, Zenon DEF PoolInv, PoolIndexes

\* A transaction that AcceptToMemoryPool accepts conflicts with none in the pool.
LEMMA AcceptInv ==
  ASSUME PoolInv, NEW t \in Txids, NEW view, NEW nSpendHeight,
         Acceptable(t, view, nSpendHeight), Accept(t, view)
  PROVE  PoolInv'
  BY AddUncheckedInv, ZenonT(60) DEF Acceptable, Accept

\* The transactions and blocks that a change of the chain still has to see are known ones.
StepInv ==
    /\ step = [at |-> step.at, target |-> step.target, oldHeight |-> step.oldHeight,
               block |-> step.block, todo |-> step.todo, oldRoot |-> step.oldRoot,
               fDisconnected |-> step.fDisconnected]
    /\ step.todo \in Seq(Txids)
    /\ step.at = "removeForBlock" => step.block \in Blocks
    /\ chainActive \in Seq(Blocks)

\* The step in progress has its type initially,
LEMMA StepInitInv == MempoolInit => StepInv
  BY DEF MempoolInit, StepInv, Idle

\* and after every action.
LEMMA StepStepInv ==
  ASSUME StepInv, [MempoolNext]_mempoolVars
  PROVE  StepInv'
  <1>1. ASSUME NEW b \in Blocks, ActivateBestChainStep(b) \/ InvalidateBlock(b)
        PROVE  StepInv'
    BY <1>1, ZenonT(60) DEF ActivateBestChainStep, InvalidateBlock, StepInv, Idle
  <1>2. ASSUME NEW b \in Blocks, ConnectTip(b)
        PROVE  StepInv'
    <2>1. Vtx[b] \in Seq(Txids)
      BY ChainAssumption, Zenon
    <2> QED  BY <1>2, <2>1, Zenon DEF ConnectTip, StepInv
  <1>3. CASE DisconnectTip
    <2>1. Vtx[Tip] \in Seq(Txids)
      BY <1>3, ChainAssumption DEF DisconnectTip, OffBranch, Tip, Height, StepInv
    <2> QED  BY <1>3, <2>1, ZenonT(60) DEF DisconnectTip, StepInv
  <1>4. CASE Resurrect
    <2>1. step' = [step EXCEPT !.todo = Tail(step.todo)] /\ UNCHANGED chainActive
      BY <1>4, Zenon DEF Resurrect
    <2>2. Tail(step.todo) \in Seq(Txids)
      BY <1>4 DEF Resurrect, StepInv
    <2> QED  BY <2>1, <2>2, Zenon DEF StepInv
  <1>5. CASE DisconnectDone
    <2>1. SubSeq(chainActive, 1, Height - 1) \in Seq(Blocks)
      BY DEF Height, StepInv
    <2> QED  BY <1>5, <2>1, ZenonT(60) DEF DisconnectDone, StepInv
  <1>6. CASE RemoveOne
    <2>1. step' = [step EXCEPT !.todo = Tail(step.todo)] /\ UNCHANGED chainActive
      BY <1>6, Zenon DEF RemoveOne
    <2>2. Tail(step.todo) \in Seq(Txids)
      BY <1>6 DEF RemoveOne, StepInv
    <2> QED  BY <2>1, <2>2, Zenon DEF StepInv
  <1>7. CASE ConnectDone
    <2>1. PICK a \in {"finish", "connect"} : step' = [step EXCEPT !.at = a]
      BY <1>7, Zenon DEF ConnectDone
    <2>2. chainActive' \in Seq(Blocks)
      BY <1>7 DEF ConnectDone, StepInv
    <2> QED  BY <2>1, <2>2, Zenon DEF StepInv
  <1>8. CASE FinishStep
    BY <1>8 DEF FinishStep, StepInv, Idle
  <1>9. CASE UNCHANGED chainVars
    BY <1>9, Zenon DEF chainVars, StepInv
  <1> QED
    BY <1>1, <1>2, <1>3, <1>4, <1>5, <1>6, <1>7, <1>8, <1>9, ZenonT(60)
    DEF MempoolNext, mempoolVars, AcceptToMemoryPool

\* Every step of the pool or of the chain keeps the indexes exact.
LEMMA PoolStepInv ==
  ASSUME PoolInv, StepInv, [MempoolNext]_mempoolVars
  PROVE  PoolInv'
  <1>1. ASSUME NEW t \in Txids, AcceptToMemoryPool(t)
        PROVE  PoolInv'
    BY <1>1, AcceptInv, Zenon DEF AcceptToMemoryPool
  <1>2. CASE Resurrect
    <2>1. Head(step.todo) \in Txids
      BY <1>2 DEF Resurrect, StepInv
    <2> QED  BY <1>2, <2>1, AcceptInv, EraseInv, ZenonT(60) DEF Resurrect, NotResurrected, RemoveRecursive
  <1>3. CASE DisconnectDone \/ RemoveOne \/ ConnectDone \/ FinishStep
    BY <1>3, EraseInv, Zenon
    DEF DisconnectDone, RemoveOne, ConnectDone, FinishStep, RemoveRecursive, RemoveForBlock
  <1>4. CASE UNCHANGED poolVars
    BY <1>4, Zenon DEF poolVars, PoolInv, PoolIndexes
  <1> QED
    BY <1>1, <1>2, <1>3, <1>4, ZenonT(60)
    DEF MempoolNext, mempoolVars, ActivateBestChainStep, InvalidateBlock, ConnectTip, DisconnectTip

\* CTxMemPool's mapNextTx and mapNullifiers are exact in every state, between the steps of
\* DisconnectTip and ConnectTip too: so AcceptToMemoryPool's look-ups find every conflict.
THEOREM IndexesExact == MempoolSpec => []PoolIndexes
  <1>1. PoolInv => PoolIndexes
    BY Zenon DEF PoolInv
  <1> QED  BY <1>1, PoolInitInv, StepInitInv, PoolStepInv, StepStepInv, PTL DEF MempoolSpec

\* Two transactions of the pool share no output and no nullifier.
THEOREM NoDoubleSpend ==
  MempoolSpec => [](\A t, u \in mapTx : t # u => /\ Inputs(t) \cap Inputs(u) = {}
                                                 /\ Tx[t].nullifiers \cap Tx[u].nullifiers = {})
  <1>1. ASSUME PoolInv, NEW t \in mapTx, NEW u \in mapTx, t # u
        PROVE  Inputs(t) \cap Inputs(u) = {} /\ Tx[t].nullifiers \cap Tx[u].nullifiers = {}
    <2>1. t \in Txids /\ u \in Txids
      BY <1>1, Zenon DEF PoolInv
    <2>2. ASSUME NEW out \in Inputs(t) \cap Inputs(u)
          PROVE  FALSE
      <3>1. out \in Spendable
        BY <2>1, Zenon DEF Spendable
      <3>2. {w \in mapTx : out \in Inputs(w)} = {mapNextTx[out]} \ {NoTx}
        BY <1>1, <3>1, Zenon DEF PoolInv, PoolIndexes
      <3> QED  BY <1>1, <2>2, <3>2
    <2>3. ASSUME NEW nf \in Tx[t].nullifiers \cap Tx[u].nullifiers
          PROVE  FALSE
      <3>1. nf \in Nullifiers
        BY <2>1, PoolAssumption, Zenon
      <3>2. {w \in mapTx : nf \in Tx[w].nullifiers} = {mapNullifiers[nf]} \ {NoTx}
        BY <1>1, <3>1, Zenon DEF PoolInv, PoolIndexes
      <3> QED  BY <1>1, <2>3, <3>2
    <2> QED  BY <2>2, <2>3, Zenon
  <1> DEFINE P == \A t, u \in mapTx : t # u => /\ Inputs(t) \cap Inputs(u) = {}
                                              /\ Tx[t].nullifiers \cap Tx[u].nullifiers = {}
  <1>2. PoolInv => P
    BY <1>1, Zenon
  <1> HIDE DEF P
  <1>3. MempoolSpec => []P
    BY <1>2, PoolInitInv, StepInitInv, PoolStepInv, StepStepInv, PTL DEF MempoolSpec
  <1> QED  BY <1>3, Zenon DEF P

=============================================================================
