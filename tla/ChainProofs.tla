---------------------------- MODULE ChainProofs -----------------------------
(* The theorems about ChainState, for any tree of blocks.  What the other modules leave      *)
(* comes first: the choice of the best chain, and the start of a node on what is on disk.    *)
EXTENDS ChainStateProofs

\* The time that the prover has for a step.
USE SMTT(30)

-----------------------------------------------------------------------------
(* The chain with the most work.  Some candidate, the floor, builds on     *)
(* nothing but connected blocks and is no worse than the tip, and every    *)
(* better block that is not marked is a candidate too.  It is the best tip *)
(* there was since PruneBlockIndexCandidates, or since the last time that  *)
(* all candidates were collected again.                                    *)

Floor(f) ==
    /\ \A y \in Chain[f] : ~Failed(status[y]) /\ (y = Genesis \/ SCRIPTS \in status[y])
    /\ f = tip \/ Worse(tip, f, seq)
    /\ \A x \in linked : ~Failed(status[x]) /\ Worse(f, x, seq) => x \in candidates

FloorInv == job.op \in {"idle", "step", "flush"} => \E f \in candidates : Floor(f)

\* A marked block that was not connected is not below the floor.
LEMMA FloorKept ==
  ASSUME Inv, LinkInv, NEW f \in candidates, Floor(f), f \in candidates',
         tip' = tip, seq' = seq, linked' = linked,
         \A x \in Chain[f] : /\ Failed(status'[x]) => Failed(status[x])
                             /\ SCRIPTS \in status[x] => SCRIPTS \in status'[x],
         \A x \in linked : ~Failed(status'[x]) /\ (~Failed(status[x]) => x \in candidates) /\ Worse(f, x, seq)
                           => x \in candidates'
  PROVE  FloorInv'
  <1>1. Floor(f)'
    BY Zenon DEF Floor
  <1> QED  BY <1>1, Zenon DEF FloorInv

LEMMA AcceptFloor ==
  ASSUME Inv, DataInv, LinkInv, FloorInv, NEW b \in Blocks \ {Genesis}, NEW r \in BOOLEAN, AcceptBlock(b, r), Inv'
  PROVE  FloorInv'
  <1>1. /\ job = Idle /\ tip' = tip /\ status' = [status EXCEPT ![b] = @ \cup {DATA, TRANSACTIONS}]
    BY Zenon DEF AcceptBlock
  <1>2. /\ linked \subseteq linked' /\ \A x \in linked : seq'[x] = seq[x]
        /\ \/ candidates' = candidates \cup {x \in linked' \ linked : ~Worse(x, tip, seq')}
           \/ linked' = linked /\ candidates' = candidates
    BY AcceptLinks, Zenon
  <1>3. PICK f \in candidates : Floor(f)
    BY <1>1, Zenon DEF FloorInv, Idle
  <1>4. f \in linked /\ tip \in linked /\ f \in Blocks /\ tip \in Blocks /\ linked' \subseteq Blocks
        /\ seq' \in [Blocks -> Nat]
    BY <1>1, Zenon DEF LinkInv, Inv, TypeOK, Idle
  <1>5. \A x \in Blocks : status'[x] = status[x] \/ status'[x] = status[x] \cup {DATA, TRANSACTIONS}
    BY <1>1, Zenon DEF Inv, TypeOK
  <1>6. \A x \in Blocks : /\ Failed(status'[x]) <=> Failed(status[x])
                          /\ SCRIPTS \in status[x] => SCRIPTS \in status'[x]
    BY <1>5, FlagNames, FailedFlags, ZenonT(60)
  <1>7. f = tip \/ Worse(tip, f, seq')
    BY <1>2, <1>3, <1>4, Zenon DEF Floor, Worse
  <1>8. ASSUME NEW x \in linked', ~Failed(status'[x]), Worse(f, x, seq')
        PROVE  x \in candidates'
    <2>1. CASE x \in linked
      <3>1. Worse(f, x, seq)
        BY <1>2, <1>4, <1>8, <2>1, Zenon DEF Worse
      <3>2. x \in candidates
        BY <1>3, <1>4, <1>6, <1>8, <2>1, <3>1, Zenon DEF Floor
      <3> QED  BY <1>2, <3>2, Zenon
    <2>2. CASE x \notin linked
      <3>1. ~Worse(x, tip, seq')
        BY <1>4, <1>7, <1>8, WorseOrder, Zenon
      <3> QED  BY <1>2, <2>2, <3>1, Zenon
    <2> QED  BY <2>1, <2>2, Zenon
  <1>9. \A y \in Chain[f] : ~Failed(status'[y]) /\ (y = Genesis \/ SCRIPTS \in status'[y])
    BY <1>3, <1>4, <1>6, ChainAssumption, Zenon DEF Floor
  <1>10. Floor(f)'
    BY <1>1, <1>7, <1>8, <1>9, Zenon DEF Floor
  <1>11. f \in candidates'
    BY <1>2, Zenon
  <1> QED  BY <1>10, <1>11, Zenon DEF FloorInv

\* FindMostWorkChain drops only blocks that are marked, or that it marks.
LEMMA ActivateFloor ==
  ASSUME TreeFacts, Inv, DataInv, LinkInv, FloorInv, ActivateBestChain
  PROVE  FloorInv'
  <1>1. FindMostWorkChain /\ job.op = "idle" /\ tip' = tip /\ seq' = seq /\ linked' = linked
    BY Zenon DEF ActivateBestChain, Idle
  <1>2. PICK f \in candidates : Floor(f)
    BY <1>1, Zenon DEF FloorInv
  <1>3. f \in Blocks /\ \A x \in Chain[f] : x \in Blocks /\ Chain[x] \subseteq Chain[f] /\ ~Failed(status[x])
    BY <1>2, ChainAssumption, Zenon DEF Floor, Inv, TypeOK
  <1>4. Failing = PassedOver
    BY AllFailing, Zenon
  <1>5. ASSUME NEW d \in PassedOver
        PROVE  /\ Failed(status[FirstBad(d)]) /\ FirstBad(d) \in Blocks
               /\ \A x \in Above(d) : x \in Blocks /\ FirstBad(d) \in Chain[x] /\ Failed(status'[x])
    <2>1. \A x \in Above(d) : x \in Blocks /\ FirstBad(d) \in Chain[x]
      BY FirstBadFits, Zenon
    <2>2. \A x \in Above(d) : status'[x] = status[x] \cup {FAILED_CHILD}
      BY <1>1, <1>4, <2>1, Zenon DEF FindMostWorkChain
    <2> QED  BY <1>4, <2>1, <2>2, FirstBadFits, FailedFlags, ZenonT(60) DEF Failing
  <1>6. ASSUME NEW x \in Blocks, Failed(status[x])
        PROVE  Failed(status'[x])
    <2>1. status[x] \subseteq status'[x]
      BY <1>1, MostWorkMarks, Zenon
    <2> QED  BY <1>6, <2>1, FailedFlags, Zenon
  <1>7. candidates' = candidates \ UNION {Above(d) \cup {FirstBad(d)} : d \in PassedOver}
    BY <1>1, Zenon DEF FindMostWorkChain
  <1>8. f \in candidates'
    <2>1. \A d \in PassedOver : f \notin Above(d) /\ f # FirstBad(d)
      BY <1>3, <1>5, ChainAssumption, Zenon
    <2> QED  BY <1>7, <2>1, Zenon
  <1>9. \A x \in Chain[f] : status'[x] = status[x]
    BY <1>1, <1>3, MostWorkMarks, Zenon
  <1>10. \A x \in candidates : ~Failed(status'[x]) => x \in candidates'
    <2>1. \A x \in candidates : \A d \in PassedOver : x \in Above(d) \cup {FirstBad(d)} => Failed(status'[x])
      BY <1>5, <1>6, Zenon
    <2> QED  BY <1>7, <2>1, Zenon
  <1>11. \A x \in linked : ~Failed(status'[x]) => ~Failed(status[x])
    BY <1>6, Zenon DEF Inv, TypeOK
  <1> QED  BY <1>1, <1>2, <1>8, <1>9, <1>10, <1>11, FloorKept, Zenon

\* A block that fails was never connected, so the floor is not above it.
LEMMA MarkFloor ==
  ASSUME Inv, LinkInv, FloorInv, job.op \in {"idle", "step", "flush"}, NEW b \in Blocks \ {Genesis},
         SCRIPTS \notin status[b], status' = [status EXCEPT ![b] = @ \cup {FAILED_VALID}],
         candidates \ {b} \subseteq candidates', tip' = tip, seq' = seq, linked' = linked
  PROVE  FloorInv'
  <1>1. PICK f \in candidates : Floor(f)
    BY Zenon DEF FloorInv
  <1>2. f \in Blocks /\ Chain[f] \subseteq Blocks /\ f \in Chain[f] /\ b \notin Chain[f]
    BY <1>1, ChainAssumption, Zenon DEF Floor, Inv, TypeOK
  <1>3. \A x \in Blocks : x # b => status'[x] = status[x]
    BY Zenon DEF Inv, TypeOK
  <1>4. Failed(status'[b])
    BY FailedFlags, Zenon DEF Inv, TypeOK
  <1>5. f \in candidates'
    BY <1>2, Zenon
  <1>6. \A x \in linked : ~Failed(status'[x]) /\ (~Failed(status[x]) => x \in candidates) /\ Worse(f, x, seq)
                          => x \in candidates'
    BY <1>3, <1>4, Zenon DEF Inv, TypeOK
  <1> QED  BY <1>1, <1>2, <1>3, <1>5, <1>6, FloorKept, Zenon

\* ConnectBlock fails on no block that it found valid before under the same rules.
LEMMA StepInvalidFloor ==
  ASSUME TreeFacts, Inv, LinkInv, FloorInv, StepInvalid
  PROVE  FloorInv'
  <1> DEFINE b == NextTowards(tip, job.target)
  <1>1. /\ job.op = "step" /\ coins = tip /\ tip \in Chain[job.target] /\ Fails(b) /\ InvalidBlockFound(b)
        /\ UNCHANGED <<tip, seq, linked>>
    BY Zenon DEF StepInvalid
  <1>2. b \in Blocks \ {Genesis}
    BY <1>1, NextBlock, Zenon
  <1> HIDE DEF b
  <1>3. SCRIPTS \notin status[b]
    BY <1>1, <1>2, Zenon DEF Fails, Inv, FlagsInv, RulesInv
  <1> QED  BY <1>1, <1>2, <1>3, MarkFloor, Zenon DEF InvalidBlockFound

\* One block down, the floor stays; one block up, the new tip may take its place.
LEMMA UpdateTipFloor ==
  ASSUME UndoThere, TreeFacts, Inv, LinkInv, FloorInv, UpdateTip, Inv'
  PROVE  FloorInv'
  <1> SUFFICES ASSUME job'.op \in {"idle", "step", "flush"}
               PROVE  \E f \in candidates' : Floor(f)'
    BY Zenon DEF FloorInv
  <1>1. tip' = coins /\ UNCHANGED <<coins, seq, linked, status>>
    BY Zenon DEF UpdateTip, index
  <1>2. /\ tip \in Blocks /\ coins \in Blocks /\ seq \in [Blocks -> Nat]
        /\ candidates \subseteq Blocks /\ linked \subseteq Blocks
    BY Zenon DEF Inv, TypeOK
  <1>3. job.op = "step"
    BY UpdateTipCases, Zenon
  <1>4. PICK f \in candidates : Floor(f)
    BY <1>3, Zenon DEF FloorInv
  <1>5. /\ \A y \in Chain[f] : ~Failed(status[y]) /\ (y = Genesis \/ SCRIPTS \in status[y])
        /\ f = tip \/ Worse(tip, f, seq)
        /\ \A x \in linked : ~Failed(status[x]) /\ Worse(f, x, seq) => x \in candidates
    BY <1>4, Zenon DEF Floor
  <1>6. CASE candidates' = candidates /\ coins \in Chain[tip] /\ coins # tip
    <2>1. Worse(coins, tip, seq)
      BY <1>2, <1>6, AncestorWorse, Zenon
    <2>2. Worse(coins, f, seq)
      BY <1>2, <1>5, <2>1, WorseOrder, Zenon
    <2>3. Floor(f)'
      BY <1>1, <1>5, <1>6, <2>2, Zenon DEF Floor
    <2> QED  BY <1>6, <2>3, Zenon
  <1>7. CASE candidates' = Pruned(candidates, coins)
    <2>1. \A y \in Chain[coins] : ~Failed(status[y]) /\ (y = Genesis \/ SCRIPTS \in status[y])
      BY <1>3, Zenon DEF Inv, ActiveInv
    <2>2. \A x \in Blocks : x \in candidates' <=> x \in candidates /\ ~Worse(x, coins, seq)
      BY <1>2, <1>7, Zenon DEF Pruned
    <2>3. coins \in linked
      BY <1>3, Zenon DEF LinkInv
    <2>4. CASE f = coins \/ Worse(coins, f, seq)
      <3>1. f \in candidates'
        BY <1>2, <2>2, <2>4, WorseOrder, Zenon
      <3>2. \A x \in linked : Worse(f, x, seq) => ~Worse(x, coins, seq)
        BY <1>2, <2>4, WorseOrder, ZenonT(60)
      <3>3. \A x \in linked : ~Failed(status[x]) /\ Worse(f, x, seq) => x \in candidates'
        BY <1>2, <1>5, <2>2, <3>2, Zenon
      <3>4. Floor(f)'
        BY <1>1, <1>5, <2>4, <3>3, Zenon DEF Floor
      <3> QED  BY <3>1, <3>4, Zenon
    <2>5. CASE Worse(f, coins, seq)
      <3>1. coins \in candidates
        BY <1>2, <1>5, <2>1, <2>3, <2>5, ChainAssumption, Zenon
      <3>2. coins \in candidates'
        BY <1>2, <2>2, <3>1, WorseOrder, Zenon
      <3>3. \A x \in linked : Worse(coins, x, seq) => Worse(f, x, seq) /\ ~Worse(x, coins, seq)
        BY <1>2, <2>5, WorseOrder, Zenon
      <3>4. \A x \in linked : ~Failed(status[x]) /\ Worse(coins, x, seq) => x \in candidates'
        BY <1>2, <1>5, <2>2, <3>3, Zenon
      <3>5. Floor(coins)'
        BY <1>1, <2>1, <3>4, Zenon DEF Floor
      <3> QED  BY <1>1, <3>2, <3>5, Zenon
    <2> QED  BY <1>2, <2>4, <2>5, WorseOrder, Zenon
  <1> QED  BY <1>2, <1>6, <1>7, UpdateTipCases, ChainAssumption, Zenon

\* A block that reconsiderblock clears becomes a candidate if it is good enough.
LEMMA ReconsiderFloor ==
  ASSUME Inv, MarksInv, FirstReconsidered, LinkInv, FloorInv, NEW b \in Blocks \ {Genesis}, ReconsiderBlock(b)
  PROVE  FloorInv'
  <1> DEFINE below == InvalidBelow(b)
             above == {x \in Chain[b] : Failed(status[x])}
             cleared == [x \in Blocks |-> IF x \in below \cup above THEN status[x] \ FAILED_MASK ELSE status[x]]
  <1>1. /\ b \in Reconsidered /\ job = Idle /\ status' = cleared
        /\ candidates' = candidates \cup {x \in below \cap linked : IsValid(cleared[x], TRANSACTIONS) /\ Worse(tip, x, seq)}
        /\ UNCHANGED <<tip, seq, linked>>
    BY Zenon DEF ReconsiderBlock
  <1>2. PICK f \in candidates : Floor(f)
    BY <1>1, Zenon DEF FloorInv, Idle
  <1>3. /\ f \in Blocks /\ tip \in Blocks /\ seq \in [Blocks -> Nat] /\ linked \subseteq Blocks
        /\ linked \subseteq known
    BY <1>2, Zenon DEF Inv, TypeOK
  <1>4. \A x \in Blocks : x \in below <=> x \in known /\ b \in Chain[x] /\ ~IsValid(status[x], TRANSACTIONS)
    BY Zenon DEF InvalidBelow
  <1>5. \A x \in Blocks : x \in above <=> x \in Chain[b] /\ Failed(status[x])
    BY ChainAssumption, Zenon
  <1> HIDE DEF below, above
  <1>6. \A x \in Blocks : cleared[x] = IF x \in below \cup above THEN status[x] \ FAILED_MASK ELSE status[x]
    BY Zenon
  <1> HIDE DEF cleared
  <1>7. ASSUME NEW x \in linked, ~Failed(status'[x]), ~Failed(status[x]) => x \in candidates, Worse(f, x, seq)
        PROVE  x \in candidates'
    <2>1. CASE ~Failed(status[x])
      BY <1>1, <1>7, <2>1, Zenon
    <2>2. CASE Failed(status[x])
      <3>1. x \in Blocks /\ x \in known /\ ~IsValid(status[x], TRANSACTIONS)
        BY <1>3, <2>2, FailedFlags, Zenon
      <3>2. x \in below \cup above
        BY <1>1, <1>6, <1>7, <2>2, <3>1, Zenon
      <3>3. x \in below
        <4> SUFFICES ASSUME x \in above
                     PROVE  b \in Chain[x]
          BY <1>4, <3>1, <3>2, Zenon
        <4>1. PICK y \in Chain[x] : FAILED_VALID \in status[y]
          BY <2>2, <3>1, Zenon DEF MarksInv, MarksFit
        <4>2. y \in Origins /\ y \in Chain[b]
          BY <1>5, <3>1, <4>1, ChainAssumption, Zenon DEF MarksInv, MarksFit
        <4> QED  BY <1>1, <4>1, <4>2, Zenon DEF FirstReconsidered
      <3>4. TRANSACTIONS \in status[x]
        BY <3>1, Zenon DEF LinkInv, Inv, FlagsInv
      <3>5. IsValid(cleared[x], TRANSACTIONS)
        BY <1>1, <1>6, <1>7, <3>1, <3>2, <3>4, FailedFlags, FlagNames, Zenon
      <3>6. Worse(tip, x, seq)
        BY <1>2, <1>3, <1>7, <3>1, WorseOrder, Zenon DEF Floor
      <3> QED  BY <1>1, <3>3, <3>5, <3>6, Zenon
    <2> QED  BY <2>1, <2>2, Zenon
  <1>8. \A x \in Chain[f] : /\ Failed(status'[x]) => Failed(status[x])
                            /\ SCRIPTS \in status[x] => SCRIPTS \in status'[x]
    <2>1. \A x \in Blocks : status'[x] = status[x] \/ status'[x] = status[x] \ FAILED_MASK
      BY <1>1, <1>6, Zenon
    <2>2. \A x \in Blocks : SCRIPTS \in status[x] => SCRIPTS \in status'[x]
      BY <2>1, FailedFlags, FlagNames, Zenon
    <2>3. \A x \in Blocks : Failed(status'[x]) => Failed(status[x])
      BY <2>1, FailedFlags, Zenon
    <2> QED  BY <1>3, <2>2, <2>3, ChainAssumption, Zenon
  <1>9. f \in candidates'
    BY <1>1, Zenon
  <1> QED  BY <1>1, <1>2, <1>7, <1>8, <1>9, FloorKept, Zenon

\* Once the blocks that are good enough have been collected, the tip itself is the floor.
LEMMA CollectedFloor ==
  ASSUME UndoThere, TreeFacts, Inv, LinkInv, InvalidateDone \/ (RewindErase /\ RestartsApart)
  PROVE  FloorInv'
  <1> DEFINE Fine(S) == {x \in S : IsValid(status[x], TRANSACTIONS) /\ ~Worse(x, tip, seq)}
  <1>1. /\ tip \in Blocks /\ tip \in known /\ tip \in linked /\ seq \in [Blocks -> Nat]
        /\ linked \subseteq Blocks /\ linked \subseteq known
        /\ \A x \in Chain[tip] : x = Genesis \/ SCRIPTS \in status[x]
        /\ \A x \in linked : TRANSACTIONS \in status[x]
    <2>1. job.op \in {"invalidate", "rewind"}
      BY Zenon DEF InvalidateDone, RewindErase
    <2>2. /\ tip \in Blocks /\ seq \in [Blocks -> Nat] /\ linked \subseteq Blocks /\ linked \subseteq known
      BY Zenon DEF Inv, TypeOK
    <2>3. tip \in known /\ \A x \in Chain[tip] : x = Genesis \/ SCRIPTS \in status[x]
      BY <2>1, Zenon DEF Inv, ActiveInv
    <2>4. tip \in linked /\ \A x \in linked : TRANSACTIONS \in status[x]
      BY <2>1, <2>2, Zenon DEF LinkInv, Inv, FlagsInv
    <2> QED  BY <2>2, <2>3, <2>4, Zenon
  <1>2. /\ \A x \in Chain[tip] : ~Failed(status[x]) /\ status'[x] = status[x]
        /\ tip \in linked'
        /\ Fine(linked') \subseteq candidates'
        /\ linked' \subseteq linked /\ \A x \in linked' : status'[x] = status[x]
        /\ tip' = tip /\ seq' = seq
    <2>1. CASE InvalidateDone
      <3>1. \A x \in Chain[tip] : ~Failed(status[x])
        BY <2>1, <1>1, ChainAssumption DEF InvalidateDone, Inv, ActiveInv
      <3> QED  BY <1>1, <2>1, <3>1, Zenon DEF InvalidateDone, AsGoodAsTip, index
    <2>2. CASE RewindErase /\ RestartsApart
      <3> DEFINE gone == {x \in known : ~SufficientlyValidated(x) /\ x \notin Chain[tip]}
      <3>1. /\ linked' = linked \ gone /\ candidates' = RewindCandidates(gone) /\ tip' = tip /\ seq' = seq
            /\ status' = [x \in Blocks |-> IF x \in gone THEN {} ELSE status[x]]
        BY <2>2, Zenon DEF RewindErase
      <3>2. gone \cap Chain[tip] = {} /\ \A x \in Chain[tip] : ~Failed(status[x])
        BY <2>2, GoneFits, Zenon
      <3> HIDE DEF gone
      <3>3. Fine(linked') \subseteq candidates'
        BY <1>1, <3>1, Zenon DEF RewindCandidates, Pruned
      <3> QED  BY <1>1, <3>1, <3>2, <3>3, ChainAssumption, Zenon
    <2> QED  BY <2>1, <2>2, Zenon
  <1>3. \A x \in linked' : ~Failed(status[x]) /\ ~Worse(x, tip, seq) => x \in candidates'
    BY <1>1, <1>2, FailedFlags, Zenon
  <1>4. tip \in candidates'
    BY <1>1, <1>2, <1>3, ChainAssumption, WorseOrder, Zenon
  <1>5. \A x \in linked' : ~Failed(status'[x]) /\ Worse(tip, x, seq) => x \in candidates'
    BY <1>1, <1>2, <1>3, WorseOrder, Zenon
  <1>6. Floor(tip)'
    BY <1>1, <1>2, <1>5, Zenon DEF Floor
  <1> QED  BY <1>2, <1>4, <1>6, Zenon DEF FloorInv

\* A block that invalidateblock disconnects has its undo data.
LEMMA UndoOfTip ==
  ASSUME Inv, DataInv, job.op = "invalidate", job.target \in Chain[tip]
  PROVE  UNDO \in status[tip]
  <1>1. /\ tip \in Blocks /\ job.target \in Blocks /\ job.target \in Invalidated
        /\ \A x \in Chain[tip] : x = Genesis \/ SCRIPTS \in status[x]
    BY Zenon DEF Inv, ActiveInv, TypeOK
  <1>2. tip # Genesis
    BY <1>1, ChainAssumption, BlockSetsAssumption
  <1> QED  BY <1>1, <1>2, ChainAssumption, Zenon DEF DataInv, DataFit

LEMMA NextFloor ==
  ASSUME TreeFacts, Inv, Inv', RestartsApart, FirstReconsidered, ~fPruneMode, DataInv, MarksInv, LinkInv, FloorInv, [Next]_vars
  PROVE  FloorInv'
  <1>0. UndoThere
    BY Zenon DEF UndoThere
  <1>1. ASSUME NEW b \in Blocks \ {Genesis}, AcceptBlockHeader(b)
        PROVE  FloorInv'
    BY <1>1, Zenon DEF AcceptBlockHeader, FloorInv, Floor
  <1>2. ASSUME NEW b \in Blocks \ {Genesis}, NEW r \in BOOLEAN, RejectBlock(b, r)
        PROVE  FloorInv'
    <2>1. SCRIPTS \notin status[b]
      BY <1>2, Zenon DEF RejectBlock, WantsBlock, Inv, FlagsInv, DataInv, DataFit
    <2> QED  BY <1>2, <2>1, MarkFloor, Zenon DEF RejectBlock, Idle
  <1>3. ASSUME NEW b \in Blocks \ {Genesis}, NEW r \in BOOLEAN, AcceptBlock(b, r)
        PROVE  FloorInv'
    BY <1>3, AcceptFloor, Zenon
  <1>4. ASSUME NEW b \in Blocks \ {Genesis}, ReconsiderBlock(b)
        PROVE  FloorInv'
    BY <1>4, ReconsiderFloor, Zenon
  <1>5. CASE ActivateBestChain
    BY <1>5, ActivateFloor, Zenon
  <1>6. CASE StepDisconnect \/ RewindDisconnect \/ InvalidateDisconnect
    <2>1. \/ job' = job \/ job'.op = "shutdown"
          \/ job'.op = "idle" /\ job.op # "rewind" /\ UNDO \notin status[tip]
      <3>1. DisconnectTip \/ job' = Job("shutdown", Genesis, Genesis)
        BY <1>6, Zenon DEF StepDisconnect, RewindDisconnect, InvalidateDisconnect, StartShutdown
      <3> QED  BY <3>1, DisconnectTipCases DEF Job, Idle
    <2>2. CASE StepDisconnect
      BY <2>1, <2>2, Zenon DEF StepDisconnect, FloorInv, Floor, index
    <2>3. CASE RewindDisconnect \/ InvalidateDisconnect
      <3>1. job.op \in {"rewind", "invalidate"}
        BY <2>3, Zenon DEF RewindDisconnect, InvalidateDisconnect
      <3>2. ~(job.op = "invalidate" /\ UNDO \notin status[tip])
        BY <2>3, UndoOfTip, Zenon DEF RewindDisconnect, InvalidateDisconnect
      <3> QED  BY <2>1, <3>1, <3>2 DEF FloorInv
    <2> QED  BY <1>6, <2>2, <2>3, Zenon
  <1>7. CASE StepConnect
    <2> DEFINE b == NextTowards(tip, job.target)
    <2>1. /\ job.op = "step" /\ coins = tip /\ tip \in Chain[job.target]
          /\ status' = [status EXCEPT ![b] = ConnectedFlags(b)]
          /\ UNCHANGED <<linked, seq, candidates, tip, job>>
      BY <1>7, Zenon DEF StepConnect
    <2>2. b \in Blocks
      BY <2>1, NextBlock, Zenon
    <2> HIDE DEF b
    <2>3. \A x \in Blocks : status'[x] = IF x = b THEN ConnectedFlags(b) ELSE status[x]
      BY <2>1, <2>2, Zenon DEF Inv, TypeOK
    <2>4. /\ \A x \in status[b] : x \in ConnectedFlags(b)
          /\ \A x \in ConnectedFlags(b) : x \in status[b] \/ x \in {UNDO, SCRIPTS, ACTIVATES}
      BY Zenon DEF ConnectedFlags
    <2>5. \A x \in Blocks : /\ Failed(status'[x]) <=> Failed(status[x])
                            /\ SCRIPTS \in status[x] => SCRIPTS \in status'[x]
      BY <2>3, <2>4, FailedFlags, FlagNames
    <2>6. PICK f \in candidates : Floor(f)
      BY <2>1, Zenon DEF FloorInv
    <2>7. f \in candidates' /\ Chain[f] \subseteq Blocks /\ linked \subseteq Blocks
      BY <2>1, <2>6, ChainAssumption, Zenon DEF Inv, TypeOK
    <2> QED  BY <2>1, <2>5, <2>6, <2>7, FloorKept, Zenon
  <1>8. CASE StepInvalid
    BY <1>8, StepInvalidFloor, Zenon
  <1>9. CASE UpdateTip
    BY <1>0, <1>9, UpdateTipFloor, Zenon
  <1>10. CASE InvalidateDone \/ RewindErase
    BY <1>0, <1>10, CollectedFloor, Zenon
  <1>11. CASE (\E S \in PruneSets : FlushState(S)) \/ FlushIndex \/ RewindFlush
    <2>1. /\ UNCHANGED <<linked, seq, candidates, tip, status>>
          /\ job' = job \/ job.op = "flush"
      BY <1>11, WrittenUnpruned, Zenon DEF FlushState, FlushIndex, RewindFlush, index
    <2> QED  BY <2>1, Zenon DEF FloorInv, Floor
  <1>12. ASSUME NEW b \in Blocks \ {Genesis}, InvalidateBlock(b)
         PROVE  FloorInv'
    BY <1>12, Zenon DEF InvalidateBlock, Job, FloorInv
  <1>13. CASE Restart
    BY <1>13 DEF Restart, LoadBlockIndexDB, Job, FloorInv
  <1>14. CASE UNCHANGED vars
    BY <1>14, Zenon DEF vars, index, FloorInv, Floor
  <1> QED  BY <1>1, <1>2, <1>3, <1>4, <1>5, <1>6, <1>7, <1>8, <1>9, <1>10, <1>11, <1>12, <1>13, <1>14, ZenonT(60)
           DEF Next, ChainStep, InvalidateStep, StartStep

LEMMA InitFloor == ASSUME SetFacts PROVE Init => FloorInv
  <1> SUFFICES ASSUME Init
               PROVE  FloorInv
    BY Zenon
  <1>1. status[Genesis] = {DATA, TRANSACTIONS} /\ tip = Genesis /\ candidates = {Genesis} /\ linked = {Genesis}
    BY ParentAssumption, Zenon DEF Init
  <1>2. ~Failed(status[Genesis])
    BY <1>1, FlagNames, FailedFlags, Zenon
  <1>3. ~Worse(Genesis, Genesis, seq)
    BY ParentAssumption, WorseOrder, InitInv, Zenon DEF Inv, TypeOK
  <1> QED  BY <1>1, <1>2, <1>3, ChainAssumption, Zenon DEF FloorInv, Floor

-----------------------------------------------------------------------------
(* Starting on what is on disk.  The index is written before the           *)
(* chainstate, so that the best block of the chainstate is in the index;   *)
(* only RewindBlockIndex erases entries before it writes the chainstate.   *)

\* LoadBlockIndexDB finds a candidate: the best block of the chainstate.
LEMMA LoadGoesOn ==
  ASSUME Invalidated = {}, NEW d, NEW st, NEW D, DiskFits(d, st, D), d.tip \in d.index, LoadBlockIndexDB(d),
         d \in [index : SUBSET Blocks, received : SUBSET Blocks,
                status : [Blocks -> SUBSET Flags], tip : Blocks]
  PROVE  job'.op = "rewind"
  <1>1. /\ d.tip \in Blocks /\ \A x \in Chain[d.tip] \ {Genesis} : SCRIPTS \in d.status[x]
        /\ FlagsInv(d.status, d.received)
    BY Zenon DEF DiskFits
  <1>2. Chain[d.tip] \subseteq d.received /\ d.tip \in d.received
    BY <1>1, ChainAssumption DEF FlagsInv
  <1>3. ~Failed(d.status[d.tip])
    BY <1>1, ChainAssumption, ZenonT(60) DEF FlagsInv
  <1>4. IsValid(d.status[d.tip], TRANSACTIONS)
    BY <1>1, <1>2, <1>3, FailedFlags, Zenon DEF FlagsInv
  <1>5. seq' = [x \in Blocks |-> 0]
    BY Zenon DEF LoadBlockIndexDB
  <1>6. ~Worse(d.tip, d.tip, seq')
    BY <1>1, <1>5, WorseOrder, Zenon
  <1>7. d.tip \in candidates'
    BY <1>2, <1>4, <1>6, Zenon DEF LoadBlockIndexDB
  <1> QED  BY <1>7, Zenon DEF LoadBlockIndexDB, Job

LEMMA RestartStarts ==
  ASSUME Inv, Invalidated = {}, ~fPruneMode, Restart, disk.tip \in disk.index
  PROVE  job'.op = "rewind"
  <1>1. CASE LoadBlockIndexDB(disk)
    BY <1>1, LoadGoesOn, Zenon DEF Inv, DiskInv, TypeOK
  <1>2. CASE MayFlush /\ LoadBlockIndexDB(WriteIndex({}))
    <2>1. /\ WriteIndex({}) \in [index : SUBSET Blocks, received : SUBSET Blocks,
                                 status : [Blocks -> SUBSET Flags], tip : Blocks]
          /\ WriteIndex({}).tip = disk.tip /\ WriteIndex({}).index = disk.index \cup dirty \cup {}
      BY WrittenUnpruned, WriteIndexFits, Zenon
    <2> QED  BY <1>2, <2>1, WrittenUnpruned, LoadGoesOn, Zenon
  <1> QED  BY <1>1, <1>2, WrittenUnpruned, Zenon DEF Restart

\* RewindBlockIndex is not interrupted by a second stop, or has nothing to erase that the
\* chainstate on disk still refers to.
RewindUndisturbed ==
    MaxRestarts <= 1 \/ (Invalidated = {} /\ \A b \in Blocks : Height[b] < UpgradeHeight)

StartInv == Starts /\ (MaxRestarts <= 1 \/ disk.tip \in disk.index)

\* Without an upgrade, RewindBlockIndex forgets no block that was connected.
LEMMA EraseKeepsTip ==
  ASSUME TreeFacts, Inv, RestartsApart, RewindErase, Invalidated = {}, \A b \in Blocks : Height[b] < UpgradeHeight
  PROVE  disk'.tip \in disk'.index
  <1> DEFINE gone == {x \in known : ~SufficientlyValidated(x) /\ x \notin Chain[tip]}
  <1>1. /\ job.op = "rewind"
        /\ disk' = [disk EXCEPT !.index = @ \ gone, !.received = @ \ gone,
                                !.status = [x \in Blocks |-> IF x \in gone THEN {} ELSE @[x]]]
    BY Zenon DEF RewindErase
  <1>2. disk'.tip = disk.tip /\ disk'.index = disk.index \ gone
    BY <1>1, Zenon DEF Inv, TypeOK
  <1>3. /\ disk.tip \in disk.index /\ disk.tip \in Blocks
        /\ \A x \in Chain[disk.tip] \ {Genesis} : x \in Blocks /\ SCRIPTS \in status[x]
    BY <1>1, ChainAssumption, ZenonT(60) DEF Inv, DiskInv, DiskFits, Lasting, TypeOK
  <1>4. Genesis \notin gone
    BY GoneFits, Zenon
  <1>5. SufficientlyValidated(disk.tip) \/ disk.tip = Genesis
    <2>1. \A x \in Blocks : ACTIVATES \notin status[x] /\ Height[x] # UpgradeHeight
      <3>1. \A x \in Blocks : Height[x] # UpgradeHeight
        BY HeightAssumption, LimitsAssumption
      <3>2. \A x \in Blocks : ACTIVATES \in status[x] => Height[x] = UpgradeHeight
        BY Zenon DEF Inv, FlagsInv
      <3> QED  BY <3>1, <3>2, Zenon
    <2>2. \A x \in Chain[disk.tip] \ {Genesis} : IsValid(status[x], SCRIPTS)
      <3>1. \A x \in Blocks : SCRIPTS \in status[x] => ~Failed(status[x])
        BY Zenon DEF Inv, FlagsInv
      <3> QED  BY <1>3, <3>1, FailedFlags, Zenon
    <2> QED  BY <1>3, <2>1, <2>2, ChainAssumption DEF SufficientlyValidated, Inherits
  <1> QED  BY <1>2, <1>3, <1>4, <1>5, Zenon

LEMMA NextStart ==
  ASSUME TreeFacts, Inv, Inv', RestartsApart, Invalidated = {}, ~fPruneMode, RewindUndisturbed, StartInv, [Next]_vars
  PROVE  StartInv'
  <1> SUFFICES /\ job'.op # "aborted"
               /\ MaxRestarts > 1 /\ job'.op = "flush" => disk'.tip \in disk'.index
    BY LimitsAssumption DEF StartInv, Starts, Inv, DiskInv
  <1>0. job.op # "aborted" /\ (MaxRestarts <= 1 \/ disk.tip \in disk.index)
    BY ZenonT(60) DEF StartInv, Starts
  <1>1. CASE \E b \in Blocks \ {Genesis} :
               \/ AcceptBlockHeader(b)
               \/ \E fRequested \in BOOLEAN : AcceptBlock(b, fRequested) \/ RejectBlock(b, fRequested)
               \/ InvalidateBlock(b) \/ ReconsiderBlock(b)
    BY <1>1 DEF AcceptBlockHeader, AcceptBlock, RejectBlock, InvalidateBlock, ReconsiderBlock, Idle, Job
  <1>2. CASE ActivateBestChain \/ StepConnect \/ StepInvalid \/ InvalidateDone
    BY <1>2 DEF ActivateBestChain, StepConnect, StepInvalid, InvalidateDone, Idle, Job, StartShutdown
  <1>3. CASE StepDisconnect \/ InvalidateDisconnect \/ RewindDisconnect
    <2>1. DisconnectTip \/ job' = Job("shutdown", Genesis, Genesis)
      BY <1>3, Zenon DEF StepDisconnect, InvalidateDisconnect, RewindDisconnect, StartShutdown
    <2>2. job.op \in {"step", "invalidate", "rewind"}
      BY <1>3, Zenon DEF StepDisconnect, InvalidateDisconnect, RewindDisconnect
    <2> QED  BY <2>1, <2>2, DisconnectTipCases DEF Job, Idle
  <1>4. CASE UpdateTip
    BY <1>4, UpdateTipCases DEF Idle
  <1>5. CASE RewindErase
    <2>1. job'.op = "flush"
      BY <1>5, Zenon DEF RewindErase, Job
    <2>2. MaxRestarts > 1 => disk'.tip \in disk'.index
      BY <1>5, EraseKeepsTip, LimitsAssumption DEF RewindUndisturbed
    <2> QED  BY <2>1, <2>2, Zenon
  <1>6. CASE (\E S \in PruneSets : FlushState(S)) \/ FlushIndex \/ RewindFlush
    BY <1>6, MayFlushFits DEF FlushState, FlushIndex, RewindFlush, Idle
  <1>7. CASE Restart
    <2>1. job.op = "flush" => MaxRestarts > 1
      BY <1>7, LimitsAssumption DEF Restart, Inv, IndexInv, TypeOK
    <2>2. disk.tip \in disk.index
      BY <1>0, <2>1, LimitsAssumption DEF Inv, DiskInv
    <2> QED  BY <1>7, <2>2, RestartStarts, Zenon
  <1>8. CASE UNCHANGED vars
    BY <1>0, <1>8, LimitsAssumption DEF vars
  <1> QED  BY <1>1, <1>2, <1>3, <1>4, <1>5, <1>6, <1>7, <1>8, ZenonT(60)
           DEF Next, ChainStep, InvalidateStep, StartStep

-----------------------------------------------------------------------------
(* Least and greatest elements. *)

INSTANCE FiniteSetTheorems
INSTANCE WellFoundedInduction

\* A set of natural numbers has a least one.
LEMMA LeastNumber ==
  ASSUME NEW T \in SUBSET Nat, T # {}
  PROVE  \E n \in T : \A m \in T : n <= m
  <1> DEFINE R == {p \in Nat \X Nat : p[1] < p[2]}
  <1>1. IsWellFoundedOn(R, Nat)
    BY NatLessThanWellFounded, Zenon DEF OpToRel
  <1>2. \A x, y \in Nat : <<y, x>> \in R <=> y < x
    BY Zenon
  <1> HIDE DEF R
  <1>3. PICK n \in T : \A m \in T : <<m, n>> \notin R
    BY <1>1, WFMin, ZenonT(60)
  <1>4. ASSUME NEW m \in T
        PROVE  n <= m
    <2>1. ~(m < n)
      BY <1>2, <1>3, Zenon
    <2> QED  BY <2>1
  <1> QED  BY <1>4, ZenonT(60)

\* Of some parts of a finite set, one has none of the others below it.
LEMMA LeastSet ==
  ASSUME NEW S, IsFiniteSet(S), NEW C \in SUBSET (SUBSET S), C # {}
  PROVE  \E T \in C : \A U \in C : U \subseteq T => U = T
  <1>1. C \subseteq FiniteSubsetsOf(S)
    BY FS_Subset, Zenon DEF FiniteSubsetsOf
  <1>2. \E T \in C : \A U \in C : <<U, T>> \notin StrictSubsetOrdering(S)
    BY <1>1, WFMin, FS_StrictSubsetOrderingWellFounded, ZenonT(60)
  <1> QED  BY <1>2, Zenon DEF StrictSubsetOrdering

\* An ancestor has a smaller height and less work.
LEMMA HeightsGrow ==
  ASSUME NEW b \in Blocks, NEW a \in Chain[b], a # b
  PROVE  Height[a] < Height[b] /\ Work[a] < Work[b]
  <1> DEFINE Bad(x) == \E y \in Chain[x] : y # x /\ ~(Height[y] < Height[x] /\ Work[y] < Work[x])
             T == {Height[x] : x \in {z \in Blocks : Bad(z)}}
  <1> SUFFICES ASSUME T # {}
               PROVE  FALSE
    BY Zenon
  <1>1. T \in SUBSET Nat
    BY HeightAssumption, Zenon
  <1>2. PICK n \in T : \A m \in T : n <= m
    BY <1>1, LeastNumber, ZenonT(60)
  <1>3. PICK x \in Blocks : Bad(x) /\ n = Height[x]
    BY Zenon
  <1>4. PICK y \in Chain[x] : y # x /\ ~(Height[y] < Height[x] /\ Work[y] < Work[x])
    BY <1>3, Zenon
  <1>5. x # Genesis
    BY <1>4, ChainAssumption
  <1>6. /\ Parent[x] \in Blocks /\ y \in Chain[Parent[x]] /\ y \in Blocks
        /\ Height[x] = Height[Parent[x]] + 1 /\ Work[Parent[x]] < Work[x]
        /\ Height[Parent[x]] \in Nat /\ Work[Parent[x]] \in Nat /\ Work[x] \in Nat /\ Work[y] \in Nat
        /\ Height[y] \in Nat /\ Height[x] \in Nat
    BY <1>4, <1>5, ParentAssumption, ChainAssumption, HeightAssumption, WorkAssumption
  <1>7. ~Bad(Parent[x])
    <2>1. Bad(Parent[x]) => Height[Parent[x]] \in T
      BY <1>6, Zenon
    <2> HIDE DEF Bad, T
    <2> QED  BY <1>2, <1>3, <1>6, <2>1
  <1>8. y = Parent[x] \/ (Height[y] < Height[Parent[x]] /\ Work[y] < Work[Parent[x]])
    BY <1>6, <1>7, ZenonT(60)
  <1> HIDE DEF Bad, T
  <1> QED  BY <1>4, <1>6, <1>8

\* A nonempty part of a chain has a lowest block.
LEMMA LowestOf ==
  ASSUME NEW b \in Blocks, NEW S \in SUBSET Chain[b], S # {}
  PROVE  \E x \in S : S \cap Chain[x] = {x}
  <1> DEFINE T == {Height[x] : x \in S}
  <1>1. S \subseteq Blocks
    BY ChainAssumption, Zenon
  <1>2. T \in SUBSET Nat /\ T # {}
    BY <1>1, HeightAssumption, ZenonT(60)
  <1>3. PICK n \in T : \A m \in T : n <= m
    BY <1>2, LeastNumber, ZenonT(60)
  <1>4. PICK x \in S : Height[x] = n
    BY Zenon
  <1>5. ASSUME NEW y \in S \cap Chain[x], y # x
        PROVE  FALSE
    <2>1. Height[y] < Height[x] /\ Height[y] \in Nat /\ Height[x] \in Nat
      BY <1>1, <1>5, HeightsGrow, HeightAssumption, ZenonT(60)
    <2> QED  BY <1>3, <1>4, <2>1
  <1>6. x \in Chain[x]
    BY <1>1, ChainAssumption, ZenonT(60)
  <1> QED  BY <1>5, <1>6, ZenonT(60)

\* A nonempty part of a chain has a highest block.
LEMMA HighestOf ==
  ASSUME NEW b \in Blocks, NEW S \in SUBSET Chain[b], S # {}
  PROVE  \E x \in S : S \subseteq Chain[x]
  <1> DEFINE T == {Height[b] - Height[x] : x \in S}
  <1>1. S \subseteq Blocks
    BY ChainAssumption, Zenon
  <1>2. \A x \in S : Height[x] \in Nat /\ Height[b] \in Nat /\ Height[x] <= Height[b]
    BY <1>1, HeightsGrow, HeightAssumption
  <1>3. T \in SUBSET Nat /\ T # {}
    BY <1>2
  <1>4. PICK n \in T : \A m \in T : n <= m
    BY <1>3, LeastNumber, ZenonT(60)
  <1>5. PICK x \in S : Height[b] - Height[x] = n
    BY Zenon
  <1>6. ASSUME NEW y \in S, y \notin Chain[x]
        PROVE  FALSE
    <2>1. x \in Chain[y] /\ x # y
      BY <1>1, <1>6, ChainAssumption, ZenonT(60)
    <2>2. Height[x] < Height[y]
      BY <1>1, <2>1, HeightsGrow, ZenonT(60)
    <2>3. Height[b] - Height[y] \in T
      BY Zenon
    <2> HIDE DEF T
    <2> QED  BY <1>2, <1>4, <1>5, <2>2, <2>3
  <1> QED  BY <1>6, ZenonT(60)

\* A finite set of blocks has a best one.
LEMMA BestBlock ==
  ASSUME NEW s \in [Blocks -> Nat], NEW S \in SUBSET Blocks, S # {}, IsFiniteSet(S)
  PROVE  \E x \in S : \A y \in S : ~Worse(x, y, s)
  <1> DEFINE Better(x) == {y \in S : Worse(x, y, s)}
             C == {Better(x) : x \in S}
  <1>1. C # {} /\ C \in SUBSET (SUBSET S)
    BY Zenon
  <1>2. PICK T \in C : \A U \in C : U \subseteq T => U = T
    <2> HIDE DEF C
    <2> QED  BY <1>1, LeastSet
  <1>3. PICK x \in S : T = Better(x)
    BY Zenon
  <1>4. ASSUME NEW y \in S, Worse(x, y, s)
        PROVE  FALSE
    <2>1. y \in Better(x) /\ y \notin Better(y)
      BY <1>4, WorseOrder, ZenonT(60)
    <2>2. Better(y) \subseteq Better(x)
      BY <1>4, WorseOrder, ZenonT(60)
    <2>3. Better(y) \in C
      BY Zenon
    <2> HIDE DEF C, Better
    <2> QED  BY <1>2, <1>3, <2>1, <2>2, <2>3, ZenonT(60)
  <1> QED  BY <1>4, Zenon

\* What the other modules assume of finite sets and of the tree.
LEMMA Facts == SetFacts /\ TreeFacts
  <1>1. SetFacts
    BY FS_Singleton, FS_AddElement, FS_Subset, FS_CardinalityType, ZenonT(60) DEF SetFacts
  <1>2. TreeFacts
    BY HeightsGrow, LowestOf, HighestOf, ZenonT(60) DEF TreeFacts
  <1> QED  BY <1>1, <1>2, ZenonT(60)

-----------------------------------------------------------------------------
(* The active chain. *)

LEMMA SpecInv == ASSUME RestartsApart PROVE Spec => [](Inv /\ (fPruneMode \/ DataInv))
  <1>1. Init => Inv /\ (fPruneMode \/ DataInv)
    BY InitInv, InitLinks, Facts, ZenonT(60)
  <1>2. Inv /\ (fPruneMode \/ DataInv) /\ [Next]_vars => Inv'
    BY NextInv, Facts, ZenonT(60)
  <1>3. Inv /\ (fPruneMode \/ DataInv) /\ [Next]_vars => (fPruneMode \/ DataInv)'
    BY NextData, Facts, ZenonT(60)
  <1> QED  BY <1>1, <1>2, <1>3, PTL DEF Spec

\* Every variable of the block index keeps its type, through reorganisations, flushes, stops
\* at any point and RewindBlockIndex.
THEOREM TypeCorrect == ASSUME RestartsApart PROVE Spec => []TypeOK
  BY SpecInv, PTL DEF Inv

\* mapBlockIndex never holds a block without its parent: what LoadBlockIndexDB reads back is
\* a tree, and RewindBlockIndex never erases an entry below one it keeps.
THEOREM IndexStaysClosed == ASSUME RestartsApart PROVE Spec => []IndexClosed
  <1>1. Inv => IndexClosed
    BY Zenon DEF Inv, IndexInv
  <1> QED  BY <1>1, SpecInv, PTL

\* The active chain between two operations consists of blocks that ConnectBlock accepted, that
\* are not marked, and that obey the rules of the running release: after an upgrade
\* RewindBlockIndex leaves no block that was connected under the old rules at a height where
\* the new ones apply.  A node that prunes can lose the undo data of a block, and
\* invalidateblock of one such leaves it in the chain, marked: so the theorem is about a node
\* that does not prune, or on which no block is invalidated by hand.
THEOREM ActiveChainValid == ASSUME RestartsApart, UndoThere PROVE Spec => []ActiveValid
  <1>1. ASSUME Inv
        PROVE  ActiveValid
    <2> SUFFICES ASSUME job = Idle, NEW x \in Chain[tip] \ {Genesis}
                 PROVE  SCRIPTS \in status[x] /\ ~Failed(status[x]) /\ ~Fails(x)
      BY Zenon DEF ActiveValid
    <2>1. job.op = "idle" /\ x \in Blocks
      BY <1>1, ChainAssumption, ZenonT(60) DEF Idle, Inv, TypeOK
    <2>2. SCRIPTS \in status[x] /\ ~Failed(status[x])
      BY <1>1, <2>1, ZenonT(60) DEF Inv, ActiveInv
    <2>3. x \notin InvalidBlocks
      BY <1>1, <2>1, <2>2, ZenonT(60) DEF Inv, FlagsInv
    <2>4. upgraded /\ Height[x] >= UpgradeHeight => x \notin InvalidIfUpgraded
      BY <1>1, <2>1, <2>2, ZenonT(60) DEF Inv, RulesInv
    <2> QED  BY <2>2, <2>3, <2>4, ZenonT(60) DEF Fails
  <1> QED  BY <1>1, SpecInv, PTL

-----------------------------------------------------------------------------
(* Marks, and the best chain. *)

LEMMA SpecMarks == ASSUME RestartsApart, FirstReconsidered PROVE Spec => [](Inv /\ MarksInv)
  <1>1. ASSUME Init
        PROVE  MarksInv
    <2>1. \A x \in Blocks : status[x] \subseteq {DATA, TRANSACTIONS}
      BY <1>1, Zenon DEF Init
    <2>2. \A x \in Blocks : FAILED_VALID \notin status[x] /\ ~Failed(status[x])
      BY <2>1, FlagNames, FailedFlags, ZenonT(60)
    <2>3. disk.status = status
      BY <1>1, Zenon DEF Init
    <2> QED  BY <2>2, <2>3, ZenonT(60) DEF MarksInv, MarksFit
  <1>2. Inv /\ MarksInv /\ [Next]_vars => MarksInv'
    BY NextMarks, Facts, ZenonT(60)
  <1> QED  BY <1>1, <1>2, SpecInv, PTL DEF Spec

\* The marks of a block always have a reason below it: neither FindMostWorkChain,
\* invalidateblock and reconsiderblock, nor a start on index entries of which some were
\* written before others, leave a valid block marked for no block that is invalid.
THEOREM MarksHaveReason == ASSUME RestartsApart, FirstReconsidered PROVE Spec => []FailedMask
  <1>1. Inv /\ MarksInv => FailedMask
    BY Zenon DEF Inv, TypeOK, MarksInv, MarksFit, FailedMask, HasFailedAncestor
  <1> QED  BY <1>1, SpecMarks, PTL

LEMMA SpecLinks == ASSUME RestartsApart, ~fPruneMode PROVE Spec => [](Inv /\ DataInv /\ LinkInv)
  <1>1. Inv /\ DataInv /\ [Next]_vars => DataInv'
    BY NextData, Facts, ZenonT(60)
  <1>2. Inv /\ DataInv /\ LinkInv /\ [Next]_vars => LinkInv'
    BY NextLinks, Facts, ZenonT(60)
  <1> QED  BY <1>1, <1>2, InitLinks, SpecInv, PTL DEF Spec

\* On a node that does not prune, setBlockIndexCandidates never holds a block that lacks
\* data below it, or one that is worse than the tip, when cs_main is released: not after a
\* disconnected tip, a failed step, invalidateblock or a rewind either.
THEOREM CandidatesAlwaysSound ==
  ASSUME RestartsApart, ~fPruneMode
  PROVE  Spec => []CandidatesSound
  <1>1. Inv /\ DataInv /\ LinkInv => CandidatesSound
    BY DEF LinkInv, CandidatesSound, Idle
  <1> QED  BY <1>1, SpecLinks, PTL

LEMMA SpecFloor ==
  ASSUME RestartsApart, FirstReconsidered, ~fPruneMode
  PROVE  Spec => [](Inv /\ DataInv /\ LinkInv /\ MarksInv /\ FloorInv)
  <1>1. Inv /\ Inv' /\ DataInv /\ LinkInv /\ MarksInv /\ FloorInv /\ [Next]_vars => FloorInv'
    BY NextFloor, Facts, ZenonT(60)
  <1>2. Init => FloorInv
    BY InitFloor, Facts, ZenonT(60)
  <1> QED  BY <1>1, <1>2, SpecMarks, SpecLinks, PTL DEF Spec

\* On a node that does not prune, ActivateBestChain has nothing left to do only when the tip
\* is a candidate and no linked block behind valid blocks is better: candidates dropped for
\* a failed ancestor, pruned from the set or collected again never hide the best chain.
THEOREM BestChainChosen ==
  ASSUME RestartsApart, FirstReconsidered, ~fPruneMode
  PROVE  Spec => []BestChain
  <1>1. ASSUME Inv, DataInv, LinkInv, FloorInv
        PROVE  BestChain
    <2> SUFFICES ASSUME Settled, ~TipLeftInvalid
                 PROVE  /\ tip \in candidates
                        /\ \A x \in linked : BadOnPath(x) = {} => ~Worse(tip, x, seq)
      BY Zenon DEF BestChain
    <2>1. job = Idle /\ MostWork \subseteq {tip}
      BY Zenon DEF Settled
    <2>2. PICK f \in candidates : Floor(f)
      BY <1>1, <2>1, ZenonT(60) DEF FloorInv, Idle
    <2>3. /\ tip \in Blocks /\ f \in Blocks /\ f \in linked /\ seq \in [Blocks -> Nat]
          /\ candidates \subseteq known /\ candidates \subseteq Blocks /\ IsFiniteSet(known)
          /\ linked \subseteq Blocks /\ \A x \in candidates : ~Worse(x, tip, seq)
      BY <1>1, <2>1, <2>2, ZenonT(60) DEF Inv, TypeOK, IndexInv, LinkInv, Idle
    <2>4. \A x \in linked : \A y \in Chain[x] : y \in Blocks /\ DATA \in status[y]
      BY <1>1, <2>3, ChainAssumption, ZenonT(60) DEF LinkInv, DataInv, DataFit
    <2>5. f \in Usable
      BY <2>2, <2>3, <2>4, ZenonT(60) DEF Usable, BadOnPath, Floor
    <2>6. Usable \in SUBSET Blocks /\ IsFiniteSet(Usable)
      BY <2>3, FS_Subset, ZenonT(60) DEF Usable
    <2>7. PICK m \in Usable : \A y \in Usable : ~Worse(m, y, seq)
      BY <2>3, <2>5, <2>6, BestBlock, ZenonT(60)
    <2>8. m = tip
      BY <2>1, <2>7, ZenonT(60) DEF MostWork
    <2>9. f = tip
      BY <2>2, <2>5, <2>7, <2>8, ZenonT(60) DEF Floor
    <2>10. ASSUME NEW x \in linked, BadOnPath(x) = {}, Worse(tip, x, seq)
           PROVE  FALSE
      <3>1. x \in Blocks /\ x \in Chain[x] /\ x \notin Chain[tip]
        BY <2>3, <2>10, Facts, AncestorWorse, WorseOrder, ChainAssumption
      <3>2. ~Failed(status[x])
        BY <2>10, <3>1, ZenonT(60) DEF BadOnPath
      <3>3. x \in candidates
        BY <2>2, <2>9, <2>10, <3>2, ZenonT(60) DEF Floor
      <3>4. x \in Usable
        BY <2>10, <3>3, ZenonT(60) DEF Usable
      <3> QED  BY <2>7, <2>8, <2>10, <3>4, ZenonT(60)
    <2> QED  BY <2>9, <2>10, ZenonT(60)
  <1> QED  BY <1>1, SpecFloor, PTL

-----------------------------------------------------------------------------
(* Restarts, and blocks that wait for data. *)

\* On a node that does not prune, a chainstate on disk always comes with the index entries
\* of its whole chain, connected and with undo data, as long as the node could start at all:
\* FlushStateToDisk writes the index first, wherever in an operation it is called.
THEOREM DiskHoldsChain ==
  ASSUME RestartsApart, ~fPruneMode
  PROVE  Spec => [](Starts => DiskChain)
  <1>1. ASSUME Inv, DataInv, Starts
        PROVE  DiskChain
    <2> SUFFICES ASSUME job.op # "flush", NEW x \in Chain[disk.tip] \ {Genesis}
                 PROVE  x \in disk.index \cap disk.received /\ {SCRIPTS, DATA, UNDO} \subseteq disk.status[x]
      BY Zenon DEF DiskChain
    <2>1. disk.tip \in disk.index /\ x \in Blocks /\ SCRIPTS \in disk.status[x]
      BY <1>1, ChainAssumption, ZenonT(60) DEF Starts, Inv, DiskInv, DiskFits, TypeOK
    <2>2. x \in disk.received /\ x \in disk.index
      BY <1>1, <2>1, ZenonT(60) DEF Inv, DiskInv, DiskFits, FlagsInv
    <2> QED  BY <1>1, <2>1, <2>2, ZenonT(60) DEF DataInv, DataFit
  <1> QED  BY <1>1, SpecLinks, PTL

\* A node that does not prune, and on which no block is invalidated by hand, starts on
\* whatever a stop left on disk, at any point of any operation, unless RewindBlockIndex
\* itself was stopped between erasing entries and writing the chainstate.
THEOREM RestartGoesOn ==
  ASSUME ~fPruneMode, Invalidated = {}
  PROVE  Spec => [][Restart /\ Starts /\ job.op # "flush" => Starts']_vars
  <1>1. RestartsApart
    BY Zenon DEF RestartsApart
  <1>2. ASSUME Inv, Restart, Starts, job.op # "flush"
        PROVE  Starts'
    BY <1>2, RestartStarts, ZenonT(60) DEF Starts, Inv, DiskInv
  <1>3. Inv => [Restart /\ Starts /\ job.op # "flush" => Starts']_vars
    BY <1>2, Zenon
  <1> QED  BY <1>1, <1>3, SpecInv, PTL

\* If no upgrade makes RewindBlockIndex erase connected blocks, or the node is stopped only
\* once, it always starts: the assertion of LoadBlockIndexDB that a candidate is left, and
\* the lookup of the best block of the chainstate, never fail.
THEOREM AlwaysStarts ==
  ASSUME ~fPruneMode, Invalidated = {}, RewindUndisturbed
  PROVE  Spec => [](Starts /\ DiskChain)
  <1>1. RestartsApart
    BY Zenon DEF RestartsApart
  <1>2. Init => StartInv
    <2>1. Init => job.op = "idle" /\ disk.tip = Genesis /\ disk.index = {Genesis}
      BY DEF Init, Idle
    <2> QED  BY <2>1, Zenon DEF StartInv, Starts
  <1>3. Inv /\ Inv' /\ StartInv /\ [Next]_vars => StartInv'
    BY <1>1, NextStart, Facts, ZenonT(60)
  <1>4. StartInv => Starts
    BY Zenon DEF StartInv
  <1>5. Spec => [](Starts => DiskChain)
    BY <1>1, DiskHoldsChain, ZenonT(60)
  <1>6. Spec => []Inv
    BY <1>1, SpecInv, PTL
  <1> QED  BY <1>2, <1>3, <1>4, <1>5, <1>6, PTL DEF Spec

\* As long as invalidateblock is not called for a block that waits in mapBlocksUnlinked, and
\* reconsiderblock is not called, mapBlocksUnlinked is exact with and without pruning: what
\* ReceivedBlockTransactions, FindMostWorkChain, PruneOneBlockFile, LoadBlockIndexDB and
\* RewindBlockIndex do to it agrees, in every order of arrivals.
THEOREM UnlinkedIsExact ==
  ASSUME RestartsApart
  PROVE  Spec /\ [][CallsForLinked]_vars => []UnlinkedExact
  <1>1. Inv /\ WaitInv => UnlinkedExact
    <2> SUFFICES ASSUME Inv, WaitInv
                 PROVE  UnlinkedExact
      BY Zenon
    <2>1. \A x \in received \ linked : x # Genesis /\ Parent[x] \in Chain[x]
      BY ChainAssumption, ParentAssumption DEF WaitInv, ChainTxInv, Inv, TypeOK
    <2>2. \A x \in received \ linked : DATA \in status[x] /\ ~HasFailedAncestor(x) => x \in unlinked
      BY <2>1, Zenon DEF WaitInv, UnlinkedInv, Stuck, HasFailedAncestor
    <2>3. \A x \in unlinked : DATA \in status[x] /\ HasMissingAncestor(x)
      BY Zenon DEF WaitInv, UnlinkedInv, Waits, HasMissingAncestor
    <2> QED  BY <2>2, <2>3, ZenonT(60) DEF UnlinkedExact
  <1>2. Inv /\ (fPruneMode \/ DataInv) /\ WaitInv /\ [Next]_vars /\ [CallsForLinked]_vars => WaitInv'
    BY NextWait, Facts, ZenonT(60)
  <1> QED  BY <1>1, <1>2, InitWait, SpecInv, PTL DEF Spec

=============================================================================
