-------------------------- MODULE ChainStateProofs --------------------------
(* Steps of ChainState, for any tree of blocks: each keeps the invariant that says that the  *)
(* index is a tree, the active chain is valid and what is on disk fits; and nChainTx and     *)
(* mapBlocksUnlinked: blocks whose data is complete are linked, and blocks that wait for     *)
(* data are in mapBlocksUnlinked.                                                            *)
EXTENDS ChainTreeProofs

\* The time that the prover has for a step.
USE SMTT(30)

-----------------------------------------------------------------------------
(* Steps in memory. *)

\* DisconnectTip moves pcoinsTip to the parent of the tip, or stops the node, or ends the step.
LEMMA DisconnectTipCases ==
  ASSUME DisconnectTip
  PROVE  \/ coins' = Parent[tip] /\ job' = job
         \/ coins' = coins /\ job' = Job("shutdown", Genesis, Genesis)
         \/ coins' = coins /\ job' = Idle /\ job.op # "rewind" /\ UNDO \notin status[tip]
  BY Zenon DEF DisconnectTip, StartShutdown

LEMMA DisconnectTipInv ==
  ASSUME Inv, DisconnectTip, coins = tip, tip # Genesis, job.op \in {"step", "rewind"},
         UNCHANGED <<index, candidates, unlinked, tip, dirty, disk, upgraded, calls, restarts>>
  PROVE  Inv'
  <1>1. \/ coins' = Parent[tip] /\ job' = job
        \/ coins' = coins /\ job' = Job("shutdown", Genesis, Genesis)
        \/ coins' = coins /\ job' = Idle /\ job.op = "step"
    BY DisconnectTipCases, Zenon
  <1>2. /\ tip \in Blocks \ {Genesis} /\ Parent[tip] \in Blocks /\ Chain[Parent[tip]] \subseteq Chain[tip]
        /\ Parent[tip] \in Chain[tip] /\ tip \in known /\ Parent[tip] \in known
    BY ParentAssumption, ChainAssumption DEF Inv, TypeOK, ActiveInv, IndexInv, IndexClosed
  <1>3. TypeOK'
    <2>1. job' \in [op : Ops, target : Blocks, old : Blocks] /\ coins' \in Blocks
      BY <1>1, <1>2, ParentAssumption DEF Job, Idle, Ops, Inv, TypeOK
    <2> QED  BY <2>1, Zenon DEF index, Inv, TypeOK
  <1>4. job'.op \in {job.op, "shutdown"} \/ (job'.op = "idle" /\ job.op = "step")
    BY <1>1 DEF Job, Idle
  <1>5. IndexInv'
    BY <1>4, Zenon DEF index, Inv, IndexInv, IndexClosed
  <1>6. ActiveInv'
    <2>1. CASE coins' = Parent[tip] /\ job' = job
      BY <1>2, <2>1, Zenon DEF index, Inv, ActiveInv
    <2>2. CASE coins' = coins /\ job' = Job("shutdown", Genesis, Genesis)
      BY <2>2, Zenon DEF index, Inv, ActiveInv, Job
    <2>3. CASE coins' = coins /\ job' = Idle /\ job.op = "step"
      BY <2>3, Zenon DEF index, Inv, ActiveInv, Idle
    <2> QED  BY <1>1, <2>1, <2>2, <2>3, Zenon
  <1>7. WorkInv'
    <2>1. job'.op = "step" => job' = job
      BY <1>1 DEF Job, Idle
    <2> QED  BY <2>1, Zenon DEF Inv, WorkInv
  <1>8. FlagsInv(status, received)' /\ RulesInv' /\ DiskInv'
    BY <1>4, FlagsKept, Zenon DEF index, Inv, RulesInv
  <1> QED  BY <1>3, <1>5, <1>6, <1>7, <1>8, Zenon DEF Inv

LEMMA StepDisconnectInv ==
  ASSUME Inv, StepDisconnect
  PROVE  Inv'
  BY DisconnectTipInv, ChainAssumption, ZenonT(60) DEF StepDisconnect, Inv, TypeOK

\* ConnectTip of a valid block: it builds on connected blocks, and activates the upgrade when
\* it has the height for it.
LEMMA StepConnectInv ==
  ASSUME TreeFacts, Inv, StepConnect
  PROVE  Inv'
  <1> DEFINE b == NextTowards(tip, job.target)
  <1>1. /\ job.op = "step" /\ coins = tip /\ tip \in Chain[job.target] /\ ~Fails(b) /\ coins' = b
        /\ status' = [status EXCEPT ![b] = ConnectedFlags(b)]
        /\ dirty' = IF ConnectedFlags(b) = status[b] THEN dirty ELSE dirty \cup {b}
        /\ UNCHANGED <<known, received, linked, seq, nBlockSequenceId, candidates, unlinked, tip,
                       disk, job, upgraded, calls, restarts>>
    BY Zenon DEF StepConnect
  <1>2. /\ b \in Blocks \ {Genesis} /\ b \in known /\ b \in received /\ (UndoThere => ~Failed(status[b]))
        /\ b \in Chain[job.target] /\ b \notin Chain[tip] /\ Parent[b] = tip
        /\ Chain[b] = Chain[tip] \cup {b}
        /\ tip \in known /\ job.target \in known
        /\ \A x \in Chain[tip] : (UndoThere => ~Failed(status[x])) /\ (x = Genesis \/ SCRIPTS \in status[x])
    BY <1>1, NextBlock, Zenon
  <1> HIDE DEF b
  <1>3. /\ SCRIPTS \in ConnectedFlags(b) /\ UNDO \in ConnectedFlags(b)
        /\ \A f \in status[b] : f \in ConnectedFlags(b)
        /\ \A f \in ConnectedFlags(b) : f \in status[b] \/ f \in {UNDO, SCRIPTS, ACTIVATES}
        /\ ACTIVATES \in ConnectedFlags(b) => ACTIVATES \in status[b] \/ (upgraded /\ Height[b] = UpgradeHeight)
        /\ upgraded /\ Height[b] = UpgradeHeight => SCRIPTS \in status[b] \/ ACTIVATES \in ConnectedFlags(b)
    BY FlagNames, Zenon DEF ConnectedFlags
  <1>4. \A x \in Blocks : x # b => status'[x] = status[x]
    BY <1>1, Zenon DEF Inv, TypeOK
  <1>5. status'[b] = ConnectedFlags(b)
    BY <1>1, <1>2, Zenon DEF Inv, TypeOK
  <1>6. \A x \in Blocks : Failed(status'[x]) <=> Failed(status[x])
    BY <1>3, <1>4, <1>5, FlagNames, FailedFlags
  <1>7. TypeOK'
    <2>1. ConnectedFlags(b) \subseteq Flags
      BY <1>2, <1>3, FlagNames, Zenon DEF Inv, TypeOK
    <2>2. status' \in [Blocks -> SUBSET Flags]
      BY <1>1, <2>1, Zenon DEF Inv, TypeOK
    <2> QED  BY <1>1, <1>2, <2>2, Zenon DEF Inv, TypeOK
  <1>8. IndexInv'
    BY <1>1, <1>2, <1>4, Zenon DEF Inv, IndexInv, IndexClosed
  <1>9. \A x \in Blocks : SCRIPTS \in status'[x] <=> SCRIPTS \in status[x] \/ x = b
    BY <1>3, <1>4, <1>5, Zenon
  <1>10. \A y \in Chain[b] \ {Genesis} : SCRIPTS \in status'[y]
    BY <1>2, <1>9, ChainAssumption, Zenon
  <1>11. FlagsInv(status, received)'
    <2>1. \A x \in Blocks : /\ x \in received' => TRANSACTIONS \in status'[x]
                            /\ DATA \in status'[x] => x \in received'
      BY <1>1, <1>2, <1>3, <1>4, <1>5, FlagNames, ZenonT(60) DEF Inv, FlagsInv
    <2>2. \A x \in Blocks : SCRIPTS \in status'[x] =>
             /\ x \in received' /\ x \notin InvalidBlocks
             /\ \A y \in Chain[x] \ {Genesis} : SCRIPTS \in status'[y]
      BY <1>1, <1>2, <1>9, <1>10, ChainAssumption, ZenonT(60) DEF Inv, FlagsInv, Fails
    <2>3. \A x \in Blocks : ACTIVATES \in status'[x] =>
             upgraded /\ Height[x] = UpgradeHeight /\ SCRIPTS \in status'[x]
      BY <1>2, <1>3, <1>4, <1>5, <1>9, ZenonT(60) DEF Inv, FlagsInv
    <2>4. Invalidated = {} => \A x \in Blocks : SCRIPTS \in status'[x] => ~Failed(status'[x])
      BY <1>2, <1>6, <1>9, Zenon DEF Inv, FlagsInv, UndoThere
    <2> QED  BY <1>1, <1>2, <1>6, <2>1, <2>2, <2>3, <2>4, ParentAssumption, ZenonT(60) DEF Inv, FlagsInv
  <1>12. RulesInv'
    <2>1. ASSUME NEW x \in Blocks, SCRIPTS \in status[x], upgraded, Height[x] >= UpgradeHeight
          PROVE  \E y \in Chain[x] : ACTIVATES \in status[y]
      BY <1>1, <2>1, Zenon DEF Inv, RulesInv
    <2>2. \A x \in Blocks : \A y \in Chain[x] : Height[x] \in Nat /\ Height[y] \in Nat /\ Height[y] <= Height[x]
      BY AncestorBelow, HeightAssumption, ChainAssumption
    <2>3. ASSUME NEW x \in Blocks, SCRIPTS \in status'[x], NEW y \in Chain[x], ACTIVATES \in status'[y],
                 x \in InvalidIfUpgraded
          PROVE  FALSE
      <3>1. upgraded /\ Height[y] = UpgradeHeight /\ Height[x] >= UpgradeHeight
        BY <1>1, <1>11, <2>2, <2>3, ChainAssumption, LimitsAssumption DEF FlagsInv
      <3>2. x # b
        BY <1>1, <2>3, <3>1, Zenon DEF Fails
      <3>3. SCRIPTS \in status[x]
        BY <1>9, <2>3, <3>2, Zenon
      <3>4. \E z \in Chain[x] : ACTIVATES \in status[z]
        BY <2>1, <3>1, <3>3, Zenon
      <3> QED  BY <2>3, <3>3, <3>4, Zenon DEF Inv, RulesInv
    <2>4. ASSUME NEW x \in Blocks, SCRIPTS \in status'[x], upgraded, Height[x] >= UpgradeHeight
          PROVE  \E y \in Chain[x] : ACTIVATES \in status'[y]
      <3>1. CASE SCRIPTS \in status[x]
        BY <1>3, <1>4, <1>5, <2>1, <2>4, <3>1, ChainAssumption
      <3>2. CASE SCRIPTS \notin status[x] /\ Height[x] = UpgradeHeight
        BY <1>3, <1>4, <1>5, <1>9, <2>4, <3>2, ChainAssumption, ZenonT(60)
      <3>3. CASE SCRIPTS \notin status[x] /\ Height[x] # UpgradeHeight
        <4>1. x = b
          BY <1>9, <2>4, <3>3, Zenon
        <4>2. Height[tip] >= UpgradeHeight /\ tip # Genesis /\ tip \in Blocks
          BY <1>2, <2>4, <3>3, <4>1, HeightAssumption, LimitsAssumption DEF Inv, TypeOK
        <4>3. SCRIPTS \in status[tip]
          BY <1>2, <4>2, ChainAssumption, Zenon
        <4>4. PICK y \in Chain[tip] : ACTIVATES \in status[y]
          BY <2>1, <2>4, <4>2, <4>3, Zenon
        <4>5. y # b /\ y \in Blocks /\ y \in Chain[x]
          BY <1>2, <4>1, <4>2, ChainAssumption, Zenon
        <4> QED  BY <1>4, <4>4, <4>5, Zenon
      <3> QED  BY <3>1, <3>2, <3>3, Zenon
    <2> QED  BY <1>1, <2>3, <2>4, Zenon DEF Inv, RulesInv
  <1>13. ActiveInv'
    <2>1. \A x \in Chain[tip] \cup Chain[b] : (UndoThere => ~Failed(status'[x])) /\ (x = Genesis \/ SCRIPTS \in status'[x])
      BY <1>2, <1>6, <1>10, ChainAssumption, Zenon
    <2>2. \A x \in Chain[job.target] : x \in received /\ (UndoThere => ~Failed(status'[x]))
      BY <1>1, <1>6, ChainAssumption, Zenon DEF Inv, ActiveInv, TypeOK
    <2> QED  BY <1>1, <1>2, <2>1, <2>2, Zenon DEF ActiveInv
  <1>14. WorkInv'
    BY <1>1, Zenon DEF Inv, WorkInv
  <1>15. DiskInv'
    BY <1>1, <1>3, <1>4, <1>5, DiskKept, Zenon
  <1> QED  BY <1>7, <1>8, <1>11, <1>12, <1>13, <1>14, <1>15, Zenon DEF Inv

\* ConnectTip of an invalid block, which was never connected under the rules now in force.
LEMMA StepInvalidInv ==
  ASSUME TreeFacts, Inv, StepInvalid
  PROVE  Inv'
  <1> DEFINE b == NextTowards(tip, job.target)
  <1>1. /\ job.op = "step" /\ coins = tip /\ tip \in Chain[job.target] /\ Fails(b)
        /\ status' = [status EXCEPT ![b] = @ \cup {FAILED_VALID}]
        /\ dirty' = dirty \cup {b} /\ candidates' = candidates \ {b} /\ job' = Idle
        /\ UNCHANGED <<known, received, linked, seq, nBlockSequenceId, unlinked, tip, coins, disk,
                       upgraded, calls, restarts>>
    BY Zenon DEF StepInvalid, InvalidBlockFound
  <1>2. /\ b \in Blocks \ {Genesis} /\ b \in known /\ b \in Chain[job.target] /\ b \notin Chain[tip]
        /\ tip \in known
        /\ \A x \in Chain[tip] : (UndoThere => ~Failed(status[x])) /\ (x = Genesis \/ SCRIPTS \in status[x])
    BY <1>1, NextBlock, Zenon
  <1> HIDE DEF b
  <1>3. SCRIPTS \notin status[b]
    BY <1>1, <1>2, Zenon DEF Fails, Inv, FlagsInv, RulesInv
  <1>4. \A x \in Blocks : x # b => status'[x] = status[x]
    BY <1>1, Zenon DEF Inv, TypeOK
  <1>5. status'[b] = status[b] \cup {FAILED_VALID}
    BY <1>1, <1>2, Zenon DEF Inv, TypeOK
  <1>6. TypeOK'
    <2>1. status' \in [Blocks -> SUBSET Flags]
      BY <1>1, FlagNames, Zenon DEF Inv, TypeOK
    <2>2. job' \in [op : Ops, target : Blocks, old : Blocks]
      BY <1>1, ParentAssumption, Zenon DEF Idle, Ops
    <2> QED  BY <1>1, <1>2, <2>1, <2>2, Zenon DEF Inv, TypeOK
  <1>7. job'.op = "idle"
    BY <1>1, Zenon DEF Idle
  <1>8. IndexInv'
    BY <1>1, <1>2, <1>4, <1>7, Zenon DEF Inv, IndexInv, IndexClosed
  <1>9. \A x \in Chain[tip] : status'[x] = status[x]
    BY <1>2, <1>4, ChainAssumption, ZenonT(60) DEF Inv, TypeOK
  <1>10. ActiveInv'
    BY <1>1, <1>2, <1>7, <1>9, Zenon DEF ActiveInv
  <1>11. WorkInv'
    BY <1>1, <1>7, Zenon DEF Inv, WorkInv
  <1>12. FlagsInv(status, received)' /\ RulesInv' /\ DiskInv'
    BY <1>1, <1>2, <1>3, <1>4, <1>5, <1>7, FlagsKept, FlagNames, Zenon DEF Inv, RulesInv
  <1> QED  BY <1>6, <1>8, <1>10, <1>11, <1>12, Zenon DEF Inv

LEMMA UpdateTipInv ==
  ASSUME Inv, UpdateTip
  PROVE  Inv'
  <1>1. /\ tip' = coins
        /\ UNCHANGED <<index, unlinked, coins, dirty, disk, upgraded, calls, restarts>>
    BY Zenon DEF UpdateTip
  <1>2. /\ coins \in known /\ tip \in known /\ coins \in Blocks
        /\ \A x \in Chain[coins] : x = Genesis \/ SCRIPTS \in status[x]
    BY UpdateTipCases, Zenon DEF Inv, ActiveInv, TypeOK
  <1>3. CASE /\ job.op = "step" /\ coins # Genesis /\ tip = Parent[coins] /\ coins \in Chain[job.target]
             /\ tip \in Chain[coins] /\ candidates' = Pruned(candidates, coins)
             /\ job' = IF Work[coins] > Work[job.old] \/ coins = job.target THEN Idle ELSE job
    <2>1. job' \in {Idle, job} /\ (job' = job \/ job'.op = "idle") /\ (job'.op = "step" => coins # job.target)
      BY <1>3, Zenon DEF Idle
    <2>2. TypeOK'
      <3>1. job' \in [op : Ops, target : Blocks, old : Blocks]
        BY <2>1, ParentAssumption DEF Idle, Ops, Inv, TypeOK
      <3>2. candidates' \subseteq candidates
        BY <1>3, Zenon DEF Pruned
      <3> QED  BY <1>1, <1>2, <3>1, <3>2, Zenon DEF index, Inv, TypeOK
    <2>3. job'.op \in {"idle", "step"}
      BY <1>3, <2>1, Zenon
    <2>4. IndexInv'
      BY <1>1, <2>3, Zenon DEF index, Inv, IndexInv, IndexClosed
    <2>5. ActiveInv'
      BY <1>1, <1>2, <1>3, <2>1, <2>3, Zenon DEF index, Inv, ActiveInv, Idle
    <2>6. WorkInv'
      <3>1. \A x \in candidates' : Work[coins] <= Work[x]
        BY <1>2, <1>3, NotWorse, Zenon DEF Pruned, Inv, TypeOK
      <3>2. coins # job.target => job.target \notin Chain[coins]
        BY <1>2, <1>3, ChainAntisymmetric, Zenon DEF Inv, TypeOK
      <3> QED  BY <1>1, <2>1, <2>3, <3>1, <3>2, Zenon DEF WorkInv
    <2>7. FlagsInv(status, received)' /\ RulesInv' /\ DiskInv'
      BY <1>1, <1>3, FlagsKept, Zenon DEF index, Inv, RulesInv
    <2> QED  BY <2>2, <2>4, <2>5, <2>6, <2>7, Zenon DEF Inv
  <1>4. CASE /\ job.op \in {"step", "invalidate", "rewind"} /\ tip # Genesis /\ coins = Parent[tip]
             /\ Chain[tip] = Chain[coins] \cup {tip} /\ tip \notin Chain[coins]
             /\ job.op = "invalidate" => job.target \in Chain[tip]
             /\ candidates' = candidates /\ job' = job
    <2>1. TypeOK'
      BY <1>1, <1>2, <1>4, Zenon DEF index, Inv, TypeOK
    <2>2. IndexInv'
      BY <1>1, <1>4, Zenon DEF index, Inv, IndexInv, IndexClosed
    <2>3. ActiveInv'
      <3>1. job.op = "rewind" => coins \in Chain[job.old]
        BY <1>2, <1>4, ChainAssumption, Zenon DEF Inv, ActiveInv, TypeOK
      <3> QED  BY <1>1, <1>2, <1>4, <3>1, Zenon DEF index, Inv, ActiveInv
    <2>4. WorkInv'
      <3>1. /\ Work[coins] < Work[tip] /\ Work[coins] \in Nat /\ Work[tip] \in Nat
            /\ \A x \in candidates : Work[x] \in Nat /\ Work[tip] <= Work[x]
        BY <1>2, <1>4, WorkAssumption, UpdateTipCases, Zenon DEF Inv, WorkInv, TypeOK
      <3>2. \A x \in candidates : Work[coins] <= Work[x]
        BY <3>1
      <3> QED  BY <1>1, <1>4, <3>2, Zenon DEF Inv, WorkInv
    <2>5. FlagsInv(status, received)' /\ RulesInv' /\ DiskInv'
      BY <1>1, <1>4, FlagsKept, Zenon DEF index, Inv, RulesInv
    <2> QED  BY <2>1, <2>2, <2>3, <2>4, <2>5, Zenon DEF Inv
  <1> QED  BY <1>3, <1>4, UpdateTipCases, Zenon

LEMMA InvalidateBlockInv ==
  ASSUME Inv, NEW b \in Blocks \ {Genesis}, InvalidateBlock(b)
  PROVE  Inv'
  <1>1. /\ job = Idle /\ calls < MaxCalls /\ b \in known /\ b \in Invalidated
        /\ status' = [status EXCEPT ![b] = @ \cup {FAILED_VALID}]
        /\ dirty' = dirty \cup {b} /\ candidates' = candidates \ {b}
        /\ job' = Job("invalidate", b, tip) /\ calls' = calls + 1
        /\ UNCHANGED <<known, received, linked, seq, nBlockSequenceId, unlinked, tip, coins, disk,
                       upgraded, restarts>>
    BY Zenon DEF InvalidateBlock
  <1>2. \A x \in Blocks : x # b => status'[x] = status[x]
    BY <1>1, Zenon DEF Inv, TypeOK
  <1>3. status'[b] = status[b] \cup {FAILED_VALID}
    BY <1>1, Zenon DEF Inv, TypeOK
  <1>4. /\ job.op = "idle" /\ coins = tip /\ tip \in known /\ tip \in Blocks
        /\ \A x \in Chain[tip] : (UndoThere => ~Failed(status[x])) /\ (x = Genesis \/ SCRIPTS \in status[x])
    BY <1>1, Zenon DEF Inv, ActiveInv, TypeOK, Idle
  <1>5. job'.op = "invalidate" /\ job'.target = b
    BY <1>1, Zenon DEF Job
  <1>6. TypeOK'
    <2>1. status' \in [Blocks -> SUBSET Flags]
      BY <1>1, FlagNames, Zenon DEF Inv, TypeOK
    <2>2. job' \in [op : Ops, target : Blocks, old : Blocks]
      BY <1>1, <1>4, Zenon DEF Job, Ops
    <2>3. calls' \in 0..MaxCalls
      BY <1>1, LimitsAssumption DEF Inv, TypeOK
    <2> QED  BY <1>1, <2>1, <2>2, <2>3, Zenon DEF Inv, TypeOK
  <1>7. IndexInv'
    BY <1>1, <1>2, <1>5, Zenon DEF Inv, IndexInv, IndexClosed
  <1>8. ActiveInv'
    <2>1. \A x \in Chain[tip] : x = Genesis \/ SCRIPTS \in status'[x]
      BY <1>2, <1>3, <1>4, ChainAssumption, Zenon
    <2>2. UndoThere => \A x \in Chain[tip] : b \in Chain[x] \/ ~Failed(status'[x])
      BY <1>2, <1>4, ChainAssumption, Zenon
    <2> QED  BY <1>1, <1>3, <1>4, <1>5, <2>1, <2>2, Zenon DEF ActiveInv
  <1>9. WorkInv'
    BY <1>1, <1>4, <1>5, Zenon DEF Inv, WorkInv
  <1>10. FlagsInv(status, received)' /\ RulesInv' /\ DiskInv'
    BY <1>1, <1>2, <1>3, <1>4, <1>5, FlagsKept, FlagNames, Zenon DEF Inv, RulesInv
  <1> QED  BY <1>6, <1>7, <1>8, <1>9, <1>10, Zenon DEF Inv

LEMMA InvalidateDisconnectInv ==
  ASSUME Inv, fPruneMode \/ DataInv, InvalidateDisconnect
  PROVE  Inv'
  <1>1. /\ job.op = "invalidate" /\ coins = tip /\ job.target \in Chain[tip]
        /\ status' = [status EXCEPT ![tip] = @ \cup {FAILED_CHILD}]
        /\ dirty' = dirty \cup {tip} /\ candidates' = candidates \ {tip}
        /\ UNCHANGED <<known, received, linked, seq, nBlockSequenceId, unlinked, tip, disk,
                       upgraded, calls, restarts>>
        /\ \/ coins' = Parent[tip] /\ job' = job
           \/ coins' = coins /\ job' = Job("shutdown", Genesis, Genesis)
           \/ coins' = coins /\ job' = Idle /\ UNDO \notin status[tip]
    BY DisconnectTipCases, Zenon DEF InvalidateDisconnect
  <1>2. /\ tip \in known /\ tip \in Blocks /\ job.target \in Invalidated /\ job.target \in known
        /\ FAILED_VALID \in status[job.target] /\ job.target \in Blocks
        /\ \A x \in Chain[tip] : /\ x = Genesis \/ SCRIPTS \in status[x]
                                 /\ UndoThere => job.target \in Chain[x] \/ ~Failed(status[x])
    BY <1>1, Zenon DEF Inv, ActiveInv, TypeOK
  <1>3. tip # Genesis
    BY <1>1, <1>2, ChainAssumption, BlockSetsAssumption
  <1>4. /\ Parent[tip] \in Blocks /\ Parent[tip] \in known /\ Chain[Parent[tip]] \subseteq Chain[tip]
    BY <1>2, <1>3, ParentAssumption, ChainAssumption DEF Inv, IndexInv, IndexClosed
  <1>5. \A x \in Blocks : x # tip => status'[x] = status[x]
    BY <1>1, Zenon DEF Inv, TypeOK
  <1>6. status'[tip] = status[tip] \cup {FAILED_CHILD}
    BY <1>1, <1>2, Zenon DEF Inv, TypeOK
  <1>7. job'.op \in {job.op, "shutdown", "idle"}
    BY <1>1 DEF Job, Idle
  <1>8. TypeOK'
    <2>1. status' \in [Blocks -> SUBSET Flags]
      BY <1>1, FlagNames, Zenon DEF Inv, TypeOK
    <2>2. job' \in [op : Ops, target : Blocks, old : Blocks]
      BY <1>1, ParentAssumption DEF Job, Idle, Ops, Inv, TypeOK
    <2> QED  BY <1>1, <1>2, <1>4, <2>1, <2>2, Zenon DEF Inv, TypeOK
  <1>9. IndexInv'
    BY <1>1, <1>2, <1>5, <1>7, Zenon DEF Inv, IndexInv, IndexClosed
  <1>10. ActiveInv'
    <2>1. \A x \in Chain[tip] : /\ x = Genesis \/ SCRIPTS \in status'[x]
                                /\ UndoThere => job.target \in Chain[x] \/ ~Failed(status'[x])
      BY <1>1, <1>2, <1>5, <1>6, ChainAssumption, Zenon
    <2>2. FAILED_VALID \in status'[job.target]
      BY <1>2, <1>5, <1>6, Zenon
    <2>3. CASE coins' = Parent[tip] /\ job' = job
      BY <1>1, <1>2, <1>3, <1>4, <2>1, <2>2, <2>3, Zenon DEF ActiveInv
    <2>4. CASE coins' = coins /\ job' = Job("shutdown", Genesis, Genesis)
      BY <1>1, <1>2, <2>1, <2>4, Zenon DEF ActiveInv, Job
    <2>5. CASE coins' = coins /\ job' = Idle /\ UNDO \notin status[tip]
      <3>1. ~UndoThere
        BY <1>2, <1>3, <2>5, ChainAssumption, Zenon DEF UndoThere, DataInv, DataFit
      <3> QED  BY <1>1, <1>2, <2>1, <2>5, <3>1, Zenon DEF ActiveInv, Idle
    <2> QED  BY <1>1, <2>3, <2>4, <2>5, Zenon
  <1>11. WorkInv'
    BY <1>1, <1>7, Zenon DEF Inv, WorkInv
  <1>12. FlagsInv(status, received)' /\ RulesInv' /\ DiskInv'
    BY <1>1, <1>2, <1>3, <1>5, <1>6, <1>7, FlagsKept, FlagNames, Zenon DEF Inv, RulesInv
  <1> QED  BY <1>8, <1>9, <1>10, <1>11, <1>12, Zenon DEF Inv

LEMMA InvalidateDoneInv ==
  ASSUME Inv, InvalidateDone
  PROVE  Inv'
  <1>1. /\ job.op = "invalidate" /\ coins = tip /\ job.target \notin Chain[tip]
        /\ candidates' = candidates \cup AsGoodAsTip /\ job' = Idle
        /\ UNCHANGED <<index, unlinked, tip, coins, dirty, disk, upgraded, calls, restarts>>
    BY Zenon DEF InvalidateDone
  <1>2. job'.op = "idle" /\ tip \in Blocks
    BY <1>1, Zenon DEF Idle, Inv, TypeOK
  <1>3. UndoThere => \A x \in Chain[tip] : ~Failed(status[x])
    BY <1>1, <1>2, ChainAssumption DEF Inv, ActiveInv
  <1>4. TypeOK'
    <2>1. job' \in [op : Ops, target : Blocks, old : Blocks]
      BY <1>1, ParentAssumption, Zenon DEF Idle, Ops
    <2> QED  BY <1>1, <2>1, Zenon DEF index, AsGoodAsTip, Inv, TypeOK
  <1>5. IndexInv'
    BY <1>1, <1>2, Zenon DEF index, Inv, IndexInv, IndexClosed
  <1>6. ActiveInv'
    BY <1>1, <1>2, <1>3, Zenon DEF index, Inv, ActiveInv
  <1>7. WorkInv'
    <2>1. \A x \in AsGoodAsTip : Work[tip] <= Work[x]
      BY <1>2, NotWorse, Zenon DEF AsGoodAsTip, Inv, TypeOK
    <2> QED  BY <1>1, <1>2, <2>1, Zenon DEF Inv, WorkInv
  <1>8. FlagsInv(status, received)' /\ RulesInv' /\ DiskInv'
    BY <1>1, <1>2, FlagsKept, Zenon DEF index, Inv, RulesInv
  <1> QED  BY <1>4, <1>5, <1>6, <1>7, <1>8, Zenon DEF Inv

LEMMA ReconsiderBlockInv ==
  ASSUME Inv, NEW b \in Blocks \ {Genesis}, ReconsiderBlock(b)
  PROVE  Inv'
  <1> DEFINE below == InvalidBelow(b)
             above == {x \in Chain[b] : Failed(status[x])}
  <1>1. /\ job = Idle /\ calls < MaxCalls /\ b \in known
        /\ status' = [x \in Blocks |-> IF x \in below \cup above THEN status[x] \ FAILED_MASK ELSE status[x]]
        /\ dirty' = dirty \cup below \cup above /\ calls' = calls + 1
        /\ \A x \in candidates' : x \in candidates \/ (x \in known /\ Worse(tip, x, seq))
        /\ UNCHANGED <<known, received, linked, seq, nBlockSequenceId, unlinked, tip, coins, disk,
                       job, upgraded, restarts>>
    BY Zenon DEF ReconsiderBlock, InvalidBelow
  <1>2. below \subseteq known /\ above \subseteq known
    BY <1>1, Zenon DEF InvalidBelow, Inv, IndexInv, IndexClosed
  <1> HIDE DEF below, above
  <1>3. \A x \in Blocks : /\ \A f \in Flags : f \in status'[x] => f \in status[x]
                          /\ \A f \in Flags : f \in status[x] => f \in status'[x] \/ f \in FAILED_MASK
                          /\ Failed(status'[x]) => Failed(status[x])
                          /\ x \notin dirty' => status'[x] = status[x]
    BY <1>1, FailedFlags, Zenon
  <1>4. TypeOK'
    <2>1. status' \in [Blocks -> SUBSET Flags]
      BY <1>1, Zenon DEF Inv, TypeOK
    <2>2. calls' \in 0..MaxCalls
      BY <1>1, LimitsAssumption DEF Inv, TypeOK
    <2> QED  BY <1>1, <1>2, <2>1, <2>2, Zenon DEF Inv, TypeOK
  <1>5. IndexInv'
    <2>1. \A x \in Blocks \ known : status'[x] = status[x]
      BY <1>1, <1>2, Zenon
    <2> QED  BY <1>1, <2>1, Zenon DEF Inv, IndexInv, IndexClosed, Idle
  <1>6. \A x \in Blocks : /\ SCRIPTS \in status'[x] <=> SCRIPTS \in status[x]
                          /\ ACTIVATES \in status'[x] <=> ACTIVATES \in status[x]
                          /\ TRANSACTIONS \in status'[x] <=> TRANSACTIONS \in status[x]
                          /\ DATA \in status'[x] <=> DATA \in status[x]
    BY <1>3, FlagNames, Zenon DEF FAILED_MASK
  <1>7. ActiveInv'
    BY <1>1, <1>3, <1>6, IdleActive, ChainAssumption, ZenonT(60) DEF Inv, TypeOK
  <1>8. WorkInv'
    <2>1. \A x \in known : Worse(tip, x, seq) => Work[tip] <= Work[x]
      BY WorkAssumption DEF Worse, Inv, TypeOK
    <2> QED  BY <1>1, <2>1, Zenon DEF Inv, WorkInv, Idle
  <1>9. FlagsInv(status, received)' /\ RulesInv' /\ DiskInv'
    BY <1>1, <1>2, <1>3, <1>6, FlagsKept, Zenon DEF Inv, RulesInv, Idle, TypeOK
  <1> QED  BY <1>4, <1>5, <1>7, <1>8, <1>9, Zenon DEF Inv

-----------------------------------------------------------------------------
(* Writing to disk, and loading from it. *)

LEMMA FlushStateInv ==
  ASSUME Inv, NEW S \in PruneSets, FlushState(S)
  PROVE  Inv'
  <1>1. /\ disk' = FullFlush(S) /\ status' = PruneFlags(S) /\ unlinked' = PruneUnlinked(S) /\ dirty' = {}
        /\ UNCHANGED <<known, received, linked, seq, nBlockSequenceId, candidates, tip, coins, job,
                       upgraded, calls, restarts>>
    BY Zenon DEF FlushState
  <1>2. /\ job.op \notin {"flush", "aborted"} /\ coins \in known
        /\ \A x \in Chain[coins] \ {Genesis} : SCRIPTS \in status[x]
    BY MayFlushFits, Zenon DEF FlushState
  <1>3. \A x \in Blocks : /\ status'[x] \subseteq status[x]
                          /\ \A f \in Flags : f \in status[x] => f \in status'[x] \/ f \in {DATA, UNDO}
                          /\ Failed(status'[x]) <=> Failed(status[x])
    BY <1>1, PruneFlagsFit, Zenon
  <1>4. \A x \in Blocks : /\ SCRIPTS \in status'[x] <=> SCRIPTS \in status[x]
                          /\ ACTIVATES \in status'[x] <=> ACTIVATES \in status[x]
                          /\ TRANSACTIONS \in status'[x] <=> TRANSACTIONS \in status[x]
                          /\ FAILED_VALID \in status'[x] <=> FAILED_VALID \in status[x]
                          /\ DATA \in status'[x] => DATA \in status[x]
    BY <1>3, FlagNames, Zenon
  <1>5. disk' \in [index : SUBSET Blocks, received : SUBSET Blocks,
                   status : [Blocks -> SUBSET Flags], tip : Blocks] /\ disk'.tip = coins
        /\ disk'.index = disk.index \cup dirty \cup S
    BY <1>1, WriteIndexFits, Zenon
  <1>6. TypeOK'
    BY <1>1, <1>5, PruneFlagsFit, Zenon DEF PruneUnlinked, Inv, TypeOK
  <1>7. IndexInv'
    BY <1>1, <1>2, <1>3, Zenon DEF Inv, IndexInv, IndexClosed
  <1>8. FlagsInv(status, received)'
    BY <1>1, <1>3, <1>4, ParentAssumption, ChainAssumption, Zenon DEF Inv, FlagsInv
  <1>9. RulesInv'
    BY <1>1, <1>4, ChainAssumption, Zenon DEF Inv, RulesInv
  <1>10. ActiveInv'
    BY <1>1, <1>3, <1>4, ChainAssumption, ZenonT(60) DEF Inv, ActiveInv, TypeOK
  <1>11. WorkInv'
    BY <1>1, Zenon DEF Inv, WorkInv
  <1>12. DiskFits(FullFlush(S), PruneFlags(S), {})
    BY <1>1, <1>2, <1>5, Written, Zenon
  <1>13. disk'.tip \in disk'.index
    BY <1>2, <1>5, Zenon DEF Inv, DiskInv, DiskFits
  <1>14. DiskInv'
    BY <1>1, <1>12, <1>13, Zenon DEF DiskInv, DiskFits, FlagsInv
  <1> QED  BY <1>6, <1>7, <1>8, <1>9, <1>10, <1>11, <1>14, Zenon DEF Inv

LEMMA FlushIndexInv ==
  ASSUME Inv, FlushIndex
  PROVE  Inv'
  <1>1. /\ disk' = WriteIndex({}) /\ dirty' = {} /\ job = Idle
        /\ UNCHANGED <<index, candidates, unlinked, tip, coins, job, upgraded, calls, restarts>>
    BY Zenon DEF FlushIndex
  <1>2. {} \in PruneSets /\ job.op = "idle"
    BY <1>1, Zenon DEF PruneSets, Idle
  <1>3. disk.tip \in disk.index /\ \A x \in Chain[disk.tip] \ {Genesis} : SCRIPTS \in status[x]
    BY MayFlushFits, Zenon DEF FlushIndex
  <1>4. disk' \in [index : SUBSET Blocks, received : SUBSET Blocks,
                   status : [Blocks -> SUBSET Flags], tip : Blocks] /\ disk'.tip = disk.tip
        /\ disk.index \subseteq disk'.index
    BY <1>1, <1>2, WriteIndexFits
  <1>5. PruneFlags({}) = status
    BY <1>2, PruneFlagsFit, Zenon
  <1>6. DiskFits(WriteIndex({}), status, {})
    BY <1>1, <1>2, <1>3, <1>4, <1>5, Written, Zenon
  <1>7. DiskInv'
    BY <1>1, <1>3, <1>4, <1>6, Zenon DEF index, DiskInv, DiskFits, FlagsInv
  <1>8. TypeOK'
    BY <1>1, <1>4, Zenon DEF index, Inv, TypeOK
  <1>9. IndexInv' /\ ActiveInv'
    BY <1>1, Zenon DEF index, Inv, IndexInv, IndexClosed, ActiveInv
  <1>10. FlagsInv(status, received)' /\ RulesInv' /\ WorkInv'
    BY <1>1, Zenon DEF index, Inv, FlagsInv, RulesInv, WorkInv
  <1> QED  BY <1>7, <1>8, <1>9, <1>10, Zenon DEF Inv

LEMMA RewindFlushInv ==
  ASSUME Inv, RewindFlush
  PROVE  Inv'
  <1>1. /\ disk' = FullFlush({}) /\ dirty' = {} /\ job.op = "flush" /\ job' = Idle
        /\ UNCHANGED <<index, candidates, unlinked, tip, coins, upgraded, calls, restarts>>
    BY Zenon DEF RewindFlush
  <1>2. {} \in PruneSets /\ job'.op = "idle"
    BY <1>1, Zenon DEF PruneSets, Idle
  <1>3. /\ coins = tip /\ tip \in known /\ dirty = {}
        /\ \A x \in Chain[tip] : (UndoThere => ~Failed(status[x])) /\ (x = Genesis \/ SCRIPTS \in status[x])
    BY <1>1, Zenon DEF Inv, ActiveInv, IndexInv
  <1>4. disk' \in [index : SUBSET Blocks, received : SUBSET Blocks,
                   status : [Blocks -> SUBSET Flags], tip : Blocks]
        /\ disk'.index = disk.index /\ disk'.tip = coins
    <2>1. disk' \in [index : SUBSET Blocks, received : SUBSET Blocks,
                     status : [Blocks -> SUBSET Flags], tip : Blocks]
          /\ disk'.index = disk.index \cup dirty \cup {} /\ disk'.tip = coins
      BY <1>1, <1>2, WriteIndexFits, Zenon
    <2> QED  BY <1>3, <2>1, Zenon
  <1>5. PruneFlags({}) = status
    BY <1>2, PruneFlagsFit, Zenon
  <1>6. disk'.tip \in disk'.index => \A x \in Chain[disk'.tip] \ {Genesis} : SCRIPTS \in status[x]
    BY <1>3, <1>4, Zenon
  <1>7. DiskFits(FullFlush({}), status, {})
    BY <1>1, <1>2, <1>5, <1>6, Written, Zenon
  <1>8. disk'.tip \in disk'.index
    BY <1>3, <1>4, Zenon DEF Inv, DiskInv, DiskFits
  <1>9. DiskInv'
    <2>1. DiskFits(disk, status, dirty)'
      BY <1>1, <1>7, Zenon DEF index, DiskFits, FlagsInv
    <2> QED  BY <1>8, <2>1, Zenon DEF DiskInv
  <1>10. TypeOK'
    <2>1. job' \in [op : Ops, target : Blocks, old : Blocks]
      BY <1>1, ParentAssumption, Zenon DEF Idle, Ops
    <2> QED  BY <1>1, <1>4, <2>1, Zenon DEF index, Inv, TypeOK
  <1>11. IndexInv'
    BY <1>1, <1>2, Zenon DEF index, Inv, IndexInv, IndexClosed
  <1>12. ActiveInv'
    BY <1>1, <1>2, <1>3, Zenon DEF index, ActiveInv
  <1>13. FlagsInv(status, received)' /\ RulesInv' /\ WorkInv'
    BY <1>1, <1>2, Zenon DEF index, Inv, FlagsInv, RulesInv, WorkInv
  <1> QED  BY <1>9, <1>10, <1>11, <1>12, <1>13, Zenon DEF Inv

\* LoadBlockIndexDB, from a database that fits what was in memory.
LEMMA LoadInv ==
  ASSUME SetFacts, Inv, NEW d, NEW st, NEW D, DiskFits(d, st, D), LoadBlockIndexDB(d), disk' = d,
         d \in [index : SUBSET Blocks, received : SUBSET Blocks,
                status : [Blocks -> SUBSET Flags], tip : Blocks],
         \A x \in Blocks : \A f \in Lasting : f \in d.status[x] => f \in status[x],
         restarts < MaxRestarts, restarts' = restarts + 1, calls' = calls, upgraded' \in {upgraded, TRUE}
  PROVE  Inv'
  <1>1. /\ known' = d.index /\ received' = d.received /\ status' = d.status
        /\ linked' \subseteq d.index /\ unlinked' \subseteq d.received
        /\ \A x \in candidates' : x \in d.index /\ ~Worse(x, d.tip, seq')
        /\ seq' = [x \in Blocks |-> 0] /\ nBlockSequenceId' = 1
        /\ tip' = d.tip /\ coins' = d.tip /\ dirty' = {}
        /\ \/ d.tip \in d.index /\ job' = Job("rewind", d.tip, d.tip)
           \/ job' = Job("aborted", Genesis, Genesis)
    BY Zenon DEF LoadBlockIndexDB
  <1>2. /\ Genesis \in d.index /\ d.index \subseteq known /\ d.received \subseteq d.index /\ d.received \subseteq received
        /\ \A x \in d.index : Chain[x] \subseteq d.index
        /\ \A x \in Blocks \ d.index : d.status[x] = {}
        /\ d.tip \in d.index => \A x \in Chain[d.tip] \ {Genesis} : SCRIPTS \in d.status[x]
        /\ FlagsInv(d.status, d.received)
    BY Zenon DEF DiskFits
  <1>3. d.tip \in Blocks /\ d.index \subseteq Blocks
    BY Zenon
  <1>4. \/ job'.op = "rewind" /\ job'.old = d.tip /\ d.tip \in d.index
        \/ job'.op = "aborted"
    BY <1>1 DEF Job
  <1>5. TypeOK'
    <2>1. restarts' \in 0..MaxRestarts /\ nBlockSequenceId' \in Nat
      BY <1>1, LimitsAssumption DEF Inv, TypeOK
    <2>2. job' \in [op : Ops, target : Blocks, old : Blocks]
      BY <1>1, <1>3, ParentAssumption DEF Job, Ops
    <2>3. seq' \in [Blocks -> Nat] /\ upgraded' \in BOOLEAN /\ calls' \in 0..MaxCalls
      BY <1>1, Zenon DEF Inv, TypeOK
    <2>4. disk' \in [index : SUBSET Blocks, received : SUBSET Blocks,
                     status : [Blocks -> SUBSET Flags], tip : Blocks] /\ status' \in [Blocks -> SUBSET Flags]
      BY <1>1, Zenon
    <2> QED  BY <1>1, <1>2, <1>3, <2>1, <2>2, <2>3, <2>4, Zenon DEF TypeOK
  <1>6. IndexInv'
    <2>1. IsFiniteSet(d.index)
      BY <1>2, Zenon DEF SetFacts, Inv, IndexInv
    <2>2. restarts' > 0
      BY DEF Inv, TypeOK
    <2> QED  BY <1>1, <1>2, <2>1, <2>2, Zenon DEF IndexInv, IndexClosed
  <1>7. FlagsInv(status, received)'
    <2>1. upgraded => upgraded'
      BY Zenon
    <2> QED  BY <1>1, <1>2, <2>1, Zenon DEF FlagsInv
  <1>8. RulesInv'
    <2>1. \A x \in Blocks : /\ SCRIPTS \in status'[x] => SCRIPTS \in status[x]
                            /\ ACTIVATES \in status'[x] => ACTIVATES \in status[x]
      BY <1>1, Zenon DEF Lasting
    <2> QED  BY <1>1, <1>2, <1>4, <2>1, ChainAssumption, Zenon DEF Inv, RulesInv
  <1>9. ActiveInv'
    <2>1. CASE job'.op = "rewind" /\ job'.old = d.tip /\ d.tip \in d.index
      BY <1>1, <1>2, <1>3, <2>1, ChainAssumption, Zenon DEF ActiveInv
    <2> QED  BY <1>4, <2>1, Zenon DEF ActiveInv
  <1>10. WorkInv'
    <2>1. \A x \in candidates' : Work[d.tip] <= Work[x]
      BY <1>1, <1>3, NotWorse, Zenon
    <2> QED  BY <1>1, <1>4, <2>1, Zenon DEF WorkInv
  <1>11. DiskInv'
    <2>1. FlagsInv(disk.status, disk.received)'
      BY <1>1, <1>7, Zenon
    <2>2. DiskFits(disk, status, dirty)'
      BY <1>1, <1>2, <2>1, Zenon DEF DiskFits
    <2> QED  BY <1>1, <1>4, <2>2, Zenon DEF DiskInv
  <1> QED  BY <1>5, <1>6, <1>7, <1>8, <1>9, <1>10, <1>11, Zenon DEF Inv

LEMMA RestartInv ==
  ASSUME SetFacts, Inv, Restart
  PROVE  Inv'
  <1>1. /\ restarts < MaxRestarts /\ restarts' = restarts + 1 /\ calls' = calls
        /\ upgraded' \in {upgraded, TRUE}
    BY Zenon DEF Restart
  <1>2. CASE LoadBlockIndexDB(disk) /\ disk' = disk
    <2>1. \A x \in Blocks : \A f \in Lasting : f \in disk.status[x] => f \in status[x]
      BY Zenon DEF Inv, DiskInv, DiskFits
    <2>2. /\ DiskFits(disk, status, dirty)
          /\ disk \in [index : SUBSET Blocks, received : SUBSET Blocks,
                       status : [Blocks -> SUBSET Flags], tip : Blocks]
      BY Zenon DEF Inv, DiskInv, TypeOK
    <2> QED  BY <1>1, <1>2, <2>1, <2>2, LoadInv, Zenon
  <1>3. ASSUME MayFlush, NEW S \in PruneSets, LoadBlockIndexDB(WriteIndex(S)), disk' = WriteIndex(S)
        PROVE  Inv'
    <2>1. /\ WriteIndex(S) \in [index : SUBSET Blocks, received : SUBSET Blocks,
                                status : [Blocks -> SUBSET Flags], tip : Blocks]
          /\ WriteIndex(S).tip = disk.tip
      BY WriteIndexFits, Zenon
    <2>2. DiskFits(WriteIndex(S), PruneFlags(S), {})
      BY <1>3, <2>1, MayFlushFits, Written, Zenon
    <2>3. \A x \in Blocks : \A f \in Lasting : f \in WriteIndex(S).status[x] => f \in PruneFlags(S)[x]
      BY <2>2, Zenon DEF DiskFits
    <2>4. \A x \in Blocks : \A f \in Lasting : f \in WriteIndex(S).status[x] => f \in status[x]
      BY <2>3, PruneFlagsFit, Zenon
    <2> QED  BY <1>1, <1>3, <2>1, <2>2, <2>4, LoadInv, Zenon
  <1> QED  BY <1>2, <1>3, Zenon DEF Restart

-----------------------------------------------------------------------------
(* RewindBlockIndex. *)

LEMMA RewindDisconnectInv ==
  ASSUME TreeFacts, Inv, RewindDisconnect
  PROVE  Inv'
  <1>1. /\ job.op = "rewind" /\ coins = tip
        /\ UNCHANGED <<index, candidates, unlinked, tip, dirty, disk, upgraded, calls, restarts>>
    BY Zenon DEF RewindDisconnect
  <1>2. CASE ~RewindTooLong
    <2>1. DisconnectTip /\ ~RewindStops
      BY <1>2, Zenon DEF RewindDisconnect
    <2>2. tip # Genesis
      BY <2>1, RewindHeightFits, HeightAssumption DEF RewindStops
    <2> QED  BY <1>1, <2>1, <2>2, DisconnectTipInv, Zenon
  <1>3. CASE RewindTooLong
    <2>1. coins' = coins /\ job' = Job("shutdown", Genesis, Genesis)
      BY <1>3, Zenon DEF RewindDisconnect, StartShutdown
    <2>2. job'.op = "shutdown"
      BY <2>1, Zenon DEF Job
    <2>3. TypeOK'
      <3>1. job' \in [op : Ops, target : Blocks, old : Blocks]
        BY <2>1, ParentAssumption, Zenon DEF Job, Ops
      <3> QED  BY <1>1, <2>1, <3>1, Zenon DEF index, Inv, TypeOK
    <2>4. IndexInv'
      BY <1>1, <2>1, <2>2, Zenon DEF index, Inv, IndexInv, IndexClosed
    <2>5. ActiveInv'
      BY <1>1, <2>1, <2>2, Zenon DEF index, Inv, ActiveInv
    <2>6. WorkInv'
      BY <1>1, <2>2, Zenon DEF Inv, WorkInv
    <2>7. FlagsInv(status, received)' /\ RulesInv' /\ DiskInv'
      BY <1>1, <2>2, FlagsKept, Zenon DEF index, Inv, RulesInv
    <2> QED  BY <2>3, <2>4, <2>5, <2>6, <2>7, Zenon DEF Inv
  <1> QED  BY <1>2, <1>3, Zenon

LEMMA RewindEraseInv ==
  ASSUME TreeFacts, SetFacts, Inv, RestartsApart, RewindErase
  PROVE  Inv'
  <1> DEFINE gone == {x \in known : ~SufficientlyValidated(x) /\ x \notin Chain[tip]}
             R == [index : SUBSET Blocks, received : SUBSET Blocks,
                   status : [Blocks -> SUBSET Flags], tip : Blocks]
             dst == [x \in Blocks |-> IF x \in gone THEN {} ELSE disk.status[x]]
  <1>1. /\ job.op = "rewind" /\ coins = tip /\ known' = known \ gone /\ received' = received \ gone
        /\ linked' = linked \ gone /\ unlinked' = RewindUnlinked(gone)
        /\ status' = [x \in Blocks |-> IF x \in gone THEN {} ELSE status[x]]
        /\ candidates' = RewindCandidates(gone) /\ job' = Job("flush", tip, tip)
        /\ disk' = [disk EXCEPT !.index = disk.index \ gone, !.received = disk.received \ gone,
                                !.status = dst]
        /\ UNCHANGED <<seq, nBlockSequenceId, tip, coins, dirty, upgraded, calls, restarts>>
    BY Zenon DEF RewindErase
  <1>2. /\ tip \in Blocks /\ tip \in known /\ gone \subseteq known /\ gone \cap Chain[tip] = {} /\ Genesis \notin gone
        /\ \A x \in Chain[tip] : ~Failed(status[x]) /\ (x = Genesis \/ SCRIPTS \in status[x])
        /\ \A x \in known \ gone : Chain[x] \cap gone = {} /\ (x = Genesis \/ SufficientlyValidated(x))
    BY GoneFits, Zenon
  <1>3. \A x \in Blocks : dst[x] = IF x \in gone THEN {} ELSE disk.status[x]
    BY Zenon
  <1> HIDE DEF gone
  <1>4. disk \in R /\ dst \in [Blocks -> SUBSET Flags]
    BY Zenon DEF Inv, TypeOK
  <1> HIDE DEF dst
  <1>5. /\ disk' \in R /\ disk'.index = disk.index \ gone /\ disk'.received = disk.received \ gone
        /\ disk'.status = dst /\ disk'.tip = disk.tip
    BY <1>1, <1>4, Zenon
  <1>6. job'.op = "flush" /\ dirty = {} /\ dirty' = {} /\ restarts > 0
    BY <1>1, Zenon DEF Job, Inv, IndexInv
  <1>7. \A x \in Blocks : /\ x \notin gone => status'[x] = status[x]
                          /\ x \in gone => status'[x] = {}
    BY <1>1, Zenon
  <1>8. TypeOK'
    <2>1. status' \in [Blocks -> SUBSET Flags]
      BY <1>1, Zenon DEF Inv, TypeOK
    <2>2. job' \in [op : Ops, target : Blocks, old : Blocks]
      BY <1>1, <1>2, Zenon DEF Job, Ops
    <2>3. candidates' \subseteq known \ gone
      BY <1>1, Zenon DEF RewindCandidates, Pruned, Inv, TypeOK
    <2>4. unlinked' \subseteq known \ gone
      BY <1>1, Zenon DEF RewindUnlinked, Inv, TypeOK
    <2>5. received' \subseteq known' /\ linked' \subseteq known' /\ known' \subseteq Blocks /\ dirty' \subseteq known'
      BY <1>1, <1>6, Zenon DEF Inv, TypeOK
    <2>6. /\ seq' \in [Blocks -> Nat] /\ nBlockSequenceId' \in Nat /\ tip' \in Blocks /\ coins' \in Blocks
          /\ upgraded' \in BOOLEAN /\ calls' \in 0..MaxCalls /\ restarts' \in 0..MaxRestarts
      BY <1>1, Zenon DEF Inv, TypeOK
    <2> QED  BY ONLY <1>1, <1>5, <2>1, <2>2, <2>3, <2>4, <2>5, <2>6, Zenon DEF TypeOK
  <1>9. IndexInv'
    <2>1. IsFiniteSet(known \ gone)
      BY Zenon DEF SetFacts, Inv, IndexInv
    <2> QED  BY <1>1, <1>2, <1>6, <1>7, <2>1, Zenon DEF Inv, IndexInv, IndexClosed
  <1>10. \A x \in Blocks : SCRIPTS \in status[x] => x \in known
    BY Zenon DEF Inv, IndexInv
  <1>11. FlagsInv(status, received)'
    <2>1. \A x \in Blocks : SCRIPTS \in status'[x] =>
             /\ x \in received' /\ x \notin InvalidBlocks
             /\ \A y \in Chain[x] \ {Genesis} : SCRIPTS \in status'[y]
      BY <1>1, <1>2, <1>7, <1>10, ChainAssumption, Zenon DEF Inv, FlagsInv
    <2>2. \A x \in Blocks : x \in gone => ~Failed(status'[x])
      BY <1>7, FailedFlags, Zenon
    <2> QED  BY <1>1, <1>2, <1>7, <2>1, <2>2, ParentAssumption, Zenon DEF Inv, FlagsInv
  <1>12. RulesInv'
    <2>1. \A x \in Blocks : SCRIPTS \in status'[x] =>
             \A y \in Chain[x] : ACTIVATES \in status'[y] => x \notin InvalidIfUpgraded
      BY <1>7, ChainAssumption, Zenon DEF Inv, RulesInv
    <2>2. ASSUME NEW x \in Blocks, upgraded, SCRIPTS \in status'[x], Height[x] >= UpgradeHeight
          PROVE  \E y \in Chain[x] : ACTIVATES \in status'[y]
      <3>1. x \in known \ gone /\ x # Genesis
        BY <1>7, <1>10, <2>2, HeightAssumption, LimitsAssumption
      <3>2. PICK a \in Chain[x] : Height[a] = UpgradeHeight
        BY <2>2, AncestorAt, HeightAssumption, LimitsAssumption, Zenon
      <3>3. ACTIVATES \in status[a]
        BY <1>2, <2>2, <3>1, <3>2, Zenon DEF SufficientlyValidated
      <3> QED  BY <1>2, <1>7, <3>1, <3>2, <3>3, ChainAssumption, Zenon
    <2> QED  BY <1>1, <2>1, <2>2, Zenon DEF Inv, RulesInv
  <1>13. ActiveInv'
    BY <1>1, <1>2, <1>6, <1>7, ChainAssumption, ZenonT(60) DEF ActiveInv
  <1>14. WorkInv'
    <2>1. \A x \in candidates' : Work[tip] <= Work[x]
      BY <1>1, <1>2, NotWorse, Zenon DEF RewindCandidates, Pruned, Inv, TypeOK
    <2> QED  BY <1>1, <1>6, <2>1, Zenon DEF WorkInv
  <1>15. DiskInv'
    <2>1. /\ Genesis \in disk.index /\ disk.index = known /\ disk.received \subseteq disk.index \cap received
          /\ \A x \in Blocks \ disk.index : disk.status[x] = {}
          /\ \A x \in Blocks : \A f \in Lasting : f \in disk.status[x] => f \in status[x]
          /\ \A x \in Blocks : /\ disk.status[x] \subseteq status[x]
                               /\ status[x] \subseteq disk.status[x] \cup {FAILED_CHILD}
                               /\ x \in received => x \in disk.received
          /\ disk.tip \in disk.index => \A x \in Chain[disk.tip] \ {Genesis} : SCRIPTS \in disk.status[x]
          /\ FlagsInv(disk.status, disk.received)
      BY <1>6, Zenon DEF Inv, DiskInv, DiskFits
    <2>2. \A x \in Blocks : /\ x \notin gone => dst[x] = disk.status[x]
                            /\ x \in gone => dst[x] = {}
      BY <1>3, Zenon
    <2>3. FlagsInv(dst, disk.received \ gone)
      <3>1. \A x \in Blocks : SCRIPTS \in disk.status[x] => x \in known
        BY <2>1, Zenon
      <3>2. \A x \in Blocks : SCRIPTS \in dst[x] =>
               /\ x \in disk.received \ gone /\ x \notin InvalidBlocks
               /\ \A y \in Chain[x] \ {Genesis} : SCRIPTS \in dst[y]
        BY <1>2, <2>1, <2>2, <3>1, ChainAssumption, Zenon DEF FlagsInv
      <3>3. \A x \in Blocks : x \in gone => ~Failed(dst[x])
        BY <2>2, FailedFlags, Zenon
      <3> QED  BY <1>2, <2>1, <2>2, <3>2, <3>3, ParentAssumption, Zenon DEF FlagsInv
    <2>4. \A x \in known \ gone : Chain[x] \subseteq known \ gone
      BY <1>2, Zenon DEF Inv, IndexInv, IndexClosed
    <2>5. disk.tip \in known \ gone => \A x \in Chain[disk.tip] \ {Genesis} : SCRIPTS \in dst[x]
      BY <1>4, <2>1, <2>2, <2>4, ChainAssumption, Zenon
    <2>6. FlagsInv(disk.status, disk.received)'
      BY <1>1, <1>5, <2>3, Zenon DEF FlagsInv
    <2>7. DiskFits(disk, status, dirty)'
      BY <1>1, <1>2, <1>5, <1>6, <1>7, <2>1, <2>2, <2>4, <2>5, <2>6 DEF DiskFits
    <2> QED  BY <1>6, <2>7, Zenon DEF DiskInv
  <1> QED  BY <1>8, <1>9, <1>11, <1>12, <1>13, <1>14, <1>15, Zenon DEF Inv

\* Every step keeps the invariant.
LEMMA NextInv ==
  ASSUME TreeFacts, SetFacts, Inv, fPruneMode \/ DataInv, RestartsApart, [Next]_vars
  PROVE  Inv'
  <1>1. CASE UNCHANGED vars
    <2> USE <1>1 DEF vars, index, Inv
    <2>1. TypeOK' /\ IndexInv'
      BY Zenon DEF TypeOK, IndexInv, IndexClosed
    <2>2. FlagsInv(status, received)' /\ RulesInv'
      BY Zenon DEF FlagsInv, RulesInv
    <2>3. ActiveInv' /\ WorkInv'
      BY Zenon DEF ActiveInv, WorkInv
    <2>4. DiskInv'
      BY Zenon DEF DiskInv, DiskFits, FlagsInv
    <2> QED  BY <2>1, <2>2, <2>3, <2>4, Zenon
  <1>2. ASSUME NEW b \in Blocks \ {Genesis}, AcceptBlockHeader(b) \/ InvalidateBlock(b) \/ ReconsiderBlock(b)
        PROVE  Inv'
    BY <1>2, AcceptBlockHeaderInv, InvalidateBlockInv, ReconsiderBlockInv, Zenon
  <1>3. ASSUME NEW b \in Blocks \ {Genesis}, NEW f \in BOOLEAN, AcceptBlock(b, f) \/ RejectBlock(b, f)
        PROVE  Inv'
    BY <1>3, AcceptBlockInv, RejectBlockInv, Zenon
  <1>4. CASE ChainStep
    BY <1>4, ActivateBestChainInv, StepDisconnectInv, StepConnectInv, StepInvalidInv, UpdateTipInv, Zenon
       DEF ChainStep
  <1>5. CASE InvalidateStep
    BY <1>5, InvalidateDisconnectInv, InvalidateDoneInv, Zenon DEF InvalidateStep
  <1>6. CASE StartStep
    BY <1>6, RewindDisconnectInv, RewindEraseInv, RewindFlushInv, Zenon DEF StartStep
  <1>7. ASSUME NEW S \in PruneSets, FlushState(S)
        PROVE  Inv'
    BY <1>7, FlushStateInv, Zenon
  <1>8. CASE FlushIndex \/ Restart
    BY <1>8, FlushIndexInv, RestartInv, Zenon
  <1> QED  BY <1>1, <1>2, <1>3, <1>4, <1>5, <1>6, <1>7, <1>8, Zenon DEF Next

-----------------------------------------------------------------------------
(* Without pruning, nChainTx is right and setBlockIndexCandidates is sound. *)

\* A block whose data is new was not linked; what waited for it was not either.
LEMMA AcceptLinks ==
  ASSUME Inv, DataInv, LinkInv, NEW b \in Blocks \ {Genesis}, NEW f \in BOOLEAN, AcceptBlock(b, f)
  PROVE  /\ linked \subseteq linked' /\ b \notin linked
         /\ \A x \in linked : seq'[x] = seq[x]
         /\ \/ Parent[b] \in linked /\ candidates' = candidates \cup {x \in linked' \ linked : ~Worse(x, tip, seq')}
            \/ linked' = linked /\ candidates' = candidates
         /\ LinkInv'
  <1>1. /\ job = Idle /\ known' = known \cup {b} /\ received' = received \cup {b}
        /\ UNCHANGED <<tip, coins, job>> /\ DATA \notin status[b] /\ seq \in [Blocks -> Nat]
    BY Zenon DEF AcceptBlock, WantsBlock, Inv, TypeOK
  <1>2. b \notin received /\ b \notin linked
    BY <1>1, Zenon DEF DataInv, DataFit, LinkInv
  <1>3. CASE Parent[b] \in linked
    <2> DEFINE new == NowLinked(b)
    <2>1. /\ linked' = linked \cup new /\ candidates' = candidates \cup {x \in new : ~Worse(x, tip, seq')}
          /\ unlinked' = unlinked \ (new \ {b})
      BY <1>3, Zenon DEF AcceptBlock
    <2>2. PICK o \in QueueOrders(new) :
              seq' = [x \in Blocks |-> IF x \in new THEN nBlockSequenceId + o[x] ELSE seq[x]]
      BY <1>3, Zenon DEF AcceptBlock
    <2>3. new \cap linked = {} /\ new \subseteq received' /\ new \subseteq Blocks /\ b \in new
      BY <1>1, <1>2 DEF NowLinked, LinkInv, Inv, TypeOK
    <2>4. ASSUME NEW x \in new
          PROVE  Chain[x] \subseteq linked'
      <3>1. Chain[b] \subseteq linked'
        BY <1>3, <2>1, <2>3, ChainAssumption DEF LinkInv
      <3>2. CASE x = b
        BY <3>1, <3>2, Zenon
      <3>3. CASE x # b
        <4>1. x \in unlinked /\ x \in Blocks /\ b \in Chain[x] /\ Chain[x] \ Chain[b] \subseteq unlinked
          BY <3>3, Zenon DEF NowLinked, Inv, TypeOK
        <4>2. ASSUME NEW y \in Chain[x] \ Chain[b]
              PROVE  y \in new
          <5>1. y \in unlinked /\ y \in Blocks /\ Chain[y] \subseteq Chain[x]
            BY <4>1, ChainAssumption, Zenon
          <5>2. b \in Chain[y]
            BY <4>1, <4>2, ChainAssumption, Zenon
          <5> QED  BY <4>1, <5>1, <5>2, Zenon DEF NowLinked
        <4> QED  BY <2>1, <3>1, <4>2, Zenon
      <3> QED  BY <3>2, <3>3, Zenon
    <2> HIDE DEF new
    <2>5. \A x \in linked : seq'[x] = seq[x]
      BY <2>2, <2>3, Zenon DEF Inv, TypeOK
    <2>6. linked' \ linked = new
      BY <2>1, <2>3, Zenon
    <2>7. \A x \in candidates : ~Worse(x, tip, seq')
      BY <1>1, <2>5, Zenon DEF LinkInv, Idle, Worse
    <2>8. LinkInv'
      <3>1. linked' \subseteq received' /\ \A x \in linked' : Chain[x] \subseteq linked'
        BY <1>1, <2>1, <2>3, <2>4, Zenon DEF LinkInv
      <3>2. unlinked' \subseteq received' /\ unlinked' \cap linked' = {}
        BY <1>1, <1>2, <2>1, <2>3, Zenon DEF LinkInv
      <3>3. candidates' \subseteq linked' /\ \A x \in candidates' : ~Worse(x, tip, seq')
        BY <2>1, <2>7, Zenon DEF LinkInv
      <3>4. tip \in linked /\ coins \in linked /\ job.op = "idle"
        BY <1>1, Zenon DEF LinkInv, Idle
      <3> QED  BY <1>1, <2>1, <3>1, <3>2, <3>3, <3>4, Zenon DEF LinkInv
    <2> QED  BY <1>2, <1>3, <2>1, <2>5, <2>6, <2>8, Zenon
  <1>4. CASE Parent[b] \notin linked
    <2>1. linked' = linked /\ candidates' = candidates /\ seq' = seq /\ unlinked' \subseteq unlinked \cup {b}
      BY <1>2, <1>4, Zenon DEF AcceptBlock
    <2>2. LinkInv'
      BY <1>1, <1>2, <2>1, Zenon DEF LinkInv
    <2> QED  BY <1>2, <2>1, <2>2, Zenon
  <1> QED  BY <1>3, <1>4, Zenon

\* Every candidate that FindMostWorkChain passes over has a marked block on its way.
LEMMA AllFailing ==
  ASSUME TreeFacts, Inv, DataInv, LinkInv
  PROVE  Failing = PassedOver /\ WaitingAgain = {}
  <1>1. ASSUME NEW d \in PassedOver
        PROVE  Failed(status[FirstBad(d)])
    <2>1. FirstBad(d) \in Chain[d] /\ FirstBad(d) \in BadOnPath(d) /\ FirstBad(d) \in Blocks
      BY FirstBadFits, Zenon
    <2>2. FirstBad(d) \in received
      BY <2>1, Zenon DEF PassedOver, LinkInv
    <2> QED  BY <2>1, <2>2, Zenon DEF BadOnPath, DataInv, DataFit
  <1> QED  BY <1>1, Zenon DEF Failing, WaitingAgain

LEMMA LinkKept ==
  ASSUME LinkInv, job.op # "aborted", tip' = tip, seq' = seq,
         linked' = linked, received' = received, unlinked' = unlinked,
         \A x \in candidates' : x \in candidates \/ (x \in linked /\ ~Worse(x, tip, seq)),
         coins' \in linked, job'.op = "step" => job'.target \in linked
  PROVE  LinkInv'
  BY Zenon DEF LinkInv

\* DisconnectTip stays among linked blocks.
LEMMA DisconnectLinks ==
  ASSUME Inv, LinkInv, DisconnectTip, coins = tip, tip # Genesis, job.op # "aborted"
  PROVE  coins' \in linked /\ (job'.op = "step" => job'.target \in linked)
  <1>1. tip \in linked /\ Parent[tip] \in linked
    BY ChainAssumption, ParentAssumption, ZenonT(60) DEF LinkInv, Inv, TypeOK
  <1> QED  BY <1>1, DisconnectTipCases DEF Job, Idle, LinkInv

LEMMA UpdateTipLinks ==
  ASSUME TreeFacts, Inv, LinkInv, UpdateTip
  PROVE  LinkInv'
  <1>1. /\ tip' = coins /\ coins' = coins /\ seq' = seq /\ linked' = linked /\ received' = received
        /\ unlinked' = unlinked
    BY Zenon DEF UpdateTip, index
  <1>2. /\ tip \in Blocks /\ coins \in Blocks /\ seq \in [Blocks -> Nat] /\ job.op # "aborted"
        /\ candidates \subseteq Blocks
    BY UpdateTipCases, Zenon DEF Inv, TypeOK
  <1>3. /\ candidates' \subseteq candidates /\ \A x \in candidates' : ~Worse(x, coins, seq)
        /\ job' \in {job, Idle}
    <2>1. CASE candidates' = Pruned(candidates, coins) /\ job' \in {job, Idle}
      BY <2>1, Zenon DEF Pruned
    <2>2. CASE candidates' = candidates /\ job' = job /\ coins \in Chain[tip] /\ coins # tip
      <3>1. Worse(coins, tip, seq)
        BY <1>2, <2>2, AncestorWorse, Zenon
      <3>2. \A x \in candidates : ~Worse(x, coins, seq)
        BY <1>2, <3>1, WorseOrder, Zenon DEF LinkInv
      <3> QED  BY <2>2, <3>2, Zenon
    <2> QED  BY <2>1, <2>2, UpdateTipCases, ChainAssumption, Zenon
  <1>4. job'.op \in {job.op, "idle"} /\ (job'.op = "step" => job' = job)
    BY <1>2, <1>3 DEF Idle
  <1> QED  BY <1>1, <1>2, <1>3, <1>4, Zenon DEF LinkInv

LEMMA RewindEraseLinks ==
  ASSUME TreeFacts, Inv, RestartsApart, LinkInv, RewindErase
  PROVE  LinkInv'
  <1> DEFINE gone == {x \in known : ~SufficientlyValidated(x) /\ x \notin Chain[tip]}
  <1>1. /\ job.op = "rewind" /\ coins = tip /\ received' = received \ gone
        /\ linked' = linked \ gone /\ unlinked' = unlinked \ gone
        /\ candidates' = RewindCandidates(gone) /\ job' = Job("flush", tip, tip)
        /\ tip' = tip /\ coins' = coins /\ seq' = seq
    BY Zenon DEF RewindErase, RewindUnlinked
  <1>2. /\ gone \cap Chain[tip] = {} /\ tip \in Blocks
        /\ \A x \in known \ gone : Chain[x] \cap gone = {}
    BY GoneFits, Zenon
  <1> HIDE DEF gone
  <1>3. candidates' \subseteq linked \ gone /\ \A x \in candidates' : ~Worse(x, tip, seq)
    BY <1>1, Zenon DEF RewindCandidates, Pruned, LinkInv
  <1>4. \A x \in linked \ gone : Chain[x] \subseteq linked \ gone
    BY <1>2, Zenon DEF LinkInv, Inv, TypeOK
  <1>5. tip \in linked \ gone /\ job'.op = "flush"
    BY <1>1, <1>2, ChainAssumption, Zenon DEF LinkInv, Job
  <1> QED  BY <1>1, <1>3, <1>4, <1>5, Zenon DEF LinkInv

LEMMA NextLinks ==
  ASSUME TreeFacts, Inv, RestartsApart, DataInv, LinkInv, ~fPruneMode, [Next]_vars
  PROVE  LinkInv'
  <1>1. ASSUME NEW b \in Blocks \ {Genesis}, AcceptBlockHeader(b) \/ \E f \in BOOLEAN : RejectBlock(b, f)
        PROVE  LinkInv'
    BY <1>1, ZenonT(60) DEF AcceptBlockHeader, RejectBlock, LinkInv
  <1>2. ASSUME NEW b \in Blocks \ {Genesis}, NEW f \in BOOLEAN, AcceptBlock(b, f)
        PROVE  LinkInv'
    BY <1>2, AcceptLinks, Zenon
  <1>3. ASSUME NEW b \in Blocks \ {Genesis}, InvalidateBlock(b)
        PROVE  LinkInv'
    BY <1>3, LinkKept, Zenon DEF InvalidateBlock, LinkInv, Idle, Job
  <1>4. ASSUME NEW b \in Blocks \ {Genesis}, ReconsiderBlock(b)
        PROVE  LinkInv'
    <2>1. \A x \in candidates' : x \in candidates \/ (x \in linked /\ Worse(tip, x, seq))
      BY <1>4, Zenon DEF ReconsiderBlock
    <2>2. \A x \in linked : Worse(tip, x, seq) => ~Worse(x, tip, seq)
      BY WorseOrder, Zenon DEF Inv, TypeOK
    <2> QED  BY <1>4, <2>1, <2>2, LinkKept, Zenon DEF ReconsiderBlock, LinkInv, Idle
  <1>5. CASE ActivateBestChain
    <2>1. /\ job.op = "idle" /\ candidates' \subseteq candidates /\ unlinked' = unlinked
          /\ UNCHANGED <<received, linked, seq, tip, coins>>
      BY <1>5, AllFailing, Zenon DEF ActivateBestChain, FindMostWorkChain, Idle
    <2>2. job'.op = "step" => job'.target \in linked
      BY <1>5, <2>1 DEF ActivateBestChain, StartShutdown, Job, MostWork, Usable, LinkInv
    <2> QED  BY <2>1, <2>2, LinkKept, Zenon DEF LinkInv
  <1>6. CASE StepDisconnect
    <2>1. tip # Genesis /\ coins = tip /\ job.op = "step" /\ DisconnectTip
      BY <1>6, ChainAssumption, Zenon DEF StepDisconnect, Inv, TypeOK
    <2> QED  BY <1>6, <2>1, DisconnectLinks, LinkKept, Zenon DEF StepDisconnect, index
  <1>7. CASE StepConnect
    <2> DEFINE b == NextTowards(tip, job.target)
    <2>1. /\ job.op = "step" /\ coins = tip /\ tip \in Chain[job.target] /\ coins' = b
          /\ UNCHANGED <<received, linked, seq, candidates, unlinked, tip, job>>
      BY <1>7, Zenon DEF StepConnect
    <2>2. b \in Chain[job.target]
      BY <2>1, NextBlock, Zenon
    <2> HIDE DEF b
    <2> QED  BY <2>1, <2>2, LinkKept, Zenon DEF LinkInv
  <1>8. CASE StepInvalid
    BY <1>8, LinkKept, Zenon DEF StepInvalid, InvalidBlockFound, LinkInv, Idle
  <1>9. CASE UpdateTip
    BY <1>9, UpdateTipLinks, Zenon
  <1>10. CASE InvalidateDisconnect
    <2>1. tip # Genesis
      BY <1>10, ChainAssumption, BlockSetsAssumption DEF InvalidateDisconnect, Inv, ActiveInv
    <2> QED  BY <1>10, <2>1, DisconnectLinks, LinkKept, Zenon DEF InvalidateDisconnect
  <1>11. CASE InvalidateDone
    BY <1>11, LinkKept, Zenon DEF InvalidateDone, AsGoodAsTip, LinkInv, Idle, index
  <1>12. CASE RewindDisconnect
    <2>1. /\ job.op = "rewind" /\ coins = tip
          /\ UNCHANGED <<index, candidates, unlinked, tip>>
      BY <1>12, Zenon DEF RewindDisconnect
    <2>2. CASE ~RewindTooLong
      <3>1. DisconnectTip /\ tip # Genesis
        BY <1>12, <2>2, RewindHeightFits, HeightAssumption DEF RewindDisconnect, RewindStops
      <3> QED  BY <2>1, <3>1, DisconnectLinks, LinkKept, Zenon DEF index
    <2>3. CASE RewindTooLong
      BY <1>12, <2>1, <2>3, LinkKept DEF RewindDisconnect, StartShutdown, Job, LinkInv, index
    <2> QED  BY <2>2, <2>3, Zenon
  <1>13. CASE RewindErase
    BY <1>13, RewindEraseLinks, Zenon
  <1>14. CASE (\E S \in PruneSets : FlushState(S)) \/ FlushIndex \/ RewindFlush
    <2>1. /\ UNCHANGED <<received, linked, seq, candidates, tip, coins, unlinked>>
          /\ job' = job \/ job' = Idle
          /\ job.op # "aborted"
      BY <1>14, WrittenUnpruned, MayFlushFits, Zenon DEF FlushState, FlushIndex, RewindFlush, index
    <2> QED  BY <2>1, LinkKept DEF LinkInv, Idle
  <1>15. CASE Restart
    <2>1. CASE LoadBlockIndexDB(disk)
      BY <2>1, LoadLinks, Zenon DEF Inv, DiskInv, TypeOK
    <2>2. CASE MayFlush /\ LoadBlockIndexDB(WriteIndex({}))
      BY <2>2, LoadLinks, WrittenUnpruned, WriteIndexFits, Zenon
    <2> QED  BY <1>15, <2>1, <2>2, WrittenUnpruned, Zenon DEF Restart
  <1>16. CASE UNCHANGED vars
    BY <1>16, Zenon DEF vars, index, LinkInv
  <1> QED  BY <1>1, <1>2, <1>3, <1>4, <1>5, <1>6, <1>7, <1>8, <1>9, <1>10, <1>11, <1>12, <1>13, <1>14, <1>15, <1>16, Zenon
           DEF Next, ChainStep, InvalidateStep, StartStep

LEMMA InitLinks == Init => DataInv /\ LinkInv
  <1> SUFFICES ASSUME Init
               PROVE  DataInv /\ LinkInv
    BY Zenon
  <1>1. /\ status[Genesis] = {DATA, TRANSACTIONS} /\ \A x \in Blocks \ {Genesis} : status[x] = {}
        /\ disk.status = status /\ disk.received = received /\ received = {Genesis}
    BY ParentAssumption, Zenon DEF Init
  <1>2. DataInv
    BY <1>1, FlagNames, Zenon DEF DataInv, DataFit
  <1>3. LinkInv
    BY ParentAssumption, ChainAssumption, WorkAssumption, AddrAssumption DEF Init, LinkInv, Worse, Idle
  <1> QED  BY <1>2, <1>3, Zenon

-----------------------------------------------------------------------------
(* mapBlocksUnlinked, with pruning.  A block waits for the highest block   *)
(* below it that has no data, and all that is between them waits too, so   *)
(* that ReceivedBlockTransactions finds the whole way up from there.       *)

\* A block that was marked before it was received: AcceptBlock refuses it.
Stuck(m) == m \notin received /\ FAILED_VALID \in status[m]

Waits(x, m) ==
    /\ m \in Chain[x] /\ DATA \notin status[m]
    /\ \A y \in Chain[x] \ Chain[m] : DATA \in status[y] /\ (Stuck(m) \/ y \in unlinked)

ChainTxInv ==
    /\ linked \subseteq received /\ Genesis \in linked /\ \A x \in linked : Chain[x] \subseteq linked
    /\ candidates \subseteq linked
    /\ job.op # "aborted" => tip \in linked /\ coins \in linked /\ (job.op = "step" => job.target \in linked)

UnlinkedInv ==
    /\ \A x \in Blocks \ linked : \E y \in Chain[x] \ linked : DATA \notin status[y]
    /\ \A x \in Blocks : Failed(status[x]) => x \in linked \/ Stuck(x)
    /\ \A x \in received \ linked : DATA \in status[x] => x \in unlinked \/ Stuck(Parent[x])
    /\ \A x \in unlinked : DATA \in status[x] /\ \E m \in Chain[x] : Waits(x, m)

MarksLinked(d) ==
    \A x \in Blocks : Failed(d.status[x]) => \/ Chain[x] \subseteq d.received
                                             \/ x \notin d.received /\ FAILED_VALID \in d.status[x]

WaitInv == ChainTxInv /\ UnlinkedInv /\ MarksLinked(disk)

\* invalidateblock is called for no block that waits in mapBlocksUnlinked, and
\* reconsiderblock is not called.
CallsForLinked ==
    \A b \in Blocks \ {Genesis} : ~ReconsiderBlock(b) /\ (InvalidateBlock(b) => b \in linked \/ b \notin received)

\* Of two blocks of a chain, one builds on the other.
LEMMA ChainBetween ==
  ASSUME NEW x \in Blocks, NEW m \in Chain[x], NEW y \in Chain[x] \ Chain[m]
  PROVE  /\ m \in Blocks /\ y \in Blocks \ {Genesis} /\ m \in Chain[y] /\ m # y
         /\ Parent[y] \in Blocks /\ Parent[y] \in Chain[y] /\ m \in Chain[Parent[y]]
  <1>1. m \in Blocks /\ y \in Blocks /\ y # Genesis /\ m \in Chain[y] /\ m # y
    BY ChainAssumption, Zenon
  <1>2. Parent[y] \in Blocks /\ Chain[y] = Chain[Parent[y]] \cup {y}
    BY <1>1, ChainAssumption, ParentAssumption, Zenon
  <1> QED  BY <1>1, <1>2, ChainAssumption, Zenon

LEMMA WaitKept ==
  ASSUME Inv, WaitInv, UNCHANGED <<received, linked, unlinked>>, MarksLinked(disk)',
         \A x \in Blocks : /\ DATA \in status'[x] <=> DATA \in status[x]
                           /\ FAILED_VALID \in status[x] => FAILED_VALID \in status'[x]
                           /\ Failed(status'[x]) => \/ Failed(status[x]) \/ x \in linked
                                                    \/ x \notin received /\ FAILED_VALID \in status'[x],
         candidates' \subseteq linked,
         job'.op # "aborted" => /\ tip' \in linked /\ coins' \in linked
                                /\ job'.op = "step" => job'.target \in linked
  PROVE  WaitInv'
  <1>1. ChainTxInv'
    BY Zenon DEF WaitInv, ChainTxInv
  <1>2. \A m \in Blocks : Stuck(m) => Stuck(m)'
    BY Zenon DEF Stuck
  <1>3. \A x \in Blocks : Chain[x] \subseteq Blocks /\ (x # Genesis => Parent[x] \in Blocks)
    BY ChainAssumption, ParentAssumption, Zenon
  <1>4. linked \subseteq Blocks /\ received \subseteq Blocks /\ unlinked \subseteq Blocks /\ Genesis \in linked
    BY Zenon DEF Inv, TypeOK, WaitInv, ChainTxInv
  <1>5. \A x \in Blocks : \A m \in Chain[x] : Waits(x, m) => Waits(x, m)'
    BY <1>2, <1>3, Zenon DEF Waits
  <1>6. UnlinkedInv'
    <2>1. \A x \in Blocks \ linked : \E y \in Chain[x] \ linked : DATA \notin status'[y]
      BY <1>3, Zenon DEF WaitInv, UnlinkedInv
    <2>2. \A x \in Blocks : Failed(status'[x]) => x \in linked \/ Stuck(x)'
      BY <1>2, Zenon DEF WaitInv, UnlinkedInv, Stuck
    <2>3. \A x \in received \ linked : DATA \in status'[x] => x \in unlinked \/ Stuck(Parent[x])'
      BY <1>2, <1>3, <1>4, Zenon DEF WaitInv, UnlinkedInv
    <2>4. \A x \in unlinked : DATA \in status'[x] /\ \E m \in Chain[x] : Waits(x, m)'
      BY <1>4, <1>5, Zenon DEF WaitInv, UnlinkedInv
    <2> QED  BY <2>1, <2>2, <2>3, <2>4, Zenon DEF UnlinkedInv
  <1> QED  BY <1>1, <1>6, Zenon DEF WaitInv

\* What AcceptBlock changes, whether or not the block is linked.
LEMMA AcceptChanges ==
  ASSUME Inv, WaitInv, NEW z \in Blocks \ {Genesis}, NEW r \in BOOLEAN, AcceptBlock(z, r)
  PROVE  /\ DATA \notin status[z] /\ ~Failed(status[z]) /\ z \notin unlinked /\ ~Stuck(z) /\ job = Idle
         /\ received' = received \cup {z} /\ UNCHANGED <<tip, coins, job, disk>>
         /\ \A x \in Blocks : /\ DATA \in status'[x] <=> x = z \/ DATA \in status[x]
                              /\ Failed(status'[x]) <=> Failed(status[x])
                              /\ Stuck(x)' <=> Stuck(x)
         /\ \A x \in Blocks : DATA \in status[x] => x \in received
         /\ linked \subseteq Blocks /\ unlinked \subseteq Blocks /\ received \subseteq Blocks
  <1>1. /\ DATA \notin status[z] /\ job = Idle /\ received' = received \cup {z} /\ UNCHANGED <<tip, coins, job, disk>>
        /\ status' = [status EXCEPT ![z] = @ \cup {DATA, TRANSACTIONS}]
        /\ HeaderFits(z) \/ (z \in known /\ ~Failed(status[z]))
    BY Zenon DEF AcceptBlock, WantsBlock
  <1>2. ~Failed(status[z])
    BY <1>1, FailedFlags, ZenonT(60) DEF HeaderFits, Inv, IndexInv
  <1>3. z \notin unlinked
    BY <1>1, Zenon DEF WaitInv, UnlinkedInv
  <1>4. ~Stuck(z)
    BY <1>2, FailedFlags, Zenon DEF Stuck
  <1>5. \A x \in Blocks : IF x = z THEN status'[x] = status[x] \cup {DATA, TRANSACTIONS} ELSE status'[x] = status[x]
    BY <1>1, Zenon DEF Inv, TypeOK
  <1>6. \A x \in Blocks : /\ DATA \in status'[x] <=> x = z \/ DATA \in status[x]
                          /\ FAILED_VALID \in status'[x] <=> FAILED_VALID \in status[x]
                          /\ FAILED_CHILD \in status'[x] <=> FAILED_CHILD \in status[x]
    BY <1>5, FlagNames, Zenon
  <1>7. \A x \in Blocks : Failed(status'[x]) <=> Failed(status[x])
    BY <1>6, FailedFlags, Zenon
  <1>8. \A x \in Blocks : Stuck(x)' <=> Stuck(x)
    BY <1>1, <1>2, <1>6, FailedFlags, Zenon DEF Stuck
  <1>9. \A x \in Blocks : DATA \in status[x] => x \in received
    BY Zenon DEF Inv, FlagsInv
  <1>10. linked \subseteq Blocks /\ unlinked \subseteq Blocks /\ received \subseteq Blocks
    BY Zenon DEF Inv, TypeOK
  <1> QED  BY <1>1, <1>2, <1>3, <1>4, <1>6, <1>7, <1>8, <1>9, <1>10, Zenon

\* The block is linked, and with it what waits for it and for nothing else.
LEMMA AcceptLinkedWait ==
  ASSUME Inv, WaitInv, NEW z \in Blocks \ {Genesis}, NEW r \in BOOLEAN, AcceptBlock(z, r), Parent[z] \in linked
  PROVE  WaitInv'
  <1> DEFINE new == NowLinked(z)
  <1>1. /\ linked' = linked \cup new /\ unlinked' = unlinked \ (new \ {z})
        /\ candidates' \subseteq candidates \cup new
    BY Zenon DEF AcceptBlock
  <1>2. /\ DATA \notin status[z] /\ z \notin unlinked /\ ~Stuck(z) /\ job = Idle
        /\ received' = received \cup {z} /\ UNCHANGED <<tip, coins, job, disk>>
        /\ \A x \in Blocks : /\ DATA \in status'[x] <=> x = z \/ DATA \in status[x]
                             /\ Failed(status'[x]) <=> Failed(status[x])
                             /\ Stuck(x)' <=> Stuck(x)
        /\ \A x \in Blocks : DATA \in status[x] => x \in received
        /\ linked \subseteq Blocks /\ unlinked \subseteq Blocks /\ received \subseteq Blocks
    BY AcceptChanges, Zenon
  <1>3. /\ linked \subseteq received /\ Genesis \in linked /\ candidates \subseteq linked
        /\ \A x \in linked : Chain[x] \subseteq linked
        /\ \A x \in Blocks \ linked : \E y \in Chain[x] \ linked : DATA \notin status[y]
        /\ \A x \in Blocks : Failed(status[x]) => x \in linked \/ Stuck(x)
        /\ \A x \in received \ linked : DATA \in status[x] => x \in unlinked \/ Stuck(Parent[x])
        /\ \A x \in unlinked : DATA \in status[x] /\ \E m \in Chain[x] : Waits(x, m)
    BY Zenon DEF WaitInv, ChainTxInv, UnlinkedInv
  <1>4. \A x \in Blocks : x \in new <=> z \in Chain[x] /\ Chain[x] \ Chain[z] \subseteq unlinked
    BY ChainAntisymmetric, ChainAssumption, Zenon DEF NowLinked
  <1>5. z \in new /\ new \subseteq Blocks /\ \A x \in new : x = z \/ x \in unlinked
    BY <1>2, Zenon DEF NowLinked
  <1> HIDE DEF new
  <1>6. unlinked \subseteq received
    BY <1>2, <1>3, Zenon
  <1>7. ASSUME NEW x \in new
        PROVE  Chain[x] \subseteq linked \cup new
    <2> SUFFICES ASSUME NEW y \in Chain[x], y \notin linked
                 PROVE  y \in new
      BY Zenon
    <2>1. x \in Blocks /\ y \in Blocks /\ z \in Chain[x] /\ Chain[x] \ Chain[z] \subseteq unlinked
      BY <1>4, <1>5, <1>7, ChainAssumption, Zenon
    <2>2. CASE y \in Chain[z]
      <3>1. Chain[z] = Chain[Parent[z]] \cup {z} /\ Chain[Parent[z]] \subseteq linked
        BY <1>3, ChainAssumption, Zenon
      <3> QED  BY <1>5, <2>2, <3>1, Zenon
    <2>3. CASE y \notin Chain[z]
      <3>1. z \in Chain[y] /\ Chain[y] \subseteq Chain[x]
        BY <2>1, <2>3, ChainAssumption, Zenon
      <3> QED  BY <1>4, <2>1, <3>1, Zenon
    <2> QED  BY <2>2, <2>3, Zenon
  <1>8. ChainTxInv'
    <2>1. linked' \subseteq received' /\ Genesis \in linked' /\ \A x \in linked' : Chain[x] \subseteq linked'
      BY <1>1, <1>2, <1>3, <1>5, <1>6, <1>7, Zenon
    <2>2. candidates' \subseteq linked'
      BY <1>1, <1>3, Zenon
    <2>3. job.op = "idle" /\ tip \in linked /\ coins \in linked
      BY <1>2, Zenon DEF Idle, WaitInv, ChainTxInv
    <2> QED  BY <1>1, <1>2, <2>1, <2>2, <2>3, Zenon DEF ChainTxInv
  <1>9. ASSUME NEW x \in Blocks \ linked'
        PROVE  \E y \in Chain[x] \ linked' : DATA \notin status'[y]
    <2>1. PICK y \in Chain[x] \ linked : DATA \notin status[y]
      BY <1>1, <1>3, Zenon
    <2>2. x \in Blocks /\ x \notin new /\ y \in Blocks /\ Chain[x] \subseteq Blocks
      BY <1>1, <2>1, ChainAssumption, ZenonT(60)
    <2>3. \A w \in Chain[x] : w \notin linked /\ w # z /\ DATA \notin status[w] =>
              w \notin linked' /\ DATA \notin status'[w]
      BY <1>1, <1>2, <1>3, <1>5, <2>2, Zenon
    <2>4. CASE y = z
      <3>1. PICK e \in Chain[x] \ Chain[z] : e \notin unlinked
        BY <1>4, <2>1, <2>2, <2>4, Zenon
      <3>2. /\ e \in Blocks \ {Genesis} /\ z \in Chain[e] /\ e # z
            /\ Parent[e] \in Blocks /\ Parent[e] \in Chain[e] /\ Chain[e] \subseteq Chain[x]
        BY <2>1, <2>2, <2>4, <3>1, ChainBetween, ChainAssumption, Zenon
      <3>3. e \notin linked
        BY <1>3, <2>1, <2>4, <3>2, Zenon
      <3>4. CASE DATA \notin status[e]
        BY <2>3, <3>1, <3>2, <3>3, <3>4, Zenon
      <3>5. CASE DATA \in status[e]
        <4>1. Stuck(Parent[e])
          BY <1>2, <1>3, <3>1, <3>2, <3>3, <3>5, Zenon
        <4>2. Parent[e] \notin received /\ DATA \notin status[Parent[e]] /\ Parent[e] # z
          BY <1>2, <3>2, <4>1, Zenon DEF Stuck
        <4> QED  BY <1>3, <2>3, <3>2, <4>2, Zenon
      <3> QED  BY <3>4, <3>5, Zenon
    <2> QED  BY <2>1, <2>3, <2>4, Zenon
  <1>10. ASSUME NEW x \in unlinked'
         PROVE  DATA \in status'[x] /\ \E m \in Chain[x] : Waits(x, m)'
    <2>1. x \in unlinked /\ x \notin new /\ x \in Blocks /\ Chain[x] \subseteq Blocks
      BY <1>1, <1>2, <1>10, ChainAssumption
    <2>2. PICK m \in Chain[x] : Waits(x, m)
      BY <1>3, <2>1, Zenon
    <2>3. /\ DATA \notin status[m] /\ m \in Blocks
          /\ \A y \in Chain[x] \ Chain[m] : DATA \in status[y] /\ (Stuck(m) \/ y \in unlinked)
      BY <2>1, <2>2, Zenon DEF Waits
    <2>4. m # z
      BY <1>2, <1>4, <2>1, <2>2, <2>3, Zenon
    <2>5. ASSUME NEW y \in Chain[x] \ Chain[m], y \in new
          PROVE  FALSE
      <3>1. /\ y \in Blocks /\ m \in Chain[y] /\ z \in Chain[y] /\ Chain[y] \ Chain[z] \subseteq unlinked
            /\ Chain[y] \subseteq Chain[x]
        BY <1>4, <2>1, <2>2, <2>5, ChainBetween, ChainAssumption, Zenon
      <3>2. z \in Chain[m]
        BY <1>2, <2>3, <3>1, Zenon
      <3>3. m \notin Chain[z]
        BY <2>3, <2>4, <3>2, ChainAntisymmetric, Zenon
      <3> QED  BY <1>3, <2>3, <3>1, <3>3, Zenon
    <2>6. Waits(x, m)'
      BY <1>1, <1>2, <2>1, <2>2, <2>3, <2>4, <2>5, Zenon DEF Waits
    <2> QED  BY <1>2, <1>3, <2>1, <2>6, ZenonT(60)
  <1>11. \A x \in Blocks : Failed(status'[x]) => x \in linked' \/ Stuck(x)'
    BY <1>1, <1>2, <1>3, Zenon
  <1>12. \A x \in received' \ linked' : DATA \in status'[x] => x \in unlinked' \/ Stuck(Parent[x])'
    <2> SUFFICES ASSUME NEW x \in received' \ linked', DATA \in status'[x]
                 PROVE  x \in unlinked' \/ Stuck(Parent[x])'
      BY Zenon
    <2>1. x \in received \ linked /\ x \notin new /\ x # z /\ x \in Blocks \ {Genesis} /\ Parent[x] \in Blocks
      BY <1>1, <1>2, <1>3, <1>5, ParentAssumption, Zenon
    <2>2. DATA \in status[x]
      BY <1>2, <2>1, Zenon
    <2> QED  BY <1>1, <1>2, <1>3, <2>1, <2>2, Zenon
  <1>13. MarksLinked(disk)'
    BY <1>2, Zenon DEF WaitInv, MarksLinked
  <1> QED  BY <1>8, <1>9, <1>10, <1>11, <1>12, <1>13, Zenon DEF WaitInv, UnlinkedInv

\* The block waits too, and what waited for it waits for what is below it.
LEMMA AcceptWaitingWait ==
  ASSUME TreeFacts, Inv, WaitInv, NEW z \in Blocks \ {Genesis}, NEW r \in BOOLEAN, AcceptBlock(z, r), Parent[z] \notin linked
  PROVE  WaitInv'
  <1>1. /\ linked' = linked \ {z} /\ candidates' = candidates
        /\ unlinked' = IF Failed(status[Parent[z]]) THEN unlinked ELSE unlinked \cup {z}
    BY Zenon DEF AcceptBlock
  <1>2. /\ DATA \notin status[z] /\ z \notin unlinked /\ ~Stuck(z) /\ job = Idle
        /\ received' = received \cup {z} /\ UNCHANGED <<tip, coins, job, disk>>
        /\ \A x \in Blocks : /\ DATA \in status'[x] <=> x = z \/ DATA \in status[x]
                             /\ Failed(status'[x]) <=> Failed(status[x])
                             /\ Stuck(x)' <=> Stuck(x)
        /\ \A x \in Blocks : DATA \in status[x] => x \in received
        /\ linked \subseteq Blocks /\ unlinked \subseteq Blocks /\ received \subseteq Blocks
    BY AcceptChanges, Zenon
  <1>3. /\ linked \subseteq received /\ Genesis \in linked /\ candidates \subseteq linked
        /\ \A x \in linked : Chain[x] \subseteq linked
        /\ \A x \in Blocks \ linked : \E y \in Chain[x] \ linked : DATA \notin status[y]
        /\ \A x \in Blocks : Failed(status[x]) => x \in linked \/ Stuck(x)
        /\ \A x \in received \ linked : DATA \in status[x] => x \in unlinked \/ Stuck(Parent[x])
        /\ \A x \in unlinked : DATA \in status[x] /\ \E m \in Chain[x] : Waits(x, m)
    BY Zenon DEF WaitInv, ChainTxInv, UnlinkedInv
  <1> DEFINE p == Parent[z]
  <1>4. p \in Blocks /\ p \in Chain[p] /\ Chain[z] = Chain[p] \cup {z} /\ z \notin Chain[p] /\ Chain[p] \subseteq Blocks
    BY ChainAssumption, ParentAssumption, Zenon
  <1>5. p \notin linked /\ z \notin linked /\ linked' = linked
    BY <1>1, <1>3, <1>4, Zenon
  <1>6. z \in unlinked' \/ Stuck(p)
    BY <1>1, <1>3, <1>4, <1>5, Zenon
  <1>7. unlinked \subseteq unlinked' /\ unlinked' \subseteq unlinked \cup {z}
    BY <1>1, Zenon
  <1> HIDE DEF p
  <1>8. PICK n \in Chain[p] \ linked : DATA \notin status[n]
    BY <1>3, <1>4, <1>5, Zenon
  <1> DEFINE M == {y \in Chain[p] : DATA \notin status[y]}
  <1>9. PICK m \in M : M \subseteq Chain[m]
    <2>1. M \in SUBSET Chain[p] /\ M # {}
      BY <1>8, Zenon
    <2> HIDE DEF M
    <2> QED  BY <1>4, <2>1, HighestBlock
  <1>10. m \in Chain[p] /\ m \in Blocks /\ DATA \notin status[m] /\ m # z /\ n \in Chain[m]
    BY <1>4, <1>8, <1>9, Zenon
  <1>11. ASSUME NEW y \in Chain[p] \ Chain[m]
         PROVE  DATA \in status[y] /\ (Stuck(m) \/ y \in unlinked)
    <2>1. y \notin M
      BY <1>9, <1>11, Zenon
    <2>2. DATA \in status[y]
      BY <1>11, <2>1, Zenon
    <2>3. /\ y \in Blocks \ {Genesis} /\ m \in Chain[y]
          /\ Parent[y] \in Blocks /\ Parent[y] \in Chain[y] /\ m \in Chain[Parent[y]] /\ Chain[y] \subseteq Chain[p]
      BY <1>4, <1>10, <1>11, ChainBetween, ChainAssumption, Zenon
    <2>4. n \in Chain[y]
      BY <1>10, <2>3, ChainAssumption, Zenon
    <2>5. y \in received \ linked
      BY <1>2, <1>3, <1>8, <2>2, <2>3, <2>4, Zenon
    <2>6. ASSUME Stuck(Parent[y])
          PROVE  Stuck(m)
      <3>1. Parent[y] \in M
        BY <1>2, <2>3, <2>6, Zenon DEF Stuck
      <3>2. Parent[y] = m
        BY <1>9, <1>10, <2>3, <3>1, ChainAntisymmetric, Zenon
      <3> QED  BY <2>6, <3>2, Zenon
    <2> QED  BY <1>3, <2>2, <2>5, <2>6, Zenon
  <1>12. Stuck(p) => m = p
    <2> SUFFICES ASSUME Stuck(p)
                 PROVE  m = p
      BY Zenon
    <2>1. p \in M
      BY <1>2, <1>4, Zenon DEF Stuck
    <2> QED  BY <1>4, <1>9, <1>10, <2>1, ChainAntisymmetric, Zenon
  <1> HIDE DEF M
  <1>13. ASSUME NEW x \in Blocks, z \in Chain[x],
                \A y \in Chain[x] \ Chain[z] : DATA \in status[y] /\ y \in unlinked
         PROVE  Waits(x, m)'
    <2>1. m \in Chain[x] /\ DATA \notin status'[m] /\ Chain[x] \subseteq Blocks
      BY <1>2, <1>4, <1>10, <1>13, ChainAssumption, ZenonT(60)
    <2>2. ASSUME NEW y \in Chain[x] \ Chain[m]
          PROVE  DATA \in status'[y] /\ (Stuck(m)' \/ y \in unlinked')
      <3>1. CASE y \in Chain[x] \ Chain[z]
        BY <1>2, <1>7, <1>13, <2>1, <3>1, Zenon
      <3>2. CASE y = z
        BY <1>2, <1>6, <1>10, <1>12, <3>2, Zenon
      <3>3. CASE y \in Chain[p]
        BY <1>2, <1>7, <1>10, <1>11, <2>1, <2>2, <3>3, Zenon
      <3> QED  BY <1>4, <2>2, <3>1, <3>2, <3>3, Zenon
    <2> QED  BY <2>1, <2>2, Zenon DEF Waits
  <1>14. ASSUME NEW x \in unlinked'
         PROVE  DATA \in status'[x] /\ \E k \in Chain[x] : Waits(x, k)'
    <2>1. CASE x = z
      <3>1. Waits(z, m)' /\ m \in Chain[z]
        BY <1>4, <1>10, <1>13, ChainAssumption, Zenon
      <3> QED  BY <1>2, <2>1, <3>1, Zenon
    <2>2. CASE x # z
      <3>1. x \in unlinked /\ x \in Blocks /\ DATA \in status[x] /\ Chain[x] \subseteq Blocks
        BY <1>2, <1>3, <1>7, <1>14, <2>2, ChainAssumption, Zenon
      <3>2. PICK k \in Chain[x] : Waits(x, k)
        BY <1>3, <3>1, Zenon
      <3>3. CASE k = z
        <4>1. Waits(x, m)' /\ m \in Chain[x]
          BY <1>2, <1>4, <1>10, <1>13, <3>1, <3>2, <3>3, ChainAssumption, Zenon DEF Waits
        <4> QED  BY <1>2, <3>1, <4>1, Zenon
      <3>4. CASE k # z
        <4>1. Waits(x, k)'
          BY <1>2, <1>7, <3>1, <3>2, <3>4, Zenon DEF Waits
        <4> QED  BY <1>2, <3>1, <4>1, Zenon
      <3> QED  BY <3>3, <3>4, Zenon
    <2> QED  BY <2>1, <2>2, Zenon
  <1>15. \A x \in Blocks \ linked' : \E y \in Chain[x] \ linked' : DATA \notin status'[y]
    <2> SUFFICES ASSUME NEW x \in Blocks \ linked
                 PROVE  \E y \in Chain[x] \ linked : DATA \notin status'[y]
      BY <1>5, Zenon
    <2>1. PICK y \in Chain[x] \ linked : DATA \notin status[y]
      BY <1>3, Zenon
    <2>2. CASE y # z
      BY <1>2, <2>1, <2>2, ChainAssumption, ZenonT(60)
    <2>3. CASE y = z
      <3>1. n \in Chain[x] /\ n # z /\ n \in Blocks
        BY <1>4, <1>8, <2>1, <2>3, ChainAssumption, Zenon
      <3> QED  BY <1>2, <1>8, <3>1, Zenon
    <2> QED  BY <2>2, <2>3, Zenon
  <1>16. \A x \in Blocks : Failed(status'[x]) => x \in linked' \/ Stuck(x)'
    BY <1>2, <1>3, <1>5, Zenon
  <1>17. \A x \in received' \ linked' : DATA \in status'[x] => x \in unlinked' \/ Stuck(Parent[x])'
    <2> SUFFICES ASSUME NEW x \in received' \ linked, DATA \in status'[x]
                 PROVE  x \in unlinked' \/ Stuck(Parent[x])'
      BY <1>5, Zenon
    <2>1. x \in Blocks \ {Genesis} /\ Parent[x] \in Blocks
      BY <1>2, <1>3, ParentAssumption, Zenon
    <2>2. CASE x = z
      BY <1>2, <1>4, <1>6, <2>1, <2>2, Zenon DEF p
    <2>3. CASE x # z
      BY <1>2, <1>3, <1>7, <2>1, <2>3, Zenon
    <2> QED  BY <2>2, <2>3, Zenon
  <1>18. MarksLinked(disk)'
    BY <1>2, Zenon DEF WaitInv, MarksLinked
  <1>19. ChainTxInv'
    <2>1. job.op = "idle" /\ tip \in linked /\ coins \in linked
      BY <1>2, Zenon DEF Idle, WaitInv, ChainTxInv
    <2> QED  BY <1>1, <1>2, <1>3, <1>5, <2>1, Zenon DEF ChainTxInv
  <1> QED  BY <1>14, <1>15, <1>16, <1>17, <1>18, <1>19, Zenon DEF WaitInv, UnlinkedInv

\* FindMostWorkChain puts back what is above a block that lost its data.
LEMMA ActivateWait ==
  ASSUME TreeFacts, Inv, WaitInv, ActivateBestChain
  PROVE  WaitInv'
  <1>1. /\ FindMostWorkChain /\ job = Idle /\ UNCHANGED <<received, linked, tip, coins, disk>>
        /\ unlinked' = unlinked \cup WaitingAgain /\ candidates' \subseteq candidates
    BY Zenon DEF ActivateBestChain, FindMostWorkChain
  <1>2. /\ linked \subseteq received /\ Genesis \in linked /\ candidates \subseteq linked
        /\ \A x \in linked : Chain[x] \subseteq linked
        /\ \A x \in Blocks \ linked : \E y \in Chain[x] \ linked : DATA \notin status[y]
        /\ \A x \in Blocks : Failed(status[x]) => x \in linked \/ Stuck(x)
        /\ \A x \in received \ linked : DATA \in status[x] => x \in unlinked \/ Stuck(Parent[x])
        /\ \A x \in unlinked : DATA \in status[x] /\ \E m \in Chain[x] : Waits(x, m)
        /\ linked \subseteq Blocks /\ unlinked \subseteq Blocks /\ received \subseteq Blocks
    BY Zenon DEF WaitInv, ChainTxInv, UnlinkedInv, Inv, TypeOK
  <1>3. ASSUME NEW d \in PassedOver
        PROVE  /\ FirstBad(d) \in Blocks /\ FirstBad(d) \in BadOnPath(d) /\ d \in linked
               /\ \A x \in Above(d) : /\ x \in Blocks /\ x \in linked /\ DATA \in status[x]
                                      /\ FirstBad(d) \in Chain[x] /\ Chain[x] \ Chain[FirstBad(d)] \subseteq Above(d)
    <2>1. /\ FirstBad(d) \in Blocks /\ FirstBad(d) \in BadOnPath(d) /\ d \in linked /\ Above(d) \subseteq Blocks
          /\ \A x \in Above(d) : DATA \in status[x] /\ FirstBad(d) \in Chain[x]
      BY <1>2, FirstBadFits, Zenon DEF PassedOver
    <2>2. \A x \in Above(d) : x \in Chain[d] /\ Chain[x] \subseteq Chain[d]
      BY <1>2, <2>1, ChainAssumption, Zenon DEF Above
    <2>3. \A x \in Above(d) : Chain[x] \ Chain[FirstBad(d)] \subseteq Above(d)
      BY <2>2, Zenon DEF Above
    <2> QED  BY <1>2, <2>1, <2>2, <2>3, Zenon
  <1>4. ASSUME NEW x \in Blocks
        PROVE  /\ DATA \in status'[x] <=> DATA \in status[x]
               /\ FAILED_VALID \in status[x] <=> FAILED_VALID \in status'[x]
               /\ Failed(status'[x]) => Failed(status[x]) \/ x \in linked
    <2>1. \/ status'[x] = status[x]
          \/ status'[x] = status[x] \cup {FAILED_CHILD} /\ \E d \in Failing : x \in Above(d)
      BY <1>1, <1>4, MostWorkMarks, Zenon
    <2>2. (\E d \in Failing : x \in Above(d)) => x \in linked
      BY <1>3, Zenon DEF Failing
    <2> QED  BY <2>1, <2>2, FlagNames, Zenon
  <1>5. \A x \in Blocks : Stuck(x)' <=> Stuck(x)
    BY <1>1, <1>4, Zenon DEF Stuck
  <1>6. ASSUME NEW x \in unlinked'
        PROVE  DATA \in status'[x] /\ \E m \in Chain[x] : Waits(x, m)'
    <2>1. CASE x \in unlinked
      <3>1. x \in Blocks /\ Chain[x] \subseteq Blocks /\ DATA \in status[x]
        BY <1>2, <2>1, ChainAssumption, Zenon
      <3>2. PICK m \in Chain[x] : Waits(x, m)
        BY <1>2, <2>1, Zenon
      <3>3. Waits(x, m)'
        BY <1>1, <1>4, <1>5, <3>1, <3>2, Zenon DEF Waits
      <3> QED  BY <1>4, <3>1, <3>3, Zenon
    <2>2. CASE x \in WaitingAgain
      <3>1. PICK d \in PassedOver \ Failing : x \in Above(d)
        BY <2>2, Zenon DEF WaitingAgain
      <3>2. Above(d) \subseteq unlinked'
        BY <1>1, Zenon DEF WaitingAgain
      <3>3. PICK m \in Blocks : m = FirstBad(d)
        BY <1>3, Zenon
      <3>4. m \in Chain[x] /\ DATA \notin status[m] /\ x \in Blocks /\ Chain[x] \ Chain[m] \subseteq Above(d)
        BY <1>3, <3>1, <3>3, Zenon DEF Failing, BadOnPath
      <3>5. \A y \in Above(d) : y \in Blocks /\ DATA \in status[y]
        BY <1>3, Zenon
      <3>6. Waits(x, m)'
        BY <1>4, <3>2, <3>4, <3>5, Zenon DEF Waits
      <3> QED  BY <1>4, <3>1, <3>4, <3>5, <3>6, Zenon
    <2> QED  BY <1>1, <1>6, <2>1, <2>2, Zenon
  <1>7. \A x \in Blocks \ linked : \E y \in Chain[x] \ linked : DATA \notin status'[y]
    BY <1>2, <1>4, ChainAssumption, Zenon
  <1>8. \A x \in Blocks : Failed(status'[x]) => x \in linked \/ Stuck(x)'
    BY <1>2, <1>4, <1>5, Zenon
  <1>9. \A x \in received \ linked : DATA \in status'[x] => x \in unlinked' \/ Stuck(Parent[x])'
    BY <1>1, <1>2, <1>4, <1>5, ParentAssumption, Zenon
  <1>10. MarksLinked(disk)'
    BY <1>1, Zenon DEF WaitInv, MarksLinked
  <1>11. ChainTxInv'
    <2>1. job.op = "idle" /\ tip \in linked /\ coins \in linked
      BY <1>1, Zenon DEF Idle, WaitInv, ChainTxInv
    <2>2. job'.op = "step" => job'.target \in candidates
      BY <2>1 DEF ActivateBestChain, StartShutdown, Job, MostWork, Usable
    <2> QED  BY <1>1, <1>2, <2>1, <2>2, Zenon DEF ChainTxInv
  <1> QED  BY <1>1, <1>6, <1>7, <1>8, <1>9, <1>10, <1>11, Zenon DEF WaitInv, UnlinkedInv

\* A block whose data is pruned is what the blocks above it wait for.
LEMMA PruneWait ==
  ASSUME TreeFacts, Inv, WaitInv, NEW S \in PruneSets, status' = PruneFlags(S), unlinked' = PruneUnlinked(S),
         UNCHANGED <<received, linked, candidates, tip, coins, job>>, MarksLinked(disk)'
  PROVE  WaitInv'
  <1>1. /\ linked \subseteq received /\ Genesis \in linked /\ \A x \in linked : Chain[x] \subseteq linked
        /\ \A x \in Blocks \ linked : \E y \in Chain[x] \ linked : DATA \notin status[y]
        /\ \A x \in Blocks : Failed(status[x]) => x \in linked \/ Stuck(x)
        /\ \A x \in received \ linked : DATA \in status[x] => x \in unlinked \/ Stuck(Parent[x])
        /\ \A x \in unlinked : DATA \in status[x] /\ \E m \in Chain[x] : Waits(x, m)
        /\ linked \subseteq Blocks /\ unlinked \subseteq Blocks /\ received \subseteq Blocks
        /\ \A x \in Blocks : DATA \in status[x] => x \in received
    BY Zenon DEF WaitInv, ChainTxInv, UnlinkedInv, Inv, TypeOK, FlagsInv
  <1>2. S \subseteq Blocks /\ S \subseteq received
    <2>1. \A x \in S : x \in known /\ DATA \in status[x]
      BY Zenon DEF PruneSets, Prunable
    <2> QED  BY <1>1, <2>1, Zenon DEF Inv, TypeOK
  <1>3. \A x \in Blocks : /\ DATA \in status'[x] <=> DATA \in status[x] /\ x \notin S
                          /\ FAILED_VALID \in status'[x] <=> FAILED_VALID \in status[x]
                          /\ Failed(status'[x]) <=> Failed(status[x])
    <2>1. \A x \in Blocks : status'[x] = IF x \in S THEN status[x] \ {DATA, UNDO} ELSE status[x]
      BY Zenon DEF PruneFlags
    <2> QED  BY <2>1, PruneFlagsFit, FlagNames, Zenon
  <1>4. \A x \in Blocks : Stuck(x)' <=> Stuck(x)
    BY <1>3, Zenon DEF Stuck
  <1>5. unlinked' = unlinked \ S
    BY Zenon DEF PruneUnlinked
  <1>6. ASSUME NEW x \in unlinked'
        PROVE  DATA \in status'[x] /\ \E m \in Chain[x] : Waits(x, m)'
    <2>1. x \in unlinked /\ x \in Blocks /\ DATA \in status'[x] /\ Chain[x] \subseteq Blocks
      BY <1>1, <1>3, <1>5, <1>6, ChainAssumption, Zenon
    <2>2. PICK m \in Chain[x] : Waits(x, m)
      BY <1>1, <2>1, Zenon
    <2>3. /\ DATA \notin status[m] /\ m \in Blocks
          /\ \A y \in Chain[x] \ Chain[m] : DATA \in status[y] /\ (Stuck(m) \/ y \in unlinked)
      BY <2>1, <2>2, Zenon DEF Waits
    <2> DEFINE T == S \cap (Chain[x] \ Chain[m])
    <2>4. CASE T = {}
      <3>1. Waits(x, m)'
        BY <1>3, <1>4, <1>5, <2>1, <2>2, <2>3, <2>4, Zenon DEF Waits
      <3> QED  BY <2>1, <3>1, Zenon
    <2>5. CASE T # {}
      <3>1. T \in SUBSET Chain[x]
        BY Zenon
      <3> HIDE DEF T
      <3>2. PICK k \in T : T \subseteq Chain[k]
        BY <2>1, <2>5, <3>1, HighestBlock
      <3>3. k \in S /\ k \in Chain[x] /\ k \notin Chain[m] /\ k \in Blocks /\ m \in Chain[k]
        BY <2>1, <2>2, <3>2, ChainBetween, Zenon DEF T
      <3>4. ASSUME NEW y \in Chain[x] \ Chain[k]
            PROVE  DATA \in status'[y] /\ y \in unlinked'
        <4>1. y \in Chain[x] \ Chain[m] /\ y \in Blocks /\ y \notin S
          BY <2>1, <3>2, <3>3, <3>4, ChainAssumption, Zenon DEF T
        <4>2. DATA \in status'[y] /\ y \in received
          BY <1>1, <1>3, <2>3, <4>1, Zenon
        <4>3. /\ y # Genesis /\ m \in Chain[y] /\ k \in Chain[Parent[y]] /\ Parent[y] \in Blocks
              /\ Parent[y] \in Chain[y] /\ Chain[y] \subseteq Chain[x]
          BY <2>1, <2>2, <3>3, <3>4, <4>1, ChainBetween, ChainAssumption, ZenonT(60)
        <4>4. y \in unlinked
          <5> SUFFICES ASSUME Stuck(m)
                       PROVE  y \in unlinked
            BY <2>3, <4>1, Zenon
          <5>1. y \notin linked
            BY <1>1, <4>3, Zenon DEF Stuck
          <5>2. Parent[y] \in received
            <6>1. Parent[y] \notin Chain[m]
              BY <2>3, <3>3, <4>3, ChainAssumption, Zenon
            <6> QED  BY <1>1, <2>3, <4>3, <6>1, Zenon
          <5> QED  BY <1>1, <2>3, <4>1, <4>2, <5>1, <5>2, Zenon DEF Stuck
        <4> QED  BY <1>5, <4>1, <4>2, <4>4, Zenon
      <3>5. Waits(x, k)'
        BY <1>3, <3>3, <3>4, Zenon DEF Waits
      <3> QED  BY <2>1, <3>3, <3>5, Zenon
    <2> QED  BY <2>4, <2>5, Zenon
  <1>7. \A x \in Blocks \ linked : \E y \in Chain[x] \ linked : DATA \notin status'[y]
    BY <1>1, <1>3, ChainAssumption, Zenon
  <1>8. \A x \in Blocks : Failed(status'[x]) => x \in linked \/ Stuck(x)'
    BY <1>1, <1>3, <1>4, Zenon
  <1>9. \A x \in received \ linked : DATA \in status'[x] => x \in unlinked' \/ Stuck(Parent[x])'
    BY <1>1, <1>3, <1>4, <1>5, ParentAssumption, Zenon
  <1>10. ChainTxInv'
    BY Zenon DEF WaitInv, ChainTxInv
  <1> QED  BY <1>6, <1>7, <1>8, <1>9, <1>10, Zenon DEF WaitInv, UnlinkedInv

\* A mark is written together with the blocks that are linked by then.
LEMMA MarksLinkedWritten ==
  ASSUME Inv, WaitInv, NEW S \in PruneSets, NEW d, DiskFits(d, PruneFlags(S), {})
  PROVE  MarksLinked(d)
  <1> SUFFICES ASSUME NEW x \in Blocks, Failed(d.status[x])
               PROVE  \/ Chain[x] \subseteq d.received
                      \/ x \notin d.received /\ FAILED_VALID \in d.status[x]
    BY Zenon DEF MarksLinked
  <1>1. /\ \A y \in Blocks : /\ d.status[y] \subseteq PruneFlags(S)[y]
                             /\ PruneFlags(S)[y] \subseteq d.status[y] \cup {FAILED_CHILD}
                             /\ y \in received => y \in d.received
        /\ d.received \subseteq received
    BY Zenon DEF DiskFits
  <1>2. Failed(PruneFlags(S)[x])
    BY <1>1, FailedFlags, Zenon
  <1>3. Failed(status[x])
    BY <1>2, PruneFlagsFit, Zenon
  <1>4. CASE x \in linked
    BY <1>1, <1>4, ChainAssumption, Zenon DEF WaitInv, ChainTxInv
  <1>5. CASE Stuck(x)
    <2>1. FAILED_VALID \in PruneFlags(S)[x]
      BY <1>5, PruneFlagsFit, FlagNames, Zenon DEF Stuck
    <2>2. FAILED_VALID \in d.status[x]
      BY <1>1, <2>1, FlagNames, Zenon
    <2> QED  BY <1>1, <1>5, <2>2, Zenon DEF Stuck
  <1> QED  BY <1>3, <1>4, <1>5, Zenon DEF WaitInv, UnlinkedInv

\* LoadBlockIndexDB collects again what waits.
LEMMA LoadWait ==
  ASSUME TreeFacts, Inv, NEW d, NEW st, NEW D, DiskFits(d, st, D), DataFit(d.status, d.received), MarksLinked(d),
         LoadBlockIndexDB(d), disk' = d,
         d \in [index : SUBSET Blocks, received : SUBSET Blocks,
                status : [Blocks -> SUBSET Flags], tip : Blocks]
  PROVE  WaitInv'
  <1>1. /\ received' = d.received /\ status' = d.status
        /\ linked' = {x \in d.index : Chain[x] \subseteq d.received}
        /\ unlinked' = {x \in d.received \ {Genesis} : Parent[x] \notin linked'}
    BY Zenon DEF LoadBlockIndexDB
  <1>2. LinkInv'
    BY LoadLinks, Zenon
  <1>3. /\ Genesis \in d.received /\ d.received \subseteq d.index /\ d.index \subseteq Blocks /\ Genesis \in d.index
        /\ \A x \in Blocks : DATA \in d.status[x] <=> x \in d.received
        /\ \A x \in d.index : Chain[x] \subseteq d.index
    BY Zenon DEF DiskFits, FlagsInv, DataFit
  <1>4. ChainTxInv'
    <2>1. Genesis \in linked'
      BY <1>1, <1>3, ChainAssumption, Zenon
    <2> QED  BY <1>2, <2>1, Zenon DEF LinkInv, ChainTxInv
  <1>5. \A x \in Blocks : x \in linked' <=> Chain[x] \subseteq d.received
    BY <1>1, <1>3, ChainAssumption, Zenon
  <1>6. \A x \in Blocks \ linked' : \E y \in Chain[x] \ linked' : DATA \notin status'[y]
    <2>1. \A y \in Blocks \ d.received : y \notin linked' /\ DATA \notin status'[y]
      BY <1>1, <1>3, <1>5, ChainAssumption, Zenon
    <2> QED  BY <1>5, <2>1, ChainAssumption
  <1>7. \A x \in Blocks : Failed(status'[x]) => x \in linked' \/ Stuck(x)'
    BY <1>1, <1>5, Zenon DEF MarksLinked, Stuck
  <1>8. \A x \in received' \ linked' : x \in unlinked'
    <2> SUFFICES ASSUME NEW x \in d.received, x \notin linked'
                 PROVE  x \in unlinked'
      BY <1>1, Zenon
    <2>1. x \in Blocks \ {Genesis} /\ Chain[x] = Chain[Parent[x]] \cup {x} /\ Parent[x] \in Blocks
      BY <1>3, <1>4, ChainAssumption, ParentAssumption, Zenon DEF ChainTxInv
    <2> QED  BY <1>1, <1>5, <2>1, Zenon
  <1>9. ASSUME NEW x \in unlinked'
        PROVE  DATA \in status'[x] /\ \E m \in Chain[x] : Waits(x, m)'
    <2>1. x \in Blocks \ {Genesis} /\ x \in d.received /\ Parent[x] \notin linked' /\ Parent[x] \in Blocks
          /\ Chain[Parent[x]] \subseteq Chain[x] /\ Chain[x] \subseteq Blocks
      BY <1>1, <1>3, <1>9, ChainAssumption, ParentAssumption, ZenonT(60)
    <2> DEFINE M == Chain[x] \ d.received
    <2>2. M \in SUBSET Chain[x] /\ M # {}
      BY <1>5, <2>1, Zenon
    <2> HIDE DEF M
    <2>3. PICK m \in M : M \subseteq Chain[m]
      BY <2>1, <2>2, HighestBlock
    <2>4. m \in Chain[x] /\ m \notin d.received /\ m \in Blocks
      BY <2>1, <2>3, Zenon DEF M
    <2>5. ASSUME NEW y \in Chain[x] \ Chain[m]
          PROVE  DATA \in status'[y] /\ y \in unlinked'
      <3>1. y \in d.received /\ y \in Blocks \ {Genesis} /\ m \in Chain[Parent[y]] /\ Parent[y] \in Blocks
        BY <2>1, <2>3, <2>4, <2>5, ChainBetween, Zenon DEF M
      <3>2. Parent[y] \notin linked'
        BY <1>5, <2>4, <3>1, Zenon
      <3> QED  BY <1>1, <1>3, <3>1, <3>2, Zenon
    <2>6. Waits(x, m)'
      BY <1>1, <1>3, <2>4, <2>5, Zenon DEF Waits
    <2> QED  BY <1>1, <1>3, <2>1, <2>4, <2>6, Zenon
  <1>10. UnlinkedInv'
    BY <1>6, <1>7, <1>8, <1>9, Zenon DEF UnlinkedInv
  <1> QED  BY <1>4, <1>10, Zenon DEF WaitInv, MarksLinked

\* RewindBlockIndex forgets a block together with all that builds on it.
LEMMA RewindEraseWait ==
  ASSUME TreeFacts, Inv, RestartsApart, WaitInv, RewindErase
  PROVE  WaitInv'
  <1> DEFINE gone == {x \in known : ~SufficientlyValidated(x) /\ x \notin Chain[tip]}
  <1>1. /\ job.op = "rewind" /\ coins = tip /\ received' = received \ gone
        /\ linked' = linked \ gone /\ unlinked' = unlinked \ gone
        /\ candidates' = RewindCandidates(gone) /\ job' = Job("flush", tip, tip)
        /\ tip' = tip /\ coins' = coins
        /\ status' = [x \in Blocks |-> IF x \in gone THEN {} ELSE status[x]]
        /\ disk' = [disk EXCEPT !.index = @ \ gone, !.received = @ \ gone,
                                !.status = [x \in Blocks |-> IF x \in gone THEN {} ELSE @[x]]]
    BY Zenon DEF RewindErase, RewindUnlinked
  <1>2. /\ gone \cap Chain[tip] = {} /\ tip \in Blocks /\ Genesis \notin gone
        /\ \A x \in known \ gone : Chain[x] \cap gone = {}
    BY GoneFits, Zenon
  <1> HIDE DEF gone
  <1>3. /\ linked \subseteq received /\ Genesis \in linked /\ \A x \in linked : Chain[x] \subseteq linked
        /\ candidates \subseteq linked
        /\ \A x \in Blocks \ linked : \E y \in Chain[x] \ linked : DATA \notin status[y]
        /\ \A x \in Blocks : Failed(status[x]) => x \in linked \/ Stuck(x)
        /\ \A x \in received \ linked : DATA \in status[x] => x \in unlinked \/ Stuck(Parent[x])
        /\ \A x \in unlinked : DATA \in status[x] /\ \E m \in Chain[x] : Waits(x, m)
        /\ linked \subseteq known /\ unlinked \subseteq known /\ received \subseteq known /\ known \subseteq Blocks
    BY Zenon DEF WaitInv, ChainTxInv, UnlinkedInv, Inv, TypeOK
  <1>4. \A x \in Blocks : status'[x] = IF x \in gone THEN {} ELSE status[x]
    BY <1>1, Zenon
  <1>5. \A x \in Blocks \ gone : Stuck(x) => Stuck(x)'
    BY <1>1, <1>4, Zenon DEF Stuck
  <1>6. ChainTxInv'
    <2>1. candidates' \subseteq linked \ gone
      BY <1>1, <1>3, Zenon DEF RewindCandidates, Pruned
    <2>2. \A x \in linked \ gone : Chain[x] \subseteq linked \ gone
      BY <1>2, <1>3, Zenon
    <2>3. tip \in linked \ gone /\ job'.op = "flush"
      BY <1>1, <1>2, ChainAssumption, Zenon DEF WaitInv, ChainTxInv, Job
    <2> QED  BY <1>1, <1>2, <1>3, <2>1, <2>2, <2>3, Zenon DEF ChainTxInv
  <1>7. ASSUME NEW x \in unlinked'
        PROVE  DATA \in status'[x] /\ \E m \in Chain[x] : Waits(x, m)'
    <2>1. x \in unlinked /\ x \in known \ gone /\ x \in Blocks /\ Chain[x] \subseteq Blocks /\ Chain[x] \cap gone = {}
      BY <1>1, <1>2, <1>3, <1>7, ChainAssumption, Zenon
    <2>2. PICK m \in Chain[x] : Waits(x, m)
      BY <1>3, <2>1, Zenon
    <2>3. Waits(x, m)'
      BY <1>1, <1>4, <1>5, <2>1, <2>2, Zenon DEF Waits
    <2> QED  BY <1>3, <1>4, <2>1, <2>3, Zenon
  <1>8. ASSUME NEW x \in Blocks \ linked'
        PROVE  \E y \in Chain[x] \ linked' : DATA \notin status'[y]
    <2>1. CASE x \in gone
      BY <1>1, <1>4, <2>1, ChainAssumption, Zenon
    <2>2. CASE x \notin gone
      <3>1. PICK y \in Chain[x] \ linked : DATA \notin status[y]
        BY <1>1, <1>3, <2>2, Zenon
      <3> QED  BY <1>1, <1>4, <3>1, ChainAssumption, Zenon
    <2> QED  BY <2>1, <2>2, Zenon
  <1>9. \A x \in Blocks : Failed(status'[x]) => x \in linked' \/ Stuck(x)'
    BY <1>1, <1>3, <1>4, <1>5, FailedFlags, Zenon
  <1>10. ASSUME NEW x \in received' \ linked', DATA \in status'[x]
         PROVE  x \in unlinked' \/ Stuck(Parent[x])'
    <2>1. x \in received \ linked /\ x \notin gone /\ x \in known /\ x \in Blocks \ {Genesis}
      BY <1>1, <1>3, <1>10, Zenon
    <2>2. Parent[x] \in Blocks \ gone
      BY <1>2, <2>1, ChainAssumption, ParentAssumption, ZenonT(60)
    <2> QED  BY <1>1, <1>3, <1>4, <1>5, <1>10, <2>1, <2>2, Zenon
  <1>11. MarksLinked(disk)'
    <2>1. /\ disk'.received = disk.received \ gone
          /\ \A x \in Blocks : disk'.status[x] = IF x \in gone THEN {} ELSE disk.status[x]
      BY <1>1, Zenon DEF Inv, TypeOK
    <2>2. \A x \in Blocks : Failed(disk.status[x]) => x \in known
      BY FailedFlags DEF Inv, DiskInv, DiskFits
    <2>3. ASSUME NEW x \in Blocks, Failed(disk'.status[x])
          PROVE  \/ Chain[x] \subseteq disk'.received
                 \/ x \notin disk'.received /\ FAILED_VALID \in disk'.status[x]
      <3>1. x \notin gone /\ Failed(disk.status[x])
        BY <2>1, <2>3, FailedFlags, Zenon
      <3>2. Chain[x] \cap gone = {}
        BY <1>2, <2>2, <3>1, Zenon
      <3> QED  BY <2>1, <3>1, <3>2, Zenon DEF WaitInv, MarksLinked
    <2> QED  BY <2>3, Zenon DEF MarksLinked
  <1> QED  BY <1>6, <1>7, <1>8, <1>9, <1>10, <1>11, Zenon DEF WaitInv, UnlinkedInv

\* DisconnectTip stays among linked blocks.
LEMMA DisconnectWait ==
  ASSUME Inv, WaitInv, DisconnectTip, coins = tip, tip # Genesis, job.op # "aborted"
  PROVE  coins' \in linked /\ (job'.op = "step" => job'.target \in linked)
  <1>1. tip \in linked /\ Parent[tip] \in linked
    BY ChainAssumption, ParentAssumption, ZenonT(60) DEF WaitInv, ChainTxInv, Inv, TypeOK
  <1> QED  BY <1>1, DisconnectTipCases DEF Job, Idle, WaitInv, ChainTxInv

\* One block is marked: a linked one, or one that was not received.
LEMMA MarkWait ==
  ASSUME Inv, WaitInv, UNCHANGED <<received, linked, unlinked, disk>>, NEW b \in Blocks, NEW f \in FAILED_MASK,
         status' = [status EXCEPT ![b] = @ \cup {f}],
         b \in linked \/ (b \notin received /\ f = FAILED_VALID),
         candidates' \subseteq linked,
         job'.op # "aborted" => /\ tip' \in linked /\ coins' \in linked
                                /\ job'.op = "step" => job'.target \in linked
  PROVE  WaitInv'
  <1>1. \A x \in Blocks : IF x = b THEN status'[x] = status[x] \cup {f} ELSE status'[x] = status[x]
    BY Zenon DEF Inv, TypeOK
  <1>2. f = FAILED_VALID \/ f = FAILED_CHILD
    BY Zenon DEF FAILED_MASK
  <1>3. \A x \in Blocks : /\ DATA \in status'[x] <=> DATA \in status[x]
                          /\ FAILED_VALID \in status[x] => FAILED_VALID \in status'[x]
    BY <1>1, <1>2, FlagNames, Zenon
  <1>4. \A x \in Blocks : x # b => (Failed(status'[x]) => Failed(status[x]))
    BY <1>1, Zenon
  <1>5. b \notin received /\ f = FAILED_VALID => FAILED_VALID \in status'[b]
    BY <1>1, Zenon
  <1>6. MarksLinked(disk)'
    BY Zenon DEF WaitInv, MarksLinked
  <1> QED  BY <1>3, <1>4, <1>5, <1>6, WaitKept, Zenon

LEMMA NextWait ==
  ASSUME TreeFacts, Inv, RestartsApart, fPruneMode \/ DataInv, WaitInv, [Next /\ CallsForLinked]_vars
  PROVE  WaitInv'
  <1>1. /\ candidates \subseteq linked /\ linked \subseteq received /\ Genesis \in linked /\ linked \subseteq Blocks
        /\ \A x \in linked : Chain[x] \subseteq linked
        /\ job.op # "aborted" => tip \in linked /\ coins \in linked /\ (job.op = "step" => job.target \in linked)
        /\ MarksLinked(disk)
    BY Zenon DEF WaitInv, ChainTxInv, Inv, TypeOK
  <1>2. UNCHANGED disk => MarksLinked(disk)'
    BY <1>1, Zenon DEF MarksLinked
  <1>3. /\ UNCHANGED <<received, linked, unlinked, status, disk>> /\ candidates' \subseteq linked
        /\ job'.op # "aborted" => /\ tip' \in linked /\ coins' \in linked
                                  /\ job'.op = "step" => job'.target \in linked
        => WaitInv'
    BY <1>2, WaitKept, Zenon
  <1>4. ASSUME NEW b \in Blocks \ {Genesis}, AcceptBlockHeader(b)
        PROVE  WaitInv'
    BY <1>1, <1>3, <1>4, Zenon DEF AcceptBlockHeader
  <1>5. ASSUME NEW b \in Blocks \ {Genesis}, NEW r \in BOOLEAN, RejectBlock(b, r)
        PROVE  WaitInv'
    <2>1. /\ UNCHANGED <<received, linked, unlinked, disk, candidates, tip, coins, job>>
          /\ status' = [status EXCEPT ![b] = @ \cup {FAILED_VALID}] /\ b \in BadBlocks
      BY <1>5, Zenon DEF RejectBlock
    <2>2. b \notin received /\ FAILED_VALID \in FAILED_MASK
      BY <2>1, Zenon DEF Inv, RulesInv, FAILED_MASK
    <2> QED  BY <1>1, <2>1, <2>2, MarkWait, Zenon
  <1>6. ASSUME NEW b \in Blocks \ {Genesis}, NEW r \in BOOLEAN, AcceptBlock(b, r)
        PROVE  WaitInv'
    BY <1>6, AcceptLinkedWait, AcceptWaitingWait, Zenon
  <1>7. ASSUME NEW b \in Blocks \ {Genesis}, InvalidateBlock(b), CallsForLinked
        PROVE  WaitInv'
    <2>1. /\ b \in linked \/ b \notin received
          /\ job = Idle /\ job' = Job("invalidate", b, tip)
          /\ UNCHANGED <<received, linked, unlinked, disk, tip, coins>>
          /\ status' = [status EXCEPT ![b] = @ \cup {FAILED_VALID}] /\ candidates' \subseteq candidates
      BY <1>7, Zenon DEF InvalidateBlock, CallsForLinked
    <2>2. FAILED_VALID \in FAILED_MASK
      BY Zenon DEF FAILED_MASK
    <2> QED  BY <1>1, <2>1, <2>2, MarkWait, Zenon DEF Idle, Job
  <1>8. CASE ActivateBestChain
    BY <1>8, ActivateWait, Zenon
  <1>9. CASE StepDisconnect
    <2>1. /\ tip # Genesis /\ coins = tip /\ job.op = "step" /\ DisconnectTip
          /\ UNCHANGED <<received, linked, unlinked, status, disk, candidates, tip>>
      BY <1>9, ChainAssumption, Zenon DEF StepDisconnect, Inv, TypeOK, index
    <2> QED  BY <1>1, <1>3, <2>1, DisconnectWait, Zenon
  <1>10. CASE StepConnect
    <2> DEFINE b == NextTowards(tip, job.target)
    <2>1. /\ job.op = "step" /\ coins = tip /\ tip \in Chain[job.target] /\ coins' = b
          /\ status' = [status EXCEPT ![b] = ConnectedFlags(b)]
          /\ UNCHANGED <<received, linked, candidates, unlinked, tip, job, disk>>
      BY <1>10, Zenon DEF StepConnect
    <2>2. b \in Chain[job.target] /\ b \in Blocks
      BY <2>1, NextBlock, Zenon
    <2> HIDE DEF b
    <2>3. \A x \in Blocks : status'[x] = IF x = b THEN ConnectedFlags(b) ELSE status[x]
      BY <2>1, <2>2, Zenon DEF Inv, TypeOK
    <2>4. /\ \A x \in status[b] : x \in ConnectedFlags(b)
          /\ \A x \in ConnectedFlags(b) : x \in status[b] \/ x \in {UNDO, SCRIPTS, ACTIVATES}
      BY Zenon DEF ConnectedFlags
    <2>5. \A x \in Blocks : /\ DATA \in status'[x] <=> DATA \in status[x]
                            /\ FAILED_VALID \in status[x] => FAILED_VALID \in status'[x]
                            /\ Failed(status'[x]) => Failed(status[x])
      BY <2>3, <2>4, FailedFlags, FlagNames
    <2>6. b \in linked
      BY <1>1, <2>1, <2>2, Zenon
    <2> QED  BY <1>1, <1>2, <2>1, <2>5, <2>6, WaitKept, Zenon
  <1>11. CASE StepInvalid
    <2> DEFINE b == NextTowards(tip, job.target)
    <2>1. /\ job.op = "step" /\ coins = tip /\ tip \in Chain[job.target] /\ job' = Idle
          /\ status' = [status EXCEPT ![b] = @ \cup {FAILED_VALID}] /\ candidates' \subseteq candidates
          /\ UNCHANGED <<received, linked, unlinked, tip, coins, disk>>
      BY <1>11, Zenon DEF StepInvalid, InvalidBlockFound
    <2>2. b \in Chain[job.target] /\ b \in Blocks /\ FAILED_VALID \in FAILED_MASK
      BY <2>1, NextBlock, Zenon DEF FAILED_MASK
    <2> HIDE DEF b
    <2>3. b \in linked
      BY <1>1, <2>1, <2>2, Zenon
    <2> QED  BY <1>1, <2>1, <2>2, <2>3, MarkWait, Zenon DEF Idle
  <1>12. CASE UpdateTip
    <2>1. /\ UNCHANGED <<received, linked, unlinked, status, disk, coins>> /\ tip' = coins
          /\ candidates' \subseteq candidates /\ job.op # "aborted"
          /\ job' = job \/ job' = Idle
      BY <1>12, UpdateTipCases, Zenon DEF UpdateTip, index, Pruned
    <2> QED  BY <1>1, <1>3, <2>1 DEF Idle
  <1>13. CASE InvalidateDisconnect
    <2>1. /\ job.op = "invalidate" /\ coins = tip /\ job.target \in Chain[tip] /\ DisconnectTip
          /\ UNCHANGED <<received, linked, unlinked, disk, tip>> /\ candidates' \subseteq candidates
          /\ status' = [status EXCEPT ![tip] = @ \cup {FAILED_CHILD}]
      BY <1>13, Zenon DEF InvalidateDisconnect
    <2>2. tip # Genesis
      BY <2>1, ChainAssumption, BlockSetsAssumption DEF Inv, ActiveInv
    <2>3. tip \in Blocks /\ FAILED_CHILD \in FAILED_MASK
      BY Zenon DEF Inv, TypeOK, FAILED_MASK
    <2> QED  BY <1>1, <2>1, <2>2, <2>3, DisconnectWait, MarkWait, Zenon
  <1>14. CASE InvalidateDone
    BY <1>1, <1>3, <1>14, Zenon DEF InvalidateDone, AsGoodAsTip, Idle, index
  <1>15. CASE RewindDisconnect
    <2>1. /\ job.op = "rewind" /\ coins = tip
          /\ UNCHANGED <<received, linked, unlinked, status, disk, candidates, tip>>
      BY <1>15, Zenon DEF RewindDisconnect, index
    <2>2. CASE ~RewindTooLong
      <3>1. DisconnectTip /\ tip # Genesis
        BY <1>15, <2>2, RewindHeightFits, HeightAssumption DEF RewindDisconnect, RewindStops
      <3> QED  BY <1>1, <1>3, <2>1, <3>1, DisconnectWait, Zenon
    <2>3. CASE RewindTooLong
      BY <1>1, <1>3, <1>15, <2>1, <2>3 DEF RewindDisconnect, StartShutdown, Job
    <2> QED  BY <2>2, <2>3, Zenon
  <1>16. CASE RewindErase
    BY <1>16, RewindEraseWait, Zenon
  <1>17. ASSUME NEW S \in PruneSets, FlushState(S)
         PROVE  WaitInv'
    <2>1. DiskFits(FullFlush(S), PruneFlags(S), {}) /\ disk' = FullFlush(S)
      BY <1>17, MayFlushFits, WriteIndexFits, Written, Zenon DEF FlushState
    <2>2. MarksLinked(FullFlush(S))
      BY <2>1, MarksLinkedWritten, Zenon
    <2>3. MarksLinked(disk)'
      BY <2>1, <2>2, Zenon DEF MarksLinked
    <2> QED  BY <1>17, <2>3, PruneWait, Zenon DEF FlushState
  <1>18. CASE FlushIndex \/ RewindFlush
    <2>1. {} \in PruneSets /\ PruneFlags({}) = status
      BY PruneFlagsFit, Zenon DEF PruneSets
    <2>2. PICK d \in {WriteIndex({}), FullFlush({})} : disk' = d /\ DiskFits(d, PruneFlags({}), {})
      <3>1. CASE FlushIndex
        BY <2>1, <3>1, MayFlushFits, WriteIndexFits, Written, Zenon DEF FlushIndex
      <3>2. CASE RewindFlush
        BY <2>1, <3>2, WriteIndexFits, Written, Zenon DEF RewindFlush, Inv, ActiveInv
      <3> QED  BY <1>18, <3>1, <3>2, Zenon
    <2>3. MarksLinked(disk)'
      BY <2>1, <2>2, MarksLinkedWritten, Zenon DEF MarksLinked
    <2>4. /\ UNCHANGED <<received, linked, unlinked, status, candidates, tip, coins>>
          /\ job' = Idle /\ job.op # "aborted"
      BY <1>18 DEF FlushIndex, RewindFlush, index, Idle
    <2> QED  BY <1>1, <2>3, <2>4, WaitKept, Zenon DEF Idle
  <1>19. CASE Restart
    <2>1. ~fPruneMode /\ DataInv
      BY <1>19, LimitsAssumption DEF Restart, RestartsApart, Inv, TypeOK
    <2>2. CASE LoadBlockIndexDB(disk) /\ UNCHANGED disk
      BY <1>1, <2>1, <2>2, LoadWait, Zenon DEF Inv, DiskInv, TypeOK, DataInv
    <2>3. ASSUME MayFlush, NEW S \in PruneSets, LoadBlockIndexDB(WriteIndex(S)), disk' = WriteIndex(S)
          PROVE  WaitInv'
      <3>1. S = {} /\ PruneFlags(S) = status /\ DiskFits(WriteIndex(S), status, {})
        BY <2>1, <2>3, WrittenUnpruned, Zenon
      <3>2. /\ MarksLinked(WriteIndex(S)) /\ DataFit(WriteIndex(S).status, WriteIndex(S).received)
            /\ WriteIndex(S) \in [index : SUBSET Blocks, received : SUBSET Blocks,
                                  status : [Blocks -> SUBSET Flags], tip : Blocks]
        BY <2>1, <2>3, <3>1, MarksLinkedWritten, DataWritten, WriteIndexFits, Zenon
      <3> QED  BY <2>3, <3>1, <3>2, LoadWait, Zenon
    <2> QED  BY <1>19, <2>2, <2>3, Zenon DEF Restart
  <1>20. CASE UNCHANGED vars
    BY <1>1, <1>3, <1>20, Zenon DEF vars, index
  <1> QED  BY <1>4, <1>5, <1>6, <1>7, <1>8, <1>9, <1>10, <1>11, <1>12, <1>13, <1>14, <1>15, <1>16, <1>17, <1>18, <1>19, <1>20, Zenon
           DEF Next, ChainStep, InvalidateStep, StartStep, CallsForLinked

LEMMA InitWait == Init => WaitInv
  <1> SUFFICES ASSUME Init
               PROVE  WaitInv
    BY Zenon
  <1>1. /\ status[Genesis] = {DATA, TRANSACTIONS} /\ \A x \in Blocks \ {Genesis} : status[x] = {}
        /\ received = {Genesis} /\ linked = {Genesis} /\ unlinked = {} /\ candidates = {Genesis}
        /\ tip = Genesis /\ coins = Genesis /\ job.op = "idle" /\ disk.status = status
    BY ParentAssumption, Zenon DEF Init, Idle
  <1>2. \A x \in Blocks : ~Failed(status[x])
    BY <1>1, FlagNames, FailedFlags, ZenonT(60)
  <1>3. ChainTxInv /\ MarksLinked(disk)
    BY <1>1, <1>2, ChainAssumption, Zenon DEF ChainTxInv, MarksLinked
  <1>4. UnlinkedInv
    BY <1>1, <1>2, ChainAssumption, Zenon DEF UnlinkedInv
  <1> QED  BY <1>3, <1>4, Zenon DEF WaitInv

=============================================================================
