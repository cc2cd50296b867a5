----------------------------- MODULE CheckQueue -----------------------------
(* CCheckQueue: the script checks of a block, done by worker threads and by the thread that  *)
(* connects the block.  A step is one critical section of the mutex with the work done       *)
(* outside it just before; a check is what it will return.                                   *)
EXTENDS Naturals, Sequences, FiniteSetsExt

CONSTANTS Workers, Master, nBatchSize,
          MaxChecks,    \* bound: checks added for one block
          MaxBlocks     \* bound: blocks connected

ASSUME CheckQueueAssumption ==
    Master \notin Workers /\ IsFiniteSet(Workers) /\ nBatchSize \in Nat \ {0}

VARIABLES checks,       \* queue, a stack
          nIdle, nTotal, fAllOk, nTodo,
          loop,         \* where each thread is in Loop: its batch, and fOk when it took it
          control,      \* what the master does with its CCheckQueueControl
          added,        \* how many checks were added for the block, and whether all succeed
          verdict,      \* what Wait returned last
          blocks,       \* blocks connected so far
          interrupts    \* threads that were told to stop and have not noticed

checkQueueVars == <<checks, nIdle, nTotal, fAllOk, nTodo, loop, control, added, verdict, blocks,
                    interrupts>>

Threads == Workers \cup {Master}

AllOf(s) == \A i \in DOMAIN s : s[i]
NoChecks == [num |-> 0, ok |-> TRUE]
At(pc) == [at |-> pc, batch |-> <<>>, fOk |-> TRUE]

\* "new": the thread has not started.  "gone": it was interrupted.  "wait", "woken": in
\* cond.wait, and notified there.  "busy": it has a batch.  "out": the master is not in Loop.
CheckQueueInit ==
    /\ checks = <<>> /\ nIdle = 0 /\ nTotal = 0 /\ fAllOk = TRUE /\ nTodo = 0
    /\ loop = [t \in Threads |-> At(IF t = Master THEN "out" ELSE "new")]
    /\ control = "none" /\ added = NoChecks /\ verdict = TRUE /\ blocks = 0 /\ interrupts = {}

-----------------------------------------------------------------------------
(* CCheckQueueControl, in ConnectBlock. *)

\* The constructor; that IsIdle holds is CheckQueueIdle below.
Control ==
    /\ control = "none" /\ blocks < MaxBlocks
    /\ control' = "add" /\ blocks' = blocks + 1 /\ added' = NoChecks
    /\ UNCHANGED <<checks, nIdle, nTotal, fAllOk, nTodo, loop, verdict, interrupts>>

IsIdle == nTotal = nIdle /\ nTodo = 0 /\ fAllOk

\* condWorker.notify_one or notify_all, by the number of checks added.
Notified(n) ==
    LET asleep == {w \in Workers : loop[w].at = "wait"}
    IN  IF n = 1 /\ asleep # {} THEN {{w} : w \in asleep}
        ELSE IF n > 1 THEN {asleep} ELSE {{}}

Add(vChecks) ==
    /\ control = "add" /\ added.num + Len(vChecks) <= MaxChecks
    /\ checks' = checks \o vChecks
    /\ nTodo' = nTodo + Len(vChecks)
    /\ added' = [num |-> added.num + Len(vChecks), ok |-> added.ok /\ AllOf(vChecks)]
    /\ \E W \in Notified(Len(vChecks)) :
          loop' = [t \in Threads |-> IF t \in W THEN [loop[t] EXCEPT !.at = "woken"] ELSE loop[t]]
    /\ UNCHANGED <<nIdle, nTotal, fAllOk, control, verdict, blocks, interrupts>>

-----------------------------------------------------------------------------
(* Loop. *)

BatchLen(total, idle) == Max({1, Min({nBatchSize, Len(checks) \div (total + idle + 1)})})

\* Only the master returns: fQuit is never set.
LoopReturn(t, total, ok, todo) ==
    /\ checks = <<>> /\ t = Master /\ todo = 0
    /\ nTotal' = total - 1
    /\ fAllOk' = TRUE
    /\ verdict' = ok
    /\ control' = "none"
    /\ UNCHANGED checks

LoopSleep(t, total, ok, todo) ==
    /\ checks = <<>> /\ ~(t = Master /\ todo = 0)
    /\ nTotal' = total
    /\ fAllOk' = ok
    /\ control' = IF t = Master THEN "wait" ELSE control
    /\ UNCHANGED <<checks, verdict>>

LoopTake(t, n, total, ok) ==
    /\ checks # <<>>
    /\ checks' = SubSeq(checks, 1, Len(checks) - n)
    /\ nTotal' = total
    /\ fAllOk' = ok
    /\ control' = IF t = Master THEN "wait" ELSE control
    /\ UNCHANGED verdict

\* From the head of the inner loop to the next point without the lock, with the values that
\* the members have at the head; the threads in W are notified on the way.
LoopHead(t, total, idle, ok, todo, W) ==
    LET n == BatchLen(total, idle)
        next == [x \in Threads |-> IF x \in W THEN [loop[x] EXCEPT !.at = "woken"] ELSE loop[x]]
    IN  /\ nTodo' = todo
        /\ \/ /\ LoopReturn(t, total, ok, todo)
              /\ nIdle' = idle
              /\ loop' = [next EXCEPT ![t] = At("out")]
           \/ /\ LoopSleep(t, total, ok, todo)
              /\ nIdle' = idle + 1
              /\ loop' = [next EXCEPT ![t] = At("wait")]
           \/ /\ LoopTake(t, n, total, ok)
              /\ nIdle' = idle
              /\ loop' = [next EXCEPT ![t] = [at |-> "busy", fOk |-> ok,
                                    batch |-> SubSeq(checks, Len(checks) - n + 1, Len(checks))]]
        /\ UNCHANGED <<added, blocks, interrupts>>

\* A worker starts, or the master calls Wait (a second time, from the destructor of its
\* CCheckQueueControl, when the first call was interrupted).
LoopEnter(t) ==
    /\ \/ t \in Workers /\ loop[t].at = "new"
       \/ t = Master /\ loop[t].at = "out" /\ control \in {"add", "unwind"}
    /\ LoopHead(t, nTotal + 1, nIdle, fAllOk, nTodo, {})

\* Mutant: the last worker does not tell the master.
MasterToNotifyNone(t, todo) == {}

\* The last check is done and it was not the master that did it: condMaster.notify_one.
MasterToNotify(t, todo) ==
    IF todo = 0 /\ t # Master /\ loop[Master].at = "wait" THEN {Master} ELSE {}

\* Mutant: the result of a batch is that of its last check.
BatchOkLast(b) == b.batch[Len(b.batch)]

\* The checks of the batch are run until one fails.
BatchOk(b) == b.fOk /\ AllOf(b.batch)

LoopDone(t) ==
    /\ loop[t].at = "busy"
    /\ LET todo == nTodo - Len(loop[t].batch)
       IN  LoopHead(t, nTotal, nIdle, fAllOk /\ BatchOk(loop[t]), todo, MasterToNotify(t, todo))

LoopWoken(t) ==
    /\ loop[t].at = "woken" /\ t \notin interrupts
    /\ LoopHead(t, nTotal, nIdle - 1, fAllOk, nTodo, {})

\* threadGroup.interrupt_all, once; the thread that connects the block may be of the group.
InterruptThreads ==
    /\ interrupts = {} /\ \A w \in Workers : loop[w].at # "gone"
    /\ interrupts' \in {Workers} \cup {Threads : c \in {control} \ {"none"}}
    /\ UNCHANGED <<checks, nIdle, nTotal, fAllOk, nTodo, loop, control, added, verdict, blocks>>

\* Mutant: a thread that leaves is no longer counted as idle.
IdleAfterInterruptLess == nIdle - 1

\* cond.wait throws thread_interrupted after nIdle++; neither nIdle nor nTotal is put back.
IdleAfterInterrupt == nIdle

LoopInterrupted(t) ==
    /\ loop[t].at \in {"wait", "woken"} /\ t \in interrupts
    /\ interrupts' = interrupts \ {t}
    /\ nIdle' = IdleAfterInterrupt
    /\ loop' = [loop EXCEPT ![t] = At(IF t = Master THEN "out" ELSE "gone")]
    /\ control' = IF t = Master THEN "unwind" ELSE control
    /\ UNCHANGED <<checks, nTotal, fAllOk, nTodo, added, verdict, blocks>>

LoopStep(t) == LoopDone(t) \/ LoopWoken(t) \/ LoopInterrupted(t)

CheckQueueNext ==
    \/ Control
    \/ \E n \in 0..2 : \E vChecks \in [1..n -> BOOLEAN] : Add(vChecks)
    \/ \E t \in Threads : LoopEnter(t) \/ LoopStep(t)
    \/ InterruptThreads

\* A thread that can go on goes on, and ConnectBlock comes to its call of Wait.
CheckQueueFairness ==
    /\ \A t \in Workers : WF_checkQueueVars(LoopStep(t))
    /\ WF_checkQueueVars(LoopStep(Master) \/ LoopEnter(Master))

CheckQueueSpec == CheckQueueInit /\ [][CheckQueueNext]_checkQueueVars /\ CheckQueueFairness

-----------------------------------------------------------------------------
\* The assertion of CCheckQueueControl: whenever a block may be begun the queue is idle,
\* however the threads of the last block were scheduled or interrupted.
CheckQueueIdle == control = "none" => IsIdle

\* Wait returns whether all the checks added for the block succeed, whoever ran them and
\* whichever were skipped.
VerdictRight == control = "none" => verdict = added.ok

\* Wait returns: ConnectBlock is never left with its block for ever.
BlockIsChecked == []<>(control = "none")

=============================================================================
