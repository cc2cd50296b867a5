---------------------------- MODULE AsyncRPCQueue ----------------------------
(* AsyncRPCQueue and the operations in it.  The lock is held across steps where an atomic    *)
(* that is written without it is read: closed_, finish_ and the state of an operation.       *)
EXTENDS Naturals, Sequences

CONSTANTS Operations, NoOperation, AsyncWorkers

ASSUME AsyncAssumption ==
    /\ NoOperation \notin Operations
    /\ AsyncWorkers # {} /\ "free" \notin AsyncWorkers /\ "closer" \notin AsyncWorkers

VARIABLES operation_id_queue, operation_map, closed, finish,
          state,          \* the status of each operation; "none" before it is created
          asyncWorker,    \* where each worker is in run, and its operation
          asyncLock,      \* who holds lock_: a worker, "closer" or "free"
          closer,         \* where closeAndWait or finishAndWait is
          toCancel,       \* operations cancelAllOperations has not come to
          cancelOp        \* the operation that was ready when cancel looked

asyncVars == <<operation_id_queue, operation_map, closed, finish, state, asyncWorker, asyncLock,
               closer, toCancel, cancelOp>>

Final == {"SUCCESS", "FAILED", "CANCELLED"}

Running(pc, op) == [at |-> pc, op |-> op]

\* "loop": before the lock.  "doze": the queue is empty and open, the lock held.  "wait": on
\* condition_.  "awake": past the wait, the lock held.  "have": it has an operation.  "start":
\* in main, not cancelled.  "exec": executing.  "gone": returned.
AsyncInit ==
    /\ operation_id_queue = <<>> /\ operation_map = {} /\ closed = FALSE /\ finish = FALSE
    /\ state = [op \in Operations |-> "none"]
    /\ asyncWorker = [w \in AsyncWorkers |-> Running("loop", NoOperation)]
    /\ asyncLock = "free" /\ closer = "no" /\ toCancel = {} /\ cancelOp = NoOperation

WakeAsync(W) == [w \in AsyncWorkers |-> IF w \in W THEN Running("loop", NoOperation) ELSE asyncWorker[w]]
Dozing == {w \in AsyncWorkers : asyncWorker[w].at = "wait"}

-----------------------------------------------------------------------------
\* addOperation: when the queue is closed or finishing nothing happens, and no one is told.
AddOperation(op) ==
    /\ asyncLock = "free" /\ state[op] = "none"
    /\ state' = [state EXCEPT ![op] = "READY"]
    /\ \/ /\ closed \/ finish
          /\ UNCHANGED <<operation_id_queue, operation_map, asyncWorker>>
       \/ /\ ~closed /\ ~finish
          /\ operation_map' = operation_map \cup {op}
          /\ operation_id_queue' = Append(operation_id_queue, op)
          /\ \/ \E w \in Dozing : asyncWorker' = WakeAsync({w})
             \/ Dozing = {} /\ UNCHANGED asyncWorker
    /\ UNCHANGED <<closed, finish, asyncLock, closer, toCancel, cancelOp>>

\* z_getoperationresult takes operations with a final status out of the map.
PopFinished ==
    /\ asyncLock = "free"
    /\ operation_map' = {op \in operation_map : state[op] \notin Final}
    /\ UNCHANGED <<operation_id_queue, closed, finish, state, asyncWorker, asyncLock, closer, toCancel, cancelOp>>

-----------------------------------------------------------------------------
(* run. *)

AsyncEvaluate(w) ==
    /\ asyncWorker[w].at = "loop" /\ asyncLock = "free"
    /\ asyncLock' = w
    /\ LET empty == operation_id_queue = <<>> /\ ~closed /\ ~finish
       IN  asyncWorker' = [asyncWorker EXCEPT ![w].at = IF empty THEN "doze" ELSE "awake"]
    /\ UNCHANGED <<operation_id_queue, operation_map, closed, finish, state, closer, toCancel, cancelOp>>

AsyncWait(w) ==
    /\ asyncWorker[w].at = "doze"
    /\ asyncLock' = "free"
    /\ asyncWorker' = [asyncWorker EXCEPT ![w].at = "wait"]
    /\ UNCHANGED <<operation_id_queue, operation_map, closed, finish, state, closer, toCancel, cancelOp>>

\* The worker leaves when the queue is finishing and empty, or closed.
AsyncLeaves == (finish /\ operation_id_queue = <<>>) \/ closed

AsyncAwake(w) ==
    /\ asyncWorker[w].at = "awake"
    /\ asyncLock' = "free"
    /\ \/ /\ AsyncLeaves
          /\ operation_id_queue' = <<>>
          /\ asyncWorker' = [asyncWorker EXCEPT ![w] = Running("gone", NoOperation)]
       \/ /\ ~AsyncLeaves
          /\ operation_id_queue' = Tail(operation_id_queue)
          /\ asyncWorker' = [asyncWorker EXCEPT ![w] =
                IF Head(operation_id_queue) \in operation_map
                THEN Running("have", Head(operation_id_queue)) ELSE Running("loop", NoOperation)]
    /\ UNCHANGED <<operation_map, closed, finish, state, closer, toCancel, cancelOp>>

\* isCancelled, in run and again in main.
AsyncBegin(w) ==
    /\ asyncWorker[w].at = "have"
    /\ asyncWorker' = [asyncWorker EXCEPT ![w] =
          IF state[@.op] = "CANCELLED" THEN Running("loop", NoOperation) ELSE Running("start", @.op)]
    /\ UNCHANGED <<operation_id_queue, operation_map, closed, finish, state, asyncLock, closer, toCancel, cancelOp>>

AsyncStart(w) ==
    /\ asyncWorker[w].at = "start"
    /\ state' = [state EXCEPT ![asyncWorker[w].op] = "EXECUTING"]
    /\ asyncWorker' = [asyncWorker EXCEPT ![w].at = "exec"]
    /\ UNCHANGED <<operation_id_queue, operation_map, closed, finish, asyncLock, closer, toCancel, cancelOp>>

AsyncEnd(w) ==
    /\ asyncWorker[w].at = "exec"
    /\ \E outcome \in {"SUCCESS", "FAILED"} : state' = [state EXCEPT ![asyncWorker[w].op] = outcome]
    /\ asyncWorker' = [asyncWorker EXCEPT ![w] = Running("loop", NoOperation)]
    /\ UNCHANGED <<operation_id_queue, operation_map, closed, finish, asyncLock, closer, toCancel, cancelOp>>

AsyncStep(w) == \/ AsyncEvaluate(w) \/ AsyncWait(w) \/ AsyncAwake(w)
                \/ AsyncBegin(w) \/ AsyncStart(w) \/ AsyncEnd(w)

-----------------------------------------------------------------------------
(* closeAndWait and finishAndWait. *)

\* close stores closed_ without the lock, and finish stores finish_.
CloseStore ==
    /\ closer = "no"
    /\ \/ closed' = TRUE /\ closer' = "cancel" /\ UNCHANGED finish
       \/ finish' = TRUE /\ closer' = "notify" /\ UNCHANGED closed
    /\ UNCHANGED <<operation_id_queue, operation_map, state, asyncWorker, asyncLock, toCancel, cancelOp>>

CancelAllOperations ==
    /\ closer = "cancel" /\ asyncLock = "free"
    /\ asyncLock' = "closer" /\ closer' = "cancelling" /\ toCancel' = operation_map
    /\ UNCHANGED <<operation_id_queue, operation_map, closed, finish, state, asyncWorker, cancelOp>>

\* Mutant: only operations that are executing are cancelled.
CancelsExecuting(op) == state[op] = "EXECUTING"

\* isReady.
Cancels(op) == state[op] = "READY"

\* cancel reads the state of an operation, and writes it in a step of its own.
CancelRead(op) ==
    /\ closer = "cancelling" /\ cancelOp = NoOperation /\ op \in toCancel
    /\ toCancel' = toCancel \ {op}
    /\ cancelOp' = IF Cancels(op) THEN op ELSE NoOperation
    /\ UNCHANGED <<operation_id_queue, operation_map, closed, finish, state, asyncWorker, asyncLock, closer>>

CancelWrite ==
    /\ cancelOp # NoOperation
    /\ state' = [state EXCEPT ![cancelOp] = "CANCELLED"]
    /\ cancelOp' = NoOperation
    /\ UNCHANGED <<operation_id_queue, operation_map, closed, finish, asyncWorker, asyncLock, closer, toCancel>>

CancelDone ==
    /\ closer = "cancelling" /\ cancelOp = NoOperation /\ toCancel = {}
    /\ asyncWorker' = WakeAsync(Dozing)
    /\ asyncLock' = "free" /\ closer' = "notify"
    /\ UNCHANGED <<operation_id_queue, operation_map, closed, finish, state, toCancel, cancelOp>>

\* Mutant: the notification comes without the lock.
LockToNotifyNone == TRUE

LockToNotify == asyncLock = "free"

\* wait_for_worker_threads.
WaitNotify ==
    /\ closer = "notify" /\ LockToNotify
    /\ asyncWorker' = WakeAsync(Dozing)
    /\ closer' = "join"
    /\ UNCHANGED <<operation_id_queue, operation_map, closed, finish, state, asyncLock, toCancel, cancelOp>>

WaitJoin ==
    /\ closer = "join" /\ \A w \in AsyncWorkers : asyncWorker[w].at = "gone"
    /\ closer' = "joined"
    /\ UNCHANGED <<operation_id_queue, operation_map, closed, finish, state, asyncWorker, asyncLock,
                   toCancel, cancelOp>>

CloserStep == \/ CancelAllOperations \/ CancelWrite \/ CancelDone \/ WaitNotify \/ WaitJoin
              \/ \E op \in Operations : CancelRead(op)

=============================================================================
