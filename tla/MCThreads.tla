----------------------------- MODULE MCThreads -----------------------------
(* Model checking of the parts where threads wait for one another: the script check queue,   *)
(* the scheduler, and the RPC server with its two queues.  The parts share no state, so one  *)
(* of them runs in each behaviour and the others stand still.                                *)
EXTENDS CheckQueue, Scheduler, RpcServer

VARIABLE part

vars == <<part, checkQueueVars, schedulerVars, rpcVars>>

Init ==
    /\ part \in {"CheckQueue", "Scheduler", "RpcServer"}
    /\ CheckQueueInit /\ SchedulerInit /\ RpcInit

InCheckQueue == part = "CheckQueue" /\ UNCHANGED <<part, schedulerVars, rpcVars>>
InScheduler == part = "Scheduler" /\ UNCHANGED <<part, checkQueueVars, rpcVars>>
InRpcServer == part = "RpcServer" /\ UNCHANGED <<part, checkQueueVars, schedulerVars>>

Next == \/ InCheckQueue /\ CheckQueueNext
        \/ InScheduler /\ SchedulerNext
        \/ InRpcServer /\ RpcNext

\* The fairness of the part that runs, thread by thread: the threads of a part are numbered.
ThreadStep(n) ==
    \/ /\ InCheckQueue
       /\ n \in Threads /\ (LoopStep(n) \/ (n = Master /\ LoopEnter(n)))
    \/ /\ InScheduler
       /\ (n \in ServiceThreads /\ ServiceStep(n)) \/ (n = 2 /\ Tick)
    \/ /\ InRpcServer
       /\ \/ n \in HttpWorkers /\ (WorkerStep(n) \/ Handle(n))
          \/ n = 3 /\ EventStep
          \/ n = 4 /\ \E w \in AsyncWorkers : AsyncThread(w)
          \/ n = 5 /\ MainThread

Fairness == \A n \in 1..5 : WF_vars(ThreadStep(n))

FairSpec == Init /\ [][Next]_vars /\ Fairness

=============================================================================
