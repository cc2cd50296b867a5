------------------------------ MODULE RpcServer ------------------------------
(* What a request asks for, and the end of the program: bitcoind's main thread waits for     *)
(* ShutdownRequested, calls Interrupt, and Shutdown stops the RPC server and then the HTTP   *)
(* server.  The HTTP workers, the async workers, the event thread and the main thread        *)
(* interleave.                                                                               *)
EXTENDS HttpServer, AsyncRPCQueue

\* Where the main thread is: "up", "requested" (fRequestShutdown), "stopRPC", "stopHTTP", "down".
VARIABLE shutdown

rpcVars == <<httpVars, asyncVars, shutdown>>

RpcInit == HttpInit /\ AsyncInit /\ shutdown = "up"

HttpStep == \E r \in Requests : HttpEnqueue(r) \/ HttpRefuse(r) \/ HttpReject(r) \/ HttpSend(r)

Called(w) == httpWorker' = [httpWorker EXCEPT ![w].at = "called"]

\* The handler of a request.  Of the commands that change the state modelled here, z_sendmany
\* and its like add an operation, z_getoperationresult takes the finished ones away, and `stop`
\* calls StartShutdown.
Handle(w) ==
    /\ httpWorker[w].at = "call"
    /\ Called(w)
    /\ \/ \E op \in Operations : AddOperation(op) /\ UNCHANGED shutdown
       \/ PopFinished /\ UNCHANGED shutdown
       \/ /\ shutdown' = IF shutdown = "up" THEN "requested" ELSE shutdown
          /\ UNCHANGED asyncVars
    /\ UNCHANGED <<httpQueue, running, numThreads, waitExit, reply, gencb, eventLoop>>

\* A signal asks for the same.
HandleSIGTERM ==
    /\ shutdown = "up" /\ shutdown' = "requested"
    /\ UNCHANGED <<httpVars, asyncVars>>

Interrupt ==
    /\ shutdown = "requested" /\ shutdown' = "stopRPC"
    /\ InterruptHTTPServer
    /\ UNCHANGED asyncVars

\* StopRPC calls closeAndWait; finishAndWait, the other way to end the queue, is allowed too.
StopRPC ==
    /\ shutdown = "stopRPC"
    /\ \/ CloseStore /\ UNCHANGED shutdown
       \/ CloserStep /\ UNCHANGED shutdown
       \/ closer = "joined" /\ shutdown' = "stopHTTP" /\ UNCHANGED asyncVars
    /\ UNCHANGED httpVars

Shutdown ==
    /\ shutdown = "stopHTTP"
    /\ \/ StopHTTPServer /\ UNCHANGED shutdown
       \/ eventLoop = "ended" /\ shutdown' = "down" /\ UNCHANGED httpVars
    /\ UNCHANGED asyncVars

WorkerStep(w) ==
    /\ HttpStart(w) \/ HttpTake(w) \/ HttpAnswer(w) \/ HttpLeave(w)
    /\ UNCHANGED <<asyncVars, shutdown>>

AsyncThread(w) == AsyncStep(w) /\ UNCHANGED <<httpVars, shutdown>>

MainThread == Interrupt \/ StopRPC \/ Shutdown

RpcNext ==
    \/ HttpStep /\ UNCHANGED <<asyncVars, shutdown>>
    \/ \E broken \in BOOLEAN : EventLoopEnds(broken) /\ UNCHANGED <<asyncVars, shutdown>>
    \/ \E w \in HttpWorkers : WorkerStep(w) \/ Handle(w)
    \/ \E w \in AsyncWorkers : AsyncThread(w)
    \/ HandleSIGTERM \/ MainThread

EventStep ==
    /\ EventLoopEnds(FALSE) \/ \E r \in Requests : HttpSend(r)
    /\ UNCHANGED <<asyncVars, shutdown>>

\* Every thread runs.  Nothing makes a client send a request or the user a signal.
RpcFairness ==
    /\ WF_rpcVars(EventStep)
    /\ \A w \in HttpWorkers : WF_rpcVars(WorkerStep(w) \/ Handle(w))
    /\ \A w \in AsyncWorkers : WF_rpcVars(AsyncThread(w))
    /\ WF_rpcVars(MainThread)

RpcSpec == RpcInit /\ [][RpcNext]_rpcVars /\ RpcFairness

-----------------------------------------------------------------------------
(* Properties. *)

\* When closeAndWait or finishAndWait has returned, no worker will touch an operation again and
\* every operation that z_getoperationresult can ask for has ended (asyncrpcqueue.cpp, close
\* and wait_for_worker_threads): none is left ready or executing.
OperationsEnded ==
    closer = "joined" => \A op \in operation_map : state[op] \in Final

\* Precondition of ~WorkQueue (httpserver.cpp:101, "worker threads have all stopped"), as far
\* as WaitExit can see to it: when StopHTTPServer deletes the queue, every worker that has
\* entered Run has left it again, and its handler.  A detached thread that has not run yet
\* is counted nowhere and may still come.
QueueUnused ==
    waitExit = "deleted" => \A w \in HttpWorkers : httpWorker[w].at \in {"created", "gone", "late"}

\* A request that was queued is answered, by its handler or, when the server stops first, by
\* the destructor of HTTPRequest.
RequestAnswered ==
    \A r \in Requests : []<>(reply[r] # "queued")

\* A shutdown that was asked for ends: no thread that is waited for sleeps through its
\* notification (asyncrpcqueue.cpp:137 stores closed_ without the lock; WaitExit shares cond
\* with the workers).
ShutdownEnds == []<>(shutdown \in {"up", "down"})

=============================================================================
