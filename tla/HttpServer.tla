----------------------------- MODULE HttpServer -----------------------------
(* The HTTP server: an event thread that receives requests and sends replies, and worker     *)
(* threads that take requests from a WorkQueue.  A step is one critical section of the       *)
(* queue's mutex, or one callback of the event thread.  What a request asks for is done in   *)
(* RpcServer.                                                                                *)
EXTENDS Naturals, Sequences, FiniteSets

CONSTANTS MaxRequests,    \* bound: requests that arrive
          HttpWorkers,
          maxDepth        \* -rpcworkqueue

ASSUME HttpAssumption ==
    MaxRequests \in Nat /\ maxDepth \in Nat \ {0} /\ IsFiniteSet(HttpWorkers)

\* Requests are numbered as they arrive.
Requests == 1..MaxRequests
NoRequest == 0

VARIABLES httpQueue,      \* queue
          running, numThreads,
          httpWorker,     \* where each worker is in Run, and its request
          waitExit,       \* where StopHTTPServer is: "no", "wait", "woken" or "deleted"
          reply,          \* what has become of each request
          gencb,          \* the callback for requests: "serve" or "reject"
          eventLoop       \* "dispatch", "loopexit" or "ended"

httpVars == <<httpQueue, running, numThreads, httpWorker, waitExit, reply, gencb, eventLoop>>

InRun(pc, r) == [at |-> pc, req |-> r]

\* StartHTTPServer has made the worker threads and detached them; none has run yet.
\* "created": not in Run yet.  "top": before the lock.  "wait", "woken": on cond.  "call": in
\* the handler.  "called": the handler has its answer.  "leave": out of the loop and still
\* counted.  "gone": returned.  "late": entered Run when the queue was deleted already.
HttpInit ==
    /\ httpQueue = <<>> /\ running = TRUE /\ numThreads = 0
    /\ httpWorker = [w \in HttpWorkers |-> InRun("created", NoRequest)]
    /\ waitExit = "no"
    /\ reply = [r \in Requests |-> "none"]
    /\ gencb = "serve" /\ eventLoop = "dispatch"

\* The workers that wait for cond.  StopHTTPServer may wait for the same variable.
WaitingWorkers == {w \in HttpWorkers : httpWorker[w].at = "wait"}

WakeWorkers(W) == [w \in HttpWorkers |-> IF w \in W THEN InRun("woken", NoRequest) ELSE httpWorker[w]]
WakeExit == IF waitExit = "wait" THEN "woken" ELSE waitExit

NotifyAllHttp ==
    /\ httpWorker' = WakeWorkers(WaitingWorkers)
    /\ waitExit' = WakeExit

\* Mutant: nobody is notified.
NotifyNoneHttp == UNCHANGED <<httpWorker, waitExit>>

NotifyOneHttp ==
    \/ \E w \in WaitingWorkers : httpWorker' = WakeWorkers({w}) /\ UNCHANGED waitExit
    \/ waitExit = "wait" /\ waitExit' = "woken" /\ UNCHANGED httpWorker
    \/ WaitingWorkers = {} /\ waitExit # "wait" /\ UNCHANGED <<httpWorker, waitExit>>

-----------------------------------------------------------------------------
(* The event thread. *)

Arrives(r) == reply[r] = "none" /\ \A q \in 1..(r - 1) : reply[q] # "none"

\* http_request_cb with a handler for the path, and Enqueue.
HttpEnqueue(r) ==
    /\ eventLoop # "ended" /\ gencb = "serve" /\ Arrives(r)
    /\ Len(httpQueue) < maxDepth
    /\ httpQueue' = Append(httpQueue, r)
    /\ reply' = [reply EXCEPT ![r] = "queued"]
    /\ NotifyOneHttp
    /\ UNCHANGED <<running, numThreads, gencb, eventLoop>>

\* http_request_cb answers at once: the queue is full, or the client, the method or the path
\* is not served.
HttpRefuse(r) ==
    /\ eventLoop # "ended" /\ gencb = "serve" /\ Arrives(r)
    /\ reply' = [reply EXCEPT ![r] = "written"]
    /\ UNCHANGED <<httpQueue, running, numThreads, httpWorker, waitExit, gencb, eventLoop>>

\* http_reject_request_cb.
HttpReject(r) ==
    /\ eventLoop # "ended" /\ gencb = "reject" /\ Arrives(r)
    /\ reply' = [reply EXCEPT ![r] = "sent"]
    /\ UNCHANGED <<httpQueue, running, numThreads, httpWorker, waitExit, gencb, eventLoop>>

\* The event that WriteReply made is triggered: evhttp_send_reply.
HttpSend(r) ==
    /\ eventLoop # "ended" /\ reply[r] = "written"
    /\ reply' = [reply EXCEPT ![r] = "sent"]
    /\ UNCHANGED <<httpQueue, running, numThreads, httpWorker, waitExit, gencb, eventLoop>>

\* After event_base_loopexit the loop ends when no event is active; event_base_loopbreak may
\* end it earlier.
EventLoopEnds(broken) ==
    /\ eventLoop = "loopexit"
    /\ broken \/ \A r \in Requests : reply[r] # "written"
    /\ eventLoop' = "ended"
    /\ UNCHANGED <<httpQueue, running, numThreads, httpWorker, waitExit, reply, gencb>>

-----------------------------------------------------------------------------
(* WorkQueue::Run. *)

\* The thread runs for the first time: ThreadCounter.  What a thread does that comes late is
\* undefined, and nothing more is said of it.
HttpStart(w) ==
    /\ httpWorker[w].at = "created"
    /\ \/ /\ waitExit # "deleted"
          /\ numThreads' = numThreads + 1
          /\ httpWorker' = [httpWorker EXCEPT ![w] = InRun("top", NoRequest)]
       \/ /\ waitExit = "deleted"
          /\ httpWorker' = [httpWorker EXCEPT ![w] = InRun("late", NoRequest)]
          /\ UNCHANGED numThreads
    /\ UNCHANGED <<httpQueue, running, waitExit, reply, gencb, eventLoop>>

HttpTake(w) ==
    /\ httpWorker[w].at \in {"top", "woken"}
    /\ \/ /\ ~running
          /\ httpWorker' = [httpWorker EXCEPT ![w] = InRun("leave", NoRequest)]
          /\ UNCHANGED httpQueue
       \/ /\ running /\ httpQueue = <<>>
          /\ httpWorker' = [httpWorker EXCEPT ![w] = InRun("wait", NoRequest)]
          /\ UNCHANGED httpQueue
       \/ /\ running /\ httpQueue # <<>>
          /\ httpWorker' = [httpWorker EXCEPT ![w] = InRun("call", Head(httpQueue))]
          /\ httpQueue' = Tail(httpQueue)
    /\ UNCHANGED <<running, numThreads, waitExit, reply, gencb, eventLoop>>

\* The handler calls WriteReply and the item is deleted.
HttpAnswer(w) ==
    /\ httpWorker[w].at = "called"
    /\ reply' = [reply EXCEPT ![httpWorker[w].req] = "written"]
    /\ httpWorker' = [httpWorker EXCEPT ![w] = InRun("top", NoRequest)]
    /\ UNCHANGED <<httpQueue, running, numThreads, waitExit, gencb, eventLoop>>

\* ~ThreadCounter.
HttpLeave(w) ==
    /\ httpWorker[w].at = "leave"
    /\ numThreads' = numThreads - 1
    /\ httpWorker' = [WakeWorkers(WaitingWorkers) EXCEPT ![w] = InRun("gone", NoRequest)]
    /\ waitExit' = WakeExit
    /\ UNCHANGED <<httpQueue, running, reply, gencb, eventLoop>>

-----------------------------------------------------------------------------
\* InterruptHTTPServer: requests are rejected from now on, and WorkQueue::Interrupt.
InterruptHTTPServer ==
    /\ gencb' = "reject"
    /\ running' = FALSE
    /\ NotifyAllHttp
    /\ UNCHANGED <<httpQueue, numThreads, reply, eventLoop>>

\* Mutant: WaitExit waits once.
ExitWaitsOnce == numThreads > 0 /\ waitExit = "no"

ExitWaits == numThreads > 0

\* WaitExit, and ~WorkQueue when it returns: the destructor of a request nobody handled
\* answers it.  Then event_base_loopexit.
StopHTTPServer ==
    /\ waitExit \in {"no", "woken"}
    /\ \/ /\ ExitWaits
          /\ waitExit' = "wait"
          /\ UNCHANGED <<httpQueue, reply, eventLoop>>
       \/ /\ ~ExitWaits
          /\ waitExit' = "deleted"
          /\ httpQueue' = <<>>
          /\ reply' = [r \in Requests |-> IF \E i \in DOMAIN httpQueue : httpQueue[i] = r
                                          THEN "written" ELSE reply[r]]
          /\ eventLoop' = "loopexit"
    /\ UNCHANGED <<running, numThreads, httpWorker, gencb>>

=============================================================================
