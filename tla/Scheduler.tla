------------------------------ MODULE Scheduler ------------------------------
(* CScheduler: tasks that a service thread calls at their time.  A step is one critical      *)
(* section of newTaskMutex; the clock advances between any two.                              *)
EXTENDS Naturals

CONSTANTS ServiceThreads,
          Tasks, Repeating,     \* tasks, and those given to scheduleEvery
          deltaSeconds,
          MaxTime               \* bound: the last time the clock shows

ASSUME SchedulerAssumption == Tasks # {} /\ deltaSeconds \in Nat /\ MaxTime \in Nat

VARIABLES now,
          taskQueue,            \* entries [time, task]
          nThreadsServicingQueue, stopRequested, stopWhenEmpty,
          service,              \* where each thread is in serviceQueue
          scheduled,            \* tasks that were scheduled from outside
          stopping              \* threads that were interrupted and have not noticed

schedulerVars == <<now, taskQueue, nThreadsServicingQueue, stopRequested, stopWhenEmpty, service,
                   scheduled, stopping>>

Entry(t, k) == [time |-> t, task |-> k]
InService(pc, e) == [at |-> pc, entry |-> e]
NoEntry == Entry(0, CHOOSE k \in Tasks : TRUE)

\* "new": not started.  "top": at the head of the loop.  "wait", "until": in the two waits on
\* newTaskScheduled.  "timeout": the second one timed out.  "call": f() is running.
SchedulerInit ==
    /\ now = 0 /\ taskQueue = {} /\ nThreadsServicingQueue = 0
    /\ stopRequested = FALSE /\ stopWhenEmpty = FALSE
    /\ service = [t \in ServiceThreads |-> InService("new", NoEntry)]
    /\ scheduled = {} /\ stopping = {}

shouldStop == stopRequested \/ (stopWhenEmpty /\ taskQueue = {})

\* taskQueue.begin(); which of the entries with the same time comes first is left open.
Begin == {e \in taskQueue : \A d \in taskQueue : e.time <= d.time}

-----------------------------------------------------------------------------
\* A thread that waits for newTaskScheduled, timed or not, once notified goes on at the head:
\* it looks at the queue again and waits for what is first there now.
Notify(S) == [t \in ServiceThreads |-> IF t \in S THEN InService("top", NoEntry) ELSE service[t]]

WaitingThreads == {t \in ServiceThreads : service[t].at \in {"wait", "until"}}

\* Mutant: schedule does not notify.
NotifyNone == {{}}

NotifyOne == IF WaitingThreads = {} THEN {{}} ELSE {{t} : t \in WaitingThreads}

\* schedule, called by another thread.
Schedule(k, t) ==
    /\ k \notin scheduled
    /\ scheduled' = scheduled \cup {k}
    /\ taskQueue' = taskQueue \cup {Entry(t, k)}
    /\ \E S \in NotifyOne : service' = Notify(S)
    /\ UNCHANGED <<now, nThreadsServicingQueue, stopRequested, stopWhenEmpty, stopping>>

SchedulerStop(drain) ==
    /\ ~stopRequested /\ ~stopWhenEmpty
    /\ stopWhenEmpty' = drain
    /\ stopRequested' = ~drain
    /\ service' = Notify(WaitingThreads)
    /\ UNCHANGED <<now, taskQueue, nThreadsServicingQueue, scheduled, stopping>>

-----------------------------------------------------------------------------
(* serviceQueue. *)

ServiceStart(t) ==
    /\ service[t].at = "new"
    /\ nThreadsServicingQueue' = nThreadsServicingQueue + 1
    /\ service' = [service EXCEPT ![t].at = "top"]
    /\ UNCHANGED <<now, taskQueue, stopRequested, stopWhenEmpty, scheduled, stopping>>

\* Where the loop goes from its head: out, or into one of the two waits.
ServiceHead(t) ==
    \/ /\ shouldStop
       /\ nThreadsServicingQueue' = nThreadsServicingQueue - 1
       /\ service' = [service EXCEPT ![t] = InService("done", NoEntry)]
    \/ /\ ~shouldStop /\ taskQueue = {}
       /\ service' = [service EXCEPT ![t] = InService("wait", NoEntry)]
       /\ UNCHANGED nThreadsServicingQueue
    \/ /\ ~shouldStop
       /\ \E e \in Begin : service' = [service EXCEPT ![t] = InService("until", e)]
       /\ UNCHANGED nThreadsServicingQueue

ServiceLoop(t) ==
    /\ service[t].at = "top"
    /\ ServiceHead(t)
    /\ UNCHANGED <<now, taskQueue, stopRequested, stopWhenEmpty, scheduled, stopping>>

\* Mutant: the wait ends when it is notified, not only when it times out.
WaitOverAny(t) == service[t].at = "until"

WaitOver(t) == service[t].at = "until" /\ now >= service[t].entry.time

\* wait_until times out; the thread does not have the lock yet.
ServiceTimeout(t) ==
    /\ WaitOver(t)
    /\ service' = [service EXCEPT ![t].at = "timeout"]
    /\ UNCHANGED <<now, taskQueue, nThreadsServicingQueue, stopRequested, stopWhenEmpty, scheduled,
                   stopping>>

\* With the lock back the thread takes what is first in the queue now.
ServiceTake(t) ==
    /\ service[t].at = "timeout" /\ t \notin stopping
    /\ \/ /\ shouldStop \/ taskQueue = {}
          /\ service' = [service EXCEPT ![t] = InService("top", NoEntry)]
          /\ UNCHANGED taskQueue
       \/ /\ ~shouldStop
          /\ \E e \in Begin : /\ taskQueue' = taskQueue \ {e}
                              /\ service' = [service EXCEPT ![t] = InService("call", e)]
    /\ UNCHANGED <<now, nThreadsServicingQueue, stopRequested, stopWhenEmpty, scheduled, stopping>>

\* f() returns; Repeat has called scheduleFromNow before.
ServiceCall(t) ==
    /\ service[t].at = "call"
    /\ LET k == service[t].entry.task
           back == [service EXCEPT ![t] = InService("top", NoEntry)]
       IN  IF k \in Repeating
           THEN /\ taskQueue' = taskQueue \cup {Entry(now + deltaSeconds, k)}
                /\ \E S \in NotifyOne : service' = [Notify(S) EXCEPT ![t] = back[t]]
           ELSE service' = back /\ UNCHANGED taskQueue
    /\ UNCHANGED <<now, nThreadsServicingQueue, stopRequested, stopWhenEmpty, scheduled, stopping>>

\* threadGroup.interrupt_all.
ServiceInterrupt ==
    /\ stopping = {} /\ \A t \in ServiceThreads : service[t].at \notin {"new", "gone"}
    /\ stopping' = {t \in ServiceThreads : service[t].at # "done"}
    /\ UNCHANGED <<now, taskQueue, nThreadsServicingQueue, stopRequested, stopWhenEmpty, service,
                   scheduled>>

\* A wait throws thread_interrupted, which serviceQueue passes on.
ServiceInterrupted(t) ==
    /\ t \in stopping /\ service[t].at \in {"wait", "until", "timeout"}
    /\ stopping' = stopping \ {t}
    /\ nThreadsServicingQueue' = nThreadsServicingQueue - 1
    /\ service' = [service EXCEPT ![t] = InService("gone", NoEntry)]
    /\ UNCHANGED <<now, taskQueue, stopRequested, stopWhenEmpty, scheduled>>

ServiceStep(t) ==
    \/ ServiceStart(t) \/ ServiceLoop(t) \/ ServiceTimeout(t) \/ ServiceTake(t) \/ ServiceCall(t)
    \/ ServiceInterrupted(t)

Tick ==
    /\ now < MaxTime
    /\ now' = now + 1
    /\ UNCHANGED <<taskQueue, nThreadsServicingQueue, stopRequested, stopWhenEmpty, service,
                   scheduled, stopping>>

SchedulerNext ==
    \/ \E k \in Tasks : \E t \in now..MaxTime : Schedule(k, t)
    \/ \E drain \in BOOLEAN : SchedulerStop(drain)
    \/ \E t \in ServiceThreads : ServiceStep(t)
    \/ ServiceInterrupt
    \/ Tick

\* A thread that can go on goes on, tasks return, and time passes.
SchedulerFairness ==
    /\ \A t \in ServiceThreads : WF_schedulerVars(ServiceStep(t))
    /\ WF_schedulerVars(Tick)

SchedulerSpec == SchedulerInit /\ [][SchedulerNext]_schedulerVars /\ SchedulerFairness

-----------------------------------------------------------------------------
\* "Call func at/after time t" (scheduler.h): no task is called before its time, whatever is
\* scheduled before it while the thread waits.
NotEarly == \A t \in ServiceThreads : service[t].at = "call" => service[t].entry.time <= now

SchedulerStopped == \A t \in ServiceThreads : service[t].at \in {"done", "gone"}

Due(k) == \E e \in taskQueue : e.task = k /\ e.time <= MaxTime

\* A task whose time comes is taken and called, unless the scheduler is stopped: no wait
\* outlasts it.
TaskIsCalled == \A k \in Tasks : []<>(~Due(k) \/ SchedulerStopped)

=============================================================================
