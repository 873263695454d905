----------------------------- MODULE TaskQueue -----------------------------
(***************************************************************************)
(* NovaLINK_TaskQueue: the driver's two worker threads, one with real-time *)
(* priority and one without, and the lock-free queues that feed them.      *)
(*                                                                         *)
(* A queue is a TAtomicStack: tasks are pushed on its head with a          *)
(* compare-and-swap and the worker takes the whole list at once, reversed. *)
(* Two Mach semaphores go with each queue.  The first counts queued work.  *)
(* The second is where the threads blocked in QueueSync wait; the worker   *)
(* wakes all of them after every synchronous task (semaphore_signal_all),  *)
(* which is not remembered when nobody is blocked, hence the timeout.      *)
(*                                                                         *)
(* A synchronous task lives on the stack of the thread that queued it and  *)
(* is named by that thread.  Asynchronous tasks are recycled through a     *)
(* free list.  Updating a client (task "Update") makes the non-real-time   *)
(* worker itself queue a synchronous "Swap" on the real-time queue, so     *)
(* that worker is one of the synchronous threads.                          *)
(*                                                                         *)
(* The compare-and-swap loops of TAtomicStack are single steps here: each  *)
(* takes effect at its successful compare-and-swap.                        *)
(***************************************************************************)
EXTENDS Naturals, Sequences, FiniteSets, SequencesExt, Functions

CONSTANTS
    Callers,        \* non-real-time threads that call QueueSync
    Producers,      \* real-time threads that queue asynchronous tasks
    Destroyers,     \* {} or one thread that runs ~NovaLINK_TaskQueue
    NonRTWorker,    \* the non-real-time worker thread, as a caller
    AsyncTasks,     \* every task object that may ever exist (a bound)
    Preallocated,   \* the objects the constructor puts on the free list
    NoTask,         \* not a task
    MaxSignals      \* a bound: nobody queues more while this many signals
                    \* of a queue's semaphore are left over

ASSUME TaskQueueAssumption ==
    /\ Preallocated \subseteq AsyncTasks
    /\ IsFiniteSet(AsyncTasks)
    /\ MaxSignals \in Nat
    /\ NonRTWorker \notin Callers \cup Destroyers
    /\ Callers \cap Destroyers = {}
    /\ AsyncTasks \cap (Callers \cup Destroyers \cup {NonRTWorker}) = {}
    /\ NoTask \notin AsyncTasks \cup Callers \cup Destroyers \cup {NonRTWorker}

Queues == {"RT", "NonRT"}
SyncThreads == Callers \cup Destroyers \cup {NonRTWorker}
Tasks == SyncThreads \cup AsyncTasks

VARIABLES
    stack,          \* queue -> its TAtomicStack, head first
    workQueued,     \* queue -> count of its WorkQueued semaphore
    taskID,         \* task -> what is to be done
    isComplete,     \* thread -> mIsComplete of the task on its stack
    freeList,       \* mNonRealTimeThreadTasksFreeList
    allocated,      \* the asynchronous task objects that exist
    wpc,            \* queue -> where its worker is in WorkerThreadProc
    cur,            \* queue -> theTask
    batch,          \* queue -> the list starting at theNextTask
    shouldStop,     \* queue -> theThreadShouldStop
    cpc,            \* thread -> where it is in QueueSync
    cq,             \* thread -> the queue it called QueueSync for
    ppc,            \* producer -> where it is in QueueOnNonRealtimeThread
    hand,           \* producer -> freeTask
    dpc,            \* progress of ~NovaLINK_TaskQueue
    semaphoresAlive \* FALSE once the destructor destroyed the semaphores

workerVars == <<wpc, cur, batch, shouldStop>>
callVars == <<isComplete, cpc, cq>>
producerVars == <<freeList, allocated, ppc, hand>>
dtorVars == <<dpc, semaphoresAlive>>
vars == <<stack, workQueued, taskID, workerVars, callVars, producerVars, dtorVars>>

\* Every variable has the type of its field; a place in a function is named
\* for the statement that is to be executed next.
TypeOK ==
    /\ stack \in [Queues -> Seq(Tasks)]
    /\ workQueued \in [Queues -> Nat]
    /\ taskID \in [Tasks -> {"Uninitialized", "Swap", "Update", "Notify", "Stop"}]
    /\ isComplete \in [SyncThreads -> BOOLEAN]
    /\ freeList \in SUBSET AsyncTasks /\ allocated \in SUBSET AsyncTasks
    /\ wpc \in [Queues -> {"wait", "fetch", "next", "process", "nested", "finish", "signalAll",
                           "stopped", "threw"}]
    /\ cur \in [Queues -> Tasks \cup {NoTask}]
    /\ batch \in [Queues -> Seq(Tasks)]
    /\ shouldStop \in [Queues -> BOOLEAN]
    /\ cpc \in [SyncThreads -> {"idle", "push", "signal", "check", "wait", "blocked"}]
    /\ cq \in [SyncThreads -> Queues]
    /\ ppc \in [Producers -> {"idle", "push", "signal"}]
    /\ hand \in [Producers -> AsyncTasks \cup {NoTask}]
    /\ dpc \in {"alive", "stopRT", "stopNonRT", "destroy", "done"}
    /\ semaphoresAlive \in BOOLEAN

\* The constructor: the free list is filled, both workers are started.
Init ==
    /\ stack = [q \in Queues |-> <<>>]
    /\ workQueued = [q \in Queues |-> 0]
    /\ taskID = [t \in Tasks |-> "Uninitialized"]
    /\ isComplete = [t \in SyncThreads |-> FALSE]
    /\ freeList = Preallocated
    /\ allocated = Preallocated
    /\ wpc = [q \in Queues |-> "wait"]
    /\ cur = [q \in Queues |-> NoTask]
    /\ batch = [q \in Queues |-> <<>>]
    /\ shouldStop = [q \in Queues |-> FALSE]
    /\ cpc = [t \in SyncThreads |-> "idle"]
    /\ cq = [t \in SyncThreads |-> "RT"]
    /\ ppc = [p \in Producers |-> "idle"]
    /\ hand = [p \in Producers |-> NoTask]
    /\ dpc = "alive"
    /\ semaphoresAlive = TRUE

-----------------------------------------------------------------------------
(* QueueSync, on the thread that waits.                                     *)

\* The task is created on the caller's stack.
EnterQueueSync(t, q, id) ==
    /\ cpc[t] = "idle"
    /\ cpc' = [cpc EXCEPT ![t] = "push"]
    /\ cq' = [cq EXCEPT ![t] = q]
    /\ taskID' = [taskID EXCEPT ![t] = id]
    /\ isComplete' = [isComplete EXCEPT ![t] = FALSE]

PushSync(t) ==
    /\ cpc[t] = "push"
    /\ cpc' = [cpc EXCEPT ![t] = "signal"]
    /\ stack' = [stack EXCEPT ![cq[t]] = <<t>> \o @]
    /\ UNCHANGED <<workQueued, taskID, workerVars, isComplete, cq, producerVars, dtorVars>>

SignalSync(t) ==
    /\ cpc[t] = "signal"
    /\ cpc' = [cpc EXCEPT ![t] = "check"]
    /\ workQueued' = [workQueued EXCEPT ![cq[t]] = @ + 1]
    /\ UNCHANGED <<stack, taskID, workerVars, isComplete, cq, producerVars, dtorVars>>

\* The loop condition.  When the task is complete QueueSync returns and the
\* task goes with its stack frame.
CheckComplete(t) ==
    /\ cpc[t] = "check"
    /\ IF isComplete[t]
       THEN /\ cpc' = [cpc EXCEPT ![t] = "idle"]
            /\ taskID' = [taskID EXCEPT ![t] = "Uninitialized"]
            /\ isComplete' = [isComplete EXCEPT ![t] = FALSE]
            /\ cq' = [cq EXCEPT ![t] = "RT"]
       ELSE /\ cpc' = [cpc EXCEPT ![t] = "wait"]
            /\ UNCHANGED <<taskID, isComplete, cq>>
    /\ UNCHANGED <<stack, workQueued, workerVars, producerVars, dtorVars>>

\* semaphore_timedwait blocks.  A signal_all sent before this is missed.
BlockOnCompleted(t) ==
    /\ cpc[t] = "wait"
    /\ cpc' = [cpc EXCEPT ![t] = "blocked"]
    /\ UNCHANGED <<stack, workQueued, taskID, workerVars, isComplete, cq, producerVars, dtorVars>>

\* Mutant: after a timeout the thread waits again, without looking.
TimeOut_Rewaits(t) ==
    /\ cpc[t] = "blocked"
    /\ cpc' = [cpc EXCEPT ![t] = "wait"]
    /\ UNCHANGED <<stack, workQueued, taskID, workerVars, isComplete, cq, producerVars, dtorVars>>

\* Mutant: a timeout is taken for completion.
TimeOut_Returns(t) ==
    /\ cpc[t] = "blocked"
    /\ cpc' = [cpc EXCEPT ![t] = "idle"]
    /\ UNCHANGED <<stack, workQueued, taskID, workerVars, isComplete, cq, producerVars, dtorVars>>

\* KERN_OPERATION_TIMED_OUT after kRealTimeThreadMaximumComputationNs * 4.
TimeOut(t) ==
    /\ cpc[t] = "blocked"
    /\ cpc' = [cpc EXCEPT ![t] = "check"]
    /\ UNCHANGED <<stack, workQueued, taskID, workerVars, isComplete, cq, producerVars, dtorVars>>

CallStep(t) ==
    \/ PushSync(t)
    \/ SignalSync(t)
    \/ CheckComplete(t)
    \/ BlockOnCompleted(t)
    \/ TimeOut(t)

\* A thread of the HAL asks for a swap of the client maps, or for a client's
\* IO state to be updated, and waits.
QueueSync(t) ==
    /\ dpc = "alive"
    /\ \E q \in Queues :
         /\ workQueued[q] < MaxSignals
         /\ EnterQueueSync(t, q, IF q = "RT" THEN "Swap" ELSE "Update")
    /\ UNCHANGED <<stack, workQueued, workerVars, producerVars, dtorVars>>

-----------------------------------------------------------------------------
(* QueueOnNonRealtimeThread, on a real-time thread.                         *)

\* Take a task object from the free list, or allocate one if it is empty,
\* and copy the task into it.
TakeFreeTask(p, id) ==
    /\ ppc[p] = "idle"
    /\ dpc = "alive"
    /\ workQueued["NonRT"] < MaxSignals
    /\ \E a \in IF freeList # {} THEN freeList ELSE AsyncTasks \ allocated :
         /\ freeList' = freeList \ {a}
         /\ allocated' = allocated \cup {a}
         /\ hand' = [hand EXCEPT ![p] = a]
         /\ taskID' = [taskID EXCEPT ![a] = id]
    /\ ppc' = [ppc EXCEPT ![p] = "push"]
    /\ UNCHANGED <<stack, workQueued, workerVars, callVars, dtorVars>>

PushAsync(p) ==
    /\ ppc[p] = "push"
    /\ ppc' = [ppc EXCEPT ![p] = "signal"]
    /\ stack' = [stack EXCEPT !["NonRT"] = <<hand[p]>> \o @]
    /\ hand' = [hand EXCEPT ![p] = NoTask]
    /\ UNCHANGED <<workQueued, taskID, workerVars, callVars, freeList, allocated, dtorVars>>

\* Mutant: the worker is not woken.
SignalAsync_Silent(p) ==
    /\ ppc[p] = "signal"
    /\ ppc' = [ppc EXCEPT ![p] = "idle"]
    /\ UNCHANGED <<stack, workQueued, taskID, workerVars, callVars, freeList, allocated, hand, dtorVars>>

SignalAsync(p) ==
    /\ ppc[p] = "signal"
    /\ ppc' = [ppc EXCEPT ![p] = "idle"]
    /\ workQueued' = [workQueued EXCEPT !["NonRT"] = @ + 1]
    /\ UNCHANGED <<stack, taskID, workerVars, callVars, freeList, allocated, hand, dtorVars>>

ProducerStep(p) == PushAsync(p) \/ SignalAsync(p)

-----------------------------------------------------------------------------
(* WorkerThreadProc.                                                        *)

WaitForWork(q) ==
    /\ wpc[q] = "wait"
    /\ workQueued[q] > 0
    /\ workQueued' = [workQueued EXCEPT ![q] = @ - 1]
    /\ wpc' = [wpc EXCEPT ![q] = "fetch"]
    /\ UNCHANGED <<stack, taskID, cur, batch, shouldStop, callVars, producerVars, dtorVars>>

\* Mutant: pop_all without the reversal.
FetchTasks_Unreversed(q) ==
    /\ wpc[q] = "fetch"
    /\ batch' = [batch EXCEPT ![q] = stack[q]]
    /\ stack' = [stack EXCEPT ![q] = <<>>]
    /\ wpc' = [wpc EXCEPT ![q] = "next"]
    /\ UNCHANGED <<workQueued, taskID, cur, shouldStop, callVars, producerVars, dtorVars>>

\* pop_all_reversed.  The list may be empty: an earlier fetch may have taken
\* the task this signal was for.
FetchTasks(q) ==
    /\ wpc[q] = "fetch"
    /\ batch' = [batch EXCEPT ![q] = Reverse(stack[q])]
    /\ stack' = [stack EXCEPT ![q] = <<>>]
    /\ wpc' = [wpc EXCEPT ![q] = "next"]
    /\ UNCHANGED <<workQueued, taskID, cur, shouldStop, callVars, producerVars, dtorVars>>

\* theNextTask is read before the task is processed, because completing a
\* synchronous task gives its memory back to the thread that queued it.
NextTask(q) ==
    /\ wpc[q] = "next"
    /\ batch[q] # <<>>
    /\ ~shouldStop[q]
    /\ cur' = [cur EXCEPT ![q] = Head(batch[q])]
    /\ batch' = [batch EXCEPT ![q] = Tail(@)]
    /\ wpc' = [wpc EXCEPT ![q] = "process"]
    /\ UNCHANGED <<stack, workQueued, taskID, shouldStop, callVars, producerVars, dtorVars>>

\* The batch is done, or is abandoned because the thread is to stop.
EndBatch(q) ==
    /\ wpc[q] = "next"
    /\ batch[q] = <<>> \/ shouldStop[q]
    /\ wpc' = [wpc EXCEPT ![q] = IF shouldStop[q] THEN "stopped" ELSE "wait"]
    /\ UNCHANGED <<stack, workQueued, taskID, cur, batch, shouldStop, callVars, producerVars, dtorVars>>

\* A task that needs nothing from this object: stop, swap, notify.
ProcessTask(q) ==
    /\ wpc[q] = "process"
    /\ taskID[cur[q]] # "Update"
    /\ shouldStop' = [shouldStop EXCEPT ![q] = taskID[cur[q]] = "Stop"]
    /\ wpc' = [wpc EXCEPT ![q] = "finish"]
    /\ UNCHANGED <<stack, workQueued, taskID, cur, batch, callVars, producerVars, dtorVars>>

\* StartIONonRT, StopIONonRT or StartInputIONonRT.  Each either finds nothing
\* to change (or a client that was removed, an exception that is swallowed) and
\* is done, or has the real-time worker swap the client maps and waits for it.
ProcessUpdate(q) ==
    /\ wpc[q] = "process"
    /\ taskID[cur[q]] = "Update"
    /\ \/ /\ wpc' = [wpc EXCEPT ![q] = "finish"]
          /\ UNCHANGED <<taskID, callVars>>
       \/ /\ wpc' = [wpc EXCEPT ![q] = "nested"]
          /\ EnterQueueSync(NonRTWorker, "RT", "Swap")
    /\ UNCHANGED <<stack, workQueued, cur, batch, shouldStop, producerVars, dtorVars>>

NestedCallReturned(q) ==
    /\ wpc[q] = "nested"
    /\ cpc[NonRTWorker] = "idle"
    /\ wpc' = [wpc EXCEPT ![q] = "finish"]
    /\ UNCHANGED <<stack, workQueued, taskID, cur, batch, shouldStop, callVars, producerVars, dtorVars>>

\* MarkCompleted lets QueueSync return, so cur may dangle from here on.
MarkCompleted(q) ==
    /\ wpc[q] = "finish"
    /\ cur[q] \in SyncThreads
    /\ isComplete' = [isComplete EXCEPT ![cur[q]] = TRUE]
    /\ cur' = [cur EXCEPT ![q] = NoTask]
    /\ wpc' = [wpc EXCEPT ![q] = "signalAll"]
    /\ UNCHANGED <<stack, workQueued, taskID, batch, shouldStop, cpc, cq, producerVars, dtorVars>>

\* Wakes every thread blocked on this queue's semaphore, whosever task it was.
\* The Mach call fails, and the worker throws, if the semaphore is gone.
SignalAllCompleted(q) ==
    /\ wpc[q] = "signalAll"
    /\ IF semaphoresAlive
       THEN /\ wpc' = [wpc EXCEPT ![q] = "next"]
            /\ cpc' = [t \in SyncThreads |->
                         IF cpc[t] = "blocked" /\ cq[t] = q THEN "check" ELSE cpc[t]]
       ELSE /\ wpc' = [wpc EXCEPT ![q] = "threw"]
            /\ UNCHANGED cpc
    /\ UNCHANGED <<stack, workQueued, taskID, cur, batch, shouldStop, isComplete, cq,
                   producerVars, dtorVars>>

\* Mutant: the task object is dropped.
RecycleTask_Dropped(q) ==
    /\ wpc[q] = "finish"
    /\ cur[q] \in AsyncTasks
    /\ cur' = [cur EXCEPT ![q] = NoTask]
    /\ wpc' = [wpc EXCEPT ![q] = "next"]
    /\ UNCHANGED <<stack, workQueued, taskID, batch, shouldStop, callVars, freeList, allocated,
                   ppc, hand, dtorVars>>

\* An asynchronous task goes back to the free list.  What a free task still
\* holds is never read, so it is forgotten here.
RecycleTask(q) ==
    /\ wpc[q] = "finish"
    /\ cur[q] \in AsyncTasks
    /\ freeList' = freeList \cup {cur[q]}
    /\ taskID' = [taskID EXCEPT ![cur[q]] = "Uninitialized"]
    /\ cur' = [cur EXCEPT ![q] = NoTask]
    /\ wpc' = [wpc EXCEPT ![q] = "next"]
    /\ UNCHANGED <<stack, workQueued, batch, shouldStop, callVars, allocated, ppc, hand, dtorVars>>

WorkerStep(q) ==
    \/ WaitForWork(q)
    \/ FetchTasks(q)
    \/ NextTask(q)
    \/ EndBatch(q)
    \/ ProcessTask(q)
    \/ ProcessUpdate(q)
    \/ NestedCallReturned(q)
    \/ MarkCompleted(q)
    \/ SignalAllCompleted(q)
    \/ RecycleTask(q)

-----------------------------------------------------------------------------
(* ~NovaLINK_TaskQueue.  As for any C++ object, it runs only once no other  *)
(* thread is inside a member function; tasks may still be queued.           *)

Quiescent ==
    /\ \A t \in Callers : cpc[t] = "idle"
    /\ \A p \in Producers : ppc[p] = "idle"

StopRealTimeThread(d) ==
    /\ dpc = "alive"
    /\ Quiescent
    /\ EnterQueueSync(d, "RT", "Stop")
    /\ dpc' = "stopRT"
    /\ UNCHANGED <<stack, workQueued, workerVars, producerVars, semaphoresAlive>>

StopNonRealTimeThread(d) ==
    /\ dpc = "stopRT"
    /\ EnterQueueSync(d, "NonRT", "Stop")
    /\ dpc' = "stopNonRT"
    /\ UNCHANGED <<stack, workQueued, workerVars, producerVars, semaphoresAlive>>

DestroySemaphores(d) ==
    /\ dpc = "stopNonRT"
    /\ cpc[d] = "idle"
    /\ semaphoresAlive' = FALSE
    /\ dpc' = "destroy"
    /\ UNCHANGED <<stack, workQueued, taskID, workerVars, callVars, producerVars>>

\* Delete the free list, then the asynchronous tasks still queued.
DeleteTasks(d) ==
    /\ dpc = "destroy"
    /\ allocated' = allocated \ (freeList \cup ToSet(stack["NonRT"]))
    /\ freeList' = {}
    /\ stack' = [stack EXCEPT !["NonRT"] = <<>>]
    /\ dpc' = "done"
    /\ UNCHANGED <<workQueued, taskID, workerVars, callVars, ppc, hand, semaphoresAlive>>

DtorStep(d) ==
    \/ StopNonRealTimeThread(d)
    \/ DestroySemaphores(d)
    \/ DeleteTasks(d)

-----------------------------------------------------------------------------
Next ==
    \/ \E t \in Callers : QueueSync(t)
    \/ \E t \in SyncThreads : CallStep(t)
    \/ \E p \in Producers, id \in {"Update", "Notify"} : TakeFreeTask(p, id)
    \/ \E p \in Producers : ProducerStep(p)
    \/ \E q \in Queues : WorkerStep(q)
    \/ \E d \in Destroyers : StopRealTimeThread(d) \/ DtorStep(d)

\* The scheduler keeps running both workers, a thread inside QueueSync or
\* QueueOnNonRealtimeThread goes on, a timed wait times out, and a destructor
\* that was entered goes on.  Nobody has to queue anything.
Fairness ==
    /\ \A q \in Queues : WF_vars(WorkerStep(q))
    /\ \A t \in SyncThreads : WF_vars(CallStep(t))
    /\ \A p \in Producers : WF_vars(ProducerStep(p))
    /\ \A d \in Destroyers : WF_vars(DtorStep(d))

Spec == Init /\ [][Next]_vars /\ Fairness

-----------------------------------------------------------------------------
(* Correctness.                                                             *)

InQueueSync(t) == cpc[t] \in {"signal", "check", "wait", "blocked"}

\* The task a worker is about to process or to complete.
InService(q) == IF wpc[q] \in {"process", "nested", "finish"} THEN <<cur[q]>> ELSE <<>>

\* The tasks a queue still holds, oldest first.
Outstanding(q) == InService(q) \o batch[q] \o Reverse(stack[q])

\* A worker can only reach a synchronous task whose thread is still inside
\* QueueSync waiting for it, so the task's memory (the caller's stack) is
\* valid whenever the worker reads it, and no task is processed after it
\* was completed (the assertion in WorkerThreadProc).
SyncTasksLive ==
    \A q \in Queues : \A t \in ToSet(Outstanding(q)) \cap SyncThreads :
        InQueueSync(t) /\ ~isComplete[t] /\ cq[t] = q

\* While the queue is alive every allocated asynchronous task object is in
\* exactly one place: the free list, a producer's hands, or once in the
\* non-real-time queue.  (The assertion that a task was not "added multiple
\* times", and no object is lost or handed out twice.)
TasksOwnedOnce ==
    dpc = "alive" =>
      /\ \A q \in Queues : IsInjective(Outstanding(q))
      /\ ToSet(Outstanding("RT")) \cap AsyncTasks = {}
      /\ \A a \in AsyncTasks :
           Cardinality(   {"free" : x \in {a} \cap freeList}
                     \cup {p \in Producers : hand[p] = a}
                     \cup {"queue" : x \in {a} \cap ToSet(Outstanding("NonRT"))})
             = IF a \in allocated THEN 1 ELSE 0

\* QueueSync returns: the task was queued, so it is processed and its thread
\* is let go, even when the thread misses the worker's signal.
SyncCallsReturn ==
    \A t \in Callers : cpc[t] = "push" ~> cpc[t] = "idle"

\* A task that a real-time thread queued is eventually processed and its
\* object returns to the free list, so the free list does not drain for good.
AsyncTasksServed ==
    \A a \in AsyncTasks :
        a \in ToSet(Outstanding("NonRT")) ~> a \in freeList

\* The promise to the rest of the driver.
Service == INSTANCE TaskService WITH
    pending <- [q \in Queues |-> Outstanding(q)],
    caller <- [t \in SyncThreads |->
                 IF ~InQueueSync(t) THEN "idle"
                 ELSE IF isComplete[t] THEN "served" ELSE "waiting"]

ServesInOrder == Service!Spec
=============================================================================
