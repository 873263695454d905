---------------------------- MODULE TaskService ----------------------------
(***************************************************************************)
(* What NovaLINK_TaskQueue promises to the code that uses it.              *)
(*                                                                         *)
(* There are two queues.  A task is submitted to one of them, either by a  *)
(* thread that then waits for it (a synchronous task, named by the thread  *)
(* that waits) or by a thread that does not (an asynchronous task, named   *)
(* by its task object).  Each queue serves its tasks one at a time, each   *)
(* exactly once, in the order they were submitted, and a thread that waits *)
(* is let go only after its own task has been served.                      *)
(***************************************************************************)
EXTENDS Sequences, FiniteSets, SequencesExt

CONSTANTS
    Queues,         \* the queues
    SyncThreads,    \* threads that may wait for a task
    AsyncTasks      \* task objects of asynchronous tasks

VARIABLES
    pending,        \* queue -> the tasks not served yet, oldest first
    caller          \* thread -> "idle", "waiting" or "served"

vars == <<pending, caller>>

TypeOK ==
    /\ pending \in [Queues -> Seq(SyncThreads \cup AsyncTasks)]
    /\ caller \in [SyncThreads -> {"idle", "waiting", "served"}]

Init ==
    /\ pending = [q \in Queues |-> <<>>]
    /\ caller = [t \in SyncThreads |-> "idle"]

SubmitSync(q, t) ==
    /\ caller[t] = "idle"
    /\ caller' = [caller EXCEPT ![t] = "waiting"]
    /\ pending' = [pending EXCEPT ![q] = Append(@, t)]

SubmitAsync(q, a) ==
    /\ \A r \in Queues : a \notin ToSet(pending[r])
    /\ pending' = [pending EXCEPT ![q] = Append(@, a)]
    /\ UNCHANGED caller

\* Only the oldest task of a queue can be served.
Serve(q) ==
    /\ pending[q] # <<>>
    /\ pending' = [pending EXCEPT ![q] = Tail(@)]
    /\ LET task == Head(pending[q]) IN
         IF task \in SyncThreads
         THEN caller' = [caller EXCEPT ![task] = "served"]
         ELSE UNCHANGED caller

\* The waiting thread is let go.
Return(t) ==
    /\ caller[t] = "served"
    /\ caller' = [caller EXCEPT ![t] = "idle"]
    /\ UNCHANGED pending

Next ==
    \/ \E q \in Queues : Serve(q)
    \/ \E q \in Queues, t \in SyncThreads : SubmitSync(q, t)
    \/ \E q \in Queues, a \in AsyncTasks : SubmitAsync(q, a)
    \/ \E t \in SyncThreads : Return(t)

Spec == Init /\ [][Next]_vars
=============================================================================
