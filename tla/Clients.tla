------------------------------ MODULE Clients ------------------------------
(***************************************************************************)
(* NovaLINK_Clients: which clients of the device do IO and which of them   *)
(* read its input, how many, whether the companion app is one of them, and *)
(* which is the music player.                                              *)
(*                                                                         *)
(* Its callers are the HAL's thread (one at a time: NovaLINK_Device holds  *)
(* mStateMutex in StartIO, StopIO, AddClient, RemoveClient and when a      *)
(* music player property is set), the clients' IO threads, which may only  *)
(* queue tasks, and the non-real-time worker, which runs the tasks in the  *)
(* order they were queued (TaskService).  The clients themselves are kept  *)
(* in NovaLINK_ClientMap, which acts as one map (ClientRegistry).          *)
(*                                                                         *)
(* Each operation holds mMutex and has two steps here, since IO threads    *)
(* read the map without that mutex: the update of the map, then that of    *)
(* the members of NovaLINK_Clients.                                        *)
(*                                                                         *)
(* The environment is the HAL: a client is added, does IO any number of    *)
(* times and is removed; its ID is not used again.  The HAL calls StartIO  *)
(* for the first client that starts and StopIO for the last that stops,    *)
(* and may call them for others.                                           *)
(***************************************************************************)
EXTENDS ClientRecords, Naturals, Sequences, FiniteSets

CONSTANTS
    NoID,           \* -1 as a client ID
    Unset,          \* 0 as a PID property and "" as a bundle ID property
    PlayerPIDs,     \* values to which the PID property is set
    PlayerBundles,  \* values to which the bundle ID property is set
    MaxTasks        \* a bound: IO threads queue no more while this many tasks are queued

ASSUME ClientsModelAssumption ==
    /\ IsFiniteSet(ClientIDs)
    /\ NoID \notin ClientIDs
    /\ Unset \notin PIDs \cup Bundles
    /\ \A id \in ClientIDs : BundleOf[id] # Unset
    /\ PlayerPIDs \subseteq PIDs \cup {Unset}
    /\ PlayerBundles \subseteq Bundles \cup {Unset}
    /\ MaxTasks \in Nat

VARIABLES
    clients,                                \* mClientMap
    mStartCount,                            \* clients doing IO
    mStartCountExcludingNovaLINKApp,        \* ... that are not passthrough hosts
    mInputStartCountExcludingPassthrough,   \* ... that also read input
    hostClientCount,    \* mNovaLINKAppClientCount and mXPCHelperClientCount
    hostClientID,       \* mNovaLINKAppClientID and mXPCHelperClientID
    mMusicPlayerProcessIDProperty,
    mMusicPlayerBundleIDProperty,
    mMutex,             \* "free", "HAL" or "worker"
    tasks,              \* tasks queued for the non-real-time worker
    theTask,            \* the task whose map update the worker has made
    hal,                \* client -> where it is in its life
    call,               \* the call of the HAL's thread into the device
    notify,             \* properties whose change is still to be announced
    hostView,           \* property -> the value the HAL last read of it
    counted,            \* auxiliary: clients whose start was counted, and not their stop
    countedInput        \* auxiliary: the same for reading input

counters == <<mStartCount, mStartCountExcludingNovaLINKApp, mInputStartCountExcludingPassthrough>>
hostVars == <<hostClientCount, hostClientID>>
playerVars == <<mMusicPlayerProcessIDProperty, mMusicPlayerBundleIDProperty>>
auxVars == <<counted, countedInput>>
vars == <<clients, counters, hostVars, playerVars, mMutex, tasks, theTask, hal, call,
          notify, hostView, auxVars>>

Registry == INSTANCE ClientRegistry WITH Readers <- {}, answer <- NoClients

Hosts == {id \in ClientIDs : IsPassthroughHost(id)}

TaskKinds == {"StartIO", "StopIO", "StartInputIO"}
Tasks == [kind : TaskKinds, id : ClientIDs, sync : BOOLEAN]
NoTask == [kind |-> "None"]
\* wasDoingInputIO is a local variable of StopIONonRT.
TasksInHand == [kind : TaskKinds, id : ClientIDs, sync : BOOLEAN, wasDoingInputIO : BOOLEAN]

Calls == [kind : {"Add", "Remove", "StartIO", "StopIO", "Started", "Stopped"}, id : ClientIDs]
SetCall == [kind |-> "SetMusicPlayer"]
NoCall == [kind |-> "None"]

\* A client is registered from "idle" to "stopping"; its IO thread runs in "io".
HALStates == {"absent", "idle", "starting", "started", "io", "ended", "stopping", "gone"}

Properties == {"IsRunning", "IsRunningOther", "InputIsRunning"}
\* The getters, which read a counter without mMutex.
Value(p) ==
    CASE p = "IsRunning" -> mStartCount > 0
      [] p = "IsRunningOther" -> mStartCountExcludingNovaLINKApp > 0
      [] p = "InputIsRunning" -> mInputStartCountExcludingPassthrough > 0

TypeOK ==
    /\ clients \in ClientMaps
    /\ mStartCount \in Nat
    /\ mStartCountExcludingNovaLINKApp \in Nat
    /\ mInputStartCountExcludingPassthrough \in Nat
    /\ hostClientCount \in [HostBundles -> Nat]
    /\ hostClientID \in [HostBundles -> ClientIDs \cup {NoID}]
    /\ mMusicPlayerProcessIDProperty \in PIDs \cup {Unset}
    /\ mMusicPlayerBundleIDProperty \in Bundles \cup {Unset}
    /\ mMutex \in {"free", "HAL", "worker"}
    /\ tasks \in Seq(Tasks)
    /\ theTask \in TasksInHand \cup {NoTask}
    /\ hal \in [ClientIDs -> HALStates]
    /\ call \in Calls \cup {SetCall, NoCall}
    /\ notify \subseteq Properties
    /\ hostView \in [Properties -> BOOLEAN]
    /\ counted \subseteq ClientIDs
    /\ countedInput \subseteq ClientIDs

Init ==
    /\ clients = NoClients
    /\ mStartCount = 0
    /\ mStartCountExcludingNovaLINKApp = 0
    /\ mInputStartCountExcludingPassthrough = 0
    /\ hostClientCount = [b \in HostBundles |-> 0]
    /\ hostClientID = [b \in HostBundles |-> NoID]
    /\ mMusicPlayerProcessIDProperty = Unset
    /\ mMusicPlayerBundleIDProperty = Unset
    /\ mMutex = "free"
    /\ tasks = <<>>
    /\ theTask = NoTask
    /\ hal = [id \in ClientIDs |-> "absent"]
    /\ call = NoCall
    /\ notify = {}
    /\ hostView = [p \in Properties |-> FALSE]
    /\ counted = {}
    /\ countedInput = {}

-----------------------------------------------------------------------------
(* AddClient and RemoveClient, on the HAL's thread.                         *)

\* Mutant: without the mutex.
EnterCall_Unlocked(c) ==
    /\ call = NoCall
    /\ mMutex' = "HAL"
    /\ call' = c

\* A call of the HAL's thread that takes mMutex.
EnterCall(c) ==
    /\ call = NoCall
    /\ mMutex = "free"
    /\ mMutex' = "HAL"
    /\ call' = c

LeaveCall ==
    /\ mMutex' = "free"
    /\ call' = NoCall

MatchesMusicPlayer(id) ==
    \/ mMusicPlayerProcessIDProperty = PIDOf[id]
    \/ mMusicPlayerBundleIDProperty = BundleOf[id]

\* Mutant: the properties were set before the client came, and are not looked at.
AddClient_Unflagged(id) ==
    /\ hal[id] = "absent"
    /\ EnterCall([kind |-> "Add", id |-> id])
    /\ Registry!AddClient(id, FALSE)
    /\ UNCHANGED <<counters, hostVars, playerVars, tasks, theTask, hal, notify, hostView, auxVars>>

AddClient(id) ==
    /\ hal[id] = "absent"
    /\ EnterCall([kind |-> "Add", id |-> id])
    /\ Registry!AddClient(id, MatchesMusicPlayer(id))
    /\ UNCHANGED <<counters, hostVars, playerVars, tasks, theTask, hal, notify, hostView, auxVars>>

FinishAddClient(id) ==
    /\ call = [kind |-> "Add", id |-> id]
    /\ LeaveCall
    /\ IF IsPassthroughHost(id)
       THEN /\ hostClientID' = [hostClientID EXCEPT ![BundleOf[id]] = id]
            /\ hostClientCount' = [hostClientCount EXCEPT ![BundleOf[id]] = @ + 1]
       ELSE UNCHANGED hostVars
    /\ hal' = [hal EXCEPT ![id] = "idle"]
    /\ UNCHANGED <<clients, counters, playerVars, tasks, theTask, notify, hostView, auxVars>>

\* Nothing is subtracted from the counters, even if the client is doing IO.
RemoveClient(id) ==
    /\ hal[id] = "idle"
    /\ EnterCall([kind |-> "Remove", id |-> id])
    /\ Registry!RemoveClient(id)
    /\ UNCHANGED <<counters, hostVars, playerVars, tasks, theTask, hal, notify, hostView, auxVars>>

\* Mutant: the first client of the app to go takes the app with it.
FinishRemoveClient_Whole(id) ==
    /\ call = [kind |-> "Remove", id |-> id]
    /\ LeaveCall
    /\ hostClientCount' = [b \in HostBundles |-> IF b = BundleOf[id] THEN 0 ELSE hostClientCount[b]]
    /\ hostClientID' = [b \in HostBundles |-> IF b = BundleOf[id] THEN NoID ELSE hostClientID[b]]
    /\ hal' = [hal EXCEPT ![id] = "gone"]
    /\ UNCHANGED <<clients, counters, playerVars, tasks, theTask, notify, hostView, auxVars>>

FinishRemoveClient(id) ==
    /\ call = [kind |-> "Remove", id |-> id]
    /\ LeaveCall
    /\ IF IsPassthroughHost(id)
       THEN LET left == IF hostClientCount[BundleOf[id]] > 0
                        THEN hostClientCount[BundleOf[id]] - 1 ELSE 0
            IN  /\ hostClientCount' = [hostClientCount EXCEPT ![BundleOf[id]] = left]
                /\ hostClientID' = [hostClientID EXCEPT ![BundleOf[id]] =
                                      IF left = 0 \/ @ = id THEN NoID ELSE @]
       ELSE UNCHANGED hostVars
    /\ hal' = [hal EXCEPT ![id] = "gone"]
    /\ UNCHANGED <<clients, counters, playerVars, tasks, theTask, notify, hostView, auxVars>>

-----------------------------------------------------------------------------
(* SetMusicPlayer, which has two overloads, on the HAL's thread.            *)

\* Nothing is done if the property has that value already.
SetMusicPlayerPID(p) ==
    /\ EnterCall(SetCall)
    /\ IF mMusicPlayerProcessIDProperty = p
       THEN UNCHANGED <<clients, playerVars>>
       ELSE /\ mMusicPlayerProcessIDProperty' = p
            /\ mMusicPlayerBundleIDProperty' = Unset
            /\ Registry!UpdateMusicPlayerFlags({id \in ClientIDs : PIDOf[id] = p})
    /\ UNCHANGED <<counters, hostVars, tasks, theTask, hal, notify, hostView, auxVars>>

SetMusicPlayerBundleID(b) ==
    /\ EnterCall(SetCall)
    /\ IF mMusicPlayerBundleIDProperty = b
       THEN UNCHANGED <<clients, playerVars>>
       ELSE /\ mMusicPlayerBundleIDProperty' = b
            /\ mMusicPlayerProcessIDProperty' = Unset
            /\ Registry!UpdateMusicPlayerFlags({id \in ClientIDs : BundleOf[id] = b})
    /\ UNCHANGED <<counters, hostVars, tasks, theTask, hal, notify, hostView, auxVars>>

FinishSetMusicPlayer ==
    /\ call = SetCall
    /\ LeaveCall
    /\ UNCHANGED <<clients, counters, hostVars, playerVars, tasks, theTask, hal,
                   notify, hostView, auxVars>>

-----------------------------------------------------------------------------
(* StartIO, StopIO and the IO threads: NovaLINK_Device.                     *)

InIO == {id \in ClientIDs : hal[id] \in {"started", "io", "ended"}}

\* Mutant: the last task queued is the first to run.
Queue_OnTop(kind, id, sync) ==
    tasks' = <<[kind |-> kind, id |-> id, sync |-> sync]>> \o tasks

Queue(kind, id, sync) ==
    tasks' = Append(tasks, [kind |-> kind, id |-> id, sync |-> sync])

\* StartIO queues the task and waits; the call becomes "Started" when it is done.
StartIO(id) ==
    /\ call = NoCall
    /\ hal[id] = "idle"
    /\ Queue("StartIO", id, TRUE)
    /\ call' = [kind |-> "StartIO", id |-> id]
    /\ hal' = [hal EXCEPT ![id] = "starting"]
    /\ UNCHANGED <<clients, counters, hostVars, playerVars, mMutex, theTask,
                   notify, hostView, auxVars>>

StartIOReturns(id) ==
    /\ call = [kind |-> "Started", id |-> id]
    /\ call' = NoCall
    /\ hal' = [hal EXCEPT ![id] = "started"]
    /\ UNCHANGED <<clients, counters, hostVars, playerVars, mMutex, tasks, theTask,
                   notify, hostView, auxVars>>

\* The HAL does not call StartIO when another client does IO.
StartsWithoutStartIO(id) ==
    /\ call = NoCall
    /\ hal[id] = "idle"
    /\ InIO # {}
    /\ hal' = [hal EXCEPT ![id] = "started"]
    /\ UNCHANGED <<clients, counters, hostVars, playerVars, mMutex, tasks, theTask, call,
                   notify, hostView, auxVars>>

StopIO(id) ==
    /\ call = NoCall
    /\ hal[id] = "ended"
    /\ Queue("StopIO", id, TRUE)
    /\ call' = [kind |-> "StopIO", id |-> id]
    /\ hal' = [hal EXCEPT ![id] = "stopping"]
    /\ UNCHANGED <<clients, counters, hostVars, playerVars, mMutex, theTask,
                   notify, hostView, auxVars>>

StopIOReturns(id) ==
    /\ call = [kind |-> "Stopped", id |-> id]
    /\ call' = NoCall
    /\ hal' = [hal EXCEPT ![id] = "idle"]
    /\ UNCHANGED <<clients, counters, hostVars, playerVars, mMutex, tasks, theTask,
                   notify, hostView, auxVars>>

\* ... nor StopIO.
StopsWithoutStopIO(id) ==
    /\ call = NoCall
    /\ hal[id] = "ended"
    /\ InIO # {id}
    /\ hal' = [hal EXCEPT ![id] = "idle"]
    /\ UNCHANGED <<clients, counters, hostVars, playerVars, mMutex, tasks, theTask, call,
                   notify, hostView, auxVars>>

\* BeginIOOperation and EndIOOperation of kAudioServerPlugInIOOperationThread,
\* first and last on the client's IO thread.
BeginIOOperation(id) ==
    /\ hal[id] = "started"
    /\ Len(tasks) < MaxTasks
    /\ Queue("StartIO", id, FALSE)
    /\ hal' = [hal EXCEPT ![id] = "io"]
    /\ UNCHANGED <<clients, counters, hostVars, playerVars, mMutex, theTask, call,
                   notify, hostView, auxVars>>

EndIOOperation(id) ==
    /\ hal[id] = "io"
    /\ Len(tasks) < MaxTasks
    /\ Queue("StopIO", id, FALSE)
    /\ hal' = [hal EXCEPT ![id] = "ended"]
    /\ UNCHANGED <<clients, counters, hostVars, playerVars, mMutex, theTask, call,
                   notify, hostView, auxVars>>

\* DoIOOperation of kAudioServerPlugInIOOperationReadInput.
ReadInput(id) ==
    /\ hal[id] = "io"
    /\ ClientShouldMarkInputIO(clients, id)
    /\ Len(tasks) < MaxTasks
    /\ Queue("StartInputIO", id, FALSE)
    /\ UNCHANGED <<clients, counters, hostVars, playerVars, mMutex, theTask, hal, call,
                   notify, hostView, auxVars>>

-----------------------------------------------------------------------------
(* StartIONonRT, StopIONonRT and StartInputIONonRT, on the worker.          *)

\* A synchronous task lets its caller go.
Completed(task) ==
    call' = IF task.sync
            THEN [kind |-> IF task.kind = "StartIO" THEN "Started" ELSE "Stopped", id |-> task.id]
            ELSE call

NeedsUpdate(task) ==
    /\ clients[task.id] # Absent
    /\ CASE task.kind = "StartIO" -> ~clients[task.id].mDoingIO
         [] task.kind = "StopIO" -> clients[task.id].mDoingIO
         [] task.kind = "StartInputIO" -> ClientShouldMarkInputIO(clients, task.id)

\* The client was removed (NovaLINK_InvalidClientException, which is ignored) or
\* is in that state already.
IgnoreTask ==
    /\ theTask = NoTask
    /\ tasks # <<>>
    /\ mMutex = "free"
    /\ ~NeedsUpdate(Head(tasks))
    /\ tasks' = Tail(tasks)
    /\ Completed(Head(tasks))
    /\ UNCHANGED <<clients, counters, hostVars, playerVars, mMutex, theTask, hal,
                   notify, hostView, auxVars>>

UpdateMap(task) ==
    CASE task.kind = "StartIO" -> Registry!UpdateClientIOState(task.id, TRUE)
      [] task.kind = "StopIO" -> Registry!UpdateClientIOState(task.id, FALSE)
      [] task.kind = "StartInputIO" -> Registry!StartInputIO(task.id)

BeginTask ==
    /\ theTask = NoTask
    /\ tasks # <<>>
    /\ mMutex = "free"
    /\ NeedsUpdate(Head(tasks))
    /\ mMutex' = "worker"
    /\ tasks' = Tail(tasks)
    /\ LET task == Head(tasks) IN
         /\ UpdateMap(task)
         /\ theTask' = [kind |-> task.kind, id |-> task.id, sync |-> task.sync,
                        wasDoingInputIO |-> clients[task.id].mDoingInputIO]
    /\ UNCHANGED <<counters, hostVars, playerVars, hal, call, notify, hostView, auxVars>>

FinishTask ==
    /\ mMutex' = "free"
    /\ theTask' = NoTask
    /\ Completed(theTask)
    /\ UNCHANGED <<clients, hostVars, playerVars, tasks, hal, hostView>>

FinishStartIO ==
    /\ theTask.kind = "StartIO"
    /\ mStartCount' = mStartCount + 1
    /\ mStartCountExcludingNovaLINKApp' =
         mStartCountExcludingNovaLINKApp + (IF theTask.id \in Hosts THEN 0 ELSE 1)
    /\ notify' = notify
         \cup {p \in {"IsRunning"} : mStartCount' = 1}
         \cup {p \in {"IsRunningOther"} :
                 theTask.id \notin Hosts /\ mStartCountExcludingNovaLINKApp' = 1}
    /\ counted' = counted \cup {theTask.id}
    /\ FinishTask
    /\ UNCHANGED <<mInputStartCountExcludingPassthrough, countedInput>>

StopsInput(task) == task.id \notin Hosts /\ task.wasDoingInputIO

\* Each subtraction from zero is an exception that ends the worker thread.
StopUnderflows ==
    \/ mStartCount = 0
    \/ theTask.id \notin Hosts /\ mStartCountExcludingNovaLINKApp = 0
    \/ StopsInput(theTask) /\ mInputStartCountExcludingPassthrough = 0

FinishStopIO ==
    /\ theTask.kind = "StopIO"
    /\ ~StopUnderflows
    /\ mStartCount' = mStartCount - 1
    /\ mStartCountExcludingNovaLINKApp' =
         mStartCountExcludingNovaLINKApp - (IF theTask.id \in Hosts THEN 0 ELSE 1)
    /\ mInputStartCountExcludingPassthrough' =
         mInputStartCountExcludingPassthrough - (IF StopsInput(theTask) THEN 1 ELSE 0)
    /\ notify' = notify
         \cup {p \in {"IsRunning"} : mStartCount' = 0}
         \cup {p \in {"IsRunningOther"} :
                 theTask.id \notin Hosts /\ mStartCountExcludingNovaLINKApp' = 0}
         \cup {p \in {"InputIsRunning"} :
                 StopsInput(theTask) /\ mInputStartCountExcludingPassthrough' = 0}
    /\ counted' = counted \ {theTask.id}
    /\ countedInput' = countedInput \ {theTask.id}
    /\ FinishTask

\* Mutant: becameActive is computed before the counter is incremented.
FinishStartInputIO_Early ==
    /\ theTask.kind = "StartInputIO"
    /\ mInputStartCountExcludingPassthrough' = mInputStartCountExcludingPassthrough + 1
    /\ notify' = notify \cup {p \in {"InputIsRunning"} : mInputStartCountExcludingPassthrough = 1}
    /\ countedInput' = countedInput \cup {theTask.id}
    /\ FinishTask
    /\ UNCHANGED <<mStartCount, mStartCountExcludingNovaLINKApp, counted>>

FinishStartInputIO ==
    /\ theTask.kind = "StartInputIO"
    /\ mInputStartCountExcludingPassthrough' = mInputStartCountExcludingPassthrough + 1
    /\ notify' = notify \cup {p \in {"InputIsRunning"} : mInputStartCountExcludingPassthrough' = 1}
    /\ countedInput' = countedInput \cup {theTask.id}
    /\ FinishTask
    /\ UNCHANGED <<mStartCount, mStartCountExcludingNovaLINKApp, counted>>

\* The blocks on the global serial queue: the HAL is told and reads the
\* properties again.  Announcements not made yet are made together.
SendIORunningNotifications ==
    /\ notify # {}
    /\ hostView' = [p \in Properties |-> IF p \in notify THEN Value(p) ELSE hostView[p]]
    /\ notify' = {}
    /\ UNCHANGED <<clients, counters, hostVars, playerVars, mMutex, tasks, theTask, hal,
                   call, auxVars>>

-----------------------------------------------------------------------------
HALNext ==
    \/ \E id \in ClientIDs :
         \/ AddClient(id) \/ FinishAddClient(id)
         \/ RemoveClient(id) \/ FinishRemoveClient(id)
         \/ StartIO(id) \/ StartIOReturns(id) \/ StartsWithoutStartIO(id)
         \/ StopIO(id) \/ StopIOReturns(id) \/ StopsWithoutStopIO(id)
    \/ \E p \in PlayerPIDs : SetMusicPlayerPID(p)
    \/ \E b \in PlayerBundles : SetMusicPlayerBundleID(b)
    \/ FinishSetMusicPlayer

IONext == \E id \in ClientIDs : BeginIOOperation(id) \/ EndIOOperation(id) \/ ReadInput(id)

WorkerNext == IgnoreTask \/ BeginTask \/ FinishStartIO \/ FinishStopIO \/ FinishStartInputIO

Next == HALNext \/ IONext \/ WorkerNext \/ SendIORunningNotifications

Spec == Init /\ [][Next]_vars

-----------------------------------------------------------------------------
(* Correctness.                                                             *)

Registered == {id \in ClientIDs : clients[id] # Absent}
DoingIO == {id \in Registered : clients[id].mDoingIO}
DoingInputIO == {id \in Registered : clients[id].mDoingInputIO}

\* Clients that were removed while the driver still took them to be doing IO:
\* RemoveClient does not wait for the StopIO task their IO thread queued.
Leaked == counted \ Registered

\* Between operations each counter is the number of clients it stands for,
\* and besides those only of clients that leaked; so until a client leaks,
\* the counters are exact however the three kinds of threads interleave.
CountersExact ==
    mMutex = "free" =>
      /\ mStartCount = Cardinality(DoingIO \cup Leaked)
      /\ mStartCountExcludingNovaLINKApp = Cardinality((DoingIO \cup Leaked) \ Hosts)
      /\ mInputStartCountExcludingPassthrough =
           Cardinality(DoingInputIO \cup (countedInput \ Registered))
      /\ countedInput \subseteq counted \ Hosts

\* The assertions of StartIONonRT and StopIONonRT, which the getters, that
\* take no mutex, may rely on at any time.
CounterOrder ==
    /\ mInputStartCountExcludingPassthrough <= mStartCountExcludingNovaLINKApp
    /\ mStartCountExcludingNovaLINKApp <= mStartCount

\* StopIONonRT never finds a counter at zero, which would end the worker.
NoUnderflow == theTask.kind = "StopIO" => ~StopUnderflows

\* When the queue is empty the driver agrees with the HAL about who does IO,
\* whatever order the calls and the IO threads' tasks came in: a late StopIO
\* of one session never ends the next, and none is forgotten.
DoingIOTracksHAL ==
    (tasks = <<>> /\ theTask = NoTask) =>
      \A id \in Registered :
        /\ hal[id] = "io" => clients[id].mDoingIO
        /\ hal[id] = "idle" => ~clients[id].mDoingIO /\ ~clients[id].mDoingInputIO

\* Once all changes are announced the HAL has the current values: no change of
\* a counter from or to zero goes unannounced.
HostViewCurrent ==
    notify = {} => \A p \in Properties : hostView[p] = Value(p)

\* The companion app (or XPCHelper) counts as registered exactly while one of
\* its several clients is, and the client ID kept of it is one of them.
HostsRegistered ==
    mMutex = "free" =>
      \A b \in HostBundles :
        LET its == {id \in Registered : BundleOf[id] = b} IN
          /\ hostClientCount[b] = Cardinality(its)
          /\ hostClientID[b] \in its \cup {NoID}

\* A client is flagged as the music player exactly if it matches a property,
\* in whatever order clients and properties came, and one property at most
\* is set.
MusicPlayerFlagged ==
    mMutex = "free" =>
      /\ Unset \in {mMusicPlayerProcessIDProperty, mMusicPlayerBundleIDProperty}
      /\ \A id \in Registered :
           clients[id].mIsMusicPlayer <=>
             \/ PIDOf[id] = mMusicPlayerProcessIDProperty
             \/ BundleOf[id] = mMusicPlayerBundleIDProperty
=============================================================================
