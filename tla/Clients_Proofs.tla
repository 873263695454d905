--------------------------- MODULE Clients_Proofs ---------------------------
(***************************************************************************)
(* Proofs about Clients, for any number of clients, music player values    *)
(* and queued tasks.                                                       *)
(*                                                                         *)
(* The counters are compared with the sets counted and countedInput of the *)
(* clients whose start was counted, and these with the flags that the map  *)
(* keeps of each client.  The two differ only for the client of the task   *)
(* in hand, and for a client that was removed.                             *)
(***************************************************************************)
EXTENDS Clients, FiniteSetTheorems, TLAPS

\* The client whose task the worker has in hand.
InHand(id) == theTask # NoTask /\ theTask.id = id

\* mMutex is held by the HAL's thread from the first to the last step of a
\* call, and by the worker while it has a task in hand.
Mutex ==
    /\ mMutex = "worker" <=> theTask # NoTask
    /\ mMutex = "HAL" <=> call.kind \in {"Add", "Remove", "SetMusicPlayer"}

\* A synchronous task belongs to the call that waits for it; there is one.
Sync ==
    /\ \A i \in DOMAIN tasks : tasks[i].sync =>
         /\ call = [kind |-> tasks[i].kind, id |-> tasks[i].id]
         /\ theTask # NoTask => ~theTask.sync
         /\ \A j \in DOMAIN tasks : tasks[j].sync => j = i
    /\ (theTask # NoTask /\ theTask.sync) =>
         call = [kind |-> theTask.kind, id |-> theTask.id]

\* The counters count the clients whose start was counted.
Counts ==
    /\ mStartCount = Cardinality(counted)
    /\ mStartCountExcludingNovaLINKApp = Cardinality(counted \ Hosts)
    /\ mInputStartCountExcludingPassthrough = Cardinality(countedInput)

\* Only a client that is counted, and is not a passthrough host, is counted as
\* reading input.
Inputs == countedInput \subseteq counted \ Hosts

\* A client that was counted was added, and one that is in the map is known to
\* the HAL, or is just being added.
Life ==
    \A id \in ClientIDs : hal[id] = "absent" =>
      /\ id \notin counted
      /\ clients[id] # Absent => call = [kind |-> "Add", id |-> id]

\* Except for the client of the task in hand the flags say who was counted.
Flags ==
    \A id \in ClientIDs : (clients[id] # Absent /\ ~InHand(id)) =>
      /\ clients[id].mDoingIO <=> id \in counted
      /\ clients[id].mDoingInputIO <=> id \in countedInput

\* For that client the map has been updated, but not yet the counters.
HandFlags ==
    theTask # NoTask =>
      /\ clients[theTask.id] # Absent
      /\ theTask.kind = "StartIO" =>
           /\ clients[theTask.id].mDoingIO /\ ~clients[theTask.id].mDoingInputIO
           /\ theTask.id \notin counted
      /\ theTask.kind = "StopIO" =>
           /\ ~clients[theTask.id].mDoingIO /\ ~clients[theTask.id].mDoingInputIO
           /\ theTask.id \in counted
           /\ theTask.wasDoingInputIO <=> theTask.id \in countedInput
      /\ theTask.kind = "StartInputIO" =>
           /\ clients[theTask.id].mDoingIO /\ clients[theTask.id].mDoingInputIO
           /\ theTask.id \in counted \ (Hosts \cup countedInput)

\* What is not to be announced is known.
Announced == \A p \in Properties \ notify : hostView[p] = Value(p)


-----------------------------------------------------------------------------
(* Types.                                                                   *)

\* What the updates of the registry make of a client that was there.
LEMMA RegistryStep ==
    ASSUME clients \in ClientMaps, NEW id \in ClientIDs
    PROVE  /\ \A b \in BOOLEAN : Registry!AddClient(id, b) =>
                /\ clients[id] = Absent
                /\ clients' = [clients EXCEPT ![id] = NewClient(b)]
                /\ NewClient(b) \in Client
           /\ Registry!RemoveClient(id) =>
                /\ clients[id] # Absent
                /\ clients' = [clients EXCEPT ![id] = Absent]
           /\ \A b \in BOOLEAN : Registry!UpdateClientIOState(id, b) =>
                /\ clients[id] \in Client
                /\ clients' = [clients EXCEPT ![id] = WithDoingIO(clients[id], b)]
                /\ WithDoingIO(clients[id], b) \in Client
           /\ Registry!StartInputIO(id) =>
                /\ clients[id] \in Client
                /\ clients' = [clients EXCEPT ![id] = WithInputIO(clients[id])]
                /\ WithInputIO(clients[id]) \in Client
    BY DEF ClientMaps, Client, NewClient, WithDoingIO, WithInputIO, Registry!AddClient,
        Registry!NewClient, Registry!RemoveClient, Registry!UpdateClientIOState,
        Registry!WithDoingIO, Registry!StartInputIO, Registry!WithInputIO,
        Registry!ClientShouldMarkInputIO

\* Flagging the music player changes no other flag.
LEMMA FlagStep ==
    ASSUME clients \in ClientMaps, NEW players, Registry!UpdateMusicPlayerFlags(players)
    PROVE  /\ clients' \in ClientMaps
           /\ \A id \in ClientIDs :
                /\ clients'[id] = Absent <=> clients[id] = Absent
                /\ clients[id] # Absent =>
                     /\ clients'[id].mDoingIO = clients[id].mDoingIO
                     /\ clients'[id].mDoingInputIO = clients[id].mDoingInputIO
                     /\ clients'[id].mIsMusicPlayer <=> id \in players
<1>1. clients' = [id \in ClientIDs |->
                    IF clients[id] = Absent THEN Absent
                    ELSE [clients[id] EXCEPT !.mIsMusicPlayer = id \in players]]
  BY DEF Registry!UpdateMusicPlayerFlags, Registry!WithMusicPlayers
<1>2. ASSUME NEW id \in ClientIDs, clients[id] # Absent
      PROVE  /\ clients'[id] \in Client
             /\ clients'[id].mDoingIO = clients[id].mDoingIO
             /\ clients'[id].mDoingInputIO = clients[id].mDoingInputIO
             /\ clients'[id].mIsMusicPlayer <=> id \in players
  <2> DEFINE flagged == id \in players
  <2>1. clients[id] \in Client /\ clients'[id] = [clients[id] EXCEPT !.mIsMusicPlayer = flagged]
    BY <1>1, <1>2 DEF ClientMaps
  <2>2. flagged \in BOOLEAN
    OBVIOUS
  <2>3. flagged <=> id \in players
    OBVIOUS
  <2> HIDE DEF flagged
  <2>4. /\ clients'[id] \in Client
        /\ clients'[id].mDoingIO = clients[id].mDoingIO
        /\ clients'[id].mDoingInputIO = clients[id].mDoingInputIO
        /\ clients'[id].mIsMusicPlayer = flagged
    BY <2>1, <2>2 DEF Client
  <2> QED BY <2>3, <2>4
<1>3. ASSUME NEW id \in ClientIDs PROVE clients'[id] = Absent <=> clients[id] = Absent
  BY <1>1, <1>2, ClientsAssumption
<1> QED BY <1>1, <1>2, <1>3 DEF ClientMaps

\* The three updates that a task makes, and the task it becomes.
LEMMA BeginStep ==
    ASSUME TypeOK, BeginTask
    PROVE  /\ theTask = NoTask /\ tasks # <<>> /\ mMutex = "free"
           /\ Head(tasks) \in Tasks /\ theTask' \in TasksInHand
           /\ theTask'.kind = Head(tasks).kind /\ theTask'.id = Head(tasks).id
           /\ theTask'.sync = Head(tasks).sync
           /\ theTask'.wasDoingInputIO = clients[theTask'.id].mDoingInputIO
           /\ clients[theTask'.id] \in Client
           /\ \E c \in Client :
                /\ clients' = [clients EXCEPT ![theTask'.id] = c]
                /\ theTask'.kind = "StartIO" =>
                     /\ ~clients[theTask'.id].mDoingIO
                     /\ c = WithDoingIO(clients[theTask'.id], TRUE)
                /\ theTask'.kind = "StopIO" =>
                     /\ clients[theTask'.id].mDoingIO
                     /\ c = WithDoingIO(clients[theTask'.id], FALSE)
                /\ theTask'.kind = "StartInputIO" =>
                     /\ ClientShouldMarkInputIO(clients, theTask'.id)
                     /\ c = WithInputIO(clients[theTask'.id])
<1> DEFINE task == Head(tasks)
<1>1. task \in Tasks /\ theTask = NoTask /\ tasks # <<>> /\ mMutex = "free"
  BY DEF BeginTask, TypeOK
<1>2. theTask' = [kind |-> task.kind, id |-> task.id, sync |-> task.sync,
                  wasDoingInputIO |-> clients[task.id].mDoingInputIO]
  BY DEF BeginTask
<1>3. NeedsUpdate(task) /\ UpdateMap(task)
  BY DEF BeginTask
<1> HIDE DEF task
<1>4. clients[task.id] \in Client
  BY <1>1, <1>3 DEF NeedsUpdate, TypeOK, ClientMaps, Tasks
<1>5. theTask' \in TasksInHand
  BY <1>1, <1>2, <1>4 DEF Tasks, TasksInHand, Client
<1>6. /\ theTask'.kind = task.kind /\ theTask'.id = task.id /\ theTask'.sync = task.sync
      /\ theTask'.wasDoingInputIO = clients[theTask'.id].mDoingInputIO
  BY <1>2
<1>7. \E c \in Client :
        /\ clients' = [clients EXCEPT ![task.id] = c]
        /\ task.kind = "StartIO" =>
             ~clients[task.id].mDoingIO /\ c = WithDoingIO(clients[task.id], TRUE)
        /\ task.kind = "StopIO" =>
             clients[task.id].mDoingIO /\ c = WithDoingIO(clients[task.id], FALSE)
        /\ task.kind = "StartInputIO" =>
             ClientShouldMarkInputIO(clients, task.id) /\ c = WithInputIO(clients[task.id])
  <2>1. task.id \in ClientIDs /\ task.kind \in TaskKinds
    BY <1>1 DEF Tasks
  <2>2. CASE task.kind = "StartIO"
    BY <1>3, <2>1, <2>2, RegistryStep DEF UpdateMap, NeedsUpdate, TypeOK
  <2>3. CASE task.kind = "StopIO"
    BY <1>3, <2>1, <2>3, RegistryStep DEF UpdateMap, NeedsUpdate, TypeOK
  <2>4. CASE task.kind = "StartInputIO"
    BY <1>3, <2>1, <2>4, RegistryStep DEF UpdateMap, NeedsUpdate, TypeOK
  <2> QED BY <2>1, <2>2, <2>3, <2>4 DEF TaskKinds
<1> QED BY <1>1, <1>4, <1>5, <1>6, <1>7 DEF task

\* A property is TRUE or FALSE.
LEMMA ValueType == \A p \in Properties : Value(p) \in BOOLEAN /\ Value(p)' \in BOOLEAN
<1> SUFFICES ASSUME NEW p \in Properties PROVE Value(p) \in BOOLEAN /\ Value(p)' \in BOOLEAN
  OBVIOUS
<1>1. CASE p = "IsRunning"
  <2>1. Value(p) = (mStartCount > 0) /\ Value(p)' = (mStartCount' > 0)
    BY <1>1 DEF Value
  <2> QED BY <2>1
<1>2. CASE p = "IsRunningOther"
  <2>1. /\ Value(p) = (mStartCountExcludingNovaLINKApp > 0)
        /\ Value(p)' = (mStartCountExcludingNovaLINKApp' > 0)
    BY <1>2 DEF Value
  <2> QED BY <2>1
<1>3. CASE p = "InputIsRunning"
  <2>1. /\ Value(p) = (mInputStartCountExcludingPassthrough > 0)
        /\ Value(p)' = (mInputStartCountExcludingPassthrough' > 0)
    BY <1>3 DEF Value
  <2> QED BY <2>1
<1> QED BY <1>1, <1>2, <1>3 DEF Properties

LEMMA CompletedType ==
    ASSUME TypeOK, NEW task \in Tasks \cup TasksInHand, Completed(task)
    PROVE  call' \in Calls \cup {SetCall, NoCall}
    BY DEF TypeOK, Completed, Calls, Tasks, TasksInHand

\* Every variable keeps its type; with the guards on a subtraction this says
\* that no counter passes below zero.
THEOREM TypeCorrect == Spec => []TypeOK
<1>1. Init => TypeOK
  BY DEF Init, TypeOK, NoClients, ClientMaps, HALStates, Properties
<1>2. TypeOK /\ [Next]_vars => TypeOK'
  <2> SUFFICES ASSUME TypeOK, [Next]_vars PROVE TypeOK'
    OBVIOUS
  <2> USE DEF counters, hostVars, playerVars, auxVars
  <2>1. CASE UNCHANGED vars
    BY <2>1 DEF TypeOK, vars
  <2>2. ASSUME NEW id \in ClientIDs, AddClient(id) PROVE TypeOK'
    <3> DEFINE b == MatchesMusicPlayer(id)
    <3>1. b \in BOOLEAN
      BY DEF MatchesMusicPlayer
    <3>2. Registry!AddClient(id, b)
      BY <2>2 DEF AddClient
    <3> HIDE DEF b
    <3>3. clients' \in ClientMaps
      BY SMTT(30), <3>1, <3>2, RegistryStep DEF TypeOK, ClientMaps
    <3> QED BY <2>2, <3>3 DEF AddClient, EnterCall, TypeOK, Calls
  <2>3. ASSUME NEW id \in ClientIDs, FinishAddClient(id) PROVE TypeOK'
    <3>1. /\ hostClientCount' \in [HostBundles -> Nat]
          /\ hostClientID' \in [HostBundles -> ClientIDs \cup {NoID}]
      <4>1. CASE IsPassthroughHost(id)
        <5>1. BundleOf[id] \in HostBundles /\ hostClientCount[BundleOf[id]] \in Nat
          BY <4>1 DEF IsPassthroughHost, TypeOK
        <5>2. /\ hostClientID' = [hostClientID EXCEPT ![BundleOf[id]] = id]
              /\ hostClientCount' = [hostClientCount EXCEPT
                                       ![BundleOf[id]] = hostClientCount[BundleOf[id]] + 1]
          BY <2>3, <4>1 DEF FinishAddClient
        <5> QED BY <5>1, <5>2 DEF TypeOK
      <4>2. CASE ~IsPassthroughHost(id)
        BY <2>3, <4>2 DEF FinishAddClient, TypeOK
      <4> QED BY <4>1, <4>2
    <3>2. hal' \in [ClientIDs -> HALStates]
      BY <2>3 DEF FinishAddClient, TypeOK, HALStates
    <3> QED BY <2>3, <3>1, <3>2 DEF FinishAddClient, LeaveCall, TypeOK
  <2>4. ASSUME NEW id \in ClientIDs, RemoveClient(id) PROVE TypeOK'
    <3>1. clients' \in ClientMaps
      BY SMTT(30), <2>4, RegistryStep DEF RemoveClient, TypeOK, ClientMaps
    <3> QED BY <2>4, <3>1 DEF RemoveClient, EnterCall, TypeOK, Calls
  <2>5. ASSUME NEW id \in ClientIDs, FinishRemoveClient(id) PROVE TypeOK'
    <3>1. /\ hostClientCount' \in [HostBundles -> Nat]
          /\ hostClientID' \in [HostBundles -> ClientIDs \cup {NoID}]
      <4> DEFINE left == IF hostClientCount[BundleOf[id]] > 0
                         THEN hostClientCount[BundleOf[id]] - 1 ELSE 0
      <4>1. CASE IsPassthroughHost(id)
        <5>1. left \in Nat
          BY <4>1 DEF IsPassthroughHost, TypeOK
        <5>2. /\ hostClientCount' = [hostClientCount EXCEPT ![BundleOf[id]] = left]
              /\ \E i \in ClientIDs \cup {NoID} :
                   hostClientID' = [hostClientID EXCEPT ![BundleOf[id]] = i]
          <6>1. hostClientID[BundleOf[id]] \in ClientIDs \cup {NoID}
            BY <4>1 DEF IsPassthroughHost, TypeOK
          <6> QED BY <2>5, <4>1, <6>1 DEF FinishRemoveClient
        <5> HIDE DEF left
        <5> QED BY <5>1, <5>2 DEF TypeOK
      <4>2. CASE ~IsPassthroughHost(id)
        BY <2>5, <4>2 DEF FinishRemoveClient, TypeOK
      <4> QED BY <4>1, <4>2
    <3>2. hal' \in [ClientIDs -> HALStates]
      BY <2>5 DEF FinishRemoveClient, TypeOK, HALStates
    <3> QED BY <2>5, <3>1, <3>2 DEF FinishRemoveClient, LeaveCall, TypeOK
  <2>6. ASSUME NEW id \in ClientIDs,
               \/ StartIO(id) \/ StartIOReturns(id) \/ StartsWithoutStartIO(id)
               \/ StopIO(id) \/ StopIOReturns(id) \/ StopsWithoutStopIO(id)
        PROVE  TypeOK'
    <3>1. \E state \in HALStates : hal' = [hal EXCEPT ![id] = state]
      BY <2>6 DEF StartIO, StartIOReturns, StartsWithoutStartIO, StopIO, StopIOReturns,
          StopsWithoutStopIO, HALStates
    <3>2. call' \in Calls \cup {NoCall}
      <4>1. call' = NoCall \/ \E kind \in {"StartIO", "StopIO"} : call' = [kind |-> kind, id |-> id]
        BY <2>6 DEF StartIO, StartIOReturns, StartsWithoutStartIO, StopIO, StopIOReturns,
            StopsWithoutStopIO
      <4> QED BY <4>1 DEF Calls
    <3>3. tasks' = tasks \/ \E task \in Tasks : tasks' = Append(tasks, task)
      BY <2>6 DEF StartIO, StartIOReturns, StartsWithoutStartIO, StopIO, StopIOReturns,
          StopsWithoutStopIO, Queue, Tasks, TaskKinds
    <3>4. tasks' \in Seq(Tasks)
      <4>1. CASE tasks' = tasks
        BY <4>1 DEF TypeOK
      <4>2. ASSUME NEW task \in Tasks, tasks' = Append(tasks, task) PROVE tasks' \in Seq(Tasks)
        BY <4>2 DEF TypeOK
      <4> QED BY <3>3, <4>1, <4>2
    <3>5. UNCHANGED <<clients, counters, hostVars, playerVars, mMutex, theTask, notify,
                      hostView, auxVars>>
      BY <2>6 DEF StartIO, StartIOReturns, StartsWithoutStartIO, StopIO, StopIOReturns,
          StopsWithoutStopIO
    <3> QED BY <3>1, <3>2, <3>4, <3>5 DEF TypeOK
  <2>7. ASSUME NEW p \in PlayerPIDs, SetMusicPlayerPID(p) PROVE TypeOK'
    <3>1. clients' \in ClientMaps
      BY <2>7, FlagStep DEF SetMusicPlayerPID, TypeOK
    <3> QED BY <2>7, <3>1, ClientsModelAssumption DEF SetMusicPlayerPID, EnterCall, TypeOK
  <2>8. ASSUME NEW b \in PlayerBundles, SetMusicPlayerBundleID(b) PROVE TypeOK'
    <3>1. clients' \in ClientMaps
      BY <2>8, FlagStep DEF SetMusicPlayerBundleID, TypeOK
    <3> QED BY <2>8, <3>1, ClientsModelAssumption DEF SetMusicPlayerBundleID, EnterCall, TypeOK
  <2>9. ASSUME FinishSetMusicPlayer PROVE TypeOK'
    BY <2>9 DEF FinishSetMusicPlayer, LeaveCall, TypeOK
  <2>10. ASSUME NEW id \in ClientIDs, BeginIOOperation(id) \/ EndIOOperation(id) \/ ReadInput(id)
         PROVE  TypeOK'
    <3>1. hal' = hal \/ \E state \in HALStates : hal' = [hal EXCEPT ![id] = state]
      BY <2>10 DEF BeginIOOperation, EndIOOperation, ReadInput, HALStates
    <3>2. \E task \in Tasks : tasks' = Append(tasks, task)
      BY <2>10 DEF BeginIOOperation, EndIOOperation, ReadInput, Queue, Tasks, TaskKinds
    <3>3. tasks' \in Seq(Tasks)
      BY <3>2 DEF TypeOK
    <3>4. UNCHANGED <<clients, counters, hostVars, playerVars, mMutex, theTask, call, notify,
                      hostView, auxVars>>
      BY <2>10 DEF BeginIOOperation, EndIOOperation, ReadInput
    <3> QED BY <3>1, <3>3, <3>4 DEF TypeOK
  <2>11. ASSUME IgnoreTask PROVE TypeOK'
    <3>1. Head(tasks) \in Tasks /\ Tail(tasks) \in Seq(Tasks)
      BY <2>11 DEF IgnoreTask, TypeOK
    <3>2. call' \in Calls \cup {SetCall, NoCall}
      BY <2>11, <3>1, CompletedType DEF IgnoreTask
    <3> QED BY <2>11, <3>1, <3>2 DEF IgnoreTask, TypeOK
  <2>12. ASSUME BeginTask PROVE TypeOK'
    <3>1. tasks # <<>> /\ Tail(tasks) \in Seq(Tasks)
      BY <2>12 DEF BeginTask, TypeOK
    <3>2. theTask' \in TasksInHand /\ clients' \in ClientMaps
      BY <2>12, BeginStep DEF TypeOK, ClientMaps, TasksInHand
    <3> QED BY <2>12, <3>1, <3>2 DEF BeginTask, TypeOK
  <2>13. ASSUME theTask \in TasksInHand, FinishTask
         PROVE  call' \in Calls \cup {SetCall, NoCall}
    BY <2>13, CompletedType DEF FinishTask
  <2>14. ASSUME FinishStartIO PROVE TypeOK'
    <3>1. theTask \in TasksInHand
      BY <2>14 DEF FinishStartIO, TypeOK, NoTask
    <3>2. counted' \subseteq ClientIDs
      BY <2>14, <3>1 DEF FinishStartIO, TypeOK, TasksInHand
    <3>3. notify' \subseteq Properties
      BY <2>14 DEF FinishStartIO, TypeOK, Properties
    <3> QED BY <2>13, <2>14, <3>1, <3>2, <3>3 DEF FinishStartIO, FinishTask, TypeOK
  <2>15. ASSUME FinishStopIO PROVE TypeOK'
    <3>1. theTask \in TasksInHand
      BY <2>15 DEF FinishStopIO, TypeOK, NoTask
    <3>2. /\ mStartCount' \in Nat
          /\ mStartCountExcludingNovaLINKApp' \in Nat
          /\ mInputStartCountExcludingPassthrough' \in Nat
      BY <2>15 DEF FinishStopIO, StopUnderflows, TypeOK
    <3>3. notify' \subseteq Properties /\ counted' \subseteq ClientIDs
            /\ countedInput' \subseteq ClientIDs
      BY <2>15 DEF FinishStopIO, TypeOK, Properties
    <3> QED BY <2>13, <2>15, <3>1, <3>2, <3>3 DEF FinishStopIO, FinishTask, TypeOK
  <2>16. ASSUME FinishStartInputIO PROVE TypeOK'
    <3>1. theTask \in TasksInHand
      BY <2>16 DEF FinishStartInputIO, TypeOK, NoTask
    <3>2. countedInput' \subseteq ClientIDs
      BY <2>16, <3>1 DEF FinishStartInputIO, TypeOK, TasksInHand
    <3>3. notify' \subseteq Properties
      BY <2>16 DEF FinishStartInputIO, TypeOK, Properties
    <3> QED BY <2>13, <2>16, <3>1, <3>2, <3>3 DEF FinishStartInputIO, FinishTask, TypeOK
  <2>17. ASSUME SendIORunningNotifications PROVE TypeOK'
    BY <2>17, ValueType DEF SendIORunningNotifications, TypeOK
  <2> QED BY <2>1, <2>2, <2>3, <2>4, <2>5, <2>6, <2>7, <2>8, <2>9, <2>10, <2>11, <2>12, <2>14,
        <2>15, <2>16, <2>17 DEF Next, HALNext, IONext, WorkerNext
<1> QED BY <1>1, <1>2, PTL DEF Spec

-----------------------------------------------------------------------------
(* Who holds mMutex, and whom a synchronous task belongs to.                *)

LEMMA NoSync ==
    ASSUME TypeOK, Sync, call.kind \notin TaskKinds
    PROVE  /\ \A i \in DOMAIN tasks : ~tasks[i].sync
           /\ theTask # NoTask => ~theTask.sync
<1>1. \A i \in DOMAIN tasks : tasks[i].kind \in TaskKinds
  <2>1. \A i \in DOMAIN tasks : tasks[i] \in Tasks
    BY DEF TypeOK
  <2> QED BY <2>1 DEF Tasks
<1>2. theTask # NoTask => theTask.kind \in TaskKinds
  BY DEF TypeOK, TasksInHand
<1> QED BY <1>1, <1>2 DEF Sync

\* A task that is not waited for may be queued at any time, one that is only by
\* a call that begins.
LEMMA QueueSync ==
    ASSUME TypeOK, Sync, NEW task \in Tasks, tasks' = Append(tasks, task), theTask' = theTask,
           \/ ~task.sync /\ call' = call
           \/ task.sync /\ call.kind \notin TaskKinds
                        /\ call' = [kind |-> task.kind, id |-> task.id]
    PROVE  Sync'
<1>1. /\ tasks \in Seq(Tasks)
      /\ Len(tasks') = Len(tasks) + 1
      /\ \A i \in 1..Len(tasks) : tasks'[i] = tasks[i]
      /\ tasks'[Len(tasks) + 1] = task
  BY DEF TypeOK
<1>2. DOMAIN tasks = 1..Len(tasks) /\ DOMAIN tasks' = 1..(Len(tasks) + 1) /\ Len(tasks) \in Nat
  BY DEF TypeOK
<1>3. CASE ~task.sync /\ call' = call
  BY <1>1, <1>2, <1>3 DEF Sync
<1>4. CASE task.sync /\ call.kind \notin TaskKinds /\ call' = [kind |-> task.kind, id |-> task.id]
  BY <1>1, <1>2, <1>4, NoSync DEF Sync
<1> QED BY <1>3, <1>4

\* A task that leaves the queue is the oldest one.
LEMMA TakeSync ==
    ASSUME TypeOK, tasks # <<>>, tasks' = Tail(tasks)
    PROVE  /\ Head(tasks) = tasks[1] /\ 1 \in DOMAIN tasks /\ Head(tasks) \in Tasks
           /\ \A i \in DOMAIN tasks' : i + 1 \in DOMAIN tasks /\ tasks'[i] = tasks[i + 1]
           /\ \A i \in DOMAIN tasks' : i \in Nat \ {0}
    BY DEF TypeOK

LEMMA ControlInvariant == Spec => [](Mutex /\ Sync)
<1>1. Init => Mutex /\ Sync
  BY DEF Init, Mutex, Sync, NoTask, NoCall
<1>2. TypeOK /\ Mutex /\ Sync /\ [Next]_vars => (Mutex /\ Sync)'
  <2> SUFFICES ASSUME TypeOK, Mutex, Sync, [Next]_vars PROVE Mutex' /\ Sync'
    OBVIOUS
  <2>1. CASE UNCHANGED vars
    BY <2>1 DEF Mutex, Sync, vars
  <2>2. ASSUME NEW c, EnterCall(c), c.kind \in {"Add", "Remove", "SetMusicPlayer"},
               UNCHANGED <<tasks, theTask>>
        PROVE  Mutex' /\ Sync'
    <3>1. call.kind \notin TaskKinds
      BY <2>2 DEF EnterCall, NoCall, TaskKinds
    <3> QED BY <2>2, <3>1, NoSync DEF EnterCall, Mutex, Sync
  <2>3. ASSUME LeaveCall, call.kind \in {"Add", "Remove", "SetMusicPlayer"},
               UNCHANGED <<tasks, theTask>>
        PROVE  Mutex' /\ Sync'
    <3>1. call.kind \notin TaskKinds
      BY <2>3 DEF TaskKinds
    <3> QED BY <2>3, <3>1, NoSync DEF LeaveCall, NoCall, Mutex, Sync
  <2>4. ASSUME NEW id \in ClientIDs,
               AddClient(id) \/ FinishAddClient(id) \/ RemoveClient(id) \/ FinishRemoveClient(id)
        PROVE  Mutex' /\ Sync'
    BY <2>2, <2>3, <2>4 DEF AddClient, FinishAddClient, RemoveClient, FinishRemoveClient
  <2>5. ASSUME \/ \E p \in PlayerPIDs : SetMusicPlayerPID(p)
               \/ \E b \in PlayerBundles : SetMusicPlayerBundleID(b)
               \/ FinishSetMusicPlayer
        PROVE  Mutex' /\ Sync'
    <3>1. SetCall.kind = "SetMusicPlayer"
      BY DEF SetCall
    <3>2. \/ EnterCall(SetCall) /\ UNCHANGED <<tasks, theTask>>
          \/ LeaveCall /\ call = SetCall /\ UNCHANGED <<tasks, theTask>>
      BY <2>5 DEF SetMusicPlayerPID, SetMusicPlayerBundleID, FinishSetMusicPlayer
    <3> QED BY <2>2, <2>3, <3>1, <3>2
  <2>6. ASSUME NEW id \in ClientIDs, StartIO(id) \/ StopIO(id) PROVE Mutex' /\ Sync'
    <3>1. PICK kind \in {"StartIO", "StopIO"} :
            /\ tasks' = Append(tasks, [kind |-> kind, id |-> id, sync |-> TRUE])
            /\ call' = [kind |-> kind, id |-> id]
      BY <2>6 DEF StartIO, StopIO, Queue
    <3>2. call = NoCall /\ UNCHANGED <<theTask, mMutex>>
      BY <2>6 DEF StartIO, StopIO
    <3> DEFINE task == [kind |-> kind, id |-> id, sync |-> TRUE]
    <3>3. task \in Tasks /\ task.sync /\ call' = [kind |-> task.kind, id |-> task.id]
      BY <3>1 DEF Tasks, TaskKinds
    <3>4. call.kind \notin TaskKinds
      BY <3>2 DEF NoCall, TaskKinds
    <3> HIDE DEF task
    <3>5. Sync'
      BY <3>1, <3>2, <3>3, <3>4, QueueSync DEF task
    <3>6. Mutex'
      BY <3>1, <3>2 DEF Mutex, NoCall
    <3> QED BY <3>5, <3>6
  <2>7. ASSUME NEW id \in ClientIDs, StartIOReturns(id) \/ StopIOReturns(id)
        PROVE  Mutex' /\ Sync'
    <3>1. call.kind \in {"Started", "Stopped"} /\ call' = NoCall /\ UNCHANGED <<tasks, theTask, mMutex>>
      BY <2>7 DEF StartIOReturns, StopIOReturns
    <3> QED BY <3>1, NoSync DEF TaskKinds, Mutex, Sync, NoCall
  <2>8. ASSUME NEW id \in ClientIDs, StartsWithoutStartIO(id) \/ StopsWithoutStopIO(id)
        PROVE  Mutex' /\ Sync'
    BY <2>8 DEF StartsWithoutStartIO, StopsWithoutStopIO, Mutex, Sync
  <2>9. ASSUME NEW id \in ClientIDs, BeginIOOperation(id) \/ EndIOOperation(id) \/ ReadInput(id)
        PROVE  Mutex' /\ Sync'
    <3>1. PICK kind \in TaskKinds : tasks' = Append(tasks, [kind |-> kind, id |-> id, sync |-> FALSE])
      BY <2>9 DEF BeginIOOperation, EndIOOperation, ReadInput, Queue, TaskKinds
    <3>2. UNCHANGED <<call, theTask, mMutex>>
      BY <2>9 DEF BeginIOOperation, EndIOOperation, ReadInput
    <3> DEFINE task == [kind |-> kind, id |-> id, sync |-> FALSE]
    <3>3. task \in Tasks /\ ~task.sync
      BY DEF Tasks
    <3> HIDE DEF task
    <3>4. Sync'
      BY <3>1, <3>2, <3>3, QueueSync DEF task
    <3> QED BY <3>2, <3>4 DEF Mutex
  <2>10. ASSUME IgnoreTask PROVE Mutex' /\ Sync'
    <3>1. /\ tasks # <<>> /\ tasks' = Tail(tasks) /\ Completed(Head(tasks))
          /\ theTask = NoTask /\ UNCHANGED <<theTask, mMutex>> /\ mMutex = "free"
      BY <2>10 DEF IgnoreTask
    <3>2. CASE Head(tasks).sync
      <4>1. \A i \in DOMAIN tasks' : ~tasks'[i].sync
        BY <3>1, <3>2, TakeSync DEF Sync
      <4>2. call'.kind \in {"Started", "Stopped"}
        BY <3>1, <3>2 DEF Completed
      <4> QED BY <3>1, <4>1, <4>2 DEF Mutex, Sync
    <3>3. CASE ~Head(tasks).sync
      <4>1. call' = call
        BY <3>1, <3>3 DEF Completed
      <4>2. \A i, j \in DOMAIN tasks' : i + 1 = j + 1 => i = j
        BY <3>1, TakeSync
      <4> QED BY <3>1, <4>1, <4>2, TakeSync DEF Mutex, Sync
    <3> QED BY <3>2, <3>3
  <2>11. ASSUME BeginTask PROVE Mutex' /\ Sync'
    <3>1. /\ tasks # <<>> /\ tasks' = Tail(tasks) /\ UNCHANGED call /\ mMutex' = "worker"
          /\ mMutex = "free"
      BY <2>11 DEF BeginTask
    <3>2. /\ theTask'.kind = tasks[1].kind /\ theTask'.id = tasks[1].id
          /\ theTask'.sync = tasks[1].sync /\ theTask' # NoTask
      <4>1. theTask' \in TasksInHand
        BY <2>11, BeginStep
      <4> QED BY <2>11, <3>1, <4>1, BeginStep, TakeSync DEF TasksInHand, TaskKinds, NoTask
    <3>3. Mutex'
      BY <3>1, <3>2 DEF Mutex
    <3>4. ASSUME NEW i \in DOMAIN tasks', tasks'[i].sync
          PROVE  /\ call = [kind |-> tasks'[i].kind, id |-> tasks'[i].id]
                 /\ ~tasks[1].sync
                 /\ \A j \in DOMAIN tasks' : tasks'[j].sync => j = i
      <4>1. /\ i + 1 \in DOMAIN tasks /\ tasks'[i] = tasks[i + 1] /\ 1 \in DOMAIN tasks
            /\ i \in Nat \ {0}
            /\ \A j \in DOMAIN tasks' :
                 j \in Nat /\ j + 1 \in DOMAIN tasks /\ tasks'[j] = tasks[j + 1]
        BY <3>1, TakeSync
      <4>2. tasks[i + 1].sync /\ i + 1 # 1
        BY <3>4, <4>1
      <4>3. \A j \in DOMAIN tasks : tasks[j].sync => j = i + 1
        BY <4>1, <4>2 DEF Sync
      <4> QED BY <4>1, <4>2, <4>3 DEF Sync
    <3>5. tasks[1].sync => call = [kind |-> tasks[1].kind, id |-> tasks[1].id]
      BY <3>1, TakeSync DEF Sync
    <3> QED BY <3>1, <3>2, <3>3, <3>4, <3>5 DEF Sync
  <2>12. ASSUME FinishStartIO \/ FinishStopIO \/ FinishStartInputIO PROVE Mutex' /\ Sync'
    <3>1. /\ mMutex' = "free" /\ theTask' = NoTask /\ Completed(theTask) /\ UNCHANGED tasks
      BY <2>12 DEF FinishStartIO, FinishStopIO, FinishStartInputIO, FinishTask
    <3>2. theTask # NoTask
      BY <2>12 DEF FinishStartIO, FinishStopIO, FinishStartInputIO, NoTask
    <3>3. CASE theTask.sync
      <4>1. call'.kind \in {"Started", "Stopped"} /\ \A i \in DOMAIN tasks : ~tasks[i].sync
        BY <3>1, <3>2, <3>3 DEF Completed, Sync
      <4> QED BY <3>1, <4>1 DEF Mutex, Sync
    <3>4. CASE ~theTask.sync
      BY <3>1, <3>2, <3>4 DEF Completed, Mutex, Sync
    <3> QED BY <3>3, <3>4
  <2>13. ASSUME SendIORunningNotifications PROVE Mutex' /\ Sync'
    BY <2>13 DEF SendIORunningNotifications, Mutex, Sync
  <2> QED BY <2>1, <2>4, <2>5, <2>6, <2>7, <2>8, <2>9, <2>10, <2>11, <2>12, <2>13
        DEF Next, HALNext, IONext, WorkerNext
<1> QED BY <1>1, <1>2, TypeCorrect, PTL DEF Spec

-----------------------------------------------------------------------------
(* The flags in the map and the clients that were counted.                  *)

Agreement == Life /\ Flags /\ HandFlags /\ Inputs

\* Except during AddClient the map has no client that the HAL has not added.
LEMMA NobodyAdded ==
    ASSUME Life, call.kind # "Add", NEW id \in ClientIDs, hal[id] = "absent"
    PROVE  clients[id] = Absent /\ id \notin counted
    BY DEF Life

LEMMA HALAgreement ==
    ASSUME TypeOK, Mutex, Agreement, HALNext
    PROVE  Agreement'
<1> USE DEF counters, hostVars, playerVars, auxVars
<1>1. ASSUME NEW id \in ClientIDs, AddClient(id) PROVE Agreement'
  <2> DEFINE b == MatchesMusicPlayer(id)
  <2>1. b \in BOOLEAN
    BY DEF MatchesMusicPlayer
  <2>2. Registry!AddClient(id, b)
    BY <1>1 DEF AddClient
  <2> HIDE DEF b
  <2>3. clients' = [clients EXCEPT ![id] = NewClient(b)]
    BY <2>1, <2>2, RegistryStep DEF TypeOK
  <2>4. ~NewClient(b).mDoingIO /\ ~NewClient(b).mDoingInputIO
    BY DEF NewClient
  <2>5. /\ call = NoCall /\ call' = [kind |-> "Add", id |-> id] /\ hal[id] = "absent"
        /\ theTask = NoTask /\ UNCHANGED <<hal, theTask, counted, countedInput>>
    BY <1>1 DEF AddClient, EnterCall, Mutex
  <2>6. Life'
    BY <2>3, <2>5, NobodyAdded DEF Life, Agreement, NoCall, TypeOK, ClientMaps
  <2>7. Flags'
    BY <2>3, <2>4, <2>5 DEF Flags, InHand, Agreement, Life, Inputs, TypeOK, ClientMaps
  <2> QED BY <2>5, <2>6, <2>7 DEF Agreement, HandFlags, Inputs
<1>2. ASSUME NEW id \in ClientIDs, FinishAddClient(id) PROVE Agreement'
  <2>1. /\ call = [kind |-> "Add", id |-> id] /\ hal' = [hal EXCEPT ![id] = "idle"]
        /\ UNCHANGED <<clients, theTask, counted, countedInput>>
    BY <1>2 DEF FinishAddClient
  <2>2. Life'
    BY <2>1 DEF Life, Agreement, TypeOK
  <2> QED BY <2>1, <2>2 DEF Agreement, Flags, HandFlags, Inputs, InHand
<1>3. ASSUME NEW id \in ClientIDs, RemoveClient(id) PROVE Agreement'
  <2>1. clients' = [clients EXCEPT ![id] = Absent]
    BY <1>3, RegistryStep DEF RemoveClient, TypeOK
  <2>2. /\ call = NoCall /\ theTask = NoTask
        /\ UNCHANGED <<hal, theTask, counted, countedInput>>
    BY <1>3 DEF RemoveClient, EnterCall, Mutex
  <2>3. Life'
    BY <2>1, <2>2, NobodyAdded DEF Life, Agreement, NoCall, TypeOK, ClientMaps
  <2> QED BY <2>1, <2>2, <2>3 DEF Agreement, Flags, HandFlags, Inputs, InHand, TypeOK, ClientMaps
<1>4. ASSUME NEW id \in ClientIDs, FinishRemoveClient(id) PROVE Agreement'
  <2>1. /\ call = [kind |-> "Remove", id |-> id] /\ hal' = [hal EXCEPT ![id] = "gone"]
        /\ UNCHANGED <<clients, theTask, counted, countedInput>>
    BY <1>4 DEF FinishRemoveClient
  <2>2. Life'
    BY <2>1, NobodyAdded DEF Life, Agreement, TypeOK
  <2> QED BY <2>1, <2>2 DEF Agreement, Flags, HandFlags, Inputs, InHand
<1>5. ASSUME NEW id \in ClientIDs,
             \/ StartIO(id) \/ StartIOReturns(id) \/ StartsWithoutStartIO(id)
             \/ StopIO(id) \/ StopIOReturns(id) \/ StopsWithoutStopIO(id)
      PROVE  Agreement'
  <2>1. UNCHANGED <<clients, theTask, counted, countedInput>>
    BY <1>5 DEF StartIO, StartIOReturns, StartsWithoutStartIO, StopIO, StopIOReturns,
        StopsWithoutStopIO
  <2>2. call.kind # "Add"
    <3>1. \/ call = NoCall \/ call = [kind |-> "Started", id |-> id]
          \/ call = [kind |-> "Stopped", id |-> id]
      BY <1>5 DEF StartIO, StartIOReturns, StartsWithoutStartIO, StopIO, StopIOReturns,
          StopsWithoutStopIO
    <3> QED BY <3>1 DEF NoCall
  <2>3. \E state \in HALStates \ {"absent"} : hal' = [hal EXCEPT ![id] = state]
    BY <1>5 DEF StartIO, StartIOReturns, StartsWithoutStartIO, StopIO, StopIOReturns,
        StopsWithoutStopIO, HALStates
  <2>4. Life'
    BY <2>1, <2>2, <2>3, NobodyAdded DEF Life, Agreement, TypeOK
  <2> QED BY <2>1, <2>4 DEF Agreement, Flags, HandFlags, Inputs, InHand
<1>6. ASSUME \/ \E p \in PlayerPIDs : SetMusicPlayerPID(p)
             \/ \E b \in PlayerBundles : SetMusicPlayerBundleID(b)
             \/ FinishSetMusicPlayer
      PROVE  Agreement'
  <2>1. /\ UNCHANGED <<hal, theTask, counted, countedInput>>
        /\ (call = NoCall /\ mMutex = "free") \/ call = SetCall
    BY <1>6 DEF SetMusicPlayerPID, SetMusicPlayerBundleID, FinishSetMusicPlayer, EnterCall
  <2>2. call.kind # "Add" /\ theTask = NoTask
    BY <2>1 DEF NoCall, SetCall, Mutex
  <2>3. \/ UNCHANGED clients
        \/ \E players : Registry!UpdateMusicPlayerFlags(players)
    BY <1>6 DEF SetMusicPlayerPID, SetMusicPlayerBundleID, FinishSetMusicPlayer
  <2>4. \A id \in ClientIDs :
          /\ clients'[id] = Absent <=> clients[id] = Absent
          /\ clients[id] # Absent =>
               /\ clients'[id].mDoingIO = clients[id].mDoingIO
               /\ clients'[id].mDoingInputIO = clients[id].mDoingInputIO
    BY <2>3, FlagStep DEF TypeOK
  <2>5. Life'
    BY <2>1, <2>2, <2>4, NobodyAdded DEF Life, Agreement
  <2>6. Flags'
    BY <2>1, <2>2, <2>4 DEF Flags, InHand, Agreement
  <2> QED BY <2>1, <2>2, <2>5, <2>6 DEF Agreement, HandFlags, Inputs
<1> QED BY <1>1, <1>2, <1>3, <1>4, <1>5, <1>6 DEF HALNext

LEMMA WorkerAgreement ==
    ASSUME TypeOK, TypeOK', Mutex, Agreement, WorkerNext
    PROVE  Agreement'
<1> USE DEF auxVars
<1>1. ASSUME IgnoreTask PROVE Agreement'
  <2>1. UNCHANGED <<clients, theTask, counted, countedInput, hal>> /\ call.kind # "Add"
    BY <1>1 DEF IgnoreTask, Mutex
  <2>2. Life'
    BY <2>1, NobodyAdded DEF Life, Agreement
  <2> QED BY <2>1, <2>2 DEF Agreement, Flags, HandFlags, Inputs, InHand
<1>2. ASSUME BeginTask PROVE Agreement'
  <2>1. UNCHANGED <<counted, countedInput, hal, call>> /\ call.kind # "Add"
    BY <1>2 DEF BeginTask, Mutex
  <2> DEFINE id == theTask'.id
  <2>2. id \in ClientIDs /\ theTask' \in TasksInHand /\ theTask = NoTask
    BY <1>2, BeginStep DEF TasksInHand
  <2>3. PICK c \in Client :
          /\ clients' = [clients EXCEPT ![id] = c]
          /\ theTask'.kind = "StartIO" => ~clients[id].mDoingIO /\ c = WithDoingIO(clients[id], TRUE)
          /\ theTask'.kind = "StopIO" => clients[id].mDoingIO /\ c = WithDoingIO(clients[id], FALSE)
          /\ theTask'.kind = "StartInputIO" =>
               ClientShouldMarkInputIO(clients, id) /\ c = WithInputIO(clients[id])
    BY <1>2, BeginStep
  <2>4. /\ clients[id] \in Client
        /\ theTask'.wasDoingInputIO = clients[id].mDoingInputIO
    BY <1>2, BeginStep
  <2>5. /\ clients[id].mDoingIO <=> id \in counted
        /\ clients[id].mDoingInputIO <=> id \in countedInput
    BY <2>2, <2>4, ClientsAssumption DEF Agreement, Flags, InHand
  <2> HIDE DEF id
  <2>6. clients'[id] = c /\ c # Absent
    BY <2>2, <2>3, ClientsAssumption DEF TypeOK, ClientMaps
  <2>7. HandFlags'
    <3>1. CASE theTask'.kind = "StartIO"
      BY <3>1, <2>1, <2>3, <2>4, <2>5, <2>6 DEF HandFlags, WithDoingIO, Client, Agreement, Inputs, id
    <3>2. CASE theTask'.kind = "StopIO"
      BY <3>2, <2>1, <2>3, <2>4, <2>5, <2>6 DEF HandFlags, WithDoingIO, Client, Agreement, Inputs, id
    <3>3. CASE theTask'.kind = "StartInputIO"
      BY <3>3, <2>1, <2>2, <2>3, <2>4, <2>5, <2>6 DEF HandFlags, WithInputIO, Client,
          ClientShouldMarkInputIO, Hosts, id
    <3> QED BY <2>2, <3>1, <3>2, <3>3 DEF TasksInHand, TaskKinds
  <2>8. Flags'
    <3>1. ASSUME NEW i \in ClientIDs, ~InHand(i)' PROVE clients'[i] = clients[i]
      BY <2>2, <2>3, <3>1 DEF InHand, id, TypeOK, ClientMaps, NoTask, TasksInHand, TaskKinds
    <3> QED BY <2>1, <2>2, <3>1 DEF Flags, InHand, Agreement
  <2>9. Life'
    BY <2>1, <2>2, <2>3, <2>4, ClientsAssumption, NobodyAdded DEF Life, Agreement, TypeOK, ClientMaps
  <2> QED BY <2>1, <2>7, <2>8, <2>9 DEF Agreement, Inputs
<1>3. ASSUME FinishStartIO \/ FinishStopIO \/ FinishStartInputIO PROVE Agreement'
  <2>1. UNCHANGED <<clients, hal>> /\ theTask' = NoTask
    BY <1>3 DEF FinishStartIO, FinishStopIO, FinishStartInputIO, FinishTask
  <2>2. theTask # NoTask /\ theTask \in TasksInHand
    BY <1>3 DEF FinishStartIO, FinishStopIO, FinishStartInputIO, NoTask, TypeOK
  <2>3. call.kind # "Add"
    BY <2>2 DEF Mutex
  <2>4. theTask.id \in ClientIDs /\ hal[theTask.id] # "absent"
    BY <2>2, <2>3, NobodyAdded DEF Agreement, HandFlags, TasksInHand
  <2>5. /\ counted' \subseteq counted \cup {theTask.id}
        /\ \A id \in ClientIDs : id # theTask.id =>
             /\ id \in counted' <=> id \in counted
             /\ id \in countedInput' <=> id \in countedInput
    BY <1>3 DEF FinishStartIO, FinishStopIO, FinishStartInputIO
  <2>6. /\ clients[theTask.id].mDoingIO <=> theTask.id \in counted'
        /\ clients[theTask.id].mDoingInputIO <=> theTask.id \in countedInput'
    BY <1>3, <2>2 DEF FinishStartIO, FinishStopIO, FinishStartInputIO, Agreement, HandFlags, Inputs
  <2>7. Flags'
    BY <2>1, <2>5, <2>6 DEF Flags, InHand, Agreement
  <2>8. Life'
    BY <2>1, <2>3, <2>4, <2>5, NobodyAdded DEF Life, Agreement
  <2>9. Inputs'
    BY <1>3, <2>2 DEF FinishStartIO, FinishStopIO, FinishStartInputIO, Agreement, HandFlags, Inputs
  <2> QED BY <2>1, <2>7, <2>8, <2>9 DEF Agreement, HandFlags
<1> QED BY <1>1, <1>2, <1>3 DEF WorkerNext

LEMMA AgreementInvariant == Spec => []Agreement
<1>1. Init => Agreement
  BY DEF Init, Agreement, Life, Flags, HandFlags, Inputs, InHand, NoClients
<1>2. TypeOK /\ TypeOK' /\ Mutex /\ Sync /\ Agreement /\ [Next]_vars => Agreement'
  <2> SUFFICES ASSUME TypeOK, TypeOK', Mutex, Agreement, [Next]_vars PROVE Agreement'
    OBVIOUS
  <2> USE DEF auxVars
  <2>1. CASE UNCHANGED vars
    BY <2>1 DEF Agreement, Life, Flags, HandFlags, Inputs, InHand, vars
  <2>2. CASE IONext
    <3>1. UNCHANGED <<clients, theTask, counted, countedInput, call>>
      BY <2>2 DEF IONext, BeginIOOperation, EndIOOperation, ReadInput
    <3>2. \A id \in ClientIDs : hal'[id] = "absent" => hal[id] = "absent"
      BY <2>2 DEF IONext, BeginIOOperation, EndIOOperation, ReadInput, TypeOK
    <3> QED BY <3>1, <3>2 DEF Agreement, Life, Flags, HandFlags, Inputs, InHand
  <2>3. CASE SendIORunningNotifications
    BY <2>3 DEF SendIORunningNotifications, Agreement, Life, Flags, HandFlags, Inputs, InHand
  <2> QED BY <2>1, <2>2, <2>3, HALAgreement, WorkerAgreement DEF Next
<1> QED BY <1>1, <1>2, TypeCorrect, ControlInvariant, PTL DEF Spec

-----------------------------------------------------------------------------
(* The counters.                                                            *)

LEMMA FiniteCounted ==
    ASSUME TypeOK
    PROVE  IsFiniteSet(counted) /\ IsFiniteSet(counted \ Hosts) /\ IsFiniteSet(countedInput)
<1>1. counted \in SUBSET ClientIDs /\ counted \ Hosts \in SUBSET ClientIDs
        /\ countedInput \in SUBSET ClientIDs
  BY DEF TypeOK
<1> QED BY <1>1, FS_Subset, ClientsModelAssumption

LEMMA CountsInvariant == Spec => []Counts
<1>1. Init => Counts
  BY FS_EmptySet DEF Init, Counts
<1>2. TypeOK /\ Agreement /\ Counts /\ [Next]_vars => Counts'
  <2> SUFFICES ASSUME TypeOK, Agreement, Counts, [Next]_vars PROVE Counts'
    OBVIOUS
  <2> USE DEF counters, auxVars
  <2>1. ASSUME UNCHANGED <<counters, auxVars>> PROVE Counts'
    BY <2>1 DEF Counts
  <2> DEFINE id == theTask.id
  <2>2. ASSUME FinishStartIO PROVE Counts'
    <3>1. theTask # NoTask
      BY <2>2 DEF FinishStartIO, NoTask
    <3>2. id \notin counted
      BY <2>2, <3>1 DEF FinishStartIO, Agreement, HandFlags
    <3>3. /\ counted' = counted \cup {id} /\ UNCHANGED countedInput
          /\ mStartCount' = mStartCount + 1
          /\ mStartCountExcludingNovaLINKApp' =
               mStartCountExcludingNovaLINKApp + (IF id \in Hosts THEN 0 ELSE 1)
          /\ UNCHANGED mInputStartCountExcludingPassthrough
      BY <2>2 DEF FinishStartIO
    <3> HIDE DEF id
    <3>4. Cardinality(counted') = Cardinality(counted) + 1
      BY <3>2, <3>3, FiniteCounted, FS_AddElement
    <3>5. Cardinality(counted' \ Hosts) =
            Cardinality(counted \ Hosts) + (IF id \in Hosts THEN 0 ELSE 1)
      <4>1. CASE id \in Hosts
        <5>1. counted' \ Hosts = counted \ Hosts
          BY <3>3, <4>1
        <5>2. Cardinality(counted \ Hosts) \in Nat
          BY FiniteCounted, FS_CardinalityType
        <5> QED BY <4>1, <5>1, <5>2
      <4>2. CASE id \notin Hosts
        <5>1. counted' \ Hosts = (counted \ Hosts) \cup {id} /\ id \notin counted \ Hosts
          BY <3>2, <3>3, <4>2
        <5>2. Cardinality((counted \ Hosts) \cup {id}) = Cardinality(counted \ Hosts) + 1
          BY <5>1, FiniteCounted, FS_AddElement
        <5> QED BY <4>2, <5>1, <5>2
      <4> QED BY <4>1, <4>2
    <3> QED BY <3>3, <3>4, <3>5 DEF Counts, Hosts
  <2>3. ASSUME FinishStopIO PROVE Counts'
    <3>1. theTask # NoTask
      BY <2>3 DEF FinishStopIO, NoTask
    <3>2. /\ id \in counted
          /\ StopsInput(theTask) <=> id \in countedInput
      BY <2>3, <3>1 DEF FinishStopIO, Agreement, HandFlags, Inputs, StopsInput
    <3>3. /\ counted' = counted \ {id} /\ countedInput' = countedInput \ {id}
          /\ mStartCount' = mStartCount - 1
          /\ mStartCountExcludingNovaLINKApp' =
               mStartCountExcludingNovaLINKApp - (IF id \in Hosts THEN 0 ELSE 1)
          /\ mInputStartCountExcludingPassthrough' =
               mInputStartCountExcludingPassthrough - (IF StopsInput(theTask) THEN 1 ELSE 0)
      BY <2>3 DEF FinishStopIO
    <3> HIDE DEF id
    <3>4. Cardinality(counted') = Cardinality(counted) - 1
      BY <3>2, <3>3, FiniteCounted, FS_RemoveElement
    <3>5. Cardinality(counted' \ Hosts) =
            Cardinality(counted \ Hosts) - (IF id \in Hosts THEN 0 ELSE 1)
      <4>1. CASE id \in Hosts
        <5>1. counted' \ Hosts = counted \ Hosts
          BY <3>3, <4>1
        <5>2. Cardinality(counted \ Hosts) \in Nat
          BY FiniteCounted, FS_CardinalityType
        <5> QED BY <4>1, <5>1, <5>2
      <4>2. CASE id \notin Hosts
        <5>1. counted' \ Hosts = (counted \ Hosts) \ {id} /\ id \in counted \ Hosts
          BY <3>2, <3>3, <4>2
        <5>2. Cardinality((counted \ Hosts) \ {id}) = Cardinality(counted \ Hosts) - 1
          BY <5>1, FiniteCounted, FS_RemoveElement
        <5> QED BY <4>2, <5>1, <5>2
      <4> QED BY <4>1, <4>2
    <3>6. Cardinality(countedInput') =
            Cardinality(countedInput) - (IF StopsInput(theTask) THEN 1 ELSE 0)
      <4>1. Cardinality(countedInput) \in Nat
        BY FiniteCounted, FS_CardinalityType
      <4>2. Cardinality(countedInput \ {id}) =
              IF id \in countedInput THEN Cardinality(countedInput) - 1 ELSE Cardinality(countedInput)
        BY FiniteCounted, FS_RemoveElement
      <4> QED BY <3>2, <3>3, <4>1, <4>2
    <3> QED BY <3>3, <3>4, <3>5, <3>6 DEF Counts, Hosts
  <2>4. ASSUME FinishStartInputIO PROVE Counts'
    <3>1. theTask # NoTask
      BY <2>4 DEF FinishStartInputIO, NoTask
    <3>2. id \notin countedInput
      BY <2>4, <3>1 DEF FinishStartInputIO, Agreement, HandFlags
    <3>3. /\ countedInput' = countedInput \cup {id} /\ UNCHANGED counted
          /\ UNCHANGED <<mStartCount, mStartCountExcludingNovaLINKApp>>
          /\ mInputStartCountExcludingPassthrough' = mInputStartCountExcludingPassthrough + 1
      BY <2>4 DEF FinishStartInputIO
    <3> HIDE DEF id
    <3>4. Cardinality(countedInput') = Cardinality(countedInput) + 1
      BY <3>2, <3>3, FiniteCounted, FS_AddElement
    <3> QED BY <3>3, <3>4 DEF Counts, Hosts
  <2>5. CASE UNCHANGED vars
    BY <2>1, <2>5 DEF vars
  <2>6. CASE HALNext
    BY <2>1, <2>6 DEF HALNext, AddClient, FinishAddClient, RemoveClient, FinishRemoveClient,
        StartIO, StartIOReturns, StartsWithoutStartIO, StopIO, StopIOReturns,
        StopsWithoutStopIO, SetMusicPlayerPID, SetMusicPlayerBundleID, FinishSetMusicPlayer
  <2>7. CASE IONext
    BY <2>1, <2>7 DEF IONext, BeginIOOperation, EndIOOperation, ReadInput
  <2>8. CASE IgnoreTask \/ BeginTask \/ SendIORunningNotifications
    BY <2>1, <2>8 DEF IgnoreTask, BeginTask, SendIORunningNotifications
  <2> QED BY <2>2, <2>3, <2>4, <2>5, <2>6, <2>7, <2>8 DEF Next, WorkerNext
<1> QED BY <1>1, <1>2, TypeCorrect, AgreementInvariant, PTL DEF Spec

\* The getters, which read the counters without a lock, never see more clients
\* read input than do IO, nor more others than clients.
THEOREM CountersOrdered == Spec => []CounterOrder
<1>1. TypeOK /\ Agreement /\ Counts => CounterOrder
  <2> SUFFICES ASSUME TypeOK, Agreement, Counts PROVE CounterOrder
    OBVIOUS
  <2>1. countedInput \in SUBSET (counted \ Hosts) /\ counted \ Hosts \in SUBSET counted
    BY DEF Agreement, Inputs
  <2>2. /\ Cardinality(countedInput) <= Cardinality(counted \ Hosts)
        /\ Cardinality(counted \ Hosts) <= Cardinality(counted)
    BY <2>1, FiniteCounted, FS_Subset
  <2> QED BY <2>2 DEF Counts, CounterOrder
<1> QED BY <1>1, TypeCorrect, AgreementInvariant, CountsInvariant, PTL

\* The worker never subtracts from a counter that is zero, however many calls,
\* tasks and removals came before.
THEOREM CountersNeverUnderflow == Spec => []NoUnderflow
<1>1. TypeOK /\ Agreement /\ Counts => NoUnderflow
  <2> SUFFICES ASSUME TypeOK, Agreement, Counts, theTask.kind = "StopIO"
               PROVE  ~StopUnderflows
    BY DEF NoUnderflow
  <2>1. /\ theTask.id \in counted
        /\ StopsInput(theTask) => theTask.id \in countedInput
    BY DEF NoTask, Agreement, HandFlags, StopsInput
  <2>2. /\ Cardinality(counted) # 0
        /\ theTask.id \notin Hosts => Cardinality(counted \ Hosts) # 0
        /\ StopsInput(theTask) => Cardinality(countedInput) # 0
    BY <2>1, FiniteCounted, FS_EmptySet
  <2> QED BY <2>2 DEF Counts, StopUnderflows
<1> QED BY <1>1, TypeCorrect, AgreementInvariant, CountsInvariant, PTL

\* Between operations the counters count the clients whose flags say that they
\* do IO, or read input, and those that were removed while they did; no other
\* interleaving of calls and tasks makes them wrong.
THEOREM CountersAreExact == Spec => []CountersExact
<1>1. TypeOK /\ Mutex /\ Agreement /\ Counts => CountersExact
  <2> SUFFICES ASSUME TypeOK, Mutex, Agreement, Counts, mMutex = "free" PROVE CountersExact
    BY DEF CountersExact
  <2>1. \A id \in ClientIDs : clients[id] # Absent =>
          /\ clients[id].mDoingIO <=> id \in counted
          /\ clients[id].mDoingInputIO <=> id \in countedInput
    BY DEF Mutex, Agreement, Flags, InHand
  <2>2. DoingIO \cup Leaked = counted
    BY <2>1 DEF DoingIO, Leaked, Registered, TypeOK
  <2>3. DoingInputIO \cup (countedInput \ Registered) = countedInput
    BY <2>1 DEF DoingInputIO, Registered, TypeOK
  <2> QED BY <2>2, <2>3 DEF CountersExact, Counts, Agreement, Inputs
<1> QED BY <1>1, TypeCorrect, ControlInvariant, AgreementInvariant, CountsInvariant, PTL

\* What is not to be announced is known to the HAL; in particular, once all
\* changes are announced, the HAL has the current values of all counters.
THEOREM HostViewIsCurrent == Spec => []HostViewCurrent
<1>1. Init => Announced
  <2> SUFFICES ASSUME Init, NEW p \in Properties PROVE hostView[p] = Value(p)
    BY DEF Announced
  <2>1. /\ mStartCount = 0 /\ mStartCountExcludingNovaLINKApp = 0
        /\ mInputStartCountExcludingPassthrough = 0
    BY DEF Init
  <2>2. ~Value(p)
    <3>1. CASE p = "IsRunning"
      BY <2>1, <3>1 DEF Value
    <3>2. CASE p = "IsRunningOther"
      BY <2>1, <3>2 DEF Value
    <3>3. CASE p = "InputIsRunning"
      BY <2>1, <3>3 DEF Value
    <3> QED BY <3>1, <3>2, <3>3 DEF Properties
  <2>3. hostView[p] = FALSE
    BY DEF Init
  <2> QED BY <2>2, <2>3, ValueType
<1>2. TypeOK /\ Announced /\ [Next]_vars => Announced'
  <2> SUFFICES ASSUME TypeOK, Announced, [Next]_vars PROVE Announced'
    OBVIOUS
  <2> USE DEF counters, auxVars
  <2>1. ASSUME UNCHANGED <<counters, notify, hostView>> PROVE Announced'
    BY <2>1 DEF Announced, Value
  <2>2. ASSUME UNCHANGED hostView, notify \subseteq notify',
               \A p \in Properties : p \in notify' \/ (Value(p) <=> Value(p)')
        PROVE  Announced'
    BY <2>2, ValueType DEF Announced
  <2>3. ASSUME FinishStartIO PROVE Announced'
    BY <2>2, <2>3 DEF FinishStartIO, FinishTask, Properties, Value, TypeOK
  <2>4. ASSUME FinishStopIO PROVE Announced'
    BY <2>2, <2>4 DEF FinishStopIO, FinishTask, StopUnderflows, Properties, Value, TypeOK
  <2>5. ASSUME FinishStartInputIO PROVE Announced'
    BY <2>2, <2>5 DEF FinishStartInputIO, FinishTask, Properties, Value, TypeOK
  <2>6. ASSUME SendIORunningNotifications PROVE Announced'
    BY <2>6 DEF SendIORunningNotifications, Announced, Value
  <2>7. CASE UNCHANGED vars
    BY <2>1, <2>7 DEF vars
  <2>8. CASE HALNext
    BY ZenonT(40), <2>1, <2>8 DEF HALNext, AddClient, FinishAddClient, RemoveClient, FinishRemoveClient,
        StartIO, StartIOReturns, StartsWithoutStartIO, StopIO, StopIOReturns,
        StopsWithoutStopIO, SetMusicPlayerPID, SetMusicPlayerBundleID, FinishSetMusicPlayer
  <2>9. CASE IONext
    BY <2>1, <2>9 DEF IONext, BeginIOOperation, EndIOOperation, ReadInput
  <2>10. CASE IgnoreTask \/ BeginTask
    BY <2>1, <2>10 DEF IgnoreTask, BeginTask
  <2> QED BY <2>3, <2>4, <2>5, <2>6, <2>7, <2>8, <2>9, <2>10 DEF Next, WorkerNext
<1>3. Announced => HostViewCurrent
  BY DEF Announced, HostViewCurrent
<1> QED BY <1>1, <1>2, <1>3, TypeCorrect, PTL DEF Spec

-----------------------------------------------------------------------------
(* Who is registered, and the clients of the app and of XPCHelper.          *)

\* What the HAL's thread is in the middle of says where the client is in its life.
CallLife ==
    /\ call.kind = "Add" => hal[call.id] = "absent" /\ clients[call.id] # Absent
    /\ call.kind = "Remove" => hal[call.id] = "idle" /\ clients[call.id] = Absent
    /\ call.kind \in {"StartIO", "Started"} => hal[call.id] = "starting"
    /\ call.kind \in {"StopIO", "Stopped"} => hal[call.id] = "stopping"

\* The clients that the HAL has added and not removed.
Added == {id \in ClientIDs : hal[id] \notin {"absent", "gone"}}

\* Apart from the one that is just being added or removed, those are the
\* clients in the map.
MapFollowsHAL ==
    \A id \in ClientIDs : (call.kind \notin {"Add", "Remove"} \/ call.id # id) =>
      (clients[id] # Absent <=> id \in Added)

\* NovaLINK_Clients' own members follow when mMutex is given back.
HostCounts ==
    \A b \in HostBundles :
      /\ hostClientCount[b] = Cardinality({id \in Added : BundleOf[id] = b})
      /\ hostClientID[b] \in {id \in Added : BundleOf[id] = b} \cup {NoID}

Registration == CallLife /\ MapFollowsHAL /\ HostCounts

\* A task that completes does so for the call that is waiting for it.
LEMMA CompletedLife ==
    ASSUME TypeOK, CallLife, NEW task \in Tasks \cup TasksInHand, Completed(task),
           task.sync => call = [kind |-> task.kind, id |-> task.id],
           call.kind \notin {"Add", "Remove"}, UNCHANGED hal
    PROVE  CallLife' /\ call'.kind \notin {"Add", "Remove"}
<1>1. CASE task.sync /\ task.kind = "StartIO"
  BY <1>1 DEF Completed, CallLife
<1>2. CASE task.sync /\ task.kind # "StartIO"
  <2>1. task.kind = "StopIO"
    <3>1. call = [kind |-> task.kind, id |-> task.id] /\ task.kind \in TaskKinds
      BY <1>2 DEF Tasks, TasksInHand
    <3>2. call \in Calls
      BY <3>1 DEF TypeOK, SetCall, NoCall, TaskKinds
    <3>3. call.kind # "StartInputIO"
      BY <3>2 DEF Calls
    <3> QED BY <1>2, <3>1, <3>3 DEF TaskKinds
  <2> QED BY <1>2, <2>1 DEF Completed, CallLife
<1>3. CASE ~task.sync
  BY <1>3 DEF Completed, CallLife
<1> QED BY <1>1, <1>2, <1>3

\* The clients of a bundle are finitely many.
LEMMA FiniteAdded == \A b : IsFiniteSet({id \in Added : BundleOf[id] = b})
<1> SUFFICES ASSUME NEW b PROVE IsFiniteSet({id \in Added : BundleOf[id] = b})
  OBVIOUS
<1>1. {id \in Added : BundleOf[id] = b} \in SUBSET ClientIDs
  BY DEF Added
<1> QED BY <1>1, FS_Subset, ClientsModelAssumption

\* One more client of the app, or one less, changes the members of that bundle only.
LEMMA OneMore ==
    ASSUME TypeOK, HostCounts, NEW id \in ClientIDs, FinishAddClient(id),
           id \notin Added, Added' = Added \cup {id}
    PROVE  HostCounts'
<1> SUFFICES ASSUME NEW b \in HostBundles
             PROVE  /\ hostClientCount'[b] = Cardinality({i \in Added' : BundleOf[i] = b})
                    /\ hostClientID'[b] \in {i \in Added' : BundleOf[i] = b} \cup {NoID}
  BY DEF HostCounts
<1> DEFINE its == {i \in Added : BundleOf[i] = b}
<1>1. hostClientCount[b] = Cardinality(its) /\ hostClientID[b] \in its \cup {NoID}
  BY DEF HostCounts
<1>2. IsFiniteSet(its) /\ id \notin its
  BY FiniteAdded
<1>3. CASE BundleOf[id] = b
  <2>1. {i \in Added' : BundleOf[i] = b} = its \cup {id}
    BY <1>3
  <2> HIDE DEF its
  <2>2. Cardinality(its \cup {id}) = Cardinality(its) + 1
    BY <1>2, FS_AddElement
  <2>3. /\ hostClientID' = [hostClientID EXCEPT ![b] = id]
        /\ hostClientCount' = [hostClientCount EXCEPT ![b] = hostClientCount[b] + 1]
    BY <1>3 DEF FinishAddClient, IsPassthroughHost
  <2> QED BY <1>1, <2>1, <2>2, <2>3 DEF TypeOK
<1>4. CASE BundleOf[id] # b
  <2>1. {i \in Added' : BundleOf[i] = b} = its
    BY <1>4
  <2>2. hostClientCount'[b] = hostClientCount[b] /\ hostClientID'[b] = hostClientID[b]
    BY <1>4 DEF FinishAddClient, hostVars, TypeOK
  <2> QED BY <1>1, <2>1, <2>2
<1> QED BY <1>3, <1>4

LEMMA OneLess ==
    ASSUME TypeOK, HostCounts, NEW id \in ClientIDs, FinishRemoveClient(id),
           id \in Added, Added' = Added \ {id}
    PROVE  HostCounts'
<1> SUFFICES ASSUME NEW b \in HostBundles
             PROVE  /\ hostClientCount'[b] = Cardinality({i \in Added' : BundleOf[i] = b})
                    /\ hostClientID'[b] \in {i \in Added' : BundleOf[i] = b} \cup {NoID}
  BY DEF HostCounts
<1> DEFINE its == {i \in Added : BundleOf[i] = b}
<1>1. hostClientCount[b] = Cardinality(its) /\ hostClientID[b] \in its \cup {NoID}
  BY DEF HostCounts
<1>2. IsFiniteSet(its)
  BY FiniteAdded
<1>3. CASE BundleOf[id] = b
  <2> DEFINE left == IF hostClientCount[b] > 0 THEN hostClientCount[b] - 1 ELSE 0
  <2>1. {i \in Added' : BundleOf[i] = b} = its \ {id} /\ id \in its
    BY <1>3
  <2>2. /\ hostClientCount' = [hostClientCount EXCEPT ![b] = left]
        /\ hostClientID' = [hostClientID EXCEPT ![b] =
                              IF left = 0 \/ hostClientID[b] = id THEN NoID ELSE hostClientID[b]]
    BY <1>3 DEF FinishRemoveClient, IsPassthroughHost
  <2> HIDE DEF its
  <2>3. /\ Cardinality(its \ {id}) = Cardinality(its) - 1
        /\ Cardinality(its) \in Nat /\ Cardinality(its) # 0
    BY <1>2, <2>1, FS_RemoveElement, FS_CardinalityType, FS_EmptySet
  <2>4. left = Cardinality(its \ {id})
    BY <1>1, <2>3
  <2> HIDE DEF left
  <2>5. /\ hostClientCount'[b] = left
        /\ hostClientID'[b] = NoID \/ (hostClientID'[b] = hostClientID[b] /\ hostClientID[b] # id)
    BY <2>2 DEF TypeOK
  <2> QED BY <1>1, <2>1, <2>4, <2>5
<1>4. CASE BundleOf[id] # b
  <2>1. {i \in Added' : BundleOf[i] = b} = its
    BY <1>4
  <2>2. hostClientCount'[b] = hostClientCount[b] /\ hostClientID'[b] = hostClientID[b]
    BY <1>4 DEF FinishRemoveClient, hostVars, TypeOK
  <2> QED BY <1>1, <2>1, <2>2
<1> QED BY <1>3, <1>4

LEMMA HALRegistration ==
    ASSUME TypeOK, Registration, HALNext
    PROVE  Registration'
<1> USE DEF Registration, hostVars
<1>1. ASSUME NEW id \in ClientIDs, AddClient(id) PROVE Registration'
  <2>1. PICK b \in BOOLEAN : clients' = [clients EXCEPT ![id] = NewClient(b)] /\ NewClient(b) \in Client
    <3>1. MatchesMusicPlayer(id) \in BOOLEAN
      BY DEF MatchesMusicPlayer
    <3> QED BY <1>1, <3>1, RegistryStep DEF AddClient, TypeOK
  <2>2. /\ call = NoCall /\ call' = [kind |-> "Add", id |-> id] /\ hal[id] = "absent"
        /\ UNCHANGED <<hal, hostVars>>
    BY <1>1 DEF AddClient, EnterCall
  <2>3. Added' = Added
    BY <2>2 DEF Added
  <2>4. clients'[id] # Absent /\ \A i \in ClientIDs : i # id => clients'[i] = clients[i]
    BY <2>1, ClientsAssumption DEF TypeOK, ClientMaps
  <2>5. CallLife'
    BY <2>2, <2>4 DEF CallLife
  <2>6. MapFollowsHAL'
    BY <2>2, <2>3, <2>4 DEF MapFollowsHAL, NoCall
  <2> QED BY <2>2, <2>3, <2>5, <2>6 DEF HostCounts
<1>2. ASSUME NEW id \in ClientIDs, FinishAddClient(id) PROVE Registration'
  <2>1. /\ call = [kind |-> "Add", id |-> id] /\ call' = NoCall
        /\ hal' = [hal EXCEPT ![id] = "idle"] /\ UNCHANGED clients
    BY <1>2 DEF FinishAddClient, LeaveCall
  <2>2. Added' = Added \cup {id} /\ id \notin Added /\ clients[id] # Absent
    BY <2>1 DEF Added, CallLife, TypeOK
  <2>3. CallLife' /\ MapFollowsHAL'
    BY <2>1, <2>2 DEF CallLife, MapFollowsHAL, NoCall
  <2> QED BY <1>2, <2>2, <2>3, OneMore
<1>3. ASSUME NEW id \in ClientIDs, RemoveClient(id) PROVE Registration'
  <2>1. clients' = [clients EXCEPT ![id] = Absent]
    BY <1>3, RegistryStep DEF RemoveClient, TypeOK
  <2>2. /\ call = NoCall /\ call' = [kind |-> "Remove", id |-> id] /\ hal[id] = "idle"
        /\ UNCHANGED <<hal, hostVars>>
    BY <1>3 DEF RemoveClient, EnterCall
  <2>3. Added' = Added
    BY <2>2 DEF Added
  <2>4. clients'[id] = Absent /\ \A i \in ClientIDs : i # id => clients'[i] = clients[i]
    BY <2>1 DEF TypeOK, ClientMaps
  <2>5. CallLife' /\ MapFollowsHAL'
    BY <2>2, <2>3, <2>4 DEF CallLife, MapFollowsHAL, NoCall
  <2> QED BY <2>2, <2>3, <2>5 DEF HostCounts
<1>4. ASSUME NEW id \in ClientIDs, FinishRemoveClient(id) PROVE Registration'
  <2>1. /\ call = [kind |-> "Remove", id |-> id] /\ call' = NoCall
        /\ hal' = [hal EXCEPT ![id] = "gone"] /\ UNCHANGED clients
    BY <1>4 DEF FinishRemoveClient, LeaveCall
  <2>2. Added' = Added \ {id} /\ id \in Added /\ clients[id] = Absent
    BY <2>1 DEF Added, CallLife, TypeOK
  <2>3. CallLife' /\ MapFollowsHAL'
    BY <2>1, <2>2 DEF CallLife, MapFollowsHAL, NoCall
  <2> QED BY <1>4, <2>2, <2>3, OneLess
<1>5. ASSUME NEW id \in ClientIDs,
             \/ StartIO(id) \/ StartIOReturns(id) \/ StartsWithoutStartIO(id)
             \/ StopIO(id) \/ StopIOReturns(id) \/ StopsWithoutStopIO(id)
      PROVE  Registration'
  <2>1. UNCHANGED <<clients, hostVars>>
    BY <1>5 DEF StartIO, StartIOReturns, StartsWithoutStartIO, StopIO, StopIOReturns,
        StopsWithoutStopIO
  <2>2. /\ id \in Added
        /\ \E state \in HALStates \ {"absent", "gone"} : hal' = [hal EXCEPT ![id] = state]
        /\ call.kind \notin {"Add", "Remove"} /\ call'.kind \notin {"Add", "Remove"}
        /\ CallLife'
    <3>1. CASE StartIO(id) \/ StopIO(id)
      <4>1. /\ call = NoCall /\ hal[id] \in {"idle", "ended"}
            /\ \/ /\ call' = [kind |-> "StartIO", id |-> id]
                  /\ hal' = [hal EXCEPT ![id] = "starting"]
               \/ /\ call' = [kind |-> "StopIO", id |-> id]
                  /\ hal' = [hal EXCEPT ![id] = "stopping"]
        BY <3>1 DEF StartIO, StopIO
      <4> QED BY <4>1 DEF CallLife, Added, HALStates, TypeOK, NoCall
    <3>2. CASE StartIOReturns(id) \/ StopIOReturns(id)
      BY <3>2 DEF StartIOReturns, StopIOReturns, CallLife, Added, HALStates, TypeOK, NoCall
    <3>3. CASE StartsWithoutStartIO(id) \/ StopsWithoutStopIO(id)
      BY <3>3 DEF StartsWithoutStartIO, StopsWithoutStopIO, CallLife, Added, HALStates, TypeOK, NoCall
    <3> QED BY <1>5, <3>1, <3>2, <3>3
  <2>3. Added' = Added
    BY <2>2 DEF Added, TypeOK
  <2>4. MapFollowsHAL'
    BY <2>1, <2>2, <2>3 DEF MapFollowsHAL
  <2> QED BY <2>1, <2>2, <2>3, <2>4 DEF HostCounts
<1>6. ASSUME \/ \E p \in PlayerPIDs : SetMusicPlayerPID(p)
             \/ \E b \in PlayerBundles : SetMusicPlayerBundleID(b)
             \/ FinishSetMusicPlayer
      PROVE  Registration'
  <2>1. /\ UNCHANGED <<hal, hostVars>>
        /\ call.kind \in {"None", "SetMusicPlayer"} /\ call'.kind \in {"None", "SetMusicPlayer"}
    <3>1. /\ UNCHANGED <<hal, hostVars>>
          /\ call \in {NoCall, SetCall} /\ call' \in {NoCall, SetCall}
      BY <1>6 DEF SetMusicPlayerPID, SetMusicPlayerBundleID, FinishSetMusicPlayer, EnterCall,
          LeaveCall
    <3> QED BY <3>1 DEF NoCall, SetCall
  <2>2. UNCHANGED clients \/ \E players : Registry!UpdateMusicPlayerFlags(players)
    BY <1>6 DEF SetMusicPlayerPID, SetMusicPlayerBundleID, FinishSetMusicPlayer
  <2>3. \A id \in ClientIDs : clients'[id] = Absent <=> clients[id] = Absent
    BY <2>2, FlagStep DEF TypeOK
  <2>4. Added' = Added
    BY <2>1 DEF Added
  <2> QED BY <2>1, <2>3, <2>4 DEF CallLife, MapFollowsHAL, HostCounts
<1> QED BY <1>1, <1>2, <1>3, <1>4, <1>5, <1>6 DEF HALNext

LEMMA RegistrationInvariant == Spec => []Registration
<1>1. Init => Registration
  <2> SUFFICES ASSUME Init PROVE Registration
    OBVIOUS
  <2>1. Added = {}
    BY DEF Init, Added
  <2>2. CallLife /\ MapFollowsHAL
    BY <2>1 DEF Init, CallLife, MapFollowsHAL, NoCall, NoClients
  <2>3. HostCounts
    BY <2>1, FS_EmptySet DEF Init, HostCounts
  <2> QED BY <2>2, <2>3 DEF Registration
<1>2. TypeOK /\ TypeOK' /\ Mutex /\ Sync /\ Registration /\ [Next]_vars => Registration'
  <2> SUFFICES ASSUME TypeOK, TypeOK', Mutex, Sync, Registration, [Next]_vars
               PROVE  Registration'
    OBVIOUS
  <2> USE DEF hostVars, Registration
  <2>1. CASE UNCHANGED vars
    BY <2>1 DEF vars, CallLife, MapFollowsHAL, HostCounts, Added
  <2>2. CASE IONext
    <3>1. UNCHANGED <<clients, hostVars, call>>
      BY <2>2 DEF IONext, BeginIOOperation, EndIOOperation, ReadInput
    <3>2. /\ Added' = Added
          /\ \A id \in ClientIDs : hal[id] \in {"absent", "idle", "starting", "stopping"} =>
                                     hal'[id] = hal[id]
      BY <2>2 DEF IONext, BeginIOOperation, EndIOOperation, ReadInput, Added, TypeOK
    <3>3. call.kind \in {"Add", "Remove", "StartIO", "Started", "StopIO", "Stopped"} =>
            call.id \in ClientIDs
      BY DEF TypeOK, Calls, SetCall, NoCall
    <3> QED BY <3>1, <3>2, <3>3 DEF CallLife, MapFollowsHAL, HostCounts
  <2>3. CASE IgnoreTask
    <3>1. UNCHANGED <<clients, hostVars, hal>> /\ call.kind \notin {"Add", "Remove"}
      BY <2>3 DEF IgnoreTask, Mutex
    <3>2. CallLife' /\ call'.kind \notin {"Add", "Remove"}
      BY <2>3, <3>1, TakeSync, CompletedLife DEF IgnoreTask, Sync
    <3> QED BY <3>1, <3>2 DEF MapFollowsHAL, HostCounts, Added
  <2>4. CASE BeginTask
    <3>1. UNCHANGED <<hostVars, hal, call>> /\ call.kind \notin {"Add", "Remove"}
      BY <2>4 DEF BeginTask, Mutex
    <3>2. \A id \in ClientIDs : clients'[id] = Absent <=> clients[id] = Absent
      BY ZenonT(40), <2>4, BeginStep, ClientsAssumption DEF TypeOK, ClientMaps
    <3> QED BY <3>1, <3>2 DEF CallLife, MapFollowsHAL, HostCounts, Added
  <2>5. CASE FinishStartIO \/ FinishStopIO \/ FinishStartInputIO
    <3>1. UNCHANGED <<clients, hostVars, hal>> /\ Completed(theTask)
      BY <2>5 DEF FinishStartIO, FinishStopIO, FinishStartInputIO, FinishTask
    <3>2. theTask # NoTask /\ theTask \in TasksInHand /\ call.kind \notin {"Add", "Remove"}
      BY <2>5 DEF FinishStartIO, FinishStopIO, FinishStartInputIO, NoTask, TypeOK, Mutex
    <3>3. CallLife' /\ call'.kind \notin {"Add", "Remove"}
      BY <3>1, <3>2, CompletedLife DEF Sync
    <3> QED BY <3>1, <3>2, <3>3 DEF MapFollowsHAL, HostCounts, Added
  <2>6. CASE SendIORunningNotifications
    BY <2>6 DEF SendIORunningNotifications, CallLife, MapFollowsHAL, HostCounts, Added
  <2> QED BY <2>1, <2>2, <2>3, <2>4, <2>5, <2>6, HALRegistration DEF Next, WorkerNext
<1> QED BY <1>1, <1>2, TypeCorrect, ControlInvariant, PTL DEF Spec

\* Between operations the app, or XPCHelper, counts as many clients as are in
\* the map, and the client ID kept of it is one of them or none, however its
\* clients come and go among others, do IO and are interrupted by the worker.
THEOREM HostsAreRegistered == Spec => []HostsRegistered
<1>1. TypeOK /\ Mutex /\ Registration => HostsRegistered
  <2> SUFFICES ASSUME TypeOK, Mutex, Registration, mMutex = "free" PROVE HostsRegistered
    BY DEF HostsRegistered
  <2>1. Registered = Added
    BY DEF Registered, Added, Mutex, Registration, MapFollowsHAL
  <2> QED BY <2>1 DEF HostsRegistered, Registration, HostCounts
<1> QED BY <1>1, TypeCorrect, ControlInvariant, RegistrationInvariant, PTL

-----------------------------------------------------------------------------
(* Who does IO, once the tasks in the queue are done.                       *)

\* The tasks that start or stop a client's IO; StartInputIO does neither.
Switches(task, id) == task.id = id /\ task.kind # "StartInputIO"

\* The last one in q decides whether the client does IO after q; if there is
\* none, it is as before, which is what now says.
EndsUp(q, id, now, doingIO) ==
    \/ \E i \in DOMAIN q :
         /\ Switches(q[i], id)
         /\ \A j \in DOMAIN q : j > i => ~Switches(q[j], id)
         /\ q[i].kind = "StartIO" <=> doingIO
    \/ /\ \A i \in DOMAIN q : ~Switches(q[i], id)
       /\ now <=> doingIO

\* A client does IO after the queued tasks if the HAL last had its IO thread
\* begin, or waits for its start, and does none if its thread or the HAL ended it.
QueueTracksHAL ==
    \A id \in ClientIDs : clients[id] # Absent =>
      /\ hal[id] \in {"starting", "io"} => EndsUp(tasks, id, clients[id].mDoingIO, TRUE)
      /\ hal[id] \in {"absent", "idle", "ended", "stopping"} =>
           EndsUp(tasks, id, clients[id].mDoingIO, FALSE)

\* No task names a client that the HAL has not added yet.
NoTaskEarly == \A i \in DOMAIN tasks : hal[tasks[i].id] # "absent"

\* Queueing a task that switches a client decides for it, any other for nobody.
LEMMA QueueDecides ==
    ASSUME NEW q \in Seq(Tasks), NEW task \in Tasks, NEW id, NEW now, NEW doingIO
    PROVE  /\ Switches(task, id) => EndsUp(Append(q, task), id, now, task.kind = "StartIO")
           /\ ~Switches(task, id) /\ EndsUp(q, id, now, doingIO) =>
                EndsUp(Append(q, task), id, now, doingIO)
<1> DEFINE r == Append(q, task)
<1>1. /\ DOMAIN q = 1..Len(q) /\ DOMAIN r = 1..(Len(q) + 1) /\ Len(q) \in Nat
      /\ \A i \in 1..Len(q) : r[i] = q[i]
      /\ r[Len(q) + 1] = task
  OBVIOUS
<1> HIDE DEF r
<1>2. ASSUME Switches(task, id) PROVE EndsUp(r, id, now, task.kind = "StartIO")
  <2>1. Len(q) + 1 \in DOMAIN r /\ \A j \in DOMAIN r : ~(j > Len(q) + 1)
    BY <1>1
  <2> QED BY <1>1, <1>2, <2>1 DEF EndsUp
<1>3. ASSUME ~Switches(task, id), EndsUp(q, id, now, doingIO) PROVE EndsUp(r, id, now, doingIO)
  <2>1. CASE \A i \in DOMAIN q : ~Switches(q[i], id)
    BY <1>1, <1>3, <2>1 DEF EndsUp
  <2>2. ASSUME NEW i \in DOMAIN q, Switches(q[i], id), q[i].kind = "StartIO" <=> doingIO,
               \A j \in DOMAIN q : j > i => ~Switches(q[j], id)
        PROVE  EndsUp(r, id, now, doingIO)
    <3>1. i \in DOMAIN r /\ r[i] = q[i]
      BY <1>1
    <3>2. \A j \in DOMAIN r : j > i => ~Switches(r[j], id)
      BY <1>1, <1>3, <2>2
    <3> QED BY <2>2, <3>1, <3>2 DEF EndsUp
  <2> QED BY <1>3, <2>1, <2>2 DEF EndsUp
<1> QED BY <1>2, <1>3 DEF r

\* Doing the oldest task decides nothing that the queue had not decided.
LEMMA TakeDecides ==
    ASSUME NEW q \in Seq(Tasks), q # <<>>, NEW id, NEW now, NEW doingIO,
           EndsUp(q, id, now, doingIO)
    PROVE  /\ Switches(Head(q), id) => EndsUp(Tail(q), id, Head(q).kind = "StartIO", doingIO)
           /\ ~Switches(Head(q), id) => EndsUp(Tail(q), id, now, doingIO)
<1> DEFINE r == Tail(q)
<1>1. /\ DOMAIN q = 1..Len(q) /\ DOMAIN r = 1..(Len(q) - 1) /\ Len(q) \in Nat \ {0}
      /\ \A i \in 1..(Len(q) - 1) : r[i] = q[i + 1]
      /\ Head(q) = q[1]
  OBVIOUS
<1> HIDE DEF r
<1>2. ASSUME NEW new, \A i \in DOMAIN q : i > 1 => ~Switches(q[i], id), new <=> doingIO
      PROVE  EndsUp(r, id, new, doingIO)
  <2>1. \A i \in DOMAIN r : i + 1 \in DOMAIN q /\ i + 1 > 1 /\ r[i] = q[i + 1]
    BY <1>1
  <2> QED BY <1>2, <2>1 DEF EndsUp
<1>3. CASE \A i \in DOMAIN q : ~Switches(q[i], id)
  <2>1. now <=> doingIO
    BY <1>3 DEF EndsUp
  <2>2. 1 \in DOMAIN q
    BY <1>1
  <2> QED BY <1>1, <1>2, <1>3, <2>1, <2>2 DEF r
<1>4. ASSUME NEW i \in DOMAIN q, Switches(q[i], id), q[i].kind = "StartIO" <=> doingIO,
             \A j \in DOMAIN q : j > i => ~Switches(q[j], id), i = 1
      PROVE  Switches(Head(q), id) /\ EndsUp(r, id, Head(q).kind = "StartIO", doingIO)
  BY <1>1, <1>2, <1>4
<1>5. ASSUME NEW i \in DOMAIN q, Switches(q[i], id), q[i].kind = "StartIO" <=> doingIO,
             \A j \in DOMAIN q : j > i => ~Switches(q[j], id), i # 1, NEW new
      PROVE  EndsUp(r, id, new, doingIO)
  <2>1. i - 1 \in DOMAIN r /\ r[i - 1] = q[i]
    BY <1>1, <1>5
  <2>2. \A j \in DOMAIN r : j > i - 1 => ~Switches(r[j], id)
    BY <1>1, <1>5
  <2> QED BY <1>5, <2>1, <2>2 DEF EndsUp
<1> QED BY <1>3, <1>4, <1>5 DEF EndsUp, r

\* A call or an IO thread that queues a task of its client leaves the others alone.
LEMMA QueueStep ==
    ASSUME TypeOK, QueueTracksHAL, NoTaskEarly, UNCHANGED clients, NEW task \in Tasks,
           tasks' = Append(tasks, task), hal[task.id] # "absent",
           \A id \in ClientIDs \ {task.id} : hal'[id] = hal[id],
           hal'[task.id] # "absent",
           \/ task.kind = "StartIO" /\ hal'[task.id] \in {"starting", "io"}
           \/ task.kind = "StopIO" /\ hal'[task.id] \in {"ended", "stopping"}
           \/ task.kind = "StartInputIO" /\ hal'[task.id] = hal[task.id]
    PROVE  QueueTracksHAL' /\ NoTaskEarly'
<1>1. NoTaskEarly'
  <2>1. /\ DOMAIN tasks = 1..Len(tasks) /\ DOMAIN tasks' = 1..(Len(tasks) + 1) /\ Len(tasks) \in Nat
        /\ \A i \in 1..Len(tasks) : tasks'[i] = tasks[i] /\ tasks[i] \in Tasks
        /\ tasks'[Len(tasks) + 1] = task
    BY DEF TypeOK
  <2>2. \A i \in 1..Len(tasks) : tasks[i].id \in ClientIDs
    BY <2>1 DEF Tasks
  <2> QED BY <2>1, <2>2 DEF NoTaskEarly
<1>2. ASSUME NEW id \in ClientIDs, clients[id] # Absent
      PROVE  /\ hal'[id] \in {"starting", "io"} => EndsUp(tasks', id, clients[id].mDoingIO, TRUE)
             /\ hal'[id] \in {"absent", "idle", "ended", "stopping"} =>
                  EndsUp(tasks', id, clients[id].mDoingIO, FALSE)
  <2>1. tasks \in Seq(Tasks)
    BY DEF TypeOK
  <2>2. CASE Switches(task, id)
    <3>1. EndsUp(tasks', id, clients[id].mDoingIO, task.kind = "StartIO")
      BY <2>1, <2>2, QueueDecides
    <3>2. CASE task.kind = "StartIO"
      BY <2>2, <3>1, <3>2 DEF Switches, EndsUp
    <3>3. CASE task.kind = "StopIO"
      BY <2>2, <3>1, <3>3 DEF Switches, EndsUp
    <3> QED BY <2>2, <3>2, <3>3 DEF Switches
  <2>3. CASE ~Switches(task, id)
    <3>1. hal'[id] = hal[id]
      BY <2>3 DEF Switches
    <3>2. \A doingIO : EndsUp(tasks, id, clients[id].mDoingIO, doingIO) =>
                         EndsUp(tasks', id, clients[id].mDoingIO, doingIO)
      BY <2>1, <2>3, QueueDecides
    <3> QED BY <1>2, <3>1, <3>2 DEF QueueTracksHAL
  <2> QED BY <2>2, <2>3
<1> QED BY <1>1, <1>2 DEF QueueTracksHAL

\* The worker does what the oldest task asks for, or finds it done.
LEMMA TakeStep ==
    ASSUME TypeOK, QueueTracksHAL, NoTaskEarly, UNCHANGED hal, tasks # <<>>, tasks' = Tail(tasks),
           \A id \in ClientIDs :
             /\ clients'[id] = Absent <=> clients[id] = Absent
             /\ clients[id] # Absent =>
                  /\ Switches(Head(tasks), id) =>
                       (clients'[id].mDoingIO <=> Head(tasks).kind = "StartIO")
                  /\ ~Switches(Head(tasks), id) =>
                       (clients'[id].mDoingIO <=> clients[id].mDoingIO)
    PROVE  QueueTracksHAL' /\ NoTaskEarly'
<1>1. NoTaskEarly'
  BY TakeSync DEF NoTaskEarly
<1>2. ASSUME NEW id \in ClientIDs, clients[id] # Absent, NEW doingIO,
             EndsUp(tasks, id, clients[id].mDoingIO, doingIO)
      PROVE  EndsUp(tasks', id, clients'[id].mDoingIO, doingIO)
  <2>1. tasks \in Seq(Tasks)
    BY DEF TypeOK
  <2>2. CASE Switches(Head(tasks), id)
    <3>1. EndsUp(tasks', id, Head(tasks).kind = "StartIO", doingIO)
      BY <1>2, <2>1, <2>2, TakeDecides
    <3> QED BY <1>2, <2>2, <3>1 DEF EndsUp
  <2>3. CASE ~Switches(Head(tasks), id)
    <3>1. EndsUp(tasks', id, clients[id].mDoingIO, doingIO)
      BY <1>2, <2>1, <2>3, TakeDecides
    <3> QED BY <1>2, <2>3, <3>1 DEF EndsUp
  <2> QED BY <2>2, <2>3
<1> QED BY <1>1, <1>2 DEF QueueTracksHAL

\* Where the queue and the map stay, so does what becomes of a client.
LEMMA QuietStep ==
    ASSUME QueueTracksHAL, NoTaskEarly, UNCHANGED tasks,
           \A i \in DOMAIN tasks : hal'[tasks[i].id] # "absent",
           \A id \in ClientIDs : clients'[id] # Absent =>
             /\ clients[id] # Absent /\ (clients'[id].mDoingIO <=> clients[id].mDoingIO)
             /\ \/ hal'[id] = hal[id]
                \/ hal'[id] \in {"started", "gone"}
                \/ /\ hal'[id] = "idle"
                   /\ hal[id] \in {"absent", "idle", "ended", "stopping"}
    PROVE  QueueTracksHAL' /\ NoTaskEarly'
<1>1. ASSUME NEW id \in ClientIDs, clients'[id] # Absent, NEW doingIO,
             EndsUp(tasks, id, clients[id].mDoingIO, doingIO)
      PROVE  EndsUp(tasks, id, clients'[id].mDoingIO, doingIO)
  BY <1>1 DEF EndsUp
<1> QED BY <1>1 DEF QueueTracksHAL, NoTaskEarly

LEMMA HALTracks ==
    ASSUME TypeOK, Mutex, Registration, Agreement, QueueTracksHAL, NoTaskEarly, HALNext
    PROVE  QueueTracksHAL' /\ NoTaskEarly'
<1> DEFINE Done == QueueTracksHAL' /\ NoTaskEarly'
<1>1. ASSUME NEW id \in ClientIDs, AddClient(id) PROVE Done
  <2>1. PICK b \in BOOLEAN : clients' = [clients EXCEPT ![id] = NewClient(b)]
    <3>1. MatchesMusicPlayer(id) \in BOOLEAN
      BY DEF MatchesMusicPlayer
    <3> QED BY <1>1, <3>1, RegistryStep DEF AddClient, TypeOK
  <2>2. hal[id] = "absent" /\ UNCHANGED <<hal, tasks>>
    BY <1>1 DEF AddClient
  <2>3. \A i \in DOMAIN tasks : ~Switches(tasks[i], id)
    BY <2>2 DEF NoTaskEarly, Switches
  <2>4. ~clients'[id].mDoingIO /\ \A i \in ClientIDs \ {id} : clients'[i] = clients[i]
    BY <2>1 DEF TypeOK, ClientMaps, NewClient
  <2>5. EndsUp(tasks, id, clients'[id].mDoingIO, FALSE)
    BY <2>3, <2>4 DEF EndsUp
  <2> QED BY <2>2, <2>4, <2>5 DEF QueueTracksHAL, NoTaskEarly
<1>2. ASSUME NEW id \in ClientIDs, FinishAddClient(id) PROVE Done
  <2>1. /\ UNCHANGED <<clients, tasks>> /\ hal' = [hal EXCEPT ![id] = "idle"]
        /\ call = [kind |-> "Add", id |-> id]
    BY <1>2 DEF FinishAddClient
  <2>2. hal[id] = "absent"
    BY <2>1 DEF Registration, CallLife
  <2>3. \A i \in DOMAIN tasks : hal'[tasks[i].id] # "absent"
    BY <2>1, <2>2 DEF NoTaskEarly, TypeOK
  <2> QED BY <2>1, <2>2, <2>3, QuietStep DEF TypeOK
<1>3. ASSUME NEW id \in ClientIDs, RemoveClient(id) PROVE Done
  <2>1. clients' = [clients EXCEPT ![id] = Absent] /\ UNCHANGED <<hal, tasks>>
    BY <1>3, RegistryStep DEF RemoveClient, TypeOK
  <2> QED BY <2>1, QuietStep DEF TypeOK, ClientMaps, NoTaskEarly
<1>4. ASSUME NEW id \in ClientIDs,
             \/ FinishRemoveClient(id) \/ StartIOReturns(id) \/ StartsWithoutStartIO(id)
             \/ StopIOReturns(id) \/ StopsWithoutStopIO(id)
      PROVE  Done
  <2>1. UNCHANGED <<clients, tasks>>
    BY <1>4 DEF FinishRemoveClient, StartIOReturns, StartsWithoutStartIO, StopIOReturns,
        StopsWithoutStopIO
  <2>2. \/ hal' = [hal EXCEPT ![id] = "gone"]
        \/ hal' = [hal EXCEPT ![id] = "started"]
        \/ hal' = [hal EXCEPT ![id] = "idle"] /\ hal[id] \in {"stopping", "ended"}
    <3>1. CASE StopIOReturns(id)
      <4>1. call = [kind |-> "Stopped", id |-> id] /\ hal' = [hal EXCEPT ![id] = "idle"]
        BY <3>1 DEF StopIOReturns
      <4> QED BY <4>1 DEF Registration, CallLife
    <3>2. CASE ~StopIOReturns(id)
      BY <1>4, <3>2 DEF FinishRemoveClient, StartIOReturns, StartsWithoutStartIO,
          StopsWithoutStopIO
    <3> QED BY <3>1, <3>2
  <2>3. \A i \in ClientIDs \ {id} : hal'[i] = hal[i]
    BY <2>2 DEF TypeOK
  <2>4. \A i \in DOMAIN tasks : tasks[i].id \in ClientIDs
    <3>1. \A i \in DOMAIN tasks : tasks[i] \in Tasks
      BY DEF TypeOK
    <3> QED BY <3>1 DEF Tasks
  <2>5. \A i \in DOMAIN tasks : hal'[tasks[i].id] # "absent"
    BY <2>2, <2>3, <2>4 DEF NoTaskEarly, TypeOK
  <2>6. hal'[id] \in {"started", "gone"} \/ (hal'[id] = "idle" /\ hal[id] \in {"ended", "stopping"})
    BY <2>2 DEF TypeOK
  <2> QED BY <2>1, <2>3, <2>5, <2>6, QuietStep
<1>5. ASSUME NEW id \in ClientIDs, StartIO(id) \/ StopIO(id) PROVE Done
  <2>1. PICK kind \in {"StartIO", "StopIO"} :
          /\ tasks' = Append(tasks, [kind |-> kind, id |-> id, sync |-> TRUE])
          /\ hal[id] \in {"idle", "ended"}
          /\ hal' = [hal EXCEPT ![id] = IF kind = "StartIO" THEN "starting" ELSE "stopping"]
    BY <1>5 DEF StartIO, StopIO, Queue
  <2>2. UNCHANGED clients
    BY <1>5 DEF StartIO, StopIO
  <2> DEFINE task == [kind |-> kind, id |-> id, sync |-> TRUE]
  <2>3. task \in Tasks /\ task.kind = kind /\ task.id = id /\ tasks' = Append(tasks, task)
    BY <2>1 DEF Tasks, TaskKinds
  <2>4. /\ hal'[id] = IF kind = "StartIO" THEN "starting" ELSE "stopping"
        /\ \A i \in ClientIDs \ {id} : hal'[i] = hal[i]
    BY <2>1 DEF TypeOK
  <2> HIDE DEF task
  <2> QED BY <2>1, <2>2, <2>3, <2>4, QueueStep
<1>6. ASSUME \/ \E p \in PlayerPIDs : SetMusicPlayerPID(p)
             \/ \E b \in PlayerBundles : SetMusicPlayerBundleID(b)
             \/ FinishSetMusicPlayer
      PROVE  Done
  <2>1. /\ UNCHANGED <<hal, tasks>>
        /\ UNCHANGED clients \/ \E players : Registry!UpdateMusicPlayerFlags(players)
    BY <1>6 DEF SetMusicPlayerPID, SetMusicPlayerBundleID, FinishSetMusicPlayer
  <2>2. \A id \in ClientIDs : clients'[id] # Absent =>
          clients[id] # Absent /\ (clients'[id].mDoingIO <=> clients[id].mDoingIO)
    BY <2>1, FlagStep DEF TypeOK
  <2> QED BY <2>1, <2>2, QuietStep DEF NoTaskEarly
<1> QED BY <1>1, <1>2, <1>3, <1>4, <1>5, <1>6 DEF HALNext

LEMMA WorkerTracks ==
    ASSUME TypeOK, QueueTracksHAL, NoTaskEarly, WorkerNext
    PROVE  QueueTracksHAL' /\ NoTaskEarly'
<1>1. CASE IgnoreTask
  <2>1. /\ tasks # <<>> /\ tasks' = Tail(tasks) /\ UNCHANGED <<clients, hal>>
        /\ ~NeedsUpdate(Head(tasks)) /\ Head(tasks) \in Tasks
    BY <1>1, TakeSync DEF IgnoreTask
  <2>2. ASSUME NEW id \in ClientIDs, clients[id] # Absent, Switches(Head(tasks), id)
        PROVE  clients[id].mDoingIO <=> Head(tasks).kind = "StartIO"
    <3>1. Head(tasks).kind \in {"StartIO", "StopIO"} /\ Head(tasks).id = id
      BY <2>1, <2>2 DEF Switches, Tasks, TaskKinds
    <3>2. CASE Head(tasks).kind = "StartIO"
      BY <2>1, <2>2, <3>1, <3>2 DEF NeedsUpdate
    <3>3. CASE Head(tasks).kind = "StopIO"
      BY <2>1, <2>2, <3>1, <3>3 DEF NeedsUpdate
    <3> QED BY <3>1, <3>2, <3>3
  <2> QED BY <2>1, <2>2, TakeStep
<1>2. CASE BeginTask
  <2>1. tasks # <<>> /\ tasks' = Tail(tasks) /\ UNCHANGED hal
    BY <1>2 DEF BeginTask
  <2>2. /\ theTask'.kind = Head(tasks).kind /\ theTask'.id = Head(tasks).id
        /\ theTask'.id \in ClientIDs /\ theTask'.kind \in TaskKinds
        /\ clients[theTask'.id] \in Client
    BY <1>2, BeginStep DEF TasksInHand
  <2>3. PICK c \in Client :
          /\ clients' = [clients EXCEPT ![theTask'.id] = c]
          /\ theTask'.kind = "StartIO" => c.mDoingIO
          /\ theTask'.kind = "StopIO" => ~c.mDoingIO
          /\ theTask'.kind = "StartInputIO" => c.mDoingIO = clients[theTask'.id].mDoingIO
    <3>1. \A c \in Client : /\ WithDoingIO(c, TRUE).mDoingIO /\ ~WithDoingIO(c, FALSE).mDoingIO
                            /\ WithInputIO(c).mDoingIO = c.mDoingIO
      BY DEF Client, WithDoingIO, WithInputIO
    <3>2. PICK c \in Client :
            /\ clients' = [clients EXCEPT ![theTask'.id] = c]
            /\ theTask'.kind = "StartIO" => c = WithDoingIO(clients[theTask'.id], TRUE)
            /\ theTask'.kind = "StopIO" => c = WithDoingIO(clients[theTask'.id], FALSE)
            /\ theTask'.kind = "StartInputIO" => c = WithInputIO(clients[theTask'.id])
      BY <1>2, BeginStep
    <3>3. theTask'.kind = "StartInputIO" => c.mDoingIO = clients[theTask'.id].mDoingIO
      BY <2>2, <3>1, <3>2
    <3>4. theTask'.kind = "StartIO" => c.mDoingIO
      BY <2>2, <3>1, <3>2
    <3>5. theTask'.kind = "StopIO" => ~c.mDoingIO
      BY ZenonT(40), <2>2, <3>1, <3>2
    <3> QED BY <3>2, <3>3, <3>4, <3>5
  <2>4. /\ clients'[theTask'.id] = c /\ c # Absent
        /\ \A id \in ClientIDs \ {theTask'.id} : clients'[id] = clients[id]
    BY <2>2, <2>3, ClientsAssumption DEF TypeOK, ClientMaps
  <2>5. ASSUME NEW id \in ClientIDs
        PROVE  /\ clients'[id] = Absent <=> clients[id] = Absent
               /\ clients[id] # Absent =>
                    /\ Switches(Head(tasks), id) =>
                         (clients'[id].mDoingIO <=> Head(tasks).kind = "StartIO")
                    /\ ~Switches(Head(tasks), id) =>
                         (clients'[id].mDoingIO <=> clients[id].mDoingIO)
    <3>1. CASE id = theTask'.id
      BY <2>2, <2>3, <2>4, <3>1, ClientsAssumption DEF Switches, TaskKinds
    <3>2. CASE id # theTask'.id
      BY <2>2, <2>4, <3>2 DEF Switches
    <3> QED BY <3>1, <3>2
  <2> QED BY <2>1, <2>5, TakeStep
<1>3. CASE FinishStartIO \/ FinishStopIO \/ FinishStartInputIO
  <2>1. UNCHANGED <<clients, tasks, hal>>
    BY <1>3 DEF FinishStartIO, FinishStopIO, FinishStartInputIO, FinishTask
  <2> QED BY <2>1 DEF QueueTracksHAL, NoTaskEarly
<1> QED BY <1>1, <1>2, <1>3 DEF WorkerNext

LEMMA QueueInvariant == Spec => [](QueueTracksHAL /\ NoTaskEarly)
<1>1. Init => QueueTracksHAL /\ NoTaskEarly
  BY DEF Init, QueueTracksHAL, NoTaskEarly, NoClients
<1>2. /\ TypeOK /\ Mutex /\ Registration /\ Agreement /\ QueueTracksHAL /\ NoTaskEarly
      /\ [Next]_vars
      => (QueueTracksHAL /\ NoTaskEarly)'
  <2> SUFFICES ASSUME TypeOK, Mutex, Registration, Agreement, QueueTracksHAL, NoTaskEarly,
                      [Next]_vars
               PROVE  QueueTracksHAL' /\ NoTaskEarly'
    OBVIOUS
  <2>1. CASE UNCHANGED vars
    BY <2>1 DEF vars, QueueTracksHAL, NoTaskEarly
  <2>2. ASSUME NEW id \in ClientIDs, BeginIOOperation(id) \/ EndIOOperation(id) \/ ReadInput(id)
        PROVE  QueueTracksHAL' /\ NoTaskEarly'
    <3>1. PICK kind \in TaskKinds :
            /\ tasks' = Append(tasks, [kind |-> kind, id |-> id, sync |-> FALSE])
            /\ hal[id] \in {"started", "io"}
            /\ \/ kind = "StartIO" /\ hal' = [hal EXCEPT ![id] = "io"]
               \/ kind = "StopIO" /\ hal' = [hal EXCEPT ![id] = "ended"]
               \/ kind = "StartInputIO" /\ hal' = hal
      BY <2>2 DEF BeginIOOperation, EndIOOperation, ReadInput, Queue, TaskKinds
    <3>2. UNCHANGED clients
      BY <2>2 DEF BeginIOOperation, EndIOOperation, ReadInput
    <3> DEFINE task == [kind |-> kind, id |-> id, sync |-> FALSE]
    <3>3. task \in Tasks /\ task.kind = kind /\ task.id = id /\ tasks' = Append(tasks, task)
      BY <3>1 DEF Tasks
    <3>4. /\ \/ kind = "StartIO" /\ hal'[id] = "io"
             \/ kind = "StopIO" /\ hal'[id] = "ended"
             \/ kind = "StartInputIO" /\ hal'[id] = hal[id]
          /\ \A i \in ClientIDs \ {id} : hal'[i] = hal[i]
      BY <3>1 DEF TypeOK
    <3> HIDE DEF task
    <3> QED BY <3>1, <3>2, <3>3, <3>4, QueueStep
  <2>3. CASE SendIORunningNotifications
    BY <2>3 DEF SendIORunningNotifications, QueueTracksHAL, NoTaskEarly
  <2> QED BY <2>1, <2>2, <2>3, HALTracks, WorkerTracks DEF Next, IONext
<1> QED BY <1>1, <1>2, TypeCorrect, ControlInvariant, RegistrationInvariant, AgreementInvariant,
        PTL DEF Spec

\* When the worker has caught up the driver agrees with the HAL about who does
\* IO, and nobody who is idle is taken to read input: whatever the order of
\* the calls and the IO threads' tasks, the last one of a client decides.
THEOREM DoingIOFollowsHAL == Spec => []DoingIOTracksHAL
<1>1. TypeOK /\ Agreement /\ QueueTracksHAL => DoingIOTracksHAL
  <2> SUFFICES ASSUME TypeOK, Agreement, QueueTracksHAL, tasks = <<>>, theTask = NoTask,
                      NEW id \in Registered
               PROVE  /\ hal[id] = "io" => clients[id].mDoingIO
                      /\ hal[id] = "idle" => ~clients[id].mDoingIO /\ ~clients[id].mDoingInputIO
    BY DEF DoingIOTracksHAL
  <2>1. id \in ClientIDs /\ clients[id] # Absent
    BY DEF Registered
  <2>2. \A doingIO : EndsUp(tasks, id, clients[id].mDoingIO, doingIO) =>
                       (clients[id].mDoingIO <=> doingIO)
    BY DEF EndsUp
  <2>3. clients[id].mDoingInputIO => clients[id].mDoingIO
    BY <2>1 DEF Agreement, Flags, Inputs, InHand
  <2> QED BY <2>1, <2>2, <2>3 DEF QueueTracksHAL
<1> QED BY <1>1, TypeCorrect, AgreementInvariant, QueueInvariant, PTL

-----------------------------------------------------------------------------
(* The music player.                                                        *)

\* At every step of every call, and not only between calls, the flags are
\* those that the two properties ask for.
PlayerFlags ==
    /\ Unset \in {mMusicPlayerProcessIDProperty, mMusicPlayerBundleIDProperty}
    /\ \A id \in ClientIDs : clients[id] # Absent =>
         (clients[id].mIsMusicPlayer <=> MatchesMusicPlayer(id))

\* A client is flagged exactly if it matches a property, in whatever order
\* clients came and went, did IO and the properties were set.
THEOREM MusicPlayerIsFlagged == Spec => []MusicPlayerFlagged
<1>1. Init => PlayerFlags
  BY DEF Init, PlayerFlags, NoClients
<1>2. TypeOK /\ PlayerFlags /\ [Next]_vars => PlayerFlags'
  <2> SUFFICES ASSUME TypeOK, PlayerFlags, [Next]_vars PROVE PlayerFlags'
    OBVIOUS
  <2> USE DEF counters, hostVars, playerVars, auxVars
  <2>1. ASSUME UNCHANGED playerVars, NEW i \in ClientIDs, NEW c,
               clients' = [clients EXCEPT ![i] = c],
               c # Absent => (c.mIsMusicPlayer <=> MatchesMusicPlayer(i))
        PROVE  PlayerFlags'
    BY <2>1 DEF PlayerFlags, MatchesMusicPlayer, TypeOK, ClientMaps
  <2>2. ASSUME UNCHANGED <<clients, playerVars>> PROVE PlayerFlags'
    BY <2>2 DEF PlayerFlags, MatchesMusicPlayer
  <2>3. ASSUME NEW id \in ClientIDs, AddClient(id) PROVE PlayerFlags'
    <3> DEFINE b == MatchesMusicPlayer(id)
    <3>1. b \in BOOLEAN
      BY DEF MatchesMusicPlayer
    <3>2. Registry!AddClient(id, b)
      BY <2>3 DEF AddClient
    <3> HIDE DEF b
    <3>3. clients' = [clients EXCEPT ![id] = NewClient(b)]
      BY <3>1, <3>2, RegistryStep DEF TypeOK
    <3>4. NewClient(b).mIsMusicPlayer = b
      BY DEF NewClient
    <3> QED BY <2>1, <2>3, <3>3, <3>4 DEF AddClient, b
  <2>4. ASSUME NEW id \in ClientIDs, RemoveClient(id) PROVE PlayerFlags'
    <3>1. clients' = [clients EXCEPT ![id] = Absent]
      BY <2>4, RegistryStep DEF RemoveClient, TypeOK
    <3> QED BY <2>1, <2>4, <3>1 DEF RemoveClient
  <2>5. ASSUME NEW p \in PlayerPIDs, SetMusicPlayerPID(p) PROVE PlayerFlags'
    <3>1. CASE mMusicPlayerProcessIDProperty = p
      BY <2>2, <2>5, <3>1 DEF SetMusicPlayerPID
    <3>2. CASE mMusicPlayerProcessIDProperty # p
      <4>1. /\ mMusicPlayerProcessIDProperty' = p /\ mMusicPlayerBundleIDProperty' = Unset
            /\ Registry!UpdateMusicPlayerFlags({id \in ClientIDs : PIDOf[id] = p})
        BY <2>5, <3>2 DEF SetMusicPlayerPID
      <4> QED BY <4>1, FlagStep, ClientsModelAssumption DEF PlayerFlags, MatchesMusicPlayer, TypeOK
    <3> QED BY <3>1, <3>2
  <2>6. ASSUME NEW b \in PlayerBundles, SetMusicPlayerBundleID(b) PROVE PlayerFlags'
    <3>1. CASE mMusicPlayerBundleIDProperty = b
      BY <2>2, <2>6, <3>1 DEF SetMusicPlayerBundleID
    <3>2. CASE mMusicPlayerBundleIDProperty # b
      <4>1. /\ mMusicPlayerBundleIDProperty' = b /\ mMusicPlayerProcessIDProperty' = Unset
            /\ Registry!UpdateMusicPlayerFlags({id \in ClientIDs : BundleOf[id] = b})
        BY <2>6, <3>2 DEF SetMusicPlayerBundleID
      <4>2. \A id \in ClientIDs : PIDOf[id] # Unset
        BY ClientsAssumption, ClientsModelAssumption
      <4> QED BY <4>1, <4>2, FlagStep DEF PlayerFlags, MatchesMusicPlayer, TypeOK
    <3> QED BY <3>1, <3>2
  <2>7. ASSUME BeginTask PROVE PlayerFlags'
    <3>1. PICK c \in Client :
            /\ clients' = [clients EXCEPT ![theTask'.id] = c]
            /\ c.mIsMusicPlayer = clients[theTask'.id].mIsMusicPlayer
      BY <2>7, BeginStep DEF TasksInHand, TaskKinds, WithDoingIO, WithInputIO, Client
    <3>2. theTask'.id \in ClientIDs /\ clients[theTask'.id] # Absent
      BY <2>7, BeginStep, ClientsAssumption DEF TasksInHand
    <3> QED BY <2>1, <2>7, <3>1, <3>2 DEF BeginTask, PlayerFlags
  <2>8. ASSUME FinishStartIO \/ FinishStopIO \/ FinishStartInputIO PROVE PlayerFlags'
    BY <2>2, <2>8 DEF FinishStartIO, FinishStopIO, FinishStartInputIO, FinishTask
  <2>9. CASE UNCHANGED vars
    BY <2>2, <2>9 DEF vars
  <2>10. CASE FinishSetMusicPlayer \/ IgnoreTask \/ SendIORunningNotifications \/ IONext
    BY <2>2, <2>10 DEF FinishSetMusicPlayer, IgnoreTask, SendIORunningNotifications, IONext,
        BeginIOOperation, EndIOOperation, ReadInput
  <2>11. ASSUME NEW id \in ClientIDs,
                \/ FinishAddClient(id) \/ FinishRemoveClient(id)
                \/ StartIO(id) \/ StartIOReturns(id) \/ StartsWithoutStartIO(id)
                \/ StopIO(id) \/ StopIOReturns(id) \/ StopsWithoutStopIO(id)
         PROVE  PlayerFlags'
    BY <2>2, <2>11 DEF FinishAddClient, FinishRemoveClient, StartIO, StartIOReturns,
        StartsWithoutStartIO, StopIO, StopIOReturns, StopsWithoutStopIO
  <2> QED BY <2>3, <2>4, <2>5, <2>6, <2>7, <2>8, <2>9, <2>10, <2>11
        DEF Next, HALNext, WorkerNext
<1>3. PlayerFlags => MusicPlayerFlagged
  BY DEF PlayerFlags, MusicPlayerFlagged, Registered, MatchesMusicPlayer
<1> QED BY <1>1, <1>2, <1>3, TypeCorrect, PTL DEF Spec
=============================================================================
