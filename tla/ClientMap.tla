----------------------------- MODULE ClientMap -----------------------------
(***************************************************************************)
(* NovaLINK_ClientMap: the driver's clients, in maps that IO threads may   *)
(* read and that other threads update without making an IO thread wait.    *)
(*                                                                         *)
(* There are three maps (clients by client ID, pointers to clients by PID  *)
(* and by bundle ID) and a shadow of each.  An update holds mShadowMaps-   *)
(* Mutex, changes the shadow maps, has the real-time worker thread swap    *)
(* them with the main ones under mMapsMutex, and makes the same change to  *)
(* the maps that were swapped out.  Updates come from NovaLINK_Clients,    *)
(* whose mMutex is held around each of them, on two kinds of threads: HAL  *)
(* threads (AddClient, RemoveClient, SetMusicPlayer) and the non-real-time *)
(* worker (StartIO, StopIO, StartInputIO).                                 *)
(*                                                                         *)
(* A list of pointers is a set of client IDs: the three maps of a side are *)
(* always swapped together, so a pointer of one side leads to the client   *)
(* with that ID in the client map of the same side, and dangles when there *)
(* is none.                                                                *)
(***************************************************************************)
EXTENDS ClientRecords, FiniteSets

CONSTANTS
    HALThreads,     \* threads on which the HAL calls the driver
    NonRTWorker,    \* the non-real-time worker of NovaLINK_TaskQueue
    RTWorker,       \* the real-time worker
    IOThreads,      \* real-time threads of the HAL that do IO
    Nobody          \* no thread, and no client

Updaters == HALThreads \cup {NonRTWorker}
Readers == HALThreads \cup IOThreads

ASSUME ThreadsAssumption ==
    /\ NonRTWorker \notin HALThreads
    /\ Updaters \cap (IOThreads \cup {RTWorker}) = {}
    /\ RTWorker \notin IOThreads
    /\ Nobody \notin Updaters \cup IOThreads \cup {RTWorker} \cup ClientIDs

VARIABLES
    mClientMap, mClientMapShadow,                       \* client ID -> client
    mClientMapByPID, mClientMapByPIDShadow,             \* PID -> pointers
    mClientMapByBundleID, mClientMapByBundleIDShadow,   \* bundle ID -> pointers
    mPastClientMap,     \* bundle ID -> the last client added with it
    mMutex,             \* owner of the mutex of NovaLINK_Clients
    mShadowMapsMutex,   \* its owner
    mMapsMutex,         \* its owner
    pc,                 \* updater -> where it is in its update
    op,                 \* updater -> the update it makes
    answer              \* reader -> the answer to its last query

mainMaps == <<mClientMap, mClientMapByPID, mClientMapByBundleID>>
shadowMaps == <<mClientMapShadow, mClientMapByPIDShadow, mClientMapByBundleIDShadow>>
mutexes == <<mMutex, mShadowMapsMutex, mMapsMutex>>
vars == <<mainMaps, shadowMaps, mPastClientMap, mutexes, pc, op, answer>>

Pointers(keys) == [keys -> SUBSET ClientIDs]

IDOps == [kind : {"Add", "AddMusicPlayer", "Remove", "StartIO", "StopIO", "StartInputIO"},
          id : ClientIDs]
FlagOps == [kind : {"MusicPlayer"}, players : PlayerSets]
NoOp == [kind |-> "None"]
Ops == IDOps \cup FlagOps \cup {NoOp}

PCs == {"idle", "find", "lockShadow", "first", "queueSwap", "swap", "second",
        "unlockShadow", "unlock"}

TypeOK ==
    /\ mClientMap \in ClientMaps
    /\ mClientMapShadow \in ClientMaps
    /\ mClientMapByPID \in Pointers(PIDs)
    /\ mClientMapByPIDShadow \in Pointers(PIDs)
    /\ mClientMapByBundleID \in Pointers(Bundles)
    /\ mClientMapByBundleIDShadow \in Pointers(Bundles)
    /\ mPastClientMap \in [Bundles -> ClientIDs \cup {Nobody}]
    /\ mMutex \in Updaters \cup {Nobody}
    /\ mShadowMapsMutex \in Updaters \cup {Nobody}
    /\ mMapsMutex \in IOThreads \cup {RTWorker, Nobody}
    /\ pc \in [Updaters -> PCs]
    /\ op \in [Updaters -> Ops]
    /\ answer \in [Readers -> BOOLEAN]

Init ==
    /\ mClientMap = NoClients
    /\ mClientMapShadow = NoClients
    /\ mClientMapByPID = [p \in PIDs |-> {}]
    /\ mClientMapByPIDShadow = [p \in PIDs |-> {}]
    /\ mClientMapByBundleID = [b \in Bundles |-> {}]
    /\ mClientMapByBundleIDShadow = [b \in Bundles |-> {}]
    /\ mPastClientMap = [b \in Bundles |-> Nobody]
    /\ mMutex = Nobody
    /\ mShadowMapsMutex = Nobody
    /\ mMapsMutex = Nobody
    /\ pc = [t \in Updaters |-> "idle"]
    /\ op = [t \in Updaters |-> NoOp]
    /\ answer = [r \in Readers |-> FALSE]

Go(t, from, to) == pc[t] = from /\ pc' = [pc EXCEPT ![t] = to]

-----------------------------------------------------------------------------
(* The callers, in NovaLINK_Clients.                                        *)

HALOps ==
    [kind : {"Add", "AddMusicPlayer", "Remove"}, id : ClientIDs] \cup FlagOps
WorkerOps == [kind : {"StartIO", "StopIO", "StartInputIO"}, id : ClientIDs]

\* CAMutex::Locker theLocker(mMutex).  The non-real-time worker looks the
\* client up first.
LockClients(t) ==
    /\ mMutex = Nobody
    /\ mMutex' = t
    /\ Go(t, "idle", IF t = NonRTWorker THEN "find" ELSE "lockShadow")
    /\ \E o \in IF t = NonRTWorker THEN WorkerOps ELSE HALOps : op' = [op EXCEPT ![t] = o]
    /\ UNCHANGED <<mainMaps, shadowMaps, mPastClientMap, mShadowMapsMutex, mMapsMutex, answer>>

\* Whether NovaLINK_Clients goes on to update a client it found.
NeedsUpdate(o, m) ==
    CASE o.kind = "StartIO" -> ~m[o.id].mDoingIO
      [] o.kind = "StopIO" -> m[o.id].mDoingIO
      [] o.kind = "StartInputIO" -> ClientShouldMarkInputIO(m, o.id)

\* Mutant: the client is not looked up first.
FindClient_Trusting(t) ==
    /\ Go(t, "find", "lockShadow")
    /\ UNCHANGED <<mainMaps, shadowMaps, mPastClientMap, mutexes, op, answer>>

\* GetClientNonRT, which holds mShadowMapsMutex only while it reads.  A client
\* that is not there is an exception; one that is already in the wanted state
\* needs nothing.
FindClient(t) ==
    /\ mShadowMapsMutex = Nobody
    /\ Go(t, "find",
          IF mClientMapShadow[op[t].id] # Absent /\ NeedsUpdate(op[t], mClientMapShadow)
          THEN "lockShadow" ELSE "unlock")
    /\ UNCHANGED <<mainMaps, shadowMaps, mPastClientMap, mutexes, op, answer>>

UnlockClients(t) ==
    /\ Go(t, "unlock", "idle")
    /\ mMutex' = Nobody
    /\ op' = [op EXCEPT ![t] = NoOp]
    /\ UNCHANGED <<mainMaps, shadowMaps, mPastClientMap, mShadowMapsMutex, mMapsMutex, answer>>

-----------------------------------------------------------------------------
(* The update itself.                                                       *)

LockShadowMaps(t) ==
    /\ Go(t, "lockShadow", "first")
    /\ mShadowMapsMutex = Nobody
    /\ mShadowMapsMutex' = t
    /\ UNCHANGED <<mainMaps, shadowMaps, mPastClientMap, mMutex, mMapsMutex, op, answer>>

AddPointer(index, key, id) == [k \in DOMAIN index |-> IF k = key THEN index[k] \cup {id} ELSE index[k]]
EraseKey(index, key) == [k \in DOMAIN index |-> IF k = key THEN {} ELSE index[k]]

AddClientToShadowMaps(id, isMusicPlayer) ==
    /\ mClientMapShadow' = [mClientMapShadow EXCEPT ![id] = NewClient(isMusicPlayer)]
    /\ mClientMapByPIDShadow' = AddPointer(mClientMapByPIDShadow, PIDOf[id], id)
    /\ mClientMapByBundleIDShadow' = AddPointer(mClientMapByBundleIDShadow, BundleOf[id], id)
    /\ UNCHANGED mainMaps

\* Mutant: the list of the client's process is left alone.
EraseClient_KeepPID(id) ==
    /\ mClientMapShadow' = [mClientMapShadow EXCEPT ![id] = Absent]
    /\ mClientMapByBundleID' = EraseKey(mClientMapByBundleID, BundleOf[id])
    /\ UNCHANGED <<mClientMap, mClientMapByPID, mClientMapByPIDShadow, mClientMapByBundleIDShadow>>

\* The bundle ID is erased from the main map, not from its shadow.
EraseClient(id) ==
    /\ mClientMapShadow' = [mClientMapShadow EXCEPT ![id] = Absent]
    /\ mClientMapByPIDShadow' = EraseKey(mClientMapByPIDShadow, PIDOf[id])
    /\ mClientMapByBundleID' = EraseKey(mClientMapByBundleID, BundleOf[id])
    /\ UNCHANGED <<mClientMap, mClientMapByPID, mClientMapByBundleIDShadow>>

\* The three updates of the flags.
NewFlags(o, m) ==
    CASE o.kind = "MusicPlayer" -> WithMusicPlayers(m, o.players)
      [] o.kind = "StartIO" -> [m EXCEPT ![o.id] = WithDoingIO(AtOrNew(m, o.id), TRUE)]
      [] o.kind = "StopIO" -> [m EXCEPT ![o.id] = WithDoingIO(AtOrNew(m, o.id), FALSE)]
      [] o.kind = "StartInputIO" -> [m EXCEPT ![o.id] = WithInputIO(AtOrNew(m, o.id))]

\* The change that op[t] stands for, to whichever maps are the shadow maps.
ChangeMaps(o) ==
    \/ o.kind = "Add" /\ AddClientToShadowMaps(o.id, FALSE)
    \/ o.kind = "AddMusicPlayer" /\ AddClientToShadowMaps(o.id, TRUE)
    \/ o.kind = "Remove" /\ EraseClient(o.id)
    \/ /\ o.kind \notin {"Add", "AddMusicPlayer", "Remove"}
       /\ mClientMapShadow' = NewFlags(o, mClientMapShadow)
       /\ UNCHANGED <<mainMaps, mClientMapByPIDShadow, mClientMapByBundleIDShadow>>

\* A client ID that is already in use, or one to be removed that was never
\* added: NovaLINK_InvalidClientException, thrown before anything is changed.
InvalidClient(o) ==
    \/ o.kind \in {"Add", "AddMusicPlayer"} /\ mClientMapShadow[o.id] # Absent
    \/ o.kind = "Remove" /\ mClientMapShadow[o.id] = Absent

\* Mutant: the exception leaves the shadow maps mutex locked.
ThrowInvalidClient_Locked(t) ==
    /\ Go(t, "first", "unlock")
    /\ InvalidClient(op[t])
    /\ UNCHANGED <<mainMaps, shadowMaps, mPastClientMap, mutexes, op, answer>>

ThrowInvalidClient(t) ==
    /\ Go(t, "first", "unlockShadow")
    /\ InvalidClient(op[t])
    /\ UNCHANGED <<mainMaps, shadowMaps, mPastClientMap, mutexes, op, answer>>

FirstChange(t) ==
    /\ Go(t, "first", "queueSwap")
    /\ ~InvalidClient(op[t])
    /\ ChangeMaps(op[t])
    /\ UNCHANGED <<mPastClientMap, mutexes, op, answer>>

\* QueueSync_SwapClientShadowMaps; its thread then waits for the worker.
SwapInShadowMaps(t) ==
    /\ Go(t, "queueSwap", "swap")
    /\ UNCHANGED <<mainMaps, shadowMaps, mPastClientMap, mutexes, op, answer>>

\* Mutant: the maps that were swapped out are not brought up to date.
SecondChange_Skipped(t) ==
    /\ Go(t, "second", "unlockShadow")
    /\ UNCHANGED <<mainMaps, shadowMaps, mPastClientMap, mutexes, op, answer>>

\* The same change again.  AddClient then records the client as a past one.
SecondChange(t) ==
    /\ Go(t, "second", "unlockShadow")
    /\ ChangeMaps(op[t])
    /\ mPastClientMap' =
         [b \in Bundles |->
            IF op[t].kind \in {"Add", "AddMusicPlayer"} /\ BundleOf[op[t].id] = b
            THEN op[t].id ELSE mPastClientMap[b]]
    /\ UNCHANGED <<mutexes, op, answer>>

UnlockShadowMaps(t) ==
    /\ Go(t, "unlockShadow", "unlock")
    /\ mShadowMapsMutex' = Nobody
    /\ UNCHANGED <<mainMaps, shadowMaps, mPastClientMap, mMutex, mMapsMutex, op, answer>>

UpdateStep(t) ==
    \/ FindClient(t)
    \/ LockShadowMaps(t)
    \/ ThrowInvalidClient(t)
    \/ FirstChange(t)
    \/ SwapInShadowMaps(t)
    \/ SecondChange(t)
    \/ UnlockShadowMaps(t)
    \/ UnlockClients(t)

-----------------------------------------------------------------------------
(* The real-time worker, in SwapInShadowMapsRT.                             *)

LockMapsRT ==
    /\ \E t \in Updaters : pc[t] = "swap"
    /\ mMapsMutex = Nobody
    /\ mMapsMutex' = RTWorker
    /\ UNCHANGED <<mainMaps, shadowMaps, mPastClientMap, mMutex, mShadowMapsMutex, pc, op, answer>>

\* The maps are swapped and the thread that queued the swap is let go.
SwapInShadowMapsRT(t) ==
    /\ mMapsMutex = RTWorker
    /\ Go(t, "swap", "second")
    /\ mMapsMutex' = Nobody
    /\ mClientMap' = mClientMapShadow /\ mClientMapShadow' = mClientMap
    /\ mClientMapByPID' = mClientMapByPIDShadow /\ mClientMapByPIDShadow' = mClientMapByPID
    /\ mClientMapByBundleID' = mClientMapByBundleIDShadow
    /\ mClientMapByBundleIDShadow' = mClientMapByBundleID
    /\ UNCHANGED <<mPastClientMap, mMutex, mShadowMapsMutex, op, answer>>

-----------------------------------------------------------------------------
(* Queries.                                                                 *)

\* ClientShouldMarkInputIORT, IsPassthroughHostRT or IsMusicPlayerRT: an IO
\* thread locks mMapsMutex (GetClientRT) ...
LockMaps(r) ==
    /\ mMapsMutex = Nobody
    /\ mMapsMutex' = r
    /\ UNCHANGED <<mainMaps, shadowMaps, mPastClientMap, mMutex, mShadowMapsMutex, pc, op, answer>>

\* ... copies the client out of the main map and releases the mutex.
GetClientRT(r) ==
    /\ mMapsMutex = r
    /\ mMapsMutex' = Nobody
    /\ \E id \in ClientIDs :
         \E a \in {ClientShouldMarkInputIO(mClientMap, id),
                   KnownPassthroughHost(mClientMap, id),
                   IsMusicPlayer(mClientMap, id)} : answer' = [answer EXCEPT ![r] = a]
    /\ UNCHANGED <<mainMaps, shadowMaps, mPastClientMap, mMutex, mShadowMapsMutex, pc, op>>

\* IsPassthroughHostNonRT on a HAL thread (StartIO).  It takes only
\* mShadowMapsMutex, not the mutex of NovaLINK_Clients.
GetClientNonRT(t) ==
    /\ pc[t] = "idle"
    /\ mShadowMapsMutex = Nobody
    /\ \E id \in ClientIDs :
         answer' = [answer EXCEPT ![t] = KnownPassthroughHost(mClientMapShadow, id)]
    /\ UNCHANGED <<mainMaps, shadowMaps, mPastClientMap, mutexes, pc, op>>

Next ==
    \/ \E t \in Updaters : LockClients(t) \/ UpdateStep(t) \/ SwapInShadowMapsRT(t)
    \/ LockMapsRT
    \/ \E r \in IOThreads : LockMaps(r) \/ GetClientRT(r)
    \/ \E t \in HALThreads : GetClientNonRT(t)

\* A thread inside an update or a query goes on, and so does the worker once
\* it has the mutex.  The IO threads hold mMapsMutex for a moment of each IO
\* cycle, so the worker gets it sooner or later although they take it again.
Fairness ==
    /\ \A t \in Updaters : WF_vars(UpdateStep(t)) /\ WF_vars(SwapInShadowMapsRT(t))
    /\ SF_vars(LockMapsRT)
    /\ \A r \in IOThreads : WF_vars(GetClientRT(r))

Spec == Init /\ [][Next]_vars /\ Fairness

-----------------------------------------------------------------------------
(* Correctness.                                                             *)

\* The shadow maps mutex is "not released until the maps have been made
\* identical to their shadow maps": whoever takes it next may read the shadow
\* maps for the main ones, or change them and swap.
MapsIdentical ==
    mShadowMapsMutex = Nobody =>
      /\ mClientMap = mClientMapShadow
      /\ mClientMapByPID = mClientMapByPIDShadow
      /\ mClientMapByBundleID = mClientMapByBundleIDShadow

\* A pointer found in an index leads to a client that is in the map and has
\* that PID or bundle ID.  The PID index of the main maps, which mMapsMutex
\* protects, is never allowed to dangle; the other maps are private to
\* whoever holds mShadowMapsMutex.
NoDanglingPointers ==
    LET Sound(map, index, keyOf) ==
          \A k \in DOMAIN index : \A id \in index[k] : map[id] # Absent /\ keyOf[id] = k
    IN  /\ Sound(mClientMap, mClientMapByPID, PIDOf)
        /\ mShadowMapsMutex = Nobody =>
             /\ Sound(mClientMapShadow, mClientMapByPIDShadow, PIDOf)
             /\ Sound(mClientMap, mClientMapByBundleID, BundleOf)
             /\ Sound(mClientMapShadow, mClientMapByBundleIDShadow, BundleOf)

\* A swap is only done for a thread that holds the shadow maps mutex (the
\* assertions of SwapInShadowMapsRT), so a thread that waits for a swap never
\* has its shadow maps swapped, or changed, for somebody else.
SwapsExclusive ==
    \A t \in Updaters : pc[t] \in {"first", "queueSwap", "swap", "second"} =>
        mShadowMapsMutex = t /\ mMutex = t

\* Whoever starts an update finishes it, whatever the IO threads do.
UpdatesComplete == \A t \in Updaters : mMutex = t ~> mMutex # t

\* To every reader the six maps behave as one that is updated in single steps.
Registry == INSTANCE ClientRegistry WITH clients <- mClientMap
ActsAsOneMap == Registry!RegistrySpec
=============================================================================
