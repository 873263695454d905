-------------------------- MODULE ClientMap_Proofs --------------------------
(***************************************************************************)
(* Proofs about ClientMap, for any number of clients, processes and        *)
(* threads.                                                                *)
(*                                                                         *)
(* The inductive invariant says where each update stands: which mutexes    *)
(* its thread holds, that it was fit to be made, and how far the main maps *)
(* and their shadows have come.                                            *)
(***************************************************************************)
EXTENDS ClientMap, TLAPS

Adds == {"Add", "AddMusicPlayer"}

\* What the update o makes of a client map, a PID index and a bundle ID index.
NewClients(o, m) ==
    CASE o.kind = "Add" -> [m EXCEPT ![o.id] = NewClient(FALSE)]
      [] o.kind = "AddMusicPlayer" -> [m EXCEPT ![o.id] = NewClient(TRUE)]
      [] o.kind = "Remove" -> [m EXCEPT ![o.id] = Absent]
      [] OTHER -> NewFlags(o, m)

NewIndex(o, index, keyOf) ==
    CASE o.kind \in Adds -> AddPointer(index, keyOf[o.id], o.id)
      [] o.kind = "Remove" -> EraseKey(index, keyOf[o.id])
      [] OTHER -> index

\* The update may be made to the client map m: the client to be added is not
\* there, any other is, and its flags are to change.
Fit(o, m) ==
    /\ o.kind \in Adds => m[o.id] = Absent
    /\ o.kind \notin Adds \cup {"MusicPlayer"} => m[o.id] # Absent
    /\ o.kind \in {"StartIO", "StopIO", "StartInputIO"} => NeedsUpdate(o, m)

\* An updating thread has chosen its update, and the worker has its own kind.
Control ==
    /\ pc \in [Updaters -> PCs]
    /\ op \in [Updaters -> Ops]
    /\ \A t \in Updaters :
         /\ pc[t] # "idle" => op[t] \in IF t = NonRTWorker THEN WorkerOps ELSE HALOps
         /\ pc[t] = "find" => t = NonRTWorker

HoldsShadowMapsMutex == {"first", "queueSwap", "swap", "second", "unlockShadow"}

\* Which thread holds which mutex follows from where it is.
Locks ==
    \A t \in Updaters :
      /\ pc[t] # "idle" <=> mMutex = t
      /\ pc[t] \in HoldsShadowMapsMutex <=> mShadowMapsMutex = t

Identical ==
    /\ mClientMap = mClientMapShadow
    /\ mClientMapByPID = mClientMapByPIDShadow
    /\ mClientMapByBundleID = mClientMapByBundleIDShadow

\* The first change was made: to the shadow maps, except that the bundle ID of
\* a removed client was erased from the main map.
FirstChangeMade(o) ==
    /\ Fit(o, mClientMap)
    /\ mClientMapShadow = NewClients(o, mClientMap)
    /\ mClientMapByPIDShadow = NewIndex(o, mClientMapByPID, PIDOf)
    /\ IF o.kind = "Remove"
       THEN mClientMapByBundleID = NewIndex(o, mClientMapByBundleIDShadow, BundleOf)
       ELSE mClientMapByBundleIDShadow = NewIndex(o, mClientMapByBundleID, BundleOf)

\* The same after the swap.
SwapMade(o) ==
    /\ mClientMap = NewClients(o, mClientMapShadow)
    /\ mClientMapByPID = NewIndex(o, mClientMapByPIDShadow, PIDOf)
    /\ IF o.kind = "Remove"
       THEN mClientMapByBundleIDShadow = NewIndex(o, mClientMapByBundleID, BundleOf)
       ELSE mClientMapByBundleID = NewIndex(o, mClientMapByBundleIDShadow, BundleOf)

Progress ==
    /\ mShadowMapsMutex = Nobody => Identical
    /\ \A t \in Updaters :
         /\ pc[t] \in {"first", "unlockShadow"} => Identical
         /\ pc[t] \in {"queueSwap", "swap"} => FirstChangeMade(op[t])
         /\ pc[t] = "second" => SwapMade(op[t])
         /\ (pc[t] \in {"lockShadow", "first"} /\ t = NonRTWorker) => Fit(op[t], mClientMap)


-----------------------------------------------------------------------------
(* What a change makes of the maps.                                         *)

RealOps == HALOps \cup WorkerOps

LEMMA OpKinds ==
    ASSUME NEW o \in RealOps
    PROVE  /\ o.kind \in {"Add", "AddMusicPlayer", "Remove", "StartIO", "StopIO",
                          "StartInputIO", "MusicPlayer"}
           /\ o.kind # "MusicPlayer" => o.id \in ClientIDs
           /\ o \in Ops
    BY DEF RealOps, HALOps, WorkerOps, FlagOps, IDOps, Ops

LEMMA FlagTypes ==
    ASSUME NEW c \in Client, NEW b \in BOOLEAN
    PROVE  /\ WithDoingIO(c, b) \in Client
           /\ WithInputIO(c) \in Client
           /\ NewClient(b) \in Client
           /\ [c EXCEPT !.mIsMusicPlayer = b] \in Client
    BY DEF Client, WithDoingIO, WithInputIO, NewClient

LEMMA NewClientsType ==
    ASSUME NEW o \in RealOps, NEW m \in ClientMaps
    PROVE  NewClients(o, m) \in ClientMaps
<1>1. CASE o.kind = "MusicPlayer"
  <2>1. NewClients(o, m) = WithMusicPlayers(m, o.players)
    BY <1>1 DEF NewClients, NewFlags
  <2>2. ASSUME NEW id \in ClientIDs, m[id] # Absent
        PROVE  [m[id] EXCEPT !.mIsMusicPlayer = id \in o.players] \in Client
    <3>1. m[id] \in Client
      BY <2>2 DEF ClientMaps
    <3> DEFINE flagged == id \in o.players
    <3>2. flagged \in BOOLEAN
      OBVIOUS
    <3> HIDE DEF flagged
    <3>3. [m[id] EXCEPT !.mIsMusicPlayer = flagged] \in Client
      BY <3>1, <3>2, FlagTypes
    <3> QED BY <3>3 DEF flagged
  <2> QED BY <2>1, <2>2 DEF WithMusicPlayers, ClientMaps
<1>2. CASE o.kind \in {"Add", "AddMusicPlayer", "Remove"}
  <2>1. NewClient(FALSE) \in Client /\ NewClient(TRUE) \in Client
    BY DEF Client, NewClient
  <2> QED BY <1>2, <2>1, OpKinds DEF NewClients, ClientMaps
<1>3. CASE o.kind \in {"StartIO", "StopIO", "StartInputIO"}
  <2>1. o.id \in ClientIDs
    BY <1>3, OpKinds
  <2>2. AtOrNew(m, o.id) \in Client
    BY <2>1 DEF AtOrNew, ClientMaps, NewClient, Client
  <2>3. /\ WithDoingIO(AtOrNew(m, o.id), TRUE) \in Client
        /\ WithDoingIO(AtOrNew(m, o.id), FALSE) \in Client
        /\ WithInputIO(AtOrNew(m, o.id)) \in Client
    BY <2>2, FlagTypes
  <2> QED BY <1>3, <2>1, <2>3 DEF NewClients, NewFlags, ClientMaps
<1> QED BY <1>1, <1>2, <1>3, OpKinds

LEMMA NewIndexType ==
    ASSUME NEW o \in RealOps, NEW keys, NEW index \in Pointers(keys), NEW keyOf
    PROVE  NewIndex(o, index, keyOf) \in Pointers(keys)
<1>1. CASE o.kind \in Adds
  BY <1>1, OpKinds DEF NewIndex, AddPointer, Pointers, Adds
<1>2. CASE o.kind \notin Adds
  BY <1>2 DEF NewIndex, EraseKey, Pointers
<1> QED BY <1>1, <1>2

LEMMA ChangeMade ==
    ASSUME NEW o \in RealOps, ChangeMaps(o),
           mClientMapByPIDShadow \in Pointers(PIDs),
           mClientMapByBundleID \in Pointers(Bundles),
           mClientMapByBundleIDShadow \in Pointers(Bundles)
    PROVE  /\ mClientMapShadow' = NewClients(o, mClientMapShadow)
           /\ mClientMapByPIDShadow' = NewIndex(o, mClientMapByPIDShadow, PIDOf)
           /\ UNCHANGED <<mClientMap, mClientMapByPID>>
           /\ IF o.kind = "Remove"
              THEN /\ mClientMapByBundleID' = NewIndex(o, mClientMapByBundleID, BundleOf)
                   /\ UNCHANGED mClientMapByBundleIDShadow
              ELSE /\ mClientMapByBundleIDShadow'
                        = NewIndex(o, mClientMapByBundleIDShadow, BundleOf)
                   /\ UNCHANGED mClientMapByBundleID
<1>1. CASE o.kind \in Adds
  BY <1>1 DEF ChangeMaps, AddClientToShadowMaps, NewClients, NewIndex, Adds, mainMaps
<1>2. CASE o.kind = "Remove"
  BY <1>2 DEF ChangeMaps, EraseClient, NewClients, NewIndex, Adds
<1>3. CASE o.kind \notin {"Add", "AddMusicPlayer", "Remove"}
  BY <1>3 DEF ChangeMaps, NewClients, NewIndex, Adds, mainMaps
<1> QED BY <1>1, <1>2, <1>3 DEF Adds

-----------------------------------------------------------------------------
(* The invariant, one part after the other.                                 *)

LEMMA ControlInvariant == Spec => []Control
<1>1. Init => Control
  BY DEF Init, Control, PCs, NoOp, Ops
<1>2. Control /\ [Next]_vars => Control'
  <2> SUFFICES ASSUME Control, [Next]_vars PROVE Control'
    OBVIOUS
  <2>1. CASE UNCHANGED vars
    BY <2>1 DEF Control, vars
  <2>2. ASSUME NEW t \in Updaters, LockClients(t) PROVE Control'
    <3>1. PICK o \in IF t = NonRTWorker THEN WorkerOps ELSE HALOps : op' = [op EXCEPT ![t] = o]
      BY <2>2 DEF LockClients
    <3>2. o \in Ops
      BY OpKinds DEF RealOps
    <3>3. /\ pc' = [pc EXCEPT ![t] = IF t = NonRTWorker THEN "find" ELSE "lockShadow"]
      BY <2>2 DEF LockClients, Go
    <3> QED BY <3>1, <3>2, <3>3 DEF Control, PCs
  <2>3. ASSUME NEW t \in Updaters, UpdateStep(t) PROVE Control'
    <3>1. CASE UnlockClients(t)
      BY <3>1 DEF UnlockClients, Go, Control, PCs, NoOp, Ops
    <3>2. CASE ~UnlockClients(t)
      <4>1. \E to \in PCs \ {"idle", "find"} : pc[t] # "idle" /\ pc' = [pc EXCEPT ![t] = to]
        BY <2>3, <3>2 DEF UpdateStep, FindClient, LockShadowMaps, ThrowInvalidClient,
            FirstChange, SwapInShadowMaps, SecondChange, UnlockShadowMaps, Go, PCs
      <4>2. UNCHANGED op
        BY <2>3, <3>2 DEF UpdateStep, FindClient, LockShadowMaps, ThrowInvalidClient,
            FirstChange, SwapInShadowMaps, SecondChange, UnlockShadowMaps
      <4> QED BY <4>1, <4>2 DEF Control
    <3> QED BY <3>1, <3>2
  <2>4. ASSUME NEW t \in Updaters, SwapInShadowMapsRT(t) PROVE Control'
    BY <2>4 DEF SwapInShadowMapsRT, Go, Control, PCs
  <2>5. ASSUME LockMapsRT PROVE Control'
    BY <2>5 DEF LockMapsRT, Control
  <2>6. ASSUME NEW r \in IOThreads, LockMaps(r) \/ GetClientRT(r) PROVE Control'
    BY <2>6 DEF LockMaps, GetClientRT, Control
  <2>7. ASSUME NEW t \in HALThreads, GetClientNonRT(t) PROVE Control'
    BY <2>7 DEF GetClientNonRT, Control
  <2> QED BY <2>1, <2>2, <2>3, <2>4, <2>5, <2>6, <2>7 DEF Next
<1> QED BY <1>1, <1>2, PTL DEF Spec

\* Every variable keeps its type: an update never leaves a client, an index or
\* a mutex in a state that is none.
THEOREM TypeCorrect == Spec => []TypeOK
<1>1. Init => TypeOK
  BY DEF Init, TypeOK, ClientMaps, NoClients, Pointers, PCs, NoOp, Ops
<1>2. TypeOK /\ Control /\ Control' /\ [Next]_vars => TypeOK'
  <2> SUFFICES ASSUME TypeOK, Control, Control', [Next]_vars PROVE TypeOK'
    OBVIOUS
  <2>1. CASE UNCHANGED vars
    BY <2>1 DEF TypeOK, vars, mainMaps, shadowMaps, mutexes
  <2>2. ASSUME NEW t \in Updaters, LockClients(t) PROVE TypeOK'
    BY <2>2 DEF LockClients, Control, TypeOK, mainMaps, shadowMaps
  <2>3. ASSUME NEW t \in Updaters, UpdateStep(t) PROVE TypeOK'
    <3>1. CASE FirstChange(t) \/ SecondChange(t)
      <4>1. op[t] \in RealOps
        BY <3>1 DEF FirstChange, SecondChange, Go, Control, RealOps
      <4>2. ChangeMaps(op[t]) /\ UNCHANGED <<mutexes, answer>>
        BY <3>1 DEF FirstChange, SecondChange
      <4>3. /\ mClientMapShadow' \in ClientMaps
            /\ mClientMapByPIDShadow' \in Pointers(PIDs)
            /\ mClientMapByBundleID' \in Pointers(Bundles)
            /\ mClientMapByBundleIDShadow' \in Pointers(Bundles)
            /\ UNCHANGED <<mClientMap, mClientMapByPID>>
        BY <4>1, <4>2, ChangeMade, NewClientsType, NewIndexType DEF TypeOK
      <4>4. mPastClientMap' \in [Bundles -> ClientIDs \cup {Nobody}]
        <5>1. CASE FirstChange(t)
          BY <5>1 DEF FirstChange, TypeOK
        <5>2. CASE SecondChange(t)
          BY <5>2, <4>1, OpKinds DEF SecondChange, TypeOK
        <5> QED BY <3>1, <5>1, <5>2
      <4> QED BY <4>2, <4>3, <4>4 DEF Control, TypeOK, mutexes
    <3>2. CASE LockShadowMaps(t) \/ UnlockShadowMaps(t) \/ UnlockClients(t)
      BY <3>2 DEF LockShadowMaps, UnlockShadowMaps, UnlockClients, Control, TypeOK,
          mainMaps, shadowMaps
    <3>3. CASE FindClient(t) \/ ThrowInvalidClient(t) \/ SwapInShadowMaps(t)
      BY <3>3 DEF FindClient, ThrowInvalidClient, SwapInShadowMaps, Control, TypeOK,
          mainMaps, shadowMaps, mutexes
    <3> QED BY <2>3, <3>1, <3>2, <3>3 DEF UpdateStep
  <2>4. ASSUME NEW t \in Updaters, SwapInShadowMapsRT(t) PROVE TypeOK'
    BY <2>4 DEF SwapInShadowMapsRT, Control, TypeOK
  <2>5. ASSUME LockMapsRT PROVE TypeOK'
    BY <2>5 DEF LockMapsRT, TypeOK, mainMaps, shadowMaps
  <2>6. ASSUME NEW r \in IOThreads, LockMaps(r) \/ GetClientRT(r) PROVE TypeOK'
    <3>1. CASE LockMaps(r)
      BY <3>1 DEF LockMaps, TypeOK, mainMaps, shadowMaps
    <3>2. CASE GetClientRT(r)
      <4>1. \E a \in BOOLEAN : answer' = [answer EXCEPT ![r] = a]
        BY <3>2 DEF GetClientRT, ClientShouldMarkInputIO, KnownPassthroughHost, IsMusicPlayer
      <4> QED BY <3>2, <4>1 DEF GetClientRT, TypeOK, mainMaps, shadowMaps
    <3> QED BY <2>6, <3>1, <3>2
  <2>7. ASSUME NEW t \in HALThreads, GetClientNonRT(t) PROVE TypeOK'
    <3>1. \E a \in BOOLEAN : answer' = [answer EXCEPT ![t] = a]
      BY <2>7 DEF GetClientNonRT, KnownPassthroughHost
    <3> QED BY <2>7, <3>1 DEF GetClientNonRT, TypeOK, mainMaps, shadowMaps, mutexes
  <2> QED BY <2>1, <2>2, <2>3, <2>4, <2>5, <2>6, <2>7 DEF Next
<1> QED BY <1>1, <1>2, ControlInvariant, PTL DEF Spec

LEMMA LocksInvariant == Spec => []Locks
<1>1. Init => Locks
  BY ThreadsAssumption DEF Init, Locks, HoldsShadowMapsMutex
<1>2. TypeOK /\ Control /\ Locks /\ [Next]_vars => Locks'
  <2> SUFFICES ASSUME TypeOK, Control, Locks, [Next]_vars PROVE Locks'
    OBVIOUS
  <2> USE DEF HoldsShadowMapsMutex
  <2>1. CASE UNCHANGED vars
    BY <2>1 DEF Locks, vars, mutexes
  <2>2. ASSUME NEW t \in Updaters, LockClients(t) PROVE Locks'
    BY <2>2, ThreadsAssumption DEF LockClients, Go, Locks, TypeOK
  <2>3. ASSUME NEW t \in Updaters, UpdateStep(t) PROVE Locks'
    <3>1. CASE LockShadowMaps(t) \/ UnlockShadowMaps(t) \/ UnlockClients(t)
      BY <3>1, ThreadsAssumption DEF LockShadowMaps, UnlockShadowMaps, UnlockClients, Go,
          Locks, TypeOK
    <3>2. CASE FindClient(t) \/ ThrowInvalidClient(t) \/ SwapInShadowMaps(t)
      BY <3>2 DEF FindClient, ThrowInvalidClient, SwapInShadowMaps, Go, Locks, TypeOK, mutexes
    <3>3. CASE FirstChange(t) \/ SecondChange(t)
      BY <3>3 DEF FirstChange, SecondChange, Go, Locks, TypeOK, mutexes
    <3> QED BY <2>3, <3>1, <3>2, <3>3 DEF UpdateStep
  <2>4. ASSUME NEW t \in Updaters, SwapInShadowMapsRT(t) PROVE Locks'
    BY <2>4 DEF SwapInShadowMapsRT, Go, Locks, TypeOK
  <2>5. ASSUME LockMapsRT PROVE Locks'
    BY <2>5 DEF LockMapsRT, Locks
  <2>6. ASSUME NEW r \in IOThreads, LockMaps(r) \/ GetClientRT(r) PROVE Locks'
    BY <2>6 DEF LockMaps, GetClientRT, Locks
  <2>7. ASSUME NEW t \in HALThreads, GetClientNonRT(t) PROVE Locks'
    BY <2>7 DEF GetClientNonRT, Locks, mutexes
  <2> QED BY <2>1, <2>2, <2>3, <2>4, <2>5, <2>6, <2>7 DEF Next
<1> QED BY <1>1, <1>2, TypeCorrect, ControlInvariant, PTL DEF Spec

\* Whoever changes the maps, or waits for the real-time worker to swap them,
\* holds both mutexes, so the swap is never made under another update.
THEOREM SwapsAreExclusive == Spec => []SwapsExclusive
<1>1. Locks => SwapsExclusive
  BY DEF Locks, SwapsExclusive, HoldsShadowMapsMutex
<1> QED BY <1>1, LocksInvariant, PTL

\* mMutex lets one update be under way at a time.
LEMMA OneUpdate ==
    ASSUME Locks, NEW t \in Updaters, pc[t] # "idle", NEW u \in Updaters, u # t
    PROVE  pc[u] = "idle"
    BY DEF Locks

\* An update that is not refused is fit to be made.
LEMMA FirstChangeFit ==
    ASSUME Control, Progress, NEW t \in Updaters, FirstChange(t)
    PROVE  Fit(op[t], mClientMap)
<1>1. pc[t] = "first" /\ Identical
  BY DEF FirstChange, Go, Progress
<1>2. CASE t = NonRTWorker
  BY <1>1, <1>2 DEF Progress
<1>3. CASE t # NonRTWorker
  <2>1. op[t] \in HALOps
    BY <1>1, <1>3 DEF Control
  <2> QED BY <1>1, <2>1 DEF FirstChange, InvalidClient, Fit, HALOps, FlagOps, Adds, Identical
<1> QED BY <1>2, <1>3

LEMMA ProgressInvariant == Spec => []Progress
<1>1. Init => Progress
  BY DEF Init, Progress, Identical, NoClients
<1>2. TypeOK /\ Control /\ Locks /\ Locks' /\ Progress /\ [Next]_vars => Progress'
  <2> SUFFICES ASSUME TypeOK, Control, Locks, Locks', Progress, [Next]_vars PROVE Progress'
    OBVIOUS
  <2> USE DEF HoldsShadowMapsMutex
  <2>1. ASSUME UNCHANGED <<mainMaps, shadowMaps>>, UNCHANGED <<pc, op, mShadowMapsMutex>>
        PROVE  Progress'
    BY <2>1 DEF Progress, Identical, FirstChangeMade, SwapMade, mainMaps, shadowMaps
  <2>2. ASSUME NEW t \in Updaters, LockClients(t) PROVE Progress'
    <3>1. \A u \in Updaters : pc[u] = "idle"
      BY <2>2, ThreadsAssumption DEF LockClients, Locks
    <3>2. /\ pc' = [pc EXCEPT ![t] = IF t = NonRTWorker THEN "find" ELSE "lockShadow"]
          /\ UNCHANGED <<mainMaps, shadowMaps, mShadowMapsMutex>>
      BY <2>2 DEF LockClients, Go
    <3> QED BY <3>1, <3>2 DEF Control, Progress, Identical, mainMaps, shadowMaps
  <2>3. ASSUME NEW t \in Updaters, UpdateStep(t) PROVE Progress'
    <3>1. pc[t] # "idle" /\ \A u \in Updaters : u # t => pc[u] = "idle"
      BY <2>3, OneUpdate DEF UpdateStep, FindClient, LockShadowMaps, ThrowInvalidClient,
          FirstChange, SwapInShadowMaps, SecondChange, UnlockShadowMaps, UnlockClients, Go
    <3>2. CASE FindClient(t)
      <4>1. pc[t] = "find" /\ t = NonRTWorker /\ op[t] \in WorkerOps
        BY <3>2 DEF FindClient, Go, Control
      <4>2. mClientMap = mClientMapShadow
        BY <3>2 DEF FindClient, Progress, Identical
      <4>3. pc'[t] = "lockShadow" => Fit(op[t], mClientMap)
        BY <3>2, <4>1, <4>2 DEF FindClient, Go, Control, Fit, WorkerOps, Adds
      <4>4. pc'[t] \in {"lockShadow", "unlock"} /\ \A u \in Updaters : u # t => pc'[u] = "idle"
        BY <3>1, <3>2 DEF FindClient, Go, Control
      <4>5. UNCHANGED <<mainMaps, shadowMaps, op, mShadowMapsMutex>>
        BY <3>2 DEF FindClient, mutexes
      <4>6. Fit(op[t], mClientMap) => Fit(op[t], mClientMap)'
        BY <4>5 DEF Fit, NeedsUpdate, ClientShouldMarkInputIO, mainMaps
      <4> QED BY <4>3, <4>4, <4>5, <4>6 DEF Progress, Identical, mainMaps, shadowMaps
    <3>3. CASE LockShadowMaps(t)
      BY <3>1, <3>3 DEF LockShadowMaps, Go, Control, Progress, Identical, mainMaps, shadowMaps
    <3>4. CASE ThrowInvalidClient(t)
      BY <3>1, <3>4 DEF ThrowInvalidClient, Go, Control, Progress, Identical, mainMaps,
          shadowMaps, mutexes
    <3>5. CASE FirstChange(t)
      <4>1. op[t] \in RealOps /\ ChangeMaps(op[t]) /\ pc[t] = "first" /\ Identical
        BY <3>5 DEF FirstChange, Go, Control, Progress, RealOps
      <4>2. Fit(op[t], mClientMap)
        BY <3>5, FirstChangeFit
      <4>3. FirstChangeMade(op[t])'
        BY <3>5, <4>1, <4>2, ChangeMade DEF FirstChange, FirstChangeMade, Identical, TypeOK
      <4>4. pc' = [pc EXCEPT ![t] = "queueSwap"] /\ UNCHANGED <<op, mShadowMapsMutex>>
        BY <3>5 DEF FirstChange, Go, mutexes
      <4>5. mShadowMapsMutex' # Nobody
        BY <4>1, <4>4, ThreadsAssumption DEF Locks
      <4> QED BY <3>1, <4>3, <4>4, <4>5 DEF Control, Progress
    <3>6. CASE SwapInShadowMaps(t)
      BY <3>1, <3>6 DEF SwapInShadowMaps, Go, Control, Progress, Identical, FirstChangeMade,
          mainMaps, shadowMaps, mutexes
    <3>7. CASE SecondChange(t)
      <4>1. op[t] \in RealOps /\ ChangeMaps(op[t]) /\ SwapMade(op[t])
        BY <3>7 DEF SecondChange, Go, Control, Progress, RealOps
      <4>2. Identical'
        BY <4>1, ChangeMade DEF SwapMade, Identical, TypeOK
      <4>3. pc' = [pc EXCEPT ![t] = "unlockShadow"]
        BY <3>7 DEF SecondChange, Go
      <4> QED BY <3>1, <4>2, <4>3 DEF Control, Progress
    <3>8. CASE UnlockShadowMaps(t)
      BY <3>1, <3>8 DEF UnlockShadowMaps, Go, Control, Progress, Identical, mainMaps, shadowMaps
    <3>9. CASE UnlockClients(t)
      BY <3>1, <3>9 DEF UnlockClients, Go, Control, Progress, Identical, mainMaps, shadowMaps
    <3> QED BY <2>3, <3>2, <3>3, <3>4, <3>5, <3>6, <3>7, <3>8, <3>9 DEF UpdateStep
  <2>4. ASSUME NEW t \in Updaters, SwapInShadowMapsRT(t) PROVE Progress'
    <3>1. pc[t] = "swap" /\ FirstChangeMade(op[t]) /\ \A u \in Updaters : u # t => pc[u] = "idle"
      BY <2>4, OneUpdate DEF SwapInShadowMapsRT, Go, Progress
    <3>2. SwapMade(op[t])'
      BY <2>4, <3>1 DEF SwapInShadowMapsRT, FirstChangeMade, SwapMade
    <3>3. pc' = [pc EXCEPT ![t] = "second"] /\ UNCHANGED <<op, mShadowMapsMutex>>
      BY <2>4 DEF SwapInShadowMapsRT, Go
    <3>4. mShadowMapsMutex' # Nobody
      BY <3>1, <3>3, ThreadsAssumption DEF Locks
    <3> QED BY <3>1, <3>2, <3>3, <3>4 DEF Control, Progress
  <2>5. ASSUME LockMapsRT PROVE Progress'
    BY <2>1, <2>5 DEF LockMapsRT
  <2>6. ASSUME NEW r \in IOThreads, LockMaps(r) \/ GetClientRT(r) PROVE Progress'
    BY <2>1, <2>6 DEF LockMaps, GetClientRT
  <2>7. ASSUME NEW t \in HALThreads, GetClientNonRT(t) PROVE Progress'
    BY <2>1, <2>7 DEF GetClientNonRT, mutexes
  <2>8. CASE UNCHANGED vars
    BY <2>1, <2>8 DEF vars, mutexes
  <2> QED BY <2>2, <2>3, <2>4, <2>5, <2>6, <2>7, <2>8 DEF Next
<1> QED BY <1>1, <1>2, TypeCorrect, ControlInvariant, LocksInvariant, PTL DEF Spec

\* Whenever the shadow maps mutex is free the main maps and their shadows are
\* the same, as the comment above the mutex says.
THEOREM MapsAreIdentical == Spec => []MapsIdentical
<1>1. Progress => MapsIdentical
  BY DEF Progress, Identical, MapsIdentical
<1> QED BY <1>1, ProgressInvariant, PTL

-----------------------------------------------------------------------------
(* Pointers.                                                                *)

\* Every pointer in index leads to a client of map that has that key.
Sound(map, index, keyOf) ==
    \A k \in DOMAIN index : \A id \in index[k] : map[id] # Absent /\ keyOf[id] = k

\* The bundle ID index that has had the change made to it, before the swap and
\* after it.
ChangedIndex(o) ==
    IF o.kind = "Remove" THEN mClientMapByBundleID ELSE mClientMapByBundleIDShadow
ChangedIndexSwapped(o) ==
    IF o.kind = "Remove" THEN mClientMapByBundleIDShadow ELSE mClientMapByBundleID

PointersSound ==
    /\ Sound(mClientMap, mClientMapByPID, PIDOf)
    /\ Sound(mClientMapShadow, mClientMapByPIDShadow, PIDOf)
    /\ mShadowMapsMutex = Nobody => Sound(mClientMap, mClientMapByBundleID, BundleOf)
    /\ \A t \in Updaters :
         /\ pc[t] \in {"first", "unlockShadow"} =>
              Sound(mClientMap, mClientMapByBundleID, BundleOf)
         /\ pc[t] \in {"queueSwap", "swap"} =>
              Sound(mClientMapShadow, ChangedIndex(op[t]), BundleOf)
         /\ pc[t] = "second" =>
              Sound(mClientMap, ChangedIndexSwapped(op[t]), BundleOf)

\* A fit change keeps an index sound.
LEMMA SoundChange ==
    ASSUME NEW o \in RealOps, NEW m \in ClientMaps, NEW keys, NEW index \in Pointers(keys),
           NEW keyOf, Fit(o, m), Sound(m, index, keyOf)
    PROVE  Sound(NewClients(o, m), NewIndex(o, index, keyOf), keyOf)
<1> SUFFICES ASSUME NEW k \in keys, NEW id \in NewIndex(o, index, keyOf)[k]
             PROVE  NewClients(o, m)[id] # Absent /\ keyOf[id] = k
  BY NewIndexType DEF Sound, Pointers
<1>1. NewClients(o, m) \in ClientMaps
  BY NewClientsType
<1>2. CASE o.kind \in Adds
  <2>1. NewClients(o, m)[o.id] # Absent
    <3>1. NewClient(FALSE) \in Client /\ NewClient(TRUE) \in Client
      BY DEF NewClient, Client
    <3>2. NewClient(FALSE) # Absent /\ NewClient(TRUE) # Absent
      BY <3>1, ClientsAssumption
    <3> QED BY <1>2, <3>2, OpKinds DEF NewClients, ClientMaps, Adds
  <2>2. id \in index[k] \/ (id = o.id /\ k = keyOf[o.id])
    BY <1>2 DEF NewIndex, AddPointer, Pointers, Adds
  <2>3. ASSUME id \in index[k], id # o.id PROVE NewClients(o, m)[id] = m[id]
    BY <1>2, <2>3 DEF NewClients, ClientMaps, Pointers, Adds
  <2> QED BY <2>1, <2>2, <2>3 DEF Sound, Pointers
<1>3. CASE o.kind = "Remove"
  <2>1. id \in index[k] /\ k # keyOf[o.id]
    BY <1>3 DEF NewIndex, EraseKey, Pointers, Adds
  <2>2. id # o.id /\ m[id] # Absent /\ keyOf[id] = k
    BY <2>1 DEF Sound, Pointers
  <2> QED BY <1>3, <2>1, <2>2 DEF NewClients, ClientMaps, Pointers
<1>4. CASE o.kind \notin Adds \cup {"Remove"}
  <2>1. id \in index[k] /\ m[id] # Absent /\ keyOf[id] = k /\ id \in ClientIDs
    BY <1>4 DEF NewIndex, Sound, Pointers
  <2>2. CASE o.kind = "MusicPlayer"
    <3> DEFINE flagged == id \in o.players
    <3>1. NewClients(o, m)[id] = [m[id] EXCEPT !.mIsMusicPlayer = flagged]
      BY <2>1, <2>2 DEF NewClients, NewFlags, WithMusicPlayers
    <3>2. m[id] \in Client /\ flagged \in BOOLEAN
      BY <2>1 DEF ClientMaps
    <3> HIDE DEF flagged
    <3> QED BY <2>1, <3>1, <3>2, FlagTypes, ClientsAssumption
  <2>3. CASE o.kind \in {"StartIO", "StopIO", "StartInputIO"}
    <3>1. m[o.id] \in Client /\ o.id \in ClientIDs
      BY <2>3, OpKinds DEF Fit, Adds, ClientMaps
    <3>2. NewClients(o, m) \in {[m EXCEPT ![o.id] = WithDoingIO(m[o.id], TRUE)],
                                [m EXCEPT ![o.id] = WithDoingIO(m[o.id], FALSE)],
                                [m EXCEPT ![o.id] = WithInputIO(m[o.id])]}
      BY <2>3, <3>1, ClientsAssumption DEF NewClients, NewFlags, AtOrNew
    <3>3. NewClients(o, m)[id] \in {m[id]} \cup Client
      BY <2>1, <3>1, <3>2, FlagTypes DEF ClientMaps
    <3> QED BY <2>1, <3>3, ClientsAssumption
  <2> QED BY <1>4, <2>2, <2>3, OpKinds DEF Adds
<1> QED BY <1>2, <1>3, <1>4

LEMMA PointersInvariant == Spec => []PointersSound
<1>1. Init => PointersSound
  BY DEF Init, PointersSound, Sound
<1>2. TypeOK /\ Control /\ Locks /\ Locks' /\ Progress /\ PointersSound /\ [Next]_vars
        => PointersSound'
  <2> SUFFICES ASSUME TypeOK, Control, Locks, Locks', Progress, PointersSound, [Next]_vars
               PROVE  PointersSound'
    OBVIOUS
  <2> USE DEF HoldsShadowMapsMutex
  <2>1. ASSUME UNCHANGED <<mainMaps, shadowMaps>>, UNCHANGED <<pc, op, mShadowMapsMutex>>
        PROVE  PointersSound'
    BY <2>1 DEF PointersSound, ChangedIndex, ChangedIndexSwapped, mainMaps, shadowMaps
  <2>2. ASSUME NEW t \in Updaters, LockClients(t) PROVE PointersSound'
    <3>1. \A u \in Updaters : pc[u] = "idle"
      BY <2>2, ThreadsAssumption DEF LockClients, Locks
    <3>2. /\ pc' = [pc EXCEPT ![t] = IF t = NonRTWorker THEN "find" ELSE "lockShadow"]
          /\ UNCHANGED <<mainMaps, shadowMaps, mShadowMapsMutex>>
      BY <2>2 DEF LockClients, Go
    <3> QED BY <3>1, <3>2 DEF Control, PointersSound, mainMaps, shadowMaps
  <2>3. ASSUME NEW t \in Updaters, UpdateStep(t) PROVE PointersSound'
    <3>1. pc[t] # "idle" /\ \A u \in Updaters : u # t => pc[u] = "idle"
      BY <2>3, OneUpdate DEF UpdateStep, FindClient, LockShadowMaps, ThrowInvalidClient,
          FirstChange, SwapInShadowMaps, SecondChange, UnlockShadowMaps, UnlockClients, Go
    <3>2. CASE FindClient(t) \/ LockShadowMaps(t) \/ ThrowInvalidClient(t)
               \/ UnlockShadowMaps(t) \/ UnlockClients(t)
      <4>1. /\ pc'[t] \in {"lockShadow", "unlock", "idle"}
                 \/ (pc'[t] \in {"first", "unlockShadow"} /\
                       (mShadowMapsMutex = Nobody \/ pc[t] = "first"))
            /\ \A u \in Updaters : u # t => pc'[u] = "idle"
        BY <3>1, <3>2 DEF FindClient, LockShadowMaps, ThrowInvalidClient, UnlockShadowMaps,
            UnlockClients, Go, Control
      <4>2. UNCHANGED <<mainMaps, shadowMaps>>
        BY <3>2 DEF FindClient, LockShadowMaps, ThrowInvalidClient, UnlockShadowMaps,
            UnlockClients
      <4>3. mShadowMapsMutex' = Nobody => mShadowMapsMutex = Nobody \/ pc[t] = "unlockShadow"
        BY <3>2, ThreadsAssumption DEF FindClient, LockShadowMaps, ThrowInvalidClient,
            UnlockShadowMaps, UnlockClients, Go, mutexes
      <4> QED BY <4>1, <4>2, <4>3 DEF PointersSound, mainMaps, shadowMaps
    <3>3. CASE FirstChange(t)
      <4>1. op[t] \in RealOps /\ ChangeMaps(op[t]) /\ pc[t] = "first" /\ Identical
        BY <3>3 DEF FirstChange, Go, Control, Progress, RealOps
      <4>2. pc' = [pc EXCEPT ![t] = "queueSwap"] /\ UNCHANGED <<op, mShadowMapsMutex>>
        BY <3>3 DEF FirstChange, Go, mutexes
      <4>3. Fit(op[t], mClientMap)
        BY <3>3, <4>1, FirstChangeFit
      <4>4. /\ UNCHANGED <<mClientMap, mClientMapByPID>>
            /\ mClientMapShadow' = NewClients(op[t], mClientMap)
            /\ mClientMapByPIDShadow' = NewIndex(op[t], mClientMapByPID, PIDOf)
            /\ ChangedIndex(op[t])' = NewIndex(op[t], mClientMapByBundleID, BundleOf)
        BY <4>1, <4>2, ChangeMade DEF Identical, TypeOK, ChangedIndex
      <4>5. /\ Sound(mClientMap, mClientMapByPID, PIDOf)
            /\ Sound(mClientMap, mClientMapByBundleID, BundleOf)
        BY <4>1 DEF PointersSound
      <4>6. /\ Sound(mClientMapShadow, mClientMapByPIDShadow, PIDOf)'
            /\ Sound(mClientMapShadow, ChangedIndex(op[t]), BundleOf)'
        BY <4>1, <4>2, <4>3, <4>4, <4>5, SoundChange DEF TypeOK
      <4>7. mShadowMapsMutex' # Nobody
        BY <4>1, <4>2, ThreadsAssumption DEF Locks
      <4> QED BY <3>1, <4>2, <4>4, <4>5, <4>6, <4>7 DEF Control, PointersSound
    <3>4. CASE SwapInShadowMaps(t)
      BY <3>1, <3>4 DEF SwapInShadowMaps, Go, Control, PointersSound, ChangedIndex, mainMaps,
          shadowMaps, mutexes
    <3>5. CASE SecondChange(t)
      <4>1. op[t] \in RealOps /\ ChangeMaps(op[t]) /\ SwapMade(op[t]) /\ pc[t] = "second"
        BY <3>5 DEF SecondChange, Go, Control, Progress, RealOps
      <4>2. pc' = [pc EXCEPT ![t] = "unlockShadow"]
        BY <3>5 DEF SecondChange, Go
      <4>3. /\ Identical'
            /\ UNCHANGED <<mClientMap, mClientMapByPID>>
            /\ mClientMapByBundleID' = ChangedIndexSwapped(op[t])
        BY <4>1, ChangeMade DEF SwapMade, Identical, TypeOK, ChangedIndexSwapped
      <4>4. mShadowMapsMutex' # Nobody
        BY <3>5, <4>1, ThreadsAssumption DEF SecondChange, Locks, mutexes
      <4> QED BY <3>1, <4>1, <4>2, <4>3, <4>4 DEF Control, PointersSound, Identical
    <3> QED BY <2>3, <3>2, <3>3, <3>4, <3>5 DEF UpdateStep
  <2>4. ASSUME NEW t \in Updaters, SwapInShadowMapsRT(t) PROVE PointersSound'
    <3>1. pc[t] = "swap" /\ \A u \in Updaters : u # t => pc[u] = "idle"
      BY <2>4, OneUpdate DEF SwapInShadowMapsRT, Go
    <3>2. pc' = [pc EXCEPT ![t] = "second"] /\ UNCHANGED <<op, mShadowMapsMutex>>
      BY <2>4 DEF SwapInShadowMapsRT, Go
    <3>3. mShadowMapsMutex' # Nobody
      BY <3>1, <3>2, ThreadsAssumption DEF Locks
    <3>4. mClientMap' = mClientMapShadow /\ ChangedIndexSwapped(op[t])' = ChangedIndex(op[t])
      BY <2>4, <3>2 DEF SwapInShadowMapsRT, ChangedIndex, ChangedIndexSwapped
    <3>5. /\ Sound(mClientMap, mClientMapByPID, PIDOf)'
          /\ Sound(mClientMapShadow, mClientMapByPIDShadow, PIDOf)'
      BY <2>4 DEF SwapInShadowMapsRT, PointersSound
    <3> QED BY <3>1, <3>2, <3>3, <3>4, <3>5 DEF Control, PointersSound
  <2>5. ASSUME LockMapsRT PROVE PointersSound'
    BY <2>1, <2>5 DEF LockMapsRT
  <2>6. ASSUME NEW r \in IOThreads, LockMaps(r) \/ GetClientRT(r) PROVE PointersSound'
    BY <2>1, <2>6 DEF LockMaps, GetClientRT
  <2>7. ASSUME NEW t \in HALThreads, GetClientNonRT(t) PROVE PointersSound'
    BY <2>1, <2>7 DEF GetClientNonRT, mutexes
  <2>8. CASE UNCHANGED vars
    BY <2>1, <2>8 DEF vars, mutexes
  <2> QED BY <2>2, <2>3, <2>4, <2>5, <2>6, <2>7, <2>8 DEF Next
<1> QED BY <1>1, <1>2, TypeCorrect, ControlInvariant, LocksInvariant, ProgressInvariant, PTL
      DEF Spec

IInv == Control /\ TypeOK /\ Locks /\ Progress /\ PointersSound

\* The inductive invariant as a whole.
THEOREM InductiveInvariant == Spec => []IInv
<1>1. Control /\ TypeOK /\ Locks /\ Progress /\ PointersSound => IInv
  BY DEF IInv
<1> QED BY <1>1, TypeCorrect, ControlInvariant, LocksInvariant, ProgressInvariant,
      PointersInvariant, PTL

\* No index ever leads outside its map while another thread may follow it,
\* although clients and index entries are erased at different moments.
THEOREM PointersNeverDangle == Spec => []NoDanglingPointers
<1>1. PointersSound /\ Progress => NoDanglingPointers
  BY DEF PointersSound, Progress, Identical, NoDanglingPointers, Sound
<1> QED BY <1>1, PointersInvariant, ProgressInvariant, PTL

-----------------------------------------------------------------------------
(* Refinement.  ClientRegistry extends ClientRecords too, so the instance   *)
(* has its own copies of the operators of ClientRecords.                    *)

\* A fit update of the map is one of the updates of the registry.
LEMMA FitUpdate ==
    ASSUME NEW o \in RealOps, mClientMap \in ClientMaps,
           Fit(o, mClientMap), mClientMap' = NewClients(o, mClientMap)
    PROVE  Registry!Update
<1>1. CASE o.kind = "Add"
  <2>1. o.id \in ClientIDs /\ Registry!AddClient(o.id, FALSE)
    BY <1>1, OpKinds DEF Fit, Adds, NewClients, Registry!AddClient, Registry!NewClient, NewClient
  <2> QED BY <2>1 DEF Registry!Update
<1>2. CASE o.kind = "AddMusicPlayer"
  <2>1. o.id \in ClientIDs /\ Registry!AddClient(o.id, TRUE)
    BY <1>2, OpKinds DEF Fit, Adds, NewClients, Registry!AddClient, Registry!NewClient, NewClient
  <2> QED BY <2>1 DEF Registry!Update
<1>3. CASE o.kind = "Remove"
  <2>1. o.id \in ClientIDs /\ Registry!RemoveClient(o.id)
    BY <1>3, OpKinds DEF Fit, Adds, NewClients, Registry!RemoveClient
  <2> QED BY <2>1 DEF Registry!Update
<1>4. CASE o.kind = "MusicPlayer"
  <2>1. o.players \in PlayerSets
    BY <1>4 DEF RealOps, HALOps, WorkerOps, FlagOps
  <2>2. Registry!UpdateMusicPlayerFlags(o.players)
    BY <1>4 DEF NewClients, NewFlags, WithMusicPlayers, Registry!UpdateMusicPlayerFlags,
        Registry!WithMusicPlayers
  <2>3. Registry!PlayerSets = PlayerSets
    BY DEF Registry!PlayerSets, PlayerSets
  <2> QED BY <2>1, <2>2, <2>3 DEF Registry!Update
<1>5. CASE o.kind \in {"StartIO", "StopIO"}
  <2> DEFINE b == o.kind = "StartIO"
  <2>1. /\ o.id \in ClientIDs
        /\ mClientMap[o.id] # Absent
        /\ mClientMap[o.id].mDoingIO # b
        /\ mClientMap[o.id] \in Client
    BY <1>5, OpKinds DEF Fit, Adds, NeedsUpdate, ClientMaps, Client
  <2>2. mClientMap' = [mClientMap EXCEPT ![o.id] = WithDoingIO(mClientMap[o.id], b)]
    BY <1>5, <2>1 DEF NewClients, NewFlags, AtOrNew
  <2>3. Registry!UpdateClientIOState(o.id, b)
    BY <2>1, <2>2 DEF Registry!UpdateClientIOState, WithDoingIO, Registry!WithDoingIO
  <2> QED BY <2>1, <2>3 DEF Registry!Update
<1>6. CASE o.kind = "StartInputIO"
  <2>1. o.id \in ClientIDs /\ mClientMap[o.id] # Absent
        /\ ClientShouldMarkInputIO(mClientMap, o.id)
    BY <1>6, OpKinds DEF Fit, Adds, NeedsUpdate
  <2>2. mClientMap' = [mClientMap EXCEPT ![o.id] = WithInputIO(mClientMap[o.id])]
    BY <1>6, <2>1 DEF NewClients, NewFlags, AtOrNew
  <2>3. Registry!StartInputIO(o.id)
    BY <2>1, <2>2 DEF Registry!StartInputIO, WithInputIO, Registry!WithInputIO,
        ClientShouldMarkInputIO, Registry!ClientShouldMarkInputIO, IsPassthroughHost,
        Registry!IsPassthroughHost
  <2> QED BY <2>1, <2>3 DEF Registry!Update
<1> QED BY <1>1, <1>2, <1>3, <1>4, <1>5, <1>6, OpKinds

LEMMA SameAnswers ==
    ASSUME NEW m, NEW id
    PROVE  Registry!Answers(m, id) =
             {ClientShouldMarkInputIO(m, id), KnownPassthroughHost(m, id), IsMusicPlayer(m, id)}
    BY DEF Registry!Answers, Registry!ClientShouldMarkInputIO, Registry!KnownPassthroughHost,
        Registry!IsMusicPlayer, Registry!IsPassthroughHost, ClientShouldMarkInputIO,
        KnownPassthroughHost, IsMusicPlayer, IsPassthroughHost

\* ClientMap implements ClientRegistry: whatever the IO threads, the HAL's
\* threads and the workers do, every query answers as one map would that is
\* updated in single steps, the moment of the swap.
THEOREM ImplementsRegistry == Spec => ActsAsOneMap
<1> USE DEF Registry!registryVars
<1>1. Init => Registry!RegistryInit
  BY DEF Init, Registry!RegistryInit, NoClients, Registry!NoClients
<1>2. TypeOK /\ Control /\ Locks /\ Progress /\ [Next]_vars
        => [Registry!RegistryNext]_(Registry!registryVars)
  <2> SUFFICES ASSUME TypeOK, Control, Locks, Progress, [Next]_vars
               PROVE  [Registry!RegistryNext]_(Registry!registryVars)
    OBVIOUS
  <2>1. CASE UNCHANGED vars
    BY <2>1 DEF vars, mainMaps
  <2>2. ASSUME NEW t \in Updaters, LockClients(t)
        PROVE  UNCHANGED <<mClientMap, answer>>
    BY <2>2 DEF LockClients, mainMaps
  <2>3. ASSUME NEW t \in Updaters, UpdateStep(t)
        PROVE  UNCHANGED <<mClientMap, answer>>
    <3>1. CASE FirstChange(t) \/ SecondChange(t)
      <4>1. op[t] \in RealOps /\ ChangeMaps(op[t])
        BY <3>1 DEF FirstChange, SecondChange, Go, Control, RealOps
      <4> QED BY <3>1, <4>1, ChangeMade DEF FirstChange, SecondChange, TypeOK
    <3>2. CASE ~(FirstChange(t) \/ SecondChange(t))
      BY <2>3, <3>2 DEF UpdateStep, FindClient, LockShadowMaps, ThrowInvalidClient,
          SwapInShadowMaps, UnlockShadowMaps, UnlockClients, mainMaps
    <3> QED BY <3>1, <3>2
  <2>4. ASSUME NEW t \in Updaters, SwapInShadowMapsRT(t)
        PROVE  Registry!RegistryNext
    <3>1. op[t] \in RealOps /\ FirstChangeMade(op[t])
      BY <2>4 DEF SwapInShadowMapsRT, Go, Control, Progress, RealOps
    <3>2. Registry!Update
      BY <2>4, <3>1, FitUpdate DEF SwapInShadowMapsRT, FirstChangeMade, TypeOK
    <3> QED BY <2>4, <3>2 DEF SwapInShadowMapsRT, Registry!RegistryNext
  <2>5. ASSUME LockMapsRT PROVE UNCHANGED <<mClientMap, answer>>
    BY <2>5 DEF LockMapsRT, mainMaps
  <2>6. ASSUME NEW r \in IOThreads, LockMaps(r)
        PROVE  UNCHANGED <<mClientMap, answer>>
    BY <2>6 DEF LockMaps, mainMaps
  <2>7. ASSUME NEW r \in IOThreads, GetClientRT(r)
        PROVE  Registry!RegistryNext
    BY <2>7, SameAnswers DEF GetClientRT, Registry!RegistryNext, Registry!Query, Readers, mainMaps
  <2>8. ASSUME NEW t \in HALThreads, GetClientNonRT(t)
        PROVE  Registry!RegistryNext
    <3>1. mClientMapShadow = mClientMap
      BY <2>8 DEF GetClientNonRT, Progress, Identical
    <3> QED BY <2>8, <3>1, SameAnswers DEF GetClientNonRT, Registry!RegistryNext,
          Registry!Query, Readers, mainMaps
  <2> QED BY <2>1, <2>2, <2>3, <2>4, <2>5, <2>6, <2>7, <2>8 DEF Next
<1> QED BY <1>1, <1>2, TypeCorrect, ControlInvariant, LocksInvariant, ProgressInvariant, PTL
      DEF Spec, ActsAsOneMap, Registry!RegistrySpec
=============================================================================
