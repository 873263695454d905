------------------------ MODULE OutputDevice_Proofs ------------------------
(***************************************************************************)
(* That a change of the output device leaves play-through, the control     *)
(* sync and the manager in agreement, that no device gets the volume of    *)
(* another, and that the app plays to a device that is there, for any      *)
(* number of devices, threads, hardware events and actions of the user.    *)
(***************************************************************************)
EXTENDS OutputDevice, SequenceTheorems, WellFoundedInduction, TLAPS

-----------------------------------------------------------------------------
(* The smallest of some numbers *)

\* Well-foundedness in the form the least element is found with.
LEMMA Ordered == \A m, n : m \in Nat /\ n \in Nat /\ m < n => <<m, n>> \in OpToRel(<, Nat)
BY DEF OpToRel

\* A set of natural numbers has a least element, and Min is it.
LEMMA MinIsLeast ==
    ASSUME NEW S, S \subseteq Nat, S # {}
    PROVE  Min(S) \in S /\ \A n \in S : Min(S) <= n
<1>1. PICK m \in S : \A n \in S : ~(<<n, m>> \in OpToRel(<, Nat))
  BY WFMin, NatLessThanWellFounded
<1>2. m \in Nat /\ \A n \in S : n \in Nat
  OBVIOUS
<1>3. \A n \in S : ~(n < m)
  BY Zenon, <1>1, <1>2, Ordered
<1>4. \A n \in S : m <= n
  BY <1>2, <1>3
<1> QED BY <1>4 DEF Min

-----------------------------------------------------------------------------
(* Type correctness *)

\* What findPreferredDevice finds is a device that is connected or in use, and
\* it finds one if any is connected.
LEMMA Preferred ==
    ASSUME TypeOK
    PROVE  /\ FindPreferredDevice \subseteq Objects
           /\ FindPreferredDevice = {} => connected = {}
           /\ \A object \in FindPreferredDevice : Valid(object)
<1> DEFINE listed == {i \in DOMAIN preferredDeviceUIDs : preferredDeviceUIDs[i] \in connected}
<1>1. listed \subseteq Nat
  BY DEF TypeOK
<1>2. \A u \in connected : Object(u) \in Objects /\ Valid(Object(u))
  BY DEF TypeOK, Object, Objects, Valid
<1>3. CASE listed # {}
  <2>1. preferredDeviceUIDs[Min(listed)] \in connected
    BY <1>1, <1>3, MinIsLeast
  <2>2. FindPreferredDevice = {Object(preferredDeviceUIDs[Min(listed)])}
    BY <1>3 DEF FindPreferredDevice
  <2> HIDE DEF listed
  <2> QED BY <1>2, <2>1, <2>2
<1>4. CASE listed = {}
  <2>1. FindPreferredDevice = IF Valid(outputDevice) THEN {outputDevice}
                              ELSE {Object(u) : u \in connected}
    BY <1>4 DEF FindPreferredDevice
  <2>2. connected # {} => {Object(u) : u \in connected} # {}
    OBVIOUS
  <2>3. outputDevice \in Objects
    BY DEF TypeOK
  <2> HIDE DEF listed
  <2> QED BY <1>2, <2>1, <2>2, <2>3
<1> QED BY <1>3, <1>4

LEMMA InitType == Init => TypeOK
<1> SUFFICES ASSUME Init PROVE TypeOK
  OBVIOUS
<1>1. PreferredUIDs[1] \in UIDs /\ PreferredUIDs \in Seq(UIDs) /\ MaxEvents \in Nat
      /\ MaxUserActions \in Nat
  BY OutputDeviceAssumption
<1> DEFINE first == [uid |-> PreferredUIDs[1], id |-> 0]
           attachment == [device |-> first, active |-> TRUE]
<1>2. first \in Objects
  BY <1>1 DEF Objects
<1>3. attachment \in [device : Objects, active : BOOLEAN]
  BY <1>2
<1>4. InitialVolume \in [UIDs -> 0 .. 2]
  BY DEF InitialVolume
<1>5. /\ outputDevice = first /\ playThrough = attachment /\ controlSync = attachment
      /\ target = [t \in Threads |-> first] /\ current = [t \in Threads |-> first]
      /\ connected = UIDs /\ id = [u \in UIDs |-> 0] /\ preferredDeviceUIDs = PreferredUIDs
      /\ preferredLock = "free" /\ stateLock = "free" /\ mainThread = NoPick /\ userSet = {}
      /\ pc = [t \in Threads |-> "idle"] /\ "idle" \in PCs
      /\ targetUIDKnown = [t \in Threads |-> FALSE] /\ revertOnFailure = [t \in Threads |-> FALSE]
      /\ volume = InitialVolume /\ novaLINKVolume = 0
      /\ eventsLeft = MaxEvents /\ userActionsLeft = MaxUserActions
      /\ novaLINKAlive = TRUE /\ deviceListChanged = FALSE /\ failed = FALSE
      /\ listening = TRUE /\ copyBlocks = FALSE
  BY DEF Init, PCs
<1> HIDE DEF first, attachment
<1>6. /\ pc \in [Threads -> PCs] /\ id \in [UIDs -> Nat]
      /\ target \in [Threads -> Objects] /\ current \in [Threads -> Objects]
      /\ targetUIDKnown \in [Threads -> BOOLEAN] /\ revertOnFailure \in [Threads -> BOOLEAN]
  BY <1>2, <1>5
<1>7. novaLINKVolume \in 0 .. 2
  BY <1>5
<1> QED BY <1>1, <1>2, <1>3, <1>4, <1>5, <1>6, <1>7 DEF TypeOK

\* The list keeps its first three entries.
LEMMA ListType ==
    ASSUME NEW list \in Seq(UIDs)
    PROVE  SubSeq(list, 1, Min({3, Len(list)})) \in Seq(UIDs)
<1>1. {3, Len(list)} \subseteq Nat /\ Len(list) \in Nat
  OBVIOUS
<1>2. Min({3, Len(list)}) \in {3, Len(list)} /\ Min({3, Len(list)}) <= Len(list)
  BY <1>1, MinIsLeast
<1>3. PICK n \in Nat : n = Min({3, Len(list)}) /\ n <= Len(list)
  BY <1>1, <1>2
<1>4. 1 \in Int /\ n \in Int /\ \A i \in 1 .. n : list[i] \in UIDs
  <2>1. \A i \in 1 .. Len(list) : list[i] \in UIDs
    OBVIOUS
  <2>2. n \in Int /\ n <= Len(list) /\ Len(list) \in Int
    BY <1>1, <1>3
  <2> QED BY <2>1, <2>2
<1>5. SubSeq(list, 1, n) \in Seq(UIDs)
  BY Zenon, <1>4, SubSeqProperties
<1> QED BY <1>3, <1>5

LEMMA EnvironmentType ==
    ASSUME TypeOK,
           \/ \E u \in UIDs : Unplug(u) \/ Plug(u)
           \/ CoreAudioRestarts \/ SetVolume \/ CopyToOutputDevice
    PROVE  TypeOK'
<1> USE DEF locks, switch, choice
<1>1. CASE \E u \in UIDs : Unplug(u)
  BY <1>1 DEF Unplug, Event, TypeOK, volumes
<1>2. CASE \E u \in UIDs : Plug(u)
  BY <1>2 DEF Plug, Event, TypeOK, volumes
<1>3. CASE CoreAudioRestarts
  <2>1. id' \in [UIDs -> Nat]
    BY <1>3 DEF CoreAudioRestarts, TypeOK
  <2>2. eventsLeft' \in Nat
    BY <1>3 DEF CoreAudioRestarts, Event, TypeOK
  <2> QED BY <1>3, <2>1, <2>2 DEF CoreAudioRestarts, TypeOK
<1>4. CASE SetVolume
  <2>1. controlSync.device.uid \in UIDs
    BY DEF TypeOK, Objects
  <2>2. copyBlocks' \in BOOLEAN
    BY <1>4 DEF SetVolume
  <2> QED BY <1>4, <2>1, <2>2 DEF SetVolume, TypeOK, hardware
<1>5. CASE CopyToOutputDevice
  <2>1. volume' \in [UIDs -> 0 .. 2]
    BY <1>5 DEF CopyToOutputDevice, TypeOK
  <2> QED BY ZenonT(40), <1>5, <2>1 DEF CopyToOutputDevice, TypeOK, hardware
<1> QED BY <1>1, <1>2, <1>3, <1>4, <1>5

LEMMA RequestType ==
    ASSUME TypeOK,
           ConnectedDeviceListChanged \/ OutputDeviceMenuItemSelected \/ UserChangedOutputDeviceTo
    PROVE  TypeOK'
<1> USE DEF hardware, locks, volumes
<1>1. ASSUME NEW t \in Threads, NEW object \in Objects, BeginSetOutputDevice(t, object)
      PROVE  /\ pc' \in [Threads -> PCs] /\ target' \in [Threads -> Objects]
             /\ revertOnFailure' \in [Threads -> BOOLEAN]
             /\ UNCHANGED <<outputDevice, playThrough, controlSync, targetUIDKnown, current, failed>>
  BY <1>1 DEF BeginSetOutputDevice, Goto, TypeOK, PCs
<1>2. CASE ConnectedDeviceListChanged
  <2>1. CASE FindPreferredDevice \in {{}, {outputDevice}}
    BY <1>2, <2>1 DEF ConnectedDeviceListChanged, TypeOK, switch
  <2>2. CASE ~(FindPreferredDevice \in {{}, {outputDevice}})
    <3>1. PICK object \in Objects : BeginSetOutputDevice("hal", object)
      BY <1>2, <2>2, Preferred DEF ConnectedDeviceListChanged
    <3>2. preferredLock' = "hal" /\ "hal" \in Threads
      BY <1>2, <2>2 DEF ConnectedDeviceListChanged, Threads
    <3> QED BY <1>1, <1>2, <3>1, <3>2 DEF ConnectedDeviceListChanged, TypeOK
  <2> QED BY <2>1, <2>2
<1>3. CASE OutputDeviceMenuItemSelected
  <2>1. mainThread' \in Objects
    BY <1>3 DEF OutputDeviceMenuItemSelected, Object, Objects, TypeOK
  <2> QED BY <1>3, <2>1 DEF OutputDeviceMenuItemSelected, TypeOK, switch
<1>4. CASE UserChangedOutputDeviceTo
  <2>1. mainThread \in Objects
    BY <1>4 DEF UserChangedOutputDeviceTo, TypeOK
  <2>2. PICK t \in Threads : BeginSetOutputDevice(t, mainThread)
    BY <1>4 DEF UserChangedOutputDeviceTo, Threads
  <2>3. preferredDeviceUIDs' \in Seq(UIDs)
    <3>1. <<mainThread.uid>> \o preferredDeviceUIDs \in Seq(UIDs)
      BY <2>1 DEF Objects, TypeOK
    <3> QED BY <1>4, <3>1, ListType DEF UserChangedOutputDeviceTo, TypeOK
  <2> QED BY <1>1, <1>4, <2>1, <2>2, <2>3 DEF UserChangedOutputDeviceTo, TypeOK
<1> QED BY <1>2, <1>3, <1>4

LEMMA ChangeType ==
    ASSUME TypeOK, NEW t \in Threads, TakeStateLock(t) \/ SwitchNext(t) \/ DeadlineNext(t)
    PROVE  TypeOK'
<1> USE DEF choice
<1>1. ASSUME NEW object \in Objects, Prepare(t, object)
      PROVE  /\ pc' \in [Threads -> PCs] /\ {target', current'} \subseteq [Threads -> Objects]
             /\ targetUIDKnown' \in [Threads -> BOOLEAN] /\ novaLINKAlive' \in BOOLEAN
  BY <1>1 DEF Prepare, Goto, TypeOK, PCs, Valid
<1>2. \A place \in PCs : Goto(t, place) => pc' \in [Threads -> PCs]
  BY DEF Goto, TypeOK
<1>3. target[t] \in Objects /\ current[t] \in Objects
  BY DEF TypeOK
<1>4. CASE TakeStateLock(t)
  BY <1>1, <1>3, <1>4 DEF TakeStateLock, TypeOK, volumes
<1>5. CASE Attempt(t)
  <2>1. pc' \in [Threads -> PCs]
    BY <1>2, <1>5 DEF Attempt, PCs
  <2>2. /\ playThrough' \in [device : Objects, active : BOOLEAN]
        /\ controlSync' \in [device : Objects, active : BOOLEAN]
        /\ listening' \in BOOLEAN
    <3>1. /\ [playThrough EXCEPT !.active = FALSE] \in [device : Objects, active : BOOLEAN]
          /\ [device |-> target[t], active |-> FALSE] \in [device : Objects, active : BOOLEAN]
      BY <1>3 DEF TypeOK
    <3> QED BY <1>5, <3>1 DEF Attempt, TypeOK
  <2> QED BY <1>5, <2>1, <2>2 DEF Attempt, TypeOK, hardware, locks
<1>6. CASE CopyFromOutputDevice(t)
  <2>1. volume[target[t].uid] \in 0 .. 2
    BY <1>3 DEF TypeOK, Objects
  <2> QED BY <1>2, <1>6, <2>1 DEF CopyFromOutputDevice, TypeOK, PCs, hardware, locks
<1>7. CASE AddListeners(t)
  <2>1. pc' \in [Threads -> PCs]
    BY <1>2, <1>7 DEF AddListeners, PCs
  <2> QED BY <1>7, <2>1 DEF AddListeners, TypeOK, hardware, locks
<1>8. CASE ActivatePlayThrough(t)
  <2> DEFINE works == Valid(target[t]) /\ novaLINKAlive
  <2>1. works \in BOOLEAN
    BY DEF Valid, TypeOK
  <2>2. pc' \in [Threads -> PCs]
    BY <1>2, <1>8 DEF ActivatePlayThrough, PCs
  <2>3. /\ playThrough' = [device |-> target[t], active |-> works]
        /\ (outputDevice' = target[t] /\ failed' = FALSE) \/ UNCHANGED <<outputDevice, failed>>
    BY <1>8 DEF ActivatePlayThrough
  <2> HIDE DEF works
  <2>4. /\ playThrough' \in [device : Objects, active : BOOLEAN]
        /\ outputDevice' \in Objects /\ failed' \in BOOLEAN
    BY <1>3, <2>1, <2>3 DEF TypeOK
  <2>5. UNCHANGED <<hardware, locks, controlSync, target, targetUIDKnown, current,
                    revertOnFailure, choice, volumes, userActionsLeft>>
    BY <1>8 DEF ActivatePlayThrough
  <2> QED BY <2>2, <2>4, <2>5 DEF TypeOK, hardware, locks, volumes
<1>9. CASE Finish(t)
  <2>1. pc' \in [Threads -> PCs]
    BY <1>2, <1>9 DEF Finish, PCs
  <2> QED BY <1>9, <2>1 DEF Finish, TypeOK, hardware, locks, volumes
<1>10. CASE Retry(t)
  <2>1. pc' \in [Threads -> PCs]
    BY <1>2, <1>10 DEF Retry, PCs
  <2>2. Object(target[t].uid) \in Objects
    BY <1>3 DEF Object, Objects, TypeOK
  <2>3. target' \in [Threads -> Objects]
    BY <1>10, <2>2 DEF Retry, TypeOK
  <2> QED BY <1>10, <2>1, <2>3 DEF Retry, TypeOK, locks, volumes
<1>11. CASE Revert(t)
  <2>1. revertOnFailure' \in [Threads -> BOOLEAN]
    BY <1>11 DEF Revert, TypeOK
  <2> QED BY <1>1, <1>3, <1>11, <2>1 DEF Revert, TypeOK, locks, volumes
<1>12. CASE GiveUp(t)
  <2>1. pc' \in [Threads -> PCs]
    BY <1>2, <1>12 DEF GiveUp, PCs
  <2> QED BY <1>12, <2>1 DEF GiveUp, TypeOK, hardware, volumes
<1> QED BY <1>4, <1>5, <1>6, <1>7, <1>8, <1>9, <1>10, <1>11, <1>12 DEF SwitchNext, DeadlineNext

LEMMA NextType == TypeOK /\ [Next]_vars => TypeOK'
<1>1. ASSUME TypeOK, UNCHANGED vars PROVE TypeOK'
  BY <1>1 DEF TypeOK, vars, hardware, locks, switch, choice, volumes
<1> QED BY <1>1, EnvironmentType, RequestType, ChangeType DEF Next

\* The output device, the locks, the devices' IDs and volumes and where each
\* thread is in a change keep their types.
THEOREM TypeCorrect == Spec => []TypeOK
BY InitType, NextType, PTL DEF Spec

-----------------------------------------------------------------------------
(* The locks and the devices' IDs *)

\* Where a thread holds stateLock.
Holding == {"attempt", "copy", "listen", "play", "finish", "failed"}

Locked == \A t \in Threads : stateLock = t <=> pc[t] \in Holding

\* The objects the app keeps, none of which has an ID its device has yet to get.
Kept == {outputDevice} \cup {target[t] : t \in Threads} \cup {current[t] : t \in Threads}
            \cup ({mainThread} \ {NoPick})
IDsGrow == \A object \in Kept : object.id <= id[object.uid]

\* Everything but changes of the output device leaves them and their locks alone.
Quiet == \/ \E u \in UIDs : Unplug(u) \/ Plug(u)
         \/ CoreAudioRestarts \/ SetVolume \/ CopyToOutputDevice \/ UNCHANGED vars

\* A thread that is given a device to change to was idle and waits for the lock.
Given(t, object) ==
    /\ pc[t] = "idle"
    /\ pc' = [pc EXCEPT ![t] = "lock"]
    /\ target' = [target EXCEPT ![t] = object]
    /\ UNCHANGED <<stateLock, outputDevice, playThrough, controlSync, targetUIDKnown, current, failed, id>>

LEMMA QuietStep ==
    ASSUME TypeOK, Quiet
    PROVE  /\ UNCHANGED <<stateLock, outputDevice, playThrough, controlSync, pc, target,
                          targetUIDKnown, current, failed, mainThread>>
           /\ \A u \in UIDs : id[u] <= id'[u]
<1> USE DEF TypeOK, hardware, locks, switch, choice
<1>1. ASSUME NEW u \in UIDs, Unplug(u) \/ Plug(u)
      PROVE  /\ UNCHANGED <<locks, switch, mainThread>>
             /\ \A v \in UIDs : id'[v] \in {id[v], id[v] + 1}
  BY <1>1 DEF Unplug, Plug
<1>2. CASE CoreAudioRestarts
  BY <1>2 DEF CoreAudioRestarts
<1>3. CASE SetVolume \/ CopyToOutputDevice \/ UNCHANGED vars
  BY <1>3 DEF SetVolume, CopyToOutputDevice, vars
<1>4. ASSUME NEW v \in UIDs, id'[v] \in {id[v], id[v] + 1} PROVE id[v] <= id'[v]
  <2>1. id[v] \in Nat
    OBVIOUS
  <2> QED BY <1>4, <2>1
<1> QED BY <1>1, <1>2, <1>3, <1>4 DEF Quiet

LEMMA RequestStep ==
    ASSUME TypeOK,
           ConnectedDeviceListChanged \/ OutputDeviceMenuItemSelected \/ UserChangedOutputDeviceTo
    PROVE  \/ /\ UNCHANGED <<stateLock, outputDevice, playThrough, controlSync, pc, target,
                             targetUIDKnown, current, failed, id>>
              /\ mainThread' \in {mainThread} \cup {object \in Objects : Valid(object)}
           \/ /\ \E t \in Threads, object \in Kept \cup {object \in Objects : Valid(object)} :
                     Given(t, object)
              /\ mainThread' \in {mainThread, NoPick}
<1> USE DEF hardware, locks, switch
<1>1. CASE ConnectedDeviceListChanged
  <2>1. CASE FindPreferredDevice \in {{}, {outputDevice}}
    BY <1>1, <2>1 DEF ConnectedDeviceListChanged
  <2>2. CASE ~(FindPreferredDevice \in {{}, {outputDevice}})
    <3>1. PICK object \in FindPreferredDevice : BeginSetOutputDevice("hal", object)
      BY <1>1, <2>2 DEF ConnectedDeviceListChanged
    <3>2. object \in Objects /\ Valid(object) /\ "hal" \in Threads
      BY Preferred DEF Threads
    <3>3. Given("hal", object) /\ mainThread' = mainThread
      BY <1>1, <2>2, <3>1 DEF ConnectedDeviceListChanged, BeginSetOutputDevice, Goto, Given
    <3> QED BY <3>2, <3>3
  <2> QED BY <2>1, <2>2
<1>2. CASE OutputDeviceMenuItemSelected
  <2>1. PICK u \in connected : mainThread' = Object(u)
    BY <1>2 DEF OutputDeviceMenuItemSelected
  <2>2. Object(u) \in Objects /\ Valid(Object(u))
    BY DEF TypeOK, Object, Objects, Valid
  <2> QED BY <1>2, <2>1, <2>2 DEF OutputDeviceMenuItemSelected
<1>3. CASE UserChangedOutputDeviceTo
  <2>1. PICK t \in Threads : pc[t] = "idle" /\ BeginSetOutputDevice(t, mainThread)
    BY <1>3 DEF UserChangedOutputDeviceTo, Threads
  <2>2. mainThread \in Kept /\ mainThread' = NoPick
    BY <1>3 DEF UserChangedOutputDeviceTo, Kept
  <2>3. Given(t, mainThread)
    BY <1>3, <2>1 DEF UserChangedOutputDeviceTo, BeginSetOutputDevice, Goto, Given
  <2> QED BY <2>2, <2>3
<1> QED BY <1>1, <1>2, <1>3

\* A thread in a change, or beginning one, changes what it holds the lock for.
LEMMA ChangeStep ==
    ASSUME TypeOK, Locked, NEW t \in Threads, TakeStateLock(t) \/ SwitchNext(t) \/ DeadlineNext(t)
    PROVE  /\ stateLock = t \/ (stateLock = "free" /\ TakeStateLock(t))
           /\ \E place \in PCs : /\ pc' = [pc EXCEPT ![t] = place]
                                 /\ stateLock' = IF place \in Holding THEN t ELSE "free"
           /\ UNCHANGED <<id, mainThread>>
           /\ \A s \in Threads \ {t} : target'[s] = target[s] /\ current'[s] = current[s]
           /\ outputDevice' \in {outputDevice, target[t]}
           /\ target'[t] \in {target[t], current[t]} \cup {object \in Objects : Valid(object)}
           /\ current'[t] \in {current[t], outputDevice}
<1> USE DEF PCs, Holding, choice
<1>1. CASE TakeStateLock(t)
  BY <1>1 DEF TakeStateLock, Prepare, Goto, TypeOK
<1>2. CASE SwitchNext(t) \/ DeadlineNext(t)
  <2>1. pc[t] \in Holding
    BY <1>2 DEF SwitchNext, DeadlineNext, Attempt, CopyFromOutputDevice, AddListeners,
                ActivatePlayThrough, Finish, Retry, Revert, GiveUp
  <2>2. stateLock = t
    BY <2>1 DEF Locked
  <2>3. CASE Attempt(t)
    BY <2>2, <2>3 DEF Attempt, Goto, hardware, locks
  <2>4. CASE CopyFromOutputDevice(t)
    BY <2>2, <2>4 DEF CopyFromOutputDevice, Goto, hardware, locks
  <2>5. CASE AddListeners(t)
    BY <2>2, <2>5 DEF AddListeners, Goto, hardware, locks
  <2>6. CASE ActivatePlayThrough(t)
    BY <2>2, <2>6 DEF ActivatePlayThrough, Goto, hardware, locks
  <2>7. CASE Finish(t)
    BY <2>2, <2>7 DEF Finish, Goto, hardware, locks
  <2>8. CASE Retry(t)
    <3>1. target[t].uid \in connected => Object(target[t].uid) \in {object \in Objects : Valid(object)}
      BY DEF TypeOK, Object, Objects, Valid
    <3> QED BY <2>2, <2>8, <3>1 DEF Retry, Goto, locks, TypeOK
  <2>9. CASE Revert(t)
    BY <2>2, <2>9 DEF Revert, Prepare, Goto, locks, TypeOK
  <2>10. CASE GiveUp(t)
    BY <2>2, <2>10 DEF GiveUp, Goto, hardware
  <2> QED BY <1>2, <2>3, <2>4, <2>5, <2>6, <2>7, <2>8, <2>9, <2>10 DEF SwitchNext, DeadlineNext
<1> QED BY <1>1, <1>2

LEMMA NextCases ==
    ASSUME [Next]_vars
    PROVE  \/ Quiet
           \/ ConnectedDeviceListChanged \/ OutputDeviceMenuItemSelected \/ UserChangedOutputDeviceTo
           \/ \E t \in Threads : TakeStateLock(t) \/ SwitchNext(t) \/ DeadlineNext(t)
BY DEF Next, Quiet

LEMMA NextLocked == TypeOK /\ Locked /\ IDsGrow /\ [Next]_vars => Locked' /\ IDsGrow'
<1> SUFFICES ASSUME TypeOK, Locked, IDsGrow, [Next]_vars PROVE Locked' /\ IDsGrow'
  OBVIOUS
<1>1. Kept \subseteq Objects
  BY DEF Kept, TypeOK
<1>2. \A object \in Objects : Valid(object) => object.id <= id[object.uid]
  BY DEF Valid, Object, Objects, TypeOK
<1>3. "free" \notin Threads /\ "idle" \notin Holding /\ "lock" \notin Holding
  BY OutputDeviceAssumption DEF Threads, Holding
<1>4. CASE Quiet
  <2>1. Kept' = Kept /\ Locked'
    BY <1>4, QuietStep DEF Kept, Locked
  <2>2. \A object \in Kept : id[object.uid] <= id'[object.uid] /\ object.id \in Nat
                             /\ id[object.uid] \in Nat /\ id'[object.uid] \in Nat
    <3>1. TypeOK'
      BY NextType
    <3> QED BY <1>1, <1>4, <3>1, QuietStep DEF Objects, TypeOK
  <2> QED BY <2>1, <2>2 DEF IDsGrow
<1>5. ASSUME id' = id, Kept' \subseteq Kept \cup {object \in Objects : Valid(object)} PROVE IDsGrow'
  BY <1>2, <1>5 DEF IDsGrow
<1>6. CASE ConnectedDeviceListChanged \/ OutputDeviceMenuItemSelected \/ UserChangedOutputDeviceTo
  <2>1. CASE /\ UNCHANGED <<stateLock, outputDevice, playThrough, controlSync, pc, target,
                             targetUIDKnown, current, failed, id>>
             /\ mainThread' \in {mainThread} \cup {object \in Objects : Valid(object)}
    <3>1. Kept' \subseteq Kept \cup {object \in Objects : Valid(object)}
      BY <2>1 DEF Kept
    <3> QED BY <1>5, <2>1, <3>1 DEF Locked
  <2>2. ASSUME NEW t \in Threads, NEW object \in Kept \cup {o \in Objects : Valid(o)}, Given(t, object),
               mainThread' \in {mainThread, NoPick}
        PROVE  Locked' /\ IDsGrow'
    <3>1. Kept' \subseteq Kept \cup {o \in Objects : Valid(o)}
      BY <2>2 DEF Given, Kept, TypeOK
    <3>2. Locked'
      BY <1>3, <2>2 DEF Given, Locked, TypeOK
    <3> QED BY <1>5, <2>2, <3>1, <3>2 DEF Given
  <2> QED BY <1>6, <2>1, <2>2, RequestStep
<1>7. ASSUME NEW t \in Threads, TakeStateLock(t) \/ SwitchNext(t) \/ DeadlineNext(t)
      PROVE  Locked' /\ IDsGrow'
  <2>1. Kept' \subseteq Kept \cup {object \in Objects : Valid(object)}
    BY <1>7, ChangeStep DEF Kept
  <2>2. Locked'
    BY SMTT(30), <1>3, <1>7, ChangeStep DEF Locked, TypeOK
  <2> QED BY <1>5, <1>7, <2>1, <2>2, ChangeStep
<1> QED BY <1>4, <1>6, <1>7, NextCases

-----------------------------------------------------------------------------
(* Agreement *)

Agreed == playThrough = Attached(outputDevice) /\ controlSync = Attached(outputDevice)

\* What the thread with the lock has done: while it is to change nothing, or has
\* changed everything, there is agreement unless an earlier change failed.  An ID
\* that it looks up is never one it has replaced, so a second attempt does not
\* take what the first one left for done.
Changing(t) ==
    /\ (targetUIDKnown[t] /\ target[t].uid = current[t].uid /\ target[t] # current[t])
       => current[t].id < target[t].id
    /\ (pc[t] \in {"attempt", "failed"} /\ target[t] = current[t]) => failed \/ Agreed
    /\ pc[t] \in {"copy", "listen"} => controlSync = [device |-> target[t], active |-> FALSE]
    /\ pc[t] = "play" => controlSync = Attached(target[t])
    /\ pc[t] = "finish" => failed \/ Agreed
    /\ pc[t] \in {"copy", "listen", "play"} => target[t] # current[t]

AgreedOrChanging ==
    /\ stateLock = "free" => failed \/ Agreed
    /\ \A t \in Threads : stateLock = t => Changing(t)

LEMMA InitAgreed == Init => Locked /\ IDsGrow /\ AgreedOrChanging
<1> SUFFICES ASSUME Init PROVE Locked /\ IDsGrow /\ AgreedOrChanging
  OBVIOUS
<1> DEFINE first == [uid |-> PreferredUIDs[1], id |-> 0]
<1>1. /\ outputDevice = first /\ mainThread = NoPick /\ stateLock = "free"
      /\ \A t \in Threads : target[t] = first /\ current[t] = first /\ pc[t] = "idle"
      /\ playThrough = Attached(first) /\ controlSync = Attached(first)
  BY DEF Init, Attached
<1>2. first.uid \in UIDs /\ first.id = 0 /\ id = [u \in UIDs |-> 0]
  BY OutputDeviceAssumption DEF Init
<1>3. "free" \notin Threads
  BY OutputDeviceAssumption DEF Threads
<1> HIDE DEF first
<1> QED BY <1>1, <1>2, <1>3 DEF Locked, IDsGrow, Kept, AgreedOrChanging, Agreed, Holding

LEMMA NextAgreed ==
    ASSUME TypeOK, Locked, IDsGrow, AgreedOrChanging, [Next]_vars
    PROVE  AgreedOrChanging'
<1>1. "free" \notin Threads /\ "idle" \notin Holding
  BY OutputDeviceAssumption DEF Threads, Holding
<1>2. CASE Quiet
  BY <1>2, QuietStep DEF AgreedOrChanging, Changing, Agreed
<1>3. CASE ConnectedDeviceListChanged \/ OutputDeviceMenuItemSelected \/ UserChangedOutputDeviceTo
  <2>1. CASE UNCHANGED <<stateLock, outputDevice, playThrough, controlSync, pc, target,
                         targetUIDKnown, current, failed>>
    BY <2>1 DEF AgreedOrChanging, Changing, Agreed
  <2>2. ASSUME NEW t \in Threads, NEW object, Given(t, object) PROVE AgreedOrChanging'
    <3>1. stateLock # t
      BY <1>1, <2>2 DEF Given, Locked
    <3>2. \A s \in Threads \ {t} : pc'[s] = pc[s] /\ target'[s] = target[s]
      BY <2>2 DEF Given, TypeOK
    <3> QED BY <2>2, <3>1, <3>2 DEF Given, AgreedOrChanging, Changing, Agreed
  <2> QED BY <1>3, <2>1, <2>2, RequestStep
<1>4. ASSUME NEW t \in Threads, TakeStateLock(t) \/ SwitchNext(t) \/ DeadlineNext(t)
      PROVE  AgreedOrChanging'
  <2>1. /\ stateLock = t \/ (stateLock = "free" /\ TakeStateLock(t))
        /\ stateLock' \in {t, "free"}
    BY <1>4, ChangeStep
  <2>2. stateLock = t => Changing(t)
    BY DEF AgreedOrChanging
  <2>3. SUFFICES /\ stateLock' = t => Changing(t)'
                 /\ stateLock' = "free" => (failed \/ Agreed)'
    BY <1>1, <2>1 DEF AgreedOrChanging
  <2>4. /\ \A object \in Objects : object.id \in Nat /\ object.uid \in UIDs
        /\ \A u \in UIDs : id[u] \in Nat
        /\ target[t] \in Objects /\ current[t] \in Objects /\ outputDevice \in Objects
        /\ current[t].id <= id[current[t].uid] /\ outputDevice.id <= id[outputDevice.uid]
        /\ target[t].id <= id[target[t].uid]
    BY DEF Objects, TypeOK, IDsGrow, Kept
  <2>5. ASSUME NEW object \in Objects, Prepare(t, object),
               UNCHANGED <<outputDevice, playThrough, controlSync, id, connected>>,
               failed' \/ (failed' = failed /\ (failed \/ Agreed)), stateLock' = t
        PROVE  Changing(t)' /\ stateLock' # "free"
    <3>1. /\ pc'[t] = "attempt" /\ target'[t] = object /\ current'[t] = outputDevice
          /\ targetUIDKnown'[t] = Valid(object)
      BY <2>5 DEF Prepare, Goto, TypeOK
    <3>2. Valid(object) => object.id = id[object.uid]
      BY DEF Valid, Object
    <3>3. (Valid(object) /\ object.uid = outputDevice.uid /\ object # outputDevice)
          => outputDevice.id < object.id
      BY <2>4, <3>2 DEF Objects
    <3>4. failed' \/ Agreed'
      BY <2>5 DEF Agreed
    <3> QED BY <1>1, <2>5, <3>1, <3>3, <3>4 DEF Changing
  <2>6. CASE TakeStateLock(t)
    <3>1. failed \/ Agreed
      BY <2>6 DEF TakeStateLock, AgreedOrChanging
    <3>2. /\ Prepare(t, target[t]) /\ stateLock' = t
          /\ UNCHANGED <<outputDevice, playThrough, controlSync, id, connected, failed>>
      BY <2>6 DEF TakeStateLock
    <3> QED BY <2>4, <2>5, <3>1, <3>2
  <2>7. CASE Revert(t)
    <3>1. failed' = TRUE /\ stateLock' = t
      BY <1>1, <2>1, <2>7 DEF Revert, Holding, Locked, TakeStateLock, locks
    <3>2. /\ Prepare(t, current[t])
          /\ UNCHANGED <<outputDevice, playThrough, controlSync, id, connected>>
      BY <2>7 DEF Revert
    <3> QED BY <2>4, <2>5, <3>1, <3>2
  <2>8. CASE SwitchNext(t) \/ GiveUp(t)
    <3>1. stateLock = t /\ Changing(t)
      BY <2>1, <2>2, <2>8 DEF SwitchNext, TakeStateLock, Attempt, CopyFromOutputDevice, AddListeners,
          ActivatePlayThrough, Finish, Retry, GiveUp
    <3>2. CASE Attempt(t)
      <4>1. CASE target[t] = current[t]
        BY <1>1, <3>1, <3>2, <4>1 DEF Attempt, Goto, Changing, Agreed, TypeOK, locks
      <4>2. CASE target[t] # current[t]
        <5>1. /\ pc'[t] = "copy" /\ stateLock' = t
              /\ controlSync' = [device |-> target[t], active |-> FALSE]
              /\ UNCHANGED <<target, current, targetUIDKnown>>
          BY <3>1, <3>2, <4>2 DEF Attempt, Goto, TypeOK, locks
        <5> QED BY <1>1, <3>1, <4>2, <5>1 DEF Changing
      <4> QED BY <4>1, <4>2
    <3>3. CASE CopyFromOutputDevice(t)
      BY <1>1, <3>1, <3>3 DEF CopyFromOutputDevice, Goto, Changing, Agreed, TypeOK, locks
    <3>4. CASE AddListeners(t)
      <4>1. /\ pc[t] = "listen" /\ stateLock' = t /\ novaLINKAlive \in BOOLEAN
            /\ pc'[t] = IF novaLINKAlive THEN "play" ELSE "failed"
            /\ controlSync' = [controlSync EXCEPT !.active = novaLINKAlive]
            /\ UNCHANGED <<target, current, targetUIDKnown>>
        BY <3>1, <3>4 DEF AddListeners, Goto, TypeOK, locks
      <4>2. controlSync' = [device |-> target[t], active |-> novaLINKAlive] /\ target[t] # current[t]
        BY <3>1, <4>1 DEF Changing
      <4> QED BY <1>1, <3>1, <4>1, <4>2 DEF Changing, Attached
    <3>5. CASE ActivatePlayThrough(t)
      BY <1>1, <3>1, <3>5 DEF ActivatePlayThrough, Goto, Changing, Agreed, Attached, TypeOK, locks
    <3>6. CASE Finish(t)
      BY <1>1, <3>1, <3>6 DEF Finish, Goto, Changing, Agreed, TypeOK
    <3>7. CASE Retry(t)
      <4>1. /\ pc[t] = "failed" /\ pc'[t] = "attempt"
            /\ target'[t] = target[t]
               \/ (targetUIDKnown[t] /\ target'[t] = Object(target[t].uid))
            /\ UNCHANGED <<stateLock, outputDevice, playThrough, controlSync, targetUIDKnown,
                           current, failed>>
        BY <3>7 DEF Retry, Goto, TypeOK, locks
      <4>2. CASE target'[t] = target[t]
        BY <1>1, <3>1, <4>1, <4>2 DEF Changing, Agreed
      <4>3. CASE targetUIDKnown[t] /\ target'[t] = Object(target[t].uid)
        <5>1. target'[t] \in Objects /\ target'[t].uid = target[t].uid /\ target'[t].id = id[target[t].uid]
          BY <2>4, <4>3 DEF Object, Objects
        <5>2. (target[t].uid = current[t].uid /\ target'[t] # current[t]) => current[t].id < target'[t].id
          BY <2>4, <5>1 DEF Objects
        <5>3. target'[t] = current[t] => target[t] = current[t]
          BY <2>4, <3>1, <4>3, <5>1 DEF Changing
        <5> QED BY <1>1, <3>1, <4>1, <5>1, <5>2, <5>3 DEF Changing, Agreed
      <4> QED BY <4>1, <4>2, <4>3
    <3>8. CASE GiveUp(t)
      BY <1>1, <3>1, <3>8 DEF GiveUp
    <3> QED BY <2>8, <3>2, <3>3, <3>4, <3>5, <3>6, <3>7, <3>8 DEF SwitchNext
  <2> QED BY <1>4, <2>6, <2>7, <2>8 DEF DeadlineNext
<1> QED BY <1>2, <1>3, <1>4, NextCases

LEMMA AgreementInvariant == Spec => [](TypeOK /\ Locked /\ IDsGrow /\ AgreedOrChanging)
<1>1. Init => TypeOK /\ Locked /\ IDsGrow /\ AgreedOrChanging
  BY InitType, InitAgreed
<1>2. /\ TypeOK /\ Locked /\ IDsGrow /\ AgreedOrChanging
      /\ [Next]_vars
      => (TypeOK /\ Locked /\ IDsGrow /\ AgreedOrChanging)'
  BY NextType, NextLocked, NextAgreed
<1> QED BY <1>1, <1>2, PTL DEF Spec

\* Whatever goes bad or fails in the middle, and however often it is tried again,
\* nobody finds play-through or the control sync on another device than the
\* manager's between changes, unless a change has failed.
THEOREM AllInAgreement == Spec => []InAgreement
<1>1. AgreedOrChanging => InAgreement
  BY DEF AgreedOrChanging, Agreed, InAgreement
<1> QED BY <1>1, AgreementInvariant, PTL

-----------------------------------------------------------------------------
(* The volume *)

\* While the control sync listens, or is about to, NovaLINKDevice has the volume
\* of the device it is in sync with, or one the user set for it.
InSync ==
    (listening \/ \E t \in Threads : pc[t] = "listen")
    => novaLINKVolume = volume[controlSync.device.uid] \/ controlSync.device.uid \in userSet

\* What a change of the output device does to the volumes: it gives NovaLINKDevice
\* that of the new device, and listens only after that.
LEMMA ChangeVolume ==
    ASSUME TypeOK, Locked, AgreedOrChanging,
           NEW t \in Threads, TakeStateLock(t) \/ SwitchNext(t) \/ DeadlineNext(t), InSync
    PROVE  InSync' /\ UNCHANGED <<volume, userSet>>
<1> USE DEF volumes
<1>1. /\ \A s \in Threads \ {t} : pc[s] # "listen" /\ pc'[s] # "listen"
  <2>1. stateLock = t \/ stateLock = "free"
    BY ChangeStep
  <2>2. \A s \in Threads \ {t} : stateLock # s
    BY <2>1, OutputDeviceAssumption DEF Threads
  <2> QED BY <2>2, ChangeStep DEF Locked, Holding, TypeOK
<1>2. ASSUME UNCHANGED volumes, UNCHANGED controlSync, pc'[t] # "listen"
      PROVE  InSync' /\ UNCHANGED <<volume, userSet>>
  BY <1>1, <1>2 DEF InSync
<1>3. CASE TakeStateLock(t)
  BY <1>2, <1>3 DEF TakeStateLock, Prepare, Goto, TypeOK
<1>4. CASE Attempt(t)
  <2>1. pc'[t] # "listen" /\ UNCHANGED <<volume, novaLINKVolume, userSet>>
        /\ (UNCHANGED <<listening, controlSync>> \/ listening' = FALSE)
    BY <1>4 DEF Attempt, Goto, TypeOK
  <2> QED BY <1>1, <2>1 DEF InSync
<1>5. CASE CopyFromOutputDevice(t)
  <2>1. UNCHANGED <<controlSync, volume, listening, userSet>>
    BY <1>5 DEF CopyFromOutputDevice
  <2>2. CASE Valid(target[t]) /\ novaLINKAlive
    <3>1. stateLock = t
      BY <1>5 DEF CopyFromOutputDevice, Locked, Holding
    <3>2. controlSync.device = target[t]
      BY <1>5, <3>1 DEF CopyFromOutputDevice, AgreedOrChanging, Changing
    <3>3. novaLINKVolume' = volume[target[t].uid]
      BY <1>5, <2>2 DEF CopyFromOutputDevice
    <3> QED BY <2>1, <3>2, <3>3 DEF InSync
  <2>3. CASE ~(Valid(target[t]) /\ novaLINKAlive)
    BY <1>2, <1>5, <2>3 DEF CopyFromOutputDevice, Goto, TypeOK
  <2> QED BY <2>2, <2>3
<1>6. CASE AddListeners(t)
  <2>1. pc[t] = "listen" /\ UNCHANGED <<volume, novaLINKVolume, userSet>>
        /\ controlSync'.device = controlSync.device
    BY <1>6 DEF AddListeners, TypeOK
  <2> QED BY <2>1 DEF InSync
<1>7. CASE ActivatePlayThrough(t)
  BY <1>2, <1>7 DEF ActivatePlayThrough, Goto, TypeOK
<1>8. CASE Finish(t)
  BY <1>2, <1>8 DEF Finish, Goto, TypeOK
<1>9. CASE Retry(t)
  BY <1>2, <1>9 DEF Retry, Goto, TypeOK
<1>10. CASE Revert(t)
  BY <1>2, <1>10 DEF Revert, Prepare, Goto, TypeOK
<1>11. CASE GiveUp(t)
  BY <1>2, <1>11 DEF GiveUp, Goto, TypeOK
<1> QED BY <1>3, <1>4, <1>5, <1>6, <1>7, <1>8, <1>9, <1>10, <1>11 DEF SwitchNext, DeadlineNext

LEMMA NextVolume ==
    ASSUME TypeOK, Locked, AgreedOrChanging, InSync, VolumeKept, [Next]_vars
    PROVE  InSync' /\ VolumeKept'
<1> USE DEF switch
<1>1. CASE \E u \in UIDs : Unplug(u) \/ Plug(u)
  BY <1>1 DEF Unplug, Plug, volumes, InSync, VolumeKept
<1>2. CASE CoreAudioRestarts
  BY <1>2 DEF CoreAudioRestarts, InSync, VolumeKept
<1>3. CASE SetVolume
  BY <1>3 DEF SetVolume, InSync, VolumeKept
<1>4. CASE CopyToOutputDevice
  <2> DEFINE u == controlSync.device.uid
  <2>1. /\ UNCHANGED <<controlSync, pc, novaLINKVolume, listening, userSet>>
        /\ volume' = volume \/ (listening /\ volume' = [volume EXCEPT ![u] = novaLINKVolume])
    BY <1>4 DEF CopyToOutputDevice
  <2>2. u \in UIDs
    BY DEF TypeOK, Objects
  <2>3. listening => novaLINKVolume = volume[u] \/ u \in userSet
    BY DEF InSync
  <2>4. volume \in [UIDs -> 0 .. 2]
    BY DEF TypeOK
  <2> HIDE DEF u
  <2>5. VolumeKept'
    BY <2>1, <2>2, <2>3, <2>4 DEF VolumeKept
  <2>6. InSync'
    BY <2>1, <2>2, <2>4 DEF InSync, u
  <2> QED BY <2>5, <2>6
<1>5. CASE UNCHANGED vars
  BY <1>5 DEF vars, volumes, InSync, VolumeKept
<1>6. CASE ConnectedDeviceListChanged \/ OutputDeviceMenuItemSelected \/ UserChangedOutputDeviceTo
  <2>1. UNCHANGED volumes
    BY <1>6 DEF ConnectedDeviceListChanged, OutputDeviceMenuItemSelected, UserChangedOutputDeviceTo
  <2>2. controlSync' = controlSync
        /\ (pc' = pc \/ \E t \in Threads : pc' = [pc EXCEPT ![t] = "lock"])
    BY <1>6, RequestStep DEF Given
  <2> QED BY <2>1, <2>2 DEF volumes, InSync, VolumeKept, TypeOK
<1>7. ASSUME NEW t \in Threads, TakeStateLock(t) \/ SwitchNext(t) \/ DeadlineNext(t)
      PROVE  InSync' /\ VolumeKept'
  BY <1>7, ChangeVolume DEF VolumeKept
<1> QED BY <1>1, <1>2, <1>3, <1>4, <1>5, <1>6, <1>7, NextCases DEF Quiet

\* No device's volume becomes another's, neither by a late block of the listener
\* nor while the control sync is moved to another device.
THEOREM VolumesAreKept == Spec => []VolumeKept
<1>1. Init => InSync /\ VolumeKept
  <2> SUFFICES ASSUME Init PROVE InSync /\ VolumeKept
    OBVIOUS
  <2>1. PreferredUIDs[1] \in UIDs
    BY OutputDeviceAssumption
  <2>2. controlSync.device.uid = PreferredUIDs[1] /\ volume = InitialVolume /\ novaLINKVolume = 0
    BY DEF Init
  <2>3. InitialVolume[PreferredUIDs[1]] = 0
    BY <2>1 DEF InitialVolume
  <2> QED BY <2>2, <2>3 DEF InSync, VolumeKept
<1>2. /\ TypeOK /\ Locked /\ AgreedOrChanging /\ InSync /\ VolumeKept
      /\ [Next]_vars
      => InSync' /\ VolumeKept'
  BY NextVolume
<1> QED BY <1>1, <1>2, AgreementInvariant, PTL DEF Spec

-----------------------------------------------------------------------------
(* The device that is played to *)

LEMMA NextConnected ==
    ASSUME TypeOK, OutputConnected, [Next]_vars
    PROVE  OutputConnected'
<1> USE DEF hardware, switch, locks
<1>1. ASSUME deviceListChanged' \/ failed' \/ \E t \in Threads : pc'[t] # "idle"
      PROVE  OutputConnected'
  BY <1>1 DEF OutputConnected
<1>2. ASSUME UNCHANGED <<connected, id, deviceListChanged, outputDevice, failed, pc>>
      PROVE  OutputConnected'
  BY <1>2 DEF OutputConnected, Valid, Object
<1>3. CASE Quiet
  <2>1. CASE \E u \in UIDs : Unplug(u) \/ Plug(u)
    BY <1>1, <2>1 DEF Unplug, Plug
  <2>2. CASE CoreAudioRestarts
    BY <1>1, <2>2 DEF CoreAudioRestarts
  <2>3. CASE SetVolume \/ CopyToOutputDevice \/ UNCHANGED vars
    BY <1>2, <2>3 DEF SetVolume, CopyToOutputDevice, vars, choice
  <2> QED BY <1>3, <2>1, <2>2, <2>3 DEF Quiet
<1>4. CASE ConnectedDeviceListChanged
  <2>1. CASE FindPreferredDevice = {}
    <3>1. connected' = {}
      BY <1>4, <2>1, Preferred DEF ConnectedDeviceListChanged
    <3> QED BY <3>1 DEF OutputConnected
  <2>2. CASE FindPreferredDevice = {outputDevice}
    <3>1. Valid(outputDevice) /\ UNCHANGED <<connected, id, outputDevice>>
      BY <1>4, <2>2, Preferred DEF ConnectedDeviceListChanged
    <3> QED BY <3>1 DEF OutputConnected, Valid, Object
  <2>3. CASE ~(FindPreferredDevice \in {{}, {outputDevice}})
    <3>1. pc' = [pc EXCEPT !["hal"] = "lock"] /\ "hal" \in Threads
      BY <1>4, <2>3 DEF ConnectedDeviceListChanged, BeginSetOutputDevice, Goto, Threads
    <3> QED BY <1>1, <3>1 DEF TypeOK
  <2> QED BY <2>1, <2>2, <2>3
<1>5. CASE OutputDeviceMenuItemSelected
  BY <1>2, <1>5 DEF OutputDeviceMenuItemSelected
<1>6. CASE UserChangedOutputDeviceTo
  <2>1. PICK t \in Threads : pc' = [pc EXCEPT ![t] = "lock"]
    BY <1>6 DEF UserChangedOutputDeviceTo, BeginSetOutputDevice, Goto, Threads
  <2> QED BY <1>1, <2>1 DEF TypeOK
<1>7. ASSUME NEW t \in Threads, TakeStateLock(t) \/ SwitchNext(t) \/ DeadlineNext(t)
      PROVE  OutputConnected'
  <2>1. ASSUME NEW place, place # "idle", Goto(t, place) PROVE OutputConnected'
    BY <1>1, <2>1 DEF Goto, TypeOK
  <2>2. CASE TakeStateLock(t) \/ Revert(t)
    BY <2>1, <2>2 DEF TakeStateLock, Revert, Prepare
  <2>3. CASE Attempt(t) \/ CopyFromOutputDevice(t) \/ AddListeners(t) \/ ActivatePlayThrough(t) \/ Retry(t)
    BY <2>1, <2>3 DEF Attempt, CopyFromOutputDevice, AddListeners, ActivatePlayThrough, Retry
  <2>4. CASE Finish(t)
    <3>1. CASE Valid(outputDevice)
      BY <2>4, <3>1 DEF Finish, OutputConnected, Valid, Object
    <3>2. CASE ~Valid(outputDevice)
      BY <2>1, <2>4, <3>2 DEF Finish
    <3> QED BY <3>1, <3>2
  <2>5. CASE GiveUp(t)
    BY <1>1, <2>5 DEF GiveUp
  <2> QED BY <1>7, <2>2, <2>3, <2>4, <2>5 DEF SwitchNext, DeadlineNext
<1> QED BY <1>3, <1>4, <1>5, <1>6, <1>7, NextCases

\* Once all notifications are dealt with the app plays to a device that is there,
\* whatever came, went and was picked meanwhile, unless a change has failed.
THEOREM OutputIsConnected == Spec => []OutputConnected
<1>1. Init => OutputConnected
  <2> SUFFICES ASSUME Init PROVE OutputConnected
    OBVIOUS
  <2>1. PreferredUIDs[1] \in UIDs
    BY OutputDeviceAssumption
  <2>2. connected = UIDs /\ id = [u \in UIDs |-> 0] /\ outputDevice = [uid |-> PreferredUIDs[1], id |-> 0]
    BY DEF Init
  <2> QED BY <2>1, <2>2 DEF OutputConnected, Valid, Object
<1>2. TypeOK /\ OutputConnected /\ [Next]_vars => OutputConnected'
  BY NextConnected
<1> QED BY <1>1, <1>2, TypeCorrect, PTL DEF Spec
=============================================================================
