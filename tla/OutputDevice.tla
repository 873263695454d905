---------------------------- MODULE OutputDevice ----------------------------
(***************************************************************************)
(* Which real device the companion app plays to.                           *)
(*                                                                         *)
(*   - NovaLINKAudioDeviceManager changes the output device under its      *)
(*     stateLock: it takes play-through down, points the control sync at   *)
(*     the new device and brings play-through up again.  An AudioObjectID  *)
(*     may have gone bad meanwhile; then it looks the device up by its UID *)
(*     and tries again until a deadline, and at last reverts.              *)
(*   - NovaLINKPreferredOutputDevices has it changed when devices come and *)
(*     go, debounced, on a serial queue, under a lock of its own.          *)
(*   - NovaLINKOutputDeviceMenuSection has it changed when the user picks  *)
(*     one, on a concurrent queue, after the main thread has put it first  *)
(*     in the list of preferred devices.                                   *)
(*   - NovaLINKDeviceControlSync copies the volume of the output device to *)
(*     NovaLINKDevice when it starts, and the other way on notifications.  *)
(*                                                                         *)
(* The environment plugs and unplugs devices and restarts coreaudiod, all  *)
(* of which give devices new IDs.  NovaLINKDevice is the system's default. *)
(* The two play-throughs go up and down together and are one here.  What   *)
(* play-through does with its IOProcs is in PlayThrough.                   *)
(***************************************************************************)
EXTENDS Naturals, Sequences, FiniteSetsExt

CONSTANTS
    UIDs,           \* real output devices
    PreferredUIDs,  \* the list at launch, most preferred first
    Pickers,        \* blocks of the concurrent queue, one for each pick
    MaxEvents,      \* bound: devices plugged or unplugged, daemon restarts
    MaxUserActions  \* bound: picks in the menu and settings of the volume

ASSUME OutputDeviceAssumption ==
    /\ PreferredUIDs \in Seq(UIDs) /\ PreferredUIDs # << >>
    /\ Pickers \cap {"hal", "free"} = {}
    /\ MaxEvents \in Nat /\ MaxUserActions \in Nat

Threads == Pickers \cup {"hal"}     \* _halQueue and the blocks

VARIABLES
    connected,          \* devices that are plugged in
    id,                 \* device -> its AudioObjectID while it is
    novaLINKAlive,      \* the app's AudioObjectID of NovaLINKDevice is good
    preferredDeviceUIDs,
    deviceListChanged,  \* a change was notified and its debounced block is queued
    preferredLock,      \* the thread in connectedDeviceListChanged, or "free"
    stateLock,          \* the thread in setOutputDeviceWithID, or "free"
    outputDevice,
    playThrough,        \* its output device and whether it is active
    controlSync,        \* the same for the control sync
    pc,                 \* thread -> where it is in setOutputDeviceWithIDImpl
    target,             \* thread -> newDeviceID
    targetUIDKnown,     \* thread -> targetDeviceUID is not NULL
    current,            \* thread -> currentDeviceID
    revertOnFailure,
    failed,             \* auxiliary: the last change of the device failed
    mainThread,         \* what was picked in the menu, or NoPick
    volume,             \* device -> its volume
    novaLINKVolume,
    listening,          \* the control sync's listeners are registered
    copyBlocks,         \* a block of the volume listener is queued
    userSet,            \* auxiliary: devices that were to get a volume the user set
    eventsLeft,
    userActionsLeft

hardware == <<connected, id, novaLINKAlive, eventsLeft>>
locks == <<preferredLock, stateLock>>
switch == <<outputDevice, playThrough, controlSync, pc, target, targetUIDKnown, current,
            revertOnFailure, failed>>
choice == <<preferredDeviceUIDs, deviceListChanged, mainThread>>
volumes == <<volume, novaLINKVolume, listening, copyBlocks, userSet>>
vars == <<hardware, locks, switch, choice, volumes, userActionsLeft>>

Objects == [uid : UIDs, id : Nat]
PCs == {"idle", "lock", "attempt", "copy", "listen", "play", "finish", "failed"}
NoPick == [uid |-> "none"]

TypeOK ==
    /\ connected \in SUBSET UIDs /\ id \in [UIDs -> Nat]
    /\ novaLINKAlive \in BOOLEAN
    /\ preferredDeviceUIDs \in Seq(UIDs)
    /\ deviceListChanged \in BOOLEAN
    /\ preferredLock \in {"hal", "free"} /\ stateLock \in Threads \cup {"free"}
    /\ outputDevice \in Objects
    /\ playThrough \in [device : Objects, active : BOOLEAN]
    /\ controlSync \in [device : Objects, active : BOOLEAN]
    /\ pc \in [Threads -> PCs]
    /\ target \in [Threads -> Objects] /\ current \in [Threads -> Objects]
    /\ targetUIDKnown \in [Threads -> BOOLEAN] /\ revertOnFailure \in [Threads -> BOOLEAN]
    /\ failed \in BOOLEAN
    /\ mainThread \in Objects \cup {NoPick}
    /\ volume \in [UIDs -> 0 .. 2] /\ novaLINKVolume \in 0 .. 2
    /\ listening \in BOOLEAN /\ copyBlocks \in BOOLEAN
    /\ userSet \in SUBSET UIDs
    /\ eventsLeft \in Nat /\ userActionsLeft \in Nat

Object(uid) == [uid |-> uid, id |-> id[uid]]
Valid(object) == object.uid \in connected /\ object = Object(object.uid)

\* The volumes differ, so that a copy shows: 0 for the first preferred device.
InitialVolume == [u \in UIDs |-> IF u = PreferredUIDs[1] THEN 0 ELSE 1]

\* The app has come up on the most preferred device.
Init ==
    LET first == [uid |-> PreferredUIDs[1], id |-> 0]
        attachment == [device |-> first, active |-> TRUE]
    IN  /\ connected = UIDs
        /\ id = [u \in UIDs |-> 0]
        /\ novaLINKAlive = TRUE
        /\ preferredDeviceUIDs = PreferredUIDs
        /\ deviceListChanged = FALSE
        /\ preferredLock = "free" /\ stateLock = "free"
        /\ outputDevice = first
        /\ playThrough = attachment /\ controlSync = attachment
        /\ pc = [t \in Threads |-> "idle"]
        /\ target = [t \in Threads |-> first]
        /\ current = [t \in Threads |-> first]
        /\ targetUIDKnown = [t \in Threads |-> FALSE]
        /\ revertOnFailure = [t \in Threads |-> FALSE]
        /\ failed = FALSE
        /\ mainThread = NoPick
        /\ volume = InitialVolume /\ novaLINKVolume = 0
        /\ listening = TRUE /\ copyBlocks = FALSE /\ userSet = {}
        /\ eventsLeft = MaxEvents /\ userActionsLeft = MaxUserActions

Goto(t, place) == pc' = [pc EXCEPT ![t] = place]

-----------------------------------------------------------------------------
(* Hardware.                                                               *)

Event == eventsLeft > 0 /\ eventsLeft' = eventsLeft - 1

Unplug(u) ==
    /\ Event
    /\ u \in connected
    /\ connected' = connected \ {u}
    /\ deviceListChanged' = TRUE
    /\ UNCHANGED <<id, novaLINKAlive, locks, switch, preferredDeviceUIDs, mainThread, volumes, userActionsLeft>>

Plug(u) ==
    /\ Event
    /\ u \notin connected
    /\ connected' = connected \cup {u}
    /\ id' = [id EXCEPT ![u] = @ + 1]
    /\ deviceListChanged' = TRUE
    /\ UNCHANGED <<novaLINKAlive, locks, switch, preferredDeviceUIDs, mainThread, volumes, userActionsLeft>>

\* Every object gets a new ID, NovaLINKDevice too: its listeners are gone and
\* blocks of theirs ignore the new one.
CoreAudioRestarts ==
    /\ Event
    /\ id' = [u \in UIDs |-> id[u] + 1]
    /\ novaLINKAlive' = FALSE
    /\ deviceListChanged' = TRUE
    /\ listening' = FALSE /\ copyBlocks' = FALSE
    /\ UNCHANGED <<connected, locks, switch, preferredDeviceUIDs, mainThread,
                   volume, novaLINKVolume, userSet, userActionsLeft>>

-----------------------------------------------------------------------------
(* Who wants another device.                                               *)

\* findPreferredDevice: one of the list, else the one in use, else any.
FindPreferredDevice ==
    LET listed == {i \in DOMAIN preferredDeviceUIDs : preferredDeviceUIDs[i] \in connected}
    IN  IF listed # {} THEN {Object(preferredDeviceUIDs[Min(listed)])}
        ELSE IF Valid(outputDevice) THEN {outputDevice}
        ELSE {Object(u) : u \in connected}

BeginSetOutputDevice(t, object) ==
    /\ Goto(t, "lock")
    /\ target' = [target EXCEPT ![t] = object]
    /\ revertOnFailure' = [revertOnFailure EXCEPT ![t] = TRUE]
    /\ UNCHANGED <<outputDevice, playThrough, controlSync, targetUIDKnown, current, failed>>

\* Mutant: only looks whether the device in use is gone.
ConnectedDeviceListChanged_Gone ==
    /\ deviceListChanged
    /\ pc["hal"] = "idle"
    /\ preferredLock = "free"
    /\ deviceListChanged' = FALSE
    /\ IF FindPreferredDevice = {} \/ outputDevice.uid \in connected
       THEN UNCHANGED <<switch, preferredLock>>
       ELSE /\ preferredLock' = "hal"
            /\ \E object \in FindPreferredDevice : BeginSetOutputDevice("hal", object)
    /\ UNCHANGED <<hardware, stateLock, preferredDeviceUIDs, mainThread, volumes, userActionsLeft>>

\* The debounced block, on the serial queue.
ConnectedDeviceListChanged ==
    /\ deviceListChanged
    /\ pc["hal"] = "idle"
    /\ preferredLock = "free"
    /\ deviceListChanged' = FALSE
    /\ IF FindPreferredDevice \in {{}, {outputDevice}}
       THEN UNCHANGED <<switch, preferredLock>>
       ELSE /\ preferredLock' = "hal"
            /\ \E object \in FindPreferredDevice : BeginSetOutputDevice("hal", object)
    /\ UNCHANGED <<hardware, stateLock, preferredDeviceUIDs, mainThread, volumes, userActionsLeft>>

\* A menu item is selected: the main thread looks under stateLock whether it is
\* another device.
OutputDeviceMenuItemSelected ==
    /\ mainThread = NoPick
    /\ \E t \in Pickers : pc[t] = "idle"
    /\ userActionsLeft > 0
    /\ userActionsLeft' = userActionsLeft - 1
    /\ stateLock = "free"
    /\ \E u \in connected : Object(u) # outputDevice /\ mainThread' = Object(u)
    /\ UNCHANGED <<hardware, locks, switch, preferredDeviceUIDs, deviceListChanged, volumes>>

\* It puts it first in the list, under the other lock, unless the device is
\* gone, and has a block change to it.  The list may hold a device twice.
UserChangedOutputDeviceTo ==
    /\ mainThread # NoPick
    /\ preferredLock = "free"
    /\ mainThread' = NoPick
    /\ preferredDeviceUIDs' =
           IF Valid(mainThread)
           THEN LET list == <<mainThread.uid>> \o preferredDeviceUIDs
                IN  SubSeq(list, 1, Min({3, Len(list)}))
           ELSE preferredDeviceUIDs
    /\ \E t \in Pickers : pc[t] = "idle" /\ BeginSetOutputDevice(t, mainThread)
    /\ UNCHANGED <<hardware, locks, deviceListChanged, volumes, userActionsLeft>>

-----------------------------------------------------------------------------
(* setOutputDeviceWithIDImpl.                                              *)

\* With the lock, and again to revert: what it has to know before it tries.
Prepare(t, object) ==
    /\ Goto(t, "attempt")
    /\ target' = [target EXCEPT ![t] = object]
    /\ targetUIDKnown' = [targetUIDKnown EXCEPT ![t] = Valid(object)]
    /\ current' = [current EXCEPT ![t] = outputDevice]
    /\ novaLINKAlive' = TRUE

\* Mutant: the lock does not exclude the other threads.
TakeStateLock_Shared(t) ==
    /\ pc[t] = "lock"
    /\ stateLock' = t
    /\ Prepare(t, target[t])
    /\ UNCHANGED <<connected, id, eventsLeft, preferredLock, outputDevice, playThrough, controlSync,
                   revertOnFailure, failed, choice, volumes, userActionsLeft>>

\* setOutputDeviceWithIDImpl begins.
TakeStateLock(t) ==
    /\ pc[t] = "lock"
    /\ stateLock = "free"
    /\ stateLock' = t
    /\ Prepare(t, target[t])
    /\ UNCHANGED <<connected, id, eventsLeft, preferredLock, outputDevice, playThrough, controlSync,
                   revertOnFailure, failed, choice, volumes, userActionsLeft>>

\* Another device: play-through is deactivated, the control sync is given the
\* device and holds its mutex until it is active or has failed.
Attempt(t) ==
    /\ pc[t] = "attempt"
    /\ IF target[t] = current[t]
       THEN /\ Goto(t, "finish")
            /\ UNCHANGED <<playThrough, controlSync, listening>>
       ELSE /\ Goto(t, "copy")
            /\ playThrough' = [playThrough EXCEPT !.active = FALSE]
            /\ controlSync' = [device |-> target[t], active |-> FALSE]
            /\ listening' = FALSE
    /\ UNCHANGED <<hardware, locks, outputDevice, target, targetUIDKnown, current, revertOnFailure,
                   failed, choice, volume, novaLINKVolume, copyBlocks, userSet, userActionsLeft>>

\* Mutant: starts without the volume of the new device.
CopyFromOutputDevice_Skipped(t) ==
    /\ pc[t] = "copy"
    /\ IF Valid(target[t]) /\ novaLINKAlive
       THEN Goto(t, "listen")
       ELSE Goto(t, "failed")
    /\ UNCHANGED <<hardware, locks, outputDevice, playThrough, controlSync, target, targetUIDKnown,
                   current, revertOnFailure, failed, choice, volumes, userActionsLeft>>

\* NovaLINKDeviceControlSync::Activate takes over the volume ...
CopyFromOutputDevice(t) ==
    /\ pc[t] = "copy"
    /\ IF Valid(target[t]) /\ novaLINKAlive
       THEN Goto(t, "listen") /\ novaLINKVolume' = volume[target[t].uid]
       ELSE Goto(t, "failed") /\ UNCHANGED novaLINKVolume
    /\ UNCHANGED <<hardware, locks, outputDevice, playThrough, controlSync, target, targetUIDKnown,
                   current, revertOnFailure, failed, choice, volume, listening, copyBlocks, userSet,
                   userActionsLeft>>

\* ... and adds its listeners.
AddListeners(t) ==
    /\ pc[t] = "listen"
    /\ listening' = novaLINKAlive
    /\ controlSync' = [controlSync EXCEPT !.active = novaLINKAlive]
    /\ Goto(t, IF novaLINKAlive THEN "play" ELSE "failed")
    /\ UNCHANGED <<hardware, locks, outputDevice, playThrough, target, targetUIDKnown, current,
                   revertOnFailure, failed, choice, volume, novaLINKVolume, copyBlocks, userSet,
                   userActionsLeft>>

\* Play-through is given the device and activated.
ActivatePlayThrough(t) ==
    /\ pc[t] = "play"
    /\ LET works == Valid(target[t]) /\ novaLINKAlive
       IN  /\ playThrough' = [device |-> target[t], active |-> works]
           /\ IF works
              THEN Goto(t, "finish") /\ outputDevice' = target[t] /\ failed' = FALSE
              ELSE Goto(t, "failed") /\ UNCHANGED <<outputDevice, failed>>
    /\ UNCHANGED <<hardware, locks, controlSync, target, targetUIDKnown, current, revertOnFailure,
                   choice, volumes, userActionsLeft>>

\* Mutant: waits for the main thread to update the menu.
Finish_WaitsForMenu(t) ==
    /\ pc[t] = "finish"
    /\ IF Valid(outputDevice)
       THEN /\ mainThread = NoPick
            /\ Goto(t, "idle")
            /\ stateLock' = "free"
            /\ preferredLock' = IF preferredLock = t THEN "free" ELSE preferredLock
       ELSE Goto(t, "failed") /\ UNCHANGED locks
    /\ UNCHANGED <<hardware, outputDevice, playThrough, controlSync, target, targetUIDKnown, current,
                   revertOnFailure, failed, choice, volumes, userActionsLeft>>

\* The output device has a UID; the menu is updated later.
Finish(t) ==
    /\ pc[t] = "finish"
    /\ IF Valid(outputDevice)
       THEN /\ Goto(t, "idle")
            /\ stateLock' = "free"
            /\ preferredLock' = IF preferredLock = t THEN "free" ELSE preferredLock
       ELSE Goto(t, "failed") /\ UNCHANGED locks
    /\ UNCHANGED <<hardware, outputDevice, playThrough, controlSync, target, targetUIDKnown, current,
                   revertOnFailure, failed, choice, volumes, userActionsLeft>>

\* Before the deadline: looks up the ID the device has now, if there is one.
Retry(t) ==
    /\ pc[t] = "failed"
    /\ Goto(t, "attempt")
    /\ novaLINKAlive' = TRUE
    /\ target' = IF targetUIDKnown[t] /\ target[t].uid \in connected
                 THEN [target EXCEPT ![t] = Object(target[t].uid)]
                 ELSE target
    /\ UNCHANGED <<connected, id, eventsLeft, locks, outputDevice, playThrough, controlSync,
                   targetUIDKnown, current, revertOnFailure, failed, choice, volumes,
                   userActionsLeft>>

\* failedToSetOutputDevice: at the deadline it sets the device it began with.
Revert(t) ==
    /\ pc[t] = "failed"
    /\ revertOnFailure[t]
    /\ revertOnFailure' = [revertOnFailure EXCEPT ![t] = FALSE]
    /\ failed' = TRUE
    /\ Prepare(t, current[t])
    /\ UNCHANGED <<connected, id, eventsLeft, locks, outputDevice, playThrough, controlSync, choice,
                   volumes, userActionsLeft>>

\* It has failed to do that, too.
GiveUp(t) ==
    /\ pc[t] = "failed"
    /\ ~revertOnFailure[t]
    /\ failed' = TRUE
    /\ Goto(t, "idle")
    /\ stateLock' = "free"
    /\ preferredLock' = IF preferredLock = t THEN "free" ELSE preferredLock
    /\ UNCHANGED <<hardware, outputDevice, playThrough, controlSync, target, targetUIDKnown, current,
                   revertOnFailure, choice, volumes, userActionsLeft>>

-----------------------------------------------------------------------------
(* The volume.                                                             *)

\* The user sets NovaLINKDevice's volume and the listener queues a block.
SetVolume ==
    /\ userActionsLeft > 0
    /\ userActionsLeft' = userActionsLeft - 1
    /\ novaLINKAlive
    /\ novaLINKVolume' = 2
    /\ copyBlocks' = (copyBlocks \/ listening)
    /\ userSet' = userSet \cup {controlSync.device.uid}
    /\ UNCHANGED <<hardware, locks, switch, choice, volume, listening>>

\* The block copies the volume NovaLINKDevice has when it runs.
CopyToOutputDevice ==
    /\ copyBlocks
    /\ \A t \in Threads : pc[t] \notin {"copy", "listen"}
    /\ copyBlocks' = FALSE
    /\ volume' = IF listening /\ Valid(controlSync.device)
                 THEN [volume EXCEPT ![controlSync.device.uid] = novaLINKVolume]
                 ELSE volume
    /\ UNCHANGED <<hardware, locks, switch, choice, novaLINKVolume, listening, userSet,
                   userActionsLeft>>

-----------------------------------------------------------------------------
SwitchNext(t) ==
    \/ Attempt(t) \/ CopyFromOutputDevice(t) \/ AddListeners(t) \/ ActivatePlayThrough(t)
    \/ Finish(t) \/ Retry(t)
DeadlineNext(t) == Revert(t) \/ GiveUp(t)

Next ==
    \/ \E u \in UIDs : Unplug(u) \/ Plug(u)
    \/ CoreAudioRestarts
    \/ ConnectedDeviceListChanged
    \/ OutputDeviceMenuItemSelected \/ UserChangedOutputDeviceTo
    \/ \E t \in Threads : TakeStateLock(t) \/ SwitchNext(t) \/ DeadlineNext(t)
    \/ SetVolume \/ CopyToOutputDevice

\* Blocks are run, threads go on and get the locks they wait for, and while
\* changing the device goes on failing its deadline passes.
Fairness ==
    /\ SF_vars(ConnectedDeviceListChanged)
    /\ SF_vars(UserChangedOutputDeviceTo)
    /\ \A t \in Threads :
           SF_vars(TakeStateLock(t)) /\ WF_vars(SwitchNext(t)) /\ SF_vars(DeadlineNext(t))
    /\ WF_vars(CopyToOutputDevice)

Spec == Init /\ [][Next]_vars /\ Fairness

-----------------------------------------------------------------------------
(* Correctness.                                                            *)

Attached(object) == [device |-> object, active |-> TRUE]

\* Between changes of the output device, play-through and the control sync are
\* active on the device the manager says it is, also after IDs went bad in the
\* middle of a change and it was tried again; unless a change has failed.
InAgreement ==
    (stateLock = "free" /\ ~failed)
    => playThrough = Attached(outputDevice) /\ controlSync = Attached(outputDevice)

\* The volume of a real device changes only to one the user set while controls
\* were in sync with that device: a block queued by the listener before the
\* output device changed does not give the new device the old one's volume.
VolumeKept ==
    \A u \in UIDs : volume[u] # InitialVolume[u] => u \in userSet

\* When devices have come and gone and the last notification was dealt with,
\* the app plays to a device that is there, under the ID it has now, if there
\* is one; unless a change has failed.
OutputConnected ==
    (/\ ~deviceListChanged /\ ~failed
     /\ \A t \in Threads : pc[t] = "idle"
     /\ connected # {})
    => Valid(outputDevice)

\* A change of the output device ends, and the main thread does not wait for
\* ever for the lock of the thread that makes it.
ChangesEnd ==
    /\ \A t \in Threads : pc[t] # "idle" ~> pc[t] = "idle"
    /\ mainThread # NoPick ~> mainThread = NoPick
=============================================================================
