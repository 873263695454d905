------------------------------- MODULE Device -------------------------------
(***************************************************************************)
(* NovaLINK_Device as the HAL sees it: the properties that change while    *)
(* the driver runs, and how the HAL learns of it.                          *)
(*                                                                         *)
(*   - Which output controls a device has and its sample rate change only  *)
(*     in PerformConfigChange.  A request stores the wanted value as       *)
(*     pending and asks the host, from the global serial queue, to call    *)
(*     back; the host may refuse.  Requests come from the companion app,   *)
(*     which reads the enabled controls and then sets them, from the HAL   *)
(*     and from the device itself when the app's last client is removed.   *)
(*   - A setting (mute, volume, a stream's active flag) and the state of   *)
(*     the null device change at once, and a notification is queued.       *)
(*                                                                         *)
(* mStateMutex makes each of these calls one step, except where it is not  *)
(* held throughout: the app's two calls, and the setter of the null        *)
(* device, which checks, toggles and announces.  The serial queue also     *)
(* carries the XPC requests of StartIO, which only take time.  How the HAL *)
(* reads properties is the subject of DriverObjects.                       *)
(***************************************************************************)
EXTENDS Naturals, Sequences

CONSTANTS
    Devices,        \* the main device and the one for UI sounds
    Main,
    Rates,          \* sample rates
    kSampleRateDefault,
    Setters,        \* threads that set the null device's state
    MaxRequests,    \* bound: calls that request a change or set something
    MaxAborts       \* bound: how often the host refuses

ASSUME DeviceAssumption ==
    /\ Main \in Devices
    /\ kSampleRateDefault \in Rates
    /\ MaxRequests \in Nat /\ MaxAborts \in Nat

VARIABLES
    active,             \* device -> its controls that are active
    mPendingOutputControlsEnabled,
    mSampleRate,        \* of the loopback and of both streams
    mPendingSampleRate,
    mMuted,             \* a setting of the main device
    nullDeviceActive,
    dispatchQueue,      \* CADispatchQueue::GetGlobalSerialQueue
    hostRequests,       \* changes the host was asked for, in order
    seen,               \* property -> the value the HAL read last
    appClients,         \* device -> HAL clients that are the companion app
    matching,           \* what MatchControlsListOf read, or NotMatching
    setter,             \* thread -> where it is in setting the null device
    requestsLeft,
    abortsLeft

config == <<active, mPendingOutputControlsEnabled, mSampleRate, mPendingSampleRate>>
setting == <<mMuted, nullDeviceActive, seen, setter>>
app == <<appClients, matching>>
host == <<dispatchQueue, hostRequests>>
vars == <<config, setting, app, host, requestsLeft, abortsLeft>>

Controls == {"volume", "mute"}
ChangeActions == {"SetSampleRate", "SetEnabledControls"}
Announceable == {"muted", "deviceIsAlive", "deviceList"}
Requests == Devices \X ChangeActions
Notifications == {Main} \X Announceable
NotMatching == {"idle"}

\* Recording clients get the companion app's microphone.
SupportsMicMix(d) == d = Main

\* Every variable has the type of its field.
TypeOK ==
    /\ active \in [Devices -> SUBSET Controls]
    /\ mPendingOutputControlsEnabled \in [Devices -> SUBSET Controls]
    /\ mSampleRate \in [Devices -> Rates]
    /\ mPendingSampleRate \in [Devices -> Rates]
    /\ mMuted \in BOOLEAN /\ nullDeviceActive \in BOOLEAN
    /\ dispatchQueue \in Seq(Requests \cup Notifications)
    /\ hostRequests \in Seq(Requests)
    /\ seen \in [Announceable -> BOOLEAN]
    /\ appClients \in [Devices -> 0 .. 2]
    /\ matching \in {NotMatching} \cup SUBSET Controls
    /\ setter \in [Setters -> {"idle", "activate", "deactivate", "announce"}]
    /\ requestsLeft \in 0 .. MaxRequests
    /\ abortsLeft \in 0 .. MaxAborts

\* After StaticInitializer.  Only the main device's mute control has an ID.
Init ==
    /\ active = [d \in Devices |-> IF d = Main THEN Controls ELSE {"volume"}]
    /\ mPendingOutputControlsEnabled = [d \in Devices |-> Controls]
    /\ mSampleRate = [d \in Devices |-> kSampleRateDefault]
    /\ mPendingSampleRate = [d \in Devices |-> kSampleRateDefault]
    /\ mMuted = FALSE
    /\ nullDeviceActive = FALSE
    /\ dispatchQueue = << >>
    /\ hostRequests = << >>
    /\ seen = [p \in Announceable |-> FALSE]
    /\ appClients = [d \in Devices |-> 0]
    /\ matching = NotMatching
    /\ setter = [s \in Setters |-> "idle"]
    /\ requestsLeft = MaxRequests
    /\ abortsLeft = MaxAborts

Budget == requestsLeft > 0 /\ requestsLeft' = requestsLeft - 1
Dispatch(item) == dispatchQueue' = Append(dispatchQueue, item)

-----------------------------------------------------------------------------
(* Changes of the configuration.                                           *)

\* Mutant: asks the host only when the volume control changes.
RequestEnabledControls_VolumeOnly(d, enabled) ==
    LET changed == {c \in Controls : (c \in active[d]) # (c \in enabled)}
    IN  /\ mPendingOutputControlsEnabled' =
               [mPendingOutputControlsEnabled EXCEPT ![d] = (@ \ changed) \cup (enabled \cap changed)]
        /\ IF "volume" \notin changed
           THEN UNCHANGED dispatchQueue
           ELSE Dispatch(<<d, "SetEnabledControls">>)

\* Only the controls that differ from their current state become pending.
RequestEnabledControls(d, enabled) ==
    LET changed == {c \in Controls : (c \in active[d]) # (c \in enabled)}
    IN  /\ mPendingOutputControlsEnabled' =
               [mPendingOutputControlsEnabled EXCEPT ![d] = (@ \ changed) \cup (enabled \cap changed)]
        /\ IF changed = {}
           THEN UNCHANGED dispatchQueue
           ELSE Dispatch(<<d, "SetEnabledControls">>)

\* By a client of the HAL, or with the format of one of the streams.
RequestSampleRate(d) ==
    /\ Budget
    /\ \E rate \in Rates \ {mSampleRate[d]} :
           mPendingSampleRate' = [mPendingSampleRate EXCEPT ![d] = rate]
    /\ Dispatch(<<d, "SetSampleRate">>)
    /\ UNCHANGED <<active, mPendingOutputControlsEnabled, mSampleRate, setting, app,
                   hostRequests, abortsLeft>>

\* The app's process opens the device, more than once when it runs twice.
AddClient(d) ==
    /\ Budget
    /\ appClients[d] < 2
    /\ appClients' = [appClients EXCEPT ![d] = @ + 1]
    /\ UNCHANGED <<config, setting, matching, host, abortsLeft>>

\* The controls come back when the last client of the app is gone.
RemoveClient(d) ==
    /\ appClients[d] > 0
    /\ appClients' = [appClients EXCEPT ![d] = @ - 1]
    /\ matching' = IF appClients[d] = 1 /\ d = Main THEN NotMatching ELSE matching
    /\ IF appClients[d] = 1
       THEN RequestEnabledControls(d, Controls)
       ELSE UNCHANGED <<mPendingOutputControlsEnabled, dispatchQueue>>
    /\ UNCHANGED <<active, mSampleRate, mPendingSampleRate, setting, hostRequests,
                   requestsLeft, abortsLeft>>

\* MatchControlsListOf: first reads which controls are enabled ...
ReadEnabledControls ==
    /\ appClients[Main] > 0
    /\ matching = NotMatching
    /\ Budget
    /\ matching' = active[Main]
    /\ UNCHANGED <<config, setting, appClients, host, abortsLeft>>

\* ... then sets those of the output device, when they are others.
MatchControlsListOf(hasControls) ==
    /\ matching # NotMatching
    /\ matching' = NotMatching
    /\ IF hasControls = matching
       THEN UNCHANGED <<mPendingOutputControlsEnabled, dispatchQueue>>
       ELSE RequestEnabledControls(Main, hasControls)
    /\ UNCHANGED <<active, mSampleRate, mPendingSampleRate, setting, appClients,
                   hostRequests, requestsLeft, abortsLeft>>

\* IO is stopped while the host has the change performed.
PerformConfigChange ==
    /\ hostRequests # << >>
    /\ hostRequests' = Tail(hostRequests)
    /\ LET d == Head(hostRequests)[1]
       IN  IF Head(hostRequests)[2] = "SetSampleRate"
           THEN /\ mSampleRate' = [mSampleRate EXCEPT ![d] = mPendingSampleRate[d]]
                /\ UNCHANGED active
           ELSE /\ active' = [active EXCEPT ![d] = mPendingOutputControlsEnabled[d]]
                /\ UNCHANGED mSampleRate
    /\ UNCHANGED <<mPendingOutputControlsEnabled, mPendingSampleRate, setting, app,
                   dispatchQueue, requestsLeft, abortsLeft>>

\* The host refuses; the pending values stay.
AbortConfigChange ==
    /\ hostRequests # << >>
    /\ abortsLeft > 0
    /\ abortsLeft' = abortsLeft - 1
    /\ hostRequests' = Tail(hostRequests)
    /\ UNCHANGED <<config, setting, app, dispatchQueue, requestsLeft>>

-----------------------------------------------------------------------------
(* Settings and the null device.                                           *)

\* A control's or stream's mutex is held while it is set and announced.
SetMuted ==
    /\ Budget
    /\ mMuted' = ~mMuted
    /\ Dispatch(<<Main, "muted">>)
    /\ UNCHANGED <<config, nullDeviceActive, seen, setter, app, hostRequests, abortsLeft>>

\* NovaLINK_PlugIn::SetPropertyData looks at the null device without a lock ...
SetNullDeviceActive(s) ==
    /\ setter[s] = "idle"
    /\ Budget
    /\ setter' = [setter EXCEPT ![s] = IF nullDeviceActive THEN "deactivate" ELSE "activate"]
    /\ UNCHANGED <<config, mMuted, nullDeviceActive, seen, app, host, abortsLeft>>

\* ... has it toggled, which does nothing if it was meanwhile ...
ToggleNullDevice(s) ==
    /\ setter[s] \in {"activate", "deactivate"}
    /\ setter' = [setter EXCEPT ![s] = "announce"]
    /\ nullDeviceActive' = (setter[s] = "activate")
    /\ IF nullDeviceActive' = nullDeviceActive
       THEN UNCHANGED dispatchQueue
       ELSE Dispatch(<<Main, "deviceIsAlive">>)
    /\ UNCHANGED <<config, mMuted, seen, app, hostRequests, requestsLeft, abortsLeft>>

\* Mutant: announces only that the null device has come.
AnnounceNullDevice_Activated(s) ==
    /\ setter[s] = "announce"
    /\ setter' = [setter EXCEPT ![s] = "idle"]
    /\ IF nullDeviceActive THEN Dispatch(<<Main, "deviceList">>) ELSE UNCHANGED dispatchQueue
    /\ UNCHANGED <<config, mMuted, nullDeviceActive, seen, app, hostRequests,
                   requestsLeft, abortsLeft>>

\* ... and announces that the list of devices has changed.
AnnounceNullDevice(s) ==
    /\ setter[s] = "announce"
    /\ setter' = [setter EXCEPT ![s] = "idle"]
    /\ Dispatch(<<Main, "deviceList">>)
    /\ UNCHANGED <<config, mMuted, nullDeviceActive, seen, app, hostRequests,
                   requestsLeft, abortsLeft>>

\* The serial queue passes a request on, or has the HAL read a value again.
RunDispatched ==
    /\ dispatchQueue # << >>
    /\ dispatchQueue' = Tail(dispatchQueue)
    /\ LET item == Head(dispatchQueue)
       IN  IF item \in Notifications
           THEN /\ seen' = [seen EXCEPT ![item[2]] = IF item[2] = "muted" THEN mMuted ELSE nullDeviceActive]
                /\ UNCHANGED hostRequests
           ELSE /\ hostRequests' = Append(hostRequests, item)
                /\ UNCHANGED seen
    /\ UNCHANGED <<config, mMuted, nullDeviceActive, setter, app, requestsLeft, abortsLeft>>

-----------------------------------------------------------------------------
SetterNext(s) == ToggleNullDevice(s) \/ AnnounceNullDevice(s)
MatchNext == \E hasControls \in SUBSET Controls : MatchControlsListOf(hasControls)

Next ==
    \/ \E d \in Devices : RequestSampleRate(d) \/ AddClient(d) \/ RemoveClient(d)
    \/ ReadEnabledControls \/ MatchNext
    \/ PerformConfigChange \/ AbortConfigChange
    \/ SetMuted
    \/ \E s \in Setters : SetNullDeviceActive(s) \/ SetterNext(s)
    \/ RunDispatched

Spec == Init /\ [][Next]_vars

-----------------------------------------------------------------------------
(* Correctness.                                                            *)

\* When no notification is queued and no setter is still to queue its own, the
\* HAL knows the current values, whichever order concurrent setters of the
\* null device, which check, toggle and announce without a common lock, took.
Announced ==
    (/\ \A i \in 1 .. Len(dispatchQueue) : dispatchQueue[i] \notin Notifications
     /\ \A s \in Setters : setter[s] # "announce")
    => seen = [p \in Announceable |-> IF p = "muted" THEN mMuted ELSE nullDeviceActive]

\* A pending value of the main device is one that a request is on its way for,
\* or the host has refused a change: however the app, the HAL and the device ask
\* for changes at the same time, none stays pending with nobody to perform it.
PendingRequested ==
    LET Requested(action) == \E i \in 1 .. Len(dispatchQueue) + Len(hostRequests) :
                                 (dispatchQueue \o hostRequests)[i] = <<Main, action>>
    IN  \/ abortsLeft < MaxAborts
        \/ /\ mPendingOutputControlsEnabled[Main] # active[Main] => Requested("SetEnabledControls")
           /\ mPendingSampleRate[Main] # mSampleRate[Main] => Requested("SetSampleRate")
=============================================================================
