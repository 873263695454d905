--------------------------- MODULE MicInputMixer ---------------------------
(***************************************************************************)
(* The app's mixing of a hardware microphone into NovaLINKDevice's input   *)
(* (NovaLINKMicInputMixer.mm).  While a client captures from the device,   *)
(* an IOProc on the microphone queues each buffer for a serial queue that  *)
(* converts it and sends it to the driver.                                 *)
(*                                                                         *)
(* Two threads bring the microphone in line with the demand: the demand    *)
(* queue's, after a notification or an answer about the microphone's       *)
(* permission, and whichever thread the device manager changes the output  *)
(* device on.  Both work under _lock; so does, for a moment, every block   *)
(* that converts a buffer.  Stopping waits for the blocks queued so far.   *)
(***************************************************************************)
EXTENDS Naturals, Sequences

CONSTANTS
    DemandThread, ManagerThread,    \* the threads that call syncToCaptureDemand
    Configs,        \* microphones, each with a sample rate
    None,           \* nil, kAudioObjectUnknown; nobody
    MaxChanges,     \* bound: changes of the demand, the devices, the output
    MaxBuffers      \* bound: blocks on _injectQueue

Threads == {DemandThread, ManagerThread}

VARIABLES
    demanded,       \* the driver: somebody other than a host reads input
    bestConfig,     \* what resolveHardwareInputDeviceID and the rate give now
    access,         \* the permission to use the microphone
    changes,
    syncs,          \* blocks on _demandQueue
    pc,
    desired,        \* desiredMic and desiredRate
    lock,           \* the holder of _lock
    running,        \* _running
    config,         \* _micDeviceID and the rate it was prepared for
    ioProc,         \* the IOProc _ioProcID runs
    converter,      \* _converter
    injectQueue,
    injectPc,
    using           \* the converter a block took

environment == <<demanded, bestConfig, access, changes>>
mixer == <<running, config, ioProc, converter>>
inject == <<injectQueue, injectPc, using>>
threads == <<pc, desired>>
vars == <<environment, syncs, threads, lock, mixer, inject>>

Init ==
    /\ demanded = FALSE /\ bestConfig \in Configs \cup {None}
    /\ access \in {"notDetermined", "authorized", "denied"}
    /\ changes = 0 /\ syncs = 1
    /\ pc = [t \in Threads |-> "idle"] /\ desired = [t \in Threads |-> None]
    /\ lock = None
    /\ running = FALSE /\ config = None /\ ioProc = FALSE /\ converter = None
    /\ injectQueue = <<>> /\ injectPc = "idle" /\ using = None

Change == changes < MaxChanges /\ changes' = changes + 1

\* A client starts or stops reading input.  The listener's block queues the
\* sync on the demand queue and returns.
DemandChanges ==
    /\ Change
    /\ demanded' = ~ demanded
    /\ syncs' = syncs + 1
    /\ UNCHANGED <<bestConfig, access, threads, lock, mixer, inject>>

\* The default input device or the nominal sample rate changes.
ConfigChanges ==
    /\ Change
    /\ \E c \in (Configs \cup {None}) \ {bestConfig} : bestConfig' = c
    /\ UNCHANGED <<demanded, access, syncs, threads, lock, mixer, inject>>

\* The user answers the prompt; each caller's completion runs on the main
\* queue, from where granted ones are bounced to the demand queue.
AnswerPrompt ==
    /\ access = "asking"
    /\ access' \in {"authorized", "denied"}
    /\ syncs' = IF access' = "authorized" THEN syncs + 1 ELSE syncs
    /\ UNCHANGED <<demanded, bestConfig, changes, threads, lock, mixer, inject>>

Goto(t, where) == pc' = [pc EXCEPT ![t] = where]

-----------------------------------------------------------------------------
(* syncToCaptureDemand *)

ReadDemand(t) ==
    Goto(t, IF demanded THEN "resolve" ELSE "stop")

\* The demand queue's next block.
SyncOnDemandQueue ==
    /\ pc[DemandThread] = "idle" /\ syncs > 0
    /\ syncs' = syncs - 1
    /\ ReadDemand(DemandThread)
    /\ UNCHANGED <<environment, desired, lock, mixer, inject>>

\* The output device was changed, on a thread other than the main one.
SyncAfterOutputChange ==
    /\ Change /\ pc[ManagerThread] = "idle"
    /\ ReadDemand(ManagerThread)
    /\ UNCHANGED <<demanded, bestConfig, access, syncs, desired, lock, mixer, inject>>

ResolveDesired(t) ==
    /\ pc[t] = "resolve"
    /\ desired' = [desired EXCEPT ![t] = bestConfig]
    /\ Goto(t, "check")
    /\ UNCHANGED <<environment, syncs, lock, mixer, inject>>

AlreadyGood(t) == running /\ config = desired[t] /\ desired[t] # None

\* The first look at the session, under the lock.
CheckSession(t) ==
    /\ pc[t] = "check" /\ lock = None
    /\ Goto(t, IF AlreadyGood(t) THEN "idle" ELSE "authorize")
    /\ UNCHANGED <<environment, syncs, desired, lock, mixer, inject>>

\* isAuthorized and requestAccessIfNeededWithCompletion.
CheckAccess(t) ==
    /\ pc[t] = "authorize"
    /\ Goto(t, IF access = "authorized" THEN "restart" ELSE "idle")
    /\ access' = IF access = "notDetermined" THEN "asking" ELSE access
    /\ UNCHANGED <<demanded, bestConfig, changes, syncs, desired, lock, mixer, inject>>

\* The second look finds that the other thread has started the session.
FindStarted(t) ==
    /\ pc[t] = "restart" /\ lock = None /\ AlreadyGood(t)
    /\ Goto(t, "idle")
    /\ UNCHANGED <<environment, syncs, desired, lock, mixer, inject>>

\* stopIOLocked up to its dispatch_sync.  The thread then owns _lock and waits
\* for the marker it put behind the blocks queued so far.
BeginStop(t, next) ==
    /\ running' = FALSE
    /\ injectQueue' = Append(injectQueue, t)
    /\ Goto(t, next)
    /\ UNCHANGED <<config, ioProc, converter, injectPc, using>>

BeginRestart(t) ==
    /\ pc[t] = "restart" /\ lock = None /\ ~ AlreadyGood(t)
    /\ lock' = t
    /\ BeginStop(t, "drainToStart")
    /\ UNCHANGED <<environment, syncs, desired>>

StopCapture(t) ==
    /\ pc[t] = "stop" /\ lock = None
    /\ lock' = t
    /\ BeginStop(t, "drain")
    /\ UNCHANGED <<environment, syncs, desired>>

Draining(t) == pc[t] \in {"drain", "drainToStart"}

\* dispatch_sync returned: the IOProc and the converter go.
TearDown(t) ==
    /\ Draining(t) /\ \A i \in DOMAIN injectQueue : injectQueue[i] # t
    /\ ioProc' = FALSE /\ converter' = None /\ config' = None
    /\ IF pc[t] = "drain"
         THEN Goto(t, "idle") /\ lock' = None
         ELSE Goto(t, "prepare") /\ lock' = lock
    /\ UNCHANGED <<environment, syncs, desired, running, inject>>

\* prepareDevicesLocked: the devices are resolved anew; without a microphone,
\* its format or a converter, or without access, nothing is started.
PrepareDevices(t) ==
    /\ pc[t] = "prepare"
    /\ \/ /\ bestConfig # None
          /\ config' = bestConfig /\ converter' = bestConfig
          /\ Goto(t, "startIO") /\ lock' = lock
       \/ /\ Goto(t, "idle") /\ lock' = None
          /\ UNCHANGED <<config, converter>>
    /\ UNCHANGED <<environment, syncs, desired, running, ioProc, inject>>

StartIO(t) ==
    /\ pc[t] = "startIO"
    /\ ioProc' = TRUE /\ running' = TRUE
    /\ Goto(t, "idle") /\ lock' = None
    /\ UNCHANGED <<environment, syncs, desired, config, converter, inject>>

\* CreateIOProcID or StartIOProc throws.
FailToStartIO(t) ==
    /\ pc[t] = "startIO"
    /\ BeginStop(t, "drain")
    /\ UNCHANGED <<environment, syncs, desired, lock>>

-----------------------------------------------------------------------------
(* The microphone's IOProc and _injectQueue *)

MicInputIOProc ==
    /\ ioProc /\ Len(injectQueue) < MaxBuffers
    /\ injectQueue' = Append(injectQueue, "buffer")
    /\ UNCHANGED <<environment, syncs, threads, lock, mixer, injectPc, using>>

RunBlock ==
    /\ injectPc = "idle" /\ injectQueue # <<>>
    /\ injectPc' = IF Head(injectQueue) = "buffer" THEN "lock" ELSE "idle"
    /\ injectQueue' = Tail(injectQueue)
    /\ UNCHANGED <<environment, syncs, threads, lock, mixer, using>>

\* The block's @synchronized section.
TakeConverter ==
    /\ injectPc = "lock" /\ lock = None
    /\ IF running /\ converter # None
         THEN using' = converter /\ injectPc' = "convert"
         ELSE using' = None /\ injectPc' = "idle"
    /\ UNCHANGED <<environment, syncs, threads, lock, mixer, injectQueue>>

ConvertAndInject ==
    /\ injectPc = "convert"
    /\ injectPc' = "idle" /\ using' = None
    /\ UNCHANGED <<environment, syncs, threads, lock, mixer, injectQueue>>

-----------------------------------------------------------------------------
ThreadStep(t) ==
    \/ ResolveDesired(t) \/ CheckSession(t) \/ CheckAccess(t) \/ FindStarted(t)
    \/ BeginRestart(t) \/ StopCapture(t) \/ TearDown(t)
    \/ PrepareDevices(t) \/ StartIO(t) \/ FailToStartIO(t)

InjectStep == RunBlock \/ TakeConverter \/ ConvertAndInject

Next ==
    \/ DemandChanges \/ ConfigChanges \/ AnswerPrompt
    \/ SyncOnDemandQueue \/ SyncAfterOutputChange
    \/ \E t \in Threads : ThreadStep(t)
    \/ MicInputIOProc \/ InjectStep

\* The threads run; a mutex and a serial queue serve whoever waits for them in
\* the end.
Fairness ==
    /\ WF_vars(SyncOnDemandQueue)
    /\ \A t \in Threads : SF_vars(ThreadStep(t))
    /\ WF_vars(RunBlock) /\ SF_vars(TakeConverter) /\ WF_vars(ConvertAndInject)

Spec == Init /\ [][Next]_vars /\ Fairness

\* "Drain pending convert/inject work before tearing down the converter" (the
\* comment on stopIOLocked's dispatch_sync): the work that is pending when the
\* mixer stops gets done, so that stopping gets on to the tear-down.
DrainEnds == \A t \in Threads : Draining(t) ~> ~ Draining(t)
=============================================================================
