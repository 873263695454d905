---------------------------- MODULE PlayThrough ----------------------------
(***************************************************************************)
(* NovaLINKPlayThrough: copies audio from NovaLINKDevice (the input) to    *)
(* the real output device, with one IOProc on each that the HAL calls      *)
(* every IO cycle.  Blocks of the dispatch queues start it when a client   *)
(* plays, stop it a while after the last one left, and the audio device    *)
(* manager takes it down and up again when the output device changes.      *)
(*                                                                         *)
(* mStateMutex protects the flags, but Start releases it before it starts  *)
(* the IOProcs, the IOProcs never take it, and only Stop keeps it while it *)
(* waits, for the IOProcs to stop themselves.  The mutex is recursive, so  *)
(* a thread that holds it may go through Stop within Deactivate within     *)
(* SetDevices.                                                             *)
(*                                                                         *)
(* The HAL, as the code's comments describe it, calls StartIO of the       *)
(* virtual device only for the first client that does IO, the app itself   *)
(* being one, and may call an IOProc some more times when it was stopped   *)
(* from outside ("trailing").  The branch of Start that restarts after a   *)
(* partial stop is not modelled: FlagMatchesIOProcs shows it unreachable.  *)
(***************************************************************************)
EXTENDS Naturals, FiniteSets

CONSTANTS
    Workers,        \* threads of the dispatch queues, that run blocks
    Switchers,      \* {} or the thread that changes the output device
    Waiters,        \* threads in WaitForOutputDeviceToStart
    Nobody,         \* no thread
    CallsFail,      \* whether calls of the system may fail, or only a device
    MaxFaults       \* bound: how often one of them fails

ASSUME PlayThroughAssumption ==
    /\ Nobody \notin Workers \cup Switchers
    /\ Workers \cap Switchers = {}
    /\ CallsFail \in BOOLEAN /\ MaxFaults \in Nat

Threads == Workers \cup Switchers
Devices == {"input", "output"}
IOStates == {"Stopped", "Starting", "Running", "Stopping"}
StartBlocks == {"xpc", "notified", "restart"}

VARIABLES
    mActive,
    mPlayingThrough,
    ioState,            \* device -> state of its IOProc, an atomic
    mStateMutex,        \* the thread in Stop that holds the mutex, or Nobody
    mIdleStopArmed,
    deadlinePassed,     \* mach_absolute_time() >= mIdleStopArmDeadlineHostTime
    idleBlock,          \* a delayed block of StopIfIdle whose queuedAt is
                        \* still mLastNotifiedIOStoppedOnNovaLINKDevice
    idleCheck,          \* a block that will call StopIfIdle is queued
    startBlocks,        \* the queued blocks that may call Start
    pc,                 \* thread -> where it is
    then,               \* thread -> where it goes when Start or Stop is done
    ids,                \* thread -> the IOProc IDs Start took along
    clientsWerePlaying, \* the device manager's snapshot
    hal,                \* device -> whether the HAL calls its IOProc
    iopc,               \* device -> where its IOProc is
    seen,               \* device -> outNewState of UpdateIOProcState
    outputAlive,        \* mOutputDevice.IsAlive()
    others,             \* IsRunningSomewhereOtherThanNovaLINKApp
    faultsLeft,
    waiting             \* waiter -> where it is in WaitForOutputDeviceToStart

idleVars == <<mIdleStopArmed, deadlinePassed, idleBlock>>
queues == <<idleCheck, startBlocks>>
ioVars == <<hal, iopc, seen>>
environment == <<outputAlive, others, faultsLeft>>
flags == <<mActive, mPlayingThrough, mStateMutex>>
locals == <<pc, then, ids, clientsWerePlaying>>
io == <<ioVars, ioState, waiting>>
control == <<flags, idleVars, queues, locals>>
vars == <<control, io, environment>>

Init ==
    /\ mActive = FALSE /\ mPlayingThrough = FALSE /\ clientsWerePlaying = FALSE
    /\ mIdleStopArmed = FALSE /\ deadlinePassed = TRUE /\ idleCheck = FALSE
    /\ outputAlive = TRUE /\ others = FALSE
    /\ ioState = [d \in Devices |-> "Stopped"]
    /\ mStateMutex = Nobody
    /\ idleBlock = FALSE
    /\ startBlocks = {}
    /\ pc = [t \in Threads |-> "idle"]
    /\ then = [t \in Threads |-> "idle"]
    /\ ids = [t \in Threads |-> "none"]
    /\ hal = [d \in Devices |-> "off"]
    /\ iopc = [d \in Devices |-> "idle"]
    /\ seen = [d \in Devices |-> "Stopped"]
    /\ faultsLeft = MaxFaults
    /\ waiting = [w \in Waiters |-> "idle"]

-----------------------------------------------------------------------------
Unlocked == mStateMutex = Nobody
BothAre(s) == \A d \in Devices : ioState[d] = s
Goto(t, place) == pc' = [pc EXCEPT ![t] = place]
Fault == faultsLeft > 0 /\ faultsLeft' = faultsLeft - 1
CallFault == CallsFail /\ Fault

\* Start and Stop are done: the caller goes on.  An exception skips what the
\* caller would have done next, except that HandleNovaLINKDeviceIsRunning
\* swallows it and arms the idle stop all the same.
ReturnTo(t, place) == Goto(t, place) /\ then' = [then EXCEPT ![t] = "idle"]
Return(t) == ReturnTo(t, then[t])
Throw(t) == ReturnTo(t, IF then[t] = "arm" THEN "arm" ELSE "idle")

\* semaphore_signal_all wakes the threads that are blocked and no others.
ReleaseThreadsWaitingForOutputToStart ==
    waiting' = [w \in Waiters |-> IF mActive /\ waiting[w] = "blocked" THEN "idle" ELSE waiting[w]]

\* StopIOProc from outside the IOProc, which may still be called for a while.
StopIOProc(D) == [d \in Devices |-> IF d \in D /\ hal[d] = "on" THEN "trailing" ELSE hal[d]]

\* The blocks of ScheduleRunningStateCatchUp do what the listener for
\* DeviceIsRunning queues.
ScheduleRunningStateCatchUp == startBlocks \cup {"notified"}

-----------------------------------------------------------------------------
(* Clients of NovaLINKDevice, the output device and their notifications.   *)

ClientStarts ==
    /\ ~others
    /\ others' = TRUE
    /\ idleCheck' = (idleCheck \/ mActive)
    /\ startBlocks' = IF hal["input"] # "off" THEN startBlocks
                      ELSE startBlocks \cup {"xpc"} \cup (IF mActive THEN {"notified"} ELSE {})
    /\ UNCHANGED <<flags, idleVars, locals, ioVars, ioState, outputAlive, faultsLeft, waiting>>

ClientStops ==
    /\ others
    /\ others' = FALSE
    /\ idleCheck' = (idleCheck \/ mActive)
    /\ UNCHANGED <<flags, idleVars, startBlocks, locals, ioVars, ioState, outputAlive,
                   faultsLeft, waiting>>

PassDeadline ==
    /\ ~deadlinePassed
    /\ deadlinePassed' = TRUE
    /\ UNCHANGED <<flags, mIdleStopArmed, idleBlock, queues, locals, io, environment>>

OutputDies ==
    /\ outputAlive
    /\ Fault
    /\ outputAlive' = FALSE
    /\ hal' = [hal EXCEPT !["output"] = "off"]
    /\ UNCHANGED <<flags, idleVars, queues, locals, iopc, seen, ioState, others, waiting>>

-----------------------------------------------------------------------------
(* Blocks of the dispatch queues that may start playing through.           *)

\* A client's StartIO, through the helper, or a delayed start of the manager.
TakeStart(t) ==
    /\ pc[t] = "idle"
    /\ \E block \in startBlocks \ {"notified"} :
           /\ startBlocks' = startBlocks \ {block}
           /\ then' = [then EXCEPT ![t] = IF block = "xpc" THEN "idle" ELSE "idleCheck"]
    /\ Goto(t, "prepare")
    /\ UNCHANGED <<flags, idleVars, idleCheck, ids, clientsWerePlaying, io, environment>>

HandleNovaLINKDeviceIsRunning(t) ==
    /\ pc[t] = "idle"
    /\ Unlocked
    /\ "notified" \in startBlocks
    /\ startBlocks' = startBlocks \ {"notified"}
    /\ IF mActive /\ others
       THEN Goto(t, "prepare") /\ then' = [then EXCEPT ![t] = "arm"]
       ELSE UNCHANGED <<pc, then>>
    /\ UNCHANGED <<flags, idleVars, idleCheck, ids, clientsWerePlaying, io, environment>>

ArmIdleStop(t) ==
    /\ pc[t] = "arm"
    /\ Unlocked
    /\ mIdleStopArmed' = TRUE
    /\ Goto(t, "idle")
    /\ UNCHANGED <<flags, deadlinePassed, idleBlock, queues, then, ids, clientsWerePlaying,
                   io, environment>>

-----------------------------------------------------------------------------
(* Start, off the main thread.  The first four actions are its prologue    *)
(* under the mutex; the others run without it.                             *)

AlreadyRunning(t) ==
    /\ pc[t] = "prepare"
    /\ Unlocked
    /\ mPlayingThrough
    /\ BothAre("Running")
    /\ mIdleStopArmed' = (mIdleStopArmed \/ others)
    /\ ReleaseThreadsWaitingForOutputToStart
    /\ Return(t)
    /\ UNCHANGED <<flags, deadlinePassed, idleBlock, queues, ids, clientsWerePlaying,
                   ioVars, ioState, environment>>

AlreadyStarting(t) ==
    /\ pc[t] = "prepare"
    /\ Unlocked
    /\ mPlayingThrough
    /\ \E d \in Devices : ioState[d] = "Starting"
    /\ Return(t)
    /\ UNCHANGED <<flags, idleVars, queues, ids, clientsWerePlaying, io, environment>>

DeviceIsDead(t) ==
    /\ pc[t] = "prepare"
    /\ Unlocked
    /\ ~mPlayingThrough
    /\ ~outputAlive
    /\ ReleaseThreadsWaitingForOutputToStart
    /\ Throw(t)
    /\ UNCHANGED <<flags, idleVars, queues, ids, clientsWerePlaying, ioVars, ioState, environment>>

ClaimPlaythrough(t) ==
    /\ pc[t] = "prepare"
    /\ Unlocked
    /\ ~mPlayingThrough
    /\ outputAlive
    /\ mActive' = TRUE
    /\ startBlocks' = IF mActive THEN startBlocks ELSE ScheduleRunningStateCatchUp
    /\ ioState' = [d \in Devices |-> "Starting"]
    /\ mPlayingThrough' = TRUE
    /\ idleBlock' = FALSE
    /\ mIdleStopArmed' = FALSE
    /\ deadlinePassed' = FALSE
    /\ ids' = [ids EXCEPT ![t] = "valid"]
    /\ Goto(t, "startOutput")
    /\ UNCHANGED <<mStateMutex, idleCheck, then, clientsWerePlaying, ioVars, environment, waiting>>

MicrophoneNotAuthorized(t) ==
    /\ pc[t] = "startOutput"
    /\ CallFault
    /\ Unlocked
    /\ mPlayingThrough' = FALSE
    /\ ioState' = [d \in Devices |-> "Stopped"]
    /\ ReleaseThreadsWaitingForOutputToStart
    /\ ids' = [ids EXCEPT ![t] = "none"]
    /\ Return(t)
    /\ UNCHANGED <<mActive, mStateMutex, idleVars, queues, clientsWerePlaying, ioVars,
                   outputAlive, others>>

StartOutput(t) ==
    /\ pc[t] = "startOutput"
    /\ ids[t] = "valid"
    /\ outputAlive
    /\ hal' = [hal EXCEPT !["output"] = "on"]
    /\ Goto(t, "startInput")
    /\ UNCHANGED <<flags, idleVars, queues, then, ids, clientsWerePlaying, iopc, seen,
                   ioState, environment, waiting>>

\* The app is a client of NovaLINKDevice too: if it is the first one, the
\* HAL notifies it that the device is running.
StartInput(t) ==
    /\ pc[t] = "startInput"
    /\ ids[t] = "valid"
    /\ hal' = [hal EXCEPT !["input"] = "on"]
    /\ startBlocks' = IF mActive /\ ~others /\ hal["input"] = "off"
                      THEN startBlocks \cup {"notified"} ELSE startBlocks
    /\ ids' = [ids EXCEPT ![t] = "none"]
    /\ Return(t)
    /\ UNCHANGED <<flags, idleVars, idleCheck, clientsWerePlaying, iopc, seen, ioState,
                   environment, waiting>>

StartIOProcFails(t) ==
    /\ pc[t] \in {"startOutput", "startInput"}
    /\ IF ids[t] = "stale" \/ (pc[t] = "startOutput" /\ ~outputAlive)
       THEN UNCHANGED faultsLeft
       ELSE CallFault
    /\ Goto(t, "undo")
    /\ UNCHANGED <<flags, idleVars, queues, then, ids, clientsWerePlaying, io, outputAlive, others>>

\* Mutant: the states stay as they were.
UndoStart_KeepStates(t) ==
    /\ pc[t] = "undo"
    /\ Unlocked
    /\ ReleaseThreadsWaitingForOutputToStart
    /\ hal' = IF mActive THEN StopIOProc(Devices) ELSE hal
    /\ mPlayingThrough' = FALSE
    /\ ids' = [ids EXCEPT ![t] = "none"]
    /\ Throw(t)
    /\ UNCHANGED <<mActive, mStateMutex, idleVars, queues, clientsWerePlaying, iopc,
                   seen, ioState, environment>>

UndoStart(t) ==
    /\ pc[t] = "undo"
    /\ Unlocked
    /\ ReleaseThreadsWaitingForOutputToStart
    /\ hal' = IF mActive THEN StopIOProc(Devices) ELSE hal
    /\ ioState' = [d \in Devices |-> "Stopped"]
    /\ mPlayingThrough' = FALSE
    /\ ids' = [ids EXCEPT ![t] = "none"]
    /\ Throw(t)
    /\ UNCHANGED <<mActive, mStateMutex, idleVars, queues, clientsWerePlaying, iopc,
                   seen, environment>>

-----------------------------------------------------------------------------
(* Stop, which waits with the mutex held.                                  *)

\* What Stop does before it waits; place is where t goes when it is done.
BeginStop(t, place) ==
    /\ ReleaseThreadsWaitingForOutputToStart
    /\ ioState' = [ioState EXCEPT !["input"] = "Stopping",
                                  !["output"] = IF outputAlive THEN "Stopping" ELSE "Stopped"]
    /\ mStateMutex' = t
    /\ Goto(t, "stopping")
    /\ then' = [then EXCEPT ![t] = place]

\* Mutant: only an IOProc that still runs is given up on.
StopFromOutside_Running(t, d) ==
    /\ pc[t] = "stopping"
    /\ ioState[d] = "Stopping"
    /\ hal[d] # "off"
    /\ CallFault
    /\ hal' = StopIOProc({d})
    /\ ioState' = [ioState EXCEPT ![d] = "Stopped"]
    /\ UNCHANGED <<flags, idleVars, queues, locals, iopc, seen, outputAlive, others, waiting>>

\* The wait timed out: the HAL does not call the IOProc at all, or, which
\* counts as a fault, not in time.
StopFromOutside(t, d) ==
    /\ pc[t] = "stopping"
    /\ ioState[d] = "Stopping"
    /\ IF hal[d] = "off" /\ iopc[d] = "idle" THEN UNCHANGED faultsLeft ELSE CallFault
    /\ hal' = StopIOProc({d})
    /\ ioState' = [ioState EXCEPT ![d] = "Stopped"]
    /\ UNCHANGED <<flags, idleVars, queues, locals, iopc, seen, outputAlive, others, waiting>>

\* The HAL calls neither IOProc again, and IDs that a Start took along are of
\* no use any more.
DestroyIOProcIDs ==
    /\ hal' = [d \in Devices |-> "off"]
    /\ ids' = [t \in Threads |-> IF ids[t] = "valid" THEN "stale" ELSE ids[t]]

\* The rest of SetDevices when the play-through was active.
ReplaceDevices ==
    /\ DestroyIOProcIDs
    /\ outputAlive' = TRUE
    /\ startBlocks' = ScheduleRunningStateCatchUp
    /\ mActive' = TRUE

FinishStop(t) ==
    /\ pc[t] = "stopping"
    /\ \A d \in Devices : ioState[d] # "Stopping"
    /\ mPlayingThrough' = FALSE
    /\ mStateMutex' = Nobody
    /\ CASE then[t] = "setDevices" -> /\ mActive' = FALSE
                                      /\ DestroyIOProcIDs
                                      /\ Return(t)
                                      /\ UNCHANGED <<startBlocks, outputAlive>>
         [] then[t] = "replace" -> /\ ReplaceDevices
                                   /\ Goto(t, "prepare")
                                   /\ then' = [then EXCEPT ![t] = "activate"]
         [] then[t] = "idle" -> /\ Return(t)
                                /\ UNCHANGED <<mActive, hal, ids, startBlocks, outputAlive>>
    /\ UNCHANGED <<idleVars, idleCheck, clientsWerePlaying, iopc, seen, ioState, others,
                   faultsLeft, waiting>>

-----------------------------------------------------------------------------
(* StopIfIdle.                                                             *)

StopIfIdle ==
    LET arm == mIdleStopArmed \/ others \/ deadlinePassed
    IN  /\ mIdleStopArmed' = arm
        /\ idleBlock' = (idleBlock \/ (arm /\ ~others))

HandleNovaLINKDeviceIsRunningSomewhereOther(t) ==
    /\ pc[t] = "idle"
    /\ Unlocked
    /\ idleCheck
    /\ idleCheck' = FALSE
    /\ IF mActive THEN StopIfIdle ELSE UNCHANGED <<mIdleStopArmed, idleBlock>>
    /\ UNCHANGED <<flags, deadlinePassed, startBlocks, locals, io, environment>>

\* After a switch the device manager also starts again later, twice.
CheckIdle(t) ==
    /\ pc[t] \in {"idleCheck", "switchIdleCheck"}
    /\ Unlocked
    /\ StopIfIdle
    /\ startBlocks' = IF pc[t] = "idleCheck" THEN startBlocks ELSE startBlocks \cup {"restart"}
    /\ Goto(t, "idle")
    /\ UNCHANGED <<flags, deadlinePassed, idleCheck, then, ids, clientsWerePlaying, io, environment>>

\* Mutant: it does not look again whether a client plays.
RunIdleBlock_Unchecked(t) ==
    /\ pc[t] = "idle"
    /\ Unlocked
    /\ idleBlock
    /\ idleBlock' = FALSE
    /\ IF mActive /\ mPlayingThrough /\ mIdleStopArmed
       THEN BeginStop(t, "idle")
       ELSE UNCHANGED <<ioState, mStateMutex, pc, then, waiting>>
    /\ UNCHANGED <<mActive, mPlayingThrough, mIdleStopArmed, deadlinePassed, queues, ids,
                   clientsWerePlaying, ioVars, environment>>

\* A block whose queuedAt is not the last notification's does nothing.
RunIdleBlock(t) ==
    /\ pc[t] = "idle"
    /\ Unlocked
    /\ idleBlock
    /\ idleBlock' = FALSE
    /\ IF mActive /\ mPlayingThrough /\ mIdleStopArmed /\ ~others
       THEN BeginStop(t, "idle")
       ELSE UNCHANGED <<ioState, mStateMutex, pc, then, waiting>>
    /\ UNCHANGED <<mActive, mPlayingThrough, mIdleStopArmed, deadlinePassed, queues, ids,
                   clientsWerePlaying, ioVars, environment>>

-----------------------------------------------------------------------------
(* The device manager changes the output device: Deactivate, SetDevices,   *)
(* Activate, and Start if clients were playing.                            *)

SwitchOutputDevice(t) ==
    /\ pc[t] = "idle"
    /\ Unlocked
    /\ clientsWerePlaying' = (mActive /\ others)
    /\ IF mActive /\ mPlayingThrough
       THEN /\ BeginStop(t, "setDevices")
            /\ UNCHANGED <<mActive, hal, ids>>
       ELSE /\ ReleaseThreadsWaitingForOutputToStart
            /\ mActive' = FALSE
            /\ DestroyIOProcIDs
            /\ Goto(t, "setDevices")
            /\ UNCHANGED <<ioState, mStateMutex, then>>
    /\ UNCHANGED <<mPlayingThrough, idleVars, queues, iopc, seen, environment>>

\* Somebody may have called Start, and so Activate, since.
SetDevices(t) ==
    /\ pc[t] = "setDevices"
    /\ Unlocked
    /\ IF mActive /\ mPlayingThrough
       THEN /\ BeginStop(t, "replace")
            /\ UNCHANGED <<mActive, hal, ids, startBlocks, outputAlive>>
       ELSE /\ ReleaseThreadsWaitingForOutputToStart
            /\ IF mActive THEN ReplaceDevices
               ELSE outputAlive' = TRUE /\ UNCHANGED <<mActive, hal, ids, startBlocks>>
            /\ Goto(t, "activate")
            /\ UNCHANGED <<ioState, mStateMutex, then>>
    /\ UNCHANGED <<mPlayingThrough, idleVars, idleCheck, clientsWerePlaying, iopc, seen, others,
                   faultsLeft>>

Activate(t) ==
    /\ pc[t] = "activate"
    /\ Unlocked
    /\ outputAlive \/ mActive
    /\ mActive' = TRUE
    /\ startBlocks' = IF mActive THEN startBlocks ELSE ScheduleRunningStateCatchUp
    /\ IF clientsWerePlaying
       THEN Goto(t, "prepare") /\ then' = [then EXCEPT ![t] = "switchIdleCheck"]
       ELSE Goto(t, "idle") /\ UNCHANGED then
    /\ clientsWerePlaying' = FALSE
    /\ UNCHANGED <<mPlayingThrough, mStateMutex, idleVars, idleCheck, ids, io, environment>>

ActivateFails(t) ==
    /\ pc[t] = "activate"
    /\ Unlocked
    /\ ~outputAlive
    /\ ~mActive
    /\ Goto(t, "idle")
    /\ UNCHANGED <<flags, idleVars, queues, then, ids, clientsWerePlaying, io, environment>>

-----------------------------------------------------------------------------
(* The IOProcs: UpdateIOProcState.                                         *)

\* compare_exchange from Starting to Running; the output's wakes the waiters.
FirstCycle(d) ==
    /\ iopc[d] = "idle"
    /\ hal[d] # "off"
    /\ ioState[d] = "Starting"
    /\ ioState' = [ioState EXCEPT ![d] = "Running"]
    /\ IF d = "output" THEN ReleaseThreadsWaitingForOutputToStart ELSE UNCHANGED waiting
    /\ UNCHANGED <<control, ioVars, environment>>

CycleAfterStop(d) ==
    /\ iopc[d] = "idle"
    /\ hal[d] # "off"
    /\ ioState[d] \in {"Stopping", "Stopped"}
    /\ seen' = [seen EXCEPT ![d] = ioState[d]]
    /\ iopc' = [iopc EXCEPT ![d] = "stopSelf"]
    /\ UNCHANGED <<control, hal, ioState, environment, waiting>>

\* From inside the IOProc, StopIOProc means it is not called again.
StopSelf(d) ==
    /\ iopc[d] = "stopSelf"
    /\ hal' = [hal EXCEPT ![d] = "off"]
    /\ iopc' = [iopc EXCEPT ![d] = "mark"]
    /\ UNCHANGED <<control, seen, ioState, environment, waiting>>

StopSelfFails(d) ==
    /\ iopc[d] = "stopSelf"
    /\ CallFault
    /\ iopc' = [iopc EXCEPT ![d] = "idle"]
    /\ UNCHANGED <<control, hal, seen, ioState, outputAlive, others, waiting>>

\* compare_exchange from the state seen before to Stopped.
MarkStopped(d) ==
    /\ iopc[d] = "mark"
    /\ ioState' = IF ioState[d] = seen[d] THEN [ioState EXCEPT ![d] = "Stopped"] ELSE ioState
    /\ seen' = [seen EXCEPT ![d] = "Stopped"]
    /\ iopc' = [iopc EXCEPT ![d] = "idle"]
    /\ UNCHANGED <<control, hal, environment, waiting>>

LastTrailingCycle(d) ==
    /\ hal[d] = "trailing"
    /\ hal' = [hal EXCEPT ![d] = "off"]
    /\ UNCHANGED <<control, iopc, seen, ioState, environment, waiting>>

-----------------------------------------------------------------------------
(* WaitForOutputDeviceToStart, which does not take the mutex.  Unless the  *)
(* IOProc is Starting it returns at once.                                  *)

Goes(w, from, to) ==
    /\ waiting[w] = from
    /\ waiting' = [waiting EXCEPT ![w] = to]
    /\ UNCHANGED <<control, ioVars, ioState, environment>>

WaitForOutputDeviceToStart(w) ==
    mActive /\ outputAlive /\ ioState["output"] = "Starting" /\ Goes(w, "idle", "checked")

Block(w) == Goes(w, "checked", "blocked")

\* Mutant: it only looks for Running.
CheckState_Running(w) == ioState["output"] = "Running" /\ Goes(w, "blocked", "idle")

\* The check every 200 ms.
CheckState(w) == ioState["output"] # "Starting" /\ Goes(w, "blocked", "idle")

\* The wait took too long.
GiveUp(w) == Goes(w, "blocked", "idle")

-----------------------------------------------------------------------------
StartNext(t) ==
    \/ TakeStart(t) \/ HandleNovaLINKDeviceIsRunning(t) \/ ArmIdleStop(t)
    \/ HandleNovaLINKDeviceIsRunningSomewhereOther(t) \/ RunIdleBlock(t)

CallNext(t) ==
    \/ AlreadyRunning(t) \/ AlreadyStarting(t) \/ DeviceIsDead(t) \/ ClaimPlaythrough(t)
    \/ MicrophoneNotAuthorized(t)
    \/ StartOutput(t) \/ StartInput(t) \/ StartIOProcFails(t) \/ UndoStart(t)
    \/ \E d \in Devices : StopFromOutside(t, d)
    \/ FinishStop(t) \/ CheckIdle(t)

SwitchNext(t) == SetDevices(t) \/ Activate(t) \/ ActivateFails(t)

IOProcNext(d) ==
    \/ FirstCycle(d) \/ CycleAfterStop(d)
    \/ StopSelf(d) \/ StopSelfFails(d) \/ MarkStopped(d) \/ LastTrailingCycle(d)

WaiterNext(w) == Block(w) \/ CheckState(w)

Next ==
    \/ ClientStarts \/ ClientStops \/ PassDeadline \/ OutputDies
    \/ \E t \in Workers : StartNext(t)
    \/ \E t \in Threads : CallNext(t)
    \/ \E t \in Switchers : SwitchOutputDevice(t) \/ SwitchNext(t)
    \/ \E d \in Devices : IOProcNext(d)
    \/ \E w \in Waiters : WaitForOutputDeviceToStart(w) \/ WaiterNext(w) \/ GiveUp(w)

\* Queued blocks are run, threads go on, the HAL calls the IOProcs that run,
\* waits end with their timeouts and the deadline passes.  Nobody has to
\* play or to change the device.
Fairness ==
    /\ WF_vars(PassDeadline)
    /\ \A t \in Workers : SF_vars(StartNext(t))
    /\ \A t \in Threads : SF_vars(CallNext(t))
    /\ \A t \in Switchers : SF_vars(SwitchNext(t))
    /\ \A d \in Devices : WF_vars(FirstCycle(d) \/ CycleAfterStop(d) \/ StopSelf(d) \/ MarkStopped(d))
    /\ \A w \in Waiters : WF_vars(WaiterNext(w))

Spec == Init /\ [][Next]_vars /\ Fairness

-----------------------------------------------------------------------------
(* Correctness.                                                            *)

\* Whenever nobody is in Stop the flag and the IOProcs' states agree, although
\* Start, its error path, Stop, the switch of devices and the IOProcs set them
\* at different times and some without the mutex.  So a later Start is not
\* misled into returning early, the assertion of DestroyIOProcIDs holds, and
\* the branch of Start for a "partial stop" is never taken.
FlagMatchesIOProcs ==
    Unlocked =>
        IF mPlayingThrough
        THEN mActive /\ \A d \in Devices : ioState[d] \in {"Starting", "Running"}
        ELSE BothAre("Stopped")

\* A thread that goes into Start, Stop or StopIfIdle comes out again, also
\* when the output device disappears while Stop waits for its IOProc.
CallsReturn == \A t \in Threads : pc[t] # "idle" ~> pc[t] = "idle"

\* A thread in WaitForOutputDeviceToStart notices that the output has started
\* or that somebody stopped it, though it blocks after it read the state and
\* so may miss the signal.
WaitersNotice ==
    \A w \in Waiters :
        (waiting[w] = "blocked" /\ ioState["output"] # "Starting")
            ~> (waiting[w] # "blocked" \/ ioState["output"] = "Starting")

\* When the driver asks for play-through because a client started, it runs as
\* long as that client plays, whatever idle checks were queued before, unless
\* a fault prevented it.
RequestsHonoured ==
    ("xpc" \in startBlocks /\ others)
        ~> (~others \/ BothAre("Running") \/ faultsLeft < MaxFaults)

=============================================================================
