# NovaLINK: a TLA+ model of the virtual audio device

NovaLINK is a virtual macOS audio device. Its driver runs inside `coreaudiod`
as a HAL plug-in; a companion app (NovaLINKApp) reads what other programs play
into the device and plays it on a real output device; a small XPC helper
connects the two and plays through itself when the app is not running.

This directory holds TLA+ specifications of the driver, the app and the helper
as far as they keep state and run concurrently, TLC configurations that check
them on small instances, and TLAPS proofs that extend the safety properties to
every value of the constants. `PROJECT.json` maps each definition to the lines
it models and lists runs, mutants, theorems, findings and hazards.

Paths below are relative to `src/`: **D** is
`NovaLinkAudioDriver/NovaLINKDriver/`, **A** is `NovaLINKApp/NovaLINKApp/`,
**H** is `NovaLINKApp/NovaLINKXPCHelper/`.

Contents: 1 the parts, 2 the modules, 3 the runs, 4 findings and observations,
5 the proofs, 6 plan, 7 what is not modelled.

## 1. The system's parts

| Part | Source | State | Operations | Talks to |
|---|---|---|---|---|
| Task queue | D`NovaLINK_TaskQueue` | two lock-free stacks, four semaphores, free list, two worker threads | `QueueSync`, `QueueOnNonRealtimeThread`, the worker loop, construction and destruction | called by Clients, Client map, IO threads; calls both back |
| Client map | D`DeviceClients/NovaLINK_ClientMap` | three maps and a shadow of each, two mutexes | add, remove, flag updates, queries, the swap | real-time worker of the task queue |
| Clients | D`DeviceClients/NovaLINK_Clients` | three counters, counts and IDs of the app's and the helper's clients, two music player properties | add, remove, start/stop IO, start input, set music player, notifications | Client map, task queue, Device |
| Device | D`NovaLINK_Device` | IO state, sample rate, enabled controls, pending configuration, ring buffers, clock | property access, `StartIO`/`StopIO`, IO operations, configuration changes | HAL, Clients, XPC helper |
| Plug-in objects and controls | D`NovaLINK_PlugIn`, `_NullDevice`, `_Stream`, `_Control`, `_MuteControl`, `_VolumeControl` | values of properties | has, is settable, size, get, set | HAL, Device |
| Audible state | D`NovaLINK_AudibleState` | four sample times, the state | update, recalculate, reset | Device's IO |
| Driver's XPC client | D`NovaLINK_XPCHelper.m` | a connection per call | start play-through, start fallback | XPC helper |
| XPC helper | H | the app's endpoint and connection, fallback play-through | register, start and stop play-through, clean up | app, driver |
| App's XPC listener | A`NovaLINKXPCListener.mm` | connection to the helper | register, retry, start play-through | helper, device manager |
| Play-through | A`NovaLINKPlayThrough.cpp` | IOProc states, ring buffer, idle-stop state | activate, start, stop, stop when idle, wait for output, IOProcs, listeners | HAL, both devices |
| Play-through logger | A`NovaLINKPlayThroughRTLogger.cpp` | flags, an error, a semaphore, a thread | log from an IOProc, the logging thread, destruction | play-through's IOProcs |
| Ring buffer | `CARingBuffer` of both `PublicUtility`s | frames, a queue of time bounds | allocate, store, fetch | play-through, Device |
| Audio device manager | A`NovaLINKAudioDeviceManager.mm` | output device, `stateLock`, two play-throughs | set output device, start play-through | play-through, control sync, helper |
| Preferred output devices | A`NovaLINKPreferredOutputDevices.mm` | preference list, generation number | device list changed, output changed | device manager |
| Output device menu | A`NovaLINKOutputDeviceMenuSection.mm` | menu items | item selected | both of these |
| Device control sync and controls list | A`NovaLINKDeviceControlSync.cpp`, `NovaLINKDeviceControlsList.cpp` | active flag, two devices | activate, deactivate, set devices, listener, match controls | HAL |
| Mic input mixer | A`NovaLINKMicInputMixer.mm` | running flag, converter, two queues | follow capture demand, convert and inject | Device's input |
| Auto-pause | A`NovaLINKAutoPauseMusic.mm` | `wePaused`, two times | pause and unpause after a delay | audible state, music players |
| App processes | A`main.m`, `NovaLINKAppDelegate.mm`, `NovaLINKTermination.mm` | lock file, defaults, launch state | launch, hand off, promote, quit | launchd, helper, HAL |
| Audio capture | D`NovaLINK_AudioCapture` | ring of slots, a thread | start, stop, enqueue, drain | nobody: its callback is never set |
| User interface, other music players, vendored Apple code | A, `PublicUtility` | - | - | - |

**How the driver's parts interact.** The HAL calls the device on its own
threads (`AddDeviceClient`, `StartIO`, property access) and on one real-time IO
thread per client. An IO thread must not block, so it never takes a mutex that
a normal thread holds for long: it reads the client map under `mMapsMutex`,
which only the real-time worker takes besides, and queues changes to the
non-real-time worker. That worker updates the shadow maps and queues the swap
to the real-time worker, waiting for it. `StartIO` and `StopIO` of the HAL
queue the same updates and wait too, holding the device's state mutex. The
locks nest: the device's `mStateMutex`; then, after a wait for the
non-real-time worker or directly, `NovaLINK_Clients::mMutex` and
`mShadowMapsMutex`; then, after a wait for the real-time worker, `mMapsMutex`.

**How driver, helper and app interact.** `StartIO` asks the helper, over XPC
and from the global serial queue, to have play-through started; the helper
forwards this to the app on the connection that the app registered, or starts
its own fallback play-through. The app learns about clients, settings and the
audible state by notifications of the HAL, each handled on a queue of its own,
and acts back through properties: enabled controls, music player, injected
microphone frames.

**What is hard.** Lost wake-ups, tasks on the stack of a thread that may leave,
order across batches (task queue); the window in which the maps differ and
exceptions inside it (client map); the same start and stop reported by two
kinds of threads, removal overtaking queued tasks, announcements made later
(clients); requests against pending configurations, lists that change between
the question for their size and the one for their content (device, objects);
starts, stops and idle stops that overlap, threads that wait for an IOProc to
stop itself (play-through); a reader and a writer of one ring without a lock
(play-through's IO); time-outs, crashes and stale callbacks of connections
(helper); devices whose IDs go bad in the middle of a change (device manager);
state read late and shared by two queues (auto-pause); queues that wait for
each other (mic mixer); processes that hand over a lock and the system's
default device (app). Section "hazards" of `PROJECT.json` lists them by line,
with the properties that watch over each.

**What makes each part correct.**

* Task queue: tasks run once, in order, while their memory is valid; callers
  return; objects are neither lost nor shared.
* Client map: behaves as one map updated atomically; nothing dangles; updates end.
* Clients: counters equal the clients they count; the HAL learns every change;
  hosts and music player follow registrations.
* Device and objects: a change that is pending is on its way; the HAL ends up
  with the current values; answers fit each other; the clock is steady; what is
  read is what was written.
* Play-through: the flag says what the IOProcs do; calls return; waiting
  threads notice; a client that plays is heard; nothing else is played than
  what was stored for its time.
* Helper and app: a fallback that was stopped stays silent; the driver gets an
  answer; an app that has lost the helper is registered again.
* Output device: play-through, control sync and manager agree on one that is
  connected; no device gets another's volume; changes end.
* Auto-pause: it unpauses only what it paused, pauses and resumes in the end.
* App processes: audio goes to NovaLINK only when somebody listens; opening the
  app brings up its UI; the user is never left with a silent default device.

## 2. Modules

| Module | Models |
|---|---|
| `TaskService` | abstract: what the task queue promises; two queues served in order |
| `TaskQueue`, implements `TaskService` | D`NovaLINK_TaskQueue.cpp` |
| `ClientRecords` | one client's record, the questions asked about it |
| `ClientRegistry` | abstract: one map of clients, updated and queried atomically |
| `ClientMap`, implements `ClientRegistry` | D`NovaLINK_ClientMap.cpp`, with the calls of `NovaLINK_Clients.cpp` around it |
| `Clients`, uses `ClientRegistry` | D`NovaLINK_Clients.cpp`, and D`NovaLINK_Device.cpp` as far as it calls it |
| `Device` | configuration changes, settings, the null device, and how the HAL learns of them |
| `DriverObjects`, extends `Device` | every property of every object of the driver |
| `DeviceIO`, extends `Device` | IO of one device: clock, loopback ring, microphone ring |
| `PlugInInterface`, composes these three, implements `Device` | the whole driver as the HAL calls it |
| `PlayThrough` | A`NovaLINKPlayThrough.cpp`, its control |
| `RTLogger` | A`NovaLINKPlayThroughRTLogger.cpp` |
| `PlayThroughIO`, composes `RTLogger` | the two IOProcs and the ring buffer between them |
| `PlayThroughHandover` | the driver's request, the helper and the app's listener |
| `OutputDevice` | device manager, preferred devices, menu, control sync |
| `AudibleState`, used by `AutoPause` | what the driver tells about the audio it is given |
| `AutoPause` | the listener, its delayed blocks, the players and the user |
| `MicInputMixer` | following the demand, the IOProc and the inject queue |
| `AppProcesses` | the agent, the instances the user opens, launchd, the helper's reaction |
| `..._Proofs` | theorems of the module named, see section 5 |
| `MC...` | instances for TLC |

`Clients` does not carry the six maps and the two stacks along: it relies on
the registry that `ClientMap` implements (proved) and on the order that
`TaskQueue` guarantees (proved against `TaskService`), and models a queue of
tasks and one map. In the same way `AutoPause` relies on `AudibleState` and
`AppProcesses` takes the registration with the helper as one step.

### TaskQueue

Threads are constants: `Callers` (of `QueueSync`), `Producers` (real-time
threads that queue without waiting), `Destroyers` (none, or one that runs the
destructor) and `NonRTWorker`, which is itself a caller while it waits for a
swap. `stack[q]` is a `TAtomicStack` (head first), `workQueued[q]` a counting
semaphore; the other semaphore has no count, because `semaphore_signal_all`
wakes those who are blocked and is otherwise forgotten. `wpc`, `cur`, `batch`,
`shouldStop` are the worker's locals, `cpc`, `isComplete` those of `QueueSync`.
Actions follow the statements between which another thread can act:
`PushSync`, `SignalSync`, `CheckComplete`, `BlockOnCompleted`, `TimeOut` in a
caller; `WaitForWork`, `FetchTasks`, `NextTask`, `ProcessTask`,
`MarkCompleted`, `SignalAllCompleted`, `RecycleTask` in a worker. A
compare-and-swap loop is one step, at its success. Each task kind is the work it
means for the queue: "Update" makes the worker queue and await a "Swap".

### ClientMap

A list of client pointers is a set of client IDs, since the three maps of a
side are swapped together; a pointer dangles when that side's client map has no
such client. An update is `LockClients`, `FindClient`, `LockShadowMaps`,
`FirstChange` or `ThrowInvalidClient`, `SwapInShadowMaps`, the worker's
`LockMapsRT` and `SwapInShadowMapsRT`, `SecondChange`, `UnlockShadowMaps`,
`UnlockClients`. Queries are `LockMaps`/`GetClientRT` on IO threads and
`GetClientNonRT`. A client's PID and bundle ID are functions of its ID, as they
never change. `mPastClientMap` is written and never read by the code. Callers
may use any client ID here, so the exceptions happen.

### Clients

A call of the HAL has two steps, the map's update and that of the members,
because IO threads look at the map without `mMutex`. `hal[id]` is where the HAL
has a client in its life; `call` is what its thread is doing; `tasks` is the
non-real-time queue; `theTask` the task whose map update is done and whose
counters are not. `counted` and `countedInput` are auxiliary: who was counted.
`notify` holds announcements the serial queue has yet to make; those of one
property that wait together are made together, as each only makes the HAL read
the value again. Assumptions on the HAL: one call at a time (the code holds
`mStateMutex`), client IDs are not used again, `StartIO` comes for the first
client at least and `StopIO` for the last at least (the comments at
D`NovaLINK_Device.cpp` 1391-1402), and a client's IO thread runs between the
two. `ReadInput` queues `StartInputIO` at every IO cycle until the worker has
run one of them, not once per session as the comment at D`NovaLINK_Device.cpp`
1420 has it; `StartInputIONonRT` tolerates that.

### Device, DriverObjects, DeviceIO, PlugInInterface

The driver in four modules. `Device` is what changes: `RequestSampleRate`,
`ReadEnabledControls` and `MatchControlsListOf` (the app's two calls),
`AddClient`, `RemoveClient`, `PerformConfigChange`, `AbortConfigChange`,
`SetMuted`, `SetNullDeviceActive` with `ToggleNullDevice` and
`AnnounceNullDevice`, and `RunDispatched` for the global serial queue.
`mStateMutex` makes each a step except where the code lets go of it.

`DriverObjects` is every property of every object. The classes answer with a
switch that passes on what it does not list; here each switch is a set or a
function of selectors laid over its base class's with `++`. `GetPropertyDataSize`
remembers in `call` what the HAL was told and `GetPropertyData` answers with
that much room; what happened in between is `Device`'s business. `List` keeps
the items a list writes and the most it says it returns apart, because the code
computes them apart. `++` is an operator of the module, since the prover does
not know TLC's `@@`.

`DeviceIO` is IO on one device: `StartIO`, `StopIO`, `GetZeroTimeStamp`,
`WriteOutputData`, `InjectMicAudio`, `ReadInputData`, with both ring buffers. A
frame is the session it was written in and its sample time, or its number for
those of the microphone, so that `ReadsFaithful` can say which frame a reader
must get. Host time passes in half ticks, because the ticks per period are not
a whole number for every rate. `IOBufferFrameSize` is at least 2: sample times
start over with each session but the ring is not cleared, and what keeps an
old session's frames from being heard is that the new session's first cycle is
longer than the one frame the HAL may leave out.

`PlugInInterface` lets all this happen at once and adds the checks that the
entry functions make.

### PlayThrough, PlayThroughIO, RTLogger

`PlayThrough` is the control. A thread's place in `Start`, `Stop`, `StopIfIdle`
or a change of the device is `pc[t]`, and `then[t]` where it goes on after
`Start` or `Stop`. `Start` is a prologue under the mutex (`AlreadyRunning`,
`AlreadyStarting`, `DeviceIsDead`, `ClaimPlaythrough`) and steps without it
(`StartOutput`, `StartInput`, `StartIOProcFails`, `UndoStart`); `Stop` keeps the
mutex while it waits (`FinishStop`) for the IOProcs to stop themselves
(`FirstCycle`, `StopSelf`, `MarkStopped`, `CycleAfterStop`,
`LastTrailingCycle`). Waiting threads are `WaitForOutputDeviceToStart`, `Block`,
`CheckState`, `GiveUp`. Calls of the HAL may fail if `CallsFail`, at most
`MaxFaults` times. `StopFromOutside` ends a wait for an IOProc that the HAL no
longer calls. That `Start` goes through the main thread first is not modelled.

`PlayThroughIO` is the data. `Store` and `Fetch` go frame by frame, so that the
input IOProc may overwrite what the output IOProc is copying; the bounds are
moved before and after. The allocator takes both mutexes, the IOProcs try one
each. A frame is its sample time and the run of sample times it belongs to.
`RTLogger` is extended by it: an IOProc's step may begin a call of the logger
(`LogAsync`), whose steps are its own.

### PlayThroughHandover

The app's side is its connection and what it waits for. `Connect` is
`initHelperConnection`: a new connection, on which it registers. Until that
message's answer (`RegistrationAnswered`) its invalidation handler only reports
an error; the answer installs the handler that retries (`retrying`). The app
keeps one reference, which the invalidation handler of an older connection
clears although it names a newer one (`cleared`); the answer then installs
nothing. `late` holds the handlers of connections that are gone, which run on
queues of their own and then start the timer on the main queue
(`RetryAfterTimeout`); the timer runs until a first message is answered
(`RetryTimerFires`). After a crash of the helper the `InterruptionHandler`
registers again on the same connection, with an error handler that retries.

In the helper each connection has a queue of its own; a message or
invalidation on it is an element of `registration` or `invalid`. Registering is
`BeginRegister` (stop the fallback) and `StoreConnection` (under the lock);
`InvalidationHandler` queues a clean-up, `RunCleanUp` and
`StartFallbackAfterCleanUp` are its check and its act. The driver's request is
`Ask`, then `PreferApp` or `StartFallback` in the helper, `Send`, the app's
`AppStartsPlayThrough`, `Reply` (each that ends the wait is an `Answer`); or `MessageFails`, `MessageFailsAgain` or
`TimeOut`. `DeferredStart` is the fallback's delayed start. The proxy that a
message is sent through may fail at any time (`Proxy`).

### OutputDevice

An AudioObjectID is a number that grows with each time a device appears; `id`
has those in force. A change is `TakeStateLock`, `Attempt`, then
`CopyFromOutputDevice`, `AddListeners`, `ActivatePlayThrough`, `Finish`, or
`Retry` with the ID looked up by UID, and after the deadline `Revert` and
`GiveUp`. `ConnectedDeviceListChanged` is the debounced block, which holds
`preferredLock` meanwhile; a pick in the menu is `OutputDeviceMenuItemSelected`
and `UserChangedOutputDeviceTo`. `SetVolume` and `CopyToOutputDevice` are the
user and the control sync's listener. `userSet` and `failed` are auxiliary.
The two play-throughs go up and down together and are one.

### AudibleState, AutoPause, MicInputMixer

`AudibleState` counts time in IO cycles and keeps how long ago each kind of
audio was heard, up to `MinChanged`. `AutoPause` has the listener
(`ReadAudibleState`, then `QueuePauseBlock`, `QueueUnpauseBlock` or
`ForgetPause`), the blocks (`RunPauseBlock`, `DecideToPause`, `PausePlayer` and
the same for unpausing) and the user (`WorkPlayer`, `SelectMusicPlayer`,
`Enable`, `Disable`). The delays are not modelled: a block that waits may run
at any time. `paused`, `overridden`, `told` and `untouched` are history.

`MicInputMixer` has the two threads that follow the demand, both through
`syncToCaptureDemand` (`ResolveDesired` to `StartIO`), the microphone's IOProc
and the serial inject queue (`RunBlock`, `TakeConverter`, `ConvertAndInject`).

### AppProcesses

A process is a record with its place (`pc`), its flags and its queued blocks.
`LockStep` is `main.m` with the lock file and the posts to the agent,
`LaunchStep` the delegate's launch, `BlockStep` the blocks of the global queue
that make NovaLINK the default device, and the main queue handles a quit for
handoff or a promotion. launchd (`StartJob`, `Relaunch`) and the helper
(`CleanUp`, `helperPlays`, `appConnection`) react. The helper has a service per
connection, and each knows only the output device that its own process told it:
a clean-up waits in `cleanUpsDue` with whether there was one. `nothingToSet` is
history: the last clean-up had neither a fallback nor a device. Time is not modelled; two
delays the code relies on are guards: `HolderSettled` (five seconds of attempts
outlast the lock holder's way to `awakeFromNib`, its way out, and a relaunch's
second) and `Relaunch` (its `sleep 1` outlasts the exit of the process that
asked for it). Section 4 says what happens when they do not.

## 3. Runs

Threads, clients, processes and devices are model values or strings; bounds
stand in the cfg or in the MC module.

| Run | Instance | Checks | Shows |
|---|---|---|---|
| `taskqueue` | one caller, one producer, the non-real-time worker's own calls, one task object allocated on the way | `SyncTasksLive`, `TasksOwnedOnce`, `ServesInOrder`, `SyncCallsReturn`, `AsyncTasksServed` | no task is touched after its thread has left, no object is lost or handed out twice, both queues serve in order, callers return though every wake-up may be missed |
| `clientmap` | two clients of one process, one without a bundle ID, one HAL thread, the worker, one IO thread | `MapsIdentical`, `NoDanglingPointers`, `ActsAsOneMap`, `UpdatesComplete` | the double-buffered maps are one atomic map, and no update is stuck, through exceptions, readers and the other updater |
| `clients` | two clients of the app, one of another process, two queued tasks of IO threads | `CountersExact`, `DoingIOTracksHAL`, `HostViewCurrent`, `HostsRegistered`, `MusicPlayerFlagged` | counters, flags, registrations and the HAL's view agree |
| `driver` | both devices and the null device, two rates, two threads that set the null device, a client that plays and one that records | `Announced`, `PendingRequested`, `HonestAnswers`, `ListsAnswered`, `StampsSteady`, `ReadsFaithful` | the HAL ends up with the current values, no pending change is forgotten, answers fit each other while lists grow and shrink, the clock is steady, what is read is what was written |
| `playthrough` | one worker, the device manager, one IOProc on each device, nothing fails | `FlagMatchesIOProcs` | the flag says what the IOProcs do whenever the mutex is free |
| `playthrough_live` | one worker, one waiting thread, one fault of any kind | `CallsReturn`, `WaitersNotice`, `RequestsHonoured` | starts and stops return, waiting threads notice, a client that goes on playing is played |
| `playthrough_io` | a ring of four frames, cycles of two, one restart of the times, one new buffer, two calls of the logger | `FetchFaithful`, `MessagesIntact`, `NothingLeftUnlogged` | what is played is what was stored for its time; the logger misses and tears no message |
| `handover` | three connections of the app, one request, one crash | `NoPlayAfterStop`, `RequestsAnswered`, `AppFindsHelper` | a stopped fallback stays silent; requests are answered; an app that has reason to try again gets registered if it stays up |
| `outputdevice` | two devices, two events, one picker, two acts of the user | `InAgreement`, `VolumeKept`, `OutputConnected`, `ChangesEnd` | all parts agree on a connected device, volumes stay with their devices, changes end |
| `autopause` | two players, one restart, two acts of the user | `UnpausesOwn`, `MusicPauses`, `MusicResumes` | the app unpauses what it paused, and pauses and resumes although the state is read late |
| `appprocesses` | three processes, three events | `StealsWhenListening`, `UIComesUp`, `NeverLeftSilent` | audio goes to NovaLINK only when somebody listens; the UI comes up; the default is not left silent, but where the fallback fails for a process that had no output device |
| `micmixer_drain` | two microphones, two changes, two buffers | `DrainEnds`, violated | the finding of section 4 |

**Why these bounds.**

* `taskqueue` (70 thousand states). `MaxSignals` (1) stops a thread from
  queueing while that many signals of a queue's semaphore are left over: with
  one, a worker may already find an empty queue after a left-over signal. One
  task object is enough for the empty free list, the allocation, a recycled
  object that is queued again, and a batch of two with a synchronous task to be
  reversed. Caller and worker are two threads in `QueueSync` at once; the HAL
  calls under one mutex, so there is no third.
* `clientmap`. A second reader would not see more than the first, since a query
  is atomic under `mMapsMutex`. Two clients of one process share the index of
  process IDs.
* `clients` (1.9 million states). `MaxTasks` (2) bounds the tasks of IO threads;
  synchronous ones come on top: a StopIO of one session can still be queued when
  the next session starts, and a StartInputIO be overtaken by it. The app's two
  clients are symmetric; the run has no temporal property.
* `driver` (294 thousand states). `MaxRequests` (4) allows a pending request, a
  refusal and two later requests. The constraint `Bounds` limits how the HAL's
  questions, its IO and the changes are combined. Questions read what the
  changes write: `PerformConfigChange` (after `RemoveClient` or
  `MatchControlsListOf`) and `ToggleNullDevice` change what the lists give. So
  these changes go on while the HAL asks: with `MaxRequestsAsked` (2) requests
  the app registers, matches the controls with those of a device that has none
  and leaves again, or the null device comes and goes, between the size and the
  items of a list or before both; a list that is read may be longer or shorter
  than was said. Sample rates, mute and a second setter, which no size or list
  reads, stay out of it. Questions and IO are not combined, because
  they do not touch each other's state; no request is under way while IO runs,
  as the HAL stops IO for it; an answer that lists something is not looked
  beyond. The ring holds two cycles, so that the third overwrites the first;
  44100 has two and a half host ticks per period, 48000 has two.
* `playthrough` (3.5 million states) and `playthrough_live` are two runs because
  the properties hold under different conditions: with the device manager's
  thread besides, `RequestsHonoured` fails for the reason in observation 4, and
  with the HAL's calls failing too the run becomes too large. The waiting thread
  takes no part in the flag.
* `playthrough_io` (2.5 million states): two cycles fill the ring, with the
  third it wraps; the late cycle, the restart and the new buffer come once each.
* `handover` (395 thousand states): a second connection is what stale callbacks
  of the first are told from, and the third is what the timer makes when the
  second breaks before its registration is answered; one crash and one request
  may come anywhere.
* `outputdevice` (68 thousand states): the second event may come while the
  first is handled; two acts of the user are a pick and a volume, or two of one.
* `autopause` (341 thousand states): `MinChanged` is 1, so one cycle stands for
  the 4096 frames a change takes; notifications that wait saturate at 2.
* `appprocesses` (129 thousand states): the agent and two instances; one post of
  each kind stands for the code's three and five, three events are enough for
  an opening, a crash and a choice of the default in any order, and for an
  instance without an output device that makes NovaLINK the default and
  crashes. That the helper's fallback fails takes no event: it may do so always.

**Fairness.** Stated per module, for what the system schedules, never for what
the environment decides (clients, the user, plugging, crashes, failing calls).

* `TaskQueue`: weak for workers, threads in `QueueSync`, producers with a task in
  hand: runnable threads, or threads in a timed wait, which ends (`TimeOut`).
* `ClientMap`: weak for updates and readers inside one; strong for `LockMapsRT`
  only, as the real-time worker competes for `mMapsMutex` with IO threads that
  take it again and again, each for a moment of an IO cycle.
* `PlayThrough`: strong for threads that wait for the mutex others take again
  and again; weak for the deadline, for IOProcs that the HAL calls, for waiters.
* `PlayThroughHandover`: weak for the helper's queues, registration and its
  answer, timers and handlers on both sides, the time-out of a request, and the
  fallback. That the app answers a request is not assumed.
* `OutputDevice`: strong for what waits for a lock; weak for the thread that
  holds it and for the copy of the volume.
* `AutoPause`: weak for the listener and for the end of a block; strong for the
  blocks, which a later one of their kind replaces.
* `MicInputMixer`: strong for threads that wait for `_lock`, so that `DrainEnds`
  fails only for a real reason.
* `AppProcesses`: weak for every process, launchd and the helper.
* `Clients`, the driver and `PlayThroughIO` state none: they have no liveness
  property. That calls of Clients return is `SyncCallsReturn` of the queue they
  wait for.

**Deadlock** is checked in `taskqueue`, `clientmap`, `clients`, `playthrough`,
`playthrough_live` and `autopause`. The others may really stop: budgets of
events or requests run out, the logging thread has ended, no process is left.

**Mutants.** Every property of a passing run has one: definitions named
`X_Reason` directly before the definition `X` they alter, each a plausible
slip (a dropped mutex, a forgotten second change, a counter tested too early)
that the run detects.

## 4. Findings and observations

**Finding** (`micmixer_drain`). Stopping the microphone holds `_lock` and waits
for the serial inject queue (A`NovaLINKMicInputMixer.mm` 560-562); a block queued
there takes `_lock` first (310). If one was queued just before, they wait for
each other for ever. `PROJECT.json` quotes the comment.

**Observations**, made while modelling. No run states them; where a property
exempts one, it is named. Numbers are lines of the file named first.

1. Task queue. The destructor takes a completed Stop task for a joined thread and
   may destroy semaphores that the worker is about to signal; it stops the
   real-time worker first, so an update queued before the other worker's Stop
   task waits for ever. The destructor is modelled and the proofs cover it, but
   the driver never destroys a queue and no run does. `ServesInOrder` is proved
   until the tasks nobody will serve are deleted.
2. Client map: removing one client of a process drops the process's list from
   the PID index, which nobody queries.
3. Clients: a client that is removed before its StopIO task ran is counted as
   doing IO for ever (`CountersExact` counts these as `Leaked`). Setting the music player's PID to 0 does not
   clear a bundle ID that is set.
4. Play-through (A`NovaLINKPlayThrough.cpp`). The comment at 1944, that
   Start and Stop are mutually exclusive, does not hold: `Start` lets go of the
   mutex after its claim (1000). A `Stop` in between marks an IOProc Stopped; the first
   cycle of a second start then stops that IOProc (1920) and its state remains
   Starting. The branch for a partial stop (941-949, 1003-1008) is unreachable,
   which is now proved (`FlagFollowsIOProcs`).
5. Handover: the clean-up reads the connection without the lock
   (H`NovaLINKXPCHelperService.mm` 138); if the app registers and stops the
   fallback just then, both play, against the comment at 181. A relaunch of the
   app is taken to be slower than the helper's handling of the invalidation.
   The app retries (A`NovaLINKXPCListener.mm`) only once its first message on a
   connection was answered (144): if the first connection breaks before, only
   an error is shown, as the comment at 124 says, and the helper never hears of
   an app that goes on running; `AppFindsHelper` begins with an app that has a
   reason to try (`Recovering`). The same is reached later, against the comment
   at 143, by two orders of callbacks that TLC finds when `Recovering` is left
   out: the helper crashes before the first answer, the interruption handler
   registers with a reply that installs nothing (121), and then the connection
   breaks; or the invalidation handler of an old connection, running after the
   timer made a new one, sets the reference to nil (146), so that the new one's
   answer installs its handler on nil.
6. Device: if the app's last client leaves while a request to disable controls
   is pending, the request to enable them is dropped and they stay off. The UI
   sounds device's mute control has the ID `kAudioObjectUnknown`, and is listed
   once the app has left (the one ID that does not answer which `ListsAnswered`
   allows). `SetEnabledControls` notifies nobody by itself. A
   refused change leaves stale pending values. Requests wait behind StartIO's
   XPC round trip on the serial queue. A change of the rate may set up the
   microphone's ring while a frame is stored (D`NovaLINK_Device.cpp` 1866).
   `NovaLINKDeviceControlsList::PropagateControlListChange` does nothing, so the
   toggling of the null device its header describes is dead code.
7. Objects: both streams are constructed with `inIsInput` false
   (D`NovaLINK_Device.cpp` 140); the null device lists no owned objects though
   its stream names it as its owner; its `Streams` size ignores the scope; room
   for strings is compared with the size of an object ID; its stream accepts a
   format without effect; inactive objects still answer.
8. Device's IO: sample times start over with each session and the ring is not
   cleared, so a reader that comes before the first write may hear the session
   before. Stamps advance by one period per call at most. The clock is not set
   again while Clients' counter stays above zero (3). Microphone frames repeat
   if no new ones come. The comment at D`NovaLINK_Device.cpp` 1542 says that
   `Fetch` returns an overload outside the bounds; it returns silence and no error.
9. Logger: the one message both IOProcs log can be torn by its two writers; an
   error that comes while one is logged is lost with the reset.
10. Output device (A`NovaLINKAudioDeviceManager.mm`): after a failed pick
    play-through stays inactive though the old device is there (404, against the
    comment at 492); of two quick picks the first may win; the preferred list
    may hold a device twice; a volume set between the copy and the listener's
    registration is lost; a retry asks whether clients were playing after
    Deactivate, so not the manager but the later catch-up restarts play-through.
11. Auto-pause (A`NovaLINKAutoPauseMusic.mm`): selecting another player does not
    reset `wePaused`, so the app unpauses one that it never paused (`overridden`;
    the comment at 214). If the user plays and pauses again, the app takes the
    pause for its own (the TODO at 140). Toggling auto-pause or restarting IO
    while music is paused leaves it paused (`told`), as does "silent except
    music" in the player's fade-out. A pause that finishes after `ForgetPause`
    sets `wePaused` again.
12. Mic mixer: two threads read the demand and wait for the lock; the one that
    read it first may act last and turn the microphone on without demand (546).
    Buffers queued between the drain and the IOProc's stop are converted with
    the new format after a restart.
13. App processes: if the agent's main thread is blocked for over five seconds
    with the quit request queued, the instance gives up after asking for a
    promotion, and then the agent quits for a handoff and nobody is left. If an
    exit takes more than a second, the agent that launchd starts finds the lock
    held and exits, with the same end. `didSetNovaLINKAsOSDefault` is set after
    the asynchronous set, so a quit in between does not restore the default.
    Signals restore it unconditionally, `applicationWillTerminate` only if the
    flag is set. A crashed UI is not restarted by launchd; only the helper's
    fallback plays then. If that fails too, the helper restores the device the
    crashed process had told its own service, and no earlier one's: after an
    instance whose output device failed, NovaLINK stays the default
    (H`NovaLINKXPCHelperService.mm` 160; `nothingToSet`). A process that cannot open the lock file runs without.

## 5. Proofs

Every safety property that a passing run checks, invariant, action property or
refinement, is proved for every value of the constants; two of the theorems
(`CountersOrdered`, `CountersNeverUnderflow`) state what no run checks, and the
`TypeCorrect` theorems replace runs for the type invariants.

| Property | Theorem |
|---|---|
| `SyncTasksLive`, `TasksOwnedOnce`, `ServesInOrder` | `TaskQueue_Proofs`: `SyncTasksStayLive`, `TasksAreOwnedOnce`, `ImplementsService` |
| `MapsIdentical`, `NoDanglingPointers`, `ActsAsOneMap` | `ClientMap_Proofs`: `MapsAreIdentical`, `PointersNeverDangle`, `ImplementsRegistry` |
| `CountersExact`, `DoingIOTracksHAL`, `HostViewCurrent`, `HostsRegistered`, `MusicPlayerFlagged` | `Clients_Proofs`: `CountersAreExact`, `DoingIOFollowsHAL`, `HostViewIsCurrent`, `HostsAreRegistered`, `MusicPlayerIsFlagged` |
| `Announced`, `PendingRequested`, `HonestAnswers`, `ListsAnswered`, `StampsSteady`, `ReadsFaithful` | `PlugInInterface_Proofs`: `AnnouncementsReach` and `DriverAnnounces`, `PendingChangesCome`, `AnswersAreHonest`, `ListsAreAnswered`, `ClockSteady`, `ReadsAreFaithful` |
| `FlagMatchesIOProcs`, `FetchFaithful`, `MessagesIntact`, `NothingLeftUnlogged` | `PlayThrough_Proofs`: `FlagFollowsIOProcs`, `FetchIsFaithful`, `MessagesStayIntact`, `NothingStaysUnlogged` |
| `NoPlayAfterStop`, `StealsWhenListening` | `Handover_Proofs`: `StoppedStaysStopped`, `DefaultIsHeard` |
| `InAgreement`, `VolumeKept`, `OutputConnected` | `OutputDevice_Proofs`: `AllInAgreement`, `VolumesAreKept`, `OutputIsConnected` |
| `UnpausesOwn` | `AutoPause_Proofs`: `UnpausesOnlyItsOwn` |

Assumptions are the named `ASSUME`s of the modules, which TLC evaluates: sets of
clients and processes are finite, "nobody" and "unset" are not members of them,
every bundle ID of a host is a bundle ID, there are two devices of which one is
the main one (`ObjectsAssumption`; both are static in the code), a cycle fits
into the ring and has at least two frames.

**`TaskQueue_Proofs`.** `Placed` ties where each thread is to what its locals
hold. The invariant behind it is a balance: which tasks are outstanding, on a
stack, in a batch or in a worker's hand. Lemmas say of every step that it adds
one to them, removes one or keeps them. `SyncOwned` and `AsyncOwned` follow, and
from these that a worker's synchronous task belongs to a thread inside
`QueueSync`. The refinement maps a queue of `TaskService` to the worker's batch
followed by the reversed stack.

**`ClientMap_Proofs`.** Any clients, processes, HAL threads and IO threads.
`IInv` has five parts, each proved with the help of those before it:

* `Control`: what an updater does fits where it is;
* `TypeOK`;
* `Locks`: whoever is inside an update holds the mutexes, and `mMapsMutex` is
  the real-time worker's only while somebody waits for a swap. It gives
  `SwapsExclusive`;
* `Progress`: what the two sides look like at each step of an update: identical,
  the shadow ahead by exactly this update, or, after the swap, behind by it.
  `MapsIdentical` alone is not inductive: it says nothing in the window where
  the maps differ, which is where the second change must make the same
  difference as the first. That the second change finds the same conditions
  as the first is part of it;
* `PointersSound`: `NoDanglingPointers` strengthened to the maps in that window,
  where the bundle ID index of the other side is erased early.

`ImplementsRegistry` is the refinement: the abstract map is the main one; the
swap is the registry's update, queries are its queries and every other step
stutters. A query on a HAL thread reads the shadow map, which `Progress` makes
equal to the main one at that moment.

**`Clients_Proofs`.** Any number of clients, queued tasks and property values.
`CountersExact` speaks of moments at which `mMutex` is free. Its strengthening
compares three things: the counters with the sets `counted` and `countedInput`
(`Counts`, at every moment), the sets with the clients' flags in the map
(`Flags`, except for the client of the task in hand), and that client's flags
with what its task is about to do (`HandFlags`). `Mutex` says who is inside;
`Life`, that a client not known to the HAL was never counted, which keeps a
newly added client, whose flags are false, from having been counted. With
these, `NoUnderflow` and `CounterOrder` are comparisons of cardinalities.
`HostViewIsCurrent` comes from `Announced`: what is not waiting to be announced
is known. `MusicPlayerIsFlagged` from `PlayerFlags`, which holds in the middle of
calls too. `HostsAreRegistered` from `Registration`, which also describes the
steps between map and members. `DoingIOFollowsHAL` needs `QueueTracksHAL`: the
last task of a client in the queue, or else its flag, is what the HAL did last.

**`PlugInInterface_Proofs`.** First `Device`: `KnownOrComing` (the HAL knows a
value or its notification is queued) gives `Announced`; `PendingComing` (a pending
value has its request on one of the queues, unless the host refused one) gives
`PendingRequested`. `ImplementsDevice` carries them to the whole driver, whose
questions and IO are stutters. `ClockRight` says that the anchor and the count
determine the last stamp; `LoopbackRight` and `MicRight` say, of each ring, that
every place within the bounds has the frame that was written last for its time,
through `Store` with its overwritten, skipped and first cycles.

The last part is about answers. Its first lemmas turn the tables of each class
into facts (`Over`, `AllIs`; one lemma per class), and those into two for every
object and property: sizes and data agree (`Agree`), and a list is complete
unless the room cuts it short (`Complete`). Only the lists of owned objects,
controls and devices vary, and only by steps that change what they list. The
inductive invariant `Asked` says that the HAL was told the size the property has
now, unless it varies and a change came since. `ListsAreAnswered` adds that all
the objects a list may ever give answer in turn (`Answering`).

**`PlayThrough_Proofs`.** For the IOProcs: `Locks` and `BufferKept` (the buffer
is not changed while an IOProc has its mutex); `RingRight`, by what the input
IOProc does: at rest everything within the bounds is what was stored
(`BoundsHeld`), before it writes the bounds no longer have what it overwrites
(`MakingRoom`, `Writing`), and what the output IOProc has copied is right or has
been given up (`Copying`). For the logger: `SlotOwned`; `LooksAgain` and
`ExitNoticed` follow a flag from its setting to the wake-up. For the control:
`StopHoldsMutex`, `Flags`, and `StatesSeen`, that the state an IOProc saw in a
`Stop` is never one that `Start` sets, so it does not stop what was started
since.

**`Handover_Proofs`.** `NoPlayAfterStop` is inductive by itself. `DefaultIsHeard`
follows from `Registered`: a block that makes NovaLINK the default, or one that
will queue such a block, belongs to a process that has completed its launch, and
so does the connection the helper has.

**`OutputDevice_Proofs`.** `Locked` (who is inside a change holds `stateLock`),
`IDsGrow` (no ID the app keeps is one that its device has yet to get), and
`AgreedOrChanging`: play-through and control sync use the manager's device
unless a change is under way or has failed, and an ID that was looked up is
newer than the one it replaces, so a retry does not take a half-done first
attempt for done. `InSync` gives `VolumeKept`: what listens is in sync.
`OutputConnected` is inductive by itself.

**`AutoPause_Proofs`.** `Held`: while `wePaused` is set or a block is about to
pause or unpause, there is a player the app paused, and it is the selected one
unless the user interfered.

**Only model-checked.** The liveness properties: `SyncCallsReturn`,
`AsyncTasksServed`, `UpdatesComplete`, `CallsReturn`, `WaitersNotice`,
`RequestsHonoured`, `RequestsAnswered`, `AppFindsHelper`, `ChangesEnd`,
`MusicPauses`, `MusicResumes`, `UIComesUp`, `NeverLeftSilent`. They rest on
fairness and so on ENABLED, which the prover does not reason about. `DrainEnds`
is TLC's counterexample. `PlayThrough`, `AppProcesses` and `MicInputMixer` state
no type invariant; the proofs carry the part of one that they need.

## 6. Plan

Proofs to come: the safety cores of the liveness properties, that is, that no
state they forbid is a dead end (who holds a lock is never waiting for one that
is taken after it); type correctness of `PlayThrough` and `AppProcesses`; an
abstract specification of the driver's hand-over (one of app and fallback, in
answer to each request) and of play-through's IO (a queue of frames that may
lose the oldest), with their refinements.

## 7. Not modelled

Audio capture, whose callback is never set. Sample data, volume and pan
arithmetic, format conversion and downmix; the values of single properties;
logging of messages; the user interface and the scripting of music players,
of which one adapter stands for all; taking the mic mixer's listener off and
choosing among microphones; data sources; `unregisterAsNovaLINKApp`; toggling
the default device. The vendored classes of `PublicUtility` (atomic stack,
mutexes, dispatch queues) appear through what they do for their users; the ring
buffer's queue of 32 time bounds is one place, read and written as one. Memory
ordering: the code's atomics and mutexes are taken to give sequentially
consistent steps.
