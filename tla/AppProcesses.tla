---------------------------- MODULE AppProcesses ----------------------------
(***************************************************************************)
(* The companion app's processes: the background agent launchd keeps, the  *)
(* instances the user opens, the lock that lets one of them run, how an    *)
(* instance takes over from the agent, what each does to the system's      *)
(* default output device from its launch to its end, and what launchd and  *)
(* the helper do when one ends (main.m, NovaLINKAppDelegate.mm,            *)
(* NovaLINKTermination.mm).                                                *)
(*                                                                         *)
(* A process runs its launch, its main queue and its global queue's blocks *)
(* concurrently.  Time is not modelled; where the code relies on a delay   *)
(* being long enough, a guard says so (HolderSettled, Relaunch).  The      *)
(* registration with the helper, itself PlayThroughHandover's subject, is  *)
(* one step of FinishLaunch.                                               *)
(***************************************************************************)
EXTENDS Naturals, FiniteSets, Sequences

CONSTANTS
    Procs,          \* process slots, used again when a process has ended
    Nobody,         \* no process
    QuitPosts,      \* how often an instance asks the agent to quit (3 in the code)
    ShowPosts,      \* how often it then asks it to become the UI (5 in the code)
    MaxEvents       \* bound: instances the user opens and quits, defaults the user
                    \* chooses, crashes, signals, and failures of calls the app
                    \* makes, together

ASSUME AppProcessesAssumption ==
    /\ Nobody \notin Procs /\ IsFiniteSet(Procs)
    /\ {QuitPosts, ShowPosts} \subseteq Nat \ {0}
    /\ MaxEvents \in Nat

VARIABLES
    proc,           \* each process: see NotRunning
    lock,           \* the process that holds the lock file's lock
    job,            \* the process launchd runs as the agent
    jobDue,         \* launchd is about to start the agent
    relaunches,     \* kickstarts of the agent on their way
    osDefault,      \* the default output device
    systemDefault,  \* the default device for system sounds
    appConnection,  \* sNovaLINKAppConnection, by its process
    cleanUpsDue,    \* the helper's clean-ups that wait for their delay, each by
                    \* whether its service was told a device to make the default
    helperPlays,    \* the helper plays through itself
    nothingToSet,   \* history: the last clean-up could neither play nor restore,
                    \* and no process has registered since
    owed,           \* history: the user opened the app and nothing went wrong since
    events

launchd == <<job, jobDue, relaunches>>
defaults == <<osDefault, systemDefault>>
helper == <<appConnection, cleanUpsDue, helperPlays, nothingToSet>>
processVars == <<proc, lock, launchd, defaults, helper, owed, events>>

\* pc is how far the process has come; the counters of blocks are those of its
\* queues.
Blocks == {"launch", "steal", "stolen"}

NotRunning ==
    [pc |-> "none", agentMode |-> FALSE, posts |-> 0,
     output |-> FALSE,          \* the manager has an output device
     continueLaunchCompleted |-> FALSE, didSetNovaLINKAsOSDefault |-> FALSE,
     quittingForCompanionUIHandoff |-> FALSE,
     asked |-> FALSE,           \* the request to quit has arrived
     quitBlock |-> FALSE,       \* and its block is on the main queue
     promotions |-> 0,          \* promoteAgentToCompanionUI's blocks
     blocks |-> [b \in Blocks |-> 0],
     status |-> 0]              \* what it will exit with

Process(agent) == [NotRunning EXCEPT !.pc = "main", !.agentMode = agent]

ProcessInit ==
    /\ proc = [p \in Procs |-> NotRunning] /\ lock = Nobody
    /\ job = Nobody /\ jobDue = TRUE /\ relaunches = 0
    /\ osDefault = "speakers" /\ systemDefault = "speakers"
    /\ appConnection = Nobody /\ cleanUpsDue = << >>
    /\ helperPlays = FALSE /\ nothingToSet = FALSE
    /\ owed = FALSE
    /\ events = 0

At(p, pc) == proc[p].pc = pc
Become(p, pc) == proc' = [proc EXCEPT ![p].pc = pc]
Event == events < MaxEvents /\ events' = events + 1

\* A process listens for the notifications from awakeFromNib to
\* applicationWillTerminate.
Observing(p) == proc[p].pc \in {"lookup", "output", "finish", "running", "alert"}

\* Mutant: the handler of the invalidated connection only clears it.
End_NoCleanUp(p, status) ==
    /\ proc' = [proc EXCEPT ![p] = NotRunning]
    /\ lock' = IF lock = p THEN Nobody ELSE lock
    /\ job' = IF job = p THEN Nobody ELSE job
    /\ jobDue' = (jobDue \/ (job = p /\ status # 0))
    /\ appConnection' = IF proc[p].continueLaunchCompleted THEN Nobody ELSE appConnection
    /\ UNCHANGED <<cleanUpsDue, relaunches, helperPlays, nothingToSet>>

\* The process ends: its lock is free, launchd starts the agent again unless it
\* exited with 0, and the helper, when the process had registered, forgets the
\* connection it stores, this process's or not, and waits before it cleans up.
\* The clean-up is the service's of this process's connection, and knows the
\* device that the process told that one, if it had any.
End(p, status) ==
    /\ proc' = [proc EXCEPT ![p] = NotRunning]
    /\ lock' = IF lock = p THEN Nobody ELSE lock
    /\ job' = IF job = p THEN Nobody ELSE job
    /\ jobDue' = (jobDue \/ (job = p /\ status # 0))
    /\ IF proc[p].continueLaunchCompleted
       THEN appConnection' = Nobody /\ cleanUpsDue' = Append(cleanUpsDue, proc[p].output)
       ELSE UNCHANGED <<appConnection, cleanUpsDue>>
    /\ UNCHANGED <<relaunches, helperPlays, nothingToSet>>

-----------------------------------------------------------------------------
(* The defaults *)

\* System sounds are taken along when they go to the same device.
SetAsOSDefault ==
    /\ osDefault' = "NovaLINK"
    /\ systemDefault' = IF systemDefault = osDefault THEN "NovaLINK" ELSE systemDefault

\* The error of a set that fails is shown, and nothing else.
SetNovaLINKDeviceAsDefault(p) ==
    /\ proc[p].blocks["steal"] > 0
    /\ proc' = [proc EXCEPT ![p].blocks["steal"] = @ - 1, ![p].blocks["stolen"] = @ + 1]
    /\ \/ SetAsOSDefault /\ UNCHANGED events
       \/ Event /\ UNCHANGED defaults
    /\ UNCHANGED <<lock, launchd, helper, owed>>

MarkSet(p) ==
    /\ proc[p].blocks["stolen"] > 0
    /\ proc' = [proc EXCEPT ![p].blocks["stolen"] = @ - 1, ![p].didSetNovaLINKAsOSDefault = TRUE]
    /\ UNCHANGED <<lock, launchd, defaults, helper, owed, events>>

UnsetAsOSDefault ==
    /\ osDefault' = "speakers"
    /\ systemDefault' = "speakers"

\* Without an output device there is nothing to make the default.
UnsetNovaLINKDeviceAsOSDefault(p) ==
    IF proc[p].output THEN UnsetAsOSDefault ELSE UNCHANGED defaults

-----------------------------------------------------------------------------
(* Getting the lock *)

OpenFails(p) ==
    /\ At(p, "main") /\ Event
    /\ Become(p, "locked")
    /\ UNCHANGED <<lock, launchd, defaults, helper, owed>>

TakeLock(p) ==
    /\ proc[p].pc \in {"main", "asking"} /\ (At(p, "asking") => proc[p].posts = 0)
    /\ lock = Nobody /\ lock' = p
    /\ Become(p, "locked")
    /\ UNCHANGED <<launchd, defaults, helper, owed, events>>

AgentGivesUp(p) ==
    /\ At(p, "main") /\ lock # Nobody /\ proc[p].agentMode
    /\ End(p, 0)
    /\ UNCHANGED <<defaults, owed, events>>

AskForHandoff(p) ==
    /\ At(p, "main") /\ lock # Nobody /\ ~proc[p].agentMode
    /\ proc' = [proc EXCEPT ![p].pc = "asking", ![p].posts = QuitPosts]
    /\ UNCHANGED <<lock, launchd, defaults, helper, owed, events>>

\* A notification reaches the processes that listen when it is posted.
PostQuit(p) ==
    /\ At(p, "asking") /\ proc[p].posts > 0
    /\ proc' = [q \in Procs |->
           CASE q = p -> [proc[q] EXCEPT !.posts = @ - 1]
             [] q # p /\ Observing(q) -> [proc[q] EXCEPT !.asked = TRUE]
             [] OTHER -> proc[q]]
    /\ UNCHANGED <<lock, launchd, defaults, helper, owed, events>>

\* The five seconds of attempts are taken to outlast a holder's way to
\* awakeFromNib, its way out and the second a relaunch waits.
HolderSettled ==
    /\ lock # Nobody /\ Observing(lock)
    /\ ~proc[lock].asked /\ ~proc[lock].quitBlock
    /\ relaunches = 0

AttemptsRunOut(p) ==
    /\ At(p, "asking") /\ proc[p].posts = 0 /\ HolderSettled
    /\ proc' = [proc EXCEPT ![p].pc = "showing", ![p].posts = ShowPosts]
    /\ UNCHANGED <<lock, launchd, defaults, helper, owed, events>>

PostShow(p) ==
    /\ At(p, "showing") /\ proc[p].posts > 0
    /\ proc' = [q \in Procs |->
           CASE q = p -> [proc[q] EXCEPT !.posts = @ - 1]
             [] q # p /\ Observing(q) -> [proc[q] EXCEPT !.promotions = @ + 1]
             [] OTHER -> proc[q]]
    /\ UNCHANGED <<lock, launchd, defaults, helper, owed, events>>

InstanceGivesUp(p) ==
    /\ At(p, "showing") /\ proc[p].posts = 0
    /\ End(p, 0)
    /\ UNCHANGED <<defaults, owed, events>>

-----------------------------------------------------------------------------
(* Launching *)

AwakeFromNib(p) ==
    /\ At(p, "locked") /\ Become(p, "lookup")
    /\ UNCHANGED <<lock, launchd, defaults, helper, owed, events>>

\* The device is found before the timeout; the agent goes on without access to
\* the microphone, an instance tells the user and terminates.
CompleteLaunch(p) ==
    /\ At(p, "lookup")
    /\ \/ Become(p, "output") /\ UNCHANGED <<owed, events>>
       \/ Event /\ ~proc[p].agentMode /\ Become(p, "alert") /\ owed' = FALSE
    /\ UNCHANGED <<lock, launchd, defaults, helper>>

\* Without the device the agent exits, to be started again when the driver is
\* there; an instance tells the user and then terminates.
DeviceUnavailable(p) ==
    /\ At(p, "lookup") /\ Event
    /\ IF proc[p].agentMode
       THEN \E status \in {0, 1} : End(p, status)
       ELSE Become(p, "alert") /\ UNCHANGED <<lock, launchd, helper>>
    /\ owed' = FALSE
    /\ UNCHANGED <<defaults>>

\* Mutant: NovaLINK is made the default before the listener is set up.
SetInitialOutputDevice_Steals(p) ==
    /\ At(p, "output")
    /\ proc' = [proc EXCEPT ![p].pc = "finish", ![p].output = TRUE,
                            ![p].blocks["steal"] = IF proc[p].agentMode THEN 0 ELSE 1]
    /\ UNCHANGED <<lock, launchd, defaults, helper, owed, events>>

\* A device that cannot be set leaves the app without one; with no device to set
\* it terminates.
SetInitialOutputDevice(p) ==
    /\ At(p, "output")
    /\ \/ /\ proc' = [proc EXCEPT ![p].pc = "finish", ![p].output = TRUE]
          /\ UNCHANGED <<owed, events>>
       \/ Event /\ Become(p, "finish") /\ UNCHANGED owed
       \/ Event /\ Become(p, "alert") /\ owed' = FALSE
    /\ UNCHANGED <<lock, launchd, defaults, helper>>

\* The listener registers with the helper, which hands play-through back, and is
\* told the output device.
FinishLaunch(p) ==
    /\ At(p, "finish")
    /\ proc' = [proc EXCEPT ![p].pc = "running", ![p].continueLaunchCompleted = TRUE,
                            ![p].blocks["launch"] = 1]
    /\ appConnection' = p /\ helperPlays' = FALSE /\ nothingToSet' = FALSE
    /\ UNCHANGED <<lock, launchd, defaults, cleanUpsDue, owed, events>>

\* The block looks at agentMode when it runs.
RunLaunchBlock(p) ==
    /\ proc[p].blocks["launch"] > 0
    /\ proc' = [proc EXCEPT ![p].blocks["launch"] = 0,
                            ![p].blocks["steal"] = IF proc[p].agentMode THEN @ ELSE @ + 1]
    /\ UNCHANGED <<lock, launchd, defaults, helper, owed, events>>

-----------------------------------------------------------------------------
(* The main queue *)

\* -[NSApp terminate:]: only what this process set is restored, and the agent is
\* brought back unless an instance waits to take over.
Terminate(p, self) ==
    /\ proc' = [proc EXCEPT ![p] =
           [self EXCEPT !.pc = "exiting", !.asked = FALSE, !.quitBlock = FALSE, !.promotions = 0]]
    /\ IF self.didSetNovaLINKAsOSDefault
       THEN UnsetNovaLINKDeviceAsOSDefault(p)
       ELSE UNCHANGED defaults
    /\ relaunches' = IF self.quittingForCompanionUIHandoff THEN relaunches ELSE relaunches + 1
    /\ UNCHANGED <<lock, job, jobDue, helper>>

HandleQuitAgentForCompanionUI(p) ==
    /\ Observing(p) /\ proc[p].asked
    /\ proc' = [proc EXCEPT ![p].asked = FALSE,
                            ![p].quitBlock = @ \/ proc[p].agentMode]
    /\ UNCHANGED <<lock, launchd, defaults, helper, owed, events>>

RunQuitBlock(p) ==
    /\ Observing(p) /\ proc[p].quitBlock
    /\ Terminate(p, [proc[p] EXCEPT !.quittingForCompanionUIHandoff = TRUE])
    /\ UNCHANGED <<owed, events>>

\* Mutant: a promotion that comes too early is dropped.
PromoteAgentToCompanionUI_Drops(p) ==
    /\ Observing(p) /\ proc[p].promotions > 0
    /\ proc' = [proc EXCEPT
           ![p].promotions = @ - 1,
           ![p].agentMode = @ /\ ~proc[p].continueLaunchCompleted,
           ![p].blocks["steal"] = IF proc[p].continueLaunchCompleted THEN @ + 1 ELSE @]
    /\ UNCHANGED <<lock, launchd, defaults, helper, owed, events>>

\* A promotion that comes before the launch is complete is queued again.
PromoteAgentToCompanionUI(p) ==
    /\ Observing(p) /\ proc[p].promotions > 0
    /\ LET active == ~proc[p].agentMode /\ proc[p].didSetNovaLINKAsOSDefault
       IN  IF active
           THEN proc' = [proc EXCEPT ![p].promotions = @ - 1]
           ELSE /\ proc[p].continueLaunchCompleted
                /\ proc' = [proc EXCEPT
                       ![p].promotions = @ - 1, ![p].agentMode = FALSE,
                       ![p].blocks["steal"] =
                           IF proc[p].didSetNovaLINKAsOSDefault THEN @ ELSE @ + 1]
    /\ UNCHANGED <<lock, launchd, defaults, helper, owed, events>>

UserQuits(p) ==
    /\ Observing(p) /\ ~At(p, "alert")
    /\ Event
    /\ Terminate(p, proc[p])
    /\ owed' = FALSE

DismissAlert(p) ==
    /\ At(p, "alert")
    /\ Terminate(p, proc[p])
    /\ owed' = FALSE
    /\ UNCHANGED events

Exit(p) ==
    /\ At(p, "exiting")
    /\ End(p, proc[p].status)
    /\ UNCHANGED <<defaults, owed, events>>

\* SIGTERM and an uncaught exception: once SetUpTerminationCleanUp has run the
\* default is restored, whoever set it, before the process dies.
Dies(p) ==
    IF proc[p].continueLaunchCompleted
    THEN /\ proc' = [proc EXCEPT ![p].pc = "exiting", ![p].status = 1, ![p].asked = FALSE,
                                 ![p].quitBlock = FALSE, ![p].promotions = 0]
         /\ UnsetNovaLINKDeviceAsOSDefault(p)
         /\ UNCHANGED <<lock, job, jobDue, relaunches, helper>>
    ELSE End(p, 1) /\ UNCHANGED defaults

Crash(p) ==
    /\ ~At(p, "none")
    /\ Event
    /\ \/ ~At(p, "exiting") /\ Dies(p)
       \/ End(p, 1) /\ UNCHANGED defaults
    /\ owed' = FALSE

-----------------------------------------------------------------------------
(* launchd, the helper and the user *)

\* Which slot a process gets says nothing about it, so it is always the same.
Free == {p \in Procs : At(p, "none")}
Slot == CHOOSE p \in Free : TRUE

StartJob ==
    /\ jobDue /\ job = Nobody /\ Free # {}
    /\ proc' = [proc EXCEPT ![Slot] = Process(TRUE)] /\ job' = Slot
    /\ jobDue' = FALSE
    /\ UNCHANGED <<lock, relaunches, defaults, helper, owed, events>>

\* kickstart -k kills the agent that runs.  The second the relaunch waits is
\* taken to outlast the exit of the process that asked for it.
Relaunch ==
    /\ relaunches > 0
    /\ \A p \in Procs : At(p, "exiting") => proc[p].quittingForCompanionUIHandoff
    /\ IF job = Nobody
       THEN /\ jobDue' = TRUE /\ relaunches' = relaunches - 1
            /\ UNCHANGED <<proc, lock, job, defaults>>
       ELSE LET dying == [proc[job] EXCEPT !.pc = "exiting", !.status = 1, !.asked = FALSE,
                                           !.quitBlock = FALSE, !.promotions = 0]
            IN  /\ proc' = [proc EXCEPT ![job] = dying]
                /\ IF proc[job].continueLaunchCompleted
                   THEN UnsetNovaLINKDeviceAsOSDefault(job)
                   ELSE UNCHANGED defaults
                /\ jobDue' = TRUE /\ relaunches' = relaunches - 1
                /\ UNCHANGED <<lock, job>>
    /\ UNCHANGED <<helper, owed, events>>

\* startFallbackOrUnsetNovaLINKDeviceAsDefault: when the fallback cannot be
\* started the default is restored, if this service was told a device.
CleanUp ==
    /\ cleanUpsDue # << >> /\ cleanUpsDue' = Tail(cleanUpsDue)
    /\ \/ appConnection # Nobody /\ UNCHANGED <<defaults, helperPlays, nothingToSet>>
       \/ /\ appConnection = Nobody
          /\ helperPlays' = TRUE /\ nothingToSet' = FALSE
          /\ UNCHANGED defaults
       \/ /\ appConnection = Nobody
          /\ IF Head(cleanUpsDue) THEN UnsetAsOSDefault ELSE UNCHANGED defaults
          /\ nothingToSet' = ~Head(cleanUpsDue)
          /\ UNCHANGED helperPlays
    /\ UNCHANGED <<proc, lock, launchd, appConnection, owed, events>>

OpenApp ==
    /\ Event
    /\ Free # {} /\ proc' = [proc EXCEPT ![Slot] = Process(FALSE)]
    /\ owed' = TRUE
    /\ UNCHANGED <<lock, launchd, defaults, helper>>

\* The user picks NovaLINK only while an app plays through.
ChooseDefault ==
    /\ Event
    /\ \/ osDefault' = "speakers" /\ systemDefault' = "speakers"
       \/ osDefault' = "NovaLINK" /\ appConnection # Nobody /\ UNCHANGED systemDefault
    /\ UNCHANGED <<proc, lock, launchd, helper, owed>>

-----------------------------------------------------------------------------

LockStep(p) ==
    \/ OpenFails(p) \/ TakeLock(p) \/ AgentGivesUp(p) \/ AskForHandoff(p)
    \/ PostQuit(p) \/ AttemptsRunOut(p) \/ PostShow(p) \/ InstanceGivesUp(p)

LaunchStep(p) ==
    \/ AwakeFromNib(p) \/ CompleteLaunch(p) \/ DeviceUnavailable(p)
    \/ SetInitialOutputDevice(p) \/ FinishLaunch(p)

BlockStep(p) ==
    \/ RunLaunchBlock(p) \/ SetNovaLINKDeviceAsDefault(p) \/ MarkSet(p)

Environment ==
    \/ OpenApp \/ ChooseDefault
    \/ \E p \in Procs : UserQuits(p) \/ DismissAlert(p) \/ Crash(p)

ProcessNext ==
    \/ Environment \/ StartJob \/ Relaunch \/ CleanUp
    \/ \E p \in Procs :
        \/ LockStep(p) \/ LaunchStep(p) \/ BlockStep(p) \/ Exit(p)
        \/ HandleQuitAgentForCompanionUI(p) \/ RunQuitBlock(p)
        \/ PromoteAgentToCompanionUI(p)

\* Processes run, their queues are served, launchd starts what is due and the
\* helper's delayed block runs.  The user need do nothing.
Fairness ==
    /\ WF_processVars(StartJob) /\ WF_processVars(Relaunch) /\ WF_processVars(CleanUp)
    /\ \A p \in Procs :
        /\ WF_processVars(LockStep(p)) /\ WF_processVars(LaunchStep(p))
        /\ WF_processVars(BlockStep(p)) /\ WF_processVars(Exit(p))
        /\ WF_processVars(HandleQuitAgentForCompanionUI(p)) /\ WF_processVars(RunQuitBlock(p))
        /\ WF_processVars(PromoteAgentToCompanionUI(p))

ProcessSpec == ProcessInit /\ [][ProcessNext]_processVars /\ Fairness

-----------------------------------------------------------------------------

Hosting == helperPlays \/ \E p \in Procs : proc[p].continueLaunchCompleted

\* The default is stolen only once a process listens for the driver's requests:
\* no promotion, launch or handoff makes audio go to NovaLINK before
\* (NovaLINKAppDelegate.mm:250, 302).
StealsWhenListening ==
    [][osDefault # "NovaLINK" /\ osDefault' = "NovaLINK" => Hosting]_processVars

\* When the app is opened its UI comes up and stays, by the handoff or by the
\* agent's promotion, whatever the agent is doing, as long as nobody quits the
\* app, nothing crashes and no alert comes instead (main.m:54, 76).
UIComesUp ==
    owed ~> (~owed \/ \E p \in Procs :
                        At(p, "alert") \/ (At(p, "running") /\ ~proc[p].agentMode))

\* Audio that goes to NovaLINK does not stay unheard: whichever process ends and
\* however, an app or the helper comes to play through or the default is
\* restored, unless the fallback fails for a process that never had an output
\* device and so told its service none (NovaLINKXPCHelperService.mm:121, 160).
NeverLeftSilent ==
    (osDefault = "NovaLINK" /\ ~Hosting) ~> (osDefault # "NovaLINK" \/ Hosting \/ nothingToSet)
=============================================================================
