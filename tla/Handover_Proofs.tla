-------------------------- MODULE Handover_Proofs --------------------------
(***************************************************************************)
(* Proofs about who plays through.  The first part is about                *)
(* PlayThroughHandover: a fallback play-through which was stopped stays    *)
(* stopped, for any number of connections, requests and crashes of the     *)
(* helper.  The second is about AppProcesses: NovaLINK is not made the     *)
(* default device before somebody can play through.                        *)
(***************************************************************************)
EXTENDS PlayThroughHandover, AppProcesses, TLAPS

-----------------------------------------------------------------------------
(* Type correctness *)

LEMMA InitType == Init => TypeOK
<1> SUFFICES ASSUME Init PROVE TypeOK
  OBVIOUS
<1> USE HandoverAssumption DEF Init, Replies
<1>1. registration \in [Conns -> {"unused", "dropped", "sent", "handling", "stored"}]
  OBVIOUS
<1>2. requestsLeft \in 0 .. MaxRequests /\ crashesLeft \in 0 .. MaxCrashes
  OBVIOUS
<1>3. /\ appUp \in BOOLEAN /\ interrupted \in BOOLEAN /\ retryTimer \in BOOLEAN
      /\ cleared \in BOOLEAN /\ retrying \in BOOLEAN
      /\ cleanUpChecked \in BOOLEAN /\ appRegistered \in BOOLEAN
      /\ devicesConfigured \in BOOLEAN /\ deferredStart \in BOOLEAN
      /\ fallbackPlaying \in BOOLEAN
  OBVIOUS
<1> QED BY <1>1, <1>2, <1>3 DEF TypeOK

\* Whatever becomes of a message, it is a message of a kind there is.
LEMMA VanishType ==
    ASSUME NEW c \in Conns, TypeOK, NEW messages \in Vanish(c, registration)
    PROVE  messages \in [Conns -> {"unused", "dropped", "sent", "handling", "stored"}]
BY DEF Vanish, TypeOK

\* A new connection: what the app and the wire are like then.
LEMMA ConnectType ==
    ASSUME TypeOK, Connect
    PROVE  /\ helperConnection' \in Conns
           /\ registration' \in [Conns -> {"unused", "dropped", "sent", "handling", "stored"}]
           /\ invalid' \subseteq Conns \cup {Proxy}
           /\ late' \subseteq {"invalidated", "failed"}
           /\ cleared' \in BOOLEAN /\ retrying' \in BOOLEAN /\ interrupted' \in BOOLEAN
           /\ awaiting' = "first"
<1>1. Unused \in Conns
  BY DEF Connect, SomeUnused, Unused
<1>2. CASE helperConnection = NoConn
  BY <1>1, <1>2 DEF Connect, TypeOK
<1>3. CASE helperConnection # NoConn
  <2>1. helperConnection \in Conns
    BY <1>3 DEF TypeOK
  <2>2. PICK messages \in Vanish(helperConnection, registration) :
            registration' = [messages EXCEPT ![Unused] = "sent"]
    BY <1>3 DEF Connect
  <2>3. messages \in [Conns -> {"unused", "dropped", "sent", "handling", "stored"}]
    BY <2>1, <2>2, VanishType
  <2>4. registration' \in [Conns -> {"unused", "dropped", "sent", "handling", "stored"}]
    BY <1>1, <2>2, <2>3
  <2>5. invalid' \subseteq Conns \cup {Proxy} /\ late' \subseteq {"invalidated", "failed"}
    BY <1>3, <2>1 DEF Connect, StillToCome, TypeOK
  <2> QED BY <1>1, <2>4, <2>5 DEF Connect
<1> QED BY <1>2, <1>3

\* The app's steps.
LEMMA AppType ==
    ASSUME TypeOK,
           \/ AppLaunches
           \/ AppDies
           \/ ConnectionBreaks
           \/ RegistrationAnswered
           \/ RetryAfterTimeout
           \/ RetryTimerFires
           \/ InterruptionHandler
           \/ DriverSeesApp
           \/ AppStartsPlayThrough
    PROVE  TypeOK'
<1> USE HandoverAssumption DEF app, connecting, wire, shared, clean, fallback, request
<1>1. CASE AppLaunches
  <2>1. Connect
    BY <1>1 DEF AppLaunches
  <2> QED BY <1>1, <2>1, ConnectType DEF TypeOK, AppLaunches, Replies
<1>2. CASE AppDies
  <2>1. registration' \in [Conns -> {"unused", "dropped", "sent", "handling", "stored"}]
    BY <1>2, VanishType DEF TypeOK, AppDies
  <2>2. sNovaLINKAppEndpoint' \in {"nil", "live", "dead"}
    BY <1>2 DEF TypeOK, AppDies
  <2>3. invalid' \subseteq Conns \cup {Proxy}
    BY <1>2 DEF TypeOK, AppDies
  <2>4. /\ appUp' \in BOOLEAN /\ interrupted' \in BOOLEAN /\ retryTimer' \in BOOLEAN
        /\ cleared' \in BOOLEAN /\ retrying' \in BOOLEAN
    BY <1>2 DEF AppDies
  <2> QED BY <1>2, <2>1, <2>2, <2>3, <2>4 DEF TypeOK, AppDies, Replies
<1>3. CASE ConnectionBreaks
  <2>1. helperConnection \in Conns
    BY <1>3 DEF TypeOK, ConnectionBreaks
  <2>2. registration' \in [Conns -> {"unused", "dropped", "sent", "handling", "stored"}]
    BY <1>3, <2>1, VanishType DEF ConnectionBreaks
  <2>3. invalid' \subseteq Conns \cup {Proxy} /\ late' \subseteq {"invalidated", "failed"}
    BY <1>3, <2>1 DEF TypeOK, ConnectionBreaks, StillToCome
  <2>4. interrupted' \in BOOLEAN /\ retrying' \in BOOLEAN
    BY <1>3 DEF ConnectionBreaks
  <2> QED BY <1>3, <2>2, <2>3, <2>4 DEF TypeOK, ConnectionBreaks, Replies
<1>4. CASE RetryTimerFires
  <2>1. Connect
    BY <1>4 DEF RetryTimerFires
  <2> QED BY <1>4, <2>1, ConnectType DEF TypeOK, RetryTimerFires, Replies
<1>5. CASE InterruptionHandler
  <2>1. registration' \in [Conns -> {"unused", "dropped", "sent", "handling", "stored"}]
    BY <1>5 DEF TypeOK, InterruptionHandler
  <2>2. interrupted' \in BOOLEAN
    BY <1>5 DEF InterruptionHandler
  <2> QED BY <1>5, <2>1, <2>2 DEF TypeOK, InterruptionHandler, Replies
<1>6. CASE DriverSeesApp
  BY <1>6 DEF TypeOK, DriverSeesApp, Replies
<1>7. CASE AppStartsPlayThrough
  BY <1>7 DEF TypeOK, AppStartsPlayThrough, Answer, Replies
<1>8. CASE RegistrationAnswered
  <2>1. retryTimer' \in BOOLEAN /\ retrying' \in BOOLEAN
    BY <1>8 DEF TypeOK, RegistrationAnswered
  <2> QED BY <1>8, <2>1 DEF TypeOK, RegistrationAnswered, Replies
<1>9. CASE RetryAfterTimeout
  <2>1. cleared' \in BOOLEAN /\ late' \subseteq {"invalidated", "failed"}
    BY <1>9 DEF TypeOK, RetryAfterTimeout
  <2> QED BY <1>9, <2>1 DEF TypeOK, RetryAfterTimeout, Replies
<1> QED BY <1>1, <1>2, <1>3, <1>4, <1>5, <1>6, <1>7, <1>8, <1>9

\* The helper's steps, its crash included.
LEMMA HelperType ==
    ASSUME TypeOK,
           \/ (\E c \in Conns : BeginRegister(c))
           \/ (\E c \in Conns : StoreConnection(c))
           \/ (\E c \in Conns \cup {Proxy} : InvalidationHandler(c))
           \/ RunCleanUp
           \/ StartFallbackAfterCleanUp
           \/ DeferredStart
           \/ PreferApp
           \/ StartFallback
           \/ Send
           \/ Reply
           \/ HelperCrashes
           \/ FallbackNotified
    PROVE  TypeOK'
<1> USE HandoverAssumption DEF app, connecting, wire, shared, clean, fallback, request
<1>1. CASE \E c \in Conns : BeginRegister(c)
  <2> PICK c \in Conns : BeginRegister(c)
    BY <1>1
  <2>1. registration' \in [Conns -> {"unused", "dropped", "sent", "handling", "stored"}]
    BY DEF TypeOK, BeginRegister
  <2>2. devicesConfigured' \in BOOLEAN /\ fallbackPlaying' \in BOOLEAN
    BY DEF TypeOK, BeginRegister
  <2> QED BY <2>1, <2>2 DEF TypeOK, BeginRegister, Replies
<1>2. CASE \E c \in Conns : StoreConnection(c)
  <2> PICK c \in Conns : StoreConnection(c)
    BY <1>2
  <2>1. registration' \in [Conns -> {"unused", "dropped", "sent", "handling", "stored"}]
    BY DEF TypeOK, StoreConnection
  <2> QED BY <2>1 DEF TypeOK, StoreConnection, Replies
<1>3. CASE \E c \in Conns \cup {Proxy} : InvalidationHandler(c)
  <2> PICK c \in Conns \cup {Proxy} : InvalidationHandler(c)
    BY <1>3
  <2>1. registration' \in [Conns -> {"unused", "dropped", "sent", "handling", "stored"}]
    BY DEF TypeOK, InvalidationHandler
  <2> QED BY <2>1 DEF TypeOK, InvalidationHandler, Replies
<1>4. CASE RunCleanUp
  <2>1. cleanUpChecked' \in BOOLEAN
    BY <1>4 DEF TypeOK, RunCleanUp
  <2> QED BY <1>4, <2>1 DEF TypeOK, RunCleanUp, Replies
<1>5. CASE StartFallbackAfterCleanUp
  <2>1. cleanUpChecked' \in BOOLEAN
    BY <1>5 DEF TypeOK, StartFallbackAfterCleanUp
  <2>2. devicesConfigured' \in BOOLEAN /\ deferredStart' \in BOOLEAN
    BY <1>5 DEF TypeOK, StartFallbackAfterCleanUp
  <2> QED BY <1>5, <2>1, <2>2 DEF TypeOK, StartFallbackAfterCleanUp, Replies
<1>6. CASE DeferredStart
  <2>1. deferredStart' \in BOOLEAN /\ fallbackPlaying' \in BOOLEAN
    BY <1>6 DEF TypeOK, DeferredStart
  <2> QED BY <1>6, <2>1 DEF TypeOK, DeferredStart, Replies
<1>7. CASE PreferApp
  <2>1. hpc' \in {"send", "startFallback"}
    BY <1>7 DEF TypeOK, PreferApp
  <2> QED BY <1>7, <2>1 DEF TypeOK, PreferApp, Replies
<1>8. CASE StartFallback
  <2>1. devicesConfigured' \in BOOLEAN /\ deferredStart' \in BOOLEAN
    BY <1>8 DEF TypeOK, StartFallback, Answer
  <2> QED BY <1>8, <2>1 DEF TypeOK, StartFallback, Answer, Replies
<1>9. CASE Send
  BY <1>9 DEF TypeOK, Send, Forward, Answer, Replies
<1>10. CASE Reply
  BY <1>10 DEF TypeOK, Reply, Replies
<1>11. CASE HelperCrashes
  <2>1. crashesLeft' \in 0 .. MaxCrashes
    BY <1>11 DEF TypeOK, HelperCrashes
  <2>2. registration' \in [Conns -> {"unused", "dropped", "sent", "handling", "stored"}]
    BY <1>11 DEF TypeOK, HelperCrashes
  <2>3. interrupted' \in BOOLEAN
    BY <1>11 DEF TypeOK, HelperCrashes
  <2>4. /\ cleanUpChecked' \in BOOLEAN /\ deferredStart' \in BOOLEAN
        /\ devicesConfigured' \in BOOLEAN /\ fallbackPlaying' \in BOOLEAN
    BY <1>11 DEF TypeOK, HelperCrashes
  <2>5. late' \subseteq {"invalidated", "failed"}
    BY <1>11 DEF TypeOK, HelperCrashes
  <2> QED BY <1>11, <2>1, <2>2, <2>3, <2>4, <2>5 DEF TypeOK, HelperCrashes, Replies
<1>12. CASE FallbackNotified
  <2>1. fallbackPlaying' \in BOOLEAN
    BY <1>12 DEF TypeOK, FallbackNotified
  <2> QED BY <1>12, <2>1 DEF TypeOK, FallbackNotified, Replies
<1> QED BY <1>1, <1>2, <1>3, <1>4, <1>5, <1>6, <1>7, <1>8, <1>9, <1>10, <1>11, <1>12

\* The driver's request and what becomes of it.
LEMMA RequestType ==
    ASSUME TypeOK,
           \/ Ask
           \/ MessageFails
           \/ MessageFailsAgain
           \/ TimeOut
    PROVE  TypeOK'
<1> USE HandoverAssumption DEF app, connecting, wire, shared, clean, fallback, request
<1>1. CASE Ask
  <2>1. requestsLeft' \in 0 .. MaxRequests
    BY <1>1 DEF TypeOK, Ask
  <2>2. hpc' \in {"send", "asked"}
    BY <1>1 DEF TypeOK, Ask
  <2> QED BY <1>1, <2>1, <2>2 DEF TypeOK, Ask, Replies
<1>2. CASE MessageFails
  BY <1>2 DEF TypeOK, MessageFails, Replies
<1>3. CASE MessageFailsAgain
  BY <1>3 DEF TypeOK, MessageFailsAgain, Answer, Replies
<1>4. CASE TimeOut
  BY <1>4 DEF TypeOK, TimeOut, Answer, Replies
<1> QED BY <1>1, <1>2, <1>3, <1>4

LEMMA NextType == TypeOK /\ [Next]_vars => TypeOK'
<1> SUFFICES ASSUME TypeOK, [Next]_vars PROVE TypeOK'
  OBVIOUS
<1>1. CASE UNCHANGED vars
  BY <1>1 DEF vars, TypeOK, app, connecting, wire, shared, clean, fallback, request
<1>2. CASE Next
  BY <1>2, AppType, HelperType, RequestType DEF Next, Helper
<1> QED BY <1>1, <1>2

\* Every variable of the hand-over keeps its type, and a reply is always one
\* the helper can send.
THEOREM TypeCorrect == Spec => []TypeOK
<1> QED BY InitType, NextType, PTL DEF Spec

-----------------------------------------------------------------------------
(* The fallback stays stopped *)

\* Only four steps of the helper touch what the property is about.
LEMMA NextNoPlay == NoPlayAfterStop /\ [Next]_vars => NoPlayAfterStop'
<1> SUFFICES ASSUME NoPlayAfterStop, [Next]_vars PROVE NoPlayAfterStop'
  OBVIOUS
<1> USE DEF NoPlayAfterStop, fallback
<1>1. CASE UNCHANGED <<devicesConfigured, fallbackPlaying>>
  BY <1>1
<1>2. CASE \E c \in Conns : BeginRegister(c) \/ StoreConnection(c)
  <2>1. ASSUME NEW c \in Conns, BeginRegister(c) PROVE NoPlayAfterStop'
    BY <2>1 DEF BeginRegister
  <2>2. ASSUME NEW c \in Conns, StoreConnection(c) PROVE NoPlayAfterStop'
    BY <1>1, <2>2 DEF StoreConnection
  <2> QED BY <1>2, <2>1, <2>2
<1>3. CASE StartFallbackAfterCleanUp \/ StartFallback
  BY <1>3 DEF StartFallbackAfterCleanUp, StartFallback
<1>4. CASE DeferredStart \/ FallbackNotified \/ HelperCrashes
  BY <1>4 DEF DeferredStart, FallbackNotified, HelperCrashes
<1>5. CASE \/ AppLaunches \/ AppDies \/ ConnectionBreaks
           \/ RegistrationAnswered \/ RetryAfterTimeout \/ RetryTimerFires
           \/ InterruptionHandler \/ DriverSeesApp \/ AppStartsPlayThrough
  BY <1>1, <1>5 DEF AppLaunches, AppDies, ConnectionBreaks, RegistrationAnswered,
     RetryAfterTimeout, RetryTimerFires, InterruptionHandler, DriverSeesApp,
     AppStartsPlayThrough
<1>6. CASE \E c \in Conns \cup {Proxy} : InvalidationHandler(c)
  BY <1>1, <1>6 DEF InvalidationHandler
<1>7. CASE RunCleanUp \/ PreferApp \/ Send \/ Reply
  BY <1>1, <1>7 DEF RunCleanUp, PreferApp, Send, Reply
<1>8. CASE Ask \/ MessageFails \/ MessageFailsAgain \/ TimeOut
  BY <1>1, <1>8 DEF Ask, MessageFails, MessageFailsAgain, TimeOut
<1>9. CASE UNCHANGED vars
  BY <1>1, <1>9 DEF vars
<1> QED BY <1>2, <1>3, <1>4, <1>5, <1>6, <1>7, <1>8, <1>9 DEF Next, Helper

\* The fallback plays only while its devices are configured: whenever the app
\* registers, neither a delayed start nor a notification of before starts it.
THEOREM StoppedStaysStopped == Spec => []NoPlayAfterStop
<1>1. Init => NoPlayAfterStop
  BY DEF Init, NoPlayAfterStop
<1> QED BY <1>1, NextNoPlay, PTL DEF Spec

-----------------------------------------------------------------------------
(* The app's processes.  What follows is about the module AppProcesses.    *)

ProcessStates ==
    [pc : {"none", "main", "asking", "showing", "locked", "lookup", "output", "finish",
           "running", "alert", "exiting"},
     agentMode : BOOLEAN, posts : Nat, output : BOOLEAN,
     continueLaunchCompleted : BOOLEAN, didSetNovaLINKAsOSDefault : BOOLEAN,
     quittingForCompanionUIHandoff : BOOLEAN, asked : BOOLEAN, quitBlock : BOOLEAN,
     promotions : Nat, blocks : [Blocks -> Nat], status : {0, 1}]

\* A process has a block that makes NovaLINK the default, or one that will
\* queue such a block, only when its launch is complete, and does not forget
\* that it is while it runs.
Listening(r) ==
    /\ r \in ProcessStates
    /\ r.blocks["steal"] > 0 \/ r.blocks["launch"] > 0 => r.continueLaunchCompleted
    /\ r.continueLaunchCompleted => r.pc # "none"

\* The helper's connection is that of a process which completed its launch.
Registered ==
    /\ proc \in [Procs -> ProcessStates]
    /\ \A p \in Procs : Listening(proc[p])
    /\ appConnection \in Procs \cup {Nobody}
    /\ appConnection # Nobody => proc[appConnection].continueLaunchCompleted

\* One process changes and goes on.
LEMMA ProcessGoesOn ==
    ASSUME Registered, NEW p \in Procs, NEW r, Listening(r),
           proc' = [proc EXCEPT ![p] = r], UNCHANGED appConnection,
           proc[p].continueLaunchCompleted => r.continueLaunchCompleted
    PROVE  Registered'
<1>1. proc' \in [Procs -> ProcessStates] /\ \A q \in Procs : Listening(proc'[q])
  BY DEF Registered, Listening
<1>2. \A q \in Procs : proc[q].continueLaunchCompleted => proc'[q].continueLaunchCompleted
  BY DEF Registered
<1> QED BY <1>1, <1>2 DEF Registered

\* A process ends; if it was registered the helper forgets its connection.
LEMMA ProcessEnds ==
    ASSUME Registered, NEW p \in Procs, NEW status, Nobody \notin Procs, End(p, status)
    PROVE  Registered'
<1>1. Listening(NotRunning)
  BY DEF Listening, ProcessStates, NotRunning, Blocks
<1>2. /\ proc' = [proc EXCEPT ![p] = NotRunning]
      /\ IF proc[p].continueLaunchCompleted THEN appConnection' = Nobody
                                            ELSE UNCHANGED appConnection
  BY DEF End
<1>3. proc' \in [Procs -> ProcessStates] /\ \A q \in Procs : Listening(proc'[q])
  BY <1>1, <1>2 DEF Registered, Listening
<1>4. appConnection' # Nobody => appConnection' # p /\ appConnection' = appConnection
  BY <1>2 DEF Registered
<1> QED BY <1>2, <1>3, <1>4 DEF Registered

LEMMA NothingHappens ==
    ASSUME Registered, UNCHANGED <<proc, appConnection>>
    PROVE  Registered'
BY DEF Registered

\* A process comes to another place; the blocks, and whether its launch is
\* complete, stay as they are.
LEMMA ProcessMoves ==
    ASSUME Registered, NEW p \in Procs, NEW r \in ProcessStates,
           proc' = [proc EXCEPT ![p] = r], UNCHANGED appConnection,
           r.blocks = proc[p].blocks, r.pc # "none",
           r.continueLaunchCompleted = proc[p].continueLaunchCompleted
    PROVE  Registered'
<1>1. Listening(proc[p])
  BY DEF Registered
<1>2. Listening(r)
  BY <1>1 DEF Listening
<1> QED BY <1>2, ProcessGoesOn

LEMMA LockSteps ==
    ASSUME Registered, NEW p \in Procs, LockStep(p)
    PROVE  Registered'
<1> USE DEF At, Become, Event
<1>a. Nobody \notin Procs /\ QuitPosts \in Nat /\ ShowPosts \in Nat
  BY AppProcessesAssumption
<1>b. proc[p] \in ProcessStates
  BY DEF Registered
<1>1. CASE OpenFails(p) \/ TakeLock(p)
  <2> DEFINE r == [proc[p] EXCEPT !.pc = "locked"]
  <2>1. r \in ProcessStates /\ r.blocks = proc[p].blocks /\ r.pc # "none"
        /\ r.continueLaunchCompleted = proc[p].continueLaunchCompleted
    BY <1>a, <1>b DEF ProcessStates
  <2>2. proc' = [proc EXCEPT ![p] = r] /\ UNCHANGED appConnection
    BY <1>1 DEF OpenFails, TakeLock, helper, Registered
  <2> HIDE DEF r
  <2> QED BY <2>1, <2>2, ProcessMoves
<1>2. CASE AgentGivesUp(p) \/ InstanceGivesUp(p)
  BY <1>a, <1>2, ProcessEnds DEF AgentGivesUp, InstanceGivesUp
<1>3. CASE AskForHandoff(p)
  <2> DEFINE r == [proc[p] EXCEPT !.pc = "asking", !.posts = QuitPosts]
  <2>1. r \in ProcessStates /\ r.blocks = proc[p].blocks /\ r.pc # "none"
        /\ r.continueLaunchCompleted = proc[p].continueLaunchCompleted
    BY <1>a, <1>b DEF ProcessStates
  <2>2. proc' = [proc EXCEPT ![p] = r] /\ UNCHANGED appConnection
    BY <1>3 DEF AskForHandoff, helper, Registered
  <2> HIDE DEF r
  <2> QED BY <2>1, <2>2, ProcessMoves
<1>4. CASE AttemptsRunOut(p)
  <2> DEFINE r == [proc[p] EXCEPT !.pc = "showing", !.posts = ShowPosts]
  <2>1. r \in ProcessStates /\ r.blocks = proc[p].blocks /\ r.pc # "none"
        /\ r.continueLaunchCompleted = proc[p].continueLaunchCompleted
    BY <1>a, <1>b DEF ProcessStates
  <2>2. proc' = [proc EXCEPT ![p] = r] /\ UNCHANGED appConnection
    BY <1>4 DEF AttemptsRunOut, helper, Registered
  <2> HIDE DEF r
  <2> QED BY <2>1, <2>2, ProcessMoves
<1>5. CASE PostQuit(p) \/ PostShow(p)
  <2>1. \A q \in Procs : proc[q] \in ProcessStates /\ Listening(proc[q])
    BY DEF Registered
  <2>2. ASSUME NEW q \in Procs
        PROVE  /\ proc'[q] \in ProcessStates /\ proc'[q].pc = proc[q].pc
               /\ proc'[q].blocks = proc[q].blocks
               /\ proc'[q].continueLaunchCompleted = proc[q].continueLaunchCompleted
    <3>1. CASE q = p
      <4>1. proc'[q] = [proc[q] EXCEPT !.posts = @ - 1] /\ proc[q].posts > 0
        BY <1>5, <3>1 DEF PostQuit, PostShow
      <4> QED BY <2>1, <4>1 DEF ProcessStates
    <3>2. CASE q # p
      <4>1. \/ proc'[q] = proc[q] \/ proc'[q] = [proc[q] EXCEPT !.asked = TRUE]
            \/ proc'[q] = [proc[q] EXCEPT !.promotions = @ + 1]
        BY <1>5, <3>2 DEF PostQuit, PostShow
      <4>2. proc[q] \in ProcessStates
        BY <2>1
      <4>3. CASE proc'[q] = [proc[q] EXCEPT !.asked = TRUE]
        BY <4>2, <4>3 DEF ProcessStates
      <4>4. CASE proc'[q] = [proc[q] EXCEPT !.promotions = @ + 1]
        BY <4>2, <4>4 DEF ProcessStates
      <4> QED BY <4>1, <4>2, <4>3, <4>4
    <3> QED BY <3>1, <3>2
  <2>3. proc' \in [Procs -> ProcessStates] /\ UNCHANGED appConnection
    <3>1. proc' = [q \in Procs |-> proc'[q]]
      BY <1>5 DEF PostQuit, PostShow
    <3> QED BY <1>5, <2>2, <3>1 DEF PostQuit, PostShow, helper
  <2>4. \A q \in Procs : Listening(proc'[q])
    BY <2>1, <2>2 DEF Listening
  <2> QED BY <2>2, <2>3, <2>4 DEF Registered
<1> QED BY <1>1, <1>2, <1>3, <1>4, <1>5 DEF LockStep

LEMMA LaunchSteps ==
    ASSUME Registered, NEW p \in Procs, LaunchStep(p)
    PROVE  Registered'
<1> USE DEF At, Become, Event
<1>a. Nobody \notin Procs
  BY AppProcessesAssumption
<1>b. proc[p] \in ProcessStates
  BY DEF Registered
<1>1. CASE AwakeFromNib(p)
  <2> DEFINE r == [proc[p] EXCEPT !.pc = "lookup"]
  <2>1. r \in ProcessStates /\ r.blocks = proc[p].blocks /\ r.pc # "none"
        /\ r.continueLaunchCompleted = proc[p].continueLaunchCompleted
    BY <1>a, <1>b DEF ProcessStates
  <2>2. proc' = [proc EXCEPT ![p] = r] /\ UNCHANGED appConnection
    BY <1>1 DEF AwakeFromNib, helper, Registered
  <2> HIDE DEF r
  <2> QED BY <2>1, <2>2, ProcessMoves
<1>2. CASE CompleteLaunch(p)
  <2>1. \/ proc' = [proc EXCEPT ![p] = [proc[p] EXCEPT !.pc = "output"]]
        \/ proc' = [proc EXCEPT ![p] = [proc[p] EXCEPT !.pc = "alert"]]
    BY <1>2 DEF CompleteLaunch, Registered
  <2>2. UNCHANGED appConnection
    BY <1>2 DEF CompleteLaunch, helper
  <2>3. ASSUME proc' = [proc EXCEPT ![p] = [proc[p] EXCEPT !.pc = "output"]] PROVE Registered'
    <3> DEFINE r == [proc[p] EXCEPT !.pc = "output"]
    <3>1. r \in ProcessStates /\ r.blocks = proc[p].blocks /\ r.pc # "none"
          /\ r.continueLaunchCompleted = proc[p].continueLaunchCompleted
      BY <1>b DEF ProcessStates
    <3>2. proc' = [proc EXCEPT ![p] = r]
      BY <2>3
    <3> HIDE DEF r
    <3> QED BY <2>2, <3>1, <3>2, ProcessMoves
  <2>4. ASSUME proc' = [proc EXCEPT ![p] = [proc[p] EXCEPT !.pc = "alert"]] PROVE Registered'
    <3> DEFINE r == [proc[p] EXCEPT !.pc = "alert"]
    <3>1. r \in ProcessStates /\ r.blocks = proc[p].blocks /\ r.pc # "none"
          /\ r.continueLaunchCompleted = proc[p].continueLaunchCompleted
      BY <1>b DEF ProcessStates
    <3>2. proc' = [proc EXCEPT ![p] = r]
      BY <2>4
    <3> HIDE DEF r
    <3> QED BY <2>2, <3>1, <3>2, ProcessMoves
  <2> QED BY <2>1, <2>3, <2>4
<1>3. CASE DeviceUnavailable(p)
  <2>1. CASE proc[p].agentMode
    BY <1>a, <1>3, <2>1, ProcessEnds DEF DeviceUnavailable
  <2>2. CASE ~proc[p].agentMode
    <3> DEFINE r == [proc[p] EXCEPT !.pc = "alert"]
    <3>1. r \in ProcessStates /\ r.blocks = proc[p].blocks /\ r.pc # "none"
          /\ r.continueLaunchCompleted = proc[p].continueLaunchCompleted
      BY <1>b DEF ProcessStates
    <3>2. proc' = [proc EXCEPT ![p] = r] /\ UNCHANGED appConnection
      BY <1>3, <2>2 DEF DeviceUnavailable, helper
    <3> HIDE DEF r
    <3> QED BY <3>1, <3>2, ProcessMoves
  <2> QED BY <2>1, <2>2
<1>4. CASE SetInitialOutputDevice(p)
  <2>1. \/ proc' = [proc EXCEPT ![p] = [proc[p] EXCEPT !.pc = "finish", !.output = TRUE]]
        \/ proc' = [proc EXCEPT ![p] = [proc[p] EXCEPT !.pc = "finish"]]
        \/ proc' = [proc EXCEPT ![p] = [proc[p] EXCEPT !.pc = "alert"]]
    BY <1>4 DEF SetInitialOutputDevice, Registered
  <2>2. UNCHANGED appConnection
    BY <1>4 DEF SetInitialOutputDevice, helper
  <2>3. ASSUME proc' = [proc EXCEPT ![p] = [proc[p] EXCEPT !.pc = "finish", !.output = TRUE]] PROVE Registered'
    <3> DEFINE r == [proc[p] EXCEPT !.pc = "finish", !.output = TRUE]
    <3>1. r \in ProcessStates /\ r.blocks = proc[p].blocks /\ r.pc # "none"
          /\ r.continueLaunchCompleted = proc[p].continueLaunchCompleted
      BY <1>b DEF ProcessStates
    <3>2. proc' = [proc EXCEPT ![p] = r]
      BY <2>3
    <3> HIDE DEF r
    <3> QED BY <2>2, <3>1, <3>2, ProcessMoves
  <2>4. ASSUME proc' = [proc EXCEPT ![p] = [proc[p] EXCEPT !.pc = "finish"]] PROVE Registered'
    <3> DEFINE r == [proc[p] EXCEPT !.pc = "finish"]
    <3>1. r \in ProcessStates /\ r.blocks = proc[p].blocks /\ r.pc # "none"
          /\ r.continueLaunchCompleted = proc[p].continueLaunchCompleted
      BY <1>b DEF ProcessStates
    <3>2. proc' = [proc EXCEPT ![p] = r]
      BY <2>4
    <3> HIDE DEF r
    <3> QED BY <2>2, <3>1, <3>2, ProcessMoves
  <2>5. ASSUME proc' = [proc EXCEPT ![p] = [proc[p] EXCEPT !.pc = "alert"]] PROVE Registered'
    <3> DEFINE r == [proc[p] EXCEPT !.pc = "alert"]
    <3>1. r \in ProcessStates /\ r.blocks = proc[p].blocks /\ r.pc # "none"
          /\ r.continueLaunchCompleted = proc[p].continueLaunchCompleted
      BY <1>b DEF ProcessStates
    <3>2. proc' = [proc EXCEPT ![p] = r]
      BY <2>5
    <3> HIDE DEF r
    <3> QED BY <2>2, <3>1, <3>2, ProcessMoves
  <2> QED BY <2>1, <2>3, <2>4, <2>5
<1>5. CASE FinishLaunch(p)
  <2> DEFINE r == [proc[p] EXCEPT !.pc = "running", !.continueLaunchCompleted = TRUE,
                                  !.blocks["launch"] = 1]
  <2>1. r \in ProcessStates /\ r.pc # "none" /\ r.continueLaunchCompleted
    BY <1>b DEF ProcessStates, Blocks
  <2>2. proc' = [proc EXCEPT ![p] = r] /\ appConnection' = p
    BY <1>5, ZenonT(40) DEF FinishLaunch, Registered
  <2>3. Listening(r)
    BY <2>1 DEF Listening
  <2> HIDE DEF r
  <2>4. proc' \in [Procs -> ProcessStates] /\ \A q \in Procs : Listening(proc'[q])
    BY <2>1, <2>2, <2>3 DEF Registered
  <2> QED BY <2>1, <2>2, <2>4 DEF Registered
<1> QED BY <1>1, <1>2, <1>3, <1>4, <1>5 DEF LaunchStep

LEMMA BlockSteps ==
    ASSUME Registered, NEW p \in Procs, BlockStep(p)
    PROVE  Registered'
<1>a. proc[p] \in ProcessStates /\ Listening(proc[p])
  BY DEF Registered
<1>b. \A b \in Blocks : proc[p].blocks[b] \in Nat
  BY <1>a DEF ProcessStates
<1>1. CASE RunLaunchBlock(p)
  <2> DEFINE r == [proc[p] EXCEPT !.blocks["launch"] = 0,
                                  !.blocks["steal"] = IF proc[p].agentMode THEN @ ELSE @ + 1]
  <2>a. r.blocks = [proc[p].blocks EXCEPT !["launch"] = 0,
                                         !["steal"] = IF proc[p].agentMode THEN @ ELSE @ + 1]
    BY <1>a DEF ProcessStates
  <2>b. r.blocks \in [Blocks -> Nat]
    BY <1>a, <1>b, <2>a DEF ProcessStates, Blocks
  <2>1. r \in ProcessStates /\ r.pc = proc[p].pc
        /\ r.continueLaunchCompleted = proc[p].continueLaunchCompleted
    BY <1>a, <2>b DEF ProcessStates
  <2>2. proc' = [proc EXCEPT ![p] = r] /\ UNCHANGED appConnection
    BY <1>1 DEF RunLaunchBlock, helper, Registered
  <2>3. proc[p].continueLaunchCompleted
    BY <1>1, <1>a DEF RunLaunchBlock, Listening
  <2> HIDE DEF r
  <2>4. Listening(r)
    BY <1>a, <2>1, <2>3 DEF Listening
  <2> QED BY <2>1, <2>2, <2>4, ProcessGoesOn
<1>2. CASE SetNovaLINKDeviceAsDefault(p)
  <2> DEFINE r == [proc[p] EXCEPT !.blocks["steal"] = @ - 1, !.blocks["stolen"] = @ + 1]
  <2>a. r.blocks = [proc[p].blocks EXCEPT !["steal"] = @ - 1, !["stolen"] = @ + 1]
    BY <1>a DEF ProcessStates
  <2>b. r.blocks \in [Blocks -> Nat]
    BY <1>2, <1>a, <1>b, <2>a DEF ProcessStates, Blocks, SetNovaLINKDeviceAsDefault
  <2>1. r \in ProcessStates /\ r.pc = proc[p].pc
        /\ r.continueLaunchCompleted = proc[p].continueLaunchCompleted
    BY <1>a, <2>b DEF ProcessStates
  <2>2. proc' = [proc EXCEPT ![p] = r] /\ UNCHANGED appConnection
    BY <1>2 DEF SetNovaLINKDeviceAsDefault, helper, Registered
  <2>3. proc[p].continueLaunchCompleted
    BY <1>2, <1>a DEF SetNovaLINKDeviceAsDefault, Listening
  <2> HIDE DEF r
  <2>4. Listening(r)
    BY <1>a, <2>1, <2>3 DEF Listening
  <2> QED BY <2>1, <2>2, <2>4, ProcessGoesOn
<1>3. CASE MarkSet(p)
  <2> DEFINE r == [proc[p] EXCEPT !.blocks["stolen"] = @ - 1, !.didSetNovaLINKAsOSDefault = TRUE]
  <2>a. r.blocks = [proc[p].blocks EXCEPT !["stolen"] = @ - 1]
    BY <1>a DEF ProcessStates
  <2>b. /\ r.blocks \in [Blocks -> Nat]
        /\ r.blocks["steal"] = proc[p].blocks["steal"] /\ r.blocks["launch"] = proc[p].blocks["launch"]
    BY <1>3, <1>a, <1>b, <2>a DEF ProcessStates, Blocks, MarkSet
  <2>1. r \in ProcessStates /\ r.pc = proc[p].pc
        /\ r.continueLaunchCompleted = proc[p].continueLaunchCompleted
    BY <1>a, <2>b DEF ProcessStates
  <2>2. proc' = [proc EXCEPT ![p] = r] /\ UNCHANGED appConnection
    BY <1>3 DEF MarkSet, helper, Registered
  <2> HIDE DEF r
  <2>4. Listening(r)
    BY <1>a, <2>b, <2>1 DEF Listening
  <2> QED BY <2>1, <2>2, <2>4, ProcessGoesOn
<1> QED BY <1>1, <1>2, <1>3 DEF BlockStep

\* -[NSApp terminate:], also with the handoff's flag set just before.
LEMMA Terminates ==
    ASSUME Registered, NEW p \in Procs, NEW self \in ProcessStates,
           self.blocks = proc[p].blocks,
           self.continueLaunchCompleted = proc[p].continueLaunchCompleted,
           Terminate(p, self)
    PROVE  Registered'
<1> DEFINE r == [self EXCEPT !.pc = "exiting", !.asked = FALSE, !.quitBlock = FALSE, !.promotions = 0]
<1>1. r \in ProcessStates /\ r.blocks = proc[p].blocks /\ r.pc # "none"
      /\ r.continueLaunchCompleted = proc[p].continueLaunchCompleted
  BY DEF ProcessStates
<1>2. proc' = [proc EXCEPT ![p] = r] /\ UNCHANGED appConnection
  BY DEF Terminate, helper
<1> HIDE DEF r
<1> QED BY <1>1, <1>2, ProcessMoves

LEMMA MainQueueSteps ==
    ASSUME Registered, NEW p \in Procs,
           \/ HandleQuitAgentForCompanionUI(p) \/ RunQuitBlock(p)
           \/ PromoteAgentToCompanionUI(p)
           \/ UserQuits(p) \/ DismissAlert(p) \/ Exit(p)
    PROVE  Registered'
<1>a. proc[p] \in ProcessStates /\ Listening(proc[p]) /\ Nobody \notin Procs
  BY AppProcessesAssumption DEF Registered
<1>b. \A b \in Blocks : proc[p].blocks[b] \in Nat
  BY <1>a DEF ProcessStates
<1>1. CASE HandleQuitAgentForCompanionUI(p)
  <2> DEFINE r == [proc[p] EXCEPT !.asked = FALSE, !.quitBlock = @ \/ proc[p].agentMode]
  <2>1. r \in ProcessStates /\ r.blocks = proc[p].blocks /\ r.pc = proc[p].pc
        /\ r.continueLaunchCompleted = proc[p].continueLaunchCompleted
    BY <1>a DEF ProcessStates
  <2>2. proc' = [proc EXCEPT ![p] = r] /\ UNCHANGED appConnection
    BY <1>1 DEF HandleQuitAgentForCompanionUI, helper, Registered
  <2>3. proc[p].pc # "none"
    BY <1>1 DEF HandleQuitAgentForCompanionUI, Observing
  <2> HIDE DEF r
  <2> QED BY <2>1, <2>2, <2>3, ProcessMoves
<1>2. CASE RunQuitBlock(p)
  <2> DEFINE self == [proc[p] EXCEPT !.quittingForCompanionUIHandoff = TRUE]
  <2>1. self \in ProcessStates /\ self.blocks = proc[p].blocks
        /\ self.continueLaunchCompleted = proc[p].continueLaunchCompleted
    BY <1>a DEF ProcessStates
  <2>2. Terminate(p, self)
    BY <1>2 DEF RunQuitBlock
  <2> HIDE DEF self
  <2> QED BY <2>1, <2>2, Terminates
<1>3. CASE PromoteAgentToCompanionUI(p)
  <2>1. proc[p].promotions > 0 /\ proc[p].promotions - 1 \in Nat /\ proc[p].pc # "none"
    BY <1>3, <1>a DEF PromoteAgentToCompanionUI, Observing, ProcessStates
  <2>2. UNCHANGED appConnection
    BY <1>3 DEF PromoteAgentToCompanionUI, helper
  <2>3. CASE ~proc[p].agentMode /\ proc[p].didSetNovaLINKAsOSDefault
    <3> DEFINE r == [proc[p] EXCEPT !.promotions = @ - 1]
    <3>1. r \in ProcessStates /\ r.blocks = proc[p].blocks /\ r.pc = proc[p].pc
          /\ r.continueLaunchCompleted = proc[p].continueLaunchCompleted
      BY <1>a, <2>1 DEF ProcessStates
    <3>2. proc' = [proc EXCEPT ![p] = r]
      BY <1>3, <2>3 DEF PromoteAgentToCompanionUI, Registered
    <3> HIDE DEF r
    <3> QED BY <2>1, <2>2, <3>1, <3>2, ProcessMoves
  <2>4. CASE ~(~proc[p].agentMode /\ proc[p].didSetNovaLINKAsOSDefault)
    <3> DEFINE r == [proc[p] EXCEPT
                        !.promotions = @ - 1, !.agentMode = FALSE,
                        !.blocks["steal"] = IF proc[p].didSetNovaLINKAsOSDefault THEN @ ELSE @ + 1]
    <3>a. r.blocks = [proc[p].blocks EXCEPT
                         !["steal"] = IF proc[p].didSetNovaLINKAsOSDefault THEN @ ELSE @ + 1]
      BY <1>a DEF ProcessStates
    <3>b. r.blocks \in [Blocks -> Nat]
      BY <1>a, <1>b, <3>a DEF ProcessStates, Blocks
    <3>1. r \in ProcessStates /\ r.pc = proc[p].pc
          /\ r.continueLaunchCompleted = proc[p].continueLaunchCompleted
      BY <1>a, <2>1, <3>b DEF ProcessStates
    <3>2. proc' = [proc EXCEPT ![p] = r] /\ proc[p].continueLaunchCompleted
      BY <1>3, <2>4 DEF PromoteAgentToCompanionUI, Registered
    <3> HIDE DEF r
    <3>3. Listening(r)
      BY <2>1, <3>1, <3>2 DEF Listening
    <3> QED BY <2>2, <3>1, <3>2, <3>3, ProcessGoesOn
  <2> QED BY <2>3, <2>4
<1>4. CASE UserQuits(p) \/ DismissAlert(p)
  BY <1>a, <1>4, Terminates DEF UserQuits, DismissAlert
<1>5. CASE Exit(p)
  BY <1>a, <1>5, ProcessEnds DEF Exit
<1> QED BY <1>1, <1>2, <1>3, <1>4, <1>5

\* A signal or an uncaught exception, on the way out or at once.
LEMMA Dying ==
    ASSUME Registered, NEW p \in Procs, UNCHANGED appConnection,
           proc' = [proc EXCEPT ![p] =
               [proc[p] EXCEPT !.pc = "exiting", !.status = 1, !.asked = FALSE,
                               !.quitBlock = FALSE, !.promotions = 0]]
    PROVE  Registered'
<1> DEFINE r == [proc[p] EXCEPT !.pc = "exiting", !.status = 1, !.asked = FALSE,
                                !.quitBlock = FALSE, !.promotions = 0]
<1>a. proc[p] \in ProcessStates
  BY DEF Registered
<1>1. r \in ProcessStates /\ r.blocks = proc[p].blocks /\ r.pc # "none"
      /\ r.continueLaunchCompleted = proc[p].continueLaunchCompleted
  BY <1>a DEF ProcessStates
<1>2. proc' = [proc EXCEPT ![p] = r]
  OBVIOUS
<1> HIDE DEF r
<1> QED BY <1>1, <1>2, ProcessMoves

LEMMA CrashSteps ==
    ASSUME Registered, NEW p \in Procs, Crash(p)
    PROVE  Registered'
<1>a. Nobody \notin Procs
  BY AppProcessesAssumption
<1>1. CASE End(p, 1)
  BY <1>a, <1>1, ProcessEnds
<1>2. CASE ~End(p, 1)
  <2>1. /\ UNCHANGED appConnection
        /\ proc' = [proc EXCEPT ![p].pc = "exiting", ![p].status = 1, ![p].asked = FALSE,
                                ![p].quitBlock = FALSE, ![p].promotions = 0]
    BY <1>2 DEF Crash, Dies, helper
  <2>2. proc' = [proc EXCEPT ![p] =
               [proc[p] EXCEPT !.pc = "exiting", !.status = 1, !.asked = FALSE,
                               !.quitBlock = FALSE, !.promotions = 0]]
    BY <2>1 DEF Registered
  <2> QED BY <2>1, <2>2, Dying
<1> QED BY <1>1, <1>2

\* A new process gets a slot that no appConnection process has.
LEMMA ProcessBegins ==
    ASSUME Registered, NEW agent \in BOOLEAN, Free # {}, UNCHANGED appConnection,
           proc' = [proc EXCEPT ![Slot] = Process(agent)]
    PROVE  Registered'
<1> DEFINE p == Slot
           r == Process(agent)
<1>1. p \in Procs /\ proc[p].pc = "none"
  <2>1. p \in Free
    BY DEF Slot
  <2> QED BY <2>1 DEF Free, At
<1>2. Listening(r)
  <2>1. /\ r \in ProcessStates /\ ~r.continueLaunchCompleted
        /\ r.blocks = [b \in Blocks |-> 0]
    BY DEF ProcessStates, Process, NotRunning
  <2> QED BY <2>1 DEF Listening, Blocks
<1>3. ~proc[p].continueLaunchCompleted
  BY <1>1 DEF Registered, Listening
<1>4. proc' = [proc EXCEPT ![p] = r]
  OBVIOUS
<1> HIDE DEF p, r
<1> QED BY <1>1, <1>2, <1>3, <1>4, ProcessGoesOn

\* The helper's connection is a process that completed its launch, always.
LEMMA RegisteredSteps ==
    ASSUME Registered, [ProcessNext]_processVars
    PROVE  Registered'
<1> USE DEF helper, launchd
<1>1. CASE UNCHANGED processVars
  BY <1>1, NothingHappens DEF processVars
<1>2. CASE StartJob
  BY <1>2, ProcessBegins DEF StartJob
<1>3. CASE OpenApp
  BY <1>3, ProcessBegins DEF OpenApp
<1>4. CASE Relaunch
  <2>1. CASE job = Nobody
    BY <1>4, <2>1, NothingHappens DEF Relaunch
  <2>2. CASE job # Nobody
    <3>1. UNCHANGED appConnection /\ proc' = [proc EXCEPT ![job] =
               [proc[job] EXCEPT !.pc = "exiting", !.status = 1, !.asked = FALSE,
                                 !.quitBlock = FALSE, !.promotions = 0]]
      BY <1>4, <2>2 DEF Relaunch
    <3>2. CASE job \in Procs
      BY <3>1, <3>2, Dying
    <3>3. CASE job \notin Procs
      <4>1. proc' = proc
        BY <3>1, <3>3 DEF Registered
      <4> QED BY <3>1, <4>1, NothingHappens
    <3> QED BY <3>2, <3>3
  <2> QED BY <2>1, <2>2
<1>5. CASE CleanUp \/ ChooseDefault
  BY <1>5, NothingHappens DEF CleanUp, ChooseDefault
<1>6. ASSUME NEW p \in Procs,
             \/ LockStep(p) \/ LaunchStep(p) \/ BlockStep(p)
             \/ HandleQuitAgentForCompanionUI(p) \/ RunQuitBlock(p)
             \/ PromoteAgentToCompanionUI(p)
             \/ UserQuits(p) \/ DismissAlert(p) \/ Exit(p)
             \/ Crash(p)
      PROVE  Registered'
  BY <1>6, LockSteps, LaunchSteps, BlockSteps, MainQueueSteps, CrashSteps
<1> QED BY <1>1, <1>2, <1>3, <1>4, <1>5, <1>6 DEF ProcessNext, Environment

\* Which steps make NovaLINK the default.
LEMMA WhoSteals ==
    ASSUME [ProcessNext]_processVars, osDefault # "NovaLINK", osDefault' = "NovaLINK"
    PROVE  \/ \E p \in Procs : proc[p].blocks["steal"] > 0
           \/ appConnection # Nobody
<1> USE DEF defaults, UnsetAsOSDefault, UnsetNovaLINKDeviceAsOSDefault
<1>1. CASE UNCHANGED processVars
  BY <1>1 DEF processVars
<1>2. CASE StartJob \/ OpenApp \/ Relaunch \/ CleanUp
  BY <1>2 DEF StartJob, OpenApp, Relaunch, CleanUp
<1>3. CASE ChooseDefault
  BY <1>3 DEF ChooseDefault
<1>4. ASSUME NEW p \in Procs, LockStep(p) \/ LaunchStep(p)
      PROVE  FALSE
  BY <1>4 DEF LockStep, LaunchStep, OpenFails, TakeLock,
              AgentGivesUp, AskForHandoff, PostQuit,
              AttemptsRunOut, PostShow, InstanceGivesUp,
              AwakeFromNib, CompleteLaunch, DeviceUnavailable,
              SetInitialOutputDevice, FinishLaunch
<1>5. ASSUME NEW p \in Procs, BlockStep(p)
      PROVE  proc[p].blocks["steal"] > 0
  BY <1>5 DEF BlockStep, RunLaunchBlock, SetNovaLINKDeviceAsDefault,
              MarkSet
<1>6. ASSUME NEW p \in Procs,
             \/ HandleQuitAgentForCompanionUI(p) \/ RunQuitBlock(p)
             \/ PromoteAgentToCompanionUI(p)
             \/ UserQuits(p) \/ DismissAlert(p) \/ Exit(p)
             \/ Crash(p)
      PROVE  FALSE
  BY <1>6 DEF HandleQuitAgentForCompanionUI, RunQuitBlock,
              PromoteAgentToCompanionUI, UserQuits, DismissAlert,
              Exit, Crash, Dies, Terminate
<1> QED BY <1>1, <1>2, <1>3, <1>4, <1>5, <1>6 DEF ProcessNext, Environment

\* No process and no user makes NovaLINK the default before a process can
\* answer the driver's requests, for any number of processes, posts, crashes
\* and handoffs.
THEOREM DefaultIsHeard == ProcessSpec => StealsWhenListening
<1>1. ProcessInit => Registered
  <2> SUFFICES ASSUME ProcessInit PROVE Registered
    OBVIOUS
  <2>1. Listening(NotRunning)
    BY DEF Listening, ProcessStates, NotRunning, Blocks
  <2>2. proc = [p \in Procs |-> NotRunning] /\ appConnection = Nobody
    BY DEF ProcessInit
  <2> QED BY <2>1, <2>2 DEF Registered, Listening
<1>2. Registered /\ [ProcessNext]_processVars => Registered'
  BY RegisteredSteps
<1>3. Registered /\ [ProcessNext]_processVars
      => [osDefault # "NovaLINK" /\ osDefault' = "NovaLINK" => Hosting]_processVars
  <2> SUFFICES ASSUME Registered, [ProcessNext]_processVars,
                      osDefault # "NovaLINK", osDefault' = "NovaLINK"
               PROVE  Hosting
    OBVIOUS
  <2>1. CASE \E p \in Procs : proc[p].blocks["steal"] > 0
    BY <2>1 DEF Registered, Listening, Hosting
  <2>2. CASE appConnection # Nobody
    BY <2>2 DEF Registered, Hosting
  <2> QED BY <2>1, <2>2, WhoSteals
<1> QED BY <1>1, <1>2, <1>3, PTL DEF ProcessSpec, StealsWhenListening
=============================================================================
