------------------------ MODULE PlayThroughHandover ------------------------
(***************************************************************************)
(* Who plays through: the companion app or, without it, the privileged     *)
(* XPC helper.  The driver asks the helper when a client starts IO; the    *)
(* helper forwards the question to the app or starts its own fallback      *)
(* play-through.  The app registers its connection with the helper when it *)
(* comes up, after the helper crashed and, once the registration on it was *)
(* answered, when the connection broke.                                    *)
(*                                                                         *)
(* The helper handles each connection on a queue of that connection, in    *)
(* order, so the handler of an invalidated connection runs after whatever  *)
(* came in on that connection but concurrently with everything else.  The  *)
(* helper's class-level variables are written under a lock and read        *)
(* without it.  Only the instance for the main device is modelled; the one *)
(* for UI sounds goes through the same steps.                              *)
(***************************************************************************)
EXTENDS Naturals, FiniteSets

CONSTANTS
    Conns,          \* connections of the app, one after the other (a bound)
    Proxy,          \* the connection the helper makes from the app's endpoint
    NoConn,         \* nil
    MaxRequests,    \* bound: how often the driver asks
    MaxCrashes      \* bound: how often the helper crashes

ASSUME HandoverAssumption ==
    /\ Proxy \notin Conns /\ NoConn \notin Conns \cup {Proxy}
    /\ MaxRequests \in Nat /\ MaxCrashes \in Nat

VARIABLES
    appUp,
    helperConnection,     \* the app's, while it is valid
    cleared,              \* the app's reference to it was set to nil all the same
    retrying,             \* its invalidation handler is the one that retries
    awaiting,             \* the app's message that has no answer yet
    interrupted,          \* the app's interruption handler is queued
    late,                 \* what is queued of a connection that is gone
    retryTimer,           \* it runs
    registration,         \* how far the register message on a connection is
    invalid,              \* connections the helper is to learn are gone
    sNovaLINKAppConnection,
    sNovaLINKAppEndpoint, \* "nil", or whether its app still is there
    cleanUps,             \* delayed blocks of cleanUpForNovaLINKApp
    cleanUpChecked,       \* one found no app and is about to start the fallback
    devicesConfigured,
    deferredStart,        \* the fallback's delayed start is queued
    fallbackPlaying,
    appRegistered,        \* the driver has a client that is the app
    hpc,                  \* where the helper is with the driver's request
    sentOn,               \* the connection it was forwarded on
    replyToNovaLINKDriver,
    requestsLeft,
    crashesLeft

connecting == <<helperConnection, cleared, retrying, awaiting>>
app == <<appUp, connecting, interrupted, late, retryTimer>>
wire == <<registration, invalid>>
shared == <<sNovaLINKAppConnection, sNovaLINKAppEndpoint>>
clean == <<cleanUps, cleanUpChecked>>
fallback == <<devicesConfigured, deferredStart, fallbackPlaying>>
request == <<hpc, sentOn, replyToNovaLINKDriver, requestsLeft>>
vars == <<app, wire, shared, clean, fallback, request, appRegistered, crashesLeft>>

Replies == {"unset", "early", "failure", "timeout"}

\* Every variable has the type that its declaration in the code gives it.
TypeOK ==
    /\ appUp \in BOOLEAN /\ interrupted \in BOOLEAN /\ retryTimer \in BOOLEAN
    /\ cleared \in BOOLEAN /\ retrying \in BOOLEAN
    /\ awaiting \in {"nothing", "first", "again"}
    /\ late \subseteq {"invalidated", "failed"}
    /\ cleanUpChecked \in BOOLEAN /\ appRegistered \in BOOLEAN
    /\ devicesConfigured \in BOOLEAN /\ deferredStart \in BOOLEAN
    /\ fallbackPlaying \in BOOLEAN
    /\ helperConnection \in Conns \cup {NoConn}
    /\ registration \in [Conns -> {"unused", "dropped", "sent", "handling", "stored"}]
    /\ invalid \subseteq Conns \cup {Proxy}
    /\ sNovaLINKAppConnection \in Conns \cup {Proxy, NoConn}
    /\ sNovaLINKAppEndpoint \in {"nil", "live", "dead"}
    /\ cleanUps \subseteq Conns
    /\ hpc \in {"idle", "asked", "startFallback", "send", "wait", "resend", "waitAgain", "reply"}
    /\ sentOn \in Conns \cup {Proxy, NoConn}
    /\ replyToNovaLINKDriver \in Replies
    /\ requestsLeft \in 0 .. MaxRequests
    /\ crashesLeft \in 0 .. MaxCrashes

Init ==
    /\ appUp = FALSE /\ interrupted = FALSE /\ retryTimer = FALSE
    /\ helperConnection = NoConn /\ cleared = FALSE /\ retrying = FALSE
    /\ awaiting = "nothing" /\ late = {}
    /\ registration = [c \in Conns |-> "unused"]
    /\ invalid = {}
    /\ sNovaLINKAppConnection = NoConn
    /\ sNovaLINKAppEndpoint = "nil"
    /\ cleanUps = {} /\ cleanUpChecked = FALSE
    /\ devicesConfigured = FALSE /\ deferredStart = FALSE /\ fallbackPlaying = FALSE
    /\ appRegistered = FALSE
    /\ hpc = "idle" /\ sentOn = NoConn
    /\ replyToNovaLINKDriver = "unset"
    /\ requestsLeft = MaxRequests
    /\ crashesLeft = MaxCrashes

-----------------------------------------------------------------------------
(* The app and its listener.                                               *)

SomeUnused == \E c \in Conns : registration[c] = "unused"
\* Which one it is says nothing about it, so it is always the same.
Unused == CHOOSE c \in Conns : registration[c] = "unused"
NothingSent == \A c \in Conns : registration[c] \notin {"sent", "handling"}

\* What was sent on a connection that is gone may have got through or not.
Vanish(c, messages) == {messages, IF messages[c] = "sent" THEN [messages EXCEPT ![c] = "dropped"]
                                                          ELSE messages}

\* What the app still hears of its connection when it ends: the invalidation
\* handler, which only reports until the first message was answered, and the
\* error of the interruption handler's message.
StillToCome ==
    (IF retrying THEN {"invalidated"} ELSE {})
        \cup (IF interrupted \/ awaiting = "again" THEN {"failed"} ELSE {})

\* initHelperConnection: drops the connection it has, makes a new one and
\* registers on it.  An invalid connection's reference is dropped without effect.
Connect ==
    /\ SomeUnused
    /\ helperConnection' = Unused
    /\ cleared' = FALSE /\ retrying' = FALSE /\ awaiting' = "first"
    /\ interrupted' = FALSE
    /\ IF helperConnection = NoConn
       THEN /\ registration' = [registration EXCEPT ![Unused] = "sent"]
            /\ UNCHANGED <<invalid, late>>
       ELSE /\ \E messages \in Vanish(helperConnection, registration) :
                  registration' = [messages EXCEPT ![Unused] = "sent"]
            /\ invalid' = invalid \cup {helperConnection}
            /\ late' = late \cup StillToCome

\* A relaunch takes longer than the helper needs for what the last one sent.
AppLaunches ==
    /\ ~appUp
    /\ NothingSent
    /\ appUp' = TRUE
    /\ Connect
    /\ UNCHANGED <<retryTimer, shared, clean, fallback, request, appRegistered, crashesLeft>>

\* By quitting or by a crash.
AppDies ==
    /\ appUp
    /\ appUp' = FALSE
    /\ helperConnection' = NoConn
    /\ cleared' = FALSE /\ retrying' = FALSE /\ awaiting' = "nothing"
    /\ interrupted' = FALSE /\ late' = {} /\ retryTimer' = FALSE
    /\ IF helperConnection = NoConn
       THEN UNCHANGED registration
       ELSE registration' \in Vanish(helperConnection, registration)
    /\ invalid' = invalid \cup ({helperConnection, sNovaLINKAppConnection} \ {NoConn})
    /\ sNovaLINKAppEndpoint' =
           IF sNovaLINKAppEndpoint = "live" THEN "dead" ELSE sNovaLINKAppEndpoint
    /\ UNCHANGED <<sNovaLINKAppConnection, clean, fallback, request, appRegistered, crashesLeft>>

\* The connection is invalidated while both are up.
ConnectionBreaks ==
    /\ helperConnection # NoConn
    /\ SomeUnused
    /\ helperConnection' = NoConn
    /\ retrying' = FALSE /\ awaiting' = "nothing" /\ interrupted' = FALSE
    /\ late' = late \cup StillToCome
    /\ registration' \in Vanish(helperConnection, registration)
    /\ invalid' = invalid \cup {helperConnection}
    /\ UNCHANGED <<appUp, cleared, retryTimer, shared, clean, fallback, request, appRegistered,
                   crashesLeft>>

\* The reply block of the first message stops the timer and installs the handler
\* that retries, on the connection the reference names; that of the interruption
\* handler's message does nothing.
RegistrationAnswered ==
    /\ helperConnection # NoConn
    /\ awaiting # "nothing" /\ registration[helperConnection] = "stored"
    /\ awaiting' = "nothing"
    /\ IF awaiting = "first"
       THEN retryTimer' = FALSE /\ retrying' = ~cleared
       ELSE UNCHANGED <<retryTimer, retrying>>
    /\ UNCHANGED <<appUp, helperConnection, cleared, interrupted, late, wire, shared, clean,
                   fallback, request, appRegistered, crashesLeft>>

\* retryAfterTimeout, for a connection that is gone.  The invalidation handler
\* clears the reference, whichever connection it names by now.
RetryAfterTimeout ==
    /\ \E what \in late :
           /\ late' = late \ {what}
           /\ cleared' = (cleared \/ (what = "invalidated" /\ helperConnection # NoConn))
    /\ retryTimer' = TRUE
    /\ UNCHANGED <<appUp, helperConnection, retrying, awaiting, interrupted, wire, shared, clean,
                   fallback, request, appRegistered, crashesLeft>>

\* Every ten seconds, until a registration is answered.
RetryTimerFires ==
    /\ retryTimer
    /\ Connect
    /\ UNCHANGED <<appUp, retryTimer, shared, clean, fallback, request, appRegistered, crashesLeft>>

\* Mutant: the handler leaves reconnecting to the next message.
InterruptionHandler_Lazy ==
    /\ interrupted
    /\ interrupted' = FALSE
    /\ UNCHANGED <<appUp, connecting, late, retryTimer, wire, shared, clean, fallback, request,
                   appRegistered, crashesLeft>>

\* Registers again, on the connection that launchd restores.
InterruptionHandler ==
    /\ interrupted
    /\ interrupted' = FALSE
    /\ awaiting' = "again"
    /\ registration' = [registration EXCEPT ![helperConnection] = "sent"]
    /\ UNCHANGED <<appUp, helperConnection, cleared, retrying, late, retryTimer, invalid, shared,
                   clean, fallback, request, appRegistered, crashesLeft>>

\* The HAL adds and removes the app's clients of the device.
DriverSeesApp ==
    /\ appRegistered # appUp
    /\ appRegistered' = appUp
    /\ UNCHANGED <<app, wire, shared, clean, fallback, request, crashesLeft>>

\* The request has its answer; an answer that comes later finds nobody waiting.
Answer(reply) ==
    /\ hpc' = "reply"
    /\ sentOn' = NoConn
    /\ replyToNovaLINKDriver' = reply

\* startPlayThroughSync of the device manager defers the start and says so.
AppStartsPlayThrough ==
    /\ hpc \in {"wait", "waitAgain"}
    /\ appUp
    /\ sentOn \in {helperConnection, Proxy}
    /\ Answer("early")
    /\ UNCHANGED <<app, wire, shared, clean, fallback, requestsLeft, appRegistered, crashesLeft>>

-----------------------------------------------------------------------------
(* The helper: the app's registration.                                     *)

\* registerAsNovaLINKApp, before the lock: the fallback is stopped.
BeginRegister(c) ==
    /\ registration[c] = "sent"
    /\ registration' = [registration EXCEPT ![c] = "handling"]
    /\ devicesConfigured' = FALSE
    /\ fallbackPlaying' = FALSE
    /\ UNCHANGED <<app, invalid, shared, clean, deferredStart, request, appRegistered, crashesLeft>>

\* Under the lock; the handler for the connection's end is set here.
StoreConnection(c) ==
    /\ registration[c] = "handling"
    /\ registration' = [registration EXCEPT ![c] = "stored"]
    /\ sNovaLINKAppConnection' = c
    /\ sNovaLINKAppEndpoint' = IF appUp THEN "live" ELSE "dead"
    /\ UNCHANGED <<app, invalid, clean, fallback, request, appRegistered, crashesLeft>>

\* Clears the stored connection, whichever that is by now.  A connection that
\* never registered has no handler, and the proxy's does not clean up.  The
\* connection's service goes with it.
InvalidationHandler(c) ==
    /\ c \in invalid
    /\ c \in Conns => registration[c] \notin {"sent", "handling"}
    /\ invalid' = invalid \ {c}
    /\ IF c = Proxy \/ registration[c] = "stored"
       THEN /\ sNovaLINKAppConnection' = NoConn
            /\ cleanUps' = cleanUps \cup ({c} \ {Proxy})
       ELSE UNCHANGED <<sNovaLINKAppConnection, cleanUps>>
    /\ registration' = [d \in Conns |-> IF d = c THEN "dropped" ELSE registration[d]]
    /\ UNCHANGED <<app, sNovaLINKAppEndpoint, cleanUpChecked, fallback, request,
                   appRegistered, crashesLeft>>

\* The delayed block, on the main queue, looks whether the app reconnected...
RunCleanUp ==
    /\ ~cleanUpChecked
    /\ \E c \in cleanUps : cleanUps' = cleanUps \ {c}
    /\ cleanUpChecked' = (sNovaLINKAppConnection = NoConn)
    /\ UNCHANGED <<app, wire, shared, fallback, request, appRegistered, crashesLeft>>

\* ... and starts the fallback play-through, unless it has no output device.
StartFallbackAfterCleanUp ==
    /\ cleanUpChecked
    /\ cleanUpChecked' = FALSE
    /\ \/ devicesConfigured' = TRUE /\ deferredStart' = TRUE
       \/ UNCHANGED <<devicesConfigured, deferredStart>>
    /\ UNCHANGED <<app, wire, shared, cleanUps, fallbackPlaying, request, appRegistered,
                   crashesLeft>>

\* The helper loses everything; launchd starts it again on the next message.  The
\* app is told that its connection is interrupted and that what it waits for
\* will not come, which starts the timer if it was the interruption handler's.
HelperCrashes ==
    /\ crashesLeft > 0
    /\ crashesLeft' = crashesLeft - 1
    /\ interrupted' = (helperConnection # NoConn)
    /\ awaiting' = "nothing"
    /\ late' = IF awaiting = "again" THEN late \cup {"failed"} ELSE late
    /\ registration' = [c \in Conns |-> IF registration[c] = "unused" THEN "unused" ELSE "dropped"]
    /\ invalid' = {}
    /\ sNovaLINKAppConnection' = NoConn
    /\ sNovaLINKAppEndpoint' = "nil"
    /\ cleanUps' = {} /\ cleanUpChecked' = FALSE
    /\ devicesConfigured' = FALSE /\ deferredStart' = FALSE /\ fallbackPlaying' = FALSE
    /\ hpc' = "idle" /\ sentOn' = NoConn
    /\ replyToNovaLINKDriver' = "unset"
    /\ UNCHANGED <<appUp, helperConnection, cleared, retrying, retryTimer, appRegistered,
                   requestsLeft>>

-----------------------------------------------------------------------------
(* The helper: its fallback play-through.                                  *)

\* Mutant: the delayed start takes it that the devices are still configured.
DeferredStart_Unchecked ==
    /\ deferredStart
    /\ deferredStart' = FALSE
    /\ fallbackPlaying' = TRUE
    /\ UNCHANGED <<app, wire, shared, clean, devicesConfigured, request, appRegistered, crashesLeft>>

\* 50 ms after the fallback was asked to start.
DeferredStart ==
    /\ deferredStart
    /\ deferredStart' = FALSE
    /\ fallbackPlaying' = (fallbackPlaying \/ devicesConfigured)
    /\ UNCHANGED <<app, wire, shared, clean, devicesConfigured, request, appRegistered, crashesLeft>>

\* Its own listeners start and stop it (see PlayThrough) while it is active.
FallbackNotified ==
    /\ devicesConfigured
    /\ fallbackPlaying' = ~fallbackPlaying
    /\ UNCHANGED <<app, wire, shared, clean, devicesConfigured, deferredStart, request,
                   appRegistered, crashesLeft>>

-----------------------------------------------------------------------------
(* The driver's request.                                                   *)

\* StartIO: of the app when it is a client of the device, of the helper if not.
Ask ==
    /\ hpc = "idle"
    /\ requestsLeft > 0
    /\ requestsLeft' = requestsLeft - 1
    /\ hpc' = IF appRegistered THEN "send" ELSE "asked"
    /\ replyToNovaLINKDriver' = "unset"
    /\ UNCHANGED <<app, wire, shared, clean, fallback, sentOn, appRegistered, crashesLeft>>

\* startFallbackPlayThroughSync prefers the app, if it is connected.
PreferApp ==
    /\ hpc = "asked"
    /\ hpc' = IF sNovaLINKAppConnection # NoConn THEN "send" ELSE "startFallback"
    /\ UNCHANGED <<app, wire, shared, clean, fallback, sentOn, replyToNovaLINKDriver,
                   requestsLeft, appRegistered, crashesLeft>>

StartFallback ==
    /\ hpc = "startFallback"
    /\ \/ devicesConfigured' = TRUE /\ deferredStart' = TRUE /\ Answer("early")
       \/ Answer("failure") /\ UNCHANGED <<devicesConfigured, deferredStart>>
    /\ UNCHANGED <<app, wire, shared, clean, fallbackPlaying, requestsLeft, appRegistered,
                   crashesLeft>>

\* withNovaLINKAppRemoteProxy, with and without a retry to come.
Forward(there) ==
    IF sNovaLINKAppConnection = NoConn /\ sNovaLINKAppEndpoint = "nil"
    THEN Answer("failure") /\ UNCHANGED <<sNovaLINKAppConnection, invalid>>
    ELSE /\ sNovaLINKAppConnection' = IF sNovaLINKAppConnection = NoConn
                                      THEN Proxy ELSE sNovaLINKAppConnection
         /\ invalid' = IF sNovaLINKAppConnection = NoConn /\ sNovaLINKAppEndpoint = "dead"
                       THEN invalid \cup {Proxy} ELSE invalid
         /\ sentOn' = sNovaLINKAppConnection'
         /\ hpc' = there
         /\ UNCHANGED replyToNovaLINKDriver

Send ==
    /\ \/ hpc = "send" /\ Forward("wait")
       \/ hpc = "resend" /\ Forward("waitAgain")
    /\ UNCHANGED <<app, registration, sNovaLINKAppEndpoint, clean, fallback, requestsLeft,
                   appRegistered, crashesLeft>>

\* The message can fail on any connection but the one the app has now.
Fails == sentOn # helperConnection

MessageFailsAgain ==
    /\ hpc = "waitAgain"
    /\ Fails
    /\ Answer("failure")
    /\ UNCHANGED <<app, wire, shared, clean, fallback, requestsLeft, appRegistered, crashesLeft>>

\* Drops the stored connection, whichever it is, so that the retry makes one.
MessageFails ==
    /\ hpc = "wait"
    /\ Fails
    /\ sNovaLINKAppConnection' = NoConn
    /\ hpc' = "resend" /\ sentOn' = NoConn
    /\ UNCHANGED <<app, wire, sNovaLINKAppEndpoint, clean, fallback, replyToNovaLINKDriver,
                   requestsLeft, appRegistered, crashesLeft>>

\* Mutant: only the first message's answer is waited for with a timeout.
TimeOut_FirstOnly ==
    /\ hpc = "wait"
    /\ Answer("timeout")
    /\ UNCHANGED <<app, wire, shared, clean, fallback, requestsLeft, appRegistered, crashesLeft>>

TimeOut ==
    /\ hpc \in {"wait", "waitAgain"}
    /\ Answer("timeout")
    /\ UNCHANGED <<app, wire, shared, clean, fallback, requestsLeft, appRegistered, crashesLeft>>

Reply ==
    /\ hpc = "reply"
    /\ hpc' = "idle"
    /\ replyToNovaLINKDriver' = "unset"
    /\ UNCHANGED <<app, wire, shared, clean, fallback, sentOn, requestsLeft, appRegistered,
                   crashesLeft>>

-----------------------------------------------------------------------------
Helper ==
    \/ \E c \in Conns : BeginRegister(c) \/ StoreConnection(c)
    \/ \E c \in Conns \cup {Proxy} : InvalidationHandler(c)
    \/ RunCleanUp
    \/ StartFallbackAfterCleanUp
    \/ DeferredStart
    \/ PreferApp
    \/ StartFallback
    \/ Send
    \/ Reply

Next ==
    \/ Helper
    \/ AppLaunches \/ AppDies \/ ConnectionBreaks
    \/ RegistrationAnswered \/ RetryAfterTimeout \/ RetryTimerFires \/ InterruptionHandler
    \/ DriverSeesApp \/ AppStartsPlayThrough
    \/ HelperCrashes \/ FallbackNotified
    \/ Ask \/ MessageFails \/ MessageFailsAgain \/ TimeOut

\* Queued blocks, messages and handlers run, timers and timeouts fire.  That an
\* app comes up, dies, or answers, and that messages fail, is left open.
Spec ==
    /\ Init
    /\ [][Next]_vars
    /\ WF_vars(Helper)
    /\ \A c \in Conns : WF_vars(BeginRegister(c) \/ StoreConnection(c))
    /\ WF_vars(RegistrationAnswered)
    /\ WF_vars(RetryAfterTimeout)
    /\ WF_vars(RetryTimerFires)
    /\ WF_vars(InterruptionHandler)
    /\ WF_vars(TimeOut)
    /\ WF_vars(PreferApp \/ StartFallback \/ Send \/ Reply)
    /\ WF_vars(StartFallbackAfterCleanUp)

-----------------------------------------------------------------------------
\* A fallback play-through that the registering app has stopped does not play:
\* the delayed start, queued before the stop, finds that it came too late.
NoPlayAfterStop == fallbackPlaying => devicesConfigured

\* The driver's StartIO gets an answer, though the app may never give one, its
\* connection may break, and the helper may crash.
RequestsAnswered == (hpc # "idle") ~> (hpc = "idle")

\* The app has a reason to try: its connection's end will be noticed, the timer
\* runs or will, or it registers after an interruption.
Recovering == retrying \/ retryTimer \/ late # {} \/ interrupted \/ awaiting = "again"

\* An app whose connection worked once, or whose helper crashed, gets its endpoint
\* to the helper, or to the next helper, as long as it stays up: whatever breaks
\* on the way and however its handlers and its timer overtake each other.  The
\* first registration of all is not tried again when the connection breaks before
\* the answer (NovaLINKXPCListener.mm:124, 143).
AppFindsHelper == (appUp /\ Recovering) ~> (sNovaLINKAppEndpoint = "live" \/ ~appUp)

=============================================================================
