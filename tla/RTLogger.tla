------------------------------ MODULE RTLogger ------------------------------
(***************************************************************************)
(* NovaLINKPlayThroughRTLogger: how the IOProcs, which must not wait, have *)
(* messages logged by a thread of the logger's own.                        *)
(*                                                                         *)
(* A message is stored in memory that belongs to its kind and a flag hands *)
(* it to the logging thread, which reads it, logs it and resets the flag.  *)
(* While the flag is set a new message of the kind is dropped.  An error   *)
(* code is one atomic variable that is simply overwritten.  A semaphore    *)
(* wakes the logging thread, that goes through all kinds each time.        *)
(*                                                                         *)
(* Two kinds of messages stand for all: one that only the output IOProc    *)
(* logs, and the one that both IOProcs log.  What is in a message is left  *)
(* out: what matters is when an IOProc writes it and the thread reads it.  *)
(***************************************************************************)
EXTENDS Naturals

CONSTANT
    MaxLogCalls     \* bound: calls that have something to log

ASSUME LogCallsAssumption == MaxLogCalls \in Nat

IOProcs == {"InputDeviceIOProc", "OutputDeviceIOProc"}
Messages == {"NoSamplesReady", "RingBufferUnavailable"}
Slots == Messages \cup {"RingBufferFetchError"}

VARIABLES
    shouldLogMessage,   \* message -> it is the logging thread's
    mRingBufferFetchError,
    mWakeUpLoggingThreadSemaphore,
    mLoggingThreadShouldExit,
    logCall,            \* IOProc -> the call of the logger it is in
    logCallsLeft,
    logging,            \* where the logging thread is
    destructor          \* where the thread that deletes the logger is

callVars == <<logCall, logCallsLeft, mRingBufferFetchError>>
otherLoggerVars == <<shouldLogMessage, mWakeUpLoggingThreadSemaphore, mLoggingThreadShouldExit,
                     logging, destructor>>
loggerVars == <<callVars, otherLoggerVars>>

NoCall == [at |-> "none"]

LoggerTypeOK ==
    /\ shouldLogMessage \in [Messages -> BOOLEAN]
    /\ mRingBufferFetchError \in BOOLEAN
    /\ mWakeUpLoggingThreadSemaphore \in Nat
    /\ mLoggingThreadShouldExit \in BOOLEAN
    /\ logCall \in [IOProcs -> [at : {"none", "wake"}] \cup [at : {"store"}, message : Messages]]
    /\ logCallsLeft \in Nat
    /\ logging \in [at : {"test", "exited"}]
                     \cup [at : {"look"}, left : SUBSET Slots]
                     \cup [at : {"read"}, slot : Slots, left : SUBSET Slots]
    /\ destructor \in {"none", "signal", "join", "done"}

LoggerInit ==
    /\ shouldLogMessage = [m \in Messages |-> FALSE]
    /\ mRingBufferFetchError = FALSE
    /\ mWakeUpLoggingThreadSemaphore = 0
    /\ mLoggingThreadShouldExit = FALSE
    /\ logCall = [p \in IOProcs |-> NoCall]
    /\ logCallsLeft = MaxLogCalls
    /\ logging = [at |-> "test"]
    /\ destructor = "none"

-----------------------------------------------------------------------------
(* The IOProcs' calls.  An IOProc begins one as part of a step of its own. *)

NotLogging(p) == logCall[p] = NoCall

Call(p, call) ==
    /\ logCall' = [logCall EXCEPT ![p] = call]
    /\ logCallsLeft' = logCallsLeft - 1

\* Mutant: a message that is with the logging thread is overwritten.
LogAsync_NewestWins(p, m) ==
    /\ IF logCallsLeft = 0 THEN UNCHANGED <<logCall, logCallsLeft>>
       ELSE Call(p, [at |-> "store", message |-> m])
    /\ UNCHANGED mRingBufferFetchError

\* The last message of the kind may still be with the logging thread.
LogAsync(p, m) ==
    /\ IF logCallsLeft = 0 \/ shouldLogMessage[m] THEN UNCHANGED <<logCall, logCallsLeft>>
       ELSE Call(p, [at |-> "store", message |-> m])
    /\ UNCHANGED mRingBufferFetchError

LogIfRingBufferError(p) ==
    /\ logCallsLeft > 0
    /\ mRingBufferFetchError' = TRUE
    /\ Call(p, [at |-> "wake"])

\* The message is there: hand it to the logging thread.
SetShouldLogMessage(p) ==
    /\ logCall[p].at = "store"
    /\ shouldLogMessage' = [shouldLogMessage EXCEPT ![logCall[p].message] = TRUE]
    /\ logCall' = [logCall EXCEPT ![p] = [at |-> "wake"]]
    /\ UNCHANGED <<logCallsLeft, mRingBufferFetchError, mWakeUpLoggingThreadSemaphore,
                   mLoggingThreadShouldExit, logging, destructor>>

\* Mutant: a thread that has something to log already is not woken again.
WakeLoggingThread_OnceOnly(p) ==
    /\ logCall[p].at = "wake"
    /\ mWakeUpLoggingThreadSemaphore' =
           IF logging.at = "look" THEN mWakeUpLoggingThreadSemaphore
           ELSE mWakeUpLoggingThreadSemaphore + 1
    /\ logCall' = [logCall EXCEPT ![p] = NoCall]
    /\ UNCHANGED <<logCallsLeft, mRingBufferFetchError, shouldLogMessage, mLoggingThreadShouldExit,
                   logging, destructor>>

WakeLoggingThread(p) ==
    /\ logCall[p].at = "wake"
    /\ mWakeUpLoggingThreadSemaphore' = mWakeUpLoggingThreadSemaphore + 1
    /\ logCall' = [logCall EXCEPT ![p] = NoCall]
    /\ UNCHANGED <<logCallsLeft, mRingBufferFetchError, shouldLogMessage, mLoggingThreadShouldExit,
                   logging, destructor>>

-----------------------------------------------------------------------------
(* The logging thread.                                                     *)

callersVars == <<mLoggingThreadShouldExit, logCall, logCallsLeft, destructor>>

TestShouldExit ==
    /\ logging.at = "test"
    /\ logging' = IF mLoggingThreadShouldExit THEN [at |-> "exited"]
                  ELSE [at |-> "look", left |-> Slots]
    /\ UNCHANGED <<shouldLogMessage, mRingBufferFetchError, mWakeUpLoggingThreadSemaphore, callersVars>>

ToLog(slot) ==
    IF slot \in Messages THEN shouldLogMessage[slot] ELSE mRingBufferFetchError

\* Kinds are looked at one after the other; the order does not matter.
LookAtMessage ==
    /\ logging.at = "look" /\ logging.left # {}
    /\ LET slot == CHOOSE s \in logging.left : TRUE
           left == logging.left \ {slot}
       IN  logging' = IF ToLog(slot) THEN [at |-> "read", slot |-> slot, left |-> left]
                      ELSE [at |-> "look", left |-> left]
    /\ UNCHANGED <<shouldLogMessage, mRingBufferFetchError, mWakeUpLoggingThreadSemaphore, callersVars>>

\* The message has been read and logged.
ResetMessage ==
    /\ logging.at = "read"
    /\ IF logging.slot \in Messages
       THEN /\ shouldLogMessage' = [shouldLogMessage EXCEPT ![logging.slot] = FALSE]
            /\ UNCHANGED mRingBufferFetchError
       ELSE mRingBufferFetchError' = FALSE /\ UNCHANGED shouldLogMessage
    /\ logging' = [at |-> "look", left |-> logging.left]
    /\ UNCHANGED <<mWakeUpLoggingThreadSemaphore, callersVars>>

WaitForWakeUp ==
    /\ logging.at = "look" /\ logging.left = {}
    /\ mWakeUpLoggingThreadSemaphore > 0
    /\ mWakeUpLoggingThreadSemaphore' = mWakeUpLoggingThreadSemaphore - 1
    /\ logging' = [at |-> "test"]
    /\ UNCHANGED <<shouldLogMessage, mRingBufferFetchError, callersVars>>

LoggingThread == TestShouldExit \/ LookAtMessage \/ ResetMessage \/ WaitForWakeUp

-----------------------------------------------------------------------------
(* The destructor.                                                         *)

SetShouldExit ==
    /\ destructor = "none"
    /\ \A p \in IOProcs : NotLogging(p)
    /\ destructor' = "signal"
    /\ mLoggingThreadShouldExit' = TRUE
    /\ UNCHANGED <<callVars, shouldLogMessage, mWakeUpLoggingThreadSemaphore, logging>>

SignalAndJoin ==
    /\ \/ /\ destructor = "signal"
          /\ destructor' = "join"
          /\ mWakeUpLoggingThreadSemaphore' = mWakeUpLoggingThreadSemaphore + 1
       \/ /\ destructor = "join" /\ logging.at = "exited"
          /\ destructor' = "done"
          /\ UNCHANGED mWakeUpLoggingThreadSemaphore
    /\ UNCHANGED <<callVars, shouldLogMessage, mLoggingThreadShouldExit, logging>>
=============================================================================
