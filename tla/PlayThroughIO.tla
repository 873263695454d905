---------------------------- MODULE PlayThroughIO ----------------------------
(***************************************************************************)
(* The two IOProcs of a play-through and the ring buffer between them.     *)
(*                                                                         *)
(* The input IOProc stores a cycle's frames in the CARingBuffer under the  *)
(* sample times the HAL gives it; the output IOProc fetches those at its   *)
(* read head.  They run on two real-time threads and only try to lock: the *)
(* input IOProc mBufferInputMutex, the output IOProc mBufferOutputMutex.   *)
(* So they keep out whoever allocates or deletes the buffer, which takes   *)
(* both, but not each other: the buffer's time bounds, changed before      *)
(* frames are overwritten and after frames are there, have to do.          *)
(*                                                                         *)
(* A pair of bounds is read and written as one: CARingBuffer writes it to  *)
(* the next of 32 places and then says which place is current.  A reader   *)
(* that finds that place overwritten tries again and may give up.  A frame *)
(* is its sample time and the run of sample times it belongs to; the input *)
(* device's restart from zero begins a new run.  The position in time of   *)
(* the output is kept as the read head that it leads to.                   *)
(***************************************************************************)
EXTENDS RTLogger, Integers, Sequences, FiniteSetsExt

CONSTANTS
    mCapacityFrames,
    IOFrames,       \* of one IO cycle
    MaxTime,        \* bound: sample times
    MaxRestarts,    \* bound: how often the input's times restart from zero
    MaxAllocations, \* bound: how often the buffer is deleted or allocated
    NoThread

ASSUME CapacityAssumption == mCapacityFrames \in Nat /\ IOFrames \in 1 .. mCapacityFrames

ASSUME BoundsAssumption == {MaxTime, MaxRestarts, MaxAllocations} \subseteq Nat

ASSUME NoThreadAssumption == NoThread \notin IOProcs \cup {"allocator"}

VARIABLES
    mBufferInputMutex,
    mBufferOutputMutex,
    mBuffer,                \* frames and time bounds, or NoBuffer
    mLastInputSampleTime,
    readHead,               \* of the last output cycle, or NotStarted
    input,                  \* where the input IOProc is
    output,                 \* where the output IOProc is
    allocator,              \* and the thread that changes the buffer
    stored,                 \* history: the frame that was stored for a time
    run,                    \* history: of the input's sample times
    allocationsLeft

ring == <<mBuffer, stored, run>>
locks == <<mBufferInputMutex, mBufferOutputMutex>>
heads == <<mLastInputSampleTime, readHead>>
audioVars == <<loggerVars, ring, locks, heads, input, output, allocator, allocationsLeft>>

Silence == <<-1, -1>>
NoBuffer == [frames |-> << >>]
NotStarted == -2
Idle == [at |-> "idle"]

\* AllocateBuffer's new buffer.
EmptyBuffer == [frames |-> [i \in 0 .. mCapacityFrames - 1 |-> Silence], start |-> 0, end |-> 0]

Frames == Int \X Int
Buffers == [frames : [0 .. mCapacityFrames - 1 -> Frames], start : Nat, end : Nat]

TypeOK ==
    /\ LoggerTypeOK
    /\ mBufferInputMutex \in {NoThread, "InputDeviceIOProc", "allocator"}
    /\ mBufferOutputMutex \in {NoThread, "OutputDeviceIOProc", "allocator"}
    /\ mBuffer \in Buffers \cup {NoBuffer}
    /\ mLastInputSampleTime \in Nat \cup {-1}
    /\ readHead \in Int
    /\ input \in {Idle} \cup [at : {"makeRoom"}, start : Nat, run : Nat]
                        \cup [at : {"write"}, start : Nat, next : Nat]
    /\ output \in {Idle, [at |-> "clip"]}
                    \cup [at : {"check"}, lastInput : Nat]
                    \cup [at : {"copy"}, run : Nat, got : Seq([time : Nat, frame : Frames]),
                          next : Nat, end : Nat]
    /\ allocator \in {"idle", "lockOutput", "change"}
    /\ stored \in [0 .. MaxTime -> Frames]
    /\ run \in Nat
    /\ allocationsLeft \in Nat

AudioInit ==
    /\ LoggerInit
    /\ mBufferInputMutex = NoThread /\ mBufferOutputMutex = NoThread
    /\ mBuffer = EmptyBuffer
    /\ mLastInputSampleTime = -1
    /\ readHead = NotStarted
    /\ input = Idle /\ output = Idle /\ allocator = "idle"
    /\ stored = [t \in 0 .. MaxTime |-> Silence]
    /\ run = 0
    /\ allocationsLeft = MaxAllocations

-----------------------------------------------------------------------------
(* The input IOProc.                                                       *)

\* The HAL's next sample time: the next one, a later one after an overload, or
\* zero again.
InputTimes ==
    IF mLastInputSampleTime = -1 THEN {[start |-> 0, run |-> run]}
    ELSE {[start |-> mLastInputSampleTime + IOFrames + late, run |-> run] : late \in 0 .. 1}
             \cup {[start |-> 0, run |-> r] : r \in (run + 1) .. Min({run + 1, MaxRestarts})}

InputDeviceIOProc ==
    /\ input = Idle /\ NotLogging("InputDeviceIOProc") /\ destructor = "none"
    /\ IF mBufferInputMutex = NoThread /\ mBuffer # NoBuffer
       THEN /\ \E t \in InputTimes :
                   /\ t.start + IOFrames <= MaxTime + 1
                   /\ input' = [at |-> "makeRoom", start |-> t.start, run |-> t.run]
            /\ mBufferInputMutex' = "InputDeviceIOProc"
            /\ UNCHANGED loggerVars
       ELSE /\ LogAsync("InputDeviceIOProc", "RingBufferUnavailable")
            /\ UNCHANGED <<mBufferInputMutex, input, otherLoggerVars>>
    /\ UNCHANGED <<ring, mBufferOutputMutex, heads, output, allocator, allocationsLeft>>

\* Mutant: the frames to be overwritten stay within the bounds.
StoreMakesRoom_Later ==
    /\ input.at = "makeRoom"
    /\ mBuffer' = IF input.start < mBuffer.end
                  THEN [mBuffer EXCEPT !.start = input.start, !.end = input.start] ELSE mBuffer
    /\ run' = input.run
    /\ input' = [at |-> "write", start |-> input.start, next |-> Min({input.start, mBuffer'.end})]
    /\ UNCHANGED <<loggerVars, stored, locks, heads, output, allocator, allocationsLeft>>

\* Takes the frames that will be overwritten out of the bounds: all of them
\* when time goes backwards.
StoreMakesRoom ==
    /\ input.at = "makeRoom"
    /\ LET newStart == input.start + IOFrames - mCapacityFrames
       IN  mBuffer' =
               IF input.start < mBuffer.end
               THEN [mBuffer EXCEPT !.start = input.start, !.end = input.start]
               ELSE IF newStart <= mBuffer.start
               THEN mBuffer
               ELSE [mBuffer EXCEPT !.start = newStart, !.end = Max({newStart, mBuffer.end})]
    /\ run' = input.run
    /\ input' = [at |-> "write", start |-> input.start, next |-> Min({input.start, mBuffer'.end})]
    /\ UNCHANGED <<loggerVars, stored, locks, heads, output, allocator, allocationsLeft>>

\* Skipped times are zeroed, then the frames are copied.
StoreWritesFrame ==
    /\ input.at = "write"
    /\ input.next < input.start + IOFrames
    /\ LET frame == IF input.next < input.start THEN Silence ELSE <<run, input.next>>
       IN  /\ mBuffer' = [mBuffer EXCEPT !.frames[input.next % mCapacityFrames] = frame]
           /\ stored' = [stored EXCEPT ![input.next] = frame]
    /\ input' = [input EXCEPT !.next = @ + 1]
    /\ UNCHANGED <<loggerVars, run, locks, heads, output, allocator, allocationsLeft>>

StoreEnds ==
    /\ input.at = "write"
    /\ input.next = input.start + IOFrames
    /\ mBuffer' = [mBuffer EXCEPT !.end = input.start + IOFrames]
    /\ mLastInputSampleTime' = input.start
    /\ mBufferInputMutex' = NoThread
    /\ input' = Idle
    /\ UNCHANGED <<loggerVars, stored, run, mBufferOutputMutex, readHead, output, allocator,
                   allocationsLeft>>

-----------------------------------------------------------------------------
(* The output IOProc.                                                      *)

\* How the read head moves: to the last input in the first cycle, then with the
\* output's time, which may skip a frame after an overload or start again.
ReadHeads ==
    IF readHead = NotStarted THEN {mLastInputSampleTime}
    ELSE {readHead + IOFrames, readHead + IOFrames + 1, -1}

OutputDeviceIOProc ==
    /\ output = Idle /\ NotLogging("OutputDeviceIOProc") /\ destructor = "none"
    /\ mLastInputSampleTime # -1
    /\ \E head \in ReadHeads :
           /\ head <= MaxTime
           /\ readHead' = head
           /\ IF mBufferOutputMutex = NoThread /\ mBuffer # NoBuffer
              THEN /\ output' = [at |-> "check", lastInput |-> mLastInputSampleTime]
                   /\ mBufferOutputMutex' = "OutputDeviceIOProc"
                   /\ UNCHANGED loggerVars
              ELSE /\ LogAsync("OutputDeviceIOProc", "RingBufferUnavailable")
                   /\ UNCHANGED <<mBufferOutputMutex, output, otherLoggerVars>>
    /\ UNCHANGED <<ring, mBufferInputMutex, mLastInputSampleTime, input, allocator, allocationsLeft>>

\* A read head ahead of the input or outside of the buffer starts over at the
\* last input.
CheckReadHead ==
    /\ output.at = "check"
    /\ \E outOfBounds \in {FALSE, readHead < mBuffer.start \/ readHead - IOFrames > mBuffer.end} :
           IF output.lastInput < readHead \/ outOfBounds
           THEN /\ readHead' = output.lastInput
                /\ LogAsync("OutputDeviceIOProc", "NoSamplesReady")
           ELSE UNCHANGED <<readHead, callVars>>
    /\ output' = [at |-> "clip"]
    /\ UNCHANGED <<otherLoggerVars, ring, locks, mLastInputSampleTime, input, allocator,
                   allocationsLeft>>

\* Fetch first clips what it reads to the bounds ...
ClipTimeBounds ==
    /\ output.at = "clip" /\ NotLogging("OutputDeviceIOProc")
    /\ LET from == Max({0, readHead})
           to == from + IOFrames
       IN  output' = [at |-> "copy", run |-> run, got |-> << >>,
                      next |-> Max({from, mBuffer.start}),
                      end |-> IF from > mBuffer.end THEN from ELSE Min({to, mBuffer.end})]
    /\ UNCHANGED <<loggerVars, ring, locks, heads, input, allocator, allocationsLeft>>

\* ... unless it fails to read them.
FetchFails ==
    /\ output.at = "clip" /\ NotLogging("OutputDeviceIOProc")
    /\ LogIfRingBufferError("OutputDeviceIOProc")
    /\ output' = [at |-> "copy", run |-> run, got |-> << >>, next |-> 0, end |-> 0]
    /\ UNCHANGED <<otherLoggerVars, ring, locks, heads, input, allocator, allocationsLeft>>

\* Then it copies the frames, which the input IOProc may be overwriting.
FetchCopiesFrame ==
    /\ output.at = "copy"
    /\ output.next < output.end
    /\ output' = [output EXCEPT !.next = @ + 1,
                                !.got = Append(@, [time |-> output.next, frame |->
                                    mBuffer.frames[output.next % mCapacityFrames]])]
    /\ UNCHANGED <<loggerVars, ring, locks, heads, input, allocator, allocationsLeft>>

FetchEnds ==
    /\ output.at = "copy"
    /\ output.next >= output.end /\ NotLogging("OutputDeviceIOProc")
    /\ mBufferOutputMutex' = NoThread
    /\ output' = Idle
    /\ UNCHANGED <<loggerVars, ring, mBufferInputMutex, heads, input, allocator, allocationsLeft>>

-----------------------------------------------------------------------------
(* AllocateBuffer and DeallocateBuffer, on another thread.                 *)

LockInputMutex ==
    /\ allocator = "idle" /\ allocationsLeft > 0 /\ destructor = "none"
    /\ mBufferInputMutex = NoThread
    /\ mBufferInputMutex' = "allocator"
    /\ allocator' = "lockOutput"
    /\ allocationsLeft' = allocationsLeft - 1
    /\ UNCHANGED <<loggerVars, ring, mBufferOutputMutex, heads, input, output>>

LockOutputMutex ==
    /\ allocator = "lockOutput"
    /\ mBufferOutputMutex = NoThread
    /\ mBufferOutputMutex' = "allocator"
    /\ allocator' = "change"
    /\ UNCHANGED <<loggerVars, ring, mBufferInputMutex, heads, input, output, allocationsLeft>>

ChangeBuffer ==
    /\ allocator = "change"
    /\ mBuffer' \in {NoBuffer, EmptyBuffer}
    /\ stored' = [t \in 0 .. MaxTime |-> Silence]
    /\ mBufferInputMutex' = NoThread
    /\ mBufferOutputMutex' = NoThread
    /\ allocator' = "idle"
    /\ UNCHANGED <<loggerVars, run, heads, input, output, allocationsLeft>>

-----------------------------------------------------------------------------
Input == InputDeviceIOProc \/ StoreMakesRoom \/ StoreWritesFrame \/ StoreEnds
Output == OutputDeviceIOProc \/ CheckReadHead \/ ClipTimeBounds \/ FetchFails \/ FetchCopiesFrame \/ FetchEnds
Allocator == LockInputMutex \/ LockOutputMutex \/ ChangeBuffer
\* The logger is deleted with its play-through, when IO has stopped.
Stopped == input = Idle /\ output = Idle /\ allocator = "idle"

Logger ==
    \/ LoggingThread \/ (SetShouldExit /\ Stopped) \/ SignalAndJoin
    \/ \E p \in IOProcs : SetShouldLogMessage(p) \/ WakeLoggingThread(p)

AudioNext ==
    \/ Input \/ Output \/ Allocator
    \/ Logger /\ UNCHANGED <<ring, locks, heads, input, output, allocator, allocationsLeft>>

AudioSpec == AudioInit /\ [][AudioNext]_audioVars

-----------------------------------------------------------------------------
(* Properties.                                                             *)

\* What the output IOProc plays for a sample time is what the input IOProc
\* stored for it, although no lock keeps the two apart: Store takes frames out
\* of the time bounds before it overwrites them and adds new ones after they are
\* there.  A frame may only be another one if, meanwhile, the buffer's start has
\* moved past it or the input's times have started over.  The buffer itself
\* is never replaced or deleted under an IOProc that uses it.
FetchFaithful ==
    /\ input # Idle \/ output.at \in {"check", "clip", "copy"} => mBuffer # NoBuffer
    /\ output.at = "copy" =>
           \A i \in DOMAIN output.got :
               LET got == output.got[i]
               IN  \/ got.frame = stored[got.time]
                   \/ got.time < mBuffer.start
                   \/ output.run # run

\* A message is logged as it was stored, never half of one and half of the next:
\* an IOProc does not write a message while the logging thread may be reading it,
\* though neither waits for the other.  (Of the kinds that one IOProc logs.)
MessagesIntact ==
    logging.at = "read" /\ logging.slot = "NoSamplesReady" =>
        \A p \in IOProcs : logCall[p].at = "store" => logCall[p].message # logging.slot

\* No message is left with a logging thread that sleeps: it cannot wait for a
\* signal that nobody has given or is about to give, while a message or an error
\* is to be logged or while the destructor waits for it to exit.
NothingLeftUnlogged ==
    LET asleep == logging.at = "look" /\ logging.left = {} /\ mWakeUpLoggingThreadSemaphore = 0
        due == \/ mRingBufferFetchError
               \/ \E m \in Messages : shouldLogMessage[m]
               \/ mLoggingThreadShouldExit
    IN  asleep /\ due => destructor = "signal" \/ \E p \in IOProcs : logCall[p].at = "wake"
=============================================================================
