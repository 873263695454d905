-------------------------- MODULE PlayThrough_Proofs --------------------------
(***************************************************************************)
(* Proofs about play-through.  The first part is about PlayThroughIO, for  *)
(* any capacity, any length of a cycle and any bound on times, restarts,   *)
(* allocations and calls of the logger; the last is about PlayThrough, for *)
(* any threads that start, stop, wait and change the device.               *)
(*                                                                         *)
(* The two real-time threads share no lock.  What keeps them apart is who  *)
(* may change what: the buffer's bounds, that only the input IOProc moves  *)
(* while it holds its mutex, and the logger's flags, of which an IOProc    *)
(* only sets and the logging thread only resets one.                       *)
(*                                                                         *)
(* Threads that start and stop share the mutex with each other, but not    *)
(* with the IOProcs.  There it is that a state seen in Stop never is one   *)
(* that Start sets.                                                        *)
(***************************************************************************)
EXTENDS PlayThrough, PlayThroughIO, TLAPS

\* The greater and the lesser of two.
LEMMA MaxOfTwo == ASSUME NEW a \in Int, NEW b \in Int
                  PROVE  Max({a, b}) = IF a >= b THEN a ELSE b
<1> DEFINE m == IF a >= b THEN a ELSE b
<1>1. m \in {a, b} /\ \A y \in {a, b} : m >= y
  OBVIOUS
<1>2. \A x \in {a, b} : (\A y \in {a, b} : x >= y) => x = m
  OBVIOUS
<1> HIDE DEF m
<1>3. Max({a, b}) \in {a, b} /\ \A y \in {a, b} : Max({a, b}) >= y
  BY <1>1 DEF Max
<1> QED BY <1>2, <1>3 DEF m

LEMMA MinOfTwo == ASSUME NEW a \in Int, NEW b \in Int
                  PROVE  Min({a, b}) = IF a <= b THEN a ELSE b
<1> DEFINE m == IF a <= b THEN a ELSE b
<1>1. m \in {a, b} /\ \A y \in {a, b} : m <= y
  OBVIOUS
<1>2. \A x \in {a, b} : (\A y \in {a, b} : x <= y) => x = m
  OBVIOUS
<1> HIDE DEF m
<1>3. Min({a, b}) \in {a, b} /\ \A y \in {a, b} : Min({a, b}) <= y
  BY <1>1 DEF Min
<1> QED BY <1>2, <1>3 DEF m

\* Two times that are less than the capacity apart have places of their own.
LEMMA PlacesDiffer ==
    ASSUME NEW c \in Nat \ {0}, NEW s \in Nat, NEW t \in Nat, s < t, t < s + c
    PROVE  s % c # t % c
<1> DEFINE p == s \div c
           q == t \div c
<1>1. /\ p \in Int /\ q \in Int /\ s % c \in 0 .. c - 1 /\ t % c \in 0 .. c - 1
      /\ s = c * p + (s % c) /\ t = c * q + (t % c)
  OBVIOUS
<1> HIDE DEF p, q
<1> SUFFICES ASSUME s % c = t % c PROVE FALSE
  OBVIOUS
<1> DEFINE d == q - p
<1>2. d \in Int /\ t - s = c * d
  BY <1>1
<1>3. 0 < c * d /\ c * d < c
  BY <1>2
<1> HIDE DEF d
<1>4. CASE d <= 0
  BY <1>2, <1>3, <1>4
<1>5. CASE d >= 1
  BY <1>2, <1>3, <1>5
<1> QED BY <1>2, <1>4, <1>5
-----------------------------------------------------------------------------
(* Types.                                                                   *)

\* A buffer has time bounds, and the deleted one has not.
LEMMA BufferIsThere == ASSUME NEW b \in Buffers PROVE b # NoBuffer
<1>1. DOMAIN b = {"frames", "start", "end"} /\ DOMAIN NoBuffer = {"frames"}
  BY DEF Buffers, NoBuffer
<1> QED BY <1>1

LEMMA EmptyBufferType == EmptyBuffer \in Buffers /\ Silence \in Frames
  BY DEF EmptyBuffer, Buffers, Silence, Frames

\* What a step of another thread may do to the logger, apart from a call.
LEMMA CallTypes ==
    ASSUME LoggerTypeOK, NEW p \in IOProcs, NEW m \in Messages, UNCHANGED otherLoggerVars,
           LogAsync(p, m) \/ LogIfRingBufferError(p)
    PROVE  LoggerTypeOK'
<1>1. CASE LogAsync(p, m)
  BY <1>1 DEF LoggerTypeOK, LogAsync, Call, otherLoggerVars
<1>2. CASE LogIfRingBufferError(p)
  BY <1>2 DEF LoggerTypeOK, LogIfRingBufferError, Call, otherLoggerVars
<1> QED BY <1>1, <1>2

LEMMA LoggerTypes ==
    ASSUME LoggerTypeOK, Logger
    PROVE  LoggerTypeOK'
<1> USE DEF callVars, callersVars, LoggerTypeOK
<1>1. CASE TestShouldExit
  BY <1>1 DEF TestShouldExit
<1>2. CASE LookAtMessage
  <2> DEFINE slot == CHOOSE s \in logging.left : TRUE
  <2>1. slot \in logging.left /\ logging.left \in SUBSET Slots
    BY <1>2 DEF LookAtMessage
  <2>2. \/ logging' = [at |-> "read", slot |-> slot, left |-> logging.left \ {slot}]
        \/ logging' = [at |-> "look", left |-> logging.left \ {slot}]
    BY <1>2 DEF LookAtMessage
  <2> HIDE DEF slot
  <2> QED BY <1>2, <2>1, <2>2 DEF LookAtMessage
<1>3. CASE ResetMessage
  <2>1. logging.left \in SUBSET Slots
    BY <1>3 DEF ResetMessage
  <2> QED BY <1>3, <2>1 DEF ResetMessage
<1>4. CASE WaitForWakeUp
  BY <1>4 DEF WaitForWakeUp
<1>5. CASE SetShouldExit
  BY <1>5 DEF SetShouldExit
<1>6. CASE SignalAndJoin
  BY <1>6 DEF SignalAndJoin
<1>7. ASSUME NEW p \in IOProcs, SetShouldLogMessage(p) PROVE LoggerTypeOK'
  <2>1. logCall[p].message \in Messages
    BY <1>7 DEF SetShouldLogMessage
  <2>2. logCall' \in [IOProcs -> [at : {"none", "wake"}] \cup [at : {"store"}, message : Messages]]
    BY <1>7 DEF SetShouldLogMessage
  <2> QED BY <1>7, <2>1, <2>2 DEF SetShouldLogMessage
<1>8. ASSUME NEW p \in IOProcs, WakeLoggingThread(p) PROVE LoggerTypeOK'
  <2>1. logCall' \in [IOProcs -> [at : {"none", "wake"}] \cup [at : {"store"}, message : Messages]]
    BY <1>8 DEF WakeLoggingThread, NoCall
  <2> QED BY <1>8, <2>1 DEF WakeLoggingThread
<1> QED BY <1>1, <1>2, <1>3, <1>4, <1>5, <1>6, <1>7, <1>8 DEF Logger, LoggingThread

\* The cases of an IOProc that has begun.
LEMMA InputCases ==
    ASSUME TypeOK
    PROVE  /\ input.at = "makeRoom" => input \in [at : {"makeRoom"}, start : Nat, run : Nat]
           /\ input.at = "write" => input \in [at : {"write"}, start : Nat, next : Nat]
    BY DEF TypeOK, Idle

LEMMA OutputCases ==
    ASSUME TypeOK
    PROVE  /\ output.at = "check" => output \in [at : {"check"}, lastInput : Nat]
           /\ output.at = "copy" =>
                output \in [at : {"copy"}, run : Nat, got : Seq([time : Nat, frame : Frames]),
                            next : Nat, end : Nat]
    BY DEF TypeOK, Idle

LEMMA GotTypes ==
    ASSUME TypeOK, output.at = "copy", NEW i \in DOMAIN output.got
    PROVE  output.got[i].time \in Nat /\ output.got[i].frame \in Frames
<1>1. output.got \in Seq([time : Nat, frame : Frames])
  BY OutputCases
<1>2. output.got[i] \in [time : Nat, frame : Frames]
  <2>1. ASSUME NEW S, NEW s \in Seq(S), NEW j \in DOMAIN s PROVE s[j] \in S
    OBVIOUS
  <2> QED BY <1>1, <2>1
<1> QED BY <1>2

\* Who has which lock says who is where.
Locks ==
    /\ input # Idle <=> mBufferInputMutex = "InputDeviceIOProc"
    /\ output # Idle <=> mBufferOutputMutex = "OutputDeviceIOProc"
    /\ allocator # "idle" <=> mBufferInputMutex = "allocator"
    /\ allocator = "change" <=> mBufferOutputMutex = "allocator"

\* The buffer is neither replaced nor deleted under an IOProc that uses it.
BufferKept == input # Idle \/ output # Idle => mBuffer # NoBuffer

LEMMA StoreKeepsBuffer ==
    ASSUME TypeOK, BufferKept, StoreMakesRoom \/ StoreWritesFrame \/ StoreEnds
    PROVE  mBuffer' \in Buffers
<1>1. input # Idle
  BY DEF StoreMakesRoom, StoreWritesFrame, StoreEnds, Idle
<1>2. mBuffer \in Buffers /\ IOFrames \in Nat /\ mCapacityFrames \in Nat
  BY <1>1, CapacityAssumption DEF BufferKept, TypeOK
<1>3. CASE StoreMakesRoom
  <2> DEFINE newStart == input.start + IOFrames - mCapacityFrames
  <2>1. input.start \in Nat
    BY <1>3, InputCases DEF StoreMakesRoom
  <2>2. newStart \in Int /\ mBuffer.end \in Nat /\ mBuffer.start \in Nat
    BY <1>2, <2>1 DEF Buffers
  <2>3. mBuffer' = IF input.start < mBuffer.end
                   THEN [mBuffer EXCEPT !.start = input.start, !.end = input.start]
                   ELSE IF newStart <= mBuffer.start
                   THEN mBuffer
                   ELSE [mBuffer EXCEPT !.start = newStart, !.end = Max({newStart, mBuffer.end})]
    BY <1>3 DEF StoreMakesRoom
  <2> HIDE DEF newStart
  <2>4. ASSUME NEW a \in Nat, NEW b \in Nat PROVE [mBuffer EXCEPT !.start = a, !.end = b] \in Buffers
    BY <1>2 DEF Buffers
  <2>5. CASE newStart > mBuffer.start
    <3>1. newStart \in Nat /\ Max({newStart, mBuffer.end}) \in Nat
      BY <2>2, <2>5, MaxOfTwo
    <3> QED BY <1>2, <2>1, <2>3, <2>4, <3>1
  <2>6. CASE newStart <= mBuffer.start
    BY <1>2, <2>1, <2>3, <2>4, <2>6
  <2> QED BY <2>2, <2>5, <2>6
<1>4. CASE StoreWritesFrame
  <2>1. PICK frame \in Frames :
          mBuffer' = [mBuffer EXCEPT !.frames = [mBuffer.frames EXCEPT
                                                   ![input.next % mCapacityFrames] = frame]]
    <3>1. Silence \in Frames /\ <<run, input.next>> \in Frames
      BY <1>4, InputCases, EmptyBufferType DEF StoreWritesFrame, Frames, TypeOK
    <3> QED BY <1>4, <3>1 DEF StoreWritesFrame
  <2> DEFINE frames == [mBuffer.frames EXCEPT ![input.next % mCapacityFrames] = frame]
  <2>2. frames \in [0 .. mCapacityFrames - 1 -> Frames]
    BY <1>2, <2>1 DEF Buffers
  <2>3. mBuffer' = [mBuffer EXCEPT !.frames = frames]
    BY <2>1
  <2> HIDE DEF frames
  <2> QED BY <1>2, <2>2, <2>3 DEF Buffers
<1>5. CASE StoreEnds
  <2>1. input.start + IOFrames \in Nat
    BY <1>2, <1>5, InputCases DEF StoreEnds
  <2>2. mBuffer' = [mBuffer EXCEPT !.end = input.start + IOFrames]
    BY <1>5 DEF StoreEnds
  <2> QED BY <1>2, <2>1, <2>2 DEF Buffers
<1> QED BY <1>3, <1>4, <1>5

LEMMA InputTypes ==
    ASSUME TypeOK, BufferKept, Input
    PROVE  TypeOK'
<1> USE DEF ring, locks, heads
<1>1. ASSUME UNCHANGED loggerVars PROVE LoggerTypeOK'
  BY <1>1 DEF loggerVars, callVars, otherLoggerVars, TypeOK, LoggerTypeOK
<1>2. CASE InputDeviceIOProc
  <2>1. CASE mBufferInputMutex = NoThread /\ mBuffer # NoBuffer
    <3>1. PICK t \in InputTimes : input' = [at |-> "makeRoom", start |-> t.start, run |-> t.run]
      BY <1>2, <2>1 DEF InputDeviceIOProc
    <3>2. t.start \in Nat /\ t.run \in Nat
      <4>1. CASE mLastInputSampleTime = -1
        BY <4>1 DEF InputTimes, TypeOK
      <4>2. CASE mLastInputSampleTime # -1
        <5>1. mLastInputSampleTime \in Nat /\ run \in Nat /\ IOFrames \in Nat
          BY <4>2, CapacityAssumption DEF TypeOK
        <5> QED BY <3>1, <4>2, <5>1 DEF InputTimes
      <4> QED BY <4>1, <4>2
    <3>3. input' \in [at : {"makeRoom"}, start : Nat, run : Nat]
      BY <3>1, <3>2
    <3> QED BY <1>1, <1>2, <2>1, <3>3 DEF InputDeviceIOProc, TypeOK
  <2>2. CASE ~(mBufferInputMutex = NoThread /\ mBuffer # NoBuffer)
    <3>1. LoggerTypeOK'
      BY <1>2, <2>2, CallTypes DEF InputDeviceIOProc, TypeOK, IOProcs, Messages
    <3> QED BY <1>2, <2>2, <3>1 DEF InputDeviceIOProc, TypeOK
  <2> QED BY <2>1, <2>2
<1>3. CASE StoreMakesRoom
  <2>1. mBuffer' \in Buffers /\ input.start \in Nat
    BY <1>3, InputCases, StoreKeepsBuffer DEF StoreMakesRoom
  <2>2. Min({input.start, mBuffer'.end}) \in Nat
    <3>1. mBuffer'.end \in Nat
      BY <2>1 DEF Buffers
    <3> QED BY <2>1, <3>1, MinOfTwo
  <2>3. input' \in [at : {"write"}, start : Nat, next : Nat] /\ run' \in Nat
    BY <1>3, <2>1, <2>2, InputCases DEF StoreMakesRoom
  <2> QED BY <1>1, <1>3, <2>1, <2>3 DEF StoreMakesRoom, TypeOK
<1>4. CASE StoreWritesFrame
  <2>1. input \in [at : {"write"}, start : Nat, next : Nat] /\ mBuffer' \in Buffers
    BY <1>4, InputCases, StoreKeepsBuffer DEF StoreWritesFrame
  <2>2. stored' \in [0 .. MaxTime -> Frames]
    <3>1. Silence \in Frames /\ <<run, input.next>> \in Frames
      BY <2>1, EmptyBufferType DEF Frames, TypeOK
    <3> QED BY <1>4, <3>1 DEF StoreWritesFrame, TypeOK
  <2>3. input' \in [at : {"write"}, start : Nat, next : Nat]
    BY <1>4, <2>1 DEF StoreWritesFrame
  <2> QED BY <1>1, <1>4, <2>1, <2>2, <2>3 DEF StoreWritesFrame, TypeOK
<1>5. CASE StoreEnds
  <2>1. mBuffer' \in Buffers /\ mLastInputSampleTime' \in Nat
    BY <1>5, InputCases, StoreKeepsBuffer DEF StoreEnds
  <2> QED BY <1>1, <1>5, <2>1 DEF StoreEnds, TypeOK
<1> QED BY <1>2, <1>3, <1>4, <1>5 DEF Input

LEMMA OutputTypes ==
    ASSUME TypeOK, BufferKept, Output
    PROVE  TypeOK'
<1> USE DEF ring, locks, heads
<1>1. ASSUME UNCHANGED loggerVars PROVE LoggerTypeOK'
  BY <1>1 DEF loggerVars, callVars, otherLoggerVars, TypeOK, LoggerTypeOK
<1>2. "OutputDeviceIOProc" \in IOProcs /\ Messages = {"NoSamplesReady", "RingBufferUnavailable"}
  BY DEF IOProcs, Messages
<1>3. ASSUME output # Idle PROVE mBuffer \in Buffers
  BY <1>3 DEF BufferKept, TypeOK
<1>4. CASE OutputDeviceIOProc
  <2>1. mLastInputSampleTime \in Nat /\ readHead \in Int
    BY <1>4 DEF OutputDeviceIOProc, TypeOK
  <2>2. readHead' \in Int
    BY <1>4, <2>1, CapacityAssumption DEF OutputDeviceIOProc, ReadHeads
  <2>3. CASE mBufferOutputMutex = NoThread /\ mBuffer # NoBuffer
    <3>1. output' \in [at : {"check"}, lastInput : Nat]
      BY <1>4, <2>1, <2>3 DEF OutputDeviceIOProc
    <3> QED BY <1>1, <1>4, <2>2, <2>3, <3>1 DEF OutputDeviceIOProc, TypeOK
  <2>4. CASE ~(mBufferOutputMutex = NoThread /\ mBuffer # NoBuffer)
    <3>1. LoggerTypeOK'
      BY <1>2, <1>4, <2>4, CallTypes DEF OutputDeviceIOProc, TypeOK
    <3> QED BY <1>4, <2>2, <2>4, <3>1 DEF OutputDeviceIOProc, TypeOK
  <2> QED BY <2>3, <2>4
<1>5. CASE CheckReadHead
  <2>1. output.lastInput \in Nat
    BY <1>5, OutputCases DEF CheckReadHead
  <2>2. /\ readHead' \in Int
        /\ LogAsync("OutputDeviceIOProc", "NoSamplesReady") \/ UNCHANGED callVars
    BY <1>5, <2>1 DEF CheckReadHead, TypeOK
  <2>3. UNCHANGED otherLoggerVars
    BY <1>5 DEF CheckReadHead
  <2>4. LoggerTypeOK'
    <3>1. CASE UNCHANGED callVars
      BY <1>1, <2>3, <3>1 DEF loggerVars
    <3> QED BY <1>2, <2>2, <2>3, <3>1, CallTypes DEF TypeOK
  <2> QED BY <1>5, <2>2, <2>4 DEF CheckReadHead, TypeOK
<1>6. CASE ClipTimeBounds
  <2> DEFINE from == Max({0, readHead})
  <2>1. mBuffer \in Buffers /\ readHead \in Int /\ IOFrames \in Nat /\ run \in Nat
    BY <1>3, <1>6, CapacityAssumption DEF ClipTimeBounds, Idle, TypeOK
  <2>2. from \in Nat
    BY <2>1, MaxOfTwo
  <2>3. output' = [at |-> "copy", run |-> run, got |-> << >>,
                   next |-> Max({from, mBuffer.start}),
                   end |-> IF from > mBuffer.end THEN from ELSE Min({from + IOFrames, mBuffer.end})]
    BY <1>6 DEF ClipTimeBounds
  <2> HIDE DEF from
  <2>4. /\ Max({from, mBuffer.start}) \in Nat
        /\ Min({from + IOFrames, mBuffer.end}) \in Nat
    <3>1. mBuffer.start \in Nat /\ mBuffer.end \in Nat
      BY <2>1 DEF Buffers
    <3>2. from + IOFrames \in Nat
      BY <2>1, <2>2
    <3> QED BY <2>2, <3>1, <3>2, MaxOfTwo, MinOfTwo
  <2>5. output' \in [at : {"copy"}, run : Nat, got : Seq([time : Nat, frame : Frames]),
                     next : Nat, end : Nat]
    BY <2>1, <2>2, <2>3, <2>4
  <2> QED BY <1>1, <1>6, <2>5 DEF ClipTimeBounds, TypeOK
<1>7. CASE FetchFails
  <2>1. LoggerTypeOK'
    BY <1>2, <1>7, CallTypes DEF FetchFails, TypeOK
  <2>2. output' \in [at : {"copy"}, run : Nat, got : Seq([time : Nat, frame : Frames]),
                     next : Nat, end : Nat]
    BY <1>7 DEF FetchFails, TypeOK
  <2> QED BY <1>7, <2>1, <2>2 DEF FetchFails, TypeOK
<1>8. CASE FetchCopiesFrame
  <2>1. /\ output \in [at : {"copy"}, run : Nat, got : Seq([time : Nat, frame : Frames]),
                       next : Nat, end : Nat]
        /\ mBuffer \in Buffers
    BY <1>3, <1>8, OutputCases DEF FetchCopiesFrame, Idle
  <2> DEFINE frame == mBuffer.frames[output.next % mCapacityFrames]
  <2>2. frame \in Frames
    BY <2>1, CapacityAssumption DEF Buffers
  <2>3. output' = [output EXCEPT !.next = output.next + 1,
                                 !.got = Append(output.got, [time |-> output.next, frame |-> frame])]
    BY <1>8 DEF FetchCopiesFrame
  <2> HIDE DEF frame
  <2> DEFINE got == Append(output.got, [time |-> output.next, frame |-> frame])
  <2>4. got \in Seq([time : Nat, frame : Frames])
    <3>1. [time |-> output.next, frame |-> frame] \in [time : Nat, frame : Frames]
      BY <2>1, <2>2
    <3> QED BY <2>1, <3>1
  <2>5. output' = [output EXCEPT !.next = output.next + 1, !.got = got]
    BY <2>3
  <2> HIDE DEF got
  <2>6. output' \in [at : {"copy"}, run : Nat, got : Seq([time : Nat, frame : Frames]),
                     next : Nat, end : Nat]
    <3> DEFINE Gots == Seq([time : Nat, frame : Frames])
    <3>1. /\ output \in [at : {"copy"}, run : Nat, got : Gots, next : Nat, end : Nat]
          /\ got \in Gots
      BY <2>1, <2>4
    <3> HIDE DEF Gots
    <3>2. output.next + 1 \in Nat
      BY <3>1
    <3>3. ASSUME NEW n \in Nat
          PROVE  [output EXCEPT !.next = n] \in [at : {"copy"}, run : Nat, got : Gots, next : Nat, end : Nat]
      BY <3>1
    <3>4. ASSUME NEW o \in [at : {"copy"}, run : Nat, got : Gots, next : Nat, end : Nat]
          PROVE  [o EXCEPT !.got = got] \in [at : {"copy"}, run : Nat, got : Gots, next : Nat, end : Nat]
      BY <3>1
    <3>5. output' = [[output EXCEPT !.next = output.next + 1] EXCEPT !.got = got]
      BY <2>5
    <3> QED BY <3>2, <3>3, <3>4, <3>5 DEF Gots
  <2> QED BY <1>1, <1>8, <2>6 DEF FetchCopiesFrame, TypeOK
<1>9. CASE FetchEnds
  BY <1>1, <1>9 DEF FetchEnds, TypeOK
<1> QED BY <1>4, <1>5, <1>6, <1>7, <1>8, <1>9 DEF Output

LEMMA LockSteps ==
    ASSUME TypeOK, TypeOK', Locks, BufferKept, [AudioNext]_audioVars
    PROVE  Locks' /\ BufferKept'
<1> USE DEF ring, locks, heads, Locks, BufferKept, TypeOK, Idle
<1> USE NoThreadAssumption DEF IOProcs
<1>1. CASE UNCHANGED audioVars
  BY <1>1 DEF audioVars
<1>2. CASE InputDeviceIOProc
  BY <1>2 DEF InputDeviceIOProc
<1>3. CASE StoreMakesRoom
  BY <1>3, StoreKeepsBuffer, BufferIsThere DEF StoreMakesRoom
<1>4. CASE StoreWritesFrame
  BY <1>4, StoreKeepsBuffer, BufferIsThere DEF StoreWritesFrame
<1>5. CASE StoreEnds
  BY <1>5, StoreKeepsBuffer, BufferIsThere DEF StoreEnds
<1>6. CASE OutputDeviceIOProc
  BY <1>6 DEF OutputDeviceIOProc
<1>7. CASE CheckReadHead \/ ClipTimeBounds \/ FetchFails
  BY <1>7 DEF CheckReadHead, ClipTimeBounds, FetchFails
<1>8. CASE FetchCopiesFrame
  BY <1>8 DEF FetchCopiesFrame
<1>9. CASE FetchEnds
  BY <1>9 DEF FetchEnds
<1>10. CASE Allocator
  BY <1>10 DEF Allocator, LockInputMutex, LockOutputMutex, ChangeBuffer
<1>11. CASE UNCHANGED <<ring, locks, heads, input, output, allocator, allocationsLeft>>
  BY <1>11
<1> QED BY <1>1, <1>2, <1>3, <1>4, <1>5, <1>6, <1>7, <1>8, <1>9, <1>10, <1>11
      DEF AudioNext, Input, Output

\* Every variable keeps its type; and the mutexes, which the IOProcs only try
\* to take, are held by who is in the middle of something.
LEMMA LocksInvariant == AudioSpec => [](TypeOK /\ Locks /\ BufferKept)
<1>1. AudioInit => TypeOK /\ Locks /\ BufferKept
  <2> SUFFICES ASSUME AudioInit PROVE TypeOK /\ Locks /\ BufferKept
    OBVIOUS
  <2>1. LoggerTypeOK
    BY LogCallsAssumption DEF AudioInit, LoggerInit, LoggerTypeOK, NoCall
  <2>2. TypeOK
    BY <2>1, EmptyBufferType, BoundsAssumption DEF AudioInit, TypeOK, NotStarted
  <2>3. Locks /\ BufferKept
    BY EmptyBufferType, BufferIsThere, NoThreadAssumption DEF AudioInit, Locks, BufferKept, IOProcs
  <2> QED BY <2>2, <2>3
<1>2. TypeOK /\ BufferKept /\ [AudioNext]_audioVars => TypeOK'
  <2> SUFFICES ASSUME TypeOK, BufferKept, [AudioNext]_audioVars PROVE TypeOK'
    OBVIOUS
  <2> USE DEF ring, locks, heads
  <2>1. ASSUME UNCHANGED loggerVars PROVE LoggerTypeOK'
    BY <2>1 DEF loggerVars, callVars, otherLoggerVars, TypeOK, LoggerTypeOK
  <2>2. CASE UNCHANGED audioVars
    BY <2>1, <2>2 DEF TypeOK, audioVars
  <2>3. CASE Allocator
    <3>1. UNCHANGED loggerVars
      BY <2>3 DEF Allocator, LockInputMutex, LockOutputMutex, ChangeBuffer
    <3>2. CASE LockInputMutex
      BY <2>1, <3>1, <3>2 DEF LockInputMutex, TypeOK
    <3>3. CASE LockOutputMutex
      BY <2>1, <3>1, <3>3 DEF LockOutputMutex, TypeOK
    <3>4. CASE ChangeBuffer
      BY <2>1, <3>1, <3>4, EmptyBufferType DEF ChangeBuffer, TypeOK
    <3> QED BY <2>3, <3>2, <3>3, <3>4 DEF Allocator
  <2>4. CASE Logger /\ UNCHANGED <<ring, locks, heads, input, output, allocator, allocationsLeft>>
    BY <2>4, LoggerTypes DEF TypeOK
  <2> QED BY <2>2, <2>3, <2>4, InputTypes, OutputTypes DEF AudioNext
<1> QED BY <1>1, <1>2, LockSteps, PTL DEF AudioSpec

\* Every variable of the IOProcs, the ring buffer and the logger keeps its type.
THEOREM TypeCorrect == AudioSpec => []TypeOK
  BY LocksInvariant, PTL

-----------------------------------------------------------------------------
(* The logger.                                                              *)

\* In the middle of a cycle the output IOProc calls the logger only once.
CheckQuiet == output.at = "check" => NotLogging("OutputDeviceIOProc")

\* The logger's variables change by its own steps and when an IOProc begins a
\* call; the input IOProc only has the one kind of message.
LoggerStep ==
    \/ UNCHANGED loggerVars
    \/ Logger
    \/ \E p \in IOProcs, m \in Messages :
         /\ NotLogging(p) /\ UNCHANGED otherLoggerVars
         /\ LogAsync(p, m) \/ LogIfRingBufferError(p)
         /\ p = "InputDeviceIOProc" => LogAsync(p, "RingBufferUnavailable")

LEMMA LoggerSteps ==
    ASSUME TypeOK, CheckQuiet, [AudioNext]_audioVars
    PROVE  LoggerStep
<1>1. {"InputDeviceIOProc", "OutputDeviceIOProc"} = IOProcs
        /\ {"NoSamplesReady", "RingBufferUnavailable"} = Messages
  BY DEF IOProcs, Messages
<1>2. CASE InputDeviceIOProc
  BY <1>1, <1>2 DEF InputDeviceIOProc, LoggerStep
<1>3. CASE OutputDeviceIOProc
  BY <1>1, <1>3 DEF OutputDeviceIOProc, LoggerStep
<1>4. CASE CheckReadHead
  <2>1. LogAsync("OutputDeviceIOProc", "NoSamplesReady") \/ UNCHANGED callVars
    BY <1>4 DEF CheckReadHead
  <2>2. UNCHANGED otherLoggerVars /\ NotLogging("OutputDeviceIOProc")
    BY <1>4 DEF CheckReadHead, CheckQuiet
  <2> QED BY <1>1, <2>1, <2>2 DEF LoggerStep, loggerVars
<1>5. CASE FetchFails
  BY <1>1, <1>5 DEF FetchFails, LoggerStep
<1>6. CASE UNCHANGED audioVars
  BY <1>6 DEF audioVars, LoggerStep
<1>7. CASE StoreMakesRoom \/ StoreWritesFrame \/ StoreEnds
  BY <1>7 DEF StoreMakesRoom, StoreWritesFrame, StoreEnds, LoggerStep
<1>8. CASE ClipTimeBounds \/ FetchCopiesFrame \/ FetchEnds
  BY <1>8 DEF ClipTimeBounds, FetchCopiesFrame, FetchEnds, LoggerStep
<1>9. CASE Allocator
  BY <1>9 DEF Allocator, LockInputMutex, LockOutputMutex, ChangeBuffer, LoggerStep
<1>10. CASE Logger
  BY <1>10 DEF LoggerStep
<1> QED BY <1>2, <1>3, <1>4, <1>5, <1>6, <1>7, <1>8, <1>9, <1>10 DEF AudioNext, Input, Output

LEMMA CheckQuietInvariant == AudioSpec => []CheckQuiet
<1>1. AudioInit => CheckQuiet
  BY DEF AudioInit, CheckQuiet, Idle
<1>2. TypeOK /\ TypeOK' /\ CheckQuiet /\ [AudioNext]_audioVars => CheckQuiet'
  <2> SUFFICES ASSUME TypeOK, TypeOK', CheckQuiet, [AudioNext]_audioVars PROVE CheckQuiet'
    OBVIOUS
  <2> USE DEF CheckQuiet, NotLogging
  <2>1. ASSUME NEW p \in IOProcs, SetShouldLogMessage(p) \/ WakeLoggingThread(p),
               NotLogging("OutputDeviceIOProc")
        PROVE  NotLogging("OutputDeviceIOProc")'
    <3>1. p # "OutputDeviceIOProc" /\ logCall \in [IOProcs -> [at : {"none", "wake"}]
                                                     \cup [at : {"store"}, message : Messages]]
      BY <2>1 DEF SetShouldLogMessage, WakeLoggingThread, NoCall, TypeOK, LoggerTypeOK
    <3>2. \E c : logCall' = [logCall EXCEPT ![p] = c]
      BY <2>1 DEF SetShouldLogMessage, WakeLoggingThread
    <3> QED BY <2>1, <3>1, <3>2 DEF IOProcs
  <2>2. CASE Logger /\ UNCHANGED <<ring, locks, heads, input, output, allocator, allocationsLeft>>
    <3>1. LoggingThread \/ SetShouldExit \/ SignalAndJoin => UNCHANGED logCall
      BY DEF LoggingThread, TestShouldExit, LookAtMessage, ResetMessage, WaitForWakeUp,
          SetShouldExit, SignalAndJoin, callersVars, callVars
    <3> QED BY <2>1, <2>2, <3>1 DEF Logger
  <2>3. CASE InputDeviceIOProc
    <3>1. \/ UNCHANGED logCall
          \/ LogAsync("InputDeviceIOProc", "RingBufferUnavailable")
      BY <2>3 DEF InputDeviceIOProc, loggerVars, callVars
    <3>2. logCall'["OutputDeviceIOProc"] = logCall["OutputDeviceIOProc"]
      BY <3>1 DEF LogAsync, Call, TypeOK, LoggerTypeOK, IOProcs
    <3> QED BY <2>3, <3>2 DEF InputDeviceIOProc
  <2>4. CASE StoreMakesRoom \/ StoreWritesFrame \/ StoreEnds \/ Allocator \/ UNCHANGED audioVars
    BY <2>4 DEF StoreMakesRoom, StoreWritesFrame, StoreEnds, Allocator, LockInputMutex,
        LockOutputMutex, ChangeBuffer, audioVars, loggerVars, callVars
  <2>5. CASE OutputDeviceIOProc
    BY <2>5 DEF OutputDeviceIOProc, Idle, loggerVars, callVars
  <2>6. CASE CheckReadHead \/ ClipTimeBounds \/ FetchFails \/ FetchEnds
    BY <2>6 DEF CheckReadHead, ClipTimeBounds, FetchFails, FetchEnds, Idle
  <2>7. CASE FetchCopiesFrame
    <3>1. output.at = "copy" /\ output'.at = "copy"
      <4>1. output.at = "copy" /\ output \in [at : {"copy"}, run : Nat, next : Nat, end : Nat,
                                             got : Seq([time : Nat, frame : Frames])]
        BY <2>7, OutputCases DEF FetchCopiesFrame
      <4> QED BY <2>7, <4>1 DEF FetchCopiesFrame
    <3> QED BY <3>1
  <2> QED BY <2>2, <2>3, <2>4, <2>5, <2>6, <2>7 DEF AudioNext, Input, Output
<1> QED BY <1>1, <1>2, LocksInvariant, PTL DEF AudioSpec

\* The logging thread is going to be woken.
WakeComing ==
    \/ mWakeUpLoggingThreadSemaphore > 0
    \/ destructor = "signal"
    \/ \E p \in IOProcs : logCall[p].at = "wake"

\* What is to be logged is still ahead of the logging thread, or it will be woken.
LooksAgain ==
    \A slot \in Slots : ToLog(slot) =>
      \/ WakeComing
      \/ logging.at \in {"test", "exited"}
      \/ logging.at \in {"look", "read"} /\ slot \in logging.left
      \/ logging.at = "read" /\ slot = logging.slot

\* The same of the request to exit.
ExitNoticed ==
    mLoggingThreadShouldExit =>
      \/ mWakeUpLoggingThreadSemaphore > 0
      \/ destructor = "signal"
      \/ logging.at \in {"test", "exited"}

LEMMA LooksAgainStep ==
    ASSUME LoggerTypeOK, LooksAgain, ExitNoticed, LoggerStep
    PROVE  LooksAgain' /\ ExitNoticed'
<1> USE DEF callVars, otherLoggerVars, callersVars
<1>1. CASE UNCHANGED loggerVars
  BY <1>1 DEF loggerVars, LooksAgain, ExitNoticed, WakeComing, ToLog
<1>2. ASSUME NEW p \in IOProcs, NEW m \in Messages, NotLogging(p), UNCHANGED otherLoggerVars,
             LogAsync(p, m) \/ LogIfRingBufferError(p)
      PROVE  LooksAgain' /\ ExitNoticed'
  <2>1. ExitNoticed'
    BY <1>2 DEF ExitNoticed
  <2>2. UNCHANGED logging
    BY <1>2
  <2>3. CASE LogIfRingBufferError(p)
    <3>1. WakeComing'
      BY <2>3 DEF LogIfRingBufferError, Call, WakeComing, LoggerTypeOK
    <3> QED BY <2>1, <3>1 DEF LooksAgain
  <2>4. CASE LogAsync(p, m)
    <3>1. \A slot \in Slots : ToLog(slot)' => ToLog(slot)
      BY <1>2, <2>4 DEF LogAsync, ToLog
    <3>2. WakeComing => WakeComing'
      BY <1>2, <2>4 DEF LogAsync, Call, WakeComing, NotLogging, NoCall, LoggerTypeOK
    <3> QED BY <2>1, <2>2, <3>1, <3>2 DEF LooksAgain
  <2> QED BY <1>2, <2>3, <2>4
<1>3. CASE TestShouldExit
  BY <1>3 DEF TestShouldExit, LooksAgain, ExitNoticed, WakeComing, ToLog
<1>4. CASE LookAtMessage
  <2> DEFINE found == CHOOSE s \in logging.left : TRUE
  <2>1. logging' = IF ToLog(found) THEN [at |-> "read", slot |-> found, left |-> logging.left \ {found}]
                   ELSE [at |-> "look", left |-> logging.left \ {found}]
    BY <1>4 DEF LookAtMessage
  <2> HIDE DEF found
  <2>2. /\ logging.at = "look"
        /\ UNCHANGED <<mWakeUpLoggingThreadSemaphore, destructor, logCall, mLoggingThreadShouldExit>>
        /\ \A slot \in Slots : ToLog(slot)' = ToLog(slot)
    BY <1>4 DEF LookAtMessage, ToLog
  <2> QED BY <2>1, <2>2 DEF LooksAgain, ExitNoticed, WakeComing
<1>5. CASE ResetMessage
  <2>1. /\ logging.at = "read" /\ logging' = [at |-> "look", left |-> logging.left]
        /\ UNCHANGED <<mWakeUpLoggingThreadSemaphore, destructor, logCall, mLoggingThreadShouldExit>>
    BY <1>5 DEF ResetMessage
  <2>2. \A slot \in Slots : ToLog(slot)' => ToLog(slot) /\ slot # logging.slot
    BY <1>5 DEF ResetMessage, ToLog, LoggerTypeOK, Slots
  <2> QED BY <2>1, <2>2 DEF LooksAgain, ExitNoticed, WakeComing
<1>6. CASE WaitForWakeUp
  BY <1>6 DEF WaitForWakeUp, LooksAgain, ExitNoticed
<1>7. CASE SetShouldExit
  BY <1>7 DEF SetShouldExit, LooksAgain, ExitNoticed, WakeComing, ToLog
<1>8. CASE SignalAndJoin
  BY <1>8 DEF SignalAndJoin, LooksAgain, ExitNoticed, WakeComing, ToLog, LoggerTypeOK
<1>9. ASSUME NEW p \in IOProcs, SetShouldLogMessage(p) PROVE LooksAgain' /\ ExitNoticed'
  BY <1>9 DEF SetShouldLogMessage, LooksAgain, ExitNoticed, WakeComing, LoggerTypeOK
<1>10. ASSUME NEW p \in IOProcs, WakeLoggingThread(p) PROVE LooksAgain' /\ ExitNoticed'
  BY <1>10 DEF WakeLoggingThread, LooksAgain, ExitNoticed, WakeComing, LoggerTypeOK
<1> QED BY <1>1, <1>2, <1>3, <1>4, <1>5, <1>6, <1>7, <1>8, <1>9, <1>10 DEF LoggerStep, Logger, LoggingThread

LEMMA LoggerInvariant == AudioSpec => [](LooksAgain /\ ExitNoticed)
<1>1. AudioInit => LooksAgain /\ ExitNoticed
  BY DEF AudioInit, LoggerInit, LooksAgain, ExitNoticed, ToLog
<1>2. TypeOK /\ CheckQuiet /\ LooksAgain /\ ExitNoticed /\ [AudioNext]_audioVars => (LooksAgain /\ ExitNoticed)'
  BY LoggerSteps, LooksAgainStep DEF TypeOK
<1> QED BY <1>1, <1>2, LocksInvariant, CheckQuietInvariant, PTL DEF AudioSpec

\* The logging thread never sleeps on a message, an error or the request to
\* exit: if one is there, somebody who has yet to signal the semaphore is on
\* the way, however the IOProcs' calls, the thread's round and the destructor
\* interleave.
THEOREM NothingStaysUnlogged == AudioSpec => []NothingLeftUnlogged
<1>1. TypeOK /\ LooksAgain /\ ExitNoticed => NothingLeftUnlogged
  <2> SUFFICES ASSUME TypeOK, LooksAgain, ExitNoticed, logging.at = "look", logging.left = {},
                      mWakeUpLoggingThreadSemaphore = 0,
                      \/ mRingBufferFetchError
                      \/ \E m \in Messages : shouldLogMessage[m]
                      \/ mLoggingThreadShouldExit
               PROVE  destructor = "signal" \/ \E p \in IOProcs : logCall[p].at = "wake"
    BY DEF NothingLeftUnlogged
  <2>1. CASE mLoggingThreadShouldExit
    BY <2>1 DEF ExitNoticed
  <2>2. CASE ~mLoggingThreadShouldExit
    <3>1. PICK slot \in Slots : ToLog(slot)
      <4>1. "RingBufferFetchError" \in Slots /\ "RingBufferFetchError" \notin Messages
              /\ Messages \subseteq Slots
        BY DEF Slots, Messages
      <4> QED BY <2>2, <4>1 DEF ToLog
    <3> QED BY <3>1 DEF LooksAgain, WakeComing
  <2> QED BY <2>1, <2>2
<1> QED BY <1>1, LocksInvariant, LoggerInvariant, PTL

\* An IOProc that stores a message of a kind of its own found the kind's flag
\* reset, and nobody else sets it; the logging thread reads only while it is set.
SlotOwned ==
    /\ \A p \in IOProcs : (logCall[p].at = "store" /\ logCall[p].message = "NoSamplesReady") =>
         p = "OutputDeviceIOProc" /\ ~shouldLogMessage["NoSamplesReady"]
    /\ (logging.at = "read" /\ logging.slot \in Messages) => shouldLogMessage[logging.slot]

LEMMA SlotStep ==
    ASSUME LoggerTypeOK, SlotOwned, LoggerStep
    PROVE  SlotOwned'
<1> USE DEF callVars, otherLoggerVars, callersVars
<1>1. CASE UNCHANGED loggerVars
  BY <1>1 DEF loggerVars, SlotOwned
<1>2. ASSUME NEW p \in IOProcs, NEW m \in Messages, NotLogging(p), UNCHANGED otherLoggerVars,
             LogAsync(p, m) \/ LogIfRingBufferError(p),
             p = "InputDeviceIOProc" => LogAsync(p, "RingBufferUnavailable")
      PROVE  SlotOwned'
  <2>1. CASE LogIfRingBufferError(p)
    BY <1>2, <2>1 DEF LogIfRingBufferError, Call, SlotOwned, LoggerTypeOK
  <2>2. ASSUME NEW n \in Messages, LogAsync(p, n), p = "InputDeviceIOProc" => n = "RingBufferUnavailable"
        PROVE  SlotOwned'
    <3>1. \/ UNCHANGED logCall
          \/ ~shouldLogMessage[n] /\ logCall' = [logCall EXCEPT ![p] = [at |-> "store", message |-> n]]
      BY <2>2 DEF LogAsync, Call
    <3>2. p \in {"InputDeviceIOProc", "OutputDeviceIOProc"}
      BY DEF IOProcs
    <3> QED BY <1>2, <2>2, <3>1, <3>2 DEF SlotOwned, LoggerTypeOK
  <2>3. "RingBufferUnavailable" \in Messages
    BY DEF Messages
  <2> QED BY <1>2, <2>1, <2>2, <2>3
<1>3. CASE TestShouldExit
  BY <1>3 DEF TestShouldExit, SlotOwned
<1>4. CASE LookAtMessage
  <2> DEFINE next == CHOOSE s \in logging.left : TRUE
  <2>1. logging' = IF ToLog(next) THEN [at |-> "read", slot |-> next, left |-> logging.left \ {next}]
                   ELSE [at |-> "look", left |-> logging.left \ {next}]
    BY <1>4 DEF LookAtMessage
  <2> HIDE DEF next
  <2> QED BY <1>4, <2>1 DEF LookAtMessage, SlotOwned, ToLog
<1>5. CASE ResetMessage
  BY <1>5 DEF ResetMessage, SlotOwned, LoggerTypeOK
<1>6. CASE WaitForWakeUp \/ SetShouldExit \/ SignalAndJoin
  BY <1>6 DEF WaitForWakeUp, SetShouldExit, SignalAndJoin, SlotOwned
<1>7. ASSUME NEW p \in IOProcs, SetShouldLogMessage(p) PROVE SlotOwned'
  <2>1. /\ logCall' = [logCall EXCEPT ![p] = [at |-> "wake"]]
        /\ shouldLogMessage' = [shouldLogMessage EXCEPT ![logCall[p].message] = TRUE]
        /\ UNCHANGED logging /\ logCall[p].at = "store" /\ logCall[p].message \in Messages
    BY <1>7 DEF SetShouldLogMessage, LoggerTypeOK
  <2>2. ASSUME NEW r \in IOProcs, logCall'[r].at = "store", logCall'[r].message = "NoSamplesReady"
        PROVE  r = "OutputDeviceIOProc" /\ ~shouldLogMessage'["NoSamplesReady"]
    <3>1. r # p /\ logCall'[r] = logCall[r]
      BY <2>1, <2>2 DEF LoggerTypeOK
    <3>2. r = "OutputDeviceIOProc" /\ ~shouldLogMessage["NoSamplesReady"]
      BY <2>2, <3>1 DEF SlotOwned
    <3>3. logCall[p].message # "NoSamplesReady"
      BY <2>1, <3>1, <3>2 DEF SlotOwned
    <3> QED BY <2>1, <3>2, <3>3 DEF LoggerTypeOK, Messages
  <2>3. (logging'.at = "read" /\ logging'.slot \in Messages) => shouldLogMessage'[logging'.slot]
    BY <2>1 DEF SlotOwned, LoggerTypeOK
  <2> QED BY <2>2, <2>3 DEF SlotOwned
<1>8. ASSUME NEW p \in IOProcs, WakeLoggingThread(p) PROVE SlotOwned'
  BY <1>8 DEF WakeLoggingThread, SlotOwned, NoCall, LoggerTypeOK
<1> QED BY <1>1, <1>2, <1>3, <1>4, <1>5, <1>6, <1>7, <1>8 DEF LoggerStep, Logger, LoggingThread

\* A message that the logging thread is reading is not written at the same
\* time, although neither thread waits for the other.
THEOREM MessagesStayIntact == AudioSpec => []MessagesIntact
<1>1. AudioInit => SlotOwned
  BY DEF AudioInit, LoggerInit, SlotOwned, NoCall
<1>2. TypeOK /\ CheckQuiet /\ SlotOwned /\ [AudioNext]_audioVars => SlotOwned'
  BY LoggerSteps, SlotStep DEF TypeOK
<1>3. SlotOwned => MessagesIntact
  BY DEF SlotOwned, MessagesIntact, Messages
<1> QED BY <1>1, <1>2, <1>3, LocksInvariant, CheckQuietInvariant, PTL DEF AudioSpec
-----------------------------------------------------------------------------
(* The ring buffer.                                                        *)

\* The frames before a time that are within the bounds are those stored last.
Held(end) == \A t \in mBuffer.start .. end - 1 : mBuffer.frames[t % mCapacityFrames] = stored[t]

\* Where the last input ended.
InputEnd == IF mLastInputSampleTime = -1 THEN 0 ELSE mLastInputSampleTime + IOFrames

BoundsHeld == mBuffer # NoBuffer => Held(mBuffer.end) /\ mBuffer.end <= MaxTime + 1

InputAtRest == input = Idle /\ mBuffer # NoBuffer => mBuffer.end <= InputEnd

\* Times go on where the buffer ends, or they start over in a new run.
MakingRoom ==
    input.at = "makeRoom" =>
        /\ input.start + IOFrames <= MaxTime + 1
        /\ input.run >= run
        /\ input.run = run => input.start >= mBuffer.end

\* What is being overwritten is out of the bounds: already before their start,
\* or not yet before their end.
Writing ==
    input.at = "write" =>
        /\ mBuffer.end <= input.next
        /\ input.next <= input.start + IOFrames
        /\ input.start + IOFrames <= MaxTime + 1
        /\ mBuffer.start >= input.start + IOFrames - mCapacityFrames
        /\ Held(input.next)

\* Within a run both bounds only grow, so that what was read is what is stored,
\* or is before the bounds now.
Copying ==
    output.at = "copy" =>
        /\ output.run <= run
        /\ output.run = run =>
             /\ output.next >= output.end \/ output.end <= mBuffer.end
             /\ \A i \in DOMAIN output.got :
                  LET got == output.got[i]
                  IN  /\ got.time < mBuffer.end
                      /\ got.frame = stored[got.time] \/ got.time < mBuffer.start

RingRight == BoundsHeld /\ InputAtRest /\ MakingRoom /\ Writing /\ Copying

\* What the steps of the input IOProc have in common.
LEMMA Storing ==
    ASSUME TypeOK, BufferKept, input # Idle
    PROVE  /\ mBuffer \in Buffers /\ mBuffer # NoBuffer
           /\ mBuffer.start \in Nat /\ mBuffer.end \in Nat
           /\ mCapacityFrames \in Nat \ {0} /\ IOFrames \in Nat \ {0} /\ IOFrames <= mCapacityFrames
           /\ run \in Nat /\ MaxTime \in Nat
<1>1. mBuffer \in Buffers
  BY DEF TypeOK, BufferKept
<1>2. mCapacityFrames \in Nat \ {0} /\ IOFrames \in Nat \ {0} /\ IOFrames <= mCapacityFrames
  BY CapacityAssumption
<1> QED BY <1>1, <1>2, BufferIsThere, BoundsAssumption DEF Buffers, TypeOK

\* Making room only takes frames out of the bounds, and moves the end back only
\* for a new run.
LEMMA RoomMade ==
    ASSUME TypeOK, BufferKept, MakingRoom, StoreMakesRoom
    PROVE  /\ mBuffer' \in Buffers
           /\ mBuffer'.frames = mBuffer.frames
           /\ mBuffer'.end <= input.start
           /\ mBuffer'.start >= input.start + IOFrames - mCapacityFrames
           /\ input' = [at |-> "write", start |-> input.start, next |-> mBuffer'.end]
           /\ mBuffer'.start >= mBuffer.start \/ mBuffer'.start = mBuffer'.end
           /\ mBuffer'.end <= mBuffer.end \/ mBuffer'.start = mBuffer'.end
           /\ input.run = run => mBuffer'.start >= mBuffer.start /\ mBuffer'.end >= mBuffer.end
<1> DEFINE newStart == input.start + IOFrames - mCapacityFrames
<1>1. input # Idle /\ input.at = "makeRoom"
  BY DEF StoreMakesRoom, Idle
<1>2. input.start \in Nat /\ input.run \in Nat
  BY <1>1, InputCases
<1>3. /\ newStart \in Int /\ newStart <= input.start
      /\ mBuffer \in Buffers /\ mBuffer.start \in Nat /\ mBuffer.end \in Nat
  BY <1>1, <1>2, Storing
<1>4. /\ mBuffer' = IF input.start < mBuffer.end
                    THEN [mBuffer EXCEPT !.start = input.start, !.end = input.start]
                    ELSE IF newStart <= mBuffer.start
                    THEN mBuffer
                    ELSE [mBuffer EXCEPT !.start = newStart, !.end = Max({newStart, mBuffer.end})]
      /\ input' = [at |-> "write", start |-> input.start, next |-> Min({input.start, mBuffer'.end})]
  BY DEF StoreMakesRoom
<1>5. newStart = input.start + IOFrames - mCapacityFrames
  OBVIOUS
<1> HIDE DEF newStart
<1>6. mBuffer' \in Buffers
  BY <1>1, StoreKeepsBuffer
<1>7. ASSUME NEW a, NEW b
      PROVE  LET c == [mBuffer EXCEPT !.start = a, !.end = b]
             IN  c.frames = mBuffer.frames /\ c.start = a /\ c.end = b
  BY <1>3 DEF Buffers
<1>8. ASSUME mBuffer'.end <= input.start PROVE Min({input.start, mBuffer'.end}) = mBuffer'.end
  <2>1. mBuffer'.end \in Nat
    BY <1>6 DEF Buffers
  <2> QED BY <1>2, <1>8, <2>1, MinOfTwo
<1>9. CASE input.start < mBuffer.end
  <2>1. mBuffer'.frames = mBuffer.frames /\ mBuffer'.start = input.start /\ mBuffer'.end = input.start
    BY <1>4, <1>7, <1>9
  <2> QED BY <1>1, <1>2, <1>3, <1>4, <1>5, <1>6, <1>8, <1>9, <2>1 DEF MakingRoom
<1>10. CASE input.start >= mBuffer.end /\ newStart <= mBuffer.start
  <2>1. mBuffer' = mBuffer
    BY <1>2, <1>3, <1>4, <1>10
  <2> QED BY <1>1, <1>2, <1>3, <1>4, <1>5, <1>6, <1>8, <1>10, <2>1
<1>11. CASE input.start >= mBuffer.end /\ newStart > mBuffer.start
  <2>1. /\ mBuffer'.frames = mBuffer.frames /\ mBuffer'.start = newStart
        /\ mBuffer'.end = Max({newStart, mBuffer.end})
    BY <1>2, <1>3, <1>4, <1>7, <1>11
  <2>2. mBuffer'.end = IF newStart >= mBuffer.end THEN newStart ELSE mBuffer.end
    BY <1>3, <2>1, MaxOfTwo
  <2>3. mBuffer'.end <= input.start
    BY <1>2, <1>3, <1>11, <2>2
  <2>4. input' = [at |-> "write", start |-> input.start, next |-> mBuffer'.end]
    BY <1>4, <1>8, <2>3
  <2>5. /\ mBuffer'.start >= mBuffer.start /\ mBuffer'.end >= mBuffer.end
        /\ mBuffer'.end <= mBuffer.end \/ mBuffer'.start = mBuffer'.end
    BY <1>3, <1>11, <2>1, <2>2
  <2>6. mBuffer'.start >= input.start + IOFrames - mCapacityFrames
    BY <1>3, <1>5, <2>1
  <2> QED BY <1>6, <2>1, <2>3, <2>4, <2>5, <2>6
<1> QED BY <1>2, <1>3, <1>9, <1>10, <1>11

LEMMA MakingRoomKeepsRing ==
    ASSUME TypeOK, BufferKept, RingRight, StoreMakesRoom
    PROVE  RingRight'
<1>1. /\ input # Idle /\ input.at = "makeRoom" /\ run' = input.run /\ stored' = stored
      /\ output' = output
  BY DEF StoreMakesRoom, Idle
<1>2. /\ input.start \in Nat /\ input.run \in Nat
      /\ input.start + IOFrames <= MaxTime + 1 /\ input.run >= run
  BY <1>1, InputCases DEF RingRight, MakingRoom
<1>3. /\ mBuffer.start \in Nat /\ mBuffer.end \in Nat /\ mBuffer # NoBuffer
      /\ mCapacityFrames \in Nat \ {0} /\ IOFrames \in Nat \ {0}
      /\ run \in Nat /\ MaxTime \in Nat
  BY <1>1, Storing
<1>4. /\ mBuffer' \in Buffers
      /\ mBuffer'.frames = mBuffer.frames
      /\ mBuffer'.end <= input.start
      /\ mBuffer'.start >= input.start + IOFrames - mCapacityFrames
      /\ input' = [at |-> "write", start |-> input.start, next |-> mBuffer'.end]
      /\ mBuffer'.start >= mBuffer.start \/ mBuffer'.start = mBuffer'.end
      /\ mBuffer'.end <= mBuffer.end \/ mBuffer'.start = mBuffer'.end
      /\ input.run = run => mBuffer'.start >= mBuffer.start /\ mBuffer'.end >= mBuffer.end
  BY RoomMade DEF RingRight
<1>5. mBuffer'.start \in Nat /\ mBuffer'.end \in Nat
  BY <1>4 DEF Buffers
<1>6. \A t \in mBuffer'.start .. mBuffer'.end - 1 : mBuffer'.frames[t % mCapacityFrames] = stored'[t]
  <2> SUFFICES ASSUME NEW t \in mBuffer'.start .. mBuffer'.end - 1
               PROVE  mBuffer.frames[t % mCapacityFrames] = stored[t]
    BY <1>1, <1>4
  <2>1. t \in mBuffer.start .. mBuffer.end - 1
    BY <1>3, <1>4, <1>5
  <2> QED BY <1>3, <2>1 DEF RingRight, BoundsHeld, Held
<1>7. BoundsHeld'
  BY <1>2, <1>3, <1>4, <1>5, <1>6 DEF BoundsHeld, Held
<1>8. InputAtRest' /\ MakingRoom'
  BY <1>4 DEF InputAtRest, MakingRoom, Idle
<1>9. Writing'
  BY <1>2, <1>3, <1>4, <1>5, <1>6 DEF Writing, Held
<1>10. Copying'
  <2> SUFFICES ASSUME output.at = "copy" PROVE Copying'
    BY <1>1 DEF Copying
  <2>1. output \in [at : {"copy"}, run : Nat, got : Seq([time : Nat, frame : Frames]),
                    next : Nat, end : Nat]
    BY OutputCases
  <2>2. output.run <= run
    BY DEF RingRight, Copying
  <2>3. CASE input.run = run
    <3>1. output.run = run => \A i \in DOMAIN output.got :
            LET got == output.got[i]
            IN  got.time < mBuffer'.end /\ (got.frame = stored[got.time] \/ got.time < mBuffer'.start)
      <4> SUFFICES ASSUME output.run = run, NEW i \in DOMAIN output.got
                   PROVE  LET got == output.got[i]
                          IN  /\ got.time < mBuffer'.end
                              /\ got.frame = stored[got.time] \/ got.time < mBuffer'.start
        OBVIOUS
      <4>1. output.got[i].time \in Nat
        BY GotTypes
      <4>2. /\ output.got[i].time < mBuffer.end
            /\ output.got[i].frame = stored[output.got[i].time] \/ output.got[i].time < mBuffer.start
        BY DEF RingRight, Copying
      <4> QED BY <1>3, <1>4, <1>5, <2>3, <4>1, <4>2
    <3>2. output.run = run => output.next >= output.end \/ output.end <= mBuffer'.end
      BY <1>3, <1>4, <1>5, <2>1, <2>3 DEF RingRight, Copying
    <3> QED BY <1>1, <2>2, <2>3, <3>1, <3>2 DEF Copying
  <2>4. CASE input.run # run
    BY <1>1, <1>2, <1>3, <2>1, <2>2, <2>4 DEF Copying
  <2> QED BY <2>3, <2>4
<1> QED BY <1>7, <1>8, <1>9, <1>10 DEF RingRight

\* The frame that is written is one that nobody may read: its place is that of
\* no time within the bounds.
LEMMA WritingKeepsRing ==
    ASSUME TypeOK, BufferKept, RingRight, StoreWritesFrame
    PROVE  RingRight'
<1> DEFINE c == mCapacityFrames
           last == input.start + IOFrames
           frame == IF input.next < input.start THEN Silence ELSE <<run, input.next>>
<1>1. /\ input # Idle /\ input.at = "write" /\ run' = run /\ output' = output
      /\ input.next < last
  BY DEF StoreWritesFrame, Idle
<1>2. input \in [at : {"write"}, start : Nat, next : Nat]
  BY <1>1, InputCases
<1>3. /\ mBuffer \in Buffers /\ mBuffer # NoBuffer
      /\ mBuffer.start \in Nat /\ mBuffer.end \in Nat
      /\ c \in Nat \ {0} /\ IOFrames \in Nat \ {0} /\ IOFrames <= c
      /\ run \in Nat /\ MaxTime \in Nat
  BY <1>1, Storing
<1>4. /\ mBuffer.end <= input.next
      /\ last <= MaxTime + 1
      /\ mBuffer.start >= last - c
      /\ Held(input.next)
  <2>1. Writing
    BY DEF RingRight
  <2>2. /\ mBuffer.end <= input.next
        /\ input.start + IOFrames <= MaxTime + 1
        /\ mBuffer.start >= input.start + IOFrames - mCapacityFrames
    BY <1>1, <2>1 DEF Writing
  <2>3. Held(input.next)
    BY <1>1, <2>1 DEF Writing
  <2>4. last <= MaxTime + 1 /\ mBuffer.start >= last - c
    BY <1>2, <1>3, <2>2
  <2> QED BY <2>2, <2>3, <2>4
<1>5. last \in Nat /\ last = input.start + IOFrames
  BY <1>2, <1>3
<1>6. /\ mBuffer' = [mBuffer EXCEPT !.frames = [mBuffer.frames EXCEPT ![input.next % c] = frame]]
      /\ stored' = [stored EXCEPT ![input.next] = frame]
      /\ input' = [input EXCEPT !.next = input.next + 1]
  BY DEF StoreWritesFrame
<1> HIDE DEF last, frame
<1>7. /\ mBuffer'.start = mBuffer.start /\ mBuffer'.end = mBuffer.end
      /\ mBuffer'.frames = [mBuffer.frames EXCEPT ![input.next % c] = frame]
      /\ mBuffer.frames \in [0 .. c - 1 -> Frames]
      /\ stored \in [0 .. MaxTime -> Frames]
  BY <1>3, <1>6 DEF Buffers, TypeOK
<1>8. input' = [at |-> "write", start |-> input.start, next |-> input.next + 1]
  BY <1>2, <1>6
<1>9. input.next \in Nat /\ input.next \in 0 .. MaxTime /\ input.next % c \in 0 .. c - 1
  BY <1>1, <1>2, <1>3, <1>4, <1>5
<1> HIDE DEF c
<1>10. \A t \in mBuffer.start .. input.next : mBuffer'.frames[t % c] = stored'[t]
  <2> SUFFICES ASSUME NEW t \in mBuffer.start .. input.next
               PROVE  mBuffer'.frames[t % c] = stored'[t]
    OBVIOUS
  <2>1. t \in Nat /\ t % c \in 0 .. c - 1 /\ t \in 0 .. MaxTime
    BY <1>3, <1>9
  <2>2. CASE t = input.next
    <3>1. mBuffer'.frames[input.next % c] = frame
      BY <1>7, <1>9
    <3>2. stored'[input.next] = frame
      BY <1>6, <1>7, <1>9
    <3> QED BY <2>2, <3>1, <3>2
  <2>3. CASE t # input.next
    <3>1. t < input.next /\ input.next < t + c
      BY <1>1, <1>3, <1>4, <1>5, <1>9, <2>1, <2>3
    <3>2. t % c # input.next % c
      BY <1>3, <1>9, <2>1, <3>1, PlacesDiffer
    <3>3. mBuffer.frames[t % c] = stored[t]
      BY <1>3, <1>4, <1>9, <2>1, <3>1 DEF Held, c
    <3> QED BY <1>6, <1>7, <1>9, <2>1, <2>3, <3>2, <3>3
  <2> QED BY <2>2, <2>3
<1>11. BoundsHeld'
  <2>1. \A t \in mBuffer.start .. mBuffer.end - 1 : t \in mBuffer.start .. input.next
    BY <1>3, <1>4, <1>9
  <2>2. mBuffer.end <= MaxTime + 1
    BY <1>3 DEF RingRight, BoundsHeld
  <2> QED BY <1>7, <1>10, <2>1, <2>2 DEF BoundsHeld, Held, c
<1>12. InputAtRest' /\ MakingRoom'
  BY <1>8 DEF InputAtRest, MakingRoom, Idle
<1>13. Writing'
  <2>1. input'.next = input.next + 1 /\ input'.start = input.start
    BY <1>8
  <2>2. \A t \in mBuffer.start .. (input.next + 1) - 1 : t \in mBuffer.start .. input.next
    BY <1>3, <1>9
  <2>3. mBuffer.end <= input.next + 1 /\ input.next + 1 <= last
    BY <1>1, <1>3, <1>4, <1>5, <1>9
  <2>4. Held(input.next)'
    BY <1>7, <1>10, <2>1, <2>2 DEF Held, c
  <2>5. mBuffer'.start >= input'.start + IOFrames - mCapacityFrames
    BY <1>2, <1>3, <1>4, <1>5, <1>7, <2>1 DEF c
  <2> QED BY <1>4, <1>5, <1>7, <2>1, <2>3, <2>4, <2>5 DEF Writing
<1>14. Copying'
  <2> SUFFICES ASSUME output.at = "copy", output.run = run, NEW i \in DOMAIN output.got
               PROVE  LET got == output.got[i]
                      IN  /\ got.time < mBuffer.end
                          /\ got.frame = stored'[got.time] \/ got.time < mBuffer.start
    BY <1>1, <1>7 DEF RingRight, Copying
  <2>1. /\ output.got[i].time < mBuffer.end
        /\ output.got[i].frame = stored[output.got[i].time] \/ output.got[i].time < mBuffer.start
    BY DEF RingRight, Copying
  <2>2. output.got[i].time \in Nat
    BY GotTypes
  <2>3. output.got[i].time # input.next
    BY <1>3, <1>4, <1>9, <2>1, <2>2
  <2>4. stored'[output.got[i].time] = stored[output.got[i].time]
    <3>1. output.got[i].time \in 0 .. MaxTime
      BY <1>3, <1>4, <1>9, <2>1, <2>2
    <3> QED BY <1>6, <1>7, <2>3, <3>1
  <2> QED BY <2>1, <2>4
<1> QED BY <1>11, <1>12, <1>13, <1>14 DEF RingRight

\* The new frames are within the bounds when all of them are there.
LEMMA EndKeepsRing ==
    ASSUME TypeOK, BufferKept, RingRight, StoreEnds
    PROVE  RingRight'
<1> DEFINE last == input.start + IOFrames
<1>1. /\ input # Idle /\ input.at = "write" /\ input.next = last
      /\ run' = run /\ output' = output /\ stored' = stored
      /\ input' = Idle /\ mLastInputSampleTime' = input.start
  BY DEF StoreEnds, Idle
<1>2. input.start \in Nat
  BY <1>1, InputCases
<1>3. /\ mBuffer \in Buffers /\ mBuffer # NoBuffer
      /\ mBuffer.start \in Nat /\ mBuffer.end \in Nat
      /\ mCapacityFrames \in Nat \ {0} /\ IOFrames \in Nat \ {0}
      /\ MaxTime \in Nat
  BY <1>1, Storing
<1>4. last \in Nat /\ mBuffer.end <= last /\ last <= MaxTime + 1 /\ Held(last)
  BY <1>1, <1>2, <1>3 DEF RingRight, Writing
<1>5. mBuffer' = [mBuffer EXCEPT !.end = last]
  BY DEF StoreEnds
<1>6. InputEnd' = last
  BY <1>1, <1>2 DEF InputEnd
<1> HIDE DEF last
<1>7. mBuffer'.start = mBuffer.start /\ mBuffer'.end = last /\ mBuffer'.frames = mBuffer.frames
  BY <1>3, <1>5 DEF Buffers
<1>8. BoundsHeld'
  BY <1>1, <1>4, <1>7 DEF BoundsHeld, Held
<1>9. InputAtRest'
  BY <1>4, <1>6, <1>7 DEF InputAtRest
<1>10. MakingRoom' /\ Writing'
  BY <1>1 DEF MakingRoom, Writing, Idle
<1>11. Copying'
  <2> SUFFICES ASSUME output.at = "copy", output.run = run PROVE Copying'
    BY <1>1 DEF RingRight, Copying
  <2>1. output.next >= output.end \/ output.end <= last
    <3>1. output.end \in Nat
      BY OutputCases
    <3> QED BY <1>3, <1>4, <3>1 DEF RingRight, Copying
  <2>2. ASSUME NEW i \in DOMAIN output.got PROVE output.got[i].time < last
    BY <1>3, <1>4, GotTypes DEF RingRight, Copying
  <2> QED BY <1>1, <1>7, <2>1, <2>2 DEF RingRight, Copying
<1> QED BY <1>8, <1>9, <1>10, <1>11 DEF RingRight

\* The next input begins where the buffer ends, or a new run does.
LEMMA BeginKeepsRing ==
    ASSUME TypeOK, RingRight, InputDeviceIOProc, mBufferInputMutex = NoThread, mBuffer # NoBuffer
    PROVE  RingRight'
<1>1. PICK t \in InputTimes :
        /\ t.start + IOFrames <= MaxTime + 1
        /\ input' = [at |-> "makeRoom", start |-> t.start, run |-> t.run]
  BY DEF InputDeviceIOProc
<1>2. /\ input = Idle
      /\ UNCHANGED <<mBuffer, stored, run, mLastInputSampleTime, output>>
  BY DEF InputDeviceIOProc, ring, heads
<1>3. /\ mBuffer.end \in Nat /\ IOFrames \in Nat /\ run \in Nat
      /\ mLastInputSampleTime \in Nat \cup {-1}
  BY CapacityAssumption DEF TypeOK, Buffers
<1>4. mBuffer.end <= InputEnd
  BY <1>2 DEF RingRight, InputAtRest
<1>5. t.run >= run /\ (t.run = run => t.start >= mBuffer.end)
  <2>1. CASE mLastInputSampleTime = -1
    BY <1>3, <1>4, <2>1 DEF InputTimes, InputEnd
  <2>2. CASE mLastInputSampleTime # -1
    <3>1. CASE t \in {[start |-> mLastInputSampleTime + IOFrames + late, run |-> run] : late \in 0 .. 1}
      BY <1>3, <1>4, <2>2, <3>1 DEF InputEnd
    <3>2. CASE t \in {[start |-> 0, run |-> r] : r \in (run + 1) .. Min({run + 1, MaxRestarts})}
      <4>1. t.run \in Int /\ t.run >= run + 1
        BY <1>3, <3>2
      <4> QED BY <1>3, <4>1
    <3> QED BY <2>2, <3>1, <3>2 DEF InputTimes
  <2> QED BY <2>1, <2>2
<1>6. MakingRoom'
  BY <1>1, <1>2, <1>5 DEF MakingRoom
<1> QED BY <1>1, <1>2, <1>6 DEF RingRight, BoundsHeld, InputAtRest, Writing, Copying, Held, InputEnd, Idle

\* What is fetched is before the end, unless nothing is.
LEMMA FetchKeepsRing ==
    ASSUME TypeOK, Locks, BufferKept, RingRight, Output
    PROVE  RingRight'
<1>1. /\ UNCHANGED <<mBuffer, stored, run, mLastInputSampleTime, input>>
      /\ run \in Nat
  BY DEF Output, OutputDeviceIOProc, CheckReadHead, ClipTimeBounds, FetchFails, FetchCopiesFrame,
         FetchEnds, ring, heads, TypeOK
<1>2. BoundsHeld' /\ InputAtRest' /\ MakingRoom' /\ Writing'
  BY <1>1 DEF RingRight, BoundsHeld, InputAtRest, MakingRoom, Writing, Held, InputEnd
<1> SUFFICES Copying'
  BY <1>2 DEF RingRight
<1>3. ASSUME output # Idle
      PROVE  mBuffer \in Buffers /\ mBuffer.start \in Nat /\ mBuffer.end \in Nat
  BY <1>3 DEF BufferKept, TypeOK, Buffers
<1>4. CASE OutputDeviceIOProc
  BY <1>1, <1>4 DEF OutputDeviceIOProc, RingRight, Copying, Idle
<1>5. CASE CheckReadHead
  BY <1>5 DEF CheckReadHead, Copying
<1>6. CASE ClipTimeBounds
  <2> DEFINE from == Max({0, readHead})
  <2>1. output # Idle /\ readHead \in Int /\ IOFrames \in Nat
    BY <1>6, CapacityAssumption DEF ClipTimeBounds, Idle, TypeOK
  <2>2. from \in Nat
    BY <2>1, MaxOfTwo
  <2>3. output' = [at |-> "copy", run |-> run, got |-> << >>,
                   next |-> Max({from, mBuffer.start}),
                   end |-> IF from > mBuffer.end THEN from ELSE Min({from + IOFrames, mBuffer.end})]
    BY <1>6 DEF ClipTimeBounds
  <2> HIDE DEF from
  <2>4. from + IOFrames \in Nat
    BY <2>1, <2>2
  <2>5. CASE from > mBuffer.end
    <3>1. Max({from, mBuffer.start}) >= from
      BY <1>3, <2>1, <2>2, MaxOfTwo
    <3> QED BY <1>1, <2>3, <2>5, <3>1 DEF Copying
  <2>6. CASE ~(from > mBuffer.end)
    <3>1. Min({from + IOFrames, mBuffer.end}) <= mBuffer.end
      BY <1>3, <2>1, <2>4, MinOfTwo
    <3> QED BY <1>1, <2>3, <2>6, <3>1 DEF Copying
  <2> QED BY <2>5, <2>6
<1>7. CASE FetchFails
  BY <1>1, <1>7 DEF FetchFails, Copying
<1>8. CASE FetchCopiesFrame
  <2> DEFINE Gots == Seq([time : Nat, frame : Frames])
             frame == mBuffer.frames[output.next % mCapacityFrames]
             last == [time |-> output.next, frame |-> frame]
  <2>1. output.at = "copy" /\ output.next < output.end /\ output # Idle
    BY <1>8 DEF FetchCopiesFrame, Idle
  <2>2. output \in [at : {"copy"}, run : Nat, got : Gots, next : Nat, end : Nat]
    BY <2>1, OutputCases
  <2>3. output' = [[output EXCEPT !.next = output.next + 1] EXCEPT !.got = Append(output.got, last)]
    BY <1>8 DEF FetchCopiesFrame
  <2>4. last.time = output.next /\ last.frame = frame
    OBVIOUS
  <2>5. ASSUME NEW S, NEW s \in Seq(S), NEW x, NEW i \in DOMAIN Append(s, x)
        PROVE  (i \in DOMAIN s /\ Append(s, x)[i] = s[i]) \/ Append(s, x)[i] = x
    BY <2>5
  <2>6. output.got \in Gots /\ output.run \in Nat /\ output.end \in Nat /\ output.next \in Nat
    BY <2>2
  <2> HIDE DEF last, Gots
  <2>7. /\ output'.at = "copy" /\ output'.run = output.run /\ output'.end = output.end
        /\ output'.next = output.next + 1 /\ output'.got = Append(output.got, last)
    BY <2>2, <2>3
  <2> SUFFICES ASSUME output.run = run
               PROVE  /\ output'.next >= output'.end \/ output'.end <= mBuffer.end
                      /\ \A i \in DOMAIN output'.got :
                           LET got == output'.got[i]
                           IN  /\ got.time < mBuffer.end
                               /\ got.frame = stored[got.time] \/ got.time < mBuffer.start
    BY <1>1, <2>1, <2>7 DEF RingRight, Copying
  <2>8. output.end <= mBuffer.end
    BY <2>1, <2>6 DEF RingRight, Copying
  <2>9. output.next < mBuffer.end
    BY <1>3, <2>1, <2>6, <2>8
  <2>10. frame = stored[output.next] \/ output.next < mBuffer.start
    <3> SUFFICES ASSUME output.next >= mBuffer.start PROVE frame = stored[output.next]
      BY <1>3, <2>1, <2>6
    <3>1. output.next \in mBuffer.start .. mBuffer.end - 1
      BY <1>3, <2>1, <2>6, <2>9
    <3> QED BY <2>1, <3>1 DEF RingRight, BoundsHeld, Held, BufferKept
  <2> HIDE DEF frame
  <2>11. ASSUME NEW i \in DOMAIN output'.got
         PROVE  LET got == output'.got[i]
                IN  /\ got.time < mBuffer.end
                    /\ got.frame = stored[got.time] \/ got.time < mBuffer.start
    <3>1. (i \in DOMAIN output.got /\ output'.got[i] = output.got[i]) \/ output'.got[i] = last
      <4>1. i \in DOMAIN Append(output.got, last) /\ output.got \in Seq([time : Nat, frame : Frames])
        BY <2>6, <2>7 DEF Gots
      <4> QED BY <2>5, <2>7, <4>1
    <3> QED BY <2>1, <2>4, <2>9, <2>10, <3>1 DEF RingRight, Copying
  <2> QED BY <2>7, <2>8, <2>11
<1>9. CASE FetchEnds
  BY <1>9 DEF FetchEnds, Copying, Idle
<1> QED BY <1>4, <1>5, <1>6, <1>7, <1>8, <1>9 DEF Output

LEMMA RingSteps ==
    ASSUME TypeOK, Locks, BufferKept, RingRight, [AudioNext]_audioVars
    PROVE  RingRight'
<1>1. ASSUME UNCHANGED <<mBuffer, stored, run, mLastInputSampleTime, input, output>> PROVE RingRight'
  BY <1>1 DEF RingRight, BoundsHeld, InputAtRest, MakingRoom, Writing, Copying, Held, InputEnd
<1>2. CASE InputDeviceIOProc
  <2>1. CASE ~(mBufferInputMutex = NoThread /\ mBuffer # NoBuffer)
    BY <1>1, <1>2, <2>1 DEF InputDeviceIOProc, ring, heads
  <2> QED BY <1>2, <2>1, BeginKeepsRing
<1>3. CASE ChangeBuffer
  <2>1. /\ input = Idle /\ output = Idle
        /\ UNCHANGED <<run, mLastInputSampleTime, input, output>>
        /\ mBuffer' \in {NoBuffer, EmptyBuffer}
    BY <1>3, NoThreadAssumption DEF ChangeBuffer, Locks, heads, IOProcs
  <2>2. IOFrames \in Nat /\ MaxTime \in Nat /\ mLastInputSampleTime \in Nat \cup {-1}
    BY CapacityAssumption, BoundsAssumption DEF TypeOK
  <2>3. mBuffer' # NoBuffer => mBuffer'.start = 0 /\ mBuffer'.end = 0
    BY <2>1 DEF EmptyBuffer
  <2> QED BY <2>1, <2>2, <2>3
          DEF RingRight, BoundsHeld, InputAtRest, MakingRoom, Writing, Copying, Held, InputEnd, Idle
<1>4. CASE LockInputMutex \/ LockOutputMutex
  BY <1>1, <1>4 DEF LockInputMutex, LockOutputMutex, ring, heads
<1>5. CASE UNCHANGED audioVars
  BY <1>1, <1>5 DEF audioVars, ring, heads
<1>6. CASE UNCHANGED <<ring, locks, heads, input, output, allocator, allocationsLeft>>
  BY <1>1, <1>6 DEF ring, heads
<1> QED BY <1>2, <1>3, <1>4, <1>5, <1>6, MakingRoomKeepsRing, WritingKeepsRing, EndKeepsRing,
           FetchKeepsRing
        DEF AudioNext, Input, Allocator

\* What the output IOProc plays for a sample time is what the input IOProc
\* stored for it, whatever the buffer's capacity and the cycles' length, though
\* the two share no lock: a frame is overwritten only when its place is that of
\* no time within the bounds.
THEOREM FetchIsFaithful == AudioSpec => []FetchFaithful
<1>1. AudioInit => RingRight
  <2> SUFFICES ASSUME AudioInit PROVE RingRight
    OBVIOUS
  <2>1. mBuffer.start = 0 /\ mBuffer.end = 0 /\ MaxTime \in Nat
    BY BoundsAssumption DEF AudioInit, EmptyBuffer
  <2> QED BY <2>1 DEF AudioInit, RingRight, BoundsHeld, InputAtRest, MakingRoom, Writing, Copying, Held,
                      InputEnd, Idle
<1>2. BufferKept /\ RingRight => FetchFaithful
  BY DEF BufferKept, RingRight, Copying, FetchFaithful, Idle
<1> QED BY <1>1, <1>2, RingSteps, LocksInvariant, PTL DEF AudioSpec

-----------------------------------------------------------------------------
(* Start and Stop.  What follows is about the module PlayThrough.          *)

\* Where a thread is when it is not in Stop.
Elsewhere == {"idle", "arm", "idleCheck", "switchIdleCheck", "prepare", "startOutput",
              "startInput", "undo", "setDevices", "activate", "replace"}

\* A thread is in Stop if and only if it holds the mutex; where it goes
\* afterwards is one of three places.
StopHoldsMutex ==
    /\ mStateMutex \in Threads \cup {Nobody}
    /\ DOMAIN pc = Threads /\ DOMAIN then = Threads
    /\ \A t \in Threads :
          /\ pc[t] = "stopping" <=> mStateMutex = t
          /\ then[t] \in {"idle", "arm", "idleCheck", "switchIdleCheck",
                          "setDevices", "replace", "activate"}
          /\ pc[t] = "stopping" => then[t] \in {"idle", "setDevices", "replace"}

\* The IOProcs on their way to stop themselves do not take a state for the one
\* they saw that Start has set in the meantime: they saw that of a Stop.
StatesSeen ==
    /\ ioState \in [Devices -> IOStates]
    /\ seen \in [Devices -> {"Stopping", "Stopped"}]

\* What FlagMatchesIOProcs says while nobody is in Stop, and what holds while
\* somebody is.
Flags ==
    /\ mActive \in BOOLEAN /\ mPlayingThrough \in BOOLEAN
    /\ IF Unlocked
       THEN IF mPlayingThrough
            THEN mActive /\ \A d \in Devices : ioState[d] \in {"Starting", "Running"}
            ELSE BothAre("Stopped")
       ELSE \A d \in Devices : ioState[d] \in {"Stopping", "Stopped"}

ControlInv == StopHoldsMutex /\ StatesSeen /\ Flags

\* What a thread does that leaves Stop, the flags and the states alone.
LEMMA QuietKeepsControl ==
    ASSUME ControlInv, UNCHANGED <<mActive, mPlayingThrough, mStateMutex, pc, then, ioState, seen>>
    PROVE  ControlInv'
BY DEF ControlInv, StopHoldsMutex, StatesSeen, Flags, Unlocked, BothAre,
       Threads, Devices, IOStates

\* A thread that is not in Stop goes on to a place that is not in Stop.
LEMMA MovesKeepControl ==
    ASSUME ControlInv, NEW t \in Threads, pc[t] # "stopping",
           UNCHANGED <<mStateMutex>>,
           \/ UNCHANGED pc
           \/ \E place \in Elsewhere : pc' = [pc EXCEPT ![t] = place],
           \/ UNCHANGED then
           \/ \E place \in {"idle", "arm", "idleCheck", "switchIdleCheck"} :
                 then' = [then EXCEPT ![t] = place]
    PROVE  StopHoldsMutex'
<1>1. DOMAIN pc' = Threads /\ DOMAIN then' = Threads
  BY DEF ControlInv, StopHoldsMutex
<1>2. ASSUME NEW s \in Threads
      PROVE  /\ pc'[s] = "stopping" <=> mStateMutex' = s
             /\ then'[s] \in {"idle", "arm", "idleCheck", "switchIdleCheck",
                              "setDevices", "replace", "activate"}
             /\ pc'[s] = "stopping" => then'[s] \in {"idle", "setDevices", "replace"}
  <2>1. pc'[s] = "stopping" <=> pc[s] = "stopping"
    BY DEF ControlInv, StopHoldsMutex, Elsewhere
  <2>2. then'[s] = then[s] \/ (s = t /\ then'[s] \in {"idle", "arm", "idleCheck", "switchIdleCheck"})
    BY DEF ControlInv, StopHoldsMutex
  <2> QED BY <2>1, <2>2 DEF ControlInv, StopHoldsMutex
<1> QED BY <1>1, <1>2 DEF ControlInv, StopHoldsMutex, Threads

\* Return and Throw go to the place noted down.
LEMMA ReturnsKeepControl ==
    ASSUME ControlInv, NEW t \in Threads, pc[t] # "stopping",
           UNCHANGED mStateMutex, Return(t) \/ Throw(t)
    PROVE  StopHoldsMutex'
<1>1. then[t] \in Elsewhere
  BY DEF ControlInv, StopHoldsMutex, Elsewhere
<1>2. \E place \in Elsewhere : pc' = [pc EXCEPT ![t] = place]
  BY <1>1 DEF Return, Throw, ReturnTo, Goto, Elsewhere
<1>3. then' = [then EXCEPT ![t] = "idle"]
  BY DEF Return, Throw, ReturnTo
<1> QED BY <1>2, <1>3, MovesKeepControl

\* Both IOProcs' states change together with the flag, under the mutex.
LEMMA StateChangesKeepControl ==
    ASSUME ControlInv, StopHoldsMutex', Unlocked, UNCHANGED <<mStateMutex, seen>>,
           \/ /\ ioState' = [d \in Devices |-> "Starting"]
              /\ mPlayingThrough' = TRUE /\ mActive' = TRUE
           \/ /\ ioState' = [d \in Devices |-> "Stopped"]
              /\ mPlayingThrough' = FALSE /\ UNCHANGED mActive
    PROVE  ControlInv'
BY DEF ControlInv, StatesSeen, Flags, Unlocked, BothAre,
       Devices, IOStates

\* Stop begins with both IOProcs told to stop, or given up.
LEMMA BeginStopKeepsControl ==
    ASSUME ControlInv, NEW t \in Threads, NEW place \in {"idle", "setDevices", "replace"},
           Nobody \notin Threads,
           Unlocked, BeginStop(t, place), UNCHANGED <<mActive, mPlayingThrough, seen>>
    PROVE  ControlInv'
<1> USE DEF ControlInv
<1>1. /\ ioState' = [ioState EXCEPT !["input"] = "Stopping",
                                    !["output"] = IF outputAlive THEN "Stopping" ELSE "Stopped"]
      /\ mStateMutex' = t /\ pc' = [pc EXCEPT ![t] = "stopping"] /\ then' = [then EXCEPT ![t] = place]
  BY DEF BeginStop, Goto
<1>2. StopHoldsMutex'
  <2>1. \A s \in Threads : pc[s] # "stopping"
    BY DEF StopHoldsMutex, Unlocked
  <2> QED BY <1>1, <2>1 DEF StopHoldsMutex, Threads
<1>3. \A d \in Devices : ioState'[d] \in {"Stopping", "Stopped"}
  BY <1>1 DEF StatesSeen, Devices
<1>4. StatesSeen'
  BY <1>1 DEF StatesSeen, Devices, IOStates
<1>5. ~Unlocked'
  BY <1>1 DEF Unlocked
<1> QED BY <1>2, <1>3, <1>4, <1>5 DEF Flags, Devices

\* The flag of activity alone.
LEMMA ActivityKeepsControl ==
    ASSUME ControlInv, StopHoldsMutex', UNCHANGED <<mStateMutex, mPlayingThrough, ioState, seen>>,
           mActive' \in BOOLEAN,
           (Unlocked /\ mPlayingThrough) => mActive'
    PROVE  ControlInv'
BY DEF ControlInv, StatesSeen, Flags, Unlocked, BothAre,
       Devices, IOStates

\* Blocks of the queues and what Start does.
LEMMA BlocksKeepControl ==
    ASSUME Nobody \notin Threads, ControlInv,
           NEW t \in Threads, StartNext(t)
    PROVE  ControlInv'
<1> USE DEF Elsewhere, Goto, flags, io, ioVars
<1>1. CASE TakeStart(t)
  <2>1. StopHoldsMutex'
    <3>1. \E place \in {"idle", "arm", "idleCheck", "switchIdleCheck"} :
             then' = [then EXCEPT ![t] = place]
      BY <1>1 DEF TakeStart
    <3> QED BY <1>1, <3>1, MovesKeepControl DEF TakeStart
  <2> QED BY <1>1, <2>1, ActivityKeepsControl DEF TakeStart, ControlInv, Flags
<1>2. CASE HandleNovaLINKDeviceIsRunning(t)
  <2>1. StopHoldsMutex'
    BY <1>2, MovesKeepControl DEF HandleNovaLINKDeviceIsRunning
  <2> QED BY <1>2, <2>1, ActivityKeepsControl DEF HandleNovaLINKDeviceIsRunning, ControlInv, Flags
<1>3. CASE ArmIdleStop(t)
  <2>1. StopHoldsMutex'
    BY <1>3, MovesKeepControl DEF ArmIdleStop
  <2> QED BY <1>3, <2>1, ActivityKeepsControl DEF ArmIdleStop, ControlInv, Flags
<1>4. CASE HandleNovaLINKDeviceIsRunningSomewhereOther(t)
  BY <1>4, QuietKeepsControl DEF HandleNovaLINKDeviceIsRunningSomewhereOther, locals
<1>5. CASE RunIdleBlock(t)
  <2>1. CASE mActive /\ mPlayingThrough /\ mIdleStopArmed /\ ~others
    BY <1>5, <2>1, BeginStopKeepsControl DEF RunIdleBlock
  <2>2. CASE ~(mActive /\ mPlayingThrough /\ mIdleStopArmed /\ ~others)
    BY <1>5, <2>2, QuietKeepsControl DEF RunIdleBlock
  <2> QED BY <2>1, <2>2
<1> QED BY <1>1, <1>2, <1>3, <1>4, <1>5 DEF StartNext

LEMMA FinishStopKeepsControl ==
    ASSUME Nobody \notin Threads, ControlInv,
           NEW t \in Threads, FinishStop(t)
    PROVE  ControlInv'
<1> USE DEF ControlInv
<1>1. /\ pc[t] = "stopping" /\ mStateMutex = t /\ mStateMutex' = Nobody /\ mPlayingThrough' = FALSE
      /\ \A d \in Devices : ioState[d] = "Stopped"
      /\ UNCHANGED <<ioState, seen>>
  BY DEF FinishStop, StopHoldsMutex, Flags, Unlocked
<1>2. /\ mActive' \in BOOLEAN
      /\ \E place : pc' = [pc EXCEPT ![t] = place] /\ place # "stopping"
      /\ \E place \in {"idle", "activate"} : then' = [then EXCEPT ![t] = place]
  <2>1. CASE then[t] = "setDevices"
    BY <2>1 DEF FinishStop, Return, ReturnTo, Goto
  <2>2. CASE then[t] = "replace"
    BY <2>2 DEF FinishStop, ReplaceDevices, Goto
  <2>3. CASE then[t] = "idle"
    BY <2>3 DEF FinishStop, Return, ReturnTo, Goto, Flags
  <2> QED BY <1>1, <2>1, <2>2, <2>3 DEF StopHoldsMutex
<1>3. StopHoldsMutex'
  <2>1. ASSUME NEW s \in Threads
        PROVE  /\ pc'[s] # "stopping" /\ s # Nobody
               /\ then'[s] \in {"idle", "arm", "idleCheck", "switchIdleCheck",
                                "setDevices", "replace", "activate"}
    BY <1>1, <1>2 DEF StopHoldsMutex
  <2>2. DOMAIN pc' = Threads /\ DOMAIN then' = Threads
    BY <1>2 DEF StopHoldsMutex
  <2> QED BY <1>1, <2>1, <2>2 DEF StopHoldsMutex, Threads
<1>4. Flags' /\ StatesSeen'
  BY <1>1, <1>2 DEF Flags, StatesSeen, Unlocked, BothAre, Devices, IOStates
<1> QED BY <1>3, <1>4

LEMMA CallsKeepControl ==
    ASSUME Nobody \notin Threads, ControlInv,
           NEW t \in Threads, CallNext(t)
    PROVE  ControlInv'
<1> USE DEF Elsewhere, Goto, flags, io, ioVars
<1>1. CASE AlreadyRunning(t)
  <2>1. StopHoldsMutex'
    BY <1>1, ReturnsKeepControl DEF AlreadyRunning
  <2> QED BY <1>1, <2>1, ActivityKeepsControl DEF AlreadyRunning, ControlInv, Flags
<1>2. CASE AlreadyStarting(t)
  <2>1. StopHoldsMutex'
    BY <1>2, ReturnsKeepControl DEF AlreadyStarting
  <2> QED BY <1>2, <2>1, ActivityKeepsControl DEF AlreadyStarting, ControlInv, Flags
<1>3. CASE DeviceIsDead(t)
  <2>1. StopHoldsMutex'
    BY <1>3, ReturnsKeepControl DEF DeviceIsDead
  <2> QED BY <1>3, <2>1, ActivityKeepsControl DEF DeviceIsDead, ControlInv, Flags
<1>4. CASE ClaimPlaythrough(t)
  <2>1. StopHoldsMutex'
    BY <1>4, MovesKeepControl DEF ClaimPlaythrough
  <2> QED BY <1>4, <2>1, StateChangesKeepControl DEF ClaimPlaythrough
<1>5. CASE MicrophoneNotAuthorized(t)
  <2>1. StopHoldsMutex'
    BY <1>5, ReturnsKeepControl DEF MicrophoneNotAuthorized
  <2> QED BY <1>5, <2>1, StateChangesKeepControl DEF MicrophoneNotAuthorized
<1>6. CASE StartOutput(t)
  <2>1. StopHoldsMutex'
    BY <1>6, MovesKeepControl DEF StartOutput
  <2> QED BY <1>6, <2>1, ActivityKeepsControl DEF StartOutput, ControlInv, Flags
<1>7. CASE StartInput(t)
  <2>1. StopHoldsMutex'
    BY <1>7, ReturnsKeepControl DEF StartInput
  <2> QED BY <1>7, <2>1, ActivityKeepsControl DEF StartInput, ControlInv, Flags
<1>8. CASE StartIOProcFails(t)
  <2>1. StopHoldsMutex'
    BY <1>8, MovesKeepControl DEF StartIOProcFails
  <2> QED BY <1>8, <2>1, ActivityKeepsControl DEF StartIOProcFails, ControlInv, Flags
<1>9. CASE UndoStart(t)
  <2>1. StopHoldsMutex'
    BY <1>9, ReturnsKeepControl DEF UndoStart
  <2> QED BY <1>9, <2>1, StateChangesKeepControl DEF UndoStart
<1>10. ASSUME NEW d \in Devices, StopFromOutside(t, d)
       PROVE  ControlInv'
  <2>1. /\ mStateMutex = t /\ ioState' = [ioState EXCEPT ![d] = "Stopped"]
        /\ UNCHANGED <<mActive, mPlayingThrough, mStateMutex, pc, then, seen>>
    BY <1>10 DEF StopFromOutside, locals, ControlInv, StopHoldsMutex
  <2>2. ~Unlocked
    BY <2>1 DEF Unlocked
  <2> QED BY <2>1, <2>2 DEF ControlInv, StopHoldsMutex, StatesSeen, Flags, Unlocked,
                             Threads, Devices, IOStates
<1>11. CASE FinishStop(t)
  BY <1>11, FinishStopKeepsControl
<1>12. CASE CheckIdle(t)
  <2>1. StopHoldsMutex'
    BY <1>12, MovesKeepControl DEF CheckIdle
  <2> QED BY <1>12, <2>1, ActivityKeepsControl DEF CheckIdle, ControlInv, Flags
<1> QED BY <1>1, <1>2, <1>3, <1>4, <1>5, <1>6, <1>7, <1>8, <1>9, <1>10, <1>11, <1>12
        DEF CallNext

\* While the output device changes.
LEMMA SwitchKeepsControl ==
    ASSUME Nobody \notin Threads, ControlInv, NEW t \in Threads,
           SwitchOutputDevice(t) \/ SwitchNext(t)
    PROVE  ControlInv'
<1> USE DEF Elsewhere, Goto, flags, io, ioVars
<1>1. CASE SwitchOutputDevice(t)
  <2>1. CASE mActive /\ mPlayingThrough
    BY <1>1, <2>1, BeginStopKeepsControl DEF SwitchOutputDevice
  <2>2. CASE ~(mActive /\ mPlayingThrough)
    <3>1. StopHoldsMutex'
      BY <1>1, <2>2, MovesKeepControl DEF SwitchOutputDevice
    <3>2. ~mPlayingThrough
      BY <1>1, <2>2 DEF SwitchOutputDevice, ControlInv, Flags
    <3> QED BY <1>1, <2>2, <3>1, <3>2, ActivityKeepsControl DEF SwitchOutputDevice
  <2> QED BY <2>1, <2>2
<1>2. CASE SetDevices(t)
  <2>1. CASE mActive /\ mPlayingThrough
    BY <1>2, <2>1, BeginStopKeepsControl DEF SetDevices
  <2>2. CASE ~(mActive /\ mPlayingThrough)
    <3>1. StopHoldsMutex'
      BY <1>2, <2>2, MovesKeepControl DEF SetDevices
    <3>2. mActive' \in BOOLEAN /\ (mActive => mActive')
      BY <1>2, <2>2 DEF SetDevices, ReplaceDevices, ControlInv, Flags
    <3> QED BY <1>2, <2>2, <3>1, <3>2, ActivityKeepsControl DEF SetDevices, ControlInv, Flags
  <2> QED BY <2>1, <2>2
<1>3. CASE Activate(t)
  <2>1. StopHoldsMutex'
    BY <1>3, MovesKeepControl DEF Activate
  <2> QED BY <1>3, <2>1, ActivityKeepsControl DEF Activate
<1>4. CASE ActivateFails(t)
  <2>1. StopHoldsMutex'
    BY <1>4, MovesKeepControl DEF ActivateFails
  <2> QED BY <1>4, <2>1, ActivityKeepsControl DEF ActivateFails, ControlInv, Flags
<1> QED BY <1>1, <1>2, <1>3, <1>4 DEF SwitchNext

\* The IOProcs change the states without the mutex, by compare and exchange.
LEMMA IOProcsKeepControl ==
    ASSUME ControlInv, NEW d \in Devices, IOProcNext(d)
    PROVE  ControlInv'
<1> USE DEF control, flags, locals, ioVars
<1>1. UNCHANGED <<mActive, mPlayingThrough, mStateMutex, pc, then>>
  BY DEF IOProcNext, FirstCycle, CycleAfterStop, StopSelf,
         StopSelfFails, MarkStopped, LastTrailingCycle
<1>2. StopHoldsMutex'
  BY <1>1 DEF ControlInv, StopHoldsMutex, Threads
<1>3. CASE FirstCycle(d)
  <2>1. Unlocked /\ mPlayingThrough
    BY <1>3 DEF FirstCycle, ControlInv, Flags, BothAre
  <2> QED BY <1>1, <1>2, <1>3, <2>1
          DEF FirstCycle, ControlInv, StatesSeen, Flags, Unlocked, BothAre,
              Devices, IOStates
<1>4. CASE MarkStopped(d)
  <2>1. CASE ioState[d] = seen[d]
    <3>1. ~(Unlocked /\ mPlayingThrough)
      BY <2>1 DEF ControlInv, StatesSeen, Flags
    <3> QED BY <1>1, <1>2, <1>4, <2>1, <3>1
            DEF MarkStopped, ControlInv, StatesSeen, Flags, Unlocked,
                BothAre, Devices, IOStates
  <2>2. CASE ioState[d] # seen[d]
    BY <1>1, <1>2, <1>4, <2>2
       DEF MarkStopped, ControlInv, StatesSeen, Flags, Unlocked,
           BothAre, Devices, IOStates
  <2> QED BY <2>1, <2>2
<1>5. CASE CycleAfterStop(d)
  BY <1>1, <1>2, <1>5
     DEF CycleAfterStop, ControlInv, StatesSeen, Flags, Unlocked,
         BothAre, Devices, IOStates
<1>6. CASE StopSelf(d) \/ StopSelfFails(d) \/ LastTrailingCycle(d)
  BY <1>6, QuietKeepsControl
     DEF StopSelf, StopSelfFails, LastTrailingCycle
<1> QED BY <1>3, <1>4, <1>5, <1>6 DEF IOProcNext

\* Whenever nobody is in Stop with the mutex, the flag and the states of the
\* IOProcs agree, for any number of threads that start, stop, wait and change the device, and
\* any number of faults.
THEOREM FlagFollowsIOProcs == Spec => []FlagMatchesIOProcs
<1>1. Nobody \notin Threads
  BY PlayThroughAssumption DEF Threads
<1>2. Init => ControlInv
  <2> SUFFICES ASSUME Init PROVE ControlInv
    OBVIOUS
  <2>1. StopHoldsMutex
    BY <1>1 DEF Init, StopHoldsMutex
  <2>2. StatesSeen
    BY DEF Init, StatesSeen, IOStates
  <2>3. Flags
    BY DEF Init, Flags, Unlocked, BothAre
  <2> QED BY <2>1, <2>2, <2>3 DEF ControlInv
<1>3. ControlInv /\ [Next]_vars => ControlInv'
  <2> SUFFICES ASSUME ControlInv, [Next]_vars
               PROVE  ControlInv'
    OBVIOUS
  <2> USE DEF control, flags, locals, io, ioVars
  <2>1. CASE UNCHANGED vars
    BY <2>1, QuietKeepsControl DEF vars
  <2>2. CASE ClientStarts \/ ClientStops \/ PassDeadline \/ OutputDies
    BY <2>2, QuietKeepsControl
       DEF ClientStarts, ClientStops, PassDeadline, OutputDies
  <2>3. ASSUME NEW t \in Workers, StartNext(t) PROVE ControlInv'
    BY <1>1, <2>3, BlocksKeepControl DEF Threads
  <2>4. ASSUME NEW t \in Threads, CallNext(t) PROVE ControlInv'
    BY <1>1, <2>4, CallsKeepControl
  <2>5. ASSUME NEW t \in Switchers, SwitchOutputDevice(t) \/ SwitchNext(t)
        PROVE  ControlInv'
    BY <1>1, <2>5, SwitchKeepsControl DEF Threads
  <2>6. ASSUME NEW d \in Devices, IOProcNext(d) PROVE ControlInv'
    BY <2>6, IOProcsKeepControl
  <2>7. ASSUME NEW w \in Waiters,
               WaitForOutputDeviceToStart(w) \/ WaiterNext(w) \/ GiveUp(w)
        PROVE  ControlInv'
    BY <2>7, QuietKeepsControl
       DEF WaitForOutputDeviceToStart, WaiterNext, GiveUp, Block,
           CheckState, Goes
  <2> QED BY <2>1, <2>2, <2>3, <2>4, <2>5, <2>6, <2>7 DEF Next
<1>4. ControlInv => FlagMatchesIOProcs
  BY DEF ControlInv, Flags, FlagMatchesIOProcs
<1> QED BY <1>2, <1>3, <1>4, PTL DEF Spec
=============================================================================
