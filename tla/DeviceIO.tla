------------------------------ MODULE DeviceIO ------------------------------
(***************************************************************************)
(* The audio that goes through a device of the driver, and its clock.      *)
(*                                                                         *)
(* The HAL starts a device for its first client and stops it after its     *)
(* last.  While IO runs it asks for zero time stamps, writes the clients'  *)
(* mix once per cycle and reads the device's input for each client.  What  *)
(* is written is stored in a ring buffer under its sample time, and read   *)
(* from there; for a recording client of the main device the frames that   *)
(* the app injected last, its microphone's, are mixed in.  The null device *)
(* has a clock only.                                                       *)
(*                                                                         *)
(* mIOMutex makes each of these operations one step.  The rings and the    *)
(* clock's rate are set up again when the sample rate changes, which the   *)
(* HAL stops IO for; that the counting of clients is right is the subject  *)
(* of Clients.  A frame of the loopback is the session of IO it was        *)
(* written in and its sample time, a frame of the microphone its number.   *)
(*                                                                         *)
(* The devices share nothing here, so the model has the IO of one.         *)
(***************************************************************************)
EXTENDS Device, Integers, FiniteSetsExt

CONSTANTS
    NullDeviceIO,       \* the null device's IO
    IOClients,          \* clients of the device that is looked at
    PassthroughHosts,   \* those that play what they read: the app and its helper
    HalfTicksPerPeriod, \* sample rate -> host ticks per period, in halves
    kLoopbackRingBufferFrameSize,
    IOBufferFrameSize,  \* frames of an IO cycle
    MaxHostTime,        \* bound: host ticks
    MaxSampleTime,      \* bound: sample times
    MaxSessions,        \* bound: how often IO starts
    MaxInjected         \* bound: frames the microphone injects

\* A cycle has more frames than the HAL may skip before it, which is one here,
\* so the first cycle of a session overlaps what the ring still holds of the
\* last session at the same sample times, and writes it anew.
ASSUME DeviceIOAssumption ==
    /\ NullDeviceIO \notin Devices
    /\ PassthroughHosts \subseteq IOClients
    /\ HalfTicksPerPeriod \in [Rates -> Nat \ {0}]
    /\ kLoopbackRingBufferFrameSize \in Nat /\ MaxSampleTime \in Nat
    /\ IOBufferFrameSize \in 2 .. kLoopbackRingBufferFrameSize

VARIABLES
    ioDevice,           \* the device whose IO is looked at
    clientsDoingIO,     \* of it
    hostTime,
    anchorHostTime,
    numberTimeStamps,
    clockRate,          \* the sample rate that the ticks per period come from
    mLoopbackRingBuffer,
    mMicRingBuffer,
    mMicSampleTime,
    stamp,              \* what GetZeroTimeStamp returned last since IO started
    session,            \* history: how often IO was started
    startedAt,          \* history: when it was
    written,            \* history: sample times that were written since
    injected,           \* history: the last frames injected, at most a cycle of them
    numberInjected      \* history: frames injected so far

clock == <<anchorHostTime, numberTimeStamps, clockRate, stamp, startedAt>>
mic == <<mMicRingBuffer, mMicSampleTime, injected, numberInjected>>
loopback == <<mLoopbackRingBuffer, session, written>>
ioVars == <<ioDevice, clientsDoingIO, hostTime, clock, loopback, mic>>

NoStamp == [number |-> -1]
Silence == <<"silence">>
-----------------------------------------------------------------------------
(* CARingBuffer, of which only one operation runs at a time.               *)

Allocated == [frames |-> [i \in 0 .. kLoopbackRingBufferFrameSize - 1 |-> Silence],
              start |-> 0, end |-> 0]

\* Mutant: keeps the bounds when time goes backwards.
StoreBounds_Kept(ring, from, to) ==
    IF to - ring.start <= kLoopbackRingBufferFrameSize
    THEN <<ring.start, ring.end>>
    ELSE LET newStart == to - kLoopbackRingBufferFrameSize
         IN  <<newStart, Max({newStart, ring.end})>>

\* The bounds before frames are written from one time to another: without
\* what will be overwritten, and without anything if time goes backwards.
StoreBounds(ring, from, to) ==
    IF from < ring.end
    THEN <<from, from>>
    ELSE IF to - ring.start <= kLoopbackRingBufferFrameSize
    THEN <<ring.start, ring.end>>
    ELSE LET newStart == to - kLoopbackRingBufferFrameSize
         IN  <<newStart, Max({newStart, ring.end})>>

\* Times that are skipped are zeroed.
Store(ring, from, data) ==
    LET to == from + Len(data)
        bounds == StoreBounds(ring, from, to)
        At(place, times) == {t \in times : t % kLoopbackRingBufferFrameSize = place}
        frames == [place \in DOMAIN ring.frames |->
            IF At(place, from .. to - 1) # {}
            THEN data[Max(At(place, from .. to - 1)) - from + 1]
            ELSE IF At(place, bounds[2] .. from - 1) # {} THEN Silence ELSE ring.frames[place]]
    IN  [frames |-> frames, start |-> bounds[1], end |-> to]

\* What is outside of the bounds is silent.
Fetch(ring, nFrames, startRead) ==
    [i \in 1 .. nFrames |->
        LET t == Max({0, startRead}) + i - 1
        IN  IF t \in ring.start .. ring.end - 1
            THEN ring.frames[t % kLoopbackRingBufferFrameSize] ELSE Silence]

-----------------------------------------------------------------------------
(* Setting up.                                                             *)

\* Also of the constructor, and for the null device of Activate.
InitLoopback ==
    /\ clockRate' = mSampleRate'[ioDevice]
    /\ mLoopbackRingBuffer' = Allocated
    /\ written' = {}
    /\ mMicRingBuffer' = Allocated
    /\ mMicSampleTime' = 0
    /\ injected' = << >>

IOInit ==
    /\ ioDevice \in Devices \cup {NullDeviceIO}
    /\ clientsDoingIO = {}
    /\ hostTime = 0 /\ anchorHostTime = 0 /\ numberTimeStamps = 0
    /\ clockRate = kSampleRateDefault
    /\ mLoopbackRingBuffer = Allocated /\ mMicRingBuffer = Allocated
    /\ mMicSampleTime = 0
    /\ stamp = NoStamp
    /\ session = 0 /\ startedAt = 0 /\ written = {}
    /\ injected = << >> /\ numberInjected = 0

\* A step of Device: the HAL stops the device's IO before it has a change
\* performed, and a change of the sample rate sets up the rings and the clock.
ConfigurationChanges ==
    /\ (active' # active \/ mSampleRate' # mSampleRate) => clientsDoingIO = {}
    /\ IF ioDevice \in Devices /\ mSampleRate'[ioDevice] # mSampleRate[ioDevice]
       THEN /\ InitLoopback
            /\ UNCHANGED <<ioDevice, clientsDoingIO, hostTime, anchorHostTime, numberTimeStamps,
                           stamp, startedAt, session, numberInjected>>
       ELSE UNCHANGED ioVars

-----------------------------------------------------------------------------
(* The clock.                                                              *)

TimePasses ==
    /\ clientsDoingIO # {}
    /\ hostTime < MaxHostTime
    /\ hostTime' = hostTime + 1
    /\ UNCHANGED <<ioDevice, clientsDoingIO, clock, loopback, mic>>

\* Mutant: every client resets the clock.
StartIO_Resets(c) ==
    /\ c \notin clientsDoingIO
    /\ clientsDoingIO' = clientsDoingIO \cup {c}
    /\ numberTimeStamps' = 0
    /\ anchorHostTime' = hostTime
    /\ IF clientsDoingIO = {}
       THEN /\ session < MaxSessions /\ session' = session + 1
            /\ startedAt' = hostTime /\ stamp' = NoStamp /\ written' = {}
       ELSE UNCHANGED <<session, startedAt, stamp, written>>
    /\ UNCHANGED <<ioDevice, hostTime, clockRate, mLoopbackRingBuffer, mic>>

\* A client starts; only the first resets the clock.
StartIO(c) ==
    /\ c \notin clientsDoingIO
    /\ clientsDoingIO' = clientsDoingIO \cup {c}
    /\ IF clientsDoingIO = {}
       THEN /\ session < MaxSessions /\ session' = session + 1
            /\ numberTimeStamps' = 0
            /\ anchorHostTime' = hostTime
            /\ startedAt' = hostTime /\ stamp' = NoStamp /\ written' = {}
       ELSE UNCHANGED <<numberTimeStamps, anchorHostTime, session, startedAt, stamp, written>>
    /\ UNCHANGED <<ioDevice, hostTime, clockRate, mLoopbackRingBuffer, mic>>

StopIO(c) ==
    /\ c \in clientsDoingIO
    /\ clientsDoingIO' = clientsDoingIO \ {c}
    /\ UNCHANGED <<ioDevice, hostTime, clock, loopback, mic>>

\* The host ticks of n periods are cut off to an integer.
HostTicks(rate, n) == (n * HalfTicksPerPeriod[rate]) \div 2

\* Moves on by one period at most.
GetZeroTimeStamp ==
    /\ clientsDoingIO # {}
    /\ LET theNextHostTime == anchorHostTime + HostTicks(clockRate, numberTimeStamps + 1)
       IN  numberTimeStamps' = numberTimeStamps + IF theNextHostTime <= hostTime THEN 1 ELSE 0
    /\ stamp' = [number |-> numberTimeStamps',
                 hostTime |-> anchorHostTime + HostTicks(clockRate, numberTimeStamps')]
    /\ UNCHANGED <<ioDevice, clientsDoingIO, hostTime, anchorHostTime, clockRate, startedAt,
                   loopback, mic>>

-----------------------------------------------------------------------------
(* The audio.                                                              *)

\* The HAL's output times follow each other from the start of IO, or skip a
\* frame after an overload.
OutputTimes ==
    IF written = {} THEN 0 .. 1 ELSE {Max(written) + 1 + late : late \in 0 .. 1}

\* DoIOOperation of WriteMix.
WriteOutputData ==
    /\ ioDevice \in Devices /\ clientsDoingIO # {}
    /\ \E t \in OutputTimes :
           LET times == t .. t + IOBufferFrameSize - 1
           IN  /\ Max(times) <= MaxSampleTime
               /\ mLoopbackRingBuffer' = Store(mLoopbackRingBuffer, t,
                                               [i \in 1 .. IOBufferFrameSize |-> <<session, t + i - 1>>])
               /\ written' = written \cup times
    /\ UNCHANGED <<ioDevice, clientsDoingIO, hostTime, clock, session, mic>>

\* The app injects frames at any time; what is more than half of the ring is
\* left out.
InjectMicAudio ==
    /\ ioDevice \in Devices /\ SupportsMicMix(ioDevice)
    /\ \E inFrameCount \in 1 .. kLoopbackRingBufferFrameSize :
           LET n == Min({inFrameCount, kLoopbackRingBufferFrameSize \div 2})
               data == [i \in 1 .. n |-> <<"mic", numberInjected + i>>]
               all == injected \o data
           IN  /\ numberInjected + n <= MaxInjected
               /\ mMicRingBuffer' = Store(mMicRingBuffer, mMicSampleTime, data)
               /\ mMicSampleTime' = mMicSampleTime + n
               /\ numberInjected' = numberInjected + n
               /\ injected' = SubSeq(all, Max({1, Len(all) - IOBufferFrameSize + 1}), Len(all))
    /\ UNCHANGED <<ioDevice, clientsDoingIO, hostTime, clock, loopback>>

\* DoIOOperation of ReadInput: what a client gets to hear, which changes nothing.
ReadInputData(c, t) ==
    [loopback |-> Fetch(mLoopbackRingBuffer, IOBufferFrameSize, t),
     mic |-> IF /\ SupportsMicMix(ioDevice) /\ c \notin PassthroughHosts
                /\ mMicSampleTime >= IOBufferFrameSize
             THEN Fetch(mMicRingBuffer, IOBufferFrameSize, mMicSampleTime - IOBufferFrameSize)
             ELSE << >>]

IONext ==
    \/ TimePasses \/ GetZeroTimeStamp \/ WriteOutputData \/ InjectMicAudio
    \/ \E c \in IOClients : StartIO(c) \/ StopIO(c)

-----------------------------------------------------------------------------
(* Correctness.                                                            *)

\* While IO runs the zero time stamps follow each other without a gap, on a grid
\* that begins when IO started and does not drift, and none lies in the
\* future, whichever clients come and go meanwhile.  The HAL derives every
\* sample time from them.
StampsSteady ==
    [][stamp' # NoStamp =>
           LET rate == IF ioDevice \in Devices THEN mSampleRate[ioDevice] ELSE kSampleRateDefault
           IN  /\ stamp'.hostTime <= hostTime
               /\ stamp'.hostTime = startedAt + HostTicks(rate, stamp'.number)
               /\ stamp'.number = stamp.number + 1 \/ stamp = NoStamp]_stamp

\* Every client reads what was written last for the times it asks for, unless
\* more than a ring of frames came after it, and silence for times that were
\* not written; on top of it a recording client hears the frames that were
\* injected last, in order, and a client that plays what it reads never does.
\* Before the first cycle of a session it may hear the session before.
ReadsFaithful ==
    ioDevice \in Devices =>
        \A c \in clientsDoingIO, t \in 0 .. MaxSampleTime :
            LET data == ReadInputData(c, t)
                Kept(time) == time \in written /\ time > Max(written) - kLoopbackRingBufferFrameSize
            IN  /\ written # {} =>
                       \A i \in 1 .. IOBufferFrameSize :
                           data.loopback[i] = IF Kept(t + i - 1) THEN <<session, t + i - 1>> ELSE Silence
                /\ data.mic = IF /\ ioDevice = Main /\ c \notin PassthroughHosts
                                 /\ Len(injected) = IOBufferFrameSize
                              THEN injected ELSE << >>
=============================================================================
