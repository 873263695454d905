------------------------- MODULE MCPlugInInterface -------------------------
(***************************************************************************)
(* An instance of PlugInInterface for TLC: both devices and the null       *)
(* device, two sample rates and two threads that set the null device, one  *)
(* client that plays and one that records, a ring of two IO cycles.        *)
(***************************************************************************)
EXTENDS PlugInInterface

CONSTANTS main, ui, s1, s2, player, recorder

Both == {main, ui}
TwoRates == {44100, 48000}
TwoSetters == {s1, s2}
TwoIOClients == {player, recorder}
Player == {player}
\* Two and a half ticks, and two.
HalfTicks == [r \in TwoRates |-> IF r = 44100 THEN 5 ELSE 4]

\* What depends on the controls and the null device.
ListsThatChange == {"OwnedObjects", "ControlList", "DeviceList"}

\* Bounds: the HAL asks about properties and does IO only after few requests, and
\* not both.  While it asks, only what the lists read goes on changing: the
\* controls and the null device, which come and may go again (the last request
\* is for this, and for those lists only).  Only sample rates change between two
\* sessions of IO.  An answer that lists something, on which nothing depends, is
\* not looked beyond.
Bounds ==
    LET asked == call # NoCall
        didIO == session > 0 \/ numberInjected > 0
        settingsUntouched == ~mMuted /\ \A s \in Setters : setter[s] = "idle"
    IN  /\ outcome = Done(TRUE)
        /\ asked => /\ ~didIO /\ MaxRequests - requestsLeft <= MaxRequestsAsked
                    /\ abortsLeft = MaxAborts /\ ~mMuted /\ setter[s2] = "idle"
                    /\ mPendingSampleRate = mSampleRate
                    /\ \/ MaxRequests - requestsLeft < MaxRequestsAsked
                       \/ call.selector \in ListsThatChange
        /\ didIO => /\ requestsLeft >= MaxRequests - 1
                    /\ abortsLeft = MaxAborts /\ settingsUntouched
                    /\ \A d \in Devices : appClients[d] = 0
        /\ clientsDoingIO # {} => dispatchQueue = << >> /\ hostRequests = << >>
        /\ ~didIO => ioDevice = main \/ requestsLeft = MaxRequests
=============================================================================
