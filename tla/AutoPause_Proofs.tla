-------------------------- MODULE AutoPause_Proofs --------------------------
(***************************************************************************)
(* That the app unpauses only what it paused, for any players, bounds and  *)
(* interleavings of the listener, the blocks and the user.                 *)
(***************************************************************************)
EXTENDS AutoPause, TLAPS

-----------------------------------------------------------------------------
(* Type correctness *)

\* The driver's sample times keep their range and the state is one of three,
\* whatever the buffers hold.
LEMMA UpdateWithIOType ==
    ASSUME TypeOK, NEW music, NEW other, UpdateWithIO(music, other)
    PROVE  state' \in States /\ since' \in [Kinds -> 0..MinChanged]
<1>1. since' \in [Kinds -> 0..MinChanged]
  BY AudibleAssumption DEF TypeOK, UpdateWithIO, Aged
<1>2. state' \in States
  BY DEF TypeOK, UpdateWithIO, RecalculateState, States
<1> QED BY <1>1, <1>2

LEMMA InitType == Init => TypeOK
<1> SUFFICES ASSUME Init PROVE TypeOK
  OBVIOUS
<1>1. selectedMusicPlayer \in Players
  BY AutoPauseAssumption DEF Init
<1>2. player \in [Players -> {"playing", "paused", "closed"}]
  BY DEF Init
<1>3. since \in [Kinds -> 0..MinChanged]
  BY AudibleAssumption DEF Init
<1>4. restarts \in 0..MaxRestarts /\ touches \in 0..MaxTouches /\ notes \in 0..MaxNotes
  BY AutoPauseAssumption DEF Init
<1>5. notes > 0 => enabled
  BY DEF Init
<1> QED BY <1>1, <1>2, <1>3, <1>4, <1>5 DEF Init, TypeOK, States

LEMMA NextType == TypeOK /\ [Next]_vars => TypeOK'
<1> SUFFICES ASSUME TypeOK, [Next]_vars PROVE TypeOK'
  OBVIOUS
<1> USE AudibleAssumption, AutoPauseAssumption
<1>1. CASE IOCycle
  <2>1. state' \in States /\ since' \in [Kinds -> 0..MinChanged]
    BY <1>1, UpdateWithIOType DEF IOCycle
  <2>2. notes' \in 0..MaxNotes /\ (notes' > 0 => enabled)
    BY <1>1 DEF IOCycle, TypeOK
  <2>3. told' \in BOOLEAN /\ untouched' \in BOOLEAN
    BY <1>1 DEF IOCycle, TypeOK
  <2> QED BY <1>1, <2>1, <2>2, <2>3 DEF IOCycle, TypeOK, queues, players
<1>2. CASE RestartIO
  BY <1>2 DEF RestartIO, Reset, TypeOK, States, queues, players
<1>3. CASE Listener
  <2>1. CASE ReadAudibleState
    <3>1. notes' \in 0..MaxNotes /\ (notes' > 0 => enabled')
      BY <2>1 DEF ReadAudibleState, TypeOK
    <3> QED BY <2>1, <3>1 DEF ReadAudibleState, TypeOK, device, audible, queues, players, history
  <2>2. CASE QueuePauseBlock
    BY <2>2 DEF QueuePauseBlock, TypeOK, device, audible, players, history
  <2>3. CASE QueueUnpauseBlock
    BY <2>3 DEF QueueUnpauseBlock, TypeOK, device, audible, players, history
  <2>4. CASE ForgetPause
    BY ZenonT(40), <2>4 DEF ForgetPause, TypeOK, device, audible, queues, players, history
  <2> QED BY <1>3, <2>1, <2>2, <2>3, <2>4 DEF Listener
<1>4. CASE RunPauseBlock \/ RunUnpauseBlock
  BY <1>4 DEF RunPauseBlock, RunUnpauseBlock, TypeOK, device, audible, players, history
<1>5. CASE DecideToPause \/ DecideToUnpause
  BY ZenonT(40), <1>5 DEF DecideToPause, DecideToUnpause, TypeOK, device, audible, players, history
<1>6. CASE PausePlayer \/ UnpausePlayer
  BY ZenonT(40), <1>6 DEF PausePlayer, UnpausePlayer, TypeOK, device, audible, history
<1>7. CASE WorkPlayer
  <2>1. touches' \in 0..MaxTouches
    BY <1>7 DEF WorkPlayer, Touch, TypeOK
  <2>2. player' \in [Players -> {"playing", "paused", "closed"}]
    BY <1>7 DEF WorkPlayer, TypeOK
  <2>3. overridden' \in BOOLEAN /\ untouched' \in BOOLEAN
    BY <1>7 DEF WorkPlayer
  <2> QED BY <1>7, <2>1, <2>2, <2>3 DEF WorkPlayer, TypeOK, device, audible, queues
<1>8. CASE SelectMusicPlayer
  <2>1. touches' \in 0..MaxTouches
    BY <1>8 DEF SelectMusicPlayer, Touch, TypeOK
  <2>2. overridden' \in BOOLEAN /\ untouched' \in BOOLEAN
    BY <1>8 DEF SelectMusicPlayer
  <2> QED BY <1>8, <2>1, <2>2 DEF SelectMusicPlayer, TypeOK, device, audible, queues
<1>9. CASE Enable \/ Disable
  <2>1. touches' \in 0..MaxTouches
    BY <1>9 DEF Enable, Disable, Touch, TypeOK
  <2>2. notes' \in 0..MaxNotes /\ (notes' > 0 => enabled')
    BY <1>9 DEF Enable, Disable, TypeOK
  <2>3. enabled' \in BOOLEAN /\ told' \in BOOLEAN
    BY <1>9 DEF Enable, Disable, TypeOK, history
  <2> QED
    BY <1>9, <2>1, <2>2, <2>3
    DEF Enable, Disable, TypeOK, device, audible, queues, players, history
<1>10. CASE UNCHANGED vars
  BY <1>10 DEF vars, TypeOK, device, audible, queues, players, history
<1> QED
  BY <1>1, <1>2, <1>3, <1>4, <1>5, <1>6, <1>7, <1>8, <1>9, <1>10 DEF Next, FinishBlock

\* Every variable of auto-pause and of the audible state keeps its type; a
\* notification is on its way only to a listener that is there.
THEOREM TypeCorrect == Spec => []TypeOK
<1> QED BY InitType, NextType, PTL DEF Spec

-----------------------------------------------------------------------------
(* Only its own pauses *)

\* From the moment the app decides to pause until it has unpaused, it knows
\* whose pause it holds, or the user has intervened.  It has given up the claim
\* when it goes on to unpause.
Held ==
    /\ wePaused \/ block \in {"pausing", "unpausing"} =>
         paused # None /\ (paused = selectedMusicPlayer \/ overridden)
    /\ block = "unpausing" => ~ wePaused

\* The claim holds at first, when nothing is paused.
LEMMA InitHeld == Init => Held
  BY DEF Init, Held

\* Every step keeps the claim: of the app's only DecideToPause makes one and
\* only UnpausePlayer ends it; the user's steps record that they intervene.
LEMMA NextHeld == TypeOK /\ Held /\ [Next]_vars => Held'
<1> SUFFICES ASSUME TypeOK, Held, [Next]_vars PROVE Held'
  OBVIOUS
<1> USE AutoPauseAssumption DEF Held
<1>1. CASE IOCycle \/ RestartIO
  BY <1>1 DEF IOCycle, RestartIO, queues, players
<1>2. CASE Listener
  BY <1>2 DEF Listener, ReadAudibleState, QueuePauseBlock, QueueUnpauseBlock, ForgetPause,
     queues, players, history
<1>3. CASE RunPauseBlock \/ RunUnpauseBlock
  BY <1>3 DEF RunPauseBlock, RunUnpauseBlock, players, history
<1>4. CASE DecideToPause
  BY <1>4 DEF DecideToPause, players, TypeOK
<1>5. CASE DecideToUnpause
  BY <1>5 DEF DecideToUnpause, players, history
<1>6. CASE PausePlayer
  BY <1>6 DEF PausePlayer, history
<1>7. CASE UnpausePlayer
  BY <1>7 DEF UnpausePlayer
<1>8. CASE WorkPlayer
  BY <1>8 DEF WorkPlayer, queues, TypeOK
<1>9. CASE SelectMusicPlayer
  BY <1>9 DEF SelectMusicPlayer, queues, TypeOK
<1>10. CASE Enable \/ Disable
  BY <1>10 DEF Enable, Disable, queues, players, history
<1>11. CASE UNCHANGED vars
  BY <1>11 DEF vars, queues, players, history
<1> QED
  BY <1>1, <1>2, <1>3, <1>4, <1>5, <1>6, <1>7, <1>8, <1>9, <1>10, <1>11 DEF Next, FinishBlock

\* A step that unpauses a player from a claim that is held changes only the
\* player that was paused, or comes after the user intervened.
LEMMA UnpauseOfHeld ==
    TypeOK /\ Held /\ [Next]_vars =>
      [UnpausePlayer => \A p \in Players :
          player'[p] # player[p] => p = paused \/ overridden]_vars
  BY DEF TypeOK, Held, UnpausePlayer

\* The app never unpauses a player that it did not pause, unless the user has
\* worked that player or selected another one since.
THEOREM UnpausesOnlyItsOwn == Spec => UnpausesOwn
<1>1. Spec => [](TypeOK /\ Held)
  BY InitType, NextType, InitHeld, NextHeld, PTL DEF Spec
<1> QED BY <1>1, UnpauseOfHeld, PTL DEF Spec, UnpausesOwn
=============================================================================
