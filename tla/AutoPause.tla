----------------------------- MODULE AutoPause -----------------------------
(***************************************************************************)
(* Auto-pause: the driver's audible state, its notifications to the app,   *)
(* and the app pausing the selected music player while other audio plays   *)
(* (NovaLINKAutoPauseMusic.mm).                                            *)
(*                                                                         *)
(* The listener runs on one serial queue and queues delayed blocks on      *)
(* another; both read the state anew and share wePaused without a lock.    *)
(* A later block of a kind makes the earlier ones do nothing, so at most   *)
(* the latest one is kept.  Delays are not modelled: a queued block runs   *)
(* at any time.  The user works the players' own controls meanwhile.       *)
(***************************************************************************)
EXTENDS AudibleState

CONSTANTS
    Players,        \* music players the user can select
    None,           \* no player
    MaxNotes,       \* bound: notifications on their way (more are as good as this
                    \* many: each makes the listener read the state as it is then)
    MaxRestarts,    \* bound: how often IO stops and starts again
    MaxTouches      \* bound: what the user does

ASSUME AutoPauseAssumption ==
    /\ Players # {} /\ None \notin Players
    /\ {MaxNotes, MaxRestarts, MaxTouches} \subseteq Nat

VARIABLES
    restarts, touches,
    notes,          \* notifications of the audible state on their way
    enabled,
    heard,          \* the state the listener read and has yet to act on
    wePaused,
    pauseQueued,    \* the latest pause block waits for its delay
    unpauseQueued,
    block,          \* what pauseUnpauseMusicQueue does
    latest,         \* the block it runs is the latest of its kind
    player,         \* each player: playing, paused or not running
    selectedMusicPlayer,
    \* History:
    paused,         \* the player the app paused last and has not unpaused
    overridden,     \* the user changed that player or the selection since
    told,           \* the listener gets or got the last change of the state
    untouched       \* the user did nothing since the state last changed

device == <<audible, restarts>>
queues == <<pauseQueued, unpauseQueued, block, latest>>
players == <<player, selectedMusicPlayer>>
history == <<paused, overridden, told, untouched>>
vars == <<device, touches, notes, enabled, heard, wePaused, queues, players, history>>

TypeOK ==
    /\ state \in States /\ since \in [Kinds -> 0..MinChanged]
    /\ restarts \in 0..MaxRestarts /\ touches \in 0..MaxTouches
    /\ notes \in 0..MaxNotes /\ (notes > 0 => enabled)
    /\ heard \in States \cup {"nothing"}
    /\ enabled \in BOOLEAN /\ wePaused \in BOOLEAN /\ latest \in BOOLEAN
    /\ pauseQueued \in BOOLEAN /\ unpauseQueued \in BOOLEAN
    /\ block \in {"idle", "pause", "pausing", "unpause", "unpausing"}
    /\ player \in [Players -> {"playing", "paused", "closed"}]
    /\ selectedMusicPlayer \in Players /\ paused \in Players \cup {None}
    /\ overridden \in BOOLEAN /\ told \in BOOLEAN /\ untouched \in BOOLEAN

Init ==
    /\ state = "silent" /\ since = [k \in Kinds |-> 0]
    /\ restarts = 0 /\ touches = 0
    /\ notes = 0 /\ enabled = TRUE /\ heard = "nothing"
    /\ wePaused = FALSE
    /\ pauseQueued = FALSE /\ unpauseQueued = FALSE /\ block = "idle" /\ latest = FALSE
    /\ \E s \in {"playing", "paused"} : player = [p \in Players |-> s]
    /\ selectedMusicPlayer = CHOOSE p \in Players : TRUE   \* the user's default
    /\ paused = None /\ overridden = FALSE /\ told = TRUE /\ untouched = TRUE

selected == player[selectedMusicPlayer]

-----------------------------------------------------------------------------
(* The driver *)

\* An IO cycle; a change of the state is announced through the task queue.  A
\* player that does not play gives no audible buffers, but for the tail of what
\* it had played.
IOCycle ==
    /\ \E music \in Buffers, other \in Buffers \ {"none"} :
         /\ music = "audible" =>
              \/ selected = "playing"
              \/ since["audibleMusic"] < MinChanged /\ state # "silent"
         /\ UpdateWithIO(music, other)
    /\ IF state' = state
         THEN UNCHANGED <<notes, told, untouched>>
         ELSE /\ notes' = IF enabled /\ notes < MaxNotes THEN notes + 1 ELSE notes
              /\ told' = enabled
              /\ untouched' = TRUE
    /\ UNCHANGED <<restarts, touches, enabled, heard, wePaused, queues, players,
                   paused, overridden>>

\* IO stops and starts again: _HW_StartIO forgets the audible state without a
\* notification.  (While it is stopped there are just no cycles.)
RestartIO ==
    /\ restarts < MaxRestarts
    /\ restarts' = restarts + 1
    /\ Reset
    /\ told' = (told /\ (state = "silent" \/ notes > 0))
    /\ UNCHANGED <<touches, notes, enabled, heard, wePaused, queues, players,
                   paused, overridden, untouched>>

-----------------------------------------------------------------------------
(* The listener *)

\* The listener's block reads the state as it is by now.
ReadAudibleState ==
    /\ notes > 0 /\ heard = "nothing"
    /\ notes' = notes - 1
    /\ heard' = state
    /\ UNCHANGED <<device, touches, enabled, wePaused, queues, players, history>>

\* Mutant: no pause block is queued while the app holds a pause.
QueuePauseBlock_IfNotPaused ==
    /\ heard = "audible"
    /\ heard' = "nothing"
    /\ pauseQueued' = (pauseQueued \/ ~ wePaused)
    /\ latest' = (latest /\ block # "pause")
    /\ UNCHANGED <<device, touches, notes, enabled, wePaused, unpauseQueued, block,
                   players, history>>

\* queuePauseBlock: the new block is the only one to find wentAudible unchanged.
QueuePauseBlock ==
    /\ heard = "audible"
    /\ heard' = "nothing"
    /\ pauseQueued' = TRUE
    /\ latest' = (latest /\ block # "pause")
    /\ UNCHANGED <<device, touches, notes, enabled, wePaused, unpauseQueued, block,
                   players, history>>

\* Mutant: an unpause block is queued only if the app holds a pause.
QueueUnpauseBlock_IfPaused ==
    /\ heard = "silent"
    /\ heard' = "nothing"
    /\ unpauseQueued' = (unpauseQueued \/ wePaused)
    /\ latest' = (latest /\ block # "unpause")
    /\ UNCHANGED <<device, touches, notes, enabled, wePaused, pauseQueued, block,
                   players, history>>

QueueUnpauseBlock ==
    /\ heard = "silent"
    /\ heard' = "nothing"
    /\ unpauseQueued' = TRUE
    /\ latest' = (latest /\ block # "unpause")
    /\ UNCHANGED <<device, touches, notes, enabled, wePaused, pauseQueued, block,
                   players, history>>

\* Only music plays: if the user unpaused it, it is to be paused again later.
ForgetPause ==
    /\ heard = "silentExceptMusic"
    /\ heard' = "nothing"
    /\ wePaused' = FALSE
    /\ UNCHANGED <<device, touches, notes, enabled, queues, players, history>>

-----------------------------------------------------------------------------
(* The blocks *)

RunPauseBlock ==
    /\ pauseQueued /\ block = "idle"
    /\ pauseQueued' = FALSE
    /\ IF state = "audible"
         THEN block' = "pause" /\ latest' = TRUE
         ELSE UNCHANGED <<block, latest>>
    /\ UNCHANGED <<device, touches, notes, enabled, heard, wePaused, unpauseQueued,
                   players, history>>

\* Mutant: a pause is counted as ours whether or not the player was playing.
DecideToPause_Always ==
    /\ block = "pause"
    /\ IF ~ wePaused /\ latest
         THEN /\ block' = "pausing"
              /\ paused' = IF selected = "playing" THEN selectedMusicPlayer ELSE paused
              /\ overridden' = (overridden /\ selected # "playing")
         ELSE block' = "idle" /\ UNCHANGED <<paused, overridden>>
    /\ latest' = FALSE
    /\ UNCHANGED <<device, touches, notes, enabled, heard, wePaused, pauseQueued,
                   unpauseQueued, players, told, untouched>>

\* The block's condition, then the player's adapter asks whether it plays.
DecideToPause ==
    /\ block = "pause"
    /\ IF ~ wePaused /\ latest /\ selected = "playing"
         THEN /\ block' = "pausing"
              /\ paused' = selectedMusicPlayer /\ overridden' = FALSE
         ELSE block' = "idle" /\ UNCHANGED <<paused, overridden>>
    /\ latest' = FALSE
    /\ UNCHANGED <<device, touches, notes, enabled, heard, wePaused, pauseQueued,
                   unpauseQueued, players, told, untouched>>

\* The adapter tells the player to pause and returns that it was playing.
PausePlayer ==
    /\ block = "pausing"
    /\ block' = "idle"
    /\ wePaused' = TRUE
    /\ player' = [player EXCEPT ![selectedMusicPlayer] = IF @ = "playing" THEN "paused" ELSE @]
    /\ UNCHANGED <<device, touches, notes, enabled, heard, pauseQueued, unpauseQueued,
                   latest, selectedMusicPlayer, history>>

RunUnpauseBlock ==
    /\ unpauseQueued /\ block = "idle"
    /\ unpauseQueued' = FALSE
    /\ IF state = "silent"
         THEN block' = "unpause" /\ latest' = TRUE
         ELSE UNCHANGED <<block, latest>>
    /\ UNCHANGED <<device, touches, notes, enabled, heard, wePaused, pauseQueued,
                   players, history>>

DecideToUnpause ==
    /\ block = "unpause"
    /\ IF wePaused /\ latest
         THEN block' = "unpausing" /\ wePaused' = FALSE
         ELSE block' = "idle" /\ UNCHANGED wePaused
    /\ latest' = FALSE
    /\ UNCHANGED <<device, touches, notes, enabled, heard, pauseQueued, unpauseQueued,
                   players, history>>

UnpausePlayer ==
    /\ block = "unpausing"
    /\ block' = "idle"
    /\ player' = [player EXCEPT ![selectedMusicPlayer] = IF @ = "paused" THEN "playing" ELSE @]
    /\ paused' = None /\ overridden' = FALSE
    /\ UNCHANGED <<device, touches, notes, enabled, heard, wePaused, pauseQueued,
                   unpauseQueued, latest, selectedMusicPlayer, told, untouched>>

-----------------------------------------------------------------------------
(* The user *)

Touch ==
    /\ touches < MaxTouches
    /\ touches' = touches + 1

\* In the selected player's own window; what the other one does is other audio.
WorkPlayer ==
    /\ Touch
    /\ \E s \in {"playing", "paused", "closed"} \ {selected} :
         player' = [player EXCEPT ![selectedMusicPlayer] = s]
    /\ overridden' = (overridden \/ paused = selectedMusicPlayer)
    /\ untouched' = FALSE
    /\ UNCHANGED <<device, notes, enabled, heard, wePaused, queues, selectedMusicPlayer,
                   paused, told>>

\* NovaLINKMusicPlayers; wePaused is not told.
SelectMusicPlayer ==
    /\ Touch
    /\ \E p \in Players \ {selectedMusicPlayer} : selectedMusicPlayer' = p
    /\ overridden' = (overridden \/ paused # None)
    /\ untouched' = FALSE
    /\ UNCHANGED <<device, notes, enabled, heard, wePaused, queues, player, paused, told>>

\* The menu item's toggle.  Removing the listener waits for its block.
Enable ==
    /\ ~ enabled
    /\ enabled' = TRUE
    /\ UNCHANGED <<device, touches, notes, heard, wePaused, queues, players, history>>

Disable ==
    /\ Touch /\ enabled /\ heard = "nothing"
    /\ enabled' = FALSE
    /\ notes' = 0
    /\ told' = (told /\ notes = 0)
    /\ UNCHANGED <<device, heard, wePaused, queues, players, paused, overridden, untouched>>

-----------------------------------------------------------------------------
Listener == ReadAudibleState \/ QueuePauseBlock \/ QueueUnpauseBlock \/ ForgetPause
FinishBlock == DecideToPause \/ PausePlayer \/ DecideToUnpause \/ UnpausePlayer

Next ==
    \/ IOCycle \/ RestartIO
    \/ Listener
    \/ RunPauseBlock \/ RunUnpauseBlock \/ FinishBlock
    \/ WorkPlayer \/ SelectMusicPlayer \/ Enable \/ Disable

\* Notifications arrive, and each block runs after its delay: a serial queue
\* serves all its blocks.
Fairness ==
    /\ WF_vars(Listener) /\ WF_vars(FinishBlock)
    /\ SF_vars(RunPauseBlock) /\ SF_vars(RunUnpauseBlock)

Spec == Init /\ [][Next]_vars /\ Fairness

\* The app unpauses only a player that it paused itself, unless the user has
\* worked that player or selected another one since: what the user paused
\* before the other audio came stays paused.
UnpausesOwn ==
    [][UnpausePlayer => \A p \in Players :
          player'[p] # player[p] => p = paused \/ overridden]_vars

\* Auto-pause's purpose: other audio does not go on for ever over music that
\* plays, if the listener was told of it, the user left everything as it was
\* and the app does not hold a pause the user has overridden.
MusicPauses ==
    []<> ~ (state = "audible" /\ told /\ untouched /\ ~ wePaused /\ selected = "playing")

\* Music the app paused does not stay paused in a silence that goes on for
\* ever, if the listener was told of the silence.
MusicResumes == []<> ~ (state = "silent" /\ told /\ wePaused)
=============================================================================
