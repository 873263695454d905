---------------------------- MODULE AudibleState ----------------------------
(***************************************************************************)
(* What the driver tells the app about the audio it is given               *)
(* (NovaLINK_AudibleState.cpp): whether it is silent, silent except for    *)
(* the music player or audible.  A change takes effect once the audio has  *)
(* been different for a while.  Sample times are counted in IO cycles and  *)
(* as how long ago they were, which is all RecalculateState asks for;      *)
(* whether a buffer is audible is an input.                                *)
(***************************************************************************)
EXTENDS Integers

CONSTANT MinChanged     \* kDeviceAudibleStateMinChangedFramesForUpdate, in cycles

ASSUME AudibleAssumption == MinChanged \in Nat \ {0}

VARIABLES
    state,      \* mState
    since       \* cycles since each of mSampleTimes, up to MinChanged

audible == <<state, since>>

States == {"silent", "silentExceptMusic", "audible"}
Kinds == {"silent", "audibleNonMusic", "silentMusic", "audibleMusic"}
\* What a client's buffer holds; "none" if it does no output in this cycle.
Buffers == {"none", "silent", "audible"}

Reset ==
    /\ state' = "silent"
    /\ since' = [k \in Kinds |-> 0]

\* UpdateWithClientIO for each client and UpdateWithMixedIO for their mix: the
\* sample times this cycle brings up to date.
Heard(music, other) ==
    {k \in Kinds :
        \/ k = "audibleMusic" /\ music = "audible"
        \/ k = "silentMusic" /\ music = "silent"
        \/ k = "audibleNonMusic" /\ other = "audible"
        \/ k = "silent" /\ "audible" \notin {music, other}}

Aged(heard) ==
    [k \in Kinds |-> IF k \in heard THEN 0
                     ELSE IF since[k] = MinChanged THEN MinChanged ELSE since[k] + 1]

\* s are the times since the samples.  A time is zero after a cycle only if the
\* cycle brought such a sample.
RecalculateState(s) ==
    LET Long(k) == s[k] = MinChanged
        Now(k) == s[k] = 0
    IN  CASE state # "audible" /\ Long("silent") /\ Now("audibleNonMusic")
               -> "audible"
          [] /\ ~ (state # "audible" /\ Long("silent") /\ Now("audibleNonMusic"))
             /\ \/ state = "silent"
                \/ state = "audible" /\ Long("audibleNonMusic")
             /\ Long("silentMusic") /\ Now("audibleMusic")
               -> "silentExceptMusic"
          [] state # "silent" /\ Long("audibleNonMusic") /\ Long("audibleMusic")
               -> "silent"
          [] OTHER -> state

\* An IO cycle.
UpdateWithIO(music, other) ==
    /\ since' = Aged(Heard(music, other))
    /\ state' = RecalculateState(since')
=============================================================================
