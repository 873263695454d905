---------------------------- MODULE MCAutoPause ----------------------------
(***************************************************************************)
(* An instance of AutoPause for TLC: two music players.                    *)
(***************************************************************************)
EXTENDS AutoPause

CONSTANTS spotify, vlc

TwoPlayers == {spotify, vlc}
=============================================================================
