----------------------- MODULE MCPlayThroughHandover -----------------------
(***************************************************************************)
(* An instance of PlayThroughHandover for TLC: the app makes at most three *)
(* connections, over its launches, retries and breaks.                     *)
(***************************************************************************)
EXTENDS PlayThroughHandover

CONSTANTS c1, c2, c3

ThreeConns == {c1, c2, c3}
=============================================================================
