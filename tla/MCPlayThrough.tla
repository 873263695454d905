--------------------------- MODULE MCPlayThrough ---------------------------
(***************************************************************************)
(* Instances of PlayThrough for TLC: one thread that runs queued blocks,   *)
(* the device manager's thread, a thread waiting for the output.           *)
(***************************************************************************)
EXTENDS PlayThrough

CONSTANTS w1, manager, x1

None == {}
OneWorker == {w1}
Manager == {manager}
OneWaiter == {x1}
=============================================================================
