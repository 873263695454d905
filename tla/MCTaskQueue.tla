---------------------------- MODULE MCTaskQueue ----------------------------
(***************************************************************************)
(* Instances of TaskQueue for TLC.  NovaLINK_Clients and the IO threads     *)
(* are the callers and the producers.                                      *)
(***************************************************************************)
EXTENDS TaskQueue

CONSTANTS c1, p1, a1

OneCaller == {c1}
OneProducer == {p1}
Nobody == {}
OneTask == {a1}
=============================================================================
