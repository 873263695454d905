---------------------------- MODULE MCAppProcesses ----------------------------
(***************************************************************************)
(* An instance of AppProcesses for TLC: the agent and two instances the    *)
(* user opens.                                                             *)
(***************************************************************************)
EXTENDS AppProcesses

CONSTANTS p1, p2, p3

ThreeProcs == {p1, p2, p3}
=============================================================================
