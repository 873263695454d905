----------------------------- MODULE MCClients -----------------------------
(***************************************************************************)
(* Instances of Clients for TLC: clients of the companion app and of other *)
(* processes.                                                              *)
(***************************************************************************)
EXTENDS Clients, TLC

CONSTANTS k1, k2, k3, app, zoom, appBundle, zoomBundle, noBundle

ThreeClients == {k1, k2, k3}
AppAndZoom == {app, zoom}
BothBundles == {appBundle, zoomBundle}

\* k1 and k2 are of the app; k3 of a process without a bundle ID.
TwoOfApp == [id \in ClientIDs |-> IF id \in {k1, k2} THEN app ELSE zoom]
TwoOfAppBundle == [id \in ClientIDs |-> IF id \in {k1, k2} THEN appBundle ELSE noBundle]

SymmetryOfApp == Permutations({k1, k2})

\* The properties are set and unset.
AppPID == {app, Unset}
AppBundle == {appBundle}
=============================================================================
