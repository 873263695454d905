---------------------------- MODULE MCClientMap ----------------------------
(***************************************************************************)
(* An instance of ClientMap for TLC: two clients of one process.           *)
(***************************************************************************)
EXTENDS ClientMap

CONSTANTS k1, k2, app, zoom, appBundle, zoomBundle, noBundle, h1, io1

TwoClients == {k1, k2}
TwoPIDs == {app, zoom}
TwoBundles == {appBundle, zoomBundle}
OneHost == {appBundle}
OneHALThread == {h1}
OneIOThread == {io1}

\* Both clients belong to the other process, the second without a bundle ID.
OneProcess == [id \in ClientIDs |-> zoom]
OneBundle == [id \in ClientIDs |-> IF id = k1 THEN zoomBundle ELSE noBundle]
=============================================================================
