--------------------------- MODULE ClientRecords ---------------------------
(***************************************************************************)
(* NovaLINK_Client: what the driver keeps of each client of the HAL, and   *)
(* the questions its threads ask about one.                                *)
(*                                                                         *)
(* A client's PID and bundle ID never change, so they are functions of its *)
(* client ID; only the flags that change are fields of a record.           *)
(***************************************************************************)
CONSTANTS
    ClientIDs,      \* the client IDs the HAL hands out
    PIDs,           \* process IDs
    Bundles,        \* valid bundle IDs
    PIDOf,          \* mProcessID of each client
    BundleOf,       \* mBundleID of each client; not in Bundles if invalid
    HostBundles,    \* kNovaLINKAppBundleID and kNovaLINKXPCHelperBundleID
    Absent          \* not a client

Client == [mDoingIO : BOOLEAN, mDoingInputIO : BOOLEAN, mIsMusicPlayer : BOOLEAN]

ASSUME ClientsAssumption ==
    /\ PIDOf \in [ClientIDs -> PIDs]
    /\ DOMAIN BundleOf = ClientIDs
    /\ HostBundles \subseteq Bundles
    /\ Absent \notin Client

\* A map from client IDs to clients.
ClientMaps == [ClientIDs -> Client \cup {Absent}]
NoClients == [id \in ClientIDs |-> Absent]

\* Set by NovaLINK_Clients::AddClient and never changed.
IsPassthroughHost(id) == BundleOf[id] \in HostBundles

NewClient(isMusicPlayer) ==
    [mDoingIO |-> FALSE, mDoingInputIO |-> FALSE, mIsMusicPlayer |-> isMusicPlayer]

\* operator[] of std::map: a missing client is created first.
AtOrNew(m, id) == IF m[id] = Absent THEN NewClient(FALSE) ELSE m[id]

\* Starting IO keeps the input flag, stopping clears it.
WithDoingIO(c, doingIO) ==
    [c EXCEPT !.mDoingIO = doingIO, !.mDoingInputIO = doingIO /\ @]

WithInputIO(c) == [c EXCEPT !.mDoingInputIO = TRUE]

\* The clients of a process, those with a bundle ID, and none: what the music
\* player properties can select.
PlayerSets ==
    {{}} \cup {{id \in ClientIDs : PIDOf[id] = p} : p \in PIDs}
         \cup {{id \in ClientIDs : BundleOf[id] = b} : b \in Bundles}

\* mIsMusicPlayer of every client is set to whether it is one of players.
WithMusicPlayers(m, players) ==
    [id \in ClientIDs |->
       IF m[id] = Absent THEN Absent ELSE [m[id] EXCEPT !.mIsMusicPlayer = id \in players]]

\* The queries.  A client that is not in the map answers FALSE to each.
ClientShouldMarkInputIO(m, id) ==
    m[id] # Absent /\ ~IsPassthroughHost(id) /\ m[id].mDoingIO /\ ~m[id].mDoingInputIO

KnownPassthroughHost(m, id) == m[id] # Absent /\ IsPassthroughHost(id)

IsMusicPlayer(m, id) == m[id] # Absent /\ m[id].mIsMusicPlayer
=============================================================================
