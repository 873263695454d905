-------------------------- MODULE ClientRegistry ---------------------------
(***************************************************************************)
(* What NovaLINK_ClientMap promises to NovaLINK_Clients and to the IO      *)
(* threads: one map of clients, in which every update and every query      *)
(* takes effect in a single step.                                          *)
(***************************************************************************)
EXTENDS ClientRecords

CONSTANT Readers    \* threads that query the map

VARIABLES
    clients,        \* the map
    answer          \* thread -> the answer to its last query

registryVars == <<clients, answer>>

RegistryInit ==
    /\ clients = NoClients
    /\ answer = [r \in Readers |-> FALSE]

AddClient(id, isMusicPlayer) ==
    /\ clients[id] = Absent
    /\ clients' = [clients EXCEPT ![id] = NewClient(isMusicPlayer)]

RemoveClient(id) ==
    /\ clients[id] # Absent
    /\ clients' = [clients EXCEPT ![id] = Absent]

UpdateMusicPlayerFlags(players) == clients' = WithMusicPlayers(clients, players)

\* A client's flags change only when they must, and only while it is there.
UpdateClientIOState(id, doingIO) ==
    /\ clients[id] # Absent
    /\ clients[id].mDoingIO # doingIO
    /\ clients' = [clients EXCEPT ![id] = WithDoingIO(@, doingIO)]

StartInputIO(id) ==
    /\ ClientShouldMarkInputIO(clients, id)
    /\ clients' = [clients EXCEPT ![id] = WithInputIO(@)]

Update ==
    \/ \E id \in ClientIDs, b \in BOOLEAN : AddClient(id, b)
    \/ \E id \in ClientIDs : RemoveClient(id)
    \/ \E players \in PlayerSets : UpdateMusicPlayerFlags(players)
    \/ \E id \in ClientIDs, b \in BOOLEAN : UpdateClientIOState(id, b)
    \/ \E id \in ClientIDs : StartInputIO(id)

Answers(m, id) ==
    {ClientShouldMarkInputIO(m, id), KnownPassthroughHost(m, id), IsMusicPlayer(m, id)}

Query(r) ==
    \E id \in ClientIDs : \E a \in Answers(clients, id) : answer' = [answer EXCEPT ![r] = a]

RegistryNext ==
    \/ Update /\ UNCHANGED answer
    \/ \E r \in Readers : Query(r) /\ UNCHANGED clients

RegistrySpec == RegistryInit /\ [][RegistryNext]_registryVars
=============================================================================
