---------------------------- MODULE ClientJoin ----------------------------
(***************************************************************************)
(* How a client gets into the game of a server, and from map to map.  The  *)
(* server says which map it runs; the client loads it, downloading it      *)
(* first if need be, and says READY; the server makes a player and says    *)
(* CON_READY; the client sets up its layers from the map it has loaded and *)
(* sends its START_INFO; the server says READY_TO_ENTER and the client     *)
(* ENTERGAME.  A map change starts this again for everybody, while the     *)
(* messages of the last time may still be on their way.                    *)
(*                                                                         *)
(* One slot of the server with the clients that use it one after another.  *)
(* All these messages are vital: each direction is a queue, as             *)
(* NetConnection promises.  A map is downloaded in one chunk, from the     *)
(* web, or, if that fails, from the server.                                *)
(***************************************************************************)
EXTENDS Integers, Sequences

CONSTANTS
    MaxMaps,    \* bound: maps that the server runs one after another
    MaxJoins    \* bound: times that a client connects

ASSUME JoinAssumption == MaxMaps \in Nat \ {0} /\ MaxJoins \in Nat \ {0}

VARIABLES
    serverMap,  \* server: the map it runs
    slot,       \* server: m_State of the slot
    player,     \* server: m_apPlayers of the slot, and its m_IsReady
    client,     \* client: the map it has loaded, the map of its layers, the map it
                \* wants to download, whether from the web, and as history whether
                \* such a download has outlasted a map change and whether the client
                \* has started anew just before it would have entered the game
    toServer,   \* vital messages in flight
    toClient,
    joins       \* how often a client has connected

joinVars == <<serverMap, slot, player, client, toServer, toClient, joins>>

Map == 1 .. MaxMaps
None == 0
State == {"EMPTY", "PREAUTH", "AUTH", "CONNECTING", "READY", "INGAME"}
Client == [map : Map \union {None}, layers : Map \union {None},
           wanted : Map \union {None}, web : BOOLEAN, outlasted : BOOLEAN, anew : BOOLEAN]
Fresh == [map |-> None, layers |-> None, wanted |-> None, web |-> FALSE,
          outlasted |-> FALSE, anew |-> FALSE]

Msg(type) == [type |-> type, map |-> None]
MapMsg(type, m) == [type |-> type, map |-> m]

JoinInit == /\ serverMap = 1
            /\ slot = "EMPTY"
            /\ player = "none"
            /\ client = Fresh
            /\ toServer = <<>>
            /\ toClient = <<>>
            /\ joins = 0

-----------------------------------------------------------------------------
(* A client comes and goes. *)

\* NewClientCallback, or NewClientNoAuthCallback for one without a handshake.
Connect ==
    /\ slot = "EMPTY"
    /\ joins < MaxJoins
    /\ joins' = joins + 1
    /\ client' = Fresh
    /\ toServer' = <<Msg("CLIENTVER"), Msg("INFO")>>
    /\ \/ slot' = "PREAUTH" /\ toClient' = <<>>
       \/ slot' = "CONNECTING" /\ toClient' = <<MapMsg("MAP_CHANGE", serverMap)>>
    /\ UNCHANGED <<serverMap, player>>

\* ClientRejoinCallback: the client has started anew and the slot goes on.
Rejoin ==
    /\ slot # "EMPTY"
    /\ joins < MaxJoins
    /\ joins' = joins + 1
    /\ client' = [Fresh EXCEPT !.anew = slot = "READY" /\ player = "ready"]
    /\ toServer' = <<Msg("CLIENTVER"), Msg("INFO")>>
    /\ toClient' = <<MapMsg("MAP_CHANGE", serverMap)>>
    /\ UNCHANGED <<serverMap, slot, player>>

\* The player of a client that had not entered the game is left behind.
FaultyDrop ==
    /\ slot # "EMPTY"
    /\ slot' = "EMPTY"
    /\ player' = IF slot = "INGAME" THEN "none" ELSE player
    /\ client' = Fresh
    /\ toServer' = <<>>
    /\ toClient' = <<>>
    /\ UNCHANGED <<serverMap, joins>>

\* DelClientCallback, whoever ended the connection and why.
Drop ==
    /\ slot # "EMPTY"
    /\ slot' = "EMPTY"
    /\ player' = IF slot \in {"READY", "INGAME"} THEN "none" ELSE player
    /\ client' = Fresh
    /\ toServer' = <<>>
    /\ toClient' = <<>>
    /\ UNCHANGED <<serverMap, joins>>

-----------------------------------------------------------------------------
(* The server. *)

\* Run loads another map: there are no players any more, and every client that is
\* past the handshake has to load the map.
MapReload ==
    /\ serverMap < MaxMaps
    /\ serverMap' = serverMap + 1
    /\ player' = "none"
    /\ IF slot \in {"EMPTY", "PREAUTH", "AUTH"}
       THEN UNCHANGED <<slot, toClient>>
       ELSE /\ slot' = "CONNECTING"
            /\ toClient' = Append(toClient, MapMsg("MAP_CHANGE", serverMap'))
    /\ UNCHANGED <<client, toServer, joins>>

RecvClientVer ==
    /\ slot' = IF slot = "PREAUTH" THEN "AUTH" ELSE slot
    /\ UNCHANGED <<player, toClient>>

\* What is wrong with version or password ends in Drop.
RecvInfo ==
    /\ IF slot \in {"PREAUTH", "AUTH"}
       THEN /\ slot' = "CONNECTING"
            /\ toClient' = Append(toClient, MapMsg("MAP_CHANGE", serverMap))
       ELSE UNCHANGED <<slot, toClient>>
    /\ UNCHANGED player

RecvMapRequest ==
    /\ toClient' = IF slot \in {"EMPTY", "PREAUTH", "AUTH"}
                   THEN toClient
                   ELSE Append(toClient, MapMsg("MAP_DATA", serverMap))
    /\ UNCHANGED <<slot, player>>

\* Only the first READY is answered.
FaultyRecvReady ==
    IF slot = "CONNECTING"
    THEN /\ slot' = "READY"
         /\ player' = "connected"
         /\ toClient' = Append(toClient, Msg("CON_READY"))
    ELSE UNCHANGED <<slot, player, toClient>>

\* READY is answered in every state.
RecvReady ==
    /\ IF slot = "CONNECTING"
       THEN slot' = "READY" /\ player' = "connected"
       ELSE UNCHANGED <<slot, player>>
    /\ toClient' = Append(toClient, Msg("CON_READY"))

\* OnStartInfo; game messages count once the client has a player.
RecvStartInfo ==
    /\ IF slot \in {"READY", "INGAME"} /\ player = "connected"
       THEN /\ player' = "ready"
            /\ toClient' = Append(toClient, Msg("READY_TO_ENTER"))
       ELSE UNCHANGED <<player, toClient>>
    /\ UNCHANGED slot

RecvEnterGame ==
    /\ slot' = IF slot = "READY" /\ player = "ready" THEN "INGAME" ELSE slot
    /\ UNCHANGED <<player, toClient>>

ProcessClientPacket ==
    /\ toServer # <<>>
    /\ LET type == Head(toServer).type
       IN \/ type = "CLIENTVER" /\ RecvClientVer
          \/ type = "INFO" /\ RecvInfo
          \/ type = "REQUEST_MAP_DATA" /\ RecvMapRequest
          \/ type = "READY" /\ RecvReady
          \/ type = "START_INFO" /\ RecvStartInfo
          \/ type = "ENTERGAME" /\ RecvEnterGame
    /\ toServer' = Tail(toServer)
    /\ UNCHANGED <<serverMap, client, joins>>

-----------------------------------------------------------------------------
(* The client. *)

Send(type) == toServer' = Append(toServer, Msg(type))

\* The client has the map.  A download of another map goes on.
FindMap(m) ==
    /\ client' = [client EXCEPT !.map = m, !.outlasted = @ \/ client.web]
    /\ Send("READY")

\* The client does not have the map.  It tries the web first if it knows the
\* map's digest.
WantMap(m) ==
    \/ /\ client' = [client EXCEPT !.wanted = m, !.web = TRUE]
       /\ UNCHANGED toServer
    \/ /\ client' = [client EXCEPT !.wanted = m, !.web = FALSE]
       /\ Send("REQUEST_MAP_DATA")

\* Data of another map, or that nobody waits for, is ignored.
RecvMapData(m) ==
    IF client.wanted = m /\ ~client.web
    THEN /\ client' = [client EXCEPT !.map = m, !.wanted = None]
         /\ Send("READY")
    ELSE UNCHANGED <<client, toServer>>

\* OnConnected
RecvConReady ==
    /\ client' = [client EXCEPT !.layers = client.map]
    /\ Send("START_INFO")

RecvReadyToEnter == Send("ENTERGAME") /\ UNCHANGED client

ProcessServerPacket ==
    /\ toClient # <<>>
    /\ LET msg == Head(toClient)
       IN \/ msg.type = "MAP_CHANGE" /\ FindMap(msg.map)
          \/ msg.type = "MAP_CHANGE" /\ WantMap(msg.map)
          \/ msg.type = "MAP_DATA" /\ RecvMapData(msg.map)
          \/ msg.type = "CON_READY" /\ RecvConReady
          \/ msg.type = "READY_TO_ENTER" /\ RecvReadyToEnter
    /\ toClient' = Tail(toClient)
    /\ UNCHANGED <<serverMap, slot, player, joins>>

\* The web had the map: it is loaded, whatever map the server runs now.
FinishWebDownload ==
    /\ client.web
    /\ client' = [client EXCEPT !.map = client.wanted, !.wanted = None, !.web = FALSE]
    /\ Send("READY")
    /\ UNCHANGED <<serverMap, slot, player, toClient, joins>>

\* The client falls back to the server.
FailWebDownload ==
    /\ client.web
    /\ client' = [client EXCEPT !.web = FALSE]
    /\ Send("REQUEST_MAP_DATA")
    /\ UNCHANGED <<serverMap, slot, player, toClient, joins>>

-----------------------------------------------------------------------------
WebDownload == FinishWebDownload \/ FailWebDownload

JoinNext == \/ Connect \/ Rejoin \/ Drop
            \/ MapReload \/ ProcessClientPacket
            \/ ProcessServerPacket \/ WebDownload

JoinSpec == JoinInit /\ [][JoinNext]_joinVars

\* Messages arrive, as NetConnection promises, and the web answers or times out.
\* Nobody has to connect, to leave or to change the map.
FairJoinSpec == /\ JoinSpec
                /\ WF_joinVars(ProcessClientPacket) /\ WF_joinVars(ProcessServerPacket)
                /\ WF_joinVars(WebDownload)

-----------------------------------------------------------------------------
(* Properties. *)

ToServerMsg == [type : {"CLIENTVER", "INFO", "REQUEST_MAP_DATA", "READY", "START_INFO",
                        "ENTERGAME"}, map : {None}]
ToClientMsg == [type : {"MAP_CHANGE", "MAP_DATA"}, map : Map]
               \union [type : {"CON_READY", "READY_TO_ENTER"}, map : {None}]

TypeOK == /\ serverMap \in Map
          /\ slot \in State
          /\ player \in {"none", "connected", "ready"}
          /\ client \in Client
          /\ client.web => client.wanted # None
          /\ toServer \in Seq(ToServerMsg)
          /\ toClient \in Seq(ToClientMsg)
          /\ joins \in 0 .. MaxJoins

(***************************************************************************)
(* Server and game agree on who has a player: the game's callbacks use     *)
(* m_apPlayers of every client that is READY or INGAME without asking, and *)
(* nobody else's is left behind, also by messages that cross a map change. *)
(***************************************************************************)
PlayerIffReady == (slot \in {"READY", "INGAME"}) <=> (player # "none")

(***************************************************************************)
(* However map changes, rejoins and the messages of earlier rounds cross,  *)
(* a client that stays ends in the game, with the server's map loaded and  *)
(* its layers set up from it, unless a download outlasted a map change, or *)
(* the client started anew when the game had its START_INFO and it had not *)
(* entered the game: the game does not answer another START_INFO.          *)
(***************************************************************************)
Settles ==
    <>[](\/ slot = "EMPTY"
         \/ client.outlasted
         \/ client.anew /\ slot = "READY"
         \/ slot = "INGAME" /\ client.map = serverMap /\ client.layers = serverMap)
=============================================================================
