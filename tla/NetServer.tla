----------------------------- MODULE NetServer -----------------------------
(***************************************************************************)
(* The slots of CNetServer and the clients that connect to them: the       *)
(* handshake with and without security tokens, closing, timing out, the    *)
(* timeout protection that keeps a tee whose client went silent, and the   *)
(* takeover of that tee by the "/timeout" command of a new connection.     *)
(*                                                                         *)
(* Next to each slot stands what CServer and CGameContext keep under the   *)
(* same index; the callbacks that CNetServer makes keep the two in step.   *)
(*                                                                         *)
(* The chunks of a session are those of module NetConnection.  Only the    *)
(* client's first vital chunk, NETMSG_INFO, is left here, so m_Sequence,   *)
(* m_Ack and m_PeerAck of that stream are 0 or 1.  Timers may run out      *)
(* whenever Update runs.  Clients of protocol 0.7 are left out.            *)
(***************************************************************************)
EXTENDS Integers, FiniteSets

CONSTANTS
    Client,             \* the addresses, IP and port, that clients use
    IP,                 \* the IP of each address
    Code,               \* the timeout code of the player behind each address
    Vanilla,            \* the clients that know no security tokens
    Antispoof,          \* sv_vanilla_antispoof is set and there is no password
    MaxClients,         \* m_MaxClients
    MaxClientsPerIP,    \* m_MaxClientsPerIP
    NoClient,           \* no address, and no timeout code
    Orderly,            \* whether packets arrive in order, once, or not at all
    MaxConnects,        \* bound: times each client connects
    NetCap              \* bound: distinct packets in flight

ASSUME ClientAssumption == /\ NoClient \notin Client
                           /\ \A c \in Client : Code[c] # NoClient
                           /\ Vanilla \subseteq Client
                           /\ {Antispoof, Orderly} \subseteq BOOLEAN

ASSUME SlotAssumption == /\ MaxClients \in Nat \ {0}
                         /\ MaxClientsPerIP \in Nat \ {0}
                         /\ MaxConnects \in [Client -> Nat]
                         /\ NetCap \in Nat

Slot == 0 .. MaxClients - 1

VARIABLES
    conn,       \* the CNetConnection of each client
    slot,       \* m_aSlots: the CNetConnection of each slot
    game,       \* m_aClients[].m_State, as far as it concerns the slots
    code,       \* m_aTimeoutCode of each slot's player
    net,        \* the packets in flight
    connects    \* bound: how often each client has connected

vars == <<conn, slot, game, code, net, connects>>

Connection == [state : {"OFFLINE", "CONNECT", "ONLINE", "ERROR"},
               sequence : {0, 1}, peerAck : {0, 1}]
SlotConnection == [state : {"OFFLINE", "ONLINE", "ERROR"},
                   addr : Client \union {NoClient}, ack : {0, 1},
                   remoteClosed : BOOLEAN, protected : BOOLEAN, timeout : BOOLEAN]
Packet == [to : {"server"}, client : Client, ack : {0},
           kind : {"CONNECT", "ACCEPT", "CLOSE", "DATA"}]
          \union [to : {"client"}, client : Client, ack : {0, 1},
                  kind : {"CONNECTACCEPT", "CLOSE", "DATA"}]

TypeOK == /\ conn \in [Client -> Connection]
          /\ slot \in [Slot -> SlotConnection]
          /\ game \in [Slot -> {"EMPTY", "PREAUTH", "CONNECTING", "INGAME"}]
          /\ code \in [Slot -> {Code[c] : c \in Client} \union {NoClient}]
          /\ net \subseteq Packet
          /\ connects \in [Client -> Nat]

\* A CNetConnection after Reset().  m_PeerAddr, which nobody reads while the
\* connection is offline, is forgotten too.
Offline == [state |-> "OFFLINE", sequence |-> 0, peerAck |-> 0]
Free == [state |-> "OFFLINE", addr |-> NoClient, ack |-> 0,
         remoteClosed |-> FALSE, protected |-> FALSE, timeout |-> FALSE]

Init == /\ conn = [c \in Client |-> Offline]
        /\ slot = [i \in Slot |-> Free]
        /\ game = [i \in Slot |-> "EMPTY"]
        /\ code = [i \in Slot |-> NoClient]
        /\ net = {}
        /\ connects = [c \in Client |-> 0]

-----------------------------------------------------------------------------
(* The path. *)

ToServer(c, kind) == [to |-> "server", client |-> c, ack |-> 0, kind |-> kind]
ToClient(c, kind, ack) == [to |-> "client", client |-> c, ack |-> ack, kind |-> kind]

\* What is left in flight when m has arrived: m too, if it will arrive again.
Left(m) == {net \ {m}} \union (IF Orderly THEN {} ELSE {net})

\* p has arrived, or is lost, by the time q is sent over an orderly path.
IsOvertaken(p, q) == Orderly /\ p.client = q.client /\ p.to = q.to

\* The packets ps are sent while others travel; a full path loses them.
SendOver(left, ps) ==
    \E base \in left :
       LET ahead == {p \in base : \A q \in ps : ~IsOvertaken(p, q)} IN
       net' = IF Cardinality(ahead \union ps) <= NetCap THEN ahead \union ps ELSE ahead

Send(ps) == SendOver({net}, ps)

\* A timeout is longer than a packet travels over an orderly path.
HasArrived(c) == Orderly => \A m \in net : m.client # c

Lose(m) == /\ m \in net
           /\ net' = net \ {m}
           /\ UNCHANGED <<conn, slot, game, code, connects>>

-----------------------------------------------------------------------------
(* A client. *)

\* Connect: Reset, and the first CONNECT.  Over an orderly path, the packets of
\* the client's earlier connection are gone by now.
Connect(c) ==
    /\ conn[c].state = "OFFLINE"
    /\ connects[c] < MaxConnects[c]
    /\ conn' = [conn EXCEPT ![c] = [Offline EXCEPT !.state = "CONNECT"]]
    /\ SendOver({IF Orderly THEN {m \in net : m.client # c} ELSE net},
                {ToServer(c, "CONNECT")})
    /\ connects' = [connects EXCEPT ![c] = @ + 1]
    /\ UNCHANGED <<slot, game, code>>

\* Reset has cleared the addresses to connect to.
FaultySendConnect(c) ==
    /\ conn[c].state = "CONNECT"
    /\ UNCHANGED vars

\* Update while connecting: another CONNECT every 500 ms, without end.
SendConnect(c) ==
    /\ conn[c].state = "CONNECT"
    /\ Send({ToServer(c, "CONNECT")})
    /\ UNCHANGED <<conn, slot, game, code, connects>>

\* The client queues NETMSG_INFO, or Update resends it until it is acked.  What
\* a vanilla client sends stands for NETMSG_INPUT, with the token it was given.
SendData(c) ==
    /\ conn[c].state = "ONLINE"
    /\ conn[c].peerAck = 0
    /\ conn' = [conn EXCEPT ![c].sequence = IF c \in Vanilla THEN 0 ELSE 1]
    /\ Send({ToServer(c, "DATA")})
    /\ UNCHANGED <<slot, game, code, connects>>

\* Nothing received yet passes for nothing to time out.
FaultyClientTimeout(c) ==
    /\ conn[c].state = "ONLINE" /\ conn[c].peerAck = 1
    /\ conn' = [conn EXCEPT ![c] = Offline]
    /\ UNCHANGED <<slot, game, code, net, connects>>

\* Update: nothing was received for conn_timeout; CNetClient::Update turns the
\* error into Disconnect, which tells the server nothing in a timeout situation.
ClientTimeout(c) ==
    /\ conn[c].state = "ONLINE"
    /\ HasArrived(c)
    /\ conn' = [conn EXCEPT ![c] = Offline]
    /\ UNCHANGED <<slot, game, code, net, connects>>

\* Disconnect, by the user, or by CNetClient::Update once the server closed.
\* A client that is still connecting has no peer address to send CLOSE to.
Disconnect(c) ==
    /\ conn[c].state # "OFFLINE"
    /\ conn' = [conn EXCEPT ![c] = Offline]
    /\ Send(IF conn[c].state = "ONLINE" THEN {ToServer(c, "CLOSE")} ELSE {})
    /\ UNCHANGED <<slot, game, code, connects>>

\* The ack test of Feed; the numbers here do not wrap.
IsAckValid(c, a) == conn[c].peerAck <= a /\ a <= conn[c].sequence

\* CNetClient::Recv and Feed.
ClientFeed(m) ==
    LET c == m.client
        accepted == m.kind = "CONNECTACCEPT" /\ conn[c].state = "CONNECT"
    IN /\ m.to = "client"
       /\ conn[c].state \in {"CONNECT", "ONLINE"}
       /\ IsAckValid(c, m.ack)
       /\ conn' = [conn EXCEPT ![c].peerAck = m.ack,
                               ![c].state = IF m.kind = "CLOSE" THEN "ERROR"
                                            ELSE IF accepted THEN "ONLINE" ELSE @]
       /\ SendOver(Left(m), IF accepted THEN {ToServer(c, "ACCEPT")} ELSE {})
       /\ UNCHANGED <<slot, game, code, connects>>

-----------------------------------------------------------------------------
(* Accepting clients.  Definitions named Faulty... are variants with a bug  *)
(* that the runs use to see a property fail; no specification uses them.    *)

\* GetClientSlot: the slots in session with c; there is at most one.
ClientSlots(c) == {i \in Slot : slot[i].state = "ONLINE" /\ slot[i].addr = c}

\* A slot kept for a player whose client went silent.
IsKept(i) == slot[i].state = "ERROR" /\ slot[i].protected /\ slot[i].timeout

\* Only the slots in session count, not those kept for silent clients.
FaultyNumClientsWithAddr(c) ==
    Cardinality({i \in Slot : slot[i].state = "ONLINE" /\ IP[slot[i].addr] = IP[c]})

NumClientsWithAddr(c) ==
    Cardinality({i \in Slot : /\ slot[i].state = "ONLINE" \/ IsKept(i)
                              /\ IP[slot[i].addr] = IP[c]})

\* TryAcceptClient refuses: clients of this address connect too fast (Connlimit,
\* which may say so at any time here), too many of this IP, or the server is full.
Refuse(c, left, answer) ==
    /\ SendOver(left, answer \union {ToClient(c, "CLOSE", 0)})
    /\ UNCHANGED <<slot, game, code>>

\* TryAcceptClient accepts c into the first free slot and tells CServer, by
\* NewClientNoAuth if the client has been through the vanilla handshake.
Accept(c, left, answer, vanillaAuth) ==
    /\ NumClientsWithAddr(c) + 1 <= MaxClientsPerIP
    /\ \E i \in Slot :
          /\ slot[i].state = "OFFLINE"
          /\ \A j \in Slot : j < i => slot[j].state # "OFFLINE"
          /\ slot' = [slot EXCEPT ![i] = [Free EXCEPT !.state = "ONLINE", !.addr = c]]
          /\ game' = [game EXCEPT ![i] = IF vanillaAuth THEN "CONNECTING" ELSE "PREAUTH"]
    /\ SendOver(left, answer)
    /\ UNCHANGED code

TryAcceptClient(c, left, answer, vanillaAuth) ==
    Refuse(c, left, answer) \/ Accept(c, left, answer, vanillaAuth)

\* CONNECT: a client without tokens is accepted at once, unless it first has to
\* show that it hears the server.  In a session only clients with tokens are
\* answered.
RecvConnect(m) ==
    LET c == m.client
        answer == {ToClient(c, "CONNECTACCEPT", 0)}
        known == ClientSlots(c) # {}
    IN /\ m.kind = "CONNECT"
       /\ IF c \in Vanilla /\ ~known /\ ~Antispoof
          THEN TryAcceptClient(c, Left(m), answer, FALSE)
          ELSE /\ SendOver(Left(m), IF c \in Vanilla /\ known THEN {} ELSE answer)
               /\ UNCHANGED <<slot, game, code>>
       /\ UNCHANGED <<conn, connects>>

\* ACCEPT with the right token opens a session, or, in a session, starts it anew:
\* Reset(true) and ClientRejoin, which sends the map.
RecvAccept(m) ==
    LET c == m.client IN
    /\ m.kind = "ACCEPT"
    /\ c \notin Vanilla
    /\ \/ /\ ClientSlots(c) = {}
          /\ TryAcceptClient(c, Left(m), {}, FALSE)
       \/ \E i \in ClientSlots(c) :
             /\ slot' = [slot EXCEPT ![i].ack = 0]
             /\ SendOver(Left(m), {ToClient(c, "DATA", 0)})
             /\ UNCHANGED <<game, code>>
    /\ UNCHANGED <<conn, connects>>

RecvClose(m) ==
    /\ m.to = "server" /\ m.kind = "CLOSE"
    /\ \E i \in ClientSlots(m.client) :
          slot' = [slot EXCEPT ![i].state = "ERROR", ![i].remoteClosed = TRUE]
    /\ SendOver(Left(m), {})
    /\ UNCHANGED <<conn, game, code, connects>>

\* m_Ack of slot i after it was fed the first vital chunk, anew or again.
Fetched(i) == IF slot[i].addr \in Vanilla THEN 0 ELSE 1

\* A packet with chunks: fed to the slot, or, from an unknown address, the answer
\* of a vanilla client to the token it was sent.
RecvData(m) ==
    LET c == m.client IN
    /\ m.to = "server" /\ m.kind = "DATA"
    /\ \/ \E i \in ClientSlots(c) :
             /\ slot' = [slot EXCEPT ![i].ack = Fetched(i)]
             /\ SendOver(Left(m), {})
             /\ UNCHANGED <<game, code>>
       \/ /\ ClientSlots(c) = {}
          /\ c \in Vanilla /\ Antispoof
          /\ TryAcceptClient(c, Left(m), {}, TRUE)
    /\ UNCHANGED <<conn, connects>>

-----------------------------------------------------------------------------
(* Leaving. *)

\* The game is not told.
FaultyDrop(i, timeout) ==
    /\ slot' = [slot EXCEPT ![i] = Free]
    /\ UNCHANGED <<game, code>>
    /\ UNCHANGED net
    /\ UNCHANGED <<conn, connects>>

\* Drop: DelClient removes the player, and Disconnect frees the slot.  The client
\* is told, unless it closed the connection itself or is out of reach (timeout).
Drop(i, timeout) ==
    /\ game' = [game EXCEPT ![i] = "EMPTY"]
    /\ code' = [code EXCEPT ![i] = NoClient]
    /\ slot' = [slot EXCEPT ![i] = Free]
    /\ Send(IF slot[i].remoteClosed \/ timeout THEN {}
                     ELSE {ToClient(slot[i].addr, "CLOSE", slot[i].ack)})
    /\ UNCHANGED <<conn, connects>>

\* CServer::Kick
Kick(i) == /\ game[i] # "EMPTY"
           /\ Drop(i, slot[i].timeout)

\* Update of a slot in session whose timers have not run out: the timeout is
\* over if there was one, and a packet leaves if it is time for one.
KeepAlive(i) ==
    /\ slot[i].state = "ONLINE"
    /\ slot' = [slot EXCEPT ![i].timeout = FALSE]
    /\ Send({ToClient(slot[i].addr, "DATA", slot[i].ack)})
    /\ UNCHANGED <<conn, game, code, connects>>

\* Update: nothing was received, or a chunk not acked, for conn_timeout.  The
\* player is dropped, or kept if the timeout is protected.
Timeout(i) ==
    /\ slot[i].state = "ONLINE"
    /\ HasArrived(slot[i].addr)
    /\ \/ /\ slot[i].protected
          /\ slot' = [slot EXCEPT ![i].state = "ERROR", ![i].timeout = TRUE]
          /\ UNCHANGED <<conn, game, code, net, connects>>
       \/ /\ ~slot[i].protected
          /\ Drop(i, TRUE)

\* The end of the timeout protection is forgotten.
FaultyDropError(i) ==
    /\ slot[i].state = "ERROR" /\ ~slot[i].timeout
    /\ Drop(i, FALSE)

\* Update: a client closed, or conn_timeout_protection is over.
DropError(i) ==
    /\ slot[i].state = "ERROR"
    /\ Drop(i, FALSE)

-----------------------------------------------------------------------------
(* The player's side: entering the game, and the /timeout command. *)

\* A chunk of slot i's session arrives, over an orderly path after all that the
\* client sent before it.  That the client may leave meanwhile makes no difference.
ChunkArrives(i) ==
    /\ slot[i].state = "ONLINE"
    /\ conn[slot[i].addr].state = "ONLINE"
    /\ Orderly => \A m \in net : m.to = "server" => m.client # slot[i].addr

\* The login, up to NETMSG_ENTERGAME.
EnterGame(i) ==
    /\ game[i] \in {"PREAUTH", "CONNECTING"}
    /\ ChunkArrives(i)
    /\ slot[i].ack = 1 \/ slot[i].addr \in Vanilla
    /\ game' = [game EXCEPT ![i] = "INGAME"]
    /\ UNCHANGED <<conn, slot, code, net, connects>>

\* Any player whose connection is in error.
FaultyClaimable(i) == {k \in Slot \ {i} : /\ game[k] = "INGAME"
                                          /\ slot[k].state = "ERROR"}

\* The slots whose player i's client may take over, of which ConTimeout takes the
\* first: same code, and the connection in error.
Claimable(i) == {k \in Slot \ {i} : /\ game[k] = "INGAME"
                                    /\ code[k] = Code[slot[i].addr]
                                    /\ slot[k].state = "ERROR"}

\* The new connection's slot stays in use.
FaultySetTimedOut(k, i) ==
    slot' = [slot EXCEPT ![k].state = "ONLINE", ![k].addr = slot[i].addr,
                         ![k].ack = slot[i].ack, ![k].remoteClosed = FALSE]

\* The old connection's m_Ack is kept.
FaultyAckSetTimedOut(k, i) ==
    slot' = [slot EXCEPT ![k].state = "ONLINE", ![k].addr = slot[i].addr,
                         ![k].remoteClosed = FALSE,
                         ![i] = Free]

\* CNetServer::SetTimedOut: slot k gets the connection of slot i.
SetTimedOut(k, i) ==
    slot' = [slot EXCEPT ![k].state = "ONLINE", ![k].addr = slot[i].addr,
                         ![k].ack = slot[i].ack, ![k].remoteClosed = FALSE,
                         ![i] = Free]

\* "/timeout <code>": take over a player, or protect this one under the code.
ConTimeout(i) ==
    /\ game[i] = "INGAME"
    /\ ChunkArrives(i)
    /\ IF Claimable(i) # {}
       THEN \E k \in Claimable(i) :
               /\ \A j \in Claimable(i) : k <= j
               /\ SetTimedOut(k, i)
               /\ game' = [game EXCEPT ![i] = "EMPTY"]
               /\ code' = [code EXCEPT ![i] = NoClient]
       ELSE /\ slot' = [slot EXCEPT ![i].protected = TRUE]
            /\ code' = [code EXCEPT ![i] = Code[slot[i].addr]]
            /\ UNCHANGED game
    /\ UNCHANGED <<conn, net, connects>>

-----------------------------------------------------------------------------
Recv(m) == RecvConnect(m) \/ RecvAccept(m) \/ RecvClose(m) \/ RecvData(m)

Next == \/ \E c \in Client : \/ Connect(c) \/ SendConnect(c) \/ SendData(c)
                             \/ ClientTimeout(c) \/ Disconnect(c)
        \/ \E m \in net : ClientFeed(m) \/ Recv(m) \/ Lose(m)
        \/ \E i \in Slot : \/ Kick(i) \/ KeepAlive(i) \/ Timeout(i) \/ DropError(i)
                           \/ EnterGame(i) \/ ConTimeout(i)

Spec == Init /\ [][Next]_vars

-----------------------------------------------------------------------------
(* Fairness.  The main loops keep running, so what Update does again and    *)
(* again happens; a timer runs out once nothing restarts it any more.  A    *)
(* packet sent again and again arrives in the end, and none lives forever.  *)

\* Nothing that would restart the timer of slot i is on its way or will be sent.
SlotIsSilent(i) ==
    LET c == slot[i].addr IN
    /\ \/ conn[c].state \in {"OFFLINE", "ERROR"}
       \/ conn[c].state = "CONNECT" /\ c \notin Vanilla
    /\ \A m \in net : m.to = "server" /\ m.client = c =>
                         m.kind = "CONNECT" /\ c \notin Vanilla

\* Nothing that would restart the timer of c is on its way or will be sent.
ClientIsSilent(c) == /\ ClientSlots(c) = {}
                     /\ \A m \in net : m.client = c => /\ m.to = "server"
                                                       /\ m.kind \in {"DATA", "CLOSE"}

TimeoutOfSilent(i) == slot[i].state = "ONLINE" /\ SlotIsSilent(i) /\ Timeout(i)
ClientTimeoutOfSilent(c) == ClientIsSilent(c) /\ ClientTimeout(c)
CloseClient(c) == conn[c].state = "ERROR" /\ Disconnect(c)

Fairness ==
    /\ \A c \in Client : /\ WF_vars(SendConnect(c))
                         /\ WF_vars(ClientTimeoutOfSilent(c))
                         /\ WF_vars(CloseClient(c))
    /\ \A i \in Slot : /\ WF_vars(TimeoutOfSilent(i))
                       /\ WF_vars(DropError(i))
    /\ \A m \in Packet : /\ SF_vars(m \in net /\ (Recv(m) \/ ClientFeed(m)))
                         /\ WF_vars(Lose(m))

FairSpec == Spec /\ Fairness

-----------------------------------------------------------------------------
(* Properties. *)

\* No address is in session with two slots, not even when a reconnected client
\* has taken over its old slot (GetClientSlot would feed the last one only).
OneSlotPerAddress ==
    \A i, j \in Slot : /\ slot[i].state = "ONLINE" /\ slot[j].state = "ONLINE"
                       /\ slot[i].addr = slot[j].addr
                       => i = j

\* sv_max_clients_per_ip also holds when kept slots come back by a takeover.
PerIPLimit ==
    \A c \in Client : Cardinality({i \in Slot : /\ slot[i].state = "ONLINE" \/ IsKept(i)
                                               /\ IP[slot[i].addr] = IP[c]})
                      <= MaxClientsPerIP

\* The game has a client under an index exactly if the network has one there,
\* whichever way clients came and went.
GameMatchesSlots == \A i \in Slot : game[i] = "EMPTY" <=> slot[i].state = "OFFLINE"

\* A tee with a timeout code is only ever driven by a client with that code, and
\* only such a tee is kept for a silent client.
OwnTee == \A i \in Slot : /\ slot[i].state = "ONLINE" /\ code[i] # NoClient
                             => code[i] = Code[slot[i].addr]
                          /\ slot[i].protected <=> code[i] # NoClient

\* The inductive invariant behind the four above that hold slot by slot: a slot
\* that is offline holds nothing of an earlier client.
FreeIsBlank == \A i \in Slot : IF slot[i].state = "OFFLINE"
                               THEN slot[i] = Free
                               ELSE slot[i].addr \in Client

IInv == /\ TypeOK /\ FreeIsBlank
        /\ OneSlotPerAddress /\ GameMatchesSlots /\ OwnTee

\* The two ends of a session agree on how far the client's stream got: otherwise
\* Feed at the client rejects every packet of the slot from then on.
InStep == \A c \in Client : \A i \in ClientSlots(c) :
             conn[c].state = "ONLINE" => conn[c].peerAck <= slot[i].ack

\* A client that stays away for good leaves no slot behind.
GoneIsFreed ==
    \A c \in Client : <>[](conn[c].state = "OFFLINE") =>
                      <>[](\A i \in Slot : slot[i].addr # c)

\* A client that believes to be connected has a slot, or learns that it has not.
HalfOpenEnds ==
    \A c \in Client : conn[c].state = "ONLINE" ~>
                      ClientSlots(c) # {} \/ conn[c].state # "ONLINE"

\* A client that keeps sending CONNECT gets an answer.
ConnectAnswered ==
    \A c \in Client : conn[c].state = "CONNECT" ~> conn[c].state # "CONNECT"
=============================================================================
