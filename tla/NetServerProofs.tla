-------------------------- MODULE NetServerProofs --------------------------
(***************************************************************************)
(* Proofs about NetServer: types, one slot per address, the game in step   *)
(* with the slots, tees driven only by their owners, and the limit of      *)
(* slots per IP, for any number of clients and slots, any limits and any   *)
(* path; and, over an orderly path, the two ends of a session in step.     *)
(***************************************************************************)
EXTENDS NetServer, FiniteSetTheorems, TLAPS

\* The part of the invariant that only speaks of the server.
SlotInv == /\ slot \in [Slot -> SlotConnection]
           /\ game \in [Slot -> {"EMPTY", "PREAUTH", "CONNECTING", "INGAME"}]
           /\ code \in [Slot -> {Code[c] : c \in Client} \union {NoClient}]
           /\ FreeIsBlank /\ OneSlotPerAddress /\ GameMatchesSlots /\ OwnTee

\* The rest: the clients and the path.
PathInv == /\ conn \in [Client -> Connection]
           /\ net \subseteq Packet
           /\ connects \in [Client -> Nat]

-----------------------------------------------------------------------------
(* The path. *)

\* Sending packets leaves only packets in flight.
LEMMA SendType ==
    ASSUME NEW left, NEW ps, \A base \in left : base \subseteq Packet,
           ps \subseteq Packet, SendOver(left, ps)
    PROVE  net' \subseteq Packet
  BY DEF SendOver

\* What is left in flight are packets.
LEMMA LeftType ==
    ASSUME net \subseteq Packet, NEW m
    PROVE  \A base \in Left(m) : base \subseteq Packet
  BY DEF Left

\* The packets that the actions send.
LEMMA PacketType ==
    ASSUME NEW c \in Client
    PROVE  /\ \A kind \in {"CONNECT", "ACCEPT", "CLOSE", "DATA"} : ToServer(c, kind) \in Packet
           /\ \A kind \in {"CONNECTACCEPT", "CLOSE", "DATA"}, a \in {0, 1} :
                 ToClient(c, kind, a) \in Packet
  BY DEF ToServer, ToClient, Packet

-----------------------------------------------------------------------------
(* Steps of the clients and the path. *)

\* Nothing changes at the server.
LEMMA SlotStutter ==
    ASSUME SlotInv, UNCHANGED <<slot, game, code>>
    PROVE  SlotInv'
  BY DEF SlotInv, FreeIsBlank, OneSlotPerAddress, GameMatchesSlots, OwnTee

\* The steps of a client keep the types of its connection and of the path.
LEMMA ClientSteps ==
    ASSUME PathInv, NEW c \in Client,
           Connect(c) \/ SendConnect(c) \/ SendData(c) \/ ClientTimeout(c) \/ Disconnect(c)
    PROVE  PathInv' /\ UNCHANGED <<slot, game, code>>
<1>1. CASE Connect(c)
  <2>1. net' \subseteq Packet
    BY <1>1, SendType, PacketType DEF Connect, PathInv
  <2> QED
    BY <1>1, <2>1 DEF Connect, PathInv, Offline, Connection
<1>2. CASE SendConnect(c)
  BY <1>2, SendType, PacketType DEF SendConnect, Send, PathInv
<1>3. CASE SendData(c)
  <2>1. net' \subseteq Packet
    BY <1>3, SendType, PacketType DEF SendData, Send, PathInv
  <2> QED
    BY <1>3, <2>1 DEF SendData, PathInv, Connection
<1>4. CASE ClientTimeout(c)
  BY <1>4 DEF ClientTimeout, PathInv, Offline, Connection
<1>5. CASE Disconnect(c)
  <2>1. net' \subseteq Packet
    BY <1>5, SendType, PacketType DEF Disconnect, Send, PathInv
  <2> QED
    BY <1>5, <2>1 DEF Disconnect, PathInv, Offline, Connection
<1> QED
  BY <1>1, <1>2, <1>3, <1>4, <1>5

\* So does a packet that reaches a client, or none.
LEMMA ClientReceives ==
    ASSUME PathInv, NEW m \in net, ClientFeed(m) \/ Lose(m)
    PROVE  PathInv' /\ UNCHANGED <<slot, game, code>>
<1>1. CASE ClientFeed(m)
  <2>1. m.client \in Client /\ m.ack \in {0, 1}
    BY DEF PathInv, Packet
  <2>2. net' \subseteq Packet
    BY <1>1, <2>1, SendType, LeftType, PacketType DEF ClientFeed, PathInv
  <2>3. conn' \in [Client -> Connection]
    BY <1>1, <2>1 DEF ClientFeed, PathInv, Connection
  <2> QED
    BY <1>1, <2>2, <2>3 DEF ClientFeed, PathInv
<1>2. CASE Lose(m)
  BY <1>2 DEF Lose, PathInv
<1> QED
  BY <1>1, <1>2

-----------------------------------------------------------------------------
(* What the steps of the server do to one slot. *)

\* A slot in session, or in error, is in session no more than it was, keeps its
\* client and its protection; whatever else of it changes.
LEMMA Amend ==
    ASSUME SlotInv, NEW i \in Slot, NEW r \in SlotConnection,
           slot[i].state = "ONLINE", r.state \in {"ONLINE", "ERROR"},
           r.addr = slot[i].addr, r.protected = slot[i].protected,
           slot' = [slot EXCEPT ![i] = r], UNCHANGED <<game, code>>
    PROVE  SlotInv'
<1>1. slot' \in [Slot -> SlotConnection]
  BY DEF SlotInv
<1>2. /\ slot'[i] = r
      /\ \A j \in Slot \ {i} : slot'[j] = slot[j]
  BY DEF SlotInv
<1>3. FreeIsBlank'
  BY <1>2 DEF SlotInv, FreeIsBlank
<1>4. OneSlotPerAddress'
  BY <1>2 DEF SlotInv, OneSlotPerAddress
<1>5. GameMatchesSlots'
  BY <1>2 DEF SlotInv, GameMatchesSlots
<1>6. OwnTee'
  BY <1>2 DEF SlotInv, OwnTee
<1> QED
  BY <1>1, <1>3, <1>4, <1>5, <1>6 DEF SlotInv

\* A free slot gets a client that has none.
LEMMA AcceptStep ==
    ASSUME SlotInv, PathInv, NEW c \in Client, ClientSlots(c) = {},
           NEW left, \A base \in left : base \subseteq Packet,
           NEW answer, answer \subseteq Packet,
           NEW vanillaAuth, TryAcceptClient(c, left, answer, vanillaAuth)
    PROVE  SlotInv' /\ net' \subseteq Packet
<1>1. CASE Refuse(c, left, answer)
  <2>1. SlotInv'
    BY <1>1, SlotStutter DEF Refuse
  <2>2. net' \subseteq Packet
    BY <1>1, SendType, PacketType DEF Refuse
  <2> QED
    BY <2>1, <2>2
<1>2. CASE Accept(c, left, answer, vanillaAuth)
  <2>1. net' \subseteq Packet
    BY <1>2, SendType DEF Accept
  <2>2. PICK i \in Slot :
           /\ slot[i].state = "OFFLINE"
           /\ slot' = [slot EXCEPT ![i] = [Free EXCEPT !.state = "ONLINE", !.addr = c]]
           /\ game' = [game EXCEPT ![i] = IF vanillaAuth THEN "CONNECTING" ELSE "PREAUTH"]
    BY <1>2 DEF Accept
  <2>3. /\ slot'[i] = [Free EXCEPT !.state = "ONLINE", !.addr = c]
        /\ \A j \in Slot \ {i} : slot'[j] = slot[j]
        /\ game'[i] \in {"CONNECTING", "PREAUTH"}
        /\ \A j \in Slot \ {i} : game'[j] = game[j]
        /\ UNCHANGED code
    BY <2>2, <1>2 DEF SlotInv, Accept
  <2>4. slot'[i] \in SlotConnection
    BY <2>3 DEF Free, SlotConnection
  <2>5. /\ slot' \in [Slot -> SlotConnection]
        /\ game' \in [Slot -> {"EMPTY", "PREAUTH", "CONNECTING", "INGAME"}]
        /\ code' \in [Slot -> {Code[d] : d \in Client} \union {NoClient}]
    BY <2>2, <2>3, <2>4 DEF SlotInv
  <2>6. /\ slot'[i].state = "ONLINE" /\ slot'[i].addr = c /\ ~slot'[i].protected
    BY <2>3 DEF Free
  <2>7. FreeIsBlank'
    BY <2>3, <2>6 DEF SlotInv, FreeIsBlank
  <2>8. OneSlotPerAddress'
    <3>1. \A j \in Slot : ~(slot[j].state = "ONLINE" /\ slot[j].addr = c)
      BY DEF ClientSlots
    <3>2. ASSUME NEW j \in Slot, NEW k \in Slot,
                 slot'[j].state = "ONLINE", slot'[k].state = "ONLINE",
                 slot'[j].addr = slot'[k].addr
          PROVE  j = k
      <4>1. CASE j = i /\ k # i
        <5>1. slot[k].state = "ONLINE" /\ slot[k].addr = c
          BY <2>3, <2>6, <3>2, <4>1
        <5> QED
          BY <3>1, <5>1
      <4>2. CASE k = i /\ j # i
        <5>1. slot[j].state = "ONLINE" /\ slot[j].addr = c
          BY <2>3, <2>6, <3>2, <4>2
        <5> QED
          BY <3>1, <5>1
      <4>3. CASE j # i /\ k # i
        BY <2>3, <3>2, <4>3 DEF SlotInv, OneSlotPerAddress
      <4> QED
        BY <4>1, <4>2, <4>3
    <3> QED
      BY <3>2 DEF OneSlotPerAddress
  <2>9. GameMatchesSlots'
    <3>1. ASSUME NEW j \in Slot
          PROVE  game'[j] = "EMPTY" <=> slot'[j].state = "OFFLINE"
      <4>1. CASE j = i
        BY <2>3, <2>6, <4>1
      <4>2. CASE j # i
        BY <2>3, <4>2 DEF SlotInv, GameMatchesSlots
      <4> QED
        BY <4>1, <4>2
    <3> QED
      BY <3>1 DEF GameMatchesSlots
  <2>10. code[i] = NoClient
    BY <2>2 DEF SlotInv, FreeIsBlank, OwnTee, Free
  <2>11. OwnTee'
    <3>1. ASSUME NEW j \in Slot
          PROVE  /\ slot'[j].state = "ONLINE" /\ code'[j] # NoClient
                    => code'[j] = Code[slot'[j].addr]
                 /\ slot'[j].protected <=> code'[j] # NoClient
      <4>1. CASE j = i
        BY <2>3, <2>6, <2>10, <4>1
      <4>2. CASE j # i
        BY <2>3, <4>2 DEF SlotInv, OwnTee
      <4> QED
        BY <4>1, <4>2
    <3> QED
      BY <3>1 DEF OwnTee
  <2> QED
    BY <2>1, <2>5, <2>7, <2>8, <2>9, <2>11 DEF SlotInv
<1> QED
  BY <1>1, <1>2 DEF TryAcceptClient

\* A client is dropped.
LEMMA DropStep ==
    ASSUME SlotInv, PathInv, NEW i \in Slot, slot[i].state # "OFFLINE",
           NEW timeout, Drop(i, timeout)
    PROVE  SlotInv' /\ PathInv'
<1>1. /\ slot'[i] = Free /\ game'[i] = "EMPTY" /\ code'[i] = NoClient
      /\ \A j \in Slot \ {i} : slot'[j] = slot[j] /\ game'[j] = game[j] /\ code'[j] = code[j]
  BY DEF Drop, SlotInv
<1>2. Free \in SlotConnection
  BY DEF Free, SlotConnection
<1>3. /\ slot' \in [Slot -> SlotConnection]
      /\ game' \in [Slot -> {"EMPTY", "PREAUTH", "CONNECTING", "INGAME"}]
      /\ code' \in [Slot -> {Code[d] : d \in Client} \union {NoClient}]
  BY <1>2 DEF Drop, SlotInv
<1>4. FreeIsBlank' /\ OneSlotPerAddress' /\ GameMatchesSlots' /\ OwnTee'
  <2>1. /\ slot'[i].state = "OFFLINE" /\ ~slot'[i].protected
    BY <1>1 DEF Free
  <2>2. FreeIsBlank'
    <3>1. ASSUME NEW j \in Slot
          PROVE  IF slot'[j].state = "OFFLINE" THEN slot'[j] = Free ELSE slot'[j].addr \in Client
      <4>1. CASE j = i
        BY <1>1, <2>1, <4>1
      <4>2. CASE j # i
        BY <1>1, <4>2 DEF SlotInv, FreeIsBlank
      <4> QED
        BY <4>1, <4>2
    <3> QED
      BY <3>1 DEF FreeIsBlank
  <2>3. OneSlotPerAddress'
    BY <1>1, <2>1 DEF SlotInv, OneSlotPerAddress
  <2>4. GameMatchesSlots'
    BY <1>1, <2>1 DEF SlotInv, GameMatchesSlots
  <2>5. OwnTee'
    BY <1>1, <2>1 DEF SlotInv, OwnTee
  <2> QED
    BY <2>2, <2>3, <2>4, <2>5
<1>5. slot[i].addr \in Client /\ slot[i].ack \in {0, 1}
  BY DEF SlotInv, FreeIsBlank, SlotConnection
<1>6. net' \subseteq Packet
  BY <1>5, SendType, PacketType DEF Drop, Send, PathInv
<1> QED
  BY <1>3, <1>4, <1>6 DEF SlotInv, PathInv, Drop

-----------------------------------------------------------------------------
(* Packets that reach the server. *)

LEMMA ServerReceives ==
    ASSUME SlotInv, PathInv, NEW m \in net, Recv(m)
    PROVE  SlotInv' /\ PathInv'
<1> DEFINE c == m.client
<1>1. c \in Client
  BY DEF PathInv, Packet
<1>2. \A base \in Left(m) : base \subseteq Packet
  BY LeftType DEF PathInv
<1>3. ASSUME net' \subseteq Packet, UNCHANGED <<conn, connects>>
      PROVE  PathInv'
  BY <1>3 DEF PathInv
<1>4. \A i \in ClientSlots(c) : i \in Slot /\ slot[i].state = "ONLINE" /\ slot[i].addr = c
  BY DEF ClientSlots
<1>5. CASE RecvConnect(m)
  <2> DEFINE answer == {ToClient(c, "CONNECTACCEPT", 0)}
  <2>1. answer \subseteq Packet
    BY <1>1, PacketType
  <2>2. CASE c \in Vanilla /\ ~(ClientSlots(c) # {}) /\ ~Antispoof
    <3>1. TryAcceptClient(c, Left(m), answer, FALSE)
      BY <1>5, <2>2 DEF RecvConnect
    <3> QED
      BY <1>1, <1>2, <1>3, <1>5, <2>1, <2>2, <3>1, AcceptStep DEF RecvConnect
  <2>3. CASE ~(c \in Vanilla /\ ~(ClientSlots(c) # {}) /\ ~Antispoof)
    <3>1. /\ SendOver(Left(m), IF c \in Vanilla /\ ClientSlots(c) # {} THEN {} ELSE answer)
          /\ UNCHANGED <<slot, game, code>>
      BY <1>5, <2>3 DEF RecvConnect
    <3>2. net' \subseteq Packet
      BY <1>2, <2>1, <3>1, SendType
    <3> QED
      BY <1>3, <1>5, <3>1, <3>2, SlotStutter DEF RecvConnect
  <2> QED
    BY <2>2, <2>3
<1>6. CASE RecvAccept(m)
  <2>1. CASE ClientSlots(c) = {} /\ TryAcceptClient(c, Left(m), {}, FALSE)
    BY <1>1, <1>2, <1>3, <1>6, <2>1, AcceptStep DEF RecvAccept
  <2>2. ASSUME NEW i \in ClientSlots(c),
               slot' = [slot EXCEPT ![i].ack = 0],
               SendOver(Left(m), {ToClient(c, "DATA", 0)}),
               UNCHANGED <<game, code>>
        PROVE  SlotInv' /\ PathInv'
    <3>1. net' \subseteq Packet
      BY <1>1, <1>2, <2>2, SendType, PacketType
    <3>2. [slot[i] EXCEPT !.ack = 0] \in SlotConnection
      BY <1>4 DEF SlotInv, SlotConnection
    <3>3. SlotInv'
      BY <1>4, <2>2, <3>2, Amend DEF SlotInv, SlotConnection
    <3> QED
      BY <1>3, <1>6, <3>1, <3>3 DEF RecvAccept
  <2> QED
    BY <1>6, <2>1, <2>2 DEF RecvAccept
<1>7. CASE RecvClose(m)
  <2>1. PICK i \in ClientSlots(c) :
           slot' = [slot EXCEPT ![i].state = "ERROR", ![i].remoteClosed = TRUE]
    BY <1>7 DEF RecvClose
  <2>2. net' \subseteq Packet
    BY <1>2, <1>7, SendType DEF RecvClose
  <2> DEFINE r == [slot[i] EXCEPT !.state = "ERROR", !.remoteClosed = TRUE]
  <2>3. slot[i] \in SlotConnection
    BY <1>4 DEF SlotInv
  <2>4. /\ r \in SlotConnection /\ r.state = "ERROR"
        /\ r.addr = slot[i].addr /\ r.protected = slot[i].protected
    BY <2>3 DEF SlotConnection
  <2>5. slot' = [slot EXCEPT ![i] = r]
    BY <1>4, <2>1 DEF SlotInv
  <2>6. SlotInv'
    <3> HIDE DEF r
    <3> QED
      BY <1>4, <1>7, <2>4, <2>5, Amend DEF RecvClose
  <2> QED
    BY <1>3, <1>7, <2>2, <2>6 DEF RecvClose
<1>8. CASE RecvData(m)
  <2>1. CASE ClientSlots(c) = {} /\ TryAcceptClient(c, Left(m), {}, TRUE)
    BY <1>1, <1>2, <1>3, <1>8, <2>1, AcceptStep DEF RecvData
  <2>2. ASSUME NEW i \in ClientSlots(c),
               slot' = [slot EXCEPT ![i].ack = Fetched(i)],
               SendOver(Left(m), {}),
               UNCHANGED <<game, code>>
        PROVE  SlotInv' /\ PathInv'
    <3>1. net' \subseteq Packet
      BY <1>2, <2>2, SendType
    <3>2. Fetched(i) \in {0, 1}
      BY DEF Fetched
    <3>3. [slot[i] EXCEPT !.ack = Fetched(i)] \in SlotConnection
      BY <1>4, <3>2 DEF SlotInv, SlotConnection
    <3>4. SlotInv'
      BY <1>4, <2>2, <3>3, Amend DEF SlotInv, SlotConnection
    <3> QED
      BY <1>3, <1>8, <3>1, <3>4 DEF RecvData
  <2> QED
    BY <1>8, <2>1, <2>2 DEF RecvData
<1> QED
  BY <1>5, <1>6, <1>7, <1>8 DEF Recv

-----------------------------------------------------------------------------
(* Steps of a slot. *)

LEMMA KickStep ==
    ASSUME SlotInv, PathInv, NEW i \in Slot, Kick(i)
    PROVE  SlotInv' /\ PathInv'
  BY DropStep DEF Kick, SlotInv, GameMatchesSlots

LEMMA KeepAliveStep ==
    ASSUME SlotInv, PathInv, NEW i \in Slot, KeepAlive(i)
    PROVE  SlotInv' /\ PathInv'
<1> DEFINE r == [slot[i] EXCEPT !.timeout = FALSE]
<1>1. slot[i] \in SlotConnection
  BY DEF SlotInv
<1>2. /\ r \in SlotConnection /\ r.state = slot[i].state
      /\ r.addr = slot[i].addr /\ r.protected = slot[i].protected
  BY <1>1 DEF SlotConnection
<1>3. slot' = [slot EXCEPT ![i] = r] /\ slot[i].state = "ONLINE" /\ UNCHANGED <<game, code>>
  BY DEF KeepAlive, SlotInv
<1>4. SlotInv'
  <2> HIDE DEF r
  <2> QED
    BY <1>2, <1>3, Amend
<1>5. slot[i].addr \in Client /\ slot[i].ack \in {0, 1}
  BY <1>1, <1>3 DEF SlotInv, FreeIsBlank, SlotConnection
<1>6. net' \subseteq Packet
  BY <1>5, SendType, PacketType DEF KeepAlive, Send, PathInv
<1> QED
  BY <1>4, <1>6 DEF KeepAlive, PathInv

LEMMA TimeoutStep ==
    ASSUME SlotInv, PathInv, NEW i \in Slot, Timeout(i)
    PROVE  SlotInv' /\ PathInv'
<1>1. CASE ~slot[i].protected /\ Drop(i, TRUE)
  BY <1>1, DropStep DEF Timeout
<1>2. CASE /\ slot[i].protected
           /\ slot' = [slot EXCEPT ![i].state = "ERROR", ![i].timeout = TRUE]
           /\ UNCHANGED <<conn, game, code, net, connects>>
  <2> DEFINE r == [slot[i] EXCEPT !.state = "ERROR", !.timeout = TRUE]
  <2>1. slot[i] \in SlotConnection /\ slot[i].state = "ONLINE"
    BY DEF SlotInv, Timeout
  <2>2. /\ r \in SlotConnection /\ r.state = "ERROR"
        /\ r.addr = slot[i].addr /\ r.protected = slot[i].protected
    BY <2>1 DEF SlotConnection
  <2>3. slot' = [slot EXCEPT ![i] = r] /\ UNCHANGED <<game, code>>
    BY <1>2 DEF SlotInv
  <2>4. SlotInv'
    <3> HIDE DEF r
    <3> QED
      BY <2>1, <2>2, <2>3, Amend
  <2> QED
    BY <1>2, <2>4 DEF PathInv
<1> QED
  BY <1>1, <1>2 DEF Timeout

LEMMA DropErrorStep ==
    ASSUME SlotInv, PathInv, NEW i \in Slot, DropError(i)
    PROVE  SlotInv' /\ PathInv'
  BY DropStep DEF DropError

LEMMA EnterGameStep ==
    ASSUME SlotInv, PathInv, NEW i \in Slot, EnterGame(i)
    PROVE  SlotInv' /\ PathInv'
<1>1. game'[i] = "INGAME" /\ \A j \in Slot \ {i} : game'[j] = game[j]
  BY DEF EnterGame, SlotInv
<1>2. slot[i].state = "ONLINE" /\ UNCHANGED <<slot, code>>
  BY DEF EnterGame, ChunkArrives
<1>3. GameMatchesSlots'
  BY <1>1, <1>2 DEF SlotInv, GameMatchesSlots
<1>4. FreeIsBlank' /\ OneSlotPerAddress' /\ OwnTee'
  BY <1>2 DEF SlotInv, FreeIsBlank, OneSlotPerAddress, OwnTee
<1>5. game' \in [Slot -> {"EMPTY", "PREAUTH", "CONNECTING", "INGAME"}]
  BY DEF EnterGame, SlotInv
<1> QED
  BY <1>2, <1>3, <1>4, <1>5 DEF SlotInv, PathInv, EnterGame

\* Slot k gets the connection of slot i, which is free afterwards.
LEMMA TakeoverStep ==
    ASSUME SlotInv, NEW i \in Slot, NEW k \in Claimable(i),
           slot[i].state = "ONLINE", SetTimedOut(k, i),
           game' = [game EXCEPT ![i] = "EMPTY"],
           code' = [code EXCEPT ![i] = NoClient]
    PROVE  SlotInv'
<1>1. /\ k \in Slot /\ k # i /\ game[k] = "INGAME" /\ slot[k].state = "ERROR"
      /\ code[k] = Code[slot[i].addr]
  BY DEF Claimable
<1> DEFINE r == [slot[k] EXCEPT !.state = "ONLINE", !.addr = slot[i].addr,
                                !.ack = slot[i].ack, !.remoteClosed = FALSE]
<1>2. slot[i] \in SlotConnection /\ slot[k] \in SlotConnection
  BY <1>1 DEF SlotInv
<1>3. /\ r \in SlotConnection /\ r.state = "ONLINE"
      /\ r.addr = slot[i].addr /\ r.protected = slot[k].protected
  BY <1>2 DEF SlotConnection
<1>4. slot' = [[slot EXCEPT ![k] = r] EXCEPT ![i] = Free]
  BY <1>1 DEF SetTimedOut, SlotInv
<1> HIDE DEF r
<1>5. /\ slot'[i] = Free /\ slot'[k] = r
      /\ \A j \in Slot \ {i, k} : slot'[j] = slot[j]
  BY <1>1, <1>4 DEF SlotInv
<1>6. /\ game'[i] = "EMPTY" /\ code'[i] = NoClient
      /\ \A j \in Slot \ {i} : game'[j] = game[j] /\ code'[j] = code[j]
  BY DEF SlotInv
<1>7. Free \in SlotConnection /\ Free.state = "OFFLINE" /\ ~Free.protected
  BY DEF Free, SlotConnection
<1>8. /\ slot' \in [Slot -> SlotConnection]
      /\ game' \in [Slot -> {"EMPTY", "PREAUTH", "CONNECTING", "INGAME"}]
      /\ code' \in [Slot -> {Code[d] : d \in Client} \union {NoClient}]
  BY <1>3, <1>4, <1>7 DEF SlotInv
<1>9. slot[i].addr \in Client
  BY DEF SlotInv, FreeIsBlank
<1>10. FreeIsBlank'
  <2>1. ASSUME NEW j \in Slot
        PROVE  IF slot'[j].state = "OFFLINE" THEN slot'[j] = Free ELSE slot'[j].addr \in Client
    <3>1. CASE j = i
      BY <1>5, <1>7, <3>1
    <3>2. CASE j = k
      BY <1>3, <1>5, <1>9, <3>2
    <3>3. CASE j \notin {i, k}
      BY <1>5, <3>3 DEF SlotInv, FreeIsBlank
    <3> QED
      BY <3>1, <3>2, <3>3
  <2> QED
    BY <2>1 DEF FreeIsBlank
<1>11. OneSlotPerAddress'
  <2>1. ASSUME NEW j \in Slot \ {k}, slot'[j].state = "ONLINE"
        PROVE  j # i /\ slot[j].state = "ONLINE" /\ slot'[j].addr = slot[j].addr
    BY <1>5, <1>7, <2>1
  <2>2. ASSUME NEW j \in Slot \ {k}, slot'[j].state = "ONLINE"
        PROVE  slot'[j].addr # slot[i].addr
    BY <2>1, <2>2 DEF SlotInv, OneSlotPerAddress
  <2>3. ASSUME NEW j \in Slot, NEW l \in Slot,
               slot'[j].state = "ONLINE", slot'[l].state = "ONLINE",
               slot'[j].addr = slot'[l].addr
        PROVE  j = l
    <3>1. CASE j = k \/ l = k
      BY <1>3, <1>5, <2>2, <2>3, <3>1
    <3>2. CASE j # k /\ l # k
      BY <2>1, <2>3, <3>2 DEF SlotInv, OneSlotPerAddress
    <3> QED
      BY <3>1, <3>2
  <2> QED
    BY <2>3 DEF OneSlotPerAddress
<1>12. GameMatchesSlots'
  <2>1. ASSUME NEW j \in Slot
        PROVE  game'[j] = "EMPTY" <=> slot'[j].state = "OFFLINE"
    <3>1. CASE j = i
      BY <1>5, <1>6, <1>7, <3>1
    <3>2. CASE j = k
      BY <1>1, <1>3, <1>5, <1>6, <3>2
    <3>3. CASE j \notin {i, k}
      BY <1>5, <1>6, <3>3 DEF SlotInv, GameMatchesSlots
    <3> QED
      BY <3>1, <3>2, <3>3
  <2> QED
    BY <2>1 DEF GameMatchesSlots
<1>13. OwnTee'
  <2>1. ASSUME NEW j \in Slot
        PROVE  /\ slot'[j].state = "ONLINE" /\ code'[j] # NoClient
                  => code'[j] = Code[slot'[j].addr]
               /\ slot'[j].protected <=> code'[j] # NoClient
    <3>1. CASE j = i
      BY <1>5, <1>6, <1>7, <3>1
    <3>2. CASE j = k
      BY <1>1, <1>3, <1>5, <1>6, <3>2 DEF SlotInv, OwnTee
    <3>3. CASE j \notin {i, k}
      BY <1>5, <1>6, <3>3 DEF SlotInv, OwnTee
    <3> QED
      BY <3>1, <3>2, <3>3
  <2> QED
    BY <2>1 DEF OwnTee
<1> QED
  BY <1>8, <1>10, <1>11, <1>12, <1>13 DEF SlotInv

\* A player is protected under its own code.
LEMMA ProtectStep ==
    ASSUME SlotInv, NEW i \in Slot, slot[i].state = "ONLINE",
           slot' = [slot EXCEPT ![i].protected = TRUE],
           code' = [code EXCEPT ![i] = Code[slot[i].addr]],
           UNCHANGED game
    PROVE  SlotInv'
<1> DEFINE r == [slot[i] EXCEPT !.protected = TRUE]
<1>1. slot[i] \in SlotConnection
  BY DEF SlotInv
<1>2. /\ r \in SlotConnection /\ r.state = "ONLINE" /\ r.addr = slot[i].addr /\ r.protected
  BY <1>1 DEF SlotConnection
<1>3. slot' = [slot EXCEPT ![i] = r]
  BY DEF SlotInv
<1> HIDE DEF r
<1>4. /\ slot'[i] = r /\ \A j \in Slot \ {i} : slot'[j] = slot[j]
      /\ code'[i] = Code[slot[i].addr] /\ \A j \in Slot \ {i} : code'[j] = code[j]
  BY <1>3 DEF SlotInv
<1>5. slot[i].addr \in Client /\ Code[slot[i].addr] # NoClient
  BY ClientAssumption DEF SlotInv, FreeIsBlank
<1>6. /\ slot' \in [Slot -> SlotConnection]
      /\ code' \in [Slot -> {Code[d] : d \in Client} \union {NoClient}]
  BY <1>2, <1>3, <1>5, ZenonT(60) DEF SlotInv
<1>7. FreeIsBlank'
  BY <1>2, <1>4, <1>5 DEF SlotInv, FreeIsBlank
<1>8. OneSlotPerAddress'
  BY <1>2, <1>4 DEF SlotInv, OneSlotPerAddress
<1>9. GameMatchesSlots'
  BY <1>2, <1>4 DEF SlotInv, GameMatchesSlots
<1>10. OwnTee'
  BY <1>2, <1>4, <1>5 DEF SlotInv, OwnTee
<1> QED
  BY <1>6, <1>7, <1>8, <1>9, <1>10 DEF SlotInv

LEMMA ConTimeoutStep ==
    ASSUME SlotInv, PathInv, NEW i \in Slot, ConTimeout(i)
    PROVE  SlotInv' /\ PathInv'
<1>1. slot[i].state = "ONLINE"
  BY DEF ConTimeout, ChunkArrives
<1>2. SlotInv'
  <2>1. CASE Claimable(i) # {}
    <3>1. PICK k \in Claimable(i) : /\ SetTimedOut(k, i)
                                    /\ game' = [game EXCEPT ![i] = "EMPTY"]
                                    /\ code' = [code EXCEPT ![i] = NoClient]
      BY <2>1 DEF ConTimeout
    <3> QED
      BY <1>1, <3>1, TakeoverStep
  <2>2. CASE Claimable(i) = {}
    <3>1. /\ slot' = [slot EXCEPT ![i].protected = TRUE]
          /\ code' = [code EXCEPT ![i] = Code[slot[i].addr]]
          /\ UNCHANGED game
      BY <2>2 DEF ConTimeout
    <3> QED
      BY <1>1, <3>1, ProtectStep
  <2> QED
    BY <2>1, <2>2
<1> QED
  BY <1>2 DEF ConTimeout, PathInv

-----------------------------------------------------------------------------
(* Slots of one IP. *)

\* A slot that counts against the limit of its IP.
Counted(i) == slot[i].state = "ONLINE" \/ IsKept(i)

\* The slots that count against the limit of the IP of c.
Held(c) == {i \in Slot : Counted(i) /\ IP[slot[i].addr] = IP[c]}

\* Slots can be counted.
LEMMA HeldFinite ==
    ASSUME NEW S \in SUBSET Slot
    PROVE  IsFiniteSet(S) /\ Cardinality(S) \in Nat
<1>1. IsFiniteSet(Slot)
  BY SlotAssumption, FS_Interval DEF Slot
<1> QED
  BY <1>1, FS_Subset, FS_CardinalityType

\* Of two sets of slots the smaller one has no more slots.
LEMMA FewerSlots ==
    ASSUME NEW T \in SUBSET Slot, NEW S \in SUBSET T
    PROVE  Cardinality(S) <= Cardinality(T)
BY HeldFinite, FS_Subset

\* One slot more is at most one more.
LEMMA OneSlotMore ==
    ASSUME NEW S \in SUBSET Slot, NEW k
    PROVE  Cardinality(S \union {k}) <= Cardinality(S) + 1
<1>1. IsFiniteSet(S) /\ Cardinality(S) \in Nat
  BY HeldFinite
<1>2. Cardinality(S \union {k}) = IF k \in S THEN Cardinality(S) ELSE Cardinality(S) + 1
  BY <1>1, FS_AddElement
<1> QED
  BY <1>1, <1>2

\* The limit is about these sets.
LEMMA LimitOfHeld ==
    PerIPLimit <=> \A c \in Client : Cardinality(Held(c)) <= MaxClientsPerIP
BY DEF PerIPLimit, Held, Counted

\* No slot begins to count, or gets another address.
LEMMA NoMoreHeld ==
    ASSUME PerIPLimit,
           \A i \in Slot : Counted(i)' => Counted(i) /\ slot'[i].addr = slot[i].addr
    PROVE  PerIPLimit'
<1> SUFFICES ASSUME NEW c \in Client PROVE Cardinality(Held(c)') <= MaxClientsPerIP
  BY LimitOfHeld DEF PerIPLimit, Held, Counted
<1>1. Held(c)' \subseteq Held(c) /\ Held(c) \subseteq Slot
  BY DEF Held
<1>2. Cardinality(Held(c)') <= Cardinality(Held(c))
  BY <1>1, FewerSlots
<1>3. /\ Cardinality(Held(c)) \in Nat /\ Cardinality(Held(c)') \in Nat
      /\ MaxClientsPerIP \in Nat
  BY <1>1, HeldFinite, SlotAssumption
<1>4. Cardinality(Held(c)) <= MaxClientsPerIP
  BY LimitOfHeld
<1> QED
  BY <1>2, <1>3, <1>4

\* One slot begins to count where its IP has room for it.
LEMMA OneMoreHeld ==
    ASSUME PerIPLimit, NEW c \in Client, NEW k \in Slot, slot'[k].addr = c,
           NumClientsWithAddr(c) + 1 <= MaxClientsPerIP,
           \A i \in Slot \ {k} : slot'[i] = slot[i]
    PROVE  PerIPLimit'
<1> SUFFICES ASSUME NEW d \in Client PROVE Cardinality(Held(d)') <= MaxClientsPerIP
  BY LimitOfHeld DEF PerIPLimit, Held, Counted
<1>1. \A i \in Slot \ {k} : Counted(i)' <=> Counted(i)
  BY DEF Counted, IsKept
<1>2. Held(d) \subseteq Slot /\ Held(d)' \subseteq Slot /\ Held(d) \union {k} \subseteq Slot
  BY DEF Held
<1>3. /\ Cardinality(Held(d)) \in Nat /\ Cardinality(Held(d)') \in Nat
      /\ IsFiniteSet(Held(d)) /\ MaxClientsPerIP \in Nat
      /\ Cardinality(Held(d) \union {k}) \in Nat
  BY <1>2, HeldFinite, SlotAssumption
<1>4. CASE IP[c] = IP[d]
  <2>1. Held(d)' \subseteq Held(d) \union {k}
    BY <1>1 DEF Held
  <2>2. Cardinality(Held(d)') <= Cardinality(Held(d) \union {k})
    BY <1>2, <2>1, FewerSlots
  <2>3. Cardinality(Held(d) \union {k}) <= Cardinality(Held(d)) + 1
    BY <1>2, OneSlotMore
  <2>4. NumClientsWithAddr(c) = Cardinality(Held(d))
    BY <1>4 DEF NumClientsWithAddr, Held, Counted
  <2> QED
    BY <1>3, <2>2, <2>3, <2>4
<1>5. CASE IP[c] # IP[d]
  <2>1. Held(d)' \subseteq Held(d)
    BY <1>1, <1>5 DEF Held
  <2>2. Cardinality(Held(d)') <= Cardinality(Held(d))
    BY <1>2, <2>1, FewerSlots
  <2>3. Cardinality(Held(d)) <= MaxClientsPerIP
    BY LimitOfHeld
  <2> QED
    BY <1>3, <2>2, <2>3
<1> QED
  BY <1>4, <1>5

\* A slot that counts moves to another one.
LEMMA HeldMoves ==
    ASSUME PerIPLimit, NEW i \in Slot, NEW k \in Slot, Counted(i), ~Counted(i)',
           slot'[k].addr = slot[i].addr,
           \A j \in Slot \ {i, k} : slot'[j] = slot[j]
    PROVE  PerIPLimit'
<1> SUFFICES ASSUME NEW d \in Client PROVE Cardinality(Held(d)') <= MaxClientsPerIP
  BY LimitOfHeld DEF PerIPLimit, Held, Counted
<1>1. \A j \in Slot \ {i, k} : Counted(j)' <=> Counted(j)
  BY DEF Counted, IsKept
<1> DEFINE rest == Held(d) \ {i}
<1>2. /\ Held(d) \subseteq Slot /\ Held(d)' \subseteq Slot
      /\ rest \subseteq Slot /\ rest \union {k} \subseteq Slot
  BY DEF Held
<1>3. /\ Cardinality(Held(d)) \in Nat /\ Cardinality(Held(d)') \in Nat
      /\ IsFiniteSet(Held(d)) /\ IsFiniteSet(rest) /\ MaxClientsPerIP \in Nat
      /\ Cardinality(rest) \in Nat /\ Cardinality(rest \union {k}) \in Nat
  BY <1>2, HeldFinite, SlotAssumption
<1>4. Cardinality(Held(d)) <= MaxClientsPerIP
  BY LimitOfHeld
<1>5. i \notin Held(d)'
  BY DEF Held
<1>6. CASE IP[slot[i].addr] = IP[d]
  <2>1. i \in Held(d) /\ Held(d)' \subseteq rest \union {k}
    BY <1>1, <1>5, <1>6 DEF Held
  <2>2. Cardinality(Held(d)') <= Cardinality(rest \union {k})
    BY <1>2, <2>1, FewerSlots
  <2>3. Cardinality(rest \union {k}) <= Cardinality(rest) + 1
    BY <1>2, OneSlotMore
  <2>4. Cardinality(rest) = Cardinality(Held(d)) - 1
    BY <1>3, <2>1, FS_RemoveElement
  <2> QED
    BY <1>3, <1>4, <2>2, <2>3, <2>4
<1>7. CASE IP[slot[i].addr] # IP[d]
  <2>1. Held(d)' \subseteq Held(d)
    BY <1>1, <1>5, <1>7 DEF Held
  <2>2. Cardinality(Held(d)') <= Cardinality(Held(d))
    BY <1>2, <2>1, FewerSlots
  <2> QED
    BY <1>3, <1>4, <2>2
<1> QED
  BY <1>6, <1>7

\* A slot of which only the following changed does not begin to count.
LEMMA NotHeldAnew ==
    ASSUME SlotInv, PerIPLimit, NEW i \in Slot, NEW r, slot' = [slot EXCEPT ![i] = r],
           r.state = "OFFLINE" \/ (slot[i].state = "ONLINE" /\ r.addr = slot[i].addr)
    PROVE  PerIPLimit'
<1>1. slot'[i] = r /\ \A j \in Slot \ {i} : slot'[j] = slot[j]
  BY DEF SlotInv
<1>2. ASSUME NEW j \in Slot, Counted(j)'
      PROVE  Counted(j) /\ slot'[j].addr = slot[j].addr
  <2>1. CASE j = i
    BY <1>1, <1>2, <2>1 DEF Counted, IsKept
  <2>2. CASE j # i
    BY <1>1, <1>2, <2>2 DEF Counted, IsKept
  <2> QED
    BY <2>1, <2>2
<1> QED
  BY <1>2, NoMoreHeld

\* A client is accepted only where its IP has room.
LEMMA LimitAccept ==
    ASSUME SlotInv, PerIPLimit, NEW c \in Client, NEW left, NEW answer, NEW vanillaAuth,
           TryAcceptClient(c, left, answer, vanillaAuth)
    PROVE  PerIPLimit'
<1>1. CASE Refuse(c, left, answer)
  BY <1>1 DEF Refuse, PerIPLimit, IsKept
<1>2. CASE Accept(c, left, answer, vanillaAuth)
  <2>1. PICK i \in Slot : slot' = [slot EXCEPT ![i] = [Free EXCEPT !.state = "ONLINE", !.addr = c]]
    BY <1>2 DEF Accept
  <2>2. slot'[i].addr = c /\ \A j \in Slot \ {i} : slot'[j] = slot[j]
    BY <2>1 DEF SlotInv, Free
  <2> QED
    BY <1>2, <2>2, OneMoreHeld DEF Accept
<1> QED
  BY <1>1, <1>2 DEF TryAcceptClient

\* A packet that reaches the server keeps the limit.
LEMMA LimitReceives ==
    ASSUME SlotInv, PathInv, PerIPLimit, NEW m \in net, Recv(m)
    PROVE  PerIPLimit'
<1> DEFINE c == m.client
<1>1. c \in Client
  BY DEF PathInv, Packet
<1>2. CASE UNCHANGED slot
  BY <1>2 DEF PerIPLimit, IsKept
<1>3. CASE \E left, answer, auth : TryAcceptClient(c, left, answer, auth)
  BY <1>1, <1>3, LimitAccept
<1>4. ASSUME NEW i \in ClientSlots(c),
             \/ slot' = [slot EXCEPT ![i].ack = 0]
             \/ slot' = [slot EXCEPT ![i].ack = Fetched(i)]
             \/ slot' = [slot EXCEPT ![i].state = "ERROR", ![i].remoteClosed = TRUE]
      PROVE  PerIPLimit'
  <2>1. i \in Slot /\ slot[i].state = "ONLINE" /\ slot[i] \in SlotConnection
    BY DEF ClientSlots, SlotInv
  <2>2. \E r : slot' = [slot EXCEPT ![i] = r] /\ r.addr = slot[i].addr
    <3>1. /\ [slot[i] EXCEPT !.ack = 0].addr = slot[i].addr
          /\ [slot[i] EXCEPT !.ack = Fetched(i)].addr = slot[i].addr
          /\ [slot[i] EXCEPT !.state = "ERROR", !.remoteClosed = TRUE].addr = slot[i].addr
      BY <2>1 DEF SlotConnection
    <3>2. \/ slot' = [slot EXCEPT ![i] = [slot[i] EXCEPT !.ack = 0]]
          \/ slot' = [slot EXCEPT ![i] = [slot[i] EXCEPT !.ack = Fetched(i)]]
          \/ slot' = [slot EXCEPT ![i] = [slot[i] EXCEPT !.state = "ERROR", !.remoteClosed = TRUE]]
      BY <1>4, <2>1 DEF SlotInv
    <3> QED
      BY <3>1, <3>2
  <2> QED
    BY <2>1, <2>2, NotHeldAnew
<1>5. CASE RecvConnect(m)
  <2>1. \/ UNCHANGED slot
        \/ TryAcceptClient(c, Left(m), {ToClient(c, "CONNECTACCEPT", 0)}, FALSE)
    BY <1>5 DEF RecvConnect
  <2> QED
    BY <1>2, <1>3, <2>1
<1>6. CASE RecvAccept(m)
  <2>1. \/ TryAcceptClient(c, Left(m), {}, FALSE)
        \/ \E i \in ClientSlots(c) : slot' = [slot EXCEPT ![i].ack = 0]
    BY <1>6 DEF RecvAccept
  <2> QED
    BY <1>3, <1>4, <2>1
<1>7. CASE RecvClose(m)
  BY <1>4, <1>7 DEF RecvClose
<1>8. CASE RecvData(m)
  <2>1. \/ TryAcceptClient(c, Left(m), {}, TRUE)
        \/ \E i \in ClientSlots(c) : slot' = [slot EXCEPT ![i].ack = Fetched(i)]
    BY <1>8 DEF RecvData
  <2> QED
    BY <1>3, <1>4, <2>1
<1> QED
  BY <1>5, <1>6, <1>7, <1>8 DEF Recv

\* So does a step of a slot, a takeover among them.
LEMMA LimitSlotSteps ==
    ASSUME SlotInv, PerIPLimit, NEW i \in Slot,
           \/ Kick(i) \/ KeepAlive(i) \/ Timeout(i) \/ DropError(i)
           \/ EnterGame(i) \/ ConTimeout(i)
    PROVE  PerIPLimit'
<1>1. slot[i] \in SlotConnection
  BY DEF SlotInv
<1>2. CASE UNCHANGED slot
  BY <1>2 DEF PerIPLimit, IsKept
<1>3. CASE slot' = [slot EXCEPT ![i] = Free]
  <2>1. Free.state = "OFFLINE"
    BY DEF Free
  <2> QED
    BY <1>3, <2>1, NotHeldAnew
<1>4. ASSUME slot[i].state = "ONLINE",
             \/ slot' = [slot EXCEPT ![i].timeout = FALSE]
             \/ slot' = [slot EXCEPT ![i].state = "ERROR", ![i].timeout = TRUE]
             \/ slot' = [slot EXCEPT ![i].protected = TRUE]
      PROVE  PerIPLimit'
  <2>1. /\ [slot[i] EXCEPT !.timeout = FALSE].addr = slot[i].addr
        /\ [slot[i] EXCEPT !.state = "ERROR", !.timeout = TRUE].addr = slot[i].addr
        /\ [slot[i] EXCEPT !.protected = TRUE].addr = slot[i].addr
    BY <1>1 DEF SlotConnection
  <2>2. \/ slot' = [slot EXCEPT ![i] = [slot[i] EXCEPT !.timeout = FALSE]]
        \/ slot' = [slot EXCEPT ![i] = [slot[i] EXCEPT !.state = "ERROR", !.timeout = TRUE]]
        \/ slot' = [slot EXCEPT ![i] = [slot[i] EXCEPT !.protected = TRUE]]
    BY <1>4 DEF SlotInv
  <2>3. \E r : slot' = [slot EXCEPT ![i] = r] /\ r.addr = slot[i].addr
    BY <2>1, <2>2
  <2> QED
    BY <1>4, <2>3, NotHeldAnew
<1>5. ASSUME NEW k \in Claimable(i), slot[i].state = "ONLINE", SetTimedOut(k, i)
      PROVE  PerIPLimit'
  <2>1. k \in Slot /\ k # i
    BY DEF Claimable
  <2>2. slot[k] \in SlotConnection
    BY <2>1 DEF SlotInv
  <2>3. /\ slot'[k].addr = slot[i].addr /\ slot'[i] = Free
        /\ \A j \in Slot \ {i, k} : slot'[j] = slot[j]
    BY <1>5, <2>1, <2>2 DEF SetTimedOut, SlotInv, SlotConnection
  <2>4. Counted(i) /\ ~Counted(i)'
    BY <1>5, <2>3 DEF Counted, IsKept, Free
  <2> QED
    BY <2>1, <2>3, <2>4, HeldMoves
<1>6. CASE Kick(i) \/ DropError(i)
  BY <1>3, <1>6 DEF Kick, DropError, Drop
<1>7. CASE KeepAlive(i)
  BY <1>4, <1>7 DEF KeepAlive
<1>8. CASE Timeout(i)
  BY <1>3, <1>4, <1>8 DEF Timeout, Drop
<1>9. CASE EnterGame(i)
  BY <1>2, <1>9 DEF EnterGame
<1>10. CASE ConTimeout(i)
  <2>1. slot[i].state = "ONLINE"
    BY <1>10 DEF ConTimeout, ChunkArrives
  <2>2. \/ \E k \in Claimable(i) : SetTimedOut(k, i)
        \/ slot' = [slot EXCEPT ![i].protected = TRUE]
    BY <1>10 DEF ConTimeout
  <2> QED
    BY <1>4, <1>5, <2>1, <2>2
<1> QED
  BY <1>6, <1>7, <1>8, <1>9, <1>10

-----------------------------------------------------------------------------
(* The two ends of a session, over an orderly path.                        *)

\* The client has acked no more than it sent, and sends nothing that is acked
\* before it is connected, or if it knows no tokens.
Upright(c) == /\ conn[c].peerAck <= conn[c].sequence
              /\ conn[c].state \in {"OFFLINE", "CONNECT"} => conn[c].sequence = 0
              /\ c \in Vanilla => conn[c].sequence = 0

\* A packet on its way from c to the server, and one that acks the chunk of c.
IsUp(m, c) == m.to = "server" /\ m.client = c
IsAck(m, c) == m.to = "client" /\ m.client = c /\ m.ack = 1 /\ m.kind # "CLOSE"

\* Upstream there is at most one packet, the last one c sent.
Upstream(c) ==
    /\ \A m, n \in net : IsUp(m, c) /\ IsUp(n, c) => m = n
    /\ \A m \in net : IsUp(m, c) =>
          /\ m.kind = "ACCEPT" => conn[c].sequence = 0
          /\ conn[c].state = "CONNECT" => m.kind = "CONNECT"

\* No session with c can be opened, or forgotten by the server.
Settled(c) ==
    (\A i \in ClientSlots(c) : slot[i].timeout) =>
       conn[c].state # "CONNECT" /\ \A m \in net : IsUp(m, c) => m.kind # "ACCEPT"

\* Downstream, an ack is from a session that has the chunk, if there is still one.
Downstream(c) ==
    \A m \in net : IsAck(m, c) =>
       (\A i \in ClientSlots(c) : slot[i].ack = 1) /\ Settled(c)

\* The two ends of the session agree on how far the stream got.
Level(c) == \A i \in ClientSlots(c) :
               conn[c].state = "ONLINE" => conn[c].peerAck <= slot[i].ack

Matched(c) == /\ Upright(c) /\ Upstream(c)
              /\ c \notin Vanilla => Downstream(c) /\ Level(c)

\* A slot in session has not been closed by its client.
NotClosed == \A i \in Slot : slot[i].state = "ONLINE" => ~slot[i].remoteClosed

MatchInv == NotClosed /\ \A c \in Client : Matched(c)

\* It contains the property.
LEMMA MatchedInStep ==
    ASSUME SlotInv, PathInv, MatchInv
    PROVE  InStep
<1> SUFFICES ASSUME NEW c \in Client, NEW i \in ClientSlots(c), conn[c].state = "ONLINE"
             PROVE  conn[c].peerAck <= slot[i].ack
  BY DEF InStep
<1>1. i \in Slot /\ slot[i].ack \in {0, 1} /\ conn[c].peerAck \in {0, 1}
  BY DEF ClientSlots, SlotInv, PathInv, SlotConnection, Connection
<1>2. Matched(c)
  BY DEF MatchInv
<1>3. CASE c \in Vanilla
  BY <1>1, <1>2, <1>3 DEF Matched, Upright
<1>4. CASE c \notin Vanilla
  BY <1>2, <1>4 DEF Matched, Level
<1> QED
  BY <1>3, <1>4

\* What is in flight after packets were sent over an orderly path: these, and
\* what they did not overtake.
LEMMA SentOver ==
    ASSUME Orderly, NEW left, NEW ps, SendOver(left, ps)
    PROVE  \E base \in left :
              \A q \in net' : \/ q \in ps
                              \/ /\ q \in base
                                 /\ \A p \in ps : ~(p.client = q.client /\ p.to = q.to)
<1>1. PICK base \in left :
         LET ahead == {p \in base : \A q \in ps : ~IsOvertaken(p, q)} IN
         net' = IF Cardinality(ahead \union ps) <= NetCap THEN ahead \union ps ELSE ahead
  BY DEF SendOver
<1>2. ASSUME NEW q \in net'
      PROVE  \/ q \in ps
             \/ q \in base /\ \A p \in ps : ~(p.client = q.client /\ p.to = q.to)
  BY <1>1 DEF IsOvertaken
<1> QED
  BY <1>2

\* The same where one set of packets was left, and for no packet or one.
LEMMA SentNone ==
    ASSUME Orderly, NEW base, SendOver({base}, {})
    PROVE  net' \subseteq base
  BY SentOver

LEMMA SentOne ==
    ASSUME Orderly, NEW base, NEW p, SendOver({base}, {p})
    PROVE  \A q \in net' : q = p \/ (q \in base /\ ~(p.client = q.client /\ p.to = q.to))
  BY SentOver

LEMMA LeftOrderly ==
    ASSUME Orderly, NEW m
    PROVE  Left(m) = {net \ {m}}
  BY DEF Left

\* Nothing of c changes but that packets of its get lost, or that it is refused.
LEMMA Elsewhere ==
    ASSUME NEW c \in Client, Matched(c), conn'[c] = conn[c],
           \A m \in net' : m.client = c => m \in net \/ (m.to = "client" /\ ~IsAck(m, c)),
           ClientSlots(c)' = ClientSlots(c),
           \A i \in ClientSlots(c) : /\ slot'[i].ack = slot[i].ack
                                     /\ slot'[i].timeout = slot[i].timeout
    PROVE  Matched(c)'
<1>1. Upright(c)'
  BY DEF Matched, Upright
<1>2. \A m \in net' : IsUp(m, c) => m \in net
  BY DEF IsUp
<1>3. Upstream(c)'
  BY <1>2 DEF Matched, Upstream, IsUp
<1>4. Settled(c) => Settled(c)'
  BY <1>2 DEF Settled, IsUp
<1>5. \A m \in net' : IsAck(m, c) => m \in net
  BY DEF IsAck
<1>6. Downstream(c) => Downstream(c)'
  BY <1>4, <1>5 DEF Downstream, IsAck
<1>7. Level(c) => Level(c)'
  BY DEF Level
<1> QED
  BY <1>1, <1>3, <1>6, <1>7 DEF Matched


\* The packets that the clients and the server send.
LEMMA SentKinds ==
    ASSUME NEW c
    PROVE  /\ \A kind : /\ ToServer(c, kind).to = "server" /\ ToServer(c, kind).client = c
                        /\ ToServer(c, kind).kind = kind
           /\ \A kind, a : /\ ToClient(c, kind, a).to = "client" /\ ToClient(c, kind, a).client = c
                           /\ ToClient(c, kind, a).kind = kind /\ ToClient(c, kind, a).ack = a
  BY DEF ToServer, ToClient

\* A step of client c disturbs no other client.
LEMMA OtherClient ==
    ASSUME SlotInv, NEW c \in Client, NEW d \in Client \ {c}, Matched(d),
           conn'[d] = conn[d], UNCHANGED slot,
           \A m \in net' : m.client = c \/ m \in net
    PROVE  Matched(d)'
<1>1. ClientSlots(d)' = ClientSlots(d)
  BY DEF ClientSlots
<1> QED
  BY <1>1, Elsewhere

\* A client connects, sends, or leaves.
LEMMA MatchClientSteps ==
    ASSUME Orderly, SlotInv, PathInv, MatchInv, NEW c \in Client,
           Connect(c) \/ SendConnect(c) \/ SendData(c) \/ ClientTimeout(c) \/ Disconnect(c)
    PROVE  MatchInv'
<1>1. UNCHANGED <<slot, game, code>> /\ \A d \in Client \ {c} : conn'[d] = conn[d]
  BY ClientSteps DEF Connect, SendConnect, SendData, ClientTimeout, Disconnect, PathInv
<1>2. NotClosed'
  BY <1>1 DEF MatchInv, NotClosed
<1>3. Matched(c) /\ conn[c] \in Connection
  BY DEF MatchInv, PathInv
<1>4. ClientSlots(c)' = ClientSlots(c)
  BY <1>1 DEF ClientSlots
<1> SUFFICES Matched(c)' /\ \A m \in net' : m.client = c \/ m \in net
  BY <1>1, <1>2, OtherClient DEF MatchInv
<1>5. CASE Connect(c)
  <2> DEFINE base == {m \in net : m.client # c}
  <2>1. SendOver({base}, {ToServer(c, "CONNECT")})
    BY <1>5 DEF Connect
  <2>2. \A m \in net' : m = ToServer(c, "CONNECT") \/ (m \in net /\ m.client # c)
    <3>1. \A m \in net' : m = ToServer(c, "CONNECT") \/ m \in base
      <4> HIDE DEF base
      <4> QED
        BY <2>1, SentOne
    <3> QED
      BY <3>1
  <2>3. conn'[c] = [state |-> "CONNECT", sequence |-> 0, peerAck |-> 0]
    BY <1>5 DEF Connect, Offline, PathInv
  <2>4. Upright(c)'
    BY <2>3 DEF Upright
  <2>5. Upstream(c)'
    BY <2>2, <2>3, SentKinds DEF Upstream, IsUp
  <2>6. Downstream(c)'
    BY <2>2, SentKinds DEF Downstream, IsAck
  <2>7. Level(c)'
    BY <2>3 DEF Level
  <2> QED
    BY <2>2, <2>4, <2>5, <2>6, <2>7, SentKinds DEF Matched
<1>6. CASE SendConnect(c)
  <2>1. SendOver({net}, {ToServer(c, "CONNECT")}) /\ conn[c].state = "CONNECT"
    BY <1>6 DEF SendConnect, Send
  <2>2. \A m \in net' : \/ m = ToServer(c, "CONNECT")
                        \/ m \in net /\ ~(m.client = c /\ m.to = "server")
    BY <2>1, SentOne, SentKinds
  <2>3. UNCHANGED conn
    BY <1>6 DEF SendConnect
  <2>4. Upright(c)'
    BY <1>3, <2>3 DEF Matched, Upright
  <2>5. Upstream(c)'
    BY <2>2, SentKinds DEF Upstream, IsUp
  <2>6. ASSUME c \notin Vanilla
        PROVE  Downstream(c)'
    <3>1. \A m \in net' : IsAck(m, c) => m \in net
      BY <2>2, SentKinds DEF IsAck
    <3>2. Settled(c) => Settled(c)'
      BY <1>1, <1>4, <2>1, <2>3 DEF Settled
    <3> QED
      BY <1>1, <1>3, <1>4, <2>6, <3>1, <3>2 DEF Matched, Downstream, IsAck
  <2>7. Level(c)'
    BY <2>1, <2>3 DEF Level
  <2> QED
    BY <2>2, <2>4, <2>5, <2>6, <2>7, SentKinds DEF Matched
<1>7. CASE SendData(c)
  <2>1. SendOver({net}, {ToServer(c, "DATA")}) /\ conn[c].state = "ONLINE" /\ conn[c].peerAck = 0
    BY <1>7 DEF SendData, Send
  <2>2. \A m \in net' : \/ m = ToServer(c, "DATA")
                        \/ m \in net /\ ~(m.client = c /\ m.to = "server")
    BY <2>1, SentOne, SentKinds
  <2>3. /\ conn'[c].state = "ONLINE" /\ conn'[c].peerAck = 0
        /\ conn'[c].sequence \in {0, 1}
        /\ c \in Vanilla => conn'[c].sequence = 0
    BY <1>3, <1>7, <2>1 DEF SendData, PathInv, Connection
  <2>4. Upright(c)'
    BY <2>3 DEF Upright
  <2>5. Upstream(c)'
    BY <2>2, <2>3, SentKinds DEF Upstream, IsUp
  <2>6. ASSUME c \notin Vanilla
        PROVE  Downstream(c)'
    <3>1. \A m \in net' : IsAck(m, c) => m \in net
      BY <2>2, SentKinds DEF IsAck
    <3>2. Settled(c)'
      BY <2>2, <2>3, SentKinds DEF Settled, IsUp
    <3> QED
      BY <1>1, <1>3, <1>4, <2>6, <3>1, <3>2 DEF Matched, Downstream, IsAck
  <2>7. Level(c)'
    <3>1. \A i \in ClientSlots(c)' : slot'[i].ack \in {0, 1}
      BY <1>1 DEF ClientSlots, SlotInv, SlotConnection
    <3> QED
      BY <2>3, <3>1 DEF Level
  <2> QED
    BY <2>2, <2>4, <2>5, <2>6, <2>7, SentKinds DEF Matched
<1>8. CASE ClientTimeout(c)
  <2>1. UNCHANGED net /\ \A m \in net : m.client # c
    BY <1>8 DEF ClientTimeout, HasArrived
  <2>2. conn'[c] = [state |-> "OFFLINE", sequence |-> 0, peerAck |-> 0]
    BY <1>8 DEF ClientTimeout, Offline, PathInv
  <2>3. Upright(c)' /\ Level(c)'
    BY <2>2 DEF Upright, Level
  <2>4. Upstream(c)' /\ Downstream(c)'
    BY <2>1 DEF Upstream, Downstream, IsUp, IsAck
  <2> QED
    BY <2>1, <2>3, <2>4 DEF Matched
<1>9. CASE Disconnect(c)
  <2>1. \A m \in net' : \/ m = ToServer(c, "CLOSE")
                        \/ m \in net /\ (conn[c].state = "ONLINE" => ~(m.client = c /\ m.to = "server"))
    <3>1. CASE conn[c].state = "ONLINE"
      <4>1. SendOver({net}, {ToServer(c, "CLOSE")})
        BY <1>9, <3>1 DEF Disconnect, Send
      <4> QED
        BY <3>1, <4>1, SentOne, SentKinds
    <3>2. CASE conn[c].state # "ONLINE"
      <4>1. SendOver({net}, {})
        BY <1>9, <3>2 DEF Disconnect, Send
      <4> QED
        BY <3>2, <4>1, SentNone
    <3> QED
      BY <3>1, <3>2
  <2>2. conn'[c] = [state |-> "OFFLINE", sequence |-> 0, peerAck |-> 0]
    BY <1>9 DEF Disconnect, Offline, PathInv
  <2>3. Upright(c)' /\ Level(c)'
    BY <2>2 DEF Upright, Level
  <2>4. Upstream(c)'
    <3>1. CASE conn[c].state = "ONLINE"
      BY <2>1, <2>2, <3>1, SentKinds DEF Upstream, IsUp
    <3>2. CASE conn[c].state # "ONLINE"
      <4>1. net' \subseteq net
        <5>1. SendOver({net}, {})
          BY <1>9, <3>2 DEF Disconnect, Send
        <5> QED
          BY <5>1, SentNone
      <4> QED
        BY <1>3, <2>2, <4>1 DEF Matched, Upstream, IsUp
    <3> QED
      BY <3>1, <3>2
  <2>5. ASSUME c \notin Vanilla
        PROVE  Downstream(c)'
    <3>1. \A m \in net' : IsAck(m, c) => m \in net
      BY <2>1, SentKinds DEF IsAck
    <3>2. Settled(c) => Settled(c)'
      BY <1>1, <1>4, <2>1, <2>2, SentKinds DEF Settled, IsUp
    <3> QED
      BY <1>1, <1>3, <1>4, <2>5, <3>1, <3>2 DEF Matched, Downstream, IsAck
  <2> QED
    BY <2>1, <2>3, <2>4, <2>5, SentKinds DEF Matched
<1> QED
  BY <1>5, <1>6, <1>7, <1>8, <1>9

\* A packet reaches a client, or none.
LEMMA MatchClientReceives ==
    ASSUME Orderly, SlotInv, PathInv, MatchInv, NEW m \in net, ClientFeed(m) \/ Lose(m)
    PROVE  MatchInv'
<1> DEFINE c == m.client
<1>1. UNCHANGED <<slot, game, code>> /\ c \in Client /\ m.ack \in {0, 1}
  BY ClientReceives DEF PathInv, Packet
<1>2. NotClosed'
  BY <1>1 DEF MatchInv, NotClosed
<1>3. Matched(c) /\ conn[c] \in Connection
  BY <1>1 DEF MatchInv, PathInv
<1>4. \A d \in Client : ClientSlots(d)' = ClientSlots(d)
  BY <1>1 DEF ClientSlots
<1>5. CASE Lose(m)
  <2>1. UNCHANGED conn /\ net' \subseteq net
    BY <1>5 DEF Lose
  <2>2. ASSUME NEW d \in Client
        PROVE  Matched(d)'
    BY <1>1, <1>4, <2>1, Elsewhere DEF MatchInv
  <2> QED
    BY <1>2, <2>2 DEF MatchInv
<1>6. CASE ClientFeed(m)
  <2> DEFINE accepted == m.kind = "CONNECTACCEPT" /\ conn[c].state = "CONNECT"
  <2>1. /\ m.to = "client" /\ conn[c].state \in {"CONNECT", "ONLINE"} /\ IsAckValid(c, m.ack)
        /\ SendOver(Left(m), IF accepted THEN {ToServer(c, "ACCEPT")} ELSE {})
    BY <1>6 DEF ClientFeed
  <2>2. /\ conn'[c].peerAck = m.ack /\ conn'[c].sequence = conn[c].sequence
        /\ conn'[c].state = IF m.kind = "CLOSE" THEN "ERROR"
                            ELSE IF accepted THEN "ONLINE" ELSE conn[c].state
        /\ \A d \in Client \ {c} : conn'[d] = conn[d]
    BY <1>1, <1>3, <1>6 DEF ClientFeed, PathInv, Connection
  <2>3. /\ conn[c].peerAck <= m.ack /\ m.ack <= conn[c].sequence
    BY <2>1 DEF IsAckValid
  <2>4. \A q \in net' : \/ accepted /\ q = ToServer(c, "ACCEPT")
                        \/ q \in net /\ (accepted => ~(q.client = c /\ q.to = "server"))
    <3>1. CASE accepted
      <4> DEFINE base == net \ {m}
      <4>1. SendOver({base}, {ToServer(c, "ACCEPT")})
        BY <2>1, <3>1, LeftOrderly
      <4>2. \A q \in net' : \/ q = ToServer(c, "ACCEPT")
                            \/ q \in base /\ ~(q.client = c /\ q.to = "server")
        <5> HIDE DEF base
        <5> QED
          BY <4>1, SentOne, SentKinds
      <4> QED
        BY <3>1, <4>2
    <3>2. CASE ~accepted
      <4>1. SendOver({net \ {m}}, {})
        BY <2>1, <3>2, LeftOrderly
      <4> QED
        BY <3>2, <4>1, SentNone
    <3> QED
      BY <3>1, <3>2
  <2> SUFFICES Matched(c)' /\ \A q \in net' : q.client = c \/ q \in net
    BY <1>1, <1>2, <2>2, OtherClient DEF MatchInv
  <2>5. \A q \in net' : q.client = c \/ q \in net
    BY <2>4, SentKinds
  <2>6. Upright(c)'
    BY <1>1, <1>3, <2>1, <2>2, <2>3 DEF Matched, Upright, Connection
  <2>7. Upstream(c)'
    <3>1. CASE accepted
      <4>1. conn[c].sequence = 0 /\ conn'[c].state # "CONNECT"
        BY <1>3, <2>2, <3>1 DEF Matched, Upright
      <4> QED
        BY <2>2, <2>4, <3>1, <4>1, SentKinds DEF Upstream, IsUp
    <3>2. CASE ~accepted
      BY <1>3, <2>1, <2>2, <2>4, <3>2 DEF Matched, Upstream, IsUp
    <3> QED
      BY <3>1, <3>2
  <2>8. ASSUME c \notin Vanilla
        PROVE  Downstream(c)'
    <3>1. \A q \in net' : IsAck(q, c) => q \in net
      BY <2>4, SentKinds DEF IsAck
    <3>2. Settled(c) => Settled(c)'
      <4>1. CASE accepted
        BY <1>1, <1>4, <4>1 DEF Settled
      <4>2. CASE ~accepted
        BY <1>1, <1>4, <2>1, <2>2, <2>4, <4>2 DEF Settled, IsUp
      <4> QED
        BY <4>1, <4>2
    <3> QED
      BY <1>1, <1>3, <1>4, <2>8, <3>1, <3>2 DEF Matched, Downstream, IsAck
  <2>9. ASSUME c \notin Vanilla
        PROVE  Level(c)'
    <3> SUFFICES ASSUME NEW i \in ClientSlots(c), conn'[c].state = "ONLINE"
                 PROVE  m.ack <= slot[i].ack
      BY <1>1, <1>4, <2>2 DEF Level
    <3>1. slot[i].ack \in {0, 1} /\ m.kind # "CLOSE"
      BY <2>2 DEF ClientSlots, SlotInv, SlotConnection
    <3>2. CASE m.ack = 0
      BY <3>1, <3>2
    <3>3. CASE m.ack = 1
      <4>1. IsAck(m, c)
        BY <2>1, <3>1, <3>3 DEF IsAck
      <4> QED
        BY <1>3, <2>9, <3>3, <4>1 DEF Matched, Downstream
    <3> QED
      BY <1>1, <3>2, <3>3
  <2> QED
    BY <2>5, <2>6, <2>7, <2>8, <2>9 DEF Matched
<1> QED
  BY <1>5, <1>6

\* A step of the server that touches only sessions of c, and sends only to c.
LEMMA ServerStep ==
    ASSUME MatchInv, NEW c \in Client, UNCHANGED conn,
           \A j \in Slot : \/ slot'[j] = slot[j]
                           \/ /\ slot[j].state = "ONLINE" => slot[j].addr = c
                              /\ slot'[j].state = "ONLINE" => /\ slot'[j].addr = c
                                                              /\ ~slot'[j].remoteClosed,
           \A m \in net' : m \in net \/ (m.to = "client" /\ m.client = c),
           c \notin Vanilla => Downstream(c)' /\ Level(c)'
    PROVE  MatchInv'
<1>1. NotClosed'
  BY DEF MatchInv, NotClosed
<1>2. \A d \in Client : Matched(d)
  BY DEF MatchInv
<1>3. Matched(c)'
  <2>1. Upright(c)'
    BY <1>2 DEF Matched, Upright
  <2>2. \A m \in net' : IsUp(m, c) => m \in net
    BY DEF IsUp
  <2>3. Upstream(c)'
    BY <1>2, <2>2 DEF Matched, Upstream, IsUp
  <2> QED
    BY <2>1, <2>3 DEF Matched
<1>4. ASSUME NEW d \in Client \ {c}
      PROVE  Matched(d)'
  <2>1. /\ ClientSlots(d)' = ClientSlots(d)
        /\ \A i \in ClientSlots(d) : slot'[i] = slot[i]
    BY DEF ClientSlots
  <2>2. \A m \in net' : m.client = d => m \in net
    OBVIOUS
  <2> QED
    BY <1>2, <2>1, <2>2, Elsewhere
<1> QED
  BY <1>1, <1>3, <1>4 DEF MatchInv

\* The session of c is that of one slot.
LEMMA OneSession ==
    ASSUME SlotInv, NEW c \in Client, NEW i \in ClientSlots(c)
    PROVE  /\ i \in Slot /\ slot[i].state = "ONLINE" /\ slot[i].addr = c
           /\ slot[i] \in SlotConnection
           /\ \A j \in Slot : slot[j].state = "ONLINE" /\ slot[j].addr = c => j = i
  BY DEF ClientSlots, SlotInv, OneSlotPerAddress

\* The slot in session with c changes.
LEMMA SessionStep ==
    ASSUME SlotInv, MatchInv, NEW c \in Client, NEW i \in ClientSlots(c), NEW r,
           slot' = [slot EXCEPT ![i] = r], UNCHANGED conn,
           r.state = "ONLINE" => r.addr = c /\ ~r.remoteClosed,
           \A m \in net' : m \in net \/ (m.to = "client" /\ m.client = c),
           c \notin Vanilla =>
              /\ \A m \in net' : IsAck(m, c) =>
                    /\ r.state = "ONLINE" => r.ack = 1
                    /\ (r.state = "ONLINE" => r.timeout) =>
                          /\ conn[c].state # "CONNECT"
                          /\ \A n \in net' : IsUp(n, c) => n.kind # "ACCEPT"
              /\ r.state = "ONLINE" /\ conn[c].state = "ONLINE" => conn[c].peerAck <= r.ack
    PROVE  MatchInv'
<1>1. /\ i \in Slot /\ slot[i].state = "ONLINE" /\ slot[i].addr = c
      /\ \A j \in Slot : slot[j].state = "ONLINE" /\ slot[j].addr = c => j = i
  BY OneSession
<1>2. slot'[i] = r /\ \A j \in Slot \ {i} : slot'[j] = slot[j]
  BY <1>1 DEF SlotInv
<1>3. ClientSlots(c)' = IF r.state = "ONLINE" THEN {i} ELSE {}
  BY <1>1, <1>2 DEF ClientSlots
<1>4. ASSUME c \notin Vanilla
      PROVE  Downstream(c)'
  <2>1. CASE r.state = "ONLINE"
    BY <1>2, <1>3, <1>4, <2>1 DEF Downstream, Settled, IsAck, IsUp
  <2>2. CASE r.state # "ONLINE"
    BY <1>2, <1>3, <1>4, <2>2 DEF Downstream, Settled, IsAck, IsUp
  <2> QED
    BY <2>1, <2>2
<1>5. ASSUME c \notin Vanilla
      PROVE  Level(c)'
  BY <1>2, <1>3, <1>5 DEF Level
<1>6. \A j \in Slot : \/ slot'[j] = slot[j]
                      \/ /\ slot[j].state = "ONLINE" => slot[j].addr = c
                         /\ slot'[j].state = "ONLINE" => /\ slot'[j].addr = c
                                                         /\ ~slot'[j].remoteClosed
  BY <1>1, <1>2
<1> QED
  BY <1>4, <1>5, <1>6, ServerStep

\* A client without a session is accepted, or refused.  One with tokens has sent
\* ACCEPT.
LEMMA MatchAccept ==
    ASSUME Orderly, SlotInv, PathInv, MatchInv, NEW c \in Client, ClientSlots(c) = {},
           NEW base \in SUBSET net, NEW answer, NEW vanillaAuth,
           answer = {} \/ answer = {ToClient(c, "CONNECTACCEPT", 0)},
           c \notin Vanilla => \E m \in net : IsUp(m, c) /\ m.kind = "ACCEPT",
           TryAcceptClient(c, {base}, answer, vanillaAuth), UNCHANGED conn
    PROVE  MatchInv'
<1>1. ASSUME c \notin Vanilla
      PROVE  /\ \A m \in net : ~IsAck(m, c)
             /\ conn[c].sequence = 0 /\ conn[c].peerAck <= 0
  <2>1. Upright(c) /\ Upstream(c) /\ Downstream(c) /\ conn[c] \in Connection
    BY <1>1 DEF MatchInv, Matched, PathInv
  <2>2. ~Settled(c)
    BY <1>1 DEF Settled
  <2>3. conn[c].sequence = 0
    BY <1>1, <2>1 DEF Upstream
  <2> QED
    BY <2>1, <2>2, <2>3 DEF Downstream, Upright
<1>2. \A q \in answer \union {ToClient(c, "CLOSE", 0)} :
         q.to = "client" /\ q.client = c /\ ~IsAck(q, c)
  BY SentKinds DEF IsAck
<1>3. \A q \in net' : q \in net \/ (q.to = "client" /\ q.client = c /\ ~IsAck(q, c))
  <2>1. CASE Refuse(c, {base}, answer)
    <3> DEFINE ps == answer \union {ToClient(c, "CLOSE", 0)}
    <3>1. SendOver({base}, ps)
      BY <2>1 DEF Refuse
    <3>2. \A q \in net' : q \in ps \/ q \in base
      <4> HIDE DEF ps
      <4> QED
        BY <3>1, SentOver
    <3> QED
      BY <1>2, <3>2
  <2>2. CASE Accept(c, {base}, answer, vanillaAuth)
    <3>1. SendOver({base}, answer)
      BY <2>2 DEF Accept
    <3>2. \A q \in net' : q \in answer \/ q \in base
      BY <3>1, SentOver
    <3> QED
      BY <1>2, <3>2
  <2> QED
    BY <2>1, <2>2 DEF TryAcceptClient
<1>4. ASSUME c \notin Vanilla
      PROVE  \A q \in net' : ~IsAck(q, c)
  BY <1>1, <1>3, <1>4
<1>5. ASSUME c \notin Vanilla
      PROVE  Downstream(c)'
  BY <1>4, <1>5 DEF Downstream, IsAck
<1>6. CASE UNCHANGED slot
  <2>1. ClientSlots(c)' = {}
    BY <1>6 DEF ClientSlots
  <2>2. Level(c)'
    BY <2>1 DEF Level
  <2> QED
    BY <1>3, <1>5, <1>6, <2>2, ServerStep
<1>7. CASE Accept(c, {base}, answer, vanillaAuth)
  <2>1. PICK i \in Slot :
           /\ slot[i].state = "OFFLINE"
           /\ slot' = [slot EXCEPT ![i] = [Free EXCEPT !.state = "ONLINE", !.addr = c]]
    BY <1>7 DEF Accept
  <2> DEFINE r == [Free EXCEPT !.state = "ONLINE", !.addr = c]
  <2>2. r.state = "ONLINE" /\ r.addr = c /\ ~r.remoteClosed /\ r.ack = 0
    BY DEF Free
  <2>3. slot'[i] = r /\ \A j \in Slot \ {i} : slot'[j] = slot[j]
    BY <2>1 DEF SlotInv
  <2> HIDE DEF r
  <2>4. ClientSlots(c)' = {i}
    BY <2>2, <2>3 DEF ClientSlots
  <2>5. ASSUME c \notin Vanilla
        PROVE  Level(c)'
    BY <1>1, <2>2, <2>3, <2>4, <2>5 DEF Level
  <2>6. \A j \in Slot : \/ slot'[j] = slot[j]
                        \/ /\ slot[j].state = "ONLINE" => slot[j].addr = c
                           /\ slot'[j].state = "ONLINE" => /\ slot'[j].addr = c
                                                           /\ ~slot'[j].remoteClosed
    BY <2>1, <2>2, <2>3
  <2> QED
    BY <1>3, <1>5, <2>5, <2>6, ServerStep
<1> QED
  BY <1>6, <1>7 DEF TryAcceptClient, Refuse

\* A step that only loses packets, or answers a client what acks nothing.
LEMMA MatchAnswer ==
    ASSUME MatchInv, NEW c \in Client, UNCHANGED <<conn, slot>>,
           \A m \in net' : m \in net \/ (m.to = "client" /\ m.client = c /\ ~IsAck(m, c))
    PROVE  MatchInv'
<1>1. \A d \in Client : ClientSlots(d)' = ClientSlots(d)
  BY DEF ClientSlots
<1>2. ASSUME NEW d \in Client
      PROVE  Matched(d)'
  <2>1. Matched(d)
    BY DEF MatchInv
  <2>2. \A m \in net' : m.client = d => m \in net \/ (m.to = "client" /\ ~IsAck(m, d))
    BY DEF IsAck
  <2> QED
    BY <1>1, <2>1, <2>2, Elsewhere
<1> QED
  BY <1>2 DEF MatchInv, NotClosed

\* A packet reaches the server.
LEMMA MatchServerReceives ==
    ASSUME Orderly, SlotInv, PathInv, MatchInv, NEW m \in net, Recv(m)
    PROVE  MatchInv'
<1> DEFINE c == m.client
           base == net \ {m}
<1>1. c \in Client /\ Left(m) = {base} /\ base \subseteq net /\ Matched(c)
  BY LeftOrderly DEF PathInv, Packet, MatchInv
<1>2. conn[c] \in Connection /\ UNCHANGED conn
  BY <1>1 DEF PathInv, Recv, RecvConnect, RecvAccept, RecvClose, RecvData
<1> HIDE DEF base
<1>3. CASE RecvConnect(m)
  <2> DEFINE answer == {ToClient(c, "CONNECTACCEPT", 0)}
  <2>1. CASE c \in Vanilla /\ ClientSlots(c) = {} /\ ~Antispoof
    <3>1. TryAcceptClient(c, {base}, answer, FALSE)
      BY <1>1, <1>3, <2>1 DEF RecvConnect
    <3> QED
      BY <1>1, <1>2, <2>1, <3>1, MatchAccept
  <2>2. CASE ~(c \in Vanilla /\ ClientSlots(c) = {} /\ ~Antispoof)
    <3>1. /\ SendOver({base}, {}) \/ SendOver({base}, answer)
          /\ UNCHANGED slot
      BY <1>1, <1>3, <2>2 DEF RecvConnect
    <3>2. \A q \in net' : q \in net \/ q = ToClient(c, "CONNECTACCEPT", 0)
      BY <1>1, <3>1, SentNone, SentOne
    <3>3. \A q \in net' : q \in net \/ (q.to = "client" /\ q.client = c /\ ~IsAck(q, c))
      BY <3>2, SentKinds DEF IsAck
    <3> QED
      BY <1>1, <1>2, <3>1, <3>3, MatchAnswer
  <2> QED
    BY <2>1, <2>2
<1>4. CASE RecvAccept(m)
  <2>1. m.kind = "ACCEPT" /\ c \notin Vanilla /\ m.to = "server"
    BY <1>4 DEF RecvAccept, PathInv, Packet
  <2>2. IsUp(m, c)
    BY <2>1 DEF IsUp
  <2>3. CASE ClientSlots(c) = {} /\ TryAcceptClient(c, {base}, {}, FALSE)
    BY <1>1, <1>2, <2>1, <2>2, <2>3, MatchAccept
  <2>4. ASSUME NEW i \in ClientSlots(c),
               slot' = [slot EXCEPT ![i].ack = 0],
               SendOver({base}, {ToClient(c, "DATA", 0)})
        PROVE  MatchInv'
    <3>1. i \in Slot /\ slot[i].state = "ONLINE" /\ slot[i].addr = c /\ slot[i] \in SlotConnection
      BY <1>1, OneSession
    <3> DEFINE r == [slot[i] EXCEPT !.ack = 0]
    <3>2. r.state = "ONLINE" /\ r.addr = c /\ r.ack = 0 /\ r.remoteClosed = slot[i].remoteClosed
      BY <3>1 DEF SlotConnection
    <3>3. slot' = [slot EXCEPT ![i] = r]
      BY <2>4, <3>1 DEF SlotInv
    <3>4. ~slot[i].remoteClosed
      BY <3>1 DEF MatchInv, NotClosed
    <3>5. \A q \in net' : \/ q = ToClient(c, "DATA", 0)
                          \/ q \in base /\ ~(q.client = c /\ q.to = "client")
      BY <2>4, SentOne, SentKinds
    <3>6. \A q \in net' : ~IsAck(q, c) /\ (q \in net \/ (q.to = "client" /\ q.client = c))
      BY <1>1, <3>5, SentKinds DEF IsAck
    <3>7. conn[c].peerAck <= 0
      BY <1>1, <1>2, <2>1, <2>2 DEF Matched, Upright, Upstream, Connection
    <3> HIDE DEF r
    <3> QED
      BY <1>1, <1>2, <3>2, <3>3, <3>4, <3>6, <3>7, SessionStep
  <2> QED
    BY <1>1, <1>4, <2>3, <2>4 DEF RecvAccept
<1>5. CASE RecvClose(m)
  <2>1. PICK i \in ClientSlots(c) :
           slot' = [slot EXCEPT ![i].state = "ERROR", ![i].remoteClosed = TRUE]
    BY <1>5 DEF RecvClose
  <2>2. i \in Slot /\ slot[i] \in SlotConnection
    BY <1>1, OneSession
  <2> DEFINE r == [slot[i] EXCEPT !.state = "ERROR", !.remoteClosed = TRUE]
  <2>3. slot' = [slot EXCEPT ![i] = r] /\ r.state = "ERROR"
    BY <2>1, <2>2 DEF SlotInv, SlotConnection
  <2>4. net' \subseteq net
    <3>1. SendOver({base}, {})
      BY <1>1, <1>5 DEF RecvClose
    <3> QED
      BY <1>1, <3>1, SentNone
  <2>5. IsUp(m, c) /\ m.kind = "CLOSE"
    BY <1>5 DEF RecvClose, IsUp
  <2>6. conn[c].state # "CONNECT" /\ \A n \in net : IsUp(n, c) => n.kind # "ACCEPT"
    BY <1>1, <2>5 DEF Matched, Upstream
  <2> HIDE DEF r
  <2> QED
    BY <1>1, <1>2, <2>3, <2>4, <2>6, SessionStep
<1>6. CASE RecvData(m)
  <2>1. CASE ClientSlots(c) = {} /\ c \in Vanilla /\ TryAcceptClient(c, {base}, {}, TRUE)
    BY <1>1, <1>2, <2>1, MatchAccept
  <2>2. ASSUME NEW i \in ClientSlots(c),
               slot' = [slot EXCEPT ![i].ack = Fetched(i)],
               SendOver({base}, {})
        PROVE  MatchInv'
    <3>1. i \in Slot /\ slot[i].state = "ONLINE" /\ slot[i].addr = c /\ slot[i] \in SlotConnection
      BY <1>1, OneSession
    <3> DEFINE r == [slot[i] EXCEPT !.ack = Fetched(i)]
    <3>2. /\ r.state = "ONLINE" /\ r.addr = c /\ r.remoteClosed = slot[i].remoteClosed
          /\ r.timeout = slot[i].timeout /\ (c \notin Vanilla => r.ack = 1)
      BY <3>1 DEF SlotConnection, Fetched
    <3>3. slot' = [slot EXCEPT ![i] = r]
      BY <2>2, <3>1 DEF SlotInv
    <3>4. ~slot[i].remoteClosed
      BY <3>1 DEF MatchInv, NotClosed
    <3>5. net' \subseteq net
      BY <1>1, <2>2, SentNone
    <3>6. ASSUME c \notin Vanilla, NEW q \in net', IsAck(q, c), slot[i].timeout
          PROVE  /\ conn[c].state # "CONNECT"
                 /\ \A n \in net' : IsUp(n, c) => n.kind # "ACCEPT"
      <4>1. Settled(c)
        BY <1>1, <3>5, <3>6 DEF Matched, Downstream
      <4>2. \A j \in ClientSlots(c) : slot[j].timeout
        BY <1>1, <3>6, OneSession DEF ClientSlots
      <4> QED
        BY <3>5, <4>1, <4>2 DEF Settled
    <3>7. conn[c].peerAck <= 1
      BY <1>2 DEF Connection
    <3> HIDE DEF r
    <3> QED
      BY <1>1, <1>2, <3>2, <3>3, <3>4, <3>5, <3>6, <3>7, SessionStep
  <2> QED
    BY <1>1, <1>6, <2>1, <2>2 DEF RecvData
<1> QED
  BY <1>3, <1>4, <1>5, <1>6 DEF Recv

\* A slot that is not in session changes, and does not enter one.
LEMMA SilentStep ==
    ASSUME SlotInv, MatchInv, NEW i \in Slot, NEW r, slot[i].state # "ONLINE",
           r.state # "ONLINE", slot' = [slot EXCEPT ![i] = r],
           NEW c \in Client, UNCHANGED conn,
           \A m \in net' : m \in net \/ (m.to = "client" /\ m.client = c /\ ~IsAck(m, c))
    PROVE  MatchInv'
<1>1. slot'[i] = r /\ \A j \in Slot \ {i} : slot'[j] = slot[j]
  BY DEF SlotInv
<1>2. \A d \in Client : /\ ClientSlots(d)' = ClientSlots(d)
                        /\ \A j \in ClientSlots(d) : slot'[j] = slot[j]
  BY <1>1 DEF ClientSlots
<1>3. ASSUME NEW d \in Client
      PROVE  Matched(d)'
  <2>1. Matched(d)
    BY DEF MatchInv
  <2>2. \A m \in net' : m.client = d => m \in net \/ (m.to = "client" /\ ~IsAck(m, d))
    BY DEF IsAck
  <2> QED
    BY <1>2, <2>1, <2>2, Elsewhere
<1>4. NotClosed'
  BY <1>1 DEF MatchInv, NotClosed
<1> QED
  BY <1>3, <1>4 DEF MatchInv

\* Where nothing of c is on its way, or no ACCEPT and no CONNECT will be, the
\* server may forget the session; otherwise it says so.
LEMMA MatchDrop ==
    ASSUME Orderly, SlotInv, PathInv, MatchInv, NEW i \in Slot, slot[i].state # "OFFLINE",
           NEW timeout \in BOOLEAN, Drop(i, timeout),
           slot[i].state = "ONLINE" /\ timeout => slot[i].timeout \/ HasArrived(slot[i].addr)
    PROVE  MatchInv'
<1> DEFINE c == slot[i].addr
           bye == ToClient(c, "CLOSE", slot[i].ack)
<1>1. /\ c \in Client /\ UNCHANGED conn /\ slot' = [slot EXCEPT ![i] = Free]
      /\ Free.state = "OFFLINE" /\ slot[i] \in SlotConnection
  BY DEF SlotInv, FreeIsBlank, Drop, Free
<1>2. bye.to = "client" /\ bye.client = c /\ ~IsAck(bye, c)
  BY SentKinds DEF IsAck
<1>3. CASE slot[i].remoteClosed \/ timeout
  <2>1. net' \subseteq net
    <3>1. SendOver({net}, {})
      BY <1>3 DEF Drop, Send
    <3> QED
      BY <3>1, SentNone
  <2>2. CASE slot[i].state # "ONLINE"
    BY <1>1, <2>1, <2>2, SilentStep
  <2>3. CASE slot[i].state = "ONLINE"
    <3>1. timeout
      BY <1>3, <2>3 DEF MatchInv, NotClosed
    <3>2. ASSUME c \notin Vanilla, NEW q \in net', IsAck(q, c)
          PROVE  /\ conn[c].state # "CONNECT"
                 /\ \A n \in net' : IsUp(n, c) => n.kind # "ACCEPT"
      <4>1. q \in net /\ q.client = c
        BY <2>1, <3>2 DEF IsAck
      <4>2. slot[i].timeout
        BY <2>3, <3>1, <4>1 DEF HasArrived
      <4>3. i \in ClientSlots(c)
        BY <2>3 DEF ClientSlots
      <4>4. \A j \in ClientSlots(c) : slot[j].timeout
        BY <1>1, <4>2, <4>3, OneSession DEF ClientSlots
      <4>5. Settled(c)
        BY <1>1, <3>2, <4>1 DEF MatchInv, Matched, Downstream
      <4> QED
        BY <2>1, <4>4, <4>5 DEF Settled
    <3>3. i \in ClientSlots(c)
      BY <2>3 DEF ClientSlots
    <3> QED
      BY <1>1, <2>1, <3>2, <3>3, SessionStep
  <2> QED
    BY <2>2, <2>3
<1>4. CASE ~(slot[i].remoteClosed \/ timeout)
  <2>1. SendOver({net}, {bye})
    BY <1>4 DEF Drop, Send
  <2>2. \A q \in net' : q = bye \/ (q \in net /\ ~(q.client = c /\ q.to = "client"))
    BY <1>2, <2>1, SentOne
  <2>3. \A q \in net' : ~IsAck(q, c) /\ (q \in net \/ (q.to = "client" /\ q.client = c))
    BY <1>2, <2>2 DEF IsAck
  <2> HIDE DEF bye
  <2>4. CASE slot[i].state # "ONLINE"
    BY <1>1, <2>3, <2>4, SilentStep
  <2>5. CASE slot[i].state = "ONLINE"
    <3>1. i \in ClientSlots(c)
      BY <2>5 DEF ClientSlots
    <3> QED
      BY <1>1, <2>3, <3>1, SessionStep
  <2> QED
    BY <2>4, <2>5
<1> QED
  BY <1>3, <1>4

\* A slot's session stays, with the ack and the timeout it had.
LEMMA SessionStays ==
    ASSUME SlotInv, MatchInv, NEW i \in Slot, slot[i].state = "ONLINE", NEW r,
           slot' = [slot EXCEPT ![i] = r], UNCHANGED <<conn, net>>,
           r.state = "ONLINE", r.addr = slot[i].addr, ~r.remoteClosed,
           r.ack = slot[i].ack, r.timeout = slot[i].timeout
    PROVE  MatchInv'
<1>1. slot'[i] = r /\ \A j \in Slot \ {i} : slot'[j] = slot[j]
  BY DEF SlotInv
<1>2. ASSUME NEW d \in Client
      PROVE  Matched(d)'
  <2>1. ClientSlots(d)' = ClientSlots(d)
    BY <1>1 DEF ClientSlots
  <2>2. \A j \in ClientSlots(d) : slot'[j].ack = slot[j].ack /\ slot'[j].timeout = slot[j].timeout
    BY <1>1 DEF ClientSlots
  <2>3. Matched(d)
    BY DEF MatchInv
  <2> QED
    BY <2>1, <2>2, <2>3, Elsewhere
<1>3. NotClosed'
  BY <1>1 DEF MatchInv, NotClosed
<1> QED
  BY <1>2, <1>3 DEF MatchInv

\* An update of a slot keeps its session alive.
LEMMA MatchKeepAlive ==
    ASSUME Orderly, SlotInv, PathInv, MatchInv, NEW i \in Slot, KeepAlive(i)
    PROVE  MatchInv'
<1> DEFINE c == slot[i].addr
           r == [slot[i] EXCEPT !.timeout = FALSE]
           sent == ToClient(c, "DATA", slot[i].ack)
<1>1. /\ slot[i].state = "ONLINE" /\ slot[i] \in SlotConnection /\ UNCHANGED conn
      /\ ~slot[i].remoteClosed /\ SendOver({net}, {sent})
  BY DEF KeepAlive, SlotInv, MatchInv, NotClosed, Send
<1>2. /\ r.state = "ONLINE" /\ r.addr = c /\ ~r.remoteClosed /\ ~r.timeout
      /\ r.ack = slot[i].ack
  BY <1>1 DEF SlotConnection
<1>3. slot' = [slot EXCEPT ![i] = r] /\ c \in Client /\ i \in ClientSlots(c)
  BY <1>1 DEF KeepAlive, SlotInv, FreeIsBlank, ClientSlots
<1>4. sent.to = "client" /\ sent.client = c /\ sent.ack = slot[i].ack
  BY SentKinds
<1>5. \A q \in net' : q = sent \/ (q \in net /\ ~(q.client = c /\ q.to = "client"))
  BY <1>1, <1>4, SentOne
<1>6. \A q \in net' : IsAck(q, c) => slot[i].ack = 1
  BY <1>4, <1>5 DEF IsAck
<1>7. \A q \in net' : q \in net \/ (q.to = "client" /\ q.client = c)
  BY <1>4, <1>5
<1>8. ASSUME c \notin Vanilla, conn[c].state = "ONLINE"
      PROVE  conn[c].peerAck <= slot[i].ack
  BY <1>3, <1>8 DEF MatchInv, Matched, Level
<1> HIDE DEF r, sent
<1> QED
  BY <1>1, <1>2, <1>3, <1>6, <1>7, <1>8, SessionStep

\* A session times out, after all that was on its way has arrived.
LEMMA MatchTimeout ==
    ASSUME Orderly, SlotInv, PathInv, MatchInv, NEW i \in Slot, Timeout(i)
    PROVE  MatchInv'
<1>1. slot[i].state = "ONLINE" /\ slot[i] \in SlotConnection /\ HasArrived(slot[i].addr)
  BY DEF Timeout, SlotInv
<1>2. CASE ~slot[i].protected /\ Drop(i, TRUE)
  BY <1>1, <1>2, MatchDrop
<1>3. CASE /\ slot[i].protected
           /\ slot' = [slot EXCEPT ![i].state = "ERROR", ![i].timeout = TRUE]
           /\ UNCHANGED <<conn, game, code, net, connects>>
  <2> DEFINE c == slot[i].addr
             r == [slot[i] EXCEPT !.state = "ERROR", !.timeout = TRUE]
  <2>1. slot' = [slot EXCEPT ![i] = r] /\ r.state = "ERROR"
    BY <1>1, <1>3 DEF SlotInv, SlotConnection
  <2>2. c \in Client /\ i \in ClientSlots(c) /\ UNCHANGED <<conn, net>>
    BY <1>1, <1>3 DEF SlotInv, FreeIsBlank, ClientSlots
  <2>3. \A q \in net' : ~IsAck(q, c)
    BY <1>1, <2>2 DEF HasArrived, IsAck
  <2> HIDE DEF r
  <2> QED
    BY <2>1, <2>2, <2>3, SessionStep
<1> QED
  BY <1>2, <1>3 DEF Timeout

\* The session of slot i moves to slot k, between two packets of the client.
LEMMA MatchTakeover ==
    ASSUME Orderly, SlotInv, PathInv, MatchInv, NEW i \in Slot, NEW k \in Claimable(i),
           NEW c \in Client, slot[i].addr = c, ChunkArrives(i), SetTimedOut(k, i), UNCHANGED <<conn, net>>
    PROVE  MatchInv'
<1> DEFINE r == [slot[k] EXCEPT !.state = "ONLINE", !.addr = slot[i].addr,
                                !.ack = slot[i].ack, !.remoteClosed = FALSE]
<1>1. /\ slot[i].state = "ONLINE" /\ slot[i] \in SlotConnection
      /\ conn[c].state = "ONLINE" /\ \A m \in net : ~IsUp(m, c)
  BY DEF ChunkArrives, SlotInv, IsUp
<1>2. k \in Slot /\ k # i /\ slot[k].state = "ERROR" /\ slot[k] \in SlotConnection
  BY DEF Claimable, SlotInv
<1>3. r.state = "ONLINE" /\ r.addr = c /\ r.ack = slot[i].ack /\ ~r.remoteClosed
  BY <1>2 DEF SlotConnection
<1>4. slot' = [[slot EXCEPT ![k] = r] EXCEPT ![i] = Free]
  BY <1>2 DEF SetTimedOut, SlotInv
<1> HIDE DEF r
<1>5. /\ slot'[i] = Free /\ slot'[k] = r /\ Free.state = "OFFLINE"
      /\ \A j \in Slot \ {i, k} : slot'[j] = slot[j]
  BY <1>2, <1>4 DEF SlotInv, Free
<1>6. \A j \in Slot : slot[j].state = "ONLINE" /\ slot[j].addr = c => j = i
  BY <1>1 DEF SlotInv, OneSlotPerAddress
<1>7. ClientSlots(c)' = {k} /\ i \in ClientSlots(c)
  BY <1>1, <1>2, <1>3, <1>5, <1>6 DEF ClientSlots
<1>8. ASSUME c \notin Vanilla
      PROVE  Downstream(c)' /\ Level(c)'
  <2>1. Downstream(c) /\ Level(c)
    BY <1>1, <1>8 DEF MatchInv, Matched
  <2>2. Level(c)'
    BY <1>1, <1>3, <1>5, <1>7, <2>1 DEF Level
  <2>3. Settled(c)'
    BY <1>1 DEF Settled, IsUp
  <2>4. \A m \in net' : IsAck(m, c) => slot'[k].ack = 1
    BY <1>3, <1>5, <1>7, <2>1 DEF Downstream
  <2> QED
    BY <1>7, <2>2, <2>3, <2>4 DEF Downstream, IsAck
<1>9. \A j \in Slot : \/ slot'[j] = slot[j]
                      \/ /\ slot[j].state = "ONLINE" => slot[j].addr = c
                         /\ slot'[j].state = "ONLINE" => /\ slot'[j].addr = c
                                                         /\ ~slot'[j].remoteClosed
  BY <1>2, <1>3, <1>5
<1> QED
  BY <1>1, <1>8, <1>9, ServerStep

\* The steps of a slot.
LEMMA MatchSlotSteps ==
    ASSUME Orderly, SlotInv, PathInv, MatchInv, NEW i \in Slot,
           \/ Kick(i) \/ KeepAlive(i) \/ Timeout(i) \/ DropError(i)
           \/ EnterGame(i) \/ ConTimeout(i)
    PROVE  MatchInv'
<1>1. CASE Kick(i)
  <2>1. slot[i].state # "OFFLINE" /\ slot[i].timeout \in BOOLEAN /\ Drop(i, slot[i].timeout)
    BY <1>1 DEF Kick, SlotInv, GameMatchesSlots, SlotConnection
  <2> QED
    BY <2>1, MatchDrop
<1>2. CASE DropError(i)
  <2>1. slot[i].state = "ERROR" /\ Drop(i, FALSE)
    BY <1>2 DEF DropError
  <2> QED
    BY <2>1, MatchDrop
<1>3. CASE EnterGame(i)
  <2>1. UNCHANGED <<conn, slot, net>> /\ slot[i].addr \in Client
    BY <1>3 DEF EnterGame, ChunkArrives, SlotInv, FreeIsBlank
  <2> QED
    BY <2>1, MatchAnswer
<1>4. CASE ConTimeout(i)
  <2>1. /\ ChunkArrives(i) /\ UNCHANGED <<conn, net>> /\ slot[i].state = "ONLINE"
        /\ slot[i].addr \in Client
    BY <1>4 DEF ConTimeout, ChunkArrives, SlotInv, FreeIsBlank
  <2>2. CASE Claimable(i) # {}
    <3>1. PICK k \in Claimable(i) : SetTimedOut(k, i)
      BY <1>4, <2>2 DEF ConTimeout
    <3> QED
      BY <2>1, <3>1, MatchTakeover
  <2>3. CASE Claimable(i) = {}
    <3> DEFINE r == [slot[i] EXCEPT !.protected = TRUE]
    <3>1. slot[i] \in SlotConnection /\ ~slot[i].remoteClosed
      BY <2>1 DEF SlotInv, MatchInv, NotClosed
    <3>2. /\ r.state = "ONLINE" /\ r.addr = slot[i].addr /\ ~r.remoteClosed
          /\ r.ack = slot[i].ack /\ r.timeout = slot[i].timeout
      BY <2>1, <3>1 DEF SlotConnection
    <3>3. slot' = [slot EXCEPT ![i] = r]
      BY <1>4, <2>3 DEF ConTimeout, SlotInv
    <3> HIDE DEF r
    <3> QED
      BY <2>1, <3>2, <3>3, SessionStays
  <2> QED
    BY <2>2, <2>3
<1> QED
  BY <1>1, <1>2, <1>3, <1>4, MatchKeepAlive, MatchTimeout

-----------------------------------------------------------------------------
(* The theorems. *)

LEMMA InvariantParts == IInv <=> SlotInv /\ PathInv
  BY DEF IInv, TypeOK, SlotInv, PathInv

\* The inductive invariant holds at the start and is kept by every step.
THEOREM SlotsInductive == Spec => []IInv
<1>1. Init => IInv
  BY DEF Init, IInv, TypeOK, FreeIsBlank, OneSlotPerAddress, GameMatchesSlots, OwnTee,
         Offline, Free, Connection, SlotConnection
<1>2. IInv /\ [Next]_vars => IInv'
  <2> SUFFICES ASSUME SlotInv, PathInv, [Next]_vars
               PROVE  SlotInv' /\ PathInv'
    BY InvariantParts DEF IInv, TypeOK, SlotInv, PathInv
  <2>1. ASSUME NEW c \in Client,
               \/ Connect(c) \/ SendConnect(c) \/ SendData(c)
               \/ ClientTimeout(c) \/ Disconnect(c)
        PROVE  SlotInv' /\ PathInv'
    BY <2>1, ClientSteps, SlotStutter
  <2>2. ASSUME NEW m \in net, ClientFeed(m) \/ Lose(m)
        PROVE  SlotInv' /\ PathInv'
    BY <2>2, ClientReceives, SlotStutter
  <2>3. ASSUME NEW m \in net, Recv(m)
        PROVE  SlotInv' /\ PathInv'
    BY <2>3, ServerReceives
  <2>4. ASSUME NEW i \in Slot,
               \/ Kick(i) \/ KeepAlive(i) \/ Timeout(i) \/ DropError(i)
               \/ EnterGame(i) \/ ConTimeout(i)
        PROVE  SlotInv' /\ PathInv'
    BY <2>4, KickStep, KeepAliveStep, TimeoutStep, DropErrorStep, EnterGameStep,
       ConTimeoutStep
  <2>5. CASE UNCHANGED vars
    BY <2>5, SlotStutter DEF vars, PathInv
  <2> QED
    BY <2>1, <2>2, <2>3, <2>4, <2>5 DEF Next
<1> QED
  BY <1>1, <1>2, PTL DEF Spec

\* The variables keep their types.
THEOREM SlotTypesCorrect == Spec => []TypeOK
<1>1. IInv => TypeOK
  BY DEF IInv
<1> QED
  BY <1>1, SlotsInductive, PTL

\* No address is in session with two slots.
THEOREM AddressesDiffer == Spec => []OneSlotPerAddress
<1>1. IInv => OneSlotPerAddress
  BY DEF IInv
<1> QED
  BY <1>1, SlotsInductive, PTL

\* The game and the network agree on which slots are taken.
THEOREM GameInStep == Spec => []GameMatchesSlots
<1>1. IInv => GameMatchesSlots
  BY DEF IInv
<1> QED
  BY <1>1, SlotsInductive, PTL

\* A tee with a timeout code is driven only by a client with that code.
THEOREM TeesKeepOwners == Spec => []OwnTee
<1>1. IInv => OwnTee
  BY DEF IInv
<1> QED
  BY <1>1, SlotsInductive, PTL

\* No IP has more slots than allowed, those kept for silent clients included, and
\* no takeover gets round it.
THEOREM LimitHolds == Spec => []PerIPLimit
<1>1. Init => PerIPLimit
  <2> SUFFICES ASSUME Init, NEW c \in Client
               PROVE  Cardinality(Held(c)) <= MaxClientsPerIP
    BY LimitOfHeld
  <2>1. Held(c) = {}
    BY DEF Init, Held, Counted, IsKept, Free
  <2> QED
    BY <2>1, FS_EmptySet, SlotAssumption
<1>2. PerIPLimit /\ IInv /\ [Next]_vars => PerIPLimit'
  <2> SUFFICES ASSUME PerIPLimit, SlotInv, PathInv, [Next]_vars
               PROVE  PerIPLimit'
    BY InvariantParts
  <2>1. CASE UNCHANGED slot
    BY <2>1 DEF PerIPLimit, IsKept
  <2>2. ASSUME NEW c \in Client,
               \/ Connect(c) \/ SendConnect(c) \/ SendData(c)
               \/ ClientTimeout(c) \/ Disconnect(c)
        PROVE  PerIPLimit'
    BY <2>1, <2>2, ClientSteps
  <2>3. ASSUME NEW m \in net, ClientFeed(m) \/ Lose(m)
        PROVE  PerIPLimit'
    BY <2>1, <2>3, ClientReceives
  <2>4. ASSUME NEW m \in net, Recv(m)
        PROVE  PerIPLimit'
    BY <2>4, LimitReceives
  <2>5. ASSUME NEW i \in Slot,
               \/ Kick(i) \/ KeepAlive(i) \/ Timeout(i) \/ DropError(i)
               \/ EnterGame(i) \/ ConTimeout(i)
        PROVE  PerIPLimit'
    BY <2>5, LimitSlotSteps
  <2>6. CASE UNCHANGED vars
    BY <2>1, <2>6 DEF vars
  <2> QED
    BY <2>2, <2>3, <2>4, <2>5, <2>6 DEF Next
<1> QED
  BY <1>1, <1>2, SlotsInductive, PTL DEF Spec

\* Over an orderly path the two ends of every session agree on how far the
\* client's stream got, through reconnects, restarted sessions and takeovers.
THEOREM SessionsInStep == ASSUME Orderly PROVE Spec => []InStep
<1>1. Init => MatchInv
  <2>1. ASSUME Init, NEW c \in Client
        PROVE  Matched(c)
    <3>1. net = {} /\ conn[c] = Offline /\ ClientSlots(c) = {}
      BY <2>1 DEF Init, ClientSlots, Free
    <3> QED
      BY <3>1 DEF Matched, Upright, Upstream, Downstream, Level, Offline
  <2> QED
    BY <2>1 DEF MatchInv, NotClosed, Init, Free
<1>2. MatchInv /\ IInv /\ [Next]_vars => MatchInv'
  <2> SUFFICES ASSUME MatchInv, SlotInv, PathInv, [Next]_vars
               PROVE  MatchInv'
    BY InvariantParts
  <2>1. ASSUME NEW c \in Client,
               \/ Connect(c) \/ SendConnect(c) \/ SendData(c)
               \/ ClientTimeout(c) \/ Disconnect(c)
        PROVE  MatchInv'
    BY <2>1, MatchClientSteps
  <2>2. ASSUME NEW m \in net, ClientFeed(m) \/ Lose(m)
        PROVE  MatchInv'
    BY <2>2, MatchClientReceives
  <2>3. ASSUME NEW m \in net, Recv(m)
        PROVE  MatchInv'
    BY <2>3, MatchServerReceives
  <2>4. ASSUME NEW i \in Slot,
               \/ Kick(i) \/ KeepAlive(i) \/ Timeout(i) \/ DropError(i)
               \/ EnterGame(i) \/ ConTimeout(i)
        PROVE  MatchInv'
    BY <2>4, MatchSlotSteps
  <2>5. CASE UNCHANGED vars
    BY <2>5 DEF vars, MatchInv, NotClosed, Matched, Upright, Upstream, Downstream, Level,
                Settled, ClientSlots, IsUp, IsAck
  <2> QED
    BY <2>1, <2>2, <2>3, <2>4, <2>5 DEF Next
<1>3. MatchInv /\ IInv => InStep
  BY MatchedInStep, InvariantParts
<1> QED
  BY <1>1, <1>2, <1>3, SlotsInductive, PTL DEF Spec
=============================================================================
