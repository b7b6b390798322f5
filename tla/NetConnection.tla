--------------------------- MODULE NetConnection ---------------------------
(***************************************************************************)
(* Two online CNetConnection objects, one at each end of a UDP path, and   *)
(* the CNetRecvUnpacker that takes their packets apart.  A vital chunk     *)
(* carries a sequence number modulo NET_MAX_SEQUENCE and stays in the      *)
(* resend buffer until the peer's ack covers it; the receiver hands out    *)
(* only the chunk that follows its ack and asks for a resend otherwise.    *)
(*                                                                         *)
(* The path may lose, duplicate, delay and reorder packets.  Timers are    *)
(* abstracted: a timer of Update may have run out whenever Update runs.    *)
(*                                                                         *)
(* Chunks and packets carry, next to their header fields, the ghost fields *)
(* "msg" (which chunk of the sender's stream this is), "data" (what m_pData *)
(* points to: the payload queued for that chunk, always here, or not) and  *)
(* "seen" (how much the sender had been handed when it sent).              *)
(* No guard of the code's actions reads a ghost field.                     *)
(***************************************************************************)
EXTENDS Integers, Sequences, FiniteSets

CONSTANTS
    MaxSequence,    \* NET_MAX_SEQUENCE, 1024 in the code
    BufferCap,      \* chunks that fit into the NET_CONN_BUFFERSIZE resend buffer
    PacketCap,      \* chunks that fit into one packet
    Overflow,       \* whether the application queues into a full resend buffer
    MaxQueued,      \* bound: vital chunks each endpoint queues
    PlainFrom,      \* bound: the endpoints that queue chunks that are not vital
    NetCap,         \* bound: distinct packets in flight per direction
    Lifetime        \* chunks that e can queue while an ack travels to it

Endpoint == {"client", "server"}
Other(e) == IF e = "client" THEN "server" ELSE "client"

(***************************************************************************)
(* The resend buffer holds fewer chunks than half the sequence space: 32   *)
(* KiB at 72 bytes or more per stored chunk is at most 455, below 512.     *)
(***************************************************************************)
ASSUME SequenceAssumption == /\ MaxSequence \in Nat /\ MaxSequence % 2 = 0
                             /\ BufferCap \in Nat \ {0}
                             /\ 2 * BufferCap < MaxSequence

(***************************************************************************)
(* The assumption about the path: an ack does not live so long that its    *)
(* number comes round again while it travels.                              *)
(***************************************************************************)
ASSUME LifetimeAssumption == Lifetime \in 1 .. MaxSequence

ASSUME CapAssumption == /\ PacketCap \in Nat \ {0}
                        /\ Overflow \in BOOLEAN
                        /\ NetCap \in Nat \ {0}
                        /\ MaxQueued \in [Endpoint -> Nat]
                        /\ PlainFrom \subseteq Endpoint

VARIABLES
    state,      \* m_State: "ONLINE" or "ERROR"
    sequence,   \* m_Sequence: number of the last vital chunk queued
    ack,        \* m_Ack: number of the last vital chunk received in sequence
    peerAck,    \* m_PeerAck: ack of the last packet accepted from the peer
    buffer,     \* m_Buffer: the chunks kept for resending, oldest first
    construct,  \* m_Construct: the chunks of the packet being built
    resend,     \* NET_PACKETFLAG_RESEND in m_Construct.m_Flags
    unpacker,   \* m_RecvUnpacker: chunks of the current packet not yet fetched
    net,        \* net[e]: the packets in flight towards e
    queued,     \* ghost: how many vital chunks e has queued
    delivered   \* ghost: the vital chunks handed to the application at e

vars == <<state, sequence, ack, peerAck, buffer, construct, resend, unpacker,
          net, queued, delivered>>

Seqs == 0 .. MaxSequence - 1

VitalChunk == [vital : {TRUE}, seq : Seqs, msg : Nat, data : {"own", "lost"}]
PlainChunk == [vital |-> FALSE, seq |-> -1, msg |-> 0, data |-> "own"]
Chunk == VitalChunk \union {PlainChunk}
Packet == [ack : Seqs, resend : BOOLEAN, chunks : Seq(Chunk), seen : Nat]

TypeOK == /\ state \in [Endpoint -> {"ONLINE", "ERROR"}]
          /\ sequence \in [Endpoint -> Seqs]
          /\ ack \in [Endpoint -> Seqs]
          /\ peerAck \in [Endpoint -> Seqs]
          /\ buffer \in [Endpoint -> Seq(VitalChunk)]
          /\ construct \in [Endpoint -> Seq(Chunk)]
          /\ resend \in [Endpoint -> BOOLEAN]
          /\ unpacker \in [Endpoint -> Seq(Chunk)]
          /\ net \in [Endpoint -> SUBSET Packet]
          /\ queued \in [Endpoint -> Nat]
          /\ delivered \in [Endpoint -> Seq(Nat)]

Init == /\ state = [e \in Endpoint |-> "ONLINE"]
        /\ sequence = [e \in Endpoint |-> 0]
        /\ ack = [e \in Endpoint |-> 0]
        /\ peerAck = [e \in Endpoint |-> 0]
        /\ buffer = [e \in Endpoint |-> <<>>]
        /\ construct = [e \in Endpoint |-> <<>>]
        /\ resend = [e \in Endpoint |-> FALSE]
        /\ unpacker = [e \in Endpoint |-> <<>>]
        /\ net = [e \in Endpoint |-> {}]
        /\ queued = [e \in Endpoint |-> 0]
        /\ delivered = [e \in Endpoint |-> <<>>]

-----------------------------------------------------------------------------
(* Sequence numbers.  Definitions named Faulty... are variants with a bug   *)
(* that the runs use to see a property fail; no specification uses them.    *)

\* The number of the next vital chunk that e queues.
NextSequence(e) == (sequence[e] + 1) % MaxSequence

FaultyNoWrapIsSeqInBackroom(seq, a) == seq <= a

FaultyExclusiveIsSeqInBackroom(seq, a) == seq < a

\* CNetBase::IsSeqInBackroom: seq is one of the half window that ends at a.
IsSeqInBackroom(seq, a) ==
    LET bottom == a - MaxSequence \div 2 IN
    IF bottom < 0
    THEN seq <= a \/ seq >= bottom + MaxSequence
    ELSE seq <= a /\ seq >= bottom

\* The test of Feed: a packet's ack lies between the latest ack and m_Sequence.
IsAckValid(e, a) ==
    IF sequence[e] >= peerAck[e]
    THEN ~ (a < peerAck[e] \/ a > sequence[e])
    ELSE ~ (a < peerAck[e] /\ a > sequence[e])

-----------------------------------------------------------------------------
(* Building and sending packets. *)

MakePacket(e, flag, chunks) ==
    [ack |-> ack[e], resend |-> flag, chunks |-> chunks, seen |-> Len(delivered[e])]

(***************************************************************************)
(* QueueChunkEx for each chunk of cs: a chunk that does not fit flushes    *)
(* the packet under construction first.  The first packet to leave takes   *)
(* the resend flag with it, the last chunks stay in the construct.         *)
(***************************************************************************)
QueueChunkEx(e, cs) ==
    LET all == construct[e] \o cs
        full == IF cs = <<>> THEN 0 ELSE (Len(all) - 1) \div PacketCap
    IN [packets |-> {MakePacket(e, resend[e] /\ i = 1,
                         SubSeq(all, (i - 1) * PacketCap + 1, i * PacketCap))
                        : i \in 1 .. full},
        construct |-> SubSeq(all, full * PacketCap + 1, Len(all)),
        resend |-> resend[e] /\ full = 0]

(***************************************************************************)
(* The path towards e after the packets ps are sent to it.  A packet in    *)
(* flight may arrive again and again, or never: it stays until NetCap      *)
(* distinct packets are exceeded, when older ones are lost.                *)
(***************************************************************************)
AfterSend(e, ps) ==
    IF Cardinality(net[e] \union ps) <= NetCap
    THEN {net[e] \union ps}
    ELSE {kept \union ps : kept \in
             {k \in SUBSET net[e] : k = {} \/ Cardinality(k \union ps) = NetCap}}

\* Queue cs at e, sending whatever becomes full on the way.
QueueAndSend(e, cs) ==
    LET q == QueueChunkEx(e, cs) IN
    /\ construct' = [construct EXCEPT ![e] = q.construct]
    /\ resend' = [resend EXCEPT ![e] = q.resend]
    /\ \E out \in AfterSend(Other(e), q.packets) :
          net' = [net EXCEPT ![Other(e)] = out]

(***************************************************************************)
(* QueueChunk with NET_CHUNKFLAG_VITAL: the sequence number advances, the  *)
(* chunk joins the packet under construction and is saved for resending,   *)
(* unless the buffer is full ("hope nobody will ask for resend").          *)
(***************************************************************************)
QueueVital(e) ==
    /\ state[e] = "ONLINE"
    /\ queued[e] < MaxQueued[e]
    /\ Overflow \/ Len(buffer[e]) < BufferCap
    /\ LET next == NextSequence(e)
           chunk == [vital |-> TRUE, seq |-> next, msg |-> queued[e] + 1, data |-> "own"]
       IN /\ sequence' = [sequence EXCEPT ![e] = next]
          /\ buffer' = [buffer EXCEPT ![e] = IF Len(@) < BufferCap
                                             THEN Append(@, chunk) ELSE @]
          /\ QueueAndSend(e, <<chunk>>)
    /\ queued' = [queued EXCEPT ![e] = @ + 1]
    /\ UNCHANGED <<state, ack, peerAck, unpacker, delivered>>

\* QueueChunk without NET_CHUNKFLAG_VITAL: a snapshot or an input.
QueuePlain(e) ==
    /\ state[e] = "ONLINE"
    /\ e \in PlainFrom
    /\ QueueAndSend(e, <<PlainChunk>>)
    /\ UNCHANGED <<state, sequence, ack, peerAck, buffer, unpacker, queued, delivered>>

\* Flush, by the application: the packet under construction leaves, unless it
\* holds nothing.  Most flushes come with a chunk sent with NETSENDFLAG_FLUSH.
Flush(e) ==
    /\ state[e] = "ONLINE"
    /\ construct[e] # <<>> \/ resend[e]
    /\ \E out \in AfterSend(Other(e), {MakePacket(e, resend[e], construct[e])}) :
          net' = [net EXCEPT ![Other(e)] = out]
    /\ construct' = [construct EXCEPT ![e] = <<>>]
    /\ resend' = [resend EXCEPT ![e] = FALSE]
    /\ UNCHANGED <<state, sequence, ack, peerAck, buffer, unpacker, queued, delivered>>

-----------------------------------------------------------------------------
(* Update; which of its timers have run out is its choice. *)

\* Nothing received, or the oldest chunk not acked, for conn_timeout seconds.
Timeout(e) ==
    /\ state[e] = "ONLINE"
    /\ unpacker[e] = <<>>
    /\ state' = [state EXCEPT ![e] = "ERROR"]
    /\ UNCHANGED <<sequence, ack, peerAck, buffer, construct, resend, unpacker,
                   net, queued, delivered>>

FaultyResentByUpdate(e, old) == <<>>

\* The oldest saved chunk, when it was sent a second ago.
ResentByUpdate(e, old) == IF old THEN <<Head(buffer[e])>> ELSE <<>>

(***************************************************************************)
(* old: the oldest saved chunk was sent a second ago; it is queued again.  *)
(* idle: nothing was sent for half a second (a whole one when there is     *)
(* nothing to send); what is in the construct is flushed, and if there is  *)
(* nothing the packet is a keepalive, unless queueing sent a packet now.   *)
(***************************************************************************)
Update(e, old, idle) ==
    /\ state[e] = "ONLINE"
    /\ unpacker[e] = <<>>
    /\ old => buffer[e] # <<>>
    /\ LET q == QueueChunkEx(e, ResentByUpdate(e, old))
           flush == idle /\ q.packets = {}
           sent == IF flush THEN {MakePacket(e, q.resend, q.construct)} ELSE q.packets
       IN /\ construct' = [construct EXCEPT ![e] = IF flush THEN <<>> ELSE q.construct]
          /\ resend' = [resend EXCEPT ![e] = IF flush THEN FALSE ELSE q.resend]
          /\ \E out \in AfterSend(Other(e), sent) : net' = [net EXCEPT ![Other(e)] = out]
    /\ UNCHANGED <<state, sequence, ack, peerAck, buffer, unpacker, queued, delivered>>

-----------------------------------------------------------------------------
(* Receiving. *)

(***************************************************************************)
(* A packet that reaches e is not so old that its ack is behind by Lifetime *)
(* chunks, nor that the number of a chunk in it has come round again.      *)
(***************************************************************************)
Fresh(e, p) ==
    /\ queued[e] - p.seen < Lifetime
    /\ \A i \in DOMAIN p.chunks :
          p.chunks[i].vital => queued[Other(e)] - p.chunks[i].msg < MaxSequence - 1

\* AckChunks: drop the saved chunks at the front that the ack covers.
AckChunks(e, a) ==
    \E n \in 0 .. Len(buffer[e]) :
       /\ \A i \in 1 .. n : IsSeqInBackroom(buffer[e][i].seq, a)
       /\ n < Len(buffer[e]) => ~IsSeqInBackroom(buffer[e][n + 1].seq, a)
       /\ buffer' = [buffer EXCEPT ![e] = SubSeq(@, n + 1, Len(@))]

(***************************************************************************)
(* Recv pulls a packet once the previous one is unpacked, and Feed looks   *)
(* at it: the ack is checked, a requested resend is queued before the ack  *)
(* releases saved chunks, and the unpacker starts on the chunks.           *)
(***************************************************************************)
Feed(e, p) ==
    /\ state[e] = "ONLINE"
    /\ unpacker[e] = <<>>
    /\ Fresh(e, p)
    /\ IsAckValid(e, p.ack)
    /\ peerAck' = [peerAck EXCEPT ![e] = p.ack]
    /\ QueueAndSend(e, IF p.resend THEN buffer[e] ELSE <<>>)
    /\ AckChunks(e, p.ack)
    /\ unpacker' = [unpacker EXCEPT ![e] = p.chunks]
    /\ UNCHANGED <<state, sequence, ack, queued, delivered>>

\* Chunks beyond a gap pass for the next, or the last one again.
FaultyNewerIsNext(e, c) == c.vital /\ ~IsSeqInBackroom(c.seq, ack[e])
FaultyLastIsNext(e, c) == c.seq \in {ack[e], (ack[e] + 1) % MaxSequence}

IsNext(e, c) == c.seq = (ack[e] + 1) % MaxSequence

\* Only old chunks are passed over, not those beyond a gap.
FaultyIsSkipped(e, c) == c.vital /\ IsSeqInBackroom(c.seq, ack[e])

\* The chunks FetchChunk passes over: vital ones other than the next.
IsSkipped(e, c) == c.vital /\ ~IsNext(e, c)

(***************************************************************************)
(* FetchChunk: pass over chunks already received and chunks beyond a gap,  *)
(* asking for a resend on the latter (SignalResend), up to the first chunk *)
(* the application may have.                                               *)
(***************************************************************************)
FetchChunk(e) ==
    /\ unpacker[e] # <<>>
    /\ \E n \in 0 .. Len(unpacker[e]) :
          LET cs == unpacker[e] IN
          /\ \A i \in 1 .. n : IsSkipped(e, cs[i])
          /\ n < Len(cs) => ~IsSkipped(e, cs[n + 1])
          /\ resend' = [resend EXCEPT ![e] = @ \/
                          \E i \in 1 .. n : ~IsSeqInBackroom(cs[i].seq, ack[e])]
          /\ unpacker' = [unpacker EXCEPT ![e] = SubSeq(cs, n + 2, Len(cs))]
          /\ IF n < Len(cs) /\ cs[n + 1].vital
             THEN /\ ack' = [ack EXCEPT ![e] = cs[n + 1].seq]
                  /\ delivered' = [delivered EXCEPT ![e] = Append(@, cs[n + 1].msg)]
             ELSE UNCHANGED <<ack, delivered>>
    /\ UNCHANGED <<state, sequence, peerAck, buffer, construct, net, queued>>

-----------------------------------------------------------------------------
Next == \E e \in Endpoint :
           \/ QueueVital(e) \/ QueuePlain(e) \/ Flush(e)
           \/ Timeout(e)
           \/ \E old, idle \in BOOLEAN : Update(e, old, idle)
           \/ \E p \in net[e] : Feed(e, p)
           \/ FetchChunk(e)

Spec == Init /\ [][Next]_vars

-----------------------------------------------------------------------------
(* Fairness: the main loop of each side keeps calling Update and drains    *)
(* Recv, and the path is fair: a packet sent again and again that carries  *)
(* what the receiver waits for is received in the end.                     *)

\* e would accept p, and p holds the chunk e is waiting for.
BringsNext(e, p) == /\ Fresh(e, p) /\ IsAckValid(e, p.ack)
                    /\ \E i \in DOMAIN p.chunks :
                          p.chunks[i].vital /\ IsNext(e, p.chunks[i])

\* e would accept p, and p acks a chunk that e still saves.
BringsAck(e, p) == /\ Fresh(e, p) /\ IsAckValid(e, p.ack)
                   /\ buffer[e] # <<>>
                   /\ IsSeqInBackroom(Head(buffer[e]).seq, p.ack)

FeedNext(e) == \E p \in net[e] : BringsNext(e, p) /\ Feed(e, p)
FeedAck(e) == \E p \in net[e] : BringsAck(e, p) /\ Feed(e, p)

FairPath(e) ==
    /\ []<>(\E p \in net[e] : BringsNext(e, p)) => []<><<FeedNext(e)>>_vars
    /\ []<>(\E p \in net[e] : BringsAck(e, p)) => []<><<FeedAck(e)>>_vars

UpdateOld(e) == \E idle \in BOOLEAN : Update(e, TRUE, idle)
UpdateIdle(e) == \E old \in BOOLEAN : Update(e, old, TRUE)

Fairness == \A e \in Endpoint : /\ SF_vars(UpdateOld(e))
                                /\ SF_vars(UpdateIdle(e))
                                /\ WF_vars(FetchChunk(e))
                                /\ FairPath(e)

FairSpec == Spec /\ Fairness

-----------------------------------------------------------------------------
(* Properties. *)

(***************************************************************************)
(* What is handed to the application is a prefix of the peer's stream: the *)
(* ack and backroom tests never let a late duplicate or a chunk from after *)
(* a gap through, also once the sequence numbers have wrapped.             *)
(***************************************************************************)
InOrder == \A e \in Endpoint :
              /\ Len(delivered[e]) <= queued[Other(e)]
              /\ \A i \in DOMAIN delivered[e] : delivered[e][i] = i

(***************************************************************************)
(* AckChunks releases only chunks the peer has been handed: what is not    *)
(* delivered yet is still saved for a resend.                              *)
(***************************************************************************)
UndeliveredIsSaved ==
    \A e \in Endpoint : \A k \in Len(delivered[Other(e)]) + 1 .. queued[e] :
       \E i \in DOMAIN buffer[e] : buffer[e][i].msg = k

\* Every vital chunk is delivered in the end, unless an end gives up.
EventuallyDelivered ==
    \A e \in Endpoint : \A k \in 1 .. MaxQueued[e] :
       queued[e] >= k ~> \/ Len(delivered[Other(e)]) >= k
                         \/ \E f \in Endpoint : state[f] = "ERROR"

\* A chunk that is saved is acked in the end, unless an end gives up.
EventuallyAcked ==
    \A e \in Endpoint :
       buffer[e] # <<>> ~> \/ buffer[e] = <<>>
                           \/ \E f \in Endpoint : state[f] = "ERROR"

(***************************************************************************)
(* The inductive invariant behind InOrder and UndeliveredIsSaved, for an   *)
(* application that does not queue into a full resend buffer.              *)
(***************************************************************************)

\* The chunks of e's stream that AckChunks has released.
Released(e) == queued[e] - Len(buffer[e])

\* The counters of the code are positions of the streams, modulo MaxSequence.
CountersMatch ==
    \A e \in Endpoint : /\ sequence[e] = queued[e] % MaxSequence
                        /\ ack[e] = Len(delivered[e]) % MaxSequence

\* The resend buffer holds the end of the stream; all before it is delivered.
BufferIsSuffix ==
    \A e \in Endpoint :
       /\ Len(buffer[e]) <= BufferCap
       /\ Released(e) >= 0
       /\ Released(e) <= Len(delivered[Other(e)])
       /\ \A i \in DOMAIN buffer[e] :
             /\ buffer[e][i].msg = Released(e) + i
             /\ buffer[e][i].seq = buffer[e][i].msg % MaxSequence

\* m_PeerAck is the position up to which chunks were released.
PeerAckIsReleased ==
    \A e \in Endpoint : peerAck[e] = Released(e) % MaxSequence

\* c is one of the first n chunks of a stream, or not vital.
IsChunkOf(n, c) == c.vital => /\ c.msg \in 1 .. n
                              /\ c.seq = c.msg % MaxSequence

\* Wherever a chunk waits, it is one of the sender's stream under its number.
ChunksMatch ==
    \A e \in Endpoint :
       /\ \A i \in DOMAIN construct[e] : IsChunkOf(queued[e], construct[e][i])
       /\ \A i \in DOMAIN unpacker[e] : IsChunkOf(queued[Other(e)], unpacker[e][i])
       /\ \A p \in net[e] : \A i \in DOMAIN p.chunks :
             IsChunkOf(queued[Other(e)], p.chunks[i])

\* The ack in a packet says how much its sender had been handed at the time.
AcksMatch ==
    \A e \in Endpoint : \A p \in net[e] :
       /\ p.seen <= Len(delivered[Other(e)])
       /\ p.ack = p.seen % MaxSequence

\* No chunk being unpacked is so old that its number could be the next one.
UnpackerIsFresh ==
    \A e \in Endpoint : \A i \in DOMAIN unpacker[e] :
       unpacker[e][i].vital =>
          /\ Len(delivered[e]) - unpacker[e][i].msg < MaxSequence - 1
          /\ \A j \in DOMAIN unpacker[e] :
                unpacker[e][j].vital =>
                   unpacker[e][j].msg - unpacker[e][i].msg < MaxSequence - 1

\* What makes the streams right, wherever m_PeerAck stands.
StreamInv == /\ TypeOK
             /\ CountersMatch
             /\ InOrder
             /\ BufferIsSuffix
             /\ ChunksMatch
             /\ AcksMatch
             /\ UnpackerIsFresh

IInv == StreamInv /\ PeerAckIsReleased

Stream == INSTANCE VitalStream

\* The connection implements the reliable stream.
Reliable == Stream!StreamSpec
=============================================================================
