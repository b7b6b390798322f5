------------------------ MODULE NetConnectionProofs ------------------------
(***************************************************************************)
(* Proofs about NetConnection, for every size of the sequence space, of    *)
(* the resend buffer, of packets and of the path, and any number of chunks,*)
(* and about Takeover, which adds one action to it.                        *)
(***************************************************************************)
EXTENDS Takeover, SequenceTheorems, TLAPS

-----------------------------------------------------------------------------
(* Numbers modulo M. *)

\* The quotient and remainder of a natural number.
LEMMA DivMod ==
    ASSUME NEW M \in Nat \ {0}, NEW a \in Nat
    PROVE  /\ a % M \in 0 .. M - 1
           /\ a \div M \in Nat
           /\ a = M * (a \div M) + (a % M)
OBVIOUS

\* A positive multiple of M is at least M.
LEMMA MultipleGe ==
    ASSUME NEW M \in Nat \ {0}, NEW x \in Int, x >= 1
    PROVE  M * x >= M
OBVIOUS

\* Numbers less than M apart are told apart by their remainders.
LEMMA ModUnique ==
    ASSUME NEW M \in Nat \ {0}, NEW a \in Nat, NEW b \in Nat,
           a % M = b % M, a - b < M, b - a < M
    PROVE  a = b
<1> DEFINE qa == a \div M
           qb == b \div M
<1>1. /\ qa \in Nat /\ a = M * qa + (a % M)
      /\ qb \in Nat /\ b = M * qb + (b % M)
  BY DivMod
<1>2. a - b = M * (qa - qb)
  BY <1>1
<1>3. qa - qb < 1
  BY <1>1, <1>2, MultipleGe
<1>4. qb - qa < 1
  BY <1>1, <1>2, MultipleGe
<1> QED
  BY <1>1, <1>3, <1>4

\* Remainders of numbers less than M apart differ by the distance, or by M less.
LEMMA ModDistance ==
    ASSUME NEW M \in Nat \ {0}, NEW a \in Nat, NEW b \in Nat, a <= b, b - a < M
    PROVE  \/ (a % M) + (b - a) < M /\ b % M = (a % M) + (b - a)
           \/ (a % M) + (b - a) >= M /\ b % M = (a % M) + (b - a) - M
<1> DEFINE qa == a \div M
           qb == b \div M
           ra == a % M
           rb == b % M
           d == b - a
<1>1. /\ qa \in Nat /\ ra \in 0 .. M - 1 /\ a = M * qa + ra
      /\ qb \in Nat /\ rb \in 0 .. M - 1 /\ b = M * qb + rb
  BY DivMod
<1> HIDE DEF qa, qb, ra, rb
<1>2. ra + d - rb = M * (qb - qa)
  <2>1. M * (qb - qa) = M * qb - M * qa
    BY <1>1
  <2>2. M * qb \in Int /\ M * qa \in Int
    BY <1>1
  <2> QED
    BY <1>1, <2>1, <2>2
<1>3. /\ qb - qa \in Int /\ ra + d - rb < 2 * M /\ ra + d - rb > - M
  BY <1>1
<1>4. qb - qa < 2
  <2>1. SUFFICES ASSUME qb - qa >= 2 PROVE FALSE
    BY <1>1
  <2>2. M * (qb - qa) = M + M * (qb - qa - 1)
    BY <1>1
  <2>3. M * (qb - qa - 1) >= M
    BY <1>1, <2>1, MultipleGe
  <2> QED
    BY <1>1, <1>2, <1>3, <2>2, <2>3
<1>5. qb - qa > -1
  <2>1. SUFFICES ASSUME qa - qb >= 1 PROVE FALSE
    BY <1>1
  <2>2. M * (qb - qa) = - (M * (qa - qb))
    BY <1>1
  <2>3. M * (qa - qb) >= M
    BY <1>1, <2>1, MultipleGe
  <2> QED
    BY <1>1, <1>2, <1>3, <2>2, <2>3
<1>6. \/ qb - qa = 0 /\ rb = ra + d
      \/ qb - qa = 1 /\ rb = ra + d - M
  BY <1>1, <1>2, <1>4, <1>5
<1> QED
  BY <1>1, <1>6 DEF ra, rb

\* Counting one further, as QueueChunk does, commutes with the remainder.
LEMMA ModSucc ==
    ASSUME NEW M \in Nat \ {0}, NEW a \in Nat
    PROVE  ((a % M) + 1) % M = (a + 1) % M
<1>1. CASE M = 1
  BY <1>1
<1>2. CASE M > 1
  <2> DEFINE b == a + 1
  <2>0. b \in Nat /\ a <= b /\ b - a < M /\ b - a = 1
    BY <1>2
  <2> HIDE DEF b
  <2>1. \/ (a % M) + 1 < M /\ b % M = (a % M) + 1
        \/ (a % M) + 1 >= M /\ b % M = (a % M) + 1 - M
    <3>1. \/ (a % M) + (b - a) < M /\ b % M = (a % M) + (b - a)
          \/ (a % M) + (b - a) >= M /\ b % M = (a % M) + (b - a) - M
      BY <2>0, ModDistance
    <3> QED
      BY <2>0, <3>1
  <2>2. a % M \in 0 .. M - 1
    BY DivMod
  <2>3. (a % M) + 1 < M => ((a % M) + 1) % M = (a % M) + 1
    BY <2>2
  <2>4. (a % M) + 1 = M => ((a % M) + 1) % M = 0
    BY <1>2
  <2> QED
    BY <2>1, <2>2, <2>3, <2>4 DEF b
<1> QED
  BY <1>1, <1>2

(***************************************************************************)
(* Let e have queued q chunks, b of them acked.  An ack that counts s of   *)
(* them and passes the test of Feed, on remainders, is not older than b.   *)
(***************************************************************************)
LEMMA ValidAckIsNotOld ==
    ASSUME NEW M \in Nat \ {0}, NEW b \in Nat, NEW q \in Nat, NEW s \in Nat,
           b <= q, q - b < M, s <= q, q - s < M,
           IF q % M >= b % M
           THEN ~ (s % M < b % M \/ s % M > q % M)
           ELSE ~ (s % M < b % M /\ s % M > q % M)
    PROVE  s >= b
<1> SUFFICES ASSUME s < b PROVE FALSE
  OBVIOUS
<1>1. /\ s % M \in 0 .. M - 1
      /\ b % M \in 0 .. M - 1
      /\ q % M \in 0 .. M - 1
  BY DivMod
<1>2. \/ (b % M) + (q - b) < M /\ q % M = (b % M) + (q - b)
      \/ (b % M) + (q - b) >= M /\ q % M = (b % M) + (q - b) - M
  BY ModDistance
<1>3. \/ (s % M) + (b - s) < M /\ b % M = (s % M) + (b - s)
      \/ (s % M) + (b - s) >= M /\ b % M = (s % M) + (b - s) - M
  <2>1. s <= b /\ b - s < M
    OBVIOUS
  <2> QED
    BY <2>1, ModDistance
<1> DEFINE rs == s % M
           rb == b % M
           rq == q % M
<1> HIDE DEF rs, rb, rq
<1>4. /\ rs \in 0 .. M - 1 /\ rb \in 0 .. M - 1 /\ rq \in 0 .. M - 1
      /\ (rb + (q - b) < M /\ rq = rb + (q - b)) \/ (rb + (q - b) >= M /\ rq = rb + (q - b) - M)
      /\ (rs + (b - s) < M /\ rb = rs + (b - s)) \/ (rs + (b - s) >= M /\ rb = rs + (b - s) - M)
      /\ IF rq >= rb THEN ~ (rs < rb \/ rs > rq) ELSE ~ (rs < rb /\ rs > rq)
  BY <1>1, <1>2, <1>3 DEF rs, rb, rq
<1> QED
  BY <1>4

(***************************************************************************)
(* IsSeqInBackroom compares two positions of a stream by their remainders: *)
(* right as long as the positions are less than half the space apart.      *)
(***************************************************************************)
LEMMA BackroomIsPast ==
    ASSUME NEW M \in Nat \ {0}, M % 2 = 0, NEW m \in Nat, NEW s \in Nat,
           2 * (m - s) < M, 2 * (s - m) < M
    PROVE  (IF (s % M) - M \div 2 < 0
            THEN m % M <= s % M \/ m % M >= (s % M) - M \div 2 + M
            ELSE m % M <= s % M /\ m % M >= (s % M) - M \div 2)
           <=> m <= s
<1> DEFINE h == M \div 2
           rm == m % M
           rs == s % M
<1>1. M = 2 * h /\ h \in Nat
  OBVIOUS
<1>2. rm \in 0 .. M - 1 /\ rs \in 0 .. M - 1
  BY DivMod
<1>3. CASE m <= s
  <2>1. \/ rm + (s - m) < M /\ rs = rm + (s - m)
        \/ rm + (s - m) >= M /\ rs = rm + (s - m) - M
    <3>1. s - m < M
      OBVIOUS
    <3> QED
      BY <1>3, <3>1, ModDistance
  <2> HIDE DEF h, rm, rs
  <2>2. IF rs - h < 0 THEN rm <= rs \/ rm >= rs - h + M ELSE rm <= rs /\ rm >= rs - h
    BY <1>1, <1>2, <1>3, <2>1
  <2> QED
    BY <1>3, <2>2 DEF h, rm, rs
<1>4. CASE s < m
  <2>1. \/ rs + (m - s) < M /\ rm = rs + (m - s)
        \/ rs + (m - s) >= M /\ rm = rs + (m - s) - M
    <3>1. s <= m /\ m - s < M
      BY <1>4
    <3> QED
      BY <3>1, ModDistance
  <2> HIDE DEF h, rm, rs
  <2>2. ~ IF rs - h < 0 THEN rm <= rs \/ rm >= rs - h + M ELSE rm <= rs /\ rm >= rs - h
    BY <1>1, <1>2, <1>4, <2>1
  <2> QED
    BY <1>4, <2>2 DEF h, rm, rs
<1> QED
  BY <1>3, <1>4

(***************************************************************************)
(* Cutting n items into packets of at most P, the last of which stays:     *)
(* the bounds of the full packets are positions among the items.           *)
(***************************************************************************)
LEMMA FullPackets ==
    ASSUME NEW P \in Nat \ {0}, NEW n \in Nat \ {0}
    PROVE  LET full == (n - 1) \div P IN
           /\ full \in Nat
           /\ full * P \in 0 .. n
           /\ \A i \in 1 .. full : /\ (i - 1) * P + 1 \in Nat \ {0}
                                   /\ i * P \in 0 .. n
<1> DEFINE full == (n - 1) \div P
<1>1. /\ full \in Nat
      /\ (n - 1) % P \in 0 .. P - 1
      /\ n - 1 = P * full + ((n - 1) % P)
  <2>1. n - 1 \in Nat
    OBVIOUS
  <2> QED
    BY <2>1, DivMod
<1> HIDE DEF full
<1>2. full * P = P * full /\ full * P \in Nat
  BY <1>1
<1>3. full * P <= n
  BY <1>1, <1>2
<1>4. ASSUME NEW i \in 1 .. full
      PROVE  (i - 1) * P + 1 \in Nat \ {0} /\ i * P \in 0 .. n
  <2>1. (i - 1) * P \in Nat /\ i * P \in Nat
    BY <1>1
  <2>2. full - i \in Nat /\ (full - i) * P \in Nat
    BY <1>1
  <2>3. full * P = i * P + (full - i) * P
    BY <1>1
  <2> DEFINE x == (i - 1) * P
             y == i * P
             z == full * P
             w == (full - i) * P
  <2>4. x \in Nat /\ y \in Nat /\ w \in Nat /\ z = y + w /\ z <= n
    BY <1>3, <2>1, <2>2, <2>3
  <2> HIDE DEF x, y, z, w
  <2>5. x + 1 \in Nat \ {0} /\ y \in 0 .. n
    BY <2>4
  <2> QED
    BY <2>5 DEF x, y
<1> QED
  BY <1>1, <1>2, <1>3, <1>4 DEF full

-----------------------------------------------------------------------------
(* Lemmas about the operators. *)

LEMMA Endpoints ==
    /\ \A e \in Endpoint : Other(e) \in Endpoint /\ Other(Other(e)) = e /\ Other(e) # e
    /\ \A e, f \in Endpoint : f = e \/ f = Other(e)
BY DEF Endpoint, Other

LEMMA MaxSequenceType ==
    /\ MaxSequence \in Nat \ {0} /\ MaxSequence % 2 = 0
    /\ BufferCap \in Nat \ {0} /\ BufferCap < MaxSequence /\ 2 * BufferCap < MaxSequence
BY SequenceAssumption

LEMMA PacketCapType == PacketCap \in Nat \ {0}
BY CapAssumption

\* A subsequence holds elements of the sequence.
LEMMA SubSeqElements ==
    ASSUME NEW S, NEW s \in Seq(S), NEW m \in Nat \ {0}, NEW n \in 0 .. Len(s)
    PROVE  /\ SubSeq(s, m, n) \in Seq(S)
           /\ Len(SubSeq(s, m, n)) = IF m <= n THEN n - m + 1 ELSE 0
           /\ \A i \in DOMAIN SubSeq(s, m, n) :
                 m + i - 1 \in DOMAIN s /\ SubSeq(s, m, n)[i] = s[m + i - 1]
<1>1. \A i \in m .. n : s[i] \in S
  OBVIOUS
<1> QED
  BY <1>1

LEMMA AfterSendSubset ==
    ASSUME NEW e, NEW ps, NEW out \in AfterSend(e, ps)
    PROVE  out \subseteq net[e] \union ps
BY DEF AfterSend

\* Where the chunks of a packet or of the construct can come from.
FromConstructOr(e, cs, c) ==
    \/ \E j \in DOMAIN construct[e] : c = construct[e][j]
    \/ \E j \in DOMAIN cs : c = cs[j]

\* QueueChunkEx sends and keeps only chunks of the construct and of cs.
LEMMA QueueChunkExType ==
    ASSUME TypeOK, NEW e \in Endpoint, NEW cs \in Seq(Chunk)
    PROVE  LET q == QueueChunkEx(e, cs) IN
           /\ q.construct \in Seq(Chunk)
           /\ q.resend \in BOOLEAN
           /\ q.packets \subseteq Packet
           /\ \A i \in DOMAIN q.construct : FromConstructOr(e, cs, q.construct[i])
           /\ \A p \in q.packets :
                 /\ p.ack = ack[e]
                 /\ p.seen = Len(delivered[e])
                 /\ \A i \in DOMAIN p.chunks : FromConstructOr(e, cs, p.chunks[i])
<1> DEFINE all == construct[e] \o cs
           full == IF cs = <<>> THEN 0 ELSE (Len(all) - 1) \div PacketCap
<1>1. /\ construct[e] \in Seq(Chunk)
      /\ all \in Seq(Chunk)
      /\ Len(all) = Len(construct[e]) + Len(cs)
      /\ \A i \in DOMAIN all : FromConstructOr(e, cs, all[i])
  <2>1. construct[e] \in Seq(Chunk)
    BY DEF TypeOK
  <2>2. /\ all \in Seq(Chunk)
        /\ Len(all) = Len(construct[e]) + Len(cs)
        /\ \A i \in 1 .. Len(construct[e]) + Len(cs) :
              all[i] = IF i <= Len(construct[e]) THEN construct[e][i]
                       ELSE cs[i - Len(construct[e])]
    BY <2>1, ConcatProperties
  <2> QED
    BY <2>1, <2>2, SMTT(60) DEF FromConstructOr
<1> HIDE DEF all
<1>2. /\ full \in Nat
      /\ full * PacketCap \in 0 .. Len(all)
      /\ \A i \in 1 .. full : /\ (i - 1) * PacketCap + 1 \in Nat \ {0}
                              /\ i * PacketCap \in 0 .. Len(all)
  <2>1. CASE cs = <<>>
    BY PacketCapType, <1>1, <2>1
  <2>2. CASE cs # <<>>
    <3>1. Len(all) \in Nat \ {0} /\ full = (Len(all) - 1) \div PacketCap
      BY <1>1, <2>2
    <3> HIDE DEF full
    <3> QED
      BY PacketCapType, <3>1, FullPackets
  <2> QED
    BY <2>1, <2>2
<1> HIDE DEF full
<1>4. /\ SubSeq(all, full * PacketCap + 1, Len(all)) \in Seq(Chunk)
      /\ \A i \in DOMAIN SubSeq(all, full * PacketCap + 1, Len(all)) :
            FromConstructOr(e, cs, SubSeq(all, full * PacketCap + 1, Len(all))[i])
  <2> DEFINE m == full * PacketCap + 1
  <2>1. m \in Nat \ {0} /\ Len(all) \in 0 .. Len(all)
    <3>1. Len(all) \in Nat /\ full * PacketCap \in 0 .. Len(all)
      BY <1>1, <1>2
    <3> QED
      BY <3>1
  <2> HIDE DEF m
  <2>2. /\ SubSeq(all, m, Len(all)) \in Seq(Chunk)
        /\ \A i \in DOMAIN SubSeq(all, m, Len(all)) :
              m + i - 1 \in DOMAIN all /\ SubSeq(all, m, Len(all))[i] = all[m + i - 1]
    BY <1>1, <2>1, SubSeqElements, SMTT(60)
  <2> QED
    BY <1>1, <2>2 DEF m
<1>5. \A i \in 1 .. full :
         LET chunks == SubSeq(all, (i - 1) * PacketCap + 1, i * PacketCap)
         IN  /\ chunks \in Seq(Chunk)
             /\ \A k \in DOMAIN chunks : FromConstructOr(e, cs, chunks[k])
  <2> SUFFICES ASSUME NEW i \in 1 .. full
               PROVE  LET chunks == SubSeq(all, (i - 1) * PacketCap + 1, i * PacketCap)
                      IN  /\ chunks \in Seq(Chunk)
                          /\ \A k \in DOMAIN chunks : FromConstructOr(e, cs, chunks[k])
    OBVIOUS
  <2> DEFINE m == (i - 1) * PacketCap + 1
             n == i * PacketCap
  <2>1. m \in Nat \ {0} /\ n \in 0 .. Len(all)
    BY <1>2
  <2> HIDE DEF m, n
  <2>2. /\ SubSeq(all, m, n) \in Seq(Chunk)
        /\ \A k \in DOMAIN SubSeq(all, m, n) :
              m + k - 1 \in DOMAIN all /\ SubSeq(all, m, n)[k] = all[m + k - 1]
    BY <1>1, <2>1, SubSeqElements, SMTT(60)
  <2> QED
    BY <1>1, <2>2 DEF m, n
<1>6. /\ resend[e] \in BOOLEAN /\ ack[e] \in Seqs
      /\ Len(delivered[e]) \in Nat
  BY DEF TypeOK
<1>7. QueueChunkEx(e, cs) =
        [packets |-> {MakePacket(e, resend[e] /\ i = 1,
                        SubSeq(all, (i - 1) * PacketCap + 1, i * PacketCap))
                           : i \in 1 .. full},
         construct |-> SubSeq(all, full * PacketCap + 1, Len(all)),
         resend |-> resend[e] /\ full = 0]
  BY DEF QueueChunkEx, all, full
<1> DEFINE q == QueueChunkEx(e, cs)
<1>8. /\ q.construct \in Seq(Chunk)
      /\ q.resend \in BOOLEAN
      /\ \A i \in DOMAIN q.construct : FromConstructOr(e, cs, q.construct[i])
  BY <1>4, <1>6, <1>7
<1>9. ASSUME NEW p \in q.packets
      PROVE  /\ p \in Packet
             /\ p.ack = ack[e]
             /\ p.seen = Len(delivered[e])
             /\ \A i \in DOMAIN p.chunks : FromConstructOr(e, cs, p.chunks[i])
  <2>1. PICK i \in 1 .. full :
           p = MakePacket(e, resend[e] /\ i = 1,
                  SubSeq(all, (i - 1) * PacketCap + 1, i * PacketCap))
    BY <1>7
  <2> DEFINE chunks == SubSeq(all, (i - 1) * PacketCap + 1, i * PacketCap)
             flag == resend[e] /\ i = 1
  <2>2. chunks \in Seq(Chunk) /\ \A k \in DOMAIN chunks : FromConstructOr(e, cs, chunks[k])
    BY <1>5
  <2>3. flag \in BOOLEAN
    OBVIOUS
  <2> HIDE DEF chunks, flag
  <2>4. p = [ack |-> ack[e], resend |-> flag, chunks |-> chunks, seen |-> Len(delivered[e])]
    BY <2>1 DEF MakePacket, chunks, flag
  <2> QED
    BY <1>6, <2>2, <2>3, <2>4 DEF Packet
<1> QED
  BY <1>8, <1>9

-----------------------------------------------------------------------------
(* The network part of the invariant, kept by whatever e sends. *)

LEMMA SendKeepsNet ==
    ASSUME StreamInv, NEW e \in Endpoint, NEW ps \in SUBSET Packet,
           \A p \in ps : /\ p.ack = ack[e]
                         /\ p.seen = Len(delivered[e])
                         /\ \A i \in DOMAIN p.chunks : IsChunkOf(queued'[e], p.chunks[i]),
           \E out \in AfterSend(Other(e), ps) : net' = [net EXCEPT ![Other(e)] = out],
           queued' \in [Endpoint -> Nat],
           \A f \in Endpoint : queued'[f] >= queued[f],
           delivered' = delivered
    PROVE  /\ net' \in [Endpoint -> SUBSET Packet]
           /\ AcksMatch'
           /\ \A f \in Endpoint : \A p \in net'[f] : \A i \in DOMAIN p.chunks :
                 IsChunkOf(queued'[Other(f)], p.chunks[i])
<1>1. PICK out \in AfterSend(Other(e), ps) : net' = [net EXCEPT ![Other(e)] = out]
  OBVIOUS
<1>2. out \subseteq net[Other(e)] \union ps
  BY AfterSendSubset
<1>3. net \in [Endpoint -> SUBSET Packet] /\ queued \in [Endpoint -> Nat]
  BY DEF StreamInv, TypeOK
<1>4. Other(e) \in Endpoint /\ Other(Other(e)) = e
  BY Endpoints
<1>5. net' \in [Endpoint -> SUBSET Packet]
  BY <1>1, <1>2, <1>3, <1>4
<1>6. ASSUME NEW f \in Endpoint, NEW p \in net'[f]
      PROVE  p \in net[f] \/ (p \in ps /\ f = Other(e))
  BY <1>1, <1>2, <1>3, <1>4
<1>7. AcksMatch'
  <2> SUFFICES ASSUME NEW f \in Endpoint, NEW p \in net'[f]
               PROVE  /\ p.seen <= Len(delivered[Other(f)])
                      /\ p.ack = p.seen % MaxSequence
    BY DEF AcksMatch
  <2>1. CASE p \in net[f]
    BY <2>1 DEF StreamInv, AcksMatch
  <2>2. CASE p \in ps /\ f = Other(e)
    <3>1. ack[e] = Len(delivered[e]) % MaxSequence /\ Len(delivered[e]) \in Nat
      BY DEF StreamInv, CountersMatch, TypeOK
    <3>2. p.seen = Len(delivered[e]) /\ p.ack = ack[e] /\ Other(f) = e
      BY <1>4, <2>2
    <3> QED
      BY <3>1, <3>2
  <2> QED
    BY <1>6, <2>1, <2>2
<1>8. ASSUME NEW f \in Endpoint, NEW p \in net'[f], NEW i \in DOMAIN p.chunks
      PROVE  IsChunkOf(queued'[Other(f)], p.chunks[i])
  <2>1. CASE p \in net[f]
    <3>1. IsChunkOf(queued[Other(f)], p.chunks[i])
      BY <2>1 DEF StreamInv, ChunksMatch
    <3>2. /\ Other(f) \in Endpoint /\ queued[Other(f)] \in Nat
          /\ queued'[Other(f)] \in Nat /\ queued'[Other(f)] >= queued[Other(f)]
      BY <1>3, Endpoints
    <3> QED
      BY <3>1, <3>2 DEF IsChunkOf
  <2>2. CASE p \in ps /\ f = Other(e)
    BY <1>4, <2>2
  <2> QED
    BY <1>6, <2>1, <2>2
<1> QED
  BY <1>5, <1>7, <1>8

\* Queueing cs, chunks of e's stream, keeps the construct and the network right.
LEMMA QueueKeepsNet ==
    ASSUME StreamInv, NEW e \in Endpoint, NEW cs \in Seq(Chunk),
           \A i \in DOMAIN cs : IsChunkOf(queued'[e], cs[i]),
           QueueAndSend(e, cs),
           queued' \in [Endpoint -> Nat],
           \A f \in Endpoint : queued'[f] >= queued[f],
           delivered' = delivered
    PROVE  /\ net' \in [Endpoint -> SUBSET Packet]
           /\ construct' \in [Endpoint -> Seq(Chunk)]
           /\ resend' \in [Endpoint -> BOOLEAN]
           /\ AcksMatch'
           /\ \A f \in Endpoint : \A p \in net'[f] : \A i \in DOMAIN p.chunks :
                 IsChunkOf(queued'[Other(f)], p.chunks[i])
           /\ \A f \in Endpoint : \A i \in DOMAIN construct'[f] :
                 IsChunkOf(queued'[f], construct'[f][i])
<1> DEFINE q == QueueChunkEx(e, cs)
<1>0. TypeOK
  BY DEF StreamInv
<1>1. /\ q.construct \in Seq(Chunk)
      /\ q.resend \in BOOLEAN
      /\ q.packets \subseteq Packet
      /\ \A i \in DOMAIN q.construct : FromConstructOr(e, cs, q.construct[i])
      /\ \A p \in q.packets :
            /\ p.ack = ack[e]
            /\ p.seen = Len(delivered[e])
            /\ \A i \in DOMAIN p.chunks : FromConstructOr(e, cs, p.chunks[i])
  BY <1>0, QueueChunkExType
<1>2. /\ construct' = [construct EXCEPT ![e] = q.construct]
      /\ resend' = [resend EXCEPT ![e] = q.resend]
      /\ \E out \in AfterSend(Other(e), q.packets) :
            net' = [net EXCEPT ![Other(e)] = out]
  BY DEF QueueAndSend
<1> HIDE DEF q
<1>3. \A f \in Endpoint : \A i \in DOMAIN construct[f] :
         IsChunkOf(queued'[f], construct[f][i])
  <2> SUFFICES ASSUME NEW f \in Endpoint, NEW i \in DOMAIN construct[f]
               PROVE  IsChunkOf(queued'[f], construct[f][i])
    OBVIOUS
  <2>1. IsChunkOf(queued[f], construct[f][i])
    BY DEF StreamInv, ChunksMatch
  <2>2. queued[f] \in Nat /\ queued'[f] \in Nat /\ queued'[f] >= queued[f]
    BY <1>0 DEF TypeOK
  <2> QED
    BY <2>1, <2>2 DEF IsChunkOf
<1>4. ASSUME NEW c, FromConstructOr(e, cs, c)
      PROVE  IsChunkOf(queued'[e], c)
  BY <1>3, <1>4 DEF FromConstructOr
<1>5. /\ construct' \in [Endpoint -> Seq(Chunk)]
      /\ resend' \in [Endpoint -> BOOLEAN]
  BY <1>0, <1>1, <1>2 DEF TypeOK
<1>6. \A f \in Endpoint : \A i \in DOMAIN construct'[f] :
         IsChunkOf(queued'[f], construct'[f][i])
  <2> SUFFICES ASSUME NEW f \in Endpoint, NEW i \in DOMAIN construct'[f]
               PROVE  IsChunkOf(queued'[f], construct'[f][i])
    OBVIOUS
  <2>1. construct \in [Endpoint -> Seq(Chunk)]
    BY <1>0 DEF TypeOK
  <2>2. CASE f = e
    <3>1. construct'[f] = q.construct
      BY <1>2, <2>1, <2>2
    <3> QED
      BY <1>1, <1>4, <2>2, <3>1
  <2>3. CASE f # e
    <3>1. construct'[f] = construct[f]
      BY <1>2, <2>1, <2>3
    <3> QED
      BY <1>3, <3>1
  <2> QED
    BY <2>2, <2>3
<1>7. \A p \in q.packets : /\ p.ack = ack[e]
                           /\ p.seen = Len(delivered[e])
                           /\ \A i \in DOMAIN p.chunks : IsChunkOf(queued'[e], p.chunks[i])
  BY <1>1, <1>4
<1>8. /\ net' \in [Endpoint -> SUBSET Packet]
      /\ AcksMatch'
      /\ \A f \in Endpoint : \A p \in net'[f] : \A i \in DOMAIN p.chunks :
            IsChunkOf(queued'[Other(f)], p.chunks[i])
  BY <1>1, <1>2, <1>7, SendKeepsNet
<1> QED
  BY <1>5, <1>6, <1>8

-----------------------------------------------------------------------------
(* Each action keeps the invariant. *)

LEMMA InitInv == Init => IInv
<1> SUFFICES ASSUME Init PROVE IInv
  OBVIOUS
<1>1. 0 % MaxSequence = 0 /\ 0 \in Seqs
  BY MaxSequenceType DEF Seqs
<1>2. TypeOK
  BY <1>1 DEF Init, TypeOK, Seqs
<1>3. CountersMatch /\ InOrder /\ PeerAckIsReleased
  BY <1>1, Endpoints DEF Init, CountersMatch, InOrder, PeerAckIsReleased, Released
<1>4. BufferIsSuffix
  BY MaxSequenceType, Endpoints DEF Init, BufferIsSuffix, Released
<1>5. ChunksMatch /\ AcksMatch /\ UnpackerIsFresh
  BY Endpoints DEF Init, ChunksMatch, AcksMatch, UnpackerIsFresh
<1> QED
  BY <1>2, <1>3, <1>4, <1>5 DEF IInv, StreamInv

LEMMA QueueVitalInv ==
    ASSUME StreamInv, ~Overflow, NEW e \in Endpoint, QueueVital(e)
    PROVE  StreamInv' /\ (PeerAckIsReleased => PeerAckIsReleased')
<1> DEFINE next == NextSequence(e)
           chunk == [vital |-> TRUE, seq |-> next, msg |-> queued[e] + 1, data |-> "own"]
<1>0. TypeOK
  BY DEF StreamInv
<1>1. /\ queued[e] \in Nat /\ queued \in [Endpoint -> Nat]
      /\ sequence \in [Endpoint -> Seqs] /\ buffer \in [Endpoint -> Seq(VitalChunk)]
  BY <1>0 DEF TypeOK
<1>2. /\ next \in Seqs
      /\ next = (queued[e] + 1) % MaxSequence
  <2>1. sequence[e] = queued[e] % MaxSequence
    BY DEF StreamInv, CountersMatch
  <2>2. next = (queued[e] + 1) % MaxSequence
    BY <1>1, <2>1, ModSucc, MaxSequenceType DEF NextSequence
  <2>3. queued[e] + 1 \in Nat
    BY <1>1
  <2>4. (queued[e] + 1) % MaxSequence \in 0 .. MaxSequence - 1
    BY <2>3, DivMod, MaxSequenceType
  <2> QED
    BY <2>2, <2>4 DEF Seqs
<1> HIDE DEF next
<1>3. /\ chunk \in VitalChunk
      /\ <<chunk>> \in Seq(Chunk)
      /\ IsChunkOf(queued[e] + 1, chunk)
  <2>1. /\ chunk.vital = TRUE
        /\ chunk.seq = next
        /\ chunk.msg = queued[e] + 1
    OBVIOUS
  <2>0. queued[e] + 1 \in Nat /\ next \in Seqs /\ next = (queued[e] + 1) % MaxSequence
    <3>1. queued[e] + 1 \in Nat
      BY <1>1
    <3>2. next \in Seqs /\ next = (queued[e] + 1) % MaxSequence
      BY <1>2
    <3> QED
      BY <3>1, <3>2
  <2>2. chunk \in VitalChunk
    BY <2>0 DEF VitalChunk
  <2> HIDE DEF chunk
  <2>3. <<chunk>> \in Seq(Chunk)
    BY <2>2 DEF Chunk
  <2>4. chunk.msg \in 1 .. queued[e] + 1 /\ chunk.seq = chunk.msg % MaxSequence
    BY <1>1, <2>0, <2>1
  <2> QED
    BY <2>2, <2>3, <2>4 DEF IsChunkOf
<1>4. /\ Len(buffer[e]) < BufferCap
      /\ sequence' = [sequence EXCEPT ![e] = next]
      /\ buffer' = [buffer EXCEPT ![e] = Append(buffer[e], chunk)]
      /\ QueueAndSend(e, <<chunk>>)
      /\ queued' = [queued EXCEPT ![e] = queued[e] + 1]
      /\ UNCHANGED <<state, ack, peerAck, unpacker, delivered>>
  BY DEF QueueVital, next
<1> HIDE DEF chunk
<1>5. /\ queued' \in [Endpoint -> Nat]
      /\ queued'[e] = queued[e] + 1
      /\ \A f \in Endpoint : queued'[f] >= queued[f] /\ (f # e => queued'[f] = queued[f])
  BY <1>1, <1>4
<1>6. \A i \in DOMAIN <<chunk>> : IsChunkOf(queued'[e], <<chunk>>[i])
  BY <1>3, <1>5
<1>7. /\ net' \in [Endpoint -> SUBSET Packet]
      /\ construct' \in [Endpoint -> Seq(Chunk)]
      /\ resend' \in [Endpoint -> BOOLEAN]
      /\ AcksMatch'
      /\ \A f \in Endpoint : \A p \in net'[f] : \A i \in DOMAIN p.chunks :
            IsChunkOf(queued'[Other(f)], p.chunks[i])
      /\ \A f \in Endpoint : \A i \in DOMAIN construct'[f] :
            IsChunkOf(queued'[f], construct'[f][i])
  BY <1>3, <1>4, <1>5, <1>6, QueueKeepsNet
<1>8. TypeOK'
  <2>1. Append(buffer[e], chunk) \in Seq(VitalChunk)
    BY <1>1, <1>3
  <2>2. buffer' \in [Endpoint -> Seq(VitalChunk)] /\ sequence' \in [Endpoint -> Seqs]
    BY <1>1, <1>2, <1>4, <2>1
  <2> QED
    BY <1>0, <1>4, <1>5, <1>7, <2>2 DEF TypeOK
<1>9. CountersMatch'
  <2> SUFFICES ASSUME NEW f \in Endpoint
               PROVE  /\ sequence'[f] = queued'[f] % MaxSequence
                      /\ ack'[f] = Len(delivered'[f]) % MaxSequence
    BY DEF CountersMatch
  <2>1. sequence[f] = queued[f] % MaxSequence /\ ack[f] = Len(delivered[f]) % MaxSequence
    BY DEF StreamInv, CountersMatch
  <2> QED
    BY <1>1, <1>2, <1>4, <1>5, <2>1
<1>10. InOrder'
  <2> SUFFICES ASSUME NEW f \in Endpoint
               PROVE  /\ Len(delivered[f]) <= queued'[Other(f)]
                      /\ \A i \in DOMAIN delivered[f] : delivered[f][i] = i
    BY <1>4 DEF InOrder
  <2>1. /\ Len(delivered[f]) <= queued[Other(f)]
        /\ \A i \in DOMAIN delivered[f] : delivered[f][i] = i
    BY DEF StreamInv, InOrder
  <2>2. Len(delivered[f]) \in Nat /\ Other(f) \in Endpoint
    BY <1>0, Endpoints DEF TypeOK
  <2> QED
    BY <1>1, <1>5, <2>1, <2>2, SMTT(60)
<1>11. \A f \in Endpoint : Released(f)' = Released(f)
  <2>1. Len(Append(buffer[e], chunk)) = Len(buffer[e]) + 1 /\ Len(buffer[e]) \in Nat
    BY <1>1
  <2> QED
    BY <1>1, <1>4, <1>5, <2>1 DEF Released
<1>12. BufferIsSuffix'
  <2> SUFFICES ASSUME NEW f \in Endpoint
               PROVE  /\ Len(buffer'[f]) <= BufferCap
                      /\ Released(f)' >= 0
                      /\ Released(f)' <= Len(delivered'[Other(f)])
                      /\ \A i \in DOMAIN buffer'[f] :
                            /\ buffer'[f][i].msg = Released(f)' + i
                            /\ buffer'[f][i].seq = buffer'[f][i].msg % MaxSequence
    BY DEF BufferIsSuffix
  <2>1. /\ Len(buffer[f]) <= BufferCap
        /\ Released(f) >= 0
        /\ Released(f) <= Len(delivered[Other(f)])
        /\ \A i \in DOMAIN buffer[f] :
              /\ buffer[f][i].msg = Released(f) + i
              /\ buffer[f][i].seq = buffer[f][i].msg % MaxSequence
    BY DEF StreamInv, BufferIsSuffix
  <2>2. CASE f # e
    BY <1>1, <1>4, <1>11, <2>1, <2>2
  <2>3. CASE f = e
    <3>1. buffer'[f] = Append(buffer[f], chunk)
      BY <1>1, <1>4, <2>3
    <3>2. /\ Len(buffer'[f]) = Len(buffer[f]) + 1
          /\ Len(buffer[f]) \in Nat
          /\ \A i \in DOMAIN buffer'[f] :
                buffer'[f][i] = IF i <= Len(buffer[f]) THEN buffer[f][i] ELSE chunk
          /\ DOMAIN buffer'[f] = 1 .. Len(buffer[f]) + 1
      BY <1>1, <1>3, <3>1
    <3>3. /\ chunk.msg = queued[e] + 1
          /\ chunk.seq = chunk.msg % MaxSequence
      BY <1>2 DEF chunk
    <3>4. chunk.msg = Released(f) + Len(buffer[f]) + 1
      BY <1>1, <2>3, <3>2, <3>3 DEF Released
    <3>5. \A i \in DOMAIN buffer'[f] :
             /\ buffer'[f][i].msg = Released(f) + i
             /\ buffer'[f][i].seq = buffer'[f][i].msg % MaxSequence
      <4> SUFFICES ASSUME NEW i \in DOMAIN buffer'[f]
                   PROVE  /\ buffer'[f][i].msg = Released(f) + i
                          /\ buffer'[f][i].seq = buffer'[f][i].msg % MaxSequence
        OBVIOUS
      <4>1. CASE i <= Len(buffer[f])
        BY <2>1, <3>2, <4>1
      <4>2. CASE i = Len(buffer[f]) + 1
        <5>1. buffer'[f][i] = chunk
          BY <3>2, <4>2
        <5>2. Released(f) + i = Released(f) + Len(buffer[f]) + 1
          BY <1>1, <3>2, <4>2 DEF Released
        <5> QED
          BY <3>3, <3>4, <5>1, <5>2
      <4> QED
        BY <3>2, <4>1, <4>2
    <3> QED
      BY MaxSequenceType, <1>4, <1>11, <2>1, <2>3, <3>2, <3>5
  <2> QED
    BY <2>2, <2>3
<1>13. PeerAckIsReleased => PeerAckIsReleased'
  BY <1>4, <1>11 DEF PeerAckIsReleased
<1>14. ChunksMatch'
  <2>1. ASSUME NEW f \in Endpoint, NEW i \in DOMAIN unpacker[f]
        PROVE  IsChunkOf(queued'[Other(f)], unpacker[f][i])
    <3>1. IsChunkOf(queued[Other(f)], unpacker[f][i])
      BY DEF StreamInv, ChunksMatch
    <3> QED
      BY <1>1, <1>5, <3>1, Endpoints, SMTT(60) DEF IsChunkOf
  <2> QED
    BY <1>4, <1>7, <2>1 DEF ChunksMatch
<1>15. UnpackerIsFresh'
  BY <1>4 DEF StreamInv, UnpackerIsFresh
<1> QED
  BY <1>7, <1>8, <1>9, <1>10, <1>12, <1>13, <1>14, <1>15 DEF StreamInv

(***************************************************************************)
(* A step that only builds or sends packets of chunks already queued       *)
(* leaves the streams as they are.                                         *)
(***************************************************************************)
LEMMA SendingInv ==
    ASSUME StreamInv,
           UNCHANGED <<sequence, ack, peerAck, buffer, unpacker, queued, delivered>>,
           state' \in [Endpoint -> {"ONLINE", "ERROR"}],
           net' \in [Endpoint -> SUBSET Packet],
           construct' \in [Endpoint -> Seq(Chunk)],
           resend' \in [Endpoint -> BOOLEAN],
           AcksMatch',
           \A f \in Endpoint : \A p \in net'[f] : \A i \in DOMAIN p.chunks :
              IsChunkOf(queued'[Other(f)], p.chunks[i]),
           \A f \in Endpoint : \A i \in DOMAIN construct'[f] :
              IsChunkOf(queued'[f], construct'[f][i])
    PROVE  StreamInv' /\ (PeerAckIsReleased => PeerAckIsReleased')
<1>1. TypeOK'
  BY DEF StreamInv, TypeOK
<1>2. CountersMatch' /\ InOrder' /\ UnpackerIsFresh'
  BY DEF StreamInv, CountersMatch, InOrder, UnpackerIsFresh
<1>3. BufferIsSuffix'
  BY DEF StreamInv, BufferIsSuffix, Released
<1>4. ChunksMatch'
  BY DEF StreamInv, ChunksMatch
<1>5. PeerAckIsReleased => PeerAckIsReleased'
  BY DEF PeerAckIsReleased, Released
<1> QED
  BY <1>1, <1>2, <1>3, <1>4, <1>5 DEF StreamInv

LEMMA QueuePlainInv ==
    ASSUME StreamInv, NEW e \in Endpoint, QueuePlain(e)
    PROVE  StreamInv' /\ (PeerAckIsReleased => PeerAckIsReleased')
<1>1. /\ <<PlainChunk>> \in Seq(Chunk)
      /\ \A i \in DOMAIN <<PlainChunk>> : IsChunkOf(queued'[e], <<PlainChunk>>[i])
  BY DEF Chunk, PlainChunk, IsChunkOf
<1>2. /\ QueueAndSend(e, <<PlainChunk>>)
      /\ UNCHANGED <<state, sequence, ack, peerAck, buffer, unpacker, queued, delivered>>
  BY DEF QueuePlain
<1>3. /\ queued \in [Endpoint -> Nat]
      /\ state \in [Endpoint -> {"ONLINE", "ERROR"}]
  BY DEF StreamInv, TypeOK
<1>4. /\ queued' \in [Endpoint -> Nat]
      /\ \A f \in Endpoint : queued'[f] >= queued[f]
  BY <1>2, <1>3
<1>5. /\ net' \in [Endpoint -> SUBSET Packet]
      /\ construct' \in [Endpoint -> Seq(Chunk)]
      /\ resend' \in [Endpoint -> BOOLEAN]
      /\ AcksMatch'
      /\ \A f \in Endpoint : \A p \in net'[f] : \A i \in DOMAIN p.chunks :
            IsChunkOf(queued'[Other(f)], p.chunks[i])
      /\ \A f \in Endpoint : \A i \in DOMAIN construct'[f] :
            IsChunkOf(queued'[f], construct'[f][i])
  BY <1>1, <1>2, <1>4, QueueKeepsNet
<1> QED
  BY <1>2, <1>3, <1>5, SendingInv

LEMMA TimeoutInv ==
    ASSUME StreamInv, NEW e \in Endpoint, Timeout(e)
    PROVE  StreamInv' /\ (PeerAckIsReleased => PeerAckIsReleased')
<1>1. /\ UNCHANGED <<sequence, ack, peerAck, buffer, construct, resend, unpacker,
                     net, queued, delivered>>
      /\ state' = [state EXCEPT ![e] = "ERROR"]
  BY DEF Timeout
<1>2. TypeOK'
  BY <1>1 DEF StreamInv, TypeOK
<1>3. ChunksMatch' /\ AcksMatch'
  BY <1>1 DEF StreamInv, ChunksMatch, AcksMatch
<1> QED
  BY <1>1, <1>2, <1>3, SendingInv DEF TypeOK, ChunksMatch

\* The packet that Flush sends and the empty construct it leaves.
LEMMA FlushInv ==
    ASSUME StreamInv, NEW e \in Endpoint, Flush(e)
    PROVE  StreamInv' /\ (PeerAckIsReleased => PeerAckIsReleased')
<1> DEFINE p == MakePacket(e, resend[e], construct[e])
<1>1. /\ \E out \in AfterSend(Other(e), {p}) : net' = [net EXCEPT ![Other(e)] = out]
      /\ construct' = [construct EXCEPT ![e] = <<>>]
      /\ resend' = [resend EXCEPT ![e] = FALSE]
      /\ UNCHANGED <<state, sequence, ack, peerAck, buffer, unpacker, queued, delivered>>
  BY DEF Flush
<1>2. TypeOK
  BY DEF StreamInv
<1>3. /\ p \in Packet
      /\ p.ack = ack[e]
      /\ p.seen = Len(delivered[e])
      /\ p.chunks = construct[e]
  BY <1>2 DEF MakePacket, Packet, TypeOK
<1> HIDE DEF p
<1>4. /\ queued' \in [Endpoint -> Nat]
      /\ \A f \in Endpoint : queued'[f] >= queued[f]
  BY <1>1, <1>2 DEF TypeOK
<1>5. \A i \in DOMAIN construct[e] : IsChunkOf(queued'[e], construct[e][i])
  BY <1>1 DEF StreamInv, ChunksMatch
<1>6. /\ net' \in [Endpoint -> SUBSET Packet]
      /\ AcksMatch'
      /\ \A f \in Endpoint : \A r \in net'[f] : \A i \in DOMAIN r.chunks :
            IsChunkOf(queued'[Other(f)], r.chunks[i])
  <2>1. {p} \in SUBSET Packet
    BY <1>3
  <2>2. \A r \in {p} : /\ r.ack = ack[e]
                       /\ r.seen = Len(delivered[e])
                       /\ \A i \in DOMAIN r.chunks : IsChunkOf(queued'[e], r.chunks[i])
    BY <1>3, <1>5
  <2>3. delivered' = delivered
    BY <1>1
  <2> QED
    BY <1>1, <1>4, <2>1, <2>2, <2>3, SendKeepsNet, ZenonT(60)
<1>7. /\ construct' \in [Endpoint -> Seq(Chunk)]
      /\ resend' \in [Endpoint -> BOOLEAN]
      /\ state' \in [Endpoint -> {"ONLINE", "ERROR"}]
  BY <1>1, <1>2 DEF TypeOK
<1>8. \A f \in Endpoint : \A i \in DOMAIN construct'[f] :
         IsChunkOf(queued'[f], construct'[f][i])
  BY <1>1, <1>2 DEF StreamInv, ChunksMatch, TypeOK
<1> QED
  BY <1>1, <1>6, <1>7, <1>8, SendingInv

LEMMA UpdateInv ==
    ASSUME StreamInv, NEW e \in Endpoint, NEW old \in BOOLEAN, NEW idle \in BOOLEAN,
           Update(e, old, idle)
    PROVE  StreamInv' /\ (PeerAckIsReleased => PeerAckIsReleased')
<1> DEFINE cs == ResentByUpdate(e, old)
           q == QueueChunkEx(e, cs)
           flush == idle /\ q.packets = {}
           sent == IF flush THEN {MakePacket(e, q.resend, q.construct)} ELSE q.packets
<1>1. /\ old => buffer[e] # <<>>
      /\ construct' = [construct EXCEPT ![e] = IF flush THEN <<>> ELSE q.construct]
      /\ resend' = [resend EXCEPT ![e] = IF flush THEN FALSE ELSE q.resend]
      /\ \E out \in AfterSend(Other(e), sent) : net' = [net EXCEPT ![Other(e)] = out]
      /\ UNCHANGED <<state, sequence, ack, peerAck, buffer, unpacker, queued, delivered>>
  BY DEF Update
<1>2. TypeOK
  BY DEF StreamInv
<1>3. /\ queued \in [Endpoint -> Nat]
      /\ queued' \in [Endpoint -> Nat]
      /\ \A f \in Endpoint : queued'[f] >= queued[f]
  BY <1>1, <1>2 DEF TypeOK
<1>4. cs \in Seq(Chunk) /\ \A i \in DOMAIN cs : IsChunkOf(queued[e], cs[i])
  <2>1. CASE ~old
    BY <2>1 DEF ResentByUpdate
  <2>2. CASE old
    <3>1. /\ buffer[e] \in Seq(VitalChunk) /\ buffer[e] # <<>>
          /\ Head(buffer[e]) = buffer[e][1] /\ 1 \in DOMAIN buffer[e]
      BY <1>1, <1>2, <2>2 DEF TypeOK
    <3>2. /\ buffer[e][1].msg = Released(e) + 1
          /\ buffer[e][1].seq = buffer[e][1].msg % MaxSequence
          /\ Released(e) >= 0
      BY <3>1 DEF StreamInv, BufferIsSuffix
    <3>3. buffer[e][1].msg \in 1 .. queued[e]
      BY <1>3, <3>1, <3>2 DEF Released
    <3> QED
      BY <2>2, <3>1, <3>2, <3>3 DEF Chunk, IsChunkOf, ResentByUpdate
  <2> QED
    BY <2>1, <2>2
<1> HIDE DEF cs
<1>5. /\ q.construct \in Seq(Chunk)
      /\ q.resend \in BOOLEAN
      /\ q.packets \subseteq Packet
      /\ \A i \in DOMAIN q.construct : FromConstructOr(e, cs, q.construct[i])
      /\ \A p \in q.packets :
            /\ p.ack = ack[e]
            /\ p.seen = Len(delivered[e])
            /\ \A i \in DOMAIN p.chunks : FromConstructOr(e, cs, p.chunks[i])
  BY <1>2, <1>4, QueueChunkExType
<1> HIDE DEF q
<1>6. ASSUME NEW c, FromConstructOr(e, cs, c)
      PROVE  IsChunkOf(queued[e], c)
  BY <1>4, <1>6 DEF FromConstructOr, StreamInv, ChunksMatch
<1>7. /\ sent \in SUBSET Packet
      /\ \A p \in sent : /\ p.ack = ack[e]
                         /\ p.seen = Len(delivered[e])
                         /\ \A i \in DOMAIN p.chunks : IsChunkOf(queued'[e], p.chunks[i])
  <2>1. CASE ~flush
    BY <1>1, <1>5, <1>6, <2>1
  <2>2. CASE flush
    <3> DEFINE p == MakePacket(e, q.resend, q.construct)
    <3>1. /\ p \in Packet
          /\ p.ack = ack[e] /\ p.seen = Len(delivered[e]) /\ p.chunks = q.construct
      BY <1>2, <1>5 DEF MakePacket, Packet, TypeOK
    <3>2. sent = {p}
      BY <2>2
    <3> HIDE DEF p
    <3> QED
      BY <1>1, <1>5, <1>6, <3>1, <3>2
  <2> QED
    BY <2>1, <2>2
<1> HIDE DEF sent, flush
<1>8. /\ net' \in [Endpoint -> SUBSET Packet]
      /\ AcksMatch'
      /\ \A f \in Endpoint : \A r \in net'[f] : \A i \in DOMAIN r.chunks :
            IsChunkOf(queued'[Other(f)], r.chunks[i])
  BY <1>1, <1>3, <1>7, SendKeepsNet
<1>9. /\ construct' \in [Endpoint -> Seq(Chunk)]
      /\ resend' \in [Endpoint -> BOOLEAN]
      /\ state' \in [Endpoint -> {"ONLINE", "ERROR"}]
  <2>1. /\ (IF flush THEN <<>> ELSE q.construct) \in Seq(Chunk)
        /\ (IF flush THEN FALSE ELSE q.resend) \in BOOLEAN
    <3>1. CASE flush
      BY <3>1
    <3>2. CASE ~flush
      BY <1>5, <3>2
    <3> QED
      BY <3>1, <3>2
  <2>2. /\ construct \in [Endpoint -> Seq(Chunk)]
        /\ resend \in [Endpoint -> BOOLEAN]
        /\ state \in [Endpoint -> {"ONLINE", "ERROR"}]
    BY <1>2 DEF TypeOK
  <2> QED
    BY <1>1, <2>1, <2>2
<1>10. \A f \in Endpoint : \A i \in DOMAIN construct'[f] :
          IsChunkOf(queued'[f], construct'[f][i])
  BY <1>1, <1>2, <1>5, <1>6 DEF StreamInv, ChunksMatch, TypeOK
<1> QED
  BY <1>1, <1>8, <1>9, <1>10, SendingInv

(***************************************************************************)
(* AckChunks for an ack that stands for position s of the stream releases  *)
(* exactly up to s, or nothing when s is older than what was released: the *)
(* buffer must hold less than half the sequence space, and s lie less than *)
(* that back.                                                              *)
(***************************************************************************)
Front(e, s) == IF s < Released(e) THEN Released(e) ELSE s

LEMMA AckChunksReleases ==
    ASSUME StreamInv, NEW e \in Endpoint, NEW s \in Nat,
           s <= queued[e], 2 * (queued[e] - s) < MaxSequence,
           AckChunks(e, s % MaxSequence)
    PROVE  /\ buffer' \in [Endpoint -> Seq(VitalChunk)]
           /\ \A f \in Endpoint : f # e => buffer'[f] = buffer[f]
           /\ Len(buffer'[e]) = queued[e] - Front(e, s)
           /\ \A i \in DOMAIN buffer'[e] :
                 /\ buffer'[e][i].msg = Front(e, s) + i
                 /\ buffer'[e][i].seq = buffer'[e][i].msg % MaxSequence
<1> DEFINE buf == buffer[e]
           b == Released(e)
           r == Front(e, s)
<1>1. /\ buffer \in [Endpoint -> Seq(VitalChunk)]
      /\ buf \in Seq(VitalChunk)
      /\ Len(buf) \in Nat
      /\ queued[e] \in Nat
  BY DEF StreamInv, TypeOK
<1>2. /\ b \in Nat
      /\ b = queued[e] - Len(buf)
      /\ Len(buf) <= BufferCap
      /\ \A i \in DOMAIN buf : /\ buf[i].msg = b + i
                               /\ buf[i].seq = buf[i].msg % MaxSequence
  <2>1. /\ Len(buf) <= BufferCap
        /\ b >= 0
        /\ \A i \in DOMAIN buf : /\ buf[i].msg = b + i
                                 /\ buf[i].seq = buf[i].msg % MaxSequence
    BY DEF StreamInv, BufferIsSuffix
  <2>2. b = queued[e] - Len(buf)
    BY DEF Released
  <2>3. b \in Nat
    BY <1>1, <2>1, <2>2
  <2> QED
    BY <2>1, <2>2, <2>3
<1> DEFINE len == Len(buf)
<1>0. /\ b \in Nat /\ len \in Nat /\ s \in Nat
      /\ len <= BufferCap
      /\ s <= b + len /\ 2 * (b + len - s) < MaxSequence
      /\ r = IF s < b THEN b ELSE s
      /\ BufferCap \in Nat /\ MaxSequence \in Nat /\ 2 * BufferCap < MaxSequence
  <2>1. queued[e] = b + len
    BY <1>1, <1>2
  <2>2. r = IF s < b THEN b ELSE s
    BY DEF Front
  <2>3. b \in Nat /\ len \in Nat /\ s \in Nat /\ len <= BufferCap
    BY <1>1, <1>2
  <2>4. s <= b + len /\ 2 * (b + len - s) < MaxSequence
    <3> DEFINE q == queued[e]
    <3>1. s <= q /\ 2 * (q - s) < MaxSequence /\ q = b + len
      BY <2>1
    <3> HIDE DEF b, len, q
    <3> QED
      BY <2>3, <3>1
  <2>5. BufferCap \in Nat /\ MaxSequence \in Nat /\ 2 * BufferCap < MaxSequence
    BY MaxSequenceType
  <2> HIDE DEF b, len, r
  <2> QED
    BY <2>2, <2>3, <2>4, <2>5
<1> HIDE DEF b, len, r
<1>3. ASSUME NEW i \in 1 .. Len(buf)
      PROVE  IsSeqInBackroom(buf[i].seq, s % MaxSequence) <=> b + i <= s
  <2> DEFINE m == b + i
  <2>1. /\ m \in Nat /\ 2 * (m - s) < MaxSequence /\ 2 * (s - m) < MaxSequence
    <3>1. i \in 1 .. len
      BY DEF len
    <3> QED
      BY <1>0, <3>1
  <2>2. buf[i].seq = m % MaxSequence
    <3>1. i \in DOMAIN buf
      BY <1>1
    <3> QED
      BY <1>2, <3>1
  <2> HIDE DEF m
  <2>3. MaxSequence \in Nat \ {0} /\ MaxSequence % 2 = 0
    BY MaxSequenceType
  <2>4. IsSeqInBackroom(m % MaxSequence, s % MaxSequence) <=> m <= s
    BY <2>1, <2>3, BackroomIsPast DEF IsSeqInBackroom
  <2> QED
    BY <2>2, <2>4 DEF m
<1>4. PICK n \in 0 .. Len(buf) :
         /\ \A i \in 1 .. n : IsSeqInBackroom(buf[i].seq, s % MaxSequence)
         /\ n < Len(buf) => ~IsSeqInBackroom(buf[n + 1].seq, s % MaxSequence)
         /\ buffer' = [buffer EXCEPT ![e] = SubSeq(buf, n + 1, Len(buf))]
  BY DEF AckChunks
<1>5. b + n = r
  <2>0. n \in 0 .. len
    BY DEF len
  <2>1. n > 0 => b + n <= s
    <3>1. n > 0 => n \in 1 .. n /\ n \in 1 .. Len(buf)
      BY <1>0, <2>0 DEF len
    <3> QED
      BY <1>3, <1>4, <3>1
  <2>2. n < len => ~ (b + (n + 1) <= s)
    <3>1. n < len => n + 1 \in 1 .. Len(buf)
      BY <1>0, <2>0 DEF len
    <3> QED
      BY <1>3, <1>4, <3>1 DEF len
  <2> QED
    BY <1>0, <2>0, <2>1, <2>2
<1>6. /\ SubSeq(buf, n + 1, Len(buf)) \in Seq(VitalChunk)
      /\ Len(SubSeq(buf, n + 1, Len(buf))) = Len(buf) - n
      /\ \A i \in DOMAIN SubSeq(buf, n + 1, Len(buf)) :
            n + i \in DOMAIN buf /\ SubSeq(buf, n + 1, Len(buf))[i] = buf[n + i]
  <2>1. n + 1 \in Nat \ {0} /\ Len(buf) \in 0 .. Len(buf)
    BY <1>1, <1>4
  <2>2. /\ SubSeq(buf, n + 1, Len(buf)) \in Seq(VitalChunk)
        /\ Len(SubSeq(buf, n + 1, Len(buf))) =
              IF n + 1 <= Len(buf) THEN Len(buf) - (n + 1) + 1 ELSE 0
        /\ \A i \in DOMAIN SubSeq(buf, n + 1, Len(buf)) :
              n + 1 + i - 1 \in DOMAIN buf /\ SubSeq(buf, n + 1, Len(buf))[i] = buf[n + 1 + i - 1]
    BY <1>1, <2>1, SubSeqElements, SMTT(60)
  <2>3. Len(SubSeq(buf, n + 1, Len(buf))) = Len(buf) - n
    BY <1>1, <1>4, <2>2
  <2>4. \A i \in DOMAIN SubSeq(buf, n + 1, Len(buf)) : i \in Int /\ n + 1 + i - 1 = n + i
    BY <1>1, <1>4, <2>2
  <2> QED
    BY <2>2, <2>3, <2>4
<1>7. buffer'[e] = SubSeq(buf, n + 1, Len(buf)) /\ \A f \in Endpoint : f # e => buffer'[f] = buffer[f]
  BY <1>1, <1>4
<1>8. buffer' \in [Endpoint -> Seq(VitalChunk)]
  BY <1>1, <1>4, <1>6
<1>9. Len(buffer'[e]) = queued[e] - r
  <2> DEFINE rest == Len(buffer'[e])
             q == queued[e]
  <2>1. rest = len - n /\ n \in Nat
    BY <1>6, <1>7 DEF len
  <2>2. q = b + len /\ q \in Nat
    BY <1>0, <1>1, <1>2, SMTT(60) DEF len
  <2> HIDE DEF rest, q
  <2>3. rest = q - r
    BY <1>0, <1>5, <2>1, <2>2
  <2> QED
    BY <2>3 DEF rest, q
<1>10. ASSUME NEW i \in DOMAIN buffer'[e]
       PROVE  /\ buffer'[e][i].msg = r + i
              /\ buffer'[e][i].seq = buffer'[e][i].msg % MaxSequence
  <2>1. n + i \in DOMAIN buf /\ buffer'[e][i] = buf[n + i]
    BY <1>6, <1>7
  <2>2. i \in Int
    BY <1>6, <1>7
  <2>3. b + (n + i) = r + i
    <3>1. n \in Nat
      BY <1>0 DEF len
    <3> QED
      BY <1>0, <1>5, <2>2, <3>1
  <2> QED
    BY <1>2, <2>1, <2>3
<1> QED
  BY <1>7, <1>8, <1>9, <1>10 DEF r

(***************************************************************************)
(* Feed: the ack of an accepted packet stands for a position between what  *)
(* was released and what is queued, and releases exactly up to it.  Where  *)
(* m_PeerAck may be wrong, the ack may stand for an older position, and it *)
(* takes a path on which no ack gets half a turn old to say that nothing   *)
(* is released then.                                                       *)
(***************************************************************************)
LEMMA FeedReleases ==
    ASSUME StreamInv, PeerAckIsReleased \/ 2 * Lifetime <= MaxSequence,
           NEW e \in Endpoint, NEW p \in net[e], Feed(e, p)
    PROVE  /\ buffer' \in [Endpoint -> Seq(VitalChunk)]
           /\ \A f \in Endpoint : f # e => buffer'[f] = buffer[f]
           /\ Len(buffer'[e]) = queued[e] - Front(e, p.seen)
           /\ \A i \in DOMAIN buffer'[e] :
                 /\ buffer'[e][i].msg = Front(e, p.seen) + i
                 /\ buffer'[e][i].seq = buffer'[e][i].msg % MaxSequence
           /\ PeerAckIsReleased => Front(e, p.seen) = p.seen
           /\ Front(e, p.seen) \in Nat
           /\ Released(e) <= Front(e, p.seen)
           /\ Front(e, p.seen) <= Len(delivered[Other(e)])
           /\ Front(e, p.seen) <= queued[e]
<1> DEFINE s == p.seen
           b == Released(e)
           q == queued[e]
           d == Len(delivered[Other(e)])
<1>1. TypeOK
  BY DEF StreamInv
<1>2. /\ p \in Packet /\ s \in Nat /\ q \in Nat
      /\ Len(buffer[e]) \in Nat /\ d \in Nat
  BY <1>1, Endpoints DEF TypeOK, Packet
<1>3. s <= d /\ p.ack = s % MaxSequence
  BY DEF StreamInv, AcksMatch
<1>4. d <= q /\ s <= q
  <2>1. /\ Other(e) \in Endpoint /\ Other(Other(e)) = e
    BY Endpoints
  <2>2. d <= q
    BY <1>1, <2>1 DEF StreamInv, InOrder
  <2> QED
    BY <1>2, <1>3, <2>2
<1>5. b \in Nat /\ b <= d /\ b <= q /\ q - b <= BufferCap
  <2>1. b = q - Len(buffer[e])
    BY DEF Released
  <2>2. b >= 0 /\ Len(buffer[e]) <= BufferCap /\ b <= d
    BY DEF StreamInv, BufferIsSuffix
  <2> QED
    BY <1>2, <2>1, <2>2, MaxSequenceType
<1>6. q - s < Lifetime /\ Lifetime \in Nat /\ Lifetime <= MaxSequence
  BY LifetimeAssumption, MaxSequenceType DEF Feed, Fresh
<1>7. AckChunks(e, s % MaxSequence)
  BY <1>3 DEF Feed
<1>8. PeerAckIsReleased => b <= s
  <2> SUFFICES ASSUME PeerAckIsReleased PROVE b <= s
    OBVIOUS
  <2>1. /\ sequence[e] = q % MaxSequence
        /\ peerAck[e] = b % MaxSequence
    BY DEF StreamInv, CountersMatch, PeerAckIsReleased
  <2>2. IF q % MaxSequence >= b % MaxSequence
        THEN ~ (s % MaxSequence < b % MaxSequence \/ s % MaxSequence > q % MaxSequence)
        ELSE ~ (s % MaxSequence < b % MaxSequence /\ s % MaxSequence > q % MaxSequence)
    BY <1>3, <2>1 DEF Feed, IsAckValid
  <2> HIDE DEF b, s, q, d
  <2>3. q - b < MaxSequence /\ q - s < MaxSequence
    BY <1>2, <1>5, <1>6, MaxSequenceType
  <2>4. s >= b
    BY <1>2, <1>4, <1>5, <2>2, <2>3, MaxSequenceType, ValidAckIsNotOld
  <2> QED
    BY <1>2, <1>5, <2>4
<1> DEFINE r == Front(e, s)
<1>9. r = IF s < b THEN b ELSE s
  BY DEF Front
<1> HIDE DEF b, s, q, d, r
<1>10. 2 * (q - s) < MaxSequence
  <2>1. CASE b <= s
    BY <1>2, <1>5, <2>1, MaxSequenceType
  <2>2. CASE 2 * Lifetime <= MaxSequence
    BY <1>2, <1>6, <2>2, MaxSequenceType
  <2> QED
    BY <1>8, <2>1, <2>2
<1>11. /\ buffer' \in [Endpoint -> Seq(VitalChunk)]
       /\ \A f \in Endpoint : f # e => buffer'[f] = buffer[f]
       /\ Len(buffer'[e]) = queued[e] - r
       /\ \A i \in DOMAIN buffer'[e] :
             /\ buffer'[e][i].msg = r + i
             /\ buffer'[e][i].seq = buffer'[e][i].msg % MaxSequence
  BY <1>2, <1>4, <1>7, <1>10, AckChunksReleases DEF q, r
<1>12. r \in Nat /\ b <= r /\ r <= d /\ r <= q
  BY <1>2, <1>3, <1>4, <1>5, <1>9
<1>13. PeerAckIsReleased => r = s
  BY <1>2, <1>5, <1>8, <1>9
<1> QED
  BY <1>11, <1>12, <1>13 DEF b, s, q, d, r

LEMMA FeedInv ==
    ASSUME StreamInv, PeerAckIsReleased \/ 2 * Lifetime <= MaxSequence,
           NEW e \in Endpoint, NEW p \in net[e], Feed(e, p)
    PROVE  StreamInv' /\ (PeerAckIsReleased => PeerAckIsReleased')
<1> DEFINE s == Front(e, p.seen)
           cs == IF p.resend THEN buffer[e] ELSE <<>>
<1>1. TypeOK
  BY DEF StreamInv
<1>2. /\ peerAck' = [peerAck EXCEPT ![e] = p.ack]
      /\ QueueAndSend(e, cs)
      /\ unpacker' = [unpacker EXCEPT ![e] = p.chunks]
      /\ UNCHANGED <<state, sequence, ack, queued, delivered>>
  BY DEF Feed
<1>3. /\ buffer' \in [Endpoint -> Seq(VitalChunk)]
      /\ \A f \in Endpoint : f # e => buffer'[f] = buffer[f]
      /\ Len(buffer'[e]) = queued[e] - s
      /\ \A i \in DOMAIN buffer'[e] :
            /\ buffer'[e][i].msg = s + i
            /\ buffer'[e][i].seq = buffer'[e][i].msg % MaxSequence
      /\ PeerAckIsReleased => s = p.seen
      /\ s \in Nat
      /\ Released(e) <= s
      /\ s <= Len(delivered[Other(e)])
      /\ s <= queued[e]
  BY FeedReleases
<1> HIDE DEF s
<1>4. /\ p \in Packet /\ queued[e] \in Nat /\ queued \in [Endpoint -> Nat]
      /\ p.chunks \in Seq(Chunk) /\ p.ack \in Seqs
      /\ p.ack = p.seen % MaxSequence
  BY <1>1 DEF StreamInv, TypeOK, Packet, AcksMatch
<1>5. /\ queued' \in [Endpoint -> Nat]
      /\ \A f \in Endpoint : queued'[f] >= queued[f]
  BY <1>2, <1>4
<1>6. cs \in Seq(Chunk) /\ \A i \in DOMAIN cs : IsChunkOf(queued'[e], cs[i])
  <2>1. CASE ~p.resend
    BY <2>1
  <2>2. CASE p.resend
    <3>1. buffer[e] \in Seq(VitalChunk) /\ buffer[e] \in Seq(Chunk) /\ Len(buffer[e]) \in Nat
      BY <1>1 DEF TypeOK, Chunk
    <3>2. ASSUME NEW i \in DOMAIN buffer[e]
          PROVE  IsChunkOf(queued'[e], buffer[e][i])
      <4>1. /\ buffer[e][i].msg = Released(e) + i
            /\ buffer[e][i].seq = buffer[e][i].msg % MaxSequence
            /\ Released(e) >= 0
        BY DEF StreamInv, BufferIsSuffix
      <4>2. i \in 1 .. Len(buffer[e]) /\ queued'[e] = queued[e]
        BY <1>2, <3>1
      <4>3. Released(e) = queued[e] - Len(buffer[e]) /\ queued[e] \in Nat
        BY <1>4 DEF Released
      <4> DEFINE r == Released(e)
                 l == Len(buffer[e])
                 q == queued[e]
      <4>4. r = q - l /\ q \in Nat /\ l \in Nat /\ i \in 1 .. l /\ r >= 0
        BY <3>1, <4>1, <4>2, <4>3
      <4> HIDE DEF r, l, q
      <4>5. r + i \in 1 .. q
        BY <4>4
      <4> QED
        BY <4>1, <4>2, <4>5 DEF IsChunkOf, r, q
    <3> QED
      BY <2>2, <3>1, <3>2
  <2> QED
    BY <2>1, <2>2
<1> HIDE DEF cs
<1>7. /\ net' \in [Endpoint -> SUBSET Packet]
      /\ construct' \in [Endpoint -> Seq(Chunk)]
      /\ resend' \in [Endpoint -> BOOLEAN]
      /\ AcksMatch'
      /\ \A f \in Endpoint : \A r \in net'[f] : \A i \in DOMAIN r.chunks :
            IsChunkOf(queued'[Other(f)], r.chunks[i])
      /\ \A f \in Endpoint : \A i \in DOMAIN construct'[f] :
            IsChunkOf(queued'[f], construct'[f][i])
  BY <1>2, <1>5, <1>6, QueueKeepsNet
<1>8. TypeOK'
  <2>1. /\ peerAck' \in [Endpoint -> Seqs]
        /\ unpacker' \in [Endpoint -> Seq(Chunk)]
    BY <1>1, <1>2, <1>4 DEF TypeOK
  <2> QED
    BY <1>1, <1>2, <1>3, <1>5, <1>7, <2>1 DEF TypeOK
<1>9. CountersMatch' /\ InOrder'
  BY <1>2 DEF StreamInv, CountersMatch, InOrder
<1>10. /\ Released(e)' = s
       /\ \A f \in Endpoint : f # e => Released(f)' = Released(f)
  <2>1. Released(e)' = queued[e] - (queued[e] - s)
    BY <1>2, <1>3 DEF Released
  <2> QED
    BY <1>2, <1>3, <1>4, <2>1, SMTT(60) DEF Released
<1>11. BufferIsSuffix'
  <2> SUFFICES ASSUME NEW f \in Endpoint
               PROVE  /\ Len(buffer'[f]) <= BufferCap
                      /\ Released(f)' >= 0
                      /\ Released(f)' <= Len(delivered'[Other(f)])
                      /\ \A i \in DOMAIN buffer'[f] :
                            /\ buffer'[f][i].msg = Released(f)' + i
                            /\ buffer'[f][i].seq = buffer'[f][i].msg % MaxSequence
    BY DEF BufferIsSuffix
  <2>1. /\ Len(buffer[f]) <= BufferCap
        /\ Released(f) >= 0
        /\ Released(f) <= Len(delivered[Other(f)])
        /\ \A i \in DOMAIN buffer[f] :
              /\ buffer[f][i].msg = Released(f) + i
              /\ buffer[f][i].seq = buffer[f][i].msg % MaxSequence
    BY DEF StreamInv, BufferIsSuffix
  <2>2. CASE f # e
    BY <1>2, <1>3, <1>10, <2>1, <2>2
  <2>3. CASE f = e
    <3>1. Len(buffer'[e]) <= BufferCap
      <4>1. Released(e) = queued[e] - Len(buffer[e]) /\ Len(buffer[e]) \in Nat
        BY <1>1 DEF Released, TypeOK
      <4> QED
        BY MaxSequenceType, <1>3, <1>4, <2>1, <2>3, <4>1, SMTT(60)
    <3>2. Released(f)' = s /\ s >= 0
      BY <1>3, <1>10, <2>3
    <3> QED
      BY <1>2, <1>3, <2>3, <3>1, <3>2
  <2> QED
    BY <2>2, <2>3
<1>12. PeerAckIsReleased => PeerAckIsReleased'
  <2> SUFFICES ASSUME PeerAckIsReleased, NEW f \in Endpoint
               PROVE  peerAck'[f] = Released(f)' % MaxSequence
    BY DEF PeerAckIsReleased
  <2>1. peerAck[f] = Released(f) % MaxSequence /\ peerAck \in [Endpoint -> Seqs]
    BY <1>1 DEF PeerAckIsReleased, TypeOK
  <2>2. CASE f # e
    BY <1>2, <1>10, <2>1, <2>2
  <2>3. CASE f = e
    BY <1>2, <1>3, <1>4, <1>10, <2>1, <2>3
  <2> QED
    BY <2>2, <2>3
<1>13. \A i \in DOMAIN p.chunks : IsChunkOf(queued'[Other(e)], p.chunks[i])
  BY <1>2 DEF StreamInv, ChunksMatch
<1>14. ChunksMatch'
  <2>1. ASSUME NEW f \in Endpoint, NEW i \in DOMAIN unpacker'[f]
        PROVE  IsChunkOf(queued'[Other(f)], unpacker'[f][i])
    <3>1. CASE f = e
      <4>1. unpacker'[f] = p.chunks
        BY <1>1, <1>2, <3>1 DEF TypeOK
      <4> QED
        BY <1>13, <3>1, <4>1
    <3>2. CASE f # e
      <4>1. unpacker'[f] = unpacker[f]
        BY <1>1, <1>2, <3>2 DEF TypeOK
      <4> QED
        BY <1>2, <4>1 DEF StreamInv, ChunksMatch
    <3> QED
      BY <3>1, <3>2
  <2> QED
    BY <1>7, <2>1 DEF ChunksMatch
<1>15. UnpackerIsFresh'
  <2> SUFFICES ASSUME NEW f \in Endpoint, NEW i \in DOMAIN unpacker'[f], unpacker'[f][i].vital
               PROVE  /\ Len(delivered[f]) - unpacker'[f][i].msg < MaxSequence - 1
                      /\ \A j \in DOMAIN unpacker'[f] :
                            unpacker'[f][j].vital =>
                               unpacker'[f][j].msg - unpacker'[f][i].msg < MaxSequence - 1
    BY <1>2 DEF UnpackerIsFresh
  <2>1. CASE f # e
    <3>1. unpacker'[f] = unpacker[f]
      BY <1>1, <1>2, <2>1 DEF TypeOK
    <3> QED
      BY <3>1 DEF StreamInv, UnpackerIsFresh
  <2>2. CASE f = e
    <3>1. unpacker'[f] = p.chunks
      BY <1>1, <1>2, <2>2 DEF TypeOK
    <3> DEFINE total == queued[Other(e)]
    <3>2. total \in Nat /\ Len(delivered[e]) \in Nat /\ Len(delivered[e]) <= total
      BY <1>1, Endpoints DEF TypeOK, StreamInv, InOrder
    <3>3. ASSUME NEW j \in DOMAIN p.chunks, p.chunks[j].vital
          PROVE  /\ p.chunks[j].msg \in 1 .. total
                 /\ total - p.chunks[j].msg < MaxSequence - 1
      <4>1. p.chunks[j].msg \in 1 .. total
        BY <1>2, <1>13, <3>3 DEF IsChunkOf
      <4>2. total - p.chunks[j].msg < MaxSequence - 1
        BY <3>3 DEF Feed, Fresh
      <4> QED
        BY <4>1, <4>2
    <3> HIDE DEF total
    <3>4. /\ unpacker'[f][i].msg \in 1 .. total
          /\ total - unpacker'[f][i].msg < MaxSequence - 1
      BY <3>1, <3>3
    <3>5. \A j \in DOMAIN unpacker'[f] :
             unpacker'[f][j].vital => unpacker'[f][j].msg \in 1 .. total
      BY <3>1, <3>3
    <3> QED
      BY <2>2, <3>2, <3>4, <3>5, MaxSequenceType, SMTT(60)
  <2> QED
    BY <2>1, <2>2
<1> QED
  BY <1>7, <1>8, <1>9, <1>11, <1>12, <1>14, <1>15 DEF StreamInv

(***************************************************************************)
(* A vital chunk that FetchChunk hands out is the next of the stream: the  *)
(* chunks being unpacked are too close together for another to have its    *)
(* sequence number.                                                        *)
(***************************************************************************)
LEMMA NextIsNext ==
    ASSUME StreamInv, NEW e \in Endpoint, NEW k \in DOMAIN unpacker[e],
           unpacker[e][k].vital, IsNext(e, unpacker[e][k])
    PROVE  /\ unpacker[e][k].msg = Len(delivered[e]) + 1
           /\ unpacker[e][k].seq = (Len(delivered[e]) + 1) % MaxSequence
           /\ Len(delivered[e]) + 1 <= queued[Other(e)]
<1> DEFINE c == unpacker[e][k]
           d == Len(delivered[e])
           o == Other(e)
<1>1. TypeOK /\ o \in Endpoint /\ Other(o) = e
  BY Endpoints DEF StreamInv
<1>2. /\ c.msg \in 1 .. queued[o] /\ c.seq = c.msg % MaxSequence
      /\ d - c.msg < MaxSequence - 1
  BY DEF StreamInv, ChunksMatch, IsChunkOf, UnpackerIsFresh
<1>3. d \in Nat /\ queued[o] \in Nat /\ d <= queued[o]
  BY <1>1 DEF StreamInv, TypeOK, InOrder
<1>4. c.seq = (d + 1) % MaxSequence
  <2>1. ack[e] = d % MaxSequence
    BY DEF StreamInv, CountersMatch
  <2>2. (ack[e] + 1) % MaxSequence = (d + 1) % MaxSequence
    <3>1. ((d % MaxSequence) + 1) % MaxSequence = (d + 1) % MaxSequence
      BY <1>3, ModSucc, MaxSequenceType
    <3> QED
      BY <2>1, <3>1
  <2>3. c.seq = (ack[e] + 1) % MaxSequence
    BY DEF IsNext
  <2> QED
    BY <2>2, <2>3
<1>5. queued[o] - d < MaxSequence
  <2> DEFINE r == Released(o)
             l == Len(buffer[o])
             u == queued[o]
  <2>1. r <= d /\ l <= BufferCap
    BY <1>1 DEF StreamInv, BufferIsSuffix
  <2>2. l \in Nat
    BY <1>1 DEF TypeOK
  <2>3. r = u - l
    BY DEF Released
  <2>4. u \in Nat /\ d \in Nat
    BY <1>3
  <2> HIDE DEF r, l, u, d
  <2>5. u - d < MaxSequence
    BY <2>1, <2>2, <2>3, <2>4, MaxSequenceType
  <2> QED
    BY <2>5 DEF u
<1> DEFINE m == c.msg
           x == d + 1
           u == queued[o]
<1>6. m \in 1 .. u /\ d \in Nat /\ u \in Nat /\ d <= u /\ u - d < MaxSequence
      /\ d - m < MaxSequence - 1
  BY <1>2, <1>3, <1>5
<1>7. m % MaxSequence = x % MaxSequence
  BY <1>2, <1>4
<1> HIDE DEF c, d, o, m, u
<1>8. m \in Nat /\ x \in Nat /\ m - x < MaxSequence /\ x - m < MaxSequence
  BY <1>6, MaxSequenceType
<1> HIDE DEF x
<1>9. m = x
  BY <1>7, <1>8, MaxSequenceType, ModUnique
<1>10. x <= u
  BY <1>6, <1>9
<1> QED
  BY <1>4, <1>9, <1>10 DEF c, d, o, m, u, x

\* What one fetch does to the unpacker, the stream and the ack.
LEMMA FetchChunkStep ==
    ASSUME StreamInv, NEW e \in Endpoint, FetchChunk(e)
    PROVE  /\ unpacker' \in [Endpoint -> Seq(Chunk)]
           /\ \A f \in Endpoint : f # e => unpacker'[f] = unpacker[f]
           /\ \A i \in DOMAIN unpacker'[e] : \E j \in DOMAIN unpacker[e] :
                 unpacker'[e][i] = unpacker[e][j]
           /\ resend' \in [Endpoint -> BOOLEAN]
           /\ \/ UNCHANGED <<ack, delivered>>
              \/ \E k \in DOMAIN unpacker[e] :
                    /\ unpacker[e][k].vital
                    /\ ack' = [ack EXCEPT ![e] = (Len(delivered[e]) + 1) % MaxSequence]
                    /\ delivered' = [delivered EXCEPT ![e] = Append(@, Len(delivered[e]) + 1)]
                    /\ Len(delivered[e]) + 1 <= queued[Other(e)]
                    /\ unpacker[e][k].msg = Len(delivered[e]) + 1
<1> DEFINE cs == unpacker[e]
<1>1. /\ cs \in Seq(Chunk)
      /\ unpacker \in [Endpoint -> Seq(Chunk)]
      /\ resend \in [Endpoint -> BOOLEAN]
      /\ Len(cs) \in Nat
  BY DEF StreamInv, TypeOK
<1>2. PICK n \in 0 .. Len(cs) :
         /\ n < Len(cs) => ~IsSkipped(e, cs[n + 1])
         /\ resend' = [resend EXCEPT ![e] = @ \/
                         \E i \in 1 .. n : ~IsSeqInBackroom(cs[i].seq, ack[e])]
         /\ unpacker' = [unpacker EXCEPT ![e] = SubSeq(cs, n + 2, Len(cs))]
         /\ IF n < Len(cs) /\ cs[n + 1].vital
            THEN /\ ack' = [ack EXCEPT ![e] = cs[n + 1].seq]
                 /\ delivered' = [delivered EXCEPT ![e] = Append(@, cs[n + 1].msg)]
            ELSE UNCHANGED <<ack, delivered>>
  BY DEF FetchChunk
<1>3. /\ SubSeq(cs, n + 2, Len(cs)) \in Seq(Chunk)
      /\ \A i \in DOMAIN SubSeq(cs, n + 2, Len(cs)) :
            /\ n + 2 + i - 1 \in DOMAIN cs
            /\ SubSeq(cs, n + 2, Len(cs))[i] = cs[n + 2 + i - 1]
  <2>1. n + 2 \in Nat \ {0} /\ Len(cs) \in 0 .. Len(cs)
    BY <1>1
  <2> QED
    BY <1>1, <2>1, SubSeqElements
<1>4. unpacker'[e] = SubSeq(cs, n + 2, Len(cs))
  BY <1>1, <1>2
<1>5. unpacker' \in [Endpoint -> Seq(Chunk)] /\ \A f \in Endpoint : f # e => unpacker'[f] = unpacker[f]
  BY <1>1, <1>2, <1>3
<1>6. \A i \in DOMAIN unpacker'[e] : \E j \in DOMAIN unpacker[e] :
         unpacker'[e][i] = unpacker[e][j]
  BY <1>3, <1>4
<1>7. resend' \in [Endpoint -> BOOLEAN]
  <2>1. \A b \in BOOLEAN : [resend EXCEPT ![e] = b] \in [Endpoint -> BOOLEAN]
    BY <1>1
  <2>2. resend[e] \/ (\E i \in 1 .. n : ~IsSeqInBackroom(cs[i].seq, ack[e])) \in BOOLEAN
    BY <1>1
  <2> QED
    BY <1>2, <2>1, <2>2
<1>8. CASE n < Len(cs) /\ cs[n + 1].vital
  <2>1. /\ n + 1 \in DOMAIN unpacker[e]
        /\ unpacker[e][n + 1].vital
        /\ IsNext(e, unpacker[e][n + 1])
    BY <1>1, <1>2, <1>8 DEF IsSkipped
  <2>2. /\ cs[n + 1].msg = Len(delivered[e]) + 1
        /\ cs[n + 1].seq = (Len(delivered[e]) + 1) % MaxSequence
        /\ Len(delivered[e]) + 1 <= queued[Other(e)]
    BY <2>1, NextIsNext
  <2>3. /\ ack' = [ack EXCEPT ![e] = (Len(delivered[e]) + 1) % MaxSequence]
        /\ delivered' = [delivered EXCEPT ![e] = Append(delivered[e], Len(delivered[e]) + 1)]
    BY <1>2, <1>8, <2>2
  <2> QED
    BY <1>5, <1>6, <1>7, <2>1, <2>2, <2>3
<1>9. CASE ~(n < Len(cs) /\ cs[n + 1].vital)
  BY <1>2, <1>5, <1>6, <1>7, <1>9
<1> QED
  BY <1>8, <1>9

LEMMA FetchChunkInv ==
    ASSUME StreamInv, NEW e \in Endpoint, FetchChunk(e)
    PROVE  StreamInv' /\ (PeerAckIsReleased => PeerAckIsReleased')
<1> DEFINE d == Len(delivered[e])
           o == Other(e)
<1>1. TypeOK /\ o \in Endpoint
  BY Endpoints DEF StreamInv
<1>2. /\ unpacker' \in [Endpoint -> Seq(Chunk)]
      /\ \A f \in Endpoint : f # e => unpacker'[f] = unpacker[f]
      /\ \A i \in DOMAIN unpacker'[e] : \E j \in DOMAIN unpacker[e] :
            unpacker'[e][i] = unpacker[e][j]
      /\ resend' \in [Endpoint -> BOOLEAN]
      /\ \/ UNCHANGED <<ack, delivered>>
         \/ \E k \in DOMAIN unpacker[e] :
               /\ unpacker[e][k].vital
               /\ ack' = [ack EXCEPT ![e] = (d + 1) % MaxSequence]
               /\ delivered' = [delivered EXCEPT ![e] = Append(@, d + 1)]
               /\ d + 1 <= queued[o]
               /\ unpacker[e][k].msg = d + 1
  BY FetchChunkStep
<1>3. UNCHANGED <<state, sequence, peerAck, buffer, construct, net, queued>>
  BY DEF FetchChunk
<1>4. /\ d \in Nat /\ delivered \in [Endpoint -> Seq(Nat)] /\ ack \in [Endpoint -> Seqs]
      /\ d + 1 \in Nat /\ (d + 1) % MaxSequence \in Seqs
  <2>1. d \in Nat /\ delivered \in [Endpoint -> Seq(Nat)] /\ ack \in [Endpoint -> Seqs]
    BY <1>1 DEF TypeOK
  <2>2. d + 1 \in Nat
    BY <2>1
  <2>3. (d + 1) % MaxSequence \in 0 .. MaxSequence - 1
    BY <2>2, DivMod, MaxSequenceType
  <2> QED
    BY <2>1, <2>2, <2>3 DEF Seqs
\* What was handed out does not shrink, elsewhere it does not change.
<1>5. /\ delivered' \in [Endpoint -> Seq(Nat)]
      /\ ack' \in [Endpoint -> Seqs]
      /\ \A f \in Endpoint : f # e => delivered'[f] = delivered[f] /\ ack'[f] = ack[f]
      /\ \/ delivered'[e] = delivered[e] /\ ack'[e] = ack[e]
         \/ /\ delivered'[e] = Append(delivered[e], d + 1)
            /\ ack'[e] = (d + 1) % MaxSequence
            /\ d + 1 <= queued[o]
            /\ \E k \in DOMAIN unpacker[e] :
                  unpacker[e][k].vital /\ unpacker[e][k].msg = d + 1
  <2>1. CASE UNCHANGED <<ack, delivered>>
    BY <1>4, <2>1
  <2>2. CASE \E k \in DOMAIN unpacker[e] :
               /\ unpacker[e][k].vital
               /\ ack' = [ack EXCEPT ![e] = (d + 1) % MaxSequence]
               /\ delivered' = [delivered EXCEPT ![e] = Append(@, d + 1)]
               /\ d + 1 <= queued[o]
               /\ unpacker[e][k].msg = d + 1
    <3> HIDE DEF d
    <3>1. Append(delivered[e], d + 1) \in Seq(Nat)
      BY <1>4
    <3> QED
      BY <1>4, <2>2, <3>1
  <2> QED
    BY <1>2, <2>1, <2>2
<1>6. \A f \in Endpoint : /\ Len(delivered[f]) \in Nat /\ Len(delivered'[f]) \in Nat
                          /\ Len(delivered'[f]) >= Len(delivered[f])
  <2> SUFFICES ASSUME NEW f \in Endpoint
               PROVE  /\ Len(delivered[f]) \in Nat /\ Len(delivered'[f]) \in Nat
                      /\ Len(delivered'[f]) >= Len(delivered[f])
    OBVIOUS
  <2>1. Len(delivered[f]) \in Nat /\ Len(delivered'[f]) \in Nat
    BY <1>4, <1>5
  <2>2. CASE delivered'[f] = delivered[f]
    BY <2>1, <2>2
  <2>3. CASE f = e /\ delivered'[e] = Append(delivered[e], d + 1)
    <3>1. Len(Append(delivered[e], d + 1)) = d + 1
      BY <1>4
    <3> QED
      BY <1>4, <2>1, <2>3, <3>1
  <2> QED
    BY <1>5, <2>2, <2>3
<1>7. TypeOK'
  BY <1>1, <1>2, <1>3, <1>5 DEF TypeOK
<1>8. CountersMatch'
  <2> SUFFICES ASSUME NEW f \in Endpoint
               PROVE  /\ sequence'[f] = queued'[f] % MaxSequence
                      /\ ack'[f] = Len(delivered'[f]) % MaxSequence
    BY DEF CountersMatch
  <2>1. sequence[f] = queued[f] % MaxSequence /\ ack[f] = Len(delivered[f]) % MaxSequence
    BY DEF StreamInv, CountersMatch
  <2>2. Len(Append(delivered[e], d + 1)) = d + 1
    BY <1>4
  <2> QED
    BY <1>3, <1>5, <2>1, <2>2
<1>9. InOrder'
  <2> SUFFICES ASSUME NEW f \in Endpoint
               PROVE  /\ Len(delivered'[f]) <= queued[Other(f)]
                      /\ \A i \in DOMAIN delivered'[f] : delivered'[f][i] = i
    BY <1>3 DEF InOrder
  <2>1. /\ Len(delivered[f]) <= queued[Other(f)]
        /\ \A i \in DOMAIN delivered[f] : delivered[f][i] = i
    BY DEF StreamInv, InOrder
  <2>2. CASE delivered'[f] = delivered[f]
    BY <2>1, <2>2
  <2>3. CASE /\ f = e
             /\ delivered'[e] = Append(delivered[e], d + 1)
             /\ d + 1 <= queued[o]
    <3>1. /\ Len(delivered'[e]) = d + 1
          /\ DOMAIN delivered'[e] = 1 .. d + 1
          /\ \A i \in 1 .. d + 1 :
                delivered'[e][i] = IF i <= d THEN delivered[e][i] ELSE d + 1
      BY <1>4, <2>3
    <3>2. DOMAIN delivered[e] = 1 .. d
      BY <1>4
    <3>3. ASSUME NEW i \in 1 .. d + 1
          PROVE  delivered'[e][i] = i
      <4>1. CASE i \in 1 .. d
        BY <2>1, <2>3, <3>1, <3>2, <4>1
      <4>2. CASE i = d + 1
        BY <1>4, <3>1, <4>2, SMTT(60)
      <4> QED
        BY <1>4, <4>1, <4>2
    <3> QED
      BY <2>3, <3>1, <3>3
  <2> QED
    BY <1>5, <2>2, <2>3
<1>10. BufferIsSuffix'
  <2> SUFFICES ASSUME NEW f \in Endpoint
               PROVE  Released(f) <= Len(delivered'[Other(f)])
    BY <1>3 DEF StreamInv, BufferIsSuffix, Released
  <2>1. Released(f) <= Len(delivered[Other(f)]) /\ Other(f) \in Endpoint
    BY Endpoints DEF StreamInv, BufferIsSuffix
  <2>2. Released(f) \in Int
    BY <1>1, SMTT(60) DEF Released, TypeOK
  <2> QED
    BY <1>6, <2>1, <2>2, SMTT(60)
<1>11. PeerAckIsReleased => PeerAckIsReleased'
  BY <1>3 DEF PeerAckIsReleased, Released
<1>12. ChunksMatch'
  <2>1. ASSUME NEW f \in Endpoint, NEW i \in DOMAIN unpacker'[f]
        PROVE  IsChunkOf(queued[Other(f)], unpacker'[f][i])
    BY <1>2 DEF StreamInv, ChunksMatch
  <2> QED
    BY <1>3, <2>1 DEF StreamInv, ChunksMatch
<1>13. AcksMatch'
  <2> SUFFICES ASSUME NEW f \in Endpoint, NEW p \in net[f]
               PROVE  /\ p.seen <= Len(delivered'[Other(f)])
                      /\ p.ack = p.seen % MaxSequence
    BY <1>3 DEF AcksMatch
  <2>1. /\ p.seen <= Len(delivered[Other(f)])
        /\ p.ack = p.seen % MaxSequence
        /\ Other(f) \in Endpoint
    BY Endpoints DEF StreamInv, AcksMatch
  <2>2. p.seen \in Nat
    BY <1>1 DEF TypeOK, Packet
  <2> QED
    BY <1>6, <2>1, <2>2
<1>14. UnpackerIsFresh'
  <2> SUFFICES ASSUME NEW f \in Endpoint, NEW i \in DOMAIN unpacker'[f], unpacker'[f][i].vital
               PROVE  /\ Len(delivered'[f]) - unpacker'[f][i].msg < MaxSequence - 1
                      /\ \A j \in DOMAIN unpacker'[f] :
                            unpacker'[f][j].vital =>
                               unpacker'[f][j].msg - unpacker'[f][i].msg < MaxSequence - 1
    BY DEF UnpackerIsFresh
  <2>1. PICK i0 \in DOMAIN unpacker[f] : unpacker'[f][i] = unpacker[f][i0]
    BY <1>2
  <2>2. \A j \in DOMAIN unpacker'[f] : \E j0 \in DOMAIN unpacker[f] :
           unpacker'[f][j] = unpacker[f][j0]
    BY <1>2
  <2>3. /\ Len(delivered[f]) - unpacker[f][i0].msg < MaxSequence - 1
        /\ \A j \in DOMAIN unpacker[f] :
              unpacker[f][j].vital =>
                 unpacker[f][j].msg - unpacker[f][i0].msg < MaxSequence - 1
    BY <2>1 DEF StreamInv, UnpackerIsFresh
  <2>4. \A j \in DOMAIN unpacker'[f] : unpacker'[f][j].vital =>
           unpacker'[f][j].msg - unpacker'[f][i].msg < MaxSequence - 1
    BY <2>1, <2>2, <2>3
  <2>5. Len(delivered'[f]) - unpacker[f][i0].msg < MaxSequence - 1
    <3>1. CASE delivered'[f] = delivered[f]
      BY <2>3, <3>1
    <3>2. CASE f = e /\ delivered'[e] = Append(delivered[e], d + 1) /\
               \E k \in DOMAIN unpacker[e] :
                  unpacker[e][k].vital /\ unpacker[e][k].msg = d + 1
      <4>1. Len(delivered'[f]) = d + 1
        BY <1>4, <3>2
      <4>2. (d + 1) - unpacker[f][i0].msg < MaxSequence - 1
        BY <2>3, <3>2
      <4> QED
        BY <4>1, <4>2
    <3> QED
      BY <1>5, <3>1, <3>2
  <2> QED
    BY <2>1, <2>4, <2>5
<1> QED
  BY <1>7, <1>8, <1>9, <1>10, <1>11, <1>12, <1>13, <1>14 DEF StreamInv

-----------------------------------------------------------------------------
(* The theorems. *)

\* Every step of a connection keeps the invariant of the streams, and that
\* m_PeerAck is right if it was.
LEMMA NextInv ==
    ASSUME ~Overflow, StreamInv, PeerAckIsReleased \/ 2 * Lifetime <= MaxSequence,
           [Next]_vars
    PROVE  StreamInv' /\ (PeerAckIsReleased => PeerAckIsReleased')
<1> DEFINE Goal == StreamInv' /\ (PeerAckIsReleased => PeerAckIsReleased')
<1>1. CASE UNCHANGED vars
  <2>1. TypeOK' /\ ChunksMatch' /\ AcksMatch'
    BY <1>1 DEF StreamInv, vars, TypeOK, ChunksMatch, AcksMatch
  <2> QED
    BY <1>1, <2>1, SendingInv DEF vars, TypeOK, ChunksMatch
<1>2. ASSUME NEW e \in Endpoint, QueueVital(e) PROVE Goal
  BY <1>2, QueueVitalInv
<1>3. ASSUME NEW e \in Endpoint, QueuePlain(e) PROVE Goal
  BY <1>3, QueuePlainInv
<1>4. ASSUME NEW e \in Endpoint, Flush(e) PROVE Goal
  BY <1>4, FlushInv
<1>5. ASSUME NEW e \in Endpoint, Timeout(e) PROVE Goal
  BY <1>5, TimeoutInv
<1>6. ASSUME NEW e \in Endpoint, NEW old \in BOOLEAN, NEW idle \in BOOLEAN,
             Update(e, old, idle)
      PROVE  Goal
  BY <1>6, UpdateInv
<1>7. ASSUME NEW e \in Endpoint, NEW p \in net[e], Feed(e, p) PROVE Goal
  BY <1>7, FeedInv
<1>8. ASSUME NEW e \in Endpoint, FetchChunk(e) PROVE Goal
  BY <1>8, FetchChunkInv
<1> HIDE DEF Goal
<1>9. Goal
  BY <1>1, <1>2, <1>3, <1>4, <1>5, <1>6, <1>7, <1>8 DEF Next, Goal
<1> QED
  BY <1>9 DEF Goal

\* The inductive invariant holds for every size of window, buffer and packet.
THEOREM Inductive == ASSUME ~Overflow PROVE Spec => []IInv
<1>1. Init => IInv
  BY InitInv
<1>2. IInv /\ [Next]_vars => IInv'
  BY NextInv DEF IInv
<1> QED
  BY <1>1, <1>2, PTL DEF Spec

\* The variables of a connection keep their types.
THEOREM TypeCorrect == ASSUME ~Overflow PROVE Spec => []TypeOK
<1>1. IInv => TypeOK
  BY DEF IInv, StreamInv
<1> QED
  BY <1>1, Inductive, PTL

(***************************************************************************)
(* An application is handed the chunks of its peer in order, none twice    *)
(* and none left out, whatever the path does to the packets.               *)
(***************************************************************************)
THEOREM DeliveredInOrder == ASSUME ~Overflow PROVE Spec => []InOrder
<1>1. IInv => InOrder
  BY DEF IInv, StreamInv
<1> QED
  BY <1>1, Inductive, PTL

\* What is not delivered yet lies in the part of the stream that is saved.
LEMMA StreamIsSaved == StreamInv => UndeliveredIsSaved
<1> SUFFICES ASSUME StreamInv, NEW e \in Endpoint,
                    NEW k \in Len(delivered[Other(e)]) + 1 .. queued[e]
             PROVE  \E i \in DOMAIN buffer[e] : buffer[e][i].msg = k
  BY DEF UndeliveredIsSaved
<1> DEFINE r == Released(e)
           l == Len(buffer[e])
           q == queued[e]
           d == Len(delivered[Other(e)])
           i == k - r
<1>1. /\ l \in Nat /\ q \in Nat /\ d \in Nat /\ DOMAIN buffer[e] = 1 .. l
  BY Endpoints DEF StreamInv, TypeOK
<1>2. r = q - l
  BY DEF Released
<1>3. r <= d /\ \A j \in DOMAIN buffer[e] : buffer[e][j].msg = r + j
  BY DEF StreamInv, BufferIsSuffix
<1>4. k \in d + 1 .. q
  OBVIOUS
<1> HIDE DEF r, l, q, d
<1>5. i \in 1 .. l /\ r + i = k
  BY <1>1, <1>2, <1>3, <1>4
<1> QED
  BY <1>1, <1>3, <1>5

\* AckChunks never releases a chunk that the peer has not been handed.
THEOREM NothingLost == ASSUME ~Overflow PROVE Spec => []UndeliveredIsSaved
<1>1. IInv => UndeliveredIsSaved
  BY StreamIsSaved DEF IInv
<1> QED
  BY <1>1, Inductive, PTL

\* m_PeerAck says exactly how far the resend buffer has been released.
THEOREM PeerAckMatchesBuffer == ASSUME ~Overflow PROVE Spec => []PeerAckIsReleased
<1>1. IInv => PeerAckIsReleased
  BY DEF IInv
<1> QED
  BY <1>1, Inductive, PTL

-----------------------------------------------------------------------------
(* The connection implements the stream. *)

LEMMA StreamStep == StreamInv /\ [Next]_vars => [Stream!StreamNext]_(Stream!streamVars)
<1> SUFFICES ASSUME StreamInv, [Next]_vars
             PROVE  [Stream!StreamNext]_(Stream!streamVars)
  OBVIOUS
<1> USE DEF Stream!Endpoint, Stream!streamVars
<1>0. \A e \in Endpoint : e \in Stream!Endpoint
  BY DEF Endpoint
<1>2. ASSUME NEW e \in Endpoint, QueueVital(e)
      PROVE  Stream!Put(e)
  BY <1>2 DEF QueueVital, Stream!Put
<1>3. ASSUME NEW e \in Endpoint, QueuePlain(e) \/ Flush(e) \/ Timeout(e)
      PROVE  UNCHANGED <<queued, delivered>>
  BY <1>3 DEF QueuePlain, Flush, Timeout
<1>4. ASSUME NEW e \in Endpoint, NEW old, NEW idle, Update(e, old, idle)
      PROVE  UNCHANGED <<queued, delivered>>
  BY <1>4 DEF Update
<1>5. ASSUME NEW e \in Endpoint, NEW p \in net[e], Feed(e, p)
      PROVE  UNCHANGED <<queued, delivered>>
  BY <1>5 DEF Feed
<1>6. ASSUME NEW e \in Endpoint, FetchChunk(e)
      PROVE  Stream!Get(e) \/ UNCHANGED <<queued, delivered>>
  <2>1. UNCHANGED queued
    BY <1>6 DEF FetchChunk
  <2>2. CASE UNCHANGED <<ack, delivered>>
    BY <2>1, <2>2
  <2>3. CASE /\ delivered' = [delivered EXCEPT ![e] = Append(@, Len(delivered[e]) + 1)]
             /\ Len(delivered[e]) + 1 <= queued[Other(e)]
    <3>1. Len(delivered[e]) < queued[Other(e)]
      BY <2>3, Endpoints DEF StreamInv, TypeOK
    <3>2. Stream!Other(e) = Other(e)
      BY DEF Other, Stream!Other
    <3> QED
      BY <2>1, <2>3, <3>1, <3>2 DEF Stream!Get
  <2> QED
    BY <1>6, <2>2, <2>3, FetchChunkStep
<1>7. CASE UNCHANGED vars
  BY <1>7 DEF vars
<1>8. CASE Next
  <2>1. PICK e \in Endpoint :
           \/ QueueVital(e) \/ QueuePlain(e) \/ Flush(e) \/ Timeout(e)
           \/ \E old, idle \in BOOLEAN : Update(e, old, idle)
           \/ \E p \in net[e] : Feed(e, p)
           \/ FetchChunk(e)
    BY <1>8 DEF Next
  <2>2. Stream!Put(e) \/ Stream!Get(e) \/ UNCHANGED <<queued, delivered>>
    BY <1>2, <1>3, <1>4, <1>5, <1>6, <2>1
  <2>3. Stream!Put(e) \/ Stream!Get(e) => Stream!StreamNext
    BY <1>0 DEF Stream!StreamNext
  <2> QED
    BY <2>2, <2>3
<1> QED
  BY <1>7, <1>8

(***************************************************************************)
(* Two CNetConnections over a path that loses, duplicates and reorders     *)
(* packets are a reliable stream each way.                                 *)
(***************************************************************************)
THEOREM ImplementsStream == ASSUME ~Overflow PROVE Spec => Reliable
<1>1. Init => Stream!StreamInit
  BY DEF Init, Stream!StreamInit, Endpoint, Stream!Endpoint
<1>2. IInv /\ [Next]_vars => [Stream!StreamNext]_(Stream!streamVars)
  BY StreamStep DEF IInv
<1> QED
  BY <1>1, <1>2, Inductive, PTL DEF Spec, Reliable, Stream!StreamSpec

-----------------------------------------------------------------------------
(* A session that moves. *)

LEMMA TakeoverInitInv == TakeoverInit => StreamInv
<1> SUFFICES ASSUME TakeoverInit PROVE StreamInv
  OBVIOUS
<1>1. /\ 0 % MaxSequence = 0 /\ 1 % MaxSequence = 1
      /\ 0 \in Seqs /\ 1 \in Seqs
      /\ BufferCap \in Nat /\ BufferCap >= 1 /\ MaxSequence \in Nat /\ MaxSequence > 2
  <2>1. MaxSequence \in Nat /\ MaxSequence > 2
    BY MaxSequenceType
  <2>2. 0 % MaxSequence = 0 /\ 1 % MaxSequence = 1
    BY <2>1
  <2> QED
    BY <2>1, <2>2, MaxSequenceType DEF Seqs
<1>2. /\ Code \in VitalChunk /\ Code \in Chunk
      /\ Code.msg = 1 /\ Code.seq = 1 /\ Code.vital
      /\ IsChunkOf(1, Code)
  BY <1>1 DEF Code, VitalChunk, Chunk, IsChunkOf
<1> DEFINE first == [ack |-> 0, resend |-> FALSE, chunks |-> <<Code>>, seen |-> 0]
<1>3. /\ first \in Packet
      /\ first.ack = 0 /\ first.seen = 0 /\ first.chunks = <<Code>>
  <2>1. <<Code>> \in Seq(Chunk)
    BY <1>2
  <2> QED
    BY <1>1, <2>1 DEF Packet
<1> HIDE DEF first
<1>4. /\ state = [e \in Endpoint |-> "ONLINE"]
      /\ sequence = [e \in Endpoint |-> IF e = "client" THEN 1 ELSE 0]
      /\ ack = [e \in Endpoint |-> 0]
      /\ peerAck = [e \in Endpoint |-> 0]
      /\ buffer = [e \in Endpoint |-> IF e = "client" THEN <<Code>> ELSE <<>>]
      /\ construct = [e \in Endpoint |-> <<>>]
      /\ resend = [e \in Endpoint |-> FALSE]
      /\ unpacker = [e \in Endpoint |-> <<>>]
      /\ net = [e \in Endpoint |-> IF e = "server" THEN {first} ELSE {}]
      /\ queued = [e \in Endpoint |-> IF e = "client" THEN 1 ELSE 0]
      /\ delivered = [e \in Endpoint |-> <<>>]
  BY DEF TakeoverInit, first
<1>5. \A e \in Endpoint : /\ Len(delivered[e]) = 0 /\ DOMAIN delivered[e] = {}
                          /\ Len(delivered[Other(e)]) = 0
  BY <1>4, Endpoints
<1>6. TypeOK
  <2>1. <<Code>> \in Seq(VitalChunk)
    BY <1>2
  <2>2. buffer \in [Endpoint -> Seq(VitalChunk)]
    BY <1>4, <2>1
  <2>3. net \in [Endpoint -> SUBSET Packet]
    BY <1>3, <1>4
  <2> QED
    BY <1>1, <1>4, <2>2, <2>3 DEF TypeOK
<1>7. CountersMatch
  BY <1>1, <1>4, <1>5 DEF CountersMatch
<1>8. InOrder
  <2> SUFFICES ASSUME NEW e \in Endpoint PROVE 0 <= queued[Other(e)]
    BY <1>5 DEF InOrder
  <2> QED
    BY <1>4, Endpoints
<1>9. BufferIsSuffix
  <2> SUFFICES ASSUME NEW e \in Endpoint
               PROVE  /\ Len(buffer[e]) <= BufferCap
                      /\ Released(e) = 0
                      /\ \A i \in DOMAIN buffer[e] : buffer[e][i].msg = i /\ buffer[e][i].seq = i % MaxSequence
    BY <1>5 DEF BufferIsSuffix
  <2>1. CASE e = "client"
    <3>1. buffer[e] = <<Code>> /\ queued[e] = 1
      BY <1>4, <2>1
    <3> QED
      BY <1>1, <1>2, <3>1 DEF Released
  <2>2. CASE e # "client"
    <3>1. buffer[e] = <<>> /\ queued[e] = 0
      BY <1>4, <2>2
    <3>2. Len(buffer[e]) = 0
      BY <3>1
    <3>3. DOMAIN buffer[e] = {}
      BY <3>1
    <3>4. Released(e) = 0
      <4>1. Released(e) = 0 - 0
        BY <3>1, <3>2, Zenon DEF Released
      <4> QED
        BY <4>1
    <3> QED
      BY <1>1, <3>2, <3>3, <3>4
  <2> QED
    BY <2>1, <2>2
<1>10. \A e \in Endpoint : \A p \in net[e] : p = first /\ e = "server"
  BY <1>4
<1>11. AcksMatch
  BY <1>1, <1>3, <1>5, <1>10 DEF AcksMatch
<1>12. ChunksMatch
  <2>1. ASSUME NEW e \in Endpoint, NEW p \in net[e], NEW i \in DOMAIN p.chunks
        PROVE  IsChunkOf(queued[Other(e)], p.chunks[i])
    <3>1. p.chunks = <<Code>> /\ e = "server"
      BY <1>3, <1>10
    <3>2. p.chunks[i] = Code
      BY <3>1
    <3>3. queued[Other(e)] = 1
      BY <1>4, <3>1 DEF Other, Endpoint
    <3> QED
      BY <1>2, <3>2, <3>3
  <2> QED
    BY <1>4, <2>1 DEF ChunksMatch
<1>13. UnpackerIsFresh
  BY <1>4 DEF UnpackerIsFresh
<1> QED
  BY <1>6, <1>7, <1>8, <1>9, <1>11, <1>12, <1>13 DEF StreamInv

(***************************************************************************)
(* The move: the kept slot holds nothing to send, and m_PeerAck, which no  *)
(* part of StreamInv is about, may be any number.                          *)
(***************************************************************************)
LEMMA SetTimedOutInv ==
    ASSUME StreamInv, Leftovers = {<<>>}, StaleAcks \subseteq Seqs, SetTimedOut
    PROVE  StreamInv'
<1> DEFINE d == Len(delivered["server"])
           saved == buffer["server"]
<1>0. "server" \in Endpoint /\ "client" \in Endpoint /\ Other("server") = "client"
  BY DEF Endpoint, Other
<1>1. TypeOK
  BY DEF StreamInv
<1>2. PICK k \in DOMAIN unpacker["server"] :
         /\ unpacker["server"][k].vital /\ IsNext("server", unpacker["server"][k])
         /\ ack' = [ack EXCEPT !["server"] = unpacker["server"][k].seq]
         /\ delivered' = [delivered EXCEPT !["server"] = Append(@, unpacker["server"][k].msg)]
  BY DEF SetTimedOut
<1>3. /\ unpacker["server"][k].msg = d + 1
      /\ unpacker["server"][k].seq = (d + 1) % MaxSequence
      /\ d + 1 <= queued["client"]
  BY <1>0, <1>2, NextIsNext
<1>4. /\ d \in Nat /\ d + 1 \in Nat /\ (d + 1) % MaxSequence \in Seqs
      /\ delivered \in [Endpoint -> Seq(Nat)] /\ ack \in [Endpoint -> Seqs]
  <2>1. d \in Nat /\ delivered \in [Endpoint -> Seq(Nat)] /\ ack \in [Endpoint -> Seqs]
    BY <1>0, <1>1 DEF TypeOK
  <2>2. d + 1 \in Nat
    BY <2>1
  <2>3. (d + 1) % MaxSequence \in 0 .. MaxSequence - 1
    BY <2>2, DivMod, MaxSequenceType
  <2> QED
    BY <2>1, <2>2, <2>3 DEF Seqs
<1> HIDE DEF d
<1>5. /\ delivered' = [delivered EXCEPT !["server"] = Append(delivered["server"], d + 1)]
      /\ ack' = [ack EXCEPT !["server"] = (d + 1) % MaxSequence]
  BY <1>2, <1>3
<1>6. /\ sequence' = [sequence EXCEPT !["server"] = sequence["server"]]
      /\ buffer' = [buffer EXCEPT !["server"] = Copied(saved)]
      /\ \E a \in StaleAcks : peerAck' = [peerAck EXCEPT !["server"] = a]
      /\ construct' = [construct EXCEPT !["server"] = <<>>]
      /\ resend' = [resend EXCEPT !["server"] = FALSE]
      /\ unpacker' = [unpacker EXCEPT !["server"] = <<>>]
      /\ UNCHANGED <<state, net, queued>>
  BY DEF SetTimedOut, MovedSequence
<1>7. /\ Copied(saved) \in Seq(VitalChunk)
      /\ Len(Copied(saved)) = Len(saved)
      /\ DOMAIN Copied(saved) = DOMAIN saved
      /\ \A i \in DOMAIN saved : /\ Copied(saved)[i].msg = saved[i].msg
                                 /\ Copied(saved)[i].seq = saved[i].seq
  <2>1. saved \in Seq(VitalChunk)
    BY <1>0, <1>1 DEF TypeOK
  <2> HIDE DEF saved
  <2>2. ASSUME NEW c \in VitalChunk
        PROVE  Unowned(c) \in VitalChunk /\ Unowned(c).msg = c.msg /\ Unowned(c).seq = c.seq
    BY DEF Unowned, VitalChunk
  <2>3. Copied(saved) = [i \in DOMAIN saved |-> Unowned(saved[i])]
    BY DEF Copied
  <2>4. Len(saved) \in Nat /\ DOMAIN saved = 1 .. Len(saved)
        /\ \A i \in DOMAIN saved : saved[i] \in VitalChunk
    BY <2>1
  <2>5. \A i \in 1 .. Len(saved) : Unowned(saved[i]) \in VitalChunk
    BY <2>2, <2>4
  <2>6. Copied(saved) = [i \in 1 .. Len(saved) |-> Unowned(saved[i])]
    BY <2>3, <2>4
  <2>7. Copied(saved) \in Seq(VitalChunk) /\ Len(Copied(saved)) = Len(saved)
        /\ DOMAIN Copied(saved) = 1 .. Len(saved)
    BY <2>4, <2>5, <2>6
  <2> QED
    BY <2>2, <2>3, <2>4, <2>7
<1>8. /\ \A e \in Endpoint : Len(buffer'[e]) = Len(buffer[e]) /\ DOMAIN buffer'[e] = DOMAIN buffer[e]
      /\ \A e \in Endpoint : \A i \in DOMAIN buffer[e] :
            buffer'[e][i].msg = buffer[e][i].msg /\ buffer'[e][i].seq = buffer[e][i].seq
      /\ buffer' \in [Endpoint -> Seq(VitalChunk)]
  <2>1. buffer \in [Endpoint -> Seq(VitalChunk)]
    BY <1>1 DEF TypeOK
  <2>2. /\ buffer'["server"] = Copied(saved)
        /\ \A e \in Endpoint : e # "server" => buffer'[e] = buffer[e]
        /\ buffer' \in [Endpoint -> Seq(VitalChunk)]
    BY <1>0, <1>6, <1>7, <2>1
  <2> QED
    BY <1>7, <2>2
<1>9. /\ delivered' \in [Endpoint -> Seq(Nat)]
      /\ ack' \in [Endpoint -> Seqs]
      /\ delivered'["server"] = Append(delivered["server"], d + 1)
      /\ ack'["server"] = (d + 1) % MaxSequence
      /\ \A e \in Endpoint : e # "server" => delivered'[e] = delivered[e] /\ ack'[e] = ack[e]
      /\ Len(delivered'["server"]) = d + 1
  <2>1. Append(delivered["server"], d + 1) \in Seq(Nat)
    BY <1>0, <1>4
  <2>2. Len(Append(delivered["server"], d + 1)) = d + 1
    BY <1>0, <1>4 DEF d
  <2> QED
    BY <1>0, <1>4, <1>5, <2>1, <2>2
<1>10. \A e \in Endpoint : /\ Len(delivered[e]) \in Nat /\ Len(delivered'[e]) \in Nat
                           /\ Len(delivered'[e]) >= Len(delivered[e])
  <2> SUFFICES ASSUME NEW e \in Endpoint
               PROVE  /\ Len(delivered[e]) \in Nat /\ Len(delivered'[e]) \in Nat
                      /\ Len(delivered'[e]) >= Len(delivered[e])
    OBVIOUS
  <2>1. Len(delivered[e]) \in Nat
    BY <1>4
  <2>2. CASE e = "server"
    <3>1. Len(delivered[e]) = d /\ Len(delivered'[e]) = d + 1
      BY <1>9, <2>2 DEF d
    <3> QED
      BY <1>4, <3>1
  <2>3. CASE e # "server"
    BY <1>9, <2>1, <2>3
  <2> QED
    BY <2>2, <2>3
<1>11. TypeOK'
  <2>1. peerAck' \in [Endpoint -> Seqs] /\ sequence' \in [Endpoint -> Seqs]
    BY <1>0, <1>1, <1>6 DEF TypeOK
  <2>2. <<>> \in Seq(Chunk)
    OBVIOUS
  <2>3. construct' \in [Endpoint -> Seq(Chunk)]
    BY <1>1, <1>6, <2>2 DEF TypeOK
  <2>4. unpacker' \in [Endpoint -> Seq(Chunk)]
    BY <1>1, <1>6, <2>2 DEF TypeOK
  <2>5. resend' \in [Endpoint -> BOOLEAN]
    BY <1>1, <1>6 DEF TypeOK
  <2> QED
    BY <1>1, <1>6, <1>8, <1>9, <2>1, <2>3, <2>4, <2>5 DEF TypeOK
<1>12. CountersMatch'
  <2> SUFFICES ASSUME NEW e \in Endpoint
               PROVE  /\ sequence'[e] = queued[e] % MaxSequence
                      /\ ack'[e] = Len(delivered'[e]) % MaxSequence
    BY <1>6 DEF CountersMatch
  <2>1. sequence[e] = queued[e] % MaxSequence /\ ack[e] = Len(delivered[e]) % MaxSequence
    BY DEF StreamInv, CountersMatch
  <2>2. sequence'[e] = sequence[e]
    BY <1>1, <1>6 DEF TypeOK
  <2> QED
    BY <1>9, <2>1, <2>2
<1>13. InOrder'
  <2> SUFFICES ASSUME NEW e \in Endpoint
               PROVE  /\ Len(delivered'[e]) <= queued[Other(e)]
                      /\ \A i \in DOMAIN delivered'[e] : delivered'[e][i] = i
    BY <1>6 DEF InOrder
  <2>1. /\ Len(delivered[e]) <= queued[Other(e)]
        /\ \A i \in DOMAIN delivered[e] : delivered[e][i] = i
    BY DEF StreamInv, InOrder
  <2>2. CASE e # "server"
    BY <1>9, <2>1, <2>2
  <2>3. CASE e = "server"
    <3>1. delivered["server"] \in Seq(Nat) /\ DOMAIN delivered["server"] = 1 .. d
      BY <1>0, <1>4 DEF d
    <3>2. /\ DOMAIN delivered'["server"] = 1 .. d + 1
          /\ \A i \in 1 .. d + 1 : delivered'["server"][i] =
                IF i <= d THEN delivered["server"][i] ELSE d + 1
      BY <1>4, <1>9, <3>1 DEF d
    <3>3. ASSUME NEW i \in 1 .. d + 1
          PROVE  delivered'["server"][i] = i
      <4>1. CASE i \in 1 .. d
        BY <2>1, <2>3, <3>1, <3>2, <4>1
      <4>2. CASE i = d + 1
        BY <1>4, <3>2, <4>2, SMTT(60)
      <4> QED
        BY <1>4, <4>1, <4>2
    <3> QED
      BY <1>0, <1>3, <1>9, <2>3, <3>2, <3>3
  <2> QED
    BY <2>2, <2>3
<1>14. BufferIsSuffix'
  <2> SUFFICES ASSUME NEW e \in Endpoint
               PROVE  /\ Len(buffer'[e]) <= BufferCap
                      /\ Released(e)' >= 0
                      /\ Released(e)' <= Len(delivered'[Other(e)])
                      /\ \A i \in DOMAIN buffer'[e] :
                            /\ buffer'[e][i].msg = Released(e)' + i
                            /\ buffer'[e][i].seq = buffer'[e][i].msg % MaxSequence
    BY DEF BufferIsSuffix
  <2>1. /\ Len(buffer[e]) <= BufferCap
        /\ Released(e) >= 0
        /\ Released(e) <= Len(delivered[Other(e)])
        /\ \A i \in DOMAIN buffer[e] :
              /\ buffer[e][i].msg = Released(e) + i
              /\ buffer[e][i].seq = buffer[e][i].msg % MaxSequence
    BY DEF StreamInv, BufferIsSuffix
  <2>2. Released(e)' = Released(e)
    BY <1>6, <1>8 DEF Released
  <2>3. Released(e) \in Int /\ Other(e) \in Endpoint
    BY <1>1, Endpoints, SMTT(60) DEF Released, TypeOK
  <2>4. Released(e) <= Len(delivered'[Other(e)])
    BY <1>10, <2>1, <2>3
  <2> QED
    BY <1>8, <2>1, <2>2, <2>4
<1>15. ChunksMatch'
  <2>1. ASSUME NEW e \in Endpoint, NEW i \in DOMAIN construct'[e]
        PROVE  IsChunkOf(queued[e], construct'[e][i])
    <3>1. CASE e = "server"
      BY <1>1, <1>6, <3>1 DEF TypeOK
    <3>2. CASE e # "server"
      BY <1>1, <1>6, <3>2 DEF TypeOK, StreamInv, ChunksMatch
    <3> QED
      BY <3>1, <3>2
  <2>2. ASSUME NEW e \in Endpoint, NEW i \in DOMAIN unpacker'[e]
        PROVE  IsChunkOf(queued[Other(e)], unpacker'[e][i])
    <3>1. CASE e = "server"
      BY <1>1, <1>6, <3>1 DEF TypeOK
    <3>2. CASE e # "server"
      BY <1>1, <1>6, <3>2 DEF TypeOK, StreamInv, ChunksMatch
    <3> QED
      BY <3>1, <3>2
  <2> QED
    BY <1>6, <2>1, <2>2 DEF StreamInv, ChunksMatch
<1>16. AcksMatch'
  <2> SUFFICES ASSUME NEW e \in Endpoint, NEW p \in net[e]
               PROVE  /\ p.seen <= Len(delivered'[Other(e)])
                      /\ p.ack = p.seen % MaxSequence
    BY <1>6 DEF AcksMatch
  <2>1. /\ p.seen <= Len(delivered[Other(e)])
        /\ p.ack = p.seen % MaxSequence
        /\ Other(e) \in Endpoint
    BY Endpoints DEF StreamInv, AcksMatch
  <2>2. p.seen \in Nat
    BY <1>1 DEF TypeOK, Packet
  <2> QED
    BY <1>10, <2>1, <2>2
<1>17. UnpackerIsFresh'
  <2> SUFFICES ASSUME NEW e \in Endpoint, NEW i \in DOMAIN unpacker'[e], unpacker'[e][i].vital
               PROVE  /\ Len(delivered'[e]) - unpacker'[e][i].msg < MaxSequence - 1
                      /\ \A j \in DOMAIN unpacker'[e] :
                            unpacker'[e][j].vital =>
                               unpacker'[e][j].msg - unpacker'[e][i].msg < MaxSequence - 1
    BY DEF UnpackerIsFresh
  <2>1. e # "server"
    BY <1>1, <1>6 DEF TypeOK
  <2>2. unpacker'[e] = unpacker[e] /\ delivered'[e] = delivered[e]
    BY <1>1, <1>6, <1>9, <2>1 DEF TypeOK
  <2> QED
    BY <2>2 DEF StreamInv, UnpackerIsFresh
<1> QED
  BY <1>11, <1>12, <1>13, <1>14, <1>15, <1>16, <1>17 DEF StreamInv

(***************************************************************************)
(* The invariant of the streams holds for a session that moves, whatever   *)
(* m_PeerAck the kept slot has, if nothing is left in its m_Construct, no  *)
(* ack gets half a turn of the numbers old on its way and the resend       *)
(* buffer is not overrun.                                                  *)
(***************************************************************************)
THEOREM TakeoverInductive ==
    ASSUME ~Overflow, Leftovers = {<<>>}, StaleAcks \subseteq Seqs,
           2 * Lifetime <= MaxSequence
    PROVE  TakeoverSpec => []StreamInv
<1>1. TakeoverInit => StreamInv
  BY TakeoverInitInv
<1>2. StreamInv /\ [TakeoverNext]_takeoverVars => StreamInv'
  <2> SUFFICES ASSUME StreamInv, [TakeoverNext]_takeoverVars PROVE StreamInv'
    OBVIOUS
  <2>1. CASE SetTimedOut
    BY <2>1, SetTimedOutInv
  <2>2. CASE [Next]_vars
    BY <2>2, NextInv
  <2> QED
    BY <2>1, <2>2 DEF TakeoverNext, takeoverVars
<1> QED
  BY <1>1, <1>2, PTL DEF TakeoverSpec

(***************************************************************************)
(* SetTimedOut loses no place in either stream: each end is handed the     *)
(* chunks of the session in order, none twice and none left out.           *)
(***************************************************************************)
THEOREM MovedInPlace ==
    ASSUME ~Overflow, Leftovers = {<<>>}, StaleAcks \subseteq Seqs,
           2 * Lifetime <= MaxSequence
    PROVE  TakeoverSpec => []InPlace
<1>1. StreamInv => InPlace
  BY DEF StreamInv, InPlace
<1> QED
  BY <1>1, TakeoverInductive, PTL

\* What was lost with m_Construct of the slot that was left is still in the
\* resend buffer of the kept slot, until the client has it.
THEOREM MovedIsSaved ==
    ASSUME ~Overflow, Leftovers = {<<>>}, StaleAcks \subseteq Seqs,
           2 * Lifetime <= MaxSequence
    PROVE  TakeoverSpec => []StillSaved
<1>1. StreamInv => StillSaved
  BY StreamIsSaved DEF StillSaved
<1> QED
  BY <1>1, TakeoverInductive, PTL
=============================================================================
