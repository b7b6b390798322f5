------------------------ MODULE SnapshotSyncProofs ------------------------
(***************************************************************************)
(* The safety of SnapshotSync for any rates, any number of ticks and parts *)
(* and any number of messages in flight: what the client shows, acks and   *)
(* is sent differences to is in its storage, and the storage is sorted.    *)
(***************************************************************************)
EXTENDS SnapshotSync, SequenceTheorems, TLAPS

OptTick == Nat \union {None}

Types == /\ tick \in Nat
         /\ lastAcked \in OptTick
         /\ stored \in Seq(Nat)
         /\ ackTick \in OptTick
         /\ recvTick \in Nat
         /\ received \in 0 .. 3
         /\ shown \in [prev : OptTick, current : OptTick]
         /\ inputs \in Seq(OptTick)
         /\ \A p \in snaps : p.tick \in Nat /\ p.base \in OptTick

\* Nothing stored is newer than what the client puts together, and it is older
\* unless the client has acked it: what is wanted is newer than what is stored.
Newest == \A i \in DOMAIN stored : /\ stored[i] <= recvTick
                                   /\ stored[i] = recvTick => stored[i] <= ackTick

\* The first snapshot is stored before the second one is shown.
Begun == /\ received > 0 => stored # <<>>
         /\ received <= 1 => shown.prev = None /\ shown.current = None

StorageInv == Types /\ Newest /\ Begun /\ Forward /\ ShownIsStored

\* With a snapshot in every second tick, ticks are even and the client acks the
\* snapshot it has.
Even == /\ tick % 2 = 0
        /\ \A p \in snaps : p.tick % 2 = 0

\* The ticks in flight are past, and bases and acks only go up, as long as the
\* inputs keep their order: a base goes before the acks that follow it.
Rising ==
    /\ \A p \in snaps : p.tick < tick
    /\ ordered =>
          /\ received > 0 => ackTick # None
          /\ lastAcked # None => lastAcked \in ToSet(stored)
          /\ lastAcked <= ackTick
          /\ \A i \in DOMAIN inputs : /\ inputs[i] \in ToSet(stored)
                                      /\ lastAcked <= inputs[i] /\ inputs[i] <= ackTick
          /\ \A i, j \in DOMAIN inputs : i < j => inputs[i] <= inputs[j]
          /\ \A p \in snaps : p.base <= lastAcked
          /\ \A p, q \in snaps : p.tick <= q.tick /\ q.base # None => p.base <= q.base

IInv == StorageInv /\ Even /\ AckedIsStored /\ Rising /\ BaseIsStored

-----------------------------------------------------------------------------
(* Purging. *)

\* The least of up to three numbers is one of them.
LEMMA LeastExists ==
    ASSUME NEW a \in Int, NEW S, S \subseteq Int, NEW b \in Int, NEW c \in Int,
           S \in {{a}, {a, b}, {a, c}, {a, b, c}}
    PROVE  Min(S) \in Int /\ \A y \in S : Min(S) <= y
<1>1. \E x \in S : \A y \in S : x <= y
  <2>1. CASE S = {a} \/ S = {a, b} \/ S = {a, c}
    BY <2>1
  <2>2. CASE S = {a, b, c}
    BY <2>2
  <2> QED
    BY <2>1, <2>2
<1> QED
  BY <1>1 DEF Min

\* Purging goes no further than the base and what is shown.
LEMMA PurgeTickBounds ==
    ASSUME Types, NEW p, p.base \in OptTick
    PROVE  /\ PurgeTick(p) \in Int
           /\ PurgeTick(p) <= p.base
           /\ \A t \in {shown.prev, shown.current} : t # None => PurgeTick(p) <= t
           /\ shown.prev = None /\ shown.current = None => PurgeTick(p) = p.base
<1> DEFINE S == {p.base} \union ({shown.prev, shown.current} \ {None})
<1>1. p.base \in Int /\ shown.prev \in Int /\ shown.current \in Int
  BY DEF Types, OptTick, None
<1>2. S \in {{p.base}, {p.base, shown.prev}, {p.base, shown.current},
             {p.base, shown.prev, shown.current}}
  OBVIOUS
<1>3. S \subseteq Int
  BY <1>1
<1>4. Min(S) \in Int /\ \A y \in S : Min(S) <= y
  BY <1>1, <1>2, <1>3, LeastExists
<1>5. shown.prev = None /\ shown.current = None => Min(S) = p.base
  <2> SUFFICES ASSUME shown.prev = None /\ shown.current = None
               PROVE  Min(S) = p.base
    OBVIOUS
  <2>1. S = {p.base}
    OBVIOUS
  <2> QED
    BY <2>1, <1>1 DEF Min
<1> QED
  BY <1>4, <1>5 DEF PurgeTick

GoesUp(s) == \A i, j \in DOMAIN s : i < j => s[i] < s[j]

\* The storage s is old without its first n snapshots, with new behind it.
IsShifted(s, old, n, new) ==
    LET m == Len(old) - n
    IN /\ m \in Nat
       /\ s \in Seq(Nat)
       /\ Len(s) = m + 1
       /\ DOMAIN s = 1 .. m + 1
       /\ \A i \in 1 .. m : s[i] = old[n + i]
       /\ s[m + 1] = new

LEMMA Shifted ==
    ASSUME NEW old \in Seq(Nat), NEW n \in 0 .. Len(old), NEW new \in Nat
    PROVE  IsShifted(Append(SubSeq(old, n + 1, Len(old)), new), old, n, new)
<1>1. /\ SubSeq(old, n + 1, Len(old)) \in Seq(Nat)
      /\ Len(SubSeq(old, n + 1, Len(old))) = Len(old) - n
      /\ \A i \in 1 .. Len(old) - n : SubSeq(old, n + 1, Len(old))[i] = old[n + i]
  <2>1. \A i \in n + 1 .. Len(old) : old[i] \in Nat
    OBVIOUS
  <2>2. n + 1 \in Int /\ Len(old) \in Int
    OBVIOUS
  <2> DEFINE r == SubSeq(old, n + 1, Len(old))
  <2>3. /\ r \in Seq(Nat)
        /\ Len(r) = IF n + 1 <= Len(old) THEN Len(old) - (n + 1) + 1 ELSE 0
        /\ \A i \in 1 .. Len(old) - (n + 1) + 1 : r[i] = old[n + 1 + i - 1]
    BY <2>1, <2>2, SubSeqProperties
  <2> HIDE DEF r
  <2>4. /\ r \in Seq(Nat)
        /\ Len(r) = Len(old) - n
        /\ \A i \in 1 .. Len(old) - n : r[i] = old[n + i]
    BY <2>2, <2>3
  <2> QED
    BY <2>4 DEF r
<1> QED
  BY <1>1 DEF IsShifted

\* Storing a snapshot behind what the purging leaves keeps the storage sorted and
\* everything from the tick on.
LEMMA Store ==
    ASSUME NEW old \in Seq(Nat), GoesUp(old),
           NEW n \in 0 .. Len(old), NEW t \in Int,
           \A i \in 1 .. n : old[i] < t,
           NEW new \in Nat, \A i \in DOMAIN old : old[i] < new,
           NEW s, IsShifted(s, old, n, new)
    PROVE  /\ s # <<>>
           /\ Last(s) = new
           /\ n < Len(old) => Head(s) < new
           /\ {Head(s), Last(s)} \subseteq ToSet(s)
           /\ \A i \in DOMAIN s : s[i] <= new
           /\ GoesUp(s)
           /\ \A u \in ToSet(old) : u >= t => u \in ToSet(s)
<1> DEFINE m == Len(old) - n
<1>0. /\ m \in Nat
      /\ s \in Seq(Nat)
      /\ Len(s) = m + 1
      /\ DOMAIN s = 1 .. m + 1
      /\ \A i \in 1 .. m : s[i] = old[n + i]
      /\ s[m + 1] = new
  BY DEF IsShifted
<1>1. DOMAIN old = 1 .. Len(old) /\ \A i \in 1 .. Len(old) : old[i] \in Nat
  OBVIOUS
<1>2. \A i, j \in DOMAIN old : i < j => old[i] < old[j]
  BY DEF GoesUp
<1>3. \A i \in 1 .. m : n + i \in DOMAIN old /\ old[n + i] \in Nat
  BY <1>0, <1>1
<1>4. \A u \in ToSet(old) : u >= t => u \in ToSet(s)
  <2> SUFFICES ASSUME NEW k \in 1 .. Len(old), old[k] >= t
               PROVE  old[k] \in ToSet(s)
    BY <1>1 DEF ToSet
  <2>1. k > n
    BY <1>0, <1>1
  <2>2. k - n \in DOMAIN s /\ s[k - n] = old[k]
    BY <1>0, <2>1, SMTT(60)
  <2> QED
    BY <1>0, <2>2 DEF ToSet
<1>5. \A i \in DOMAIN s : s[i] <= new
  <2>1. s[m + 1] <= new
    BY <1>0
  <2>2. ASSUME NEW i \in 1 .. m PROVE s[i] <= new
    <3>1. s[i] = old[n + i] /\ n + i \in DOMAIN old /\ old[n + i] \in Nat
      BY <1>0, <1>3
    <3>2. old[n + i] < new
      BY <1>0, <3>1
    <3> QED
      BY <1>0, <3>1, <3>2
  <2>3. \A i \in DOMAIN s : i = m + 1 \/ i \in 1 .. m
    BY <1>0, SMTT(60)
  <2> QED
    BY <2>1, <2>2, <2>3
<1>6. \A i, j \in DOMAIN s : i < j => s[i] < s[j]
  <2> SUFFICES ASSUME NEW i \in DOMAIN s, NEW j \in DOMAIN s, i < j
               PROVE  s[i] < s[j]
    BY <1>0
  <2>0. i \in 1 .. m /\ j \in 1 .. m + 1
    BY <1>0
  <2>a. j = m + 1 \/ j \in 1 .. m
    BY <1>0, <2>0, SMTT(60)
  <2>1. s[i] = old[n + i] /\ n + i \in DOMAIN old
    BY <1>0, <1>3, <2>0
  <2>2. CASE j = m + 1
    BY <1>0, <2>1, <2>2
  <2>3. CASE j \in 1 .. m
    <3>1. s[j] = old[n + j] /\ n + j \in DOMAIN old
      BY <1>0, <1>3, <2>3
    <3>2. n + i < n + j
      BY <1>0, <2>0, <2>3
    <3>3. old[n + i] < old[n + j]
      BY <1>0, <1>2, <2>1, <3>1, <3>2
    <3> QED
      BY <1>0, <2>1, <3>1, <3>3
  <2> QED
    BY <2>a, <2>2, <2>3
<1>7. Last(s) = new /\ Last(s) \in ToSet(s)
  BY <1>0 DEF Last, ToSet
<1>8. Head(s) = s[1] /\ Head(s) \in ToSet(s)
  <2>1. 1 \in DOMAIN s
    BY <1>0
  <2>2. Head(s) = s[1]
    BY <1>0
  <2> QED
    BY <1>0, <2>1, <2>2 DEF ToSet
<1>9. n < Len(old) => Head(s) < new
  <2>1. n < Len(old) => 1 \in DOMAIN s /\ m + 1 \in DOMAIN s /\ 1 < m + 1
    BY <1>0
  <2> QED
    BY <1>0, <2>1, <1>6, <1>8
<1>10. s # <<>>
  <2>1. Len(<<>>) = 0
    BY <1>0
  <2> QED
    BY <1>0, <2>1
<1> QED
  BY <1>4, <1>5, <1>6, <1>7, <1>8, <1>9, <1>10 DEF GoesUp

-----------------------------------------------------------------------------
(* What is shown and stored. *)

\* What is sent joins the parts in flight, some of which may be lost.
LEMMA SentParts ==
    ASSUME DoSnapshot
    PROVE  \A p \in snaps' : p \in snaps \/ (p.tick = tick /\ p.base = Base)
<1>1. CASE SendSnapshot
  <2>1. PICK of \in 1 .. MaxParts :
          snaps' \in AfterSend({[tick |-> tick, base |-> Base, number |-> n, of |-> of]
                                   : n \in 1 .. of})
    BY <1>1 DEF SendSnapshot
  <2> DEFINE ps == {[tick |-> tick, base |-> Base, number |-> n, of |-> of] : n \in 1 .. of}
  <2>2. snaps' \subseteq snaps \union ps
    BY <2>1 DEF AfterSend
  <2>3. \A p \in ps : p.tick = tick /\ p.base = Base
    OBVIOUS
  <2> QED
    BY <2>2, <2>3
<1>2. CASE ~SendSnapshot
  BY <1>2 DEF DoSnapshot
<1> QED
  BY <1>1, <1>2

\* An input that is sent joins those in flight, of which the oldest may be lost.
LEMMA SentInputs ==
    ASSUME inputs \in Seq(OptTick), NEW a \in OptTick
    PROVE  /\ Sent(a) \in Seq(OptTick)
           /\ \A i \in DOMAIN Sent(a) :
                 \/ i = Len(Sent(a)) /\ Sent(a)[i] = a
                 \/ i \in DOMAIN inputs /\ Sent(a)[i] = inputs[i]
                 \/ i + 1 \in DOMAIN inputs /\ Sent(a)[i] = inputs[i + 1] /\ Sent(a) # inputs
<1>1. InputCap \in Nat \ {0}
  BY RateAssumption
<1>2. CASE Sent(a) = inputs
  BY <1>2
<1>3. CASE Sent(a) = Append(inputs, a)
  BY <1>3
<1>4. CASE Sent(a) = Append(Tail(inputs), a) /\ inputs # <<>> /\ Sent(a) # inputs
  <2>1. /\ Tail(inputs) \in Seq(OptTick)
        /\ Len(Tail(inputs)) = Len(inputs) - 1
        /\ \A i \in 1 .. Len(inputs) - 1 : Tail(inputs)[i] = inputs[i + 1]
    BY <1>4
  <2> QED
    BY <1>4, <2>1
<1>5. Len(inputs) >= InputCap => inputs # <<>>
  <2>1. Len(<<>>) = 0
    OBVIOUS
  <2> QED
    BY <1>1, <2>1
<1> QED
  BY <1>2, <1>3, <1>4, <1>5 DEF Sent

\* Sending what is no less than any input in flight leaves them in order.
LEMMA SentSorted ==
    ASSUME inputs \in Seq(OptTick), NEW a \in OptTick,
           \A i \in DOMAIN inputs : inputs[i] <= a,
           \A i, j \in DOMAIN inputs : i < j => inputs[i] <= inputs[j]
    PROVE  \A i, j \in DOMAIN Sent(a) : i < j => Sent(a)[i] <= Sent(a)[j]
<1>1. a \in Int /\ InputCap \in Nat \ {0} /\ DOMAIN inputs = 1 .. Len(inputs)
  BY RateAssumption DEF OptTick, None
<1>2. CASE Sent(a) = inputs
  BY <1>2
<1>3. CASE Sent(a) = Append(inputs, a)
  <2>1. /\ DOMAIN Sent(a) = 1 .. Len(inputs) + 1
        /\ \A i \in 1 .. Len(inputs) : Sent(a)[i] = inputs[i]
        /\ Sent(a)[Len(inputs) + 1] = a
    BY <1>3
  <2> SUFFICES ASSUME NEW i \in DOMAIN Sent(a), NEW j \in DOMAIN Sent(a), i < j
               PROVE  Sent(a)[i] <= Sent(a)[j]
    OBVIOUS
  <2>2. i \in DOMAIN inputs /\ Sent(a)[i] = inputs[i]
    BY <1>1, <2>1
  <2>3. CASE j = Len(inputs) + 1
    BY <2>1, <2>2, <2>3
  <2>4. CASE j # Len(inputs) + 1
    BY <1>1, <2>1, <2>2, <2>4
  <2> QED
    BY <2>3, <2>4
<1>4. CASE Sent(a) = Append(Tail(inputs), a) /\ inputs # <<>>
  <2>0. /\ Tail(inputs) \in Seq(OptTick)
        /\ Len(Tail(inputs)) = Len(inputs) - 1 /\ Len(inputs) \in Nat \ {0}
        /\ \A i \in 1 .. Len(inputs) - 1 : Tail(inputs)[i] = inputs[i + 1]
    BY <1>4
  <2>1. /\ DOMAIN Sent(a) = 1 .. Len(inputs)
        /\ \A i \in 1 .. Len(inputs) - 1 : Sent(a)[i] = inputs[i + 1]
        /\ Sent(a)[Len(inputs)] = a
    BY <1>4, <2>0
  <2> SUFFICES ASSUME NEW i \in DOMAIN Sent(a), NEW j \in DOMAIN Sent(a), i < j
               PROVE  Sent(a)[i] <= Sent(a)[j]
    OBVIOUS
  <2>2. i + 1 \in DOMAIN inputs /\ Sent(a)[i] = inputs[i + 1]
    BY <1>1, <2>0, <2>1
  <2>3. CASE j = Len(inputs)
    BY <2>1, <2>2, <2>3
  <2>4. CASE j # Len(inputs)
    <3>1. j + 1 \in DOMAIN inputs /\ Sent(a)[j] = inputs[j + 1] /\ i + 1 < j + 1
      BY <1>1, <2>0, <2>1, <2>4
    <3> QED
      BY <2>2, <3>1
  <2> QED
    BY <2>3, <2>4
<1>5. Len(inputs) >= InputCap => inputs # <<>>
  <2>1. Len(<<>>) = 0
    OBVIOUS
  <2> QED
    BY <1>1, <2>1
<1> QED
  BY <1>2, <1>3, <1>4, <1>5 DEF Sent

\* What is wanted is newer than what is stored.
LEMMA WantedIsNew ==
    ASSUME Types, Newest, NEW p, p.tick \in Nat, IsWanted(p)
    PROVE  \A i \in DOMAIN stored : stored[i] < p.tick
<1>1. \A i \in DOMAIN stored : stored[i] \in Nat
  BY DEF Types
<1>2. ackTick \in Int /\ recvTick \in Nat
  BY DEF Types, OptTick, None
<1> QED
  BY <1>1, <1>2 DEF Newest, IsWanted

\* The client takes the last part of a snapshot.
LEMMA SnapshotStored ==
    ASSUME StorageInv, NEW p \in snaps, RecvSnapshot(p)
    PROVE  /\ StorageInv'
           /\ p.tick \in ToSet(stored')
           /\ \A u \in ToSet(stored) : u >= p.base => u \in ToSet(stored')
           /\ p.base = None => \A u \in ToSet(stored) : u \in ToSet(stored')
           /\ stored' # <<>>
<1>1. p.tick \in Nat /\ p.base \in OptTick /\ p.base \in Int
  BY DEF StorageInv, Types, OptTick, None
<1>2. \A i \in DOMAIN stored : stored[i] < p.tick
  BY <1>1, WantedIsNew DEF RecvSnapshot, StorageInv
<1>3. /\ PurgeTick(p) \in Int
      /\ PurgeTick(p) <= p.base
      /\ \A t \in {shown.prev, shown.current} : t # None => PurgeTick(p) <= t
      /\ shown.prev = None /\ shown.current = None => PurgeTick(p) = p.base
  BY <1>1, PurgeTickBounds DEF StorageInv
<1>4. PICK n \in 0 .. Len(stored) :
        /\ IsPurged(n, PurgeTick(p))
        /\ stored' = Append(SubSeq(stored, n + 1, Len(stored)), p.tick)
  BY DEF RecvSnapshot
<1>5. stored \in Seq(Nat) /\ \A i, j \in DOMAIN stored : i < j => stored[i] < stored[j]
  BY DEF StorageInv, Types, Forward
<1>6. IsShifted(stored', stored, n, p.tick)
  BY <1>1, <1>4, <1>5, Shifted
<1>7. \A i \in 1 .. n : stored[i] < PurgeTick(p)
  BY <1>4 DEF IsPurged
<1>a. GoesUp(stored)
  BY <1>5 DEF GoesUp
<1>b. stored' \in Seq(Nat)
  BY <1>6 DEF IsShifted
<1>8. /\ stored' # <<>>
      /\ Last(stored') = p.tick
      /\ n < Len(stored) => Head(stored') < p.tick
      /\ {Head(stored'), Last(stored')} \subseteq ToSet(stored')
      /\ \A i \in DOMAIN stored' : stored'[i] <= p.tick
      /\ GoesUp(stored')
      /\ \A u \in ToSet(stored) : u >= PurgeTick(p) => u \in ToSet(stored')
  <2>1. /\ stored \in Seq(Nat) /\ GoesUp(stored)
        /\ n \in 0 .. Len(stored) /\ PurgeTick(p) \in Int
        /\ \A i \in 1 .. n : stored[i] < PurgeTick(p)
        /\ p.tick \in Nat /\ \A i \in DOMAIN stored : stored[i] < p.tick
        /\ IsShifted(stored', stored, n, p.tick)
    BY <1>1, <1>2, <1>3, <1>5, <1>6, <1>7, <1>a
  <2> QED
    BY <2>1, Store
<1>9. \A u \in ToSet(stored) : u >= p.base => u \in ToSet(stored')
  <2>1. \A u \in ToSet(stored) : u \in Nat
    BY <1>5 DEF ToSet
  <2> QED
    BY <1>1, <1>3, <1>8, <2>1
<1>10. p.base = None => \A u \in ToSet(stored) : u \in ToSet(stored')
  <2>1. \A u \in ToSet(stored) : u \in Nat
    BY <1>5 DEF ToSet
  <2> QED
    BY <1>9, <2>1 DEF None
<1>11. AckOf(p.tick) \in Nat /\ AckOf(p.tick) >= p.tick
  BY <1>1 DEF AckOf
<1>12. received' \in 1 .. 3 /\ (received' <= 1 => received = 0 /\ shown' = shown)
  BY DEF RecvSnapshot, StorageInv, Types
<1>13. Types'
  <2>1. \A u \in ToSet(stored') : u \in Nat
    BY <1>b DEF ToSet
  <2>2. shown' \in [prev : OptTick, current : OptTick]
    BY <2>1, <1>8 DEF RecvSnapshot, StorageInv, Types, OptTick
  <2> QED
    BY <1>1, <1>b, <1>11, <1>12, <2>2, SMTT(60)
       DEF RecvSnapshot, StorageInv, Types, OptTick, serverVars
<1>14. Newest'
  BY <1>1, <1>8, <1>11, <1>b DEF RecvSnapshot, Newest
<1>15. received = 1 => n < Len(stored)
  <2> SUFFICES ASSUME received = 1, n = Len(stored)
               PROVE  FALSE
    BY <1>5
  <2>1. PurgeTick(p) = p.base /\ stored # <<>>
    BY <1>3 DEF StorageInv, Begun
  <2>2. 1 \in DOMAIN stored /\ stored[1] \in Nat /\ stored[1] < p.base
    BY <1>5, <1>7, <2>1
  <2>3. p.base \in ToSet(stored)
    BY <2>2, <1>1 DEF RecvSnapshot, IsBroken, None
  <2>4. PICK k \in 1 .. Len(stored) : stored[k] = p.base
    BY <2>3, <1>5 DEF ToSet
  <2> QED
    BY <2>4, <2>1, <1>7, <1>1
<1>16. Begun'
  BY <1>8, <1>12, SMTT(60) DEF RecvSnapshot, StorageInv, Begun, Types
<1>17. ShownIsStored'
  <2>1. CASE received = 1
    BY <1>8, <2>1 DEF RecvSnapshot, ShownIsStored
  <2>2. CASE received # 1 /\ shown.current # None
    <3>1. {shown.prev, shown.current} \subseteq ToSet(stored)
      BY <2>2 DEF StorageInv, ShownIsStored
    <3>2. shown.prev # None /\ shown.current # None /\ {shown.prev, shown.current} \subseteq Nat
      BY <3>1, <1>5, SMTT(60) DEF ToSet, None
    <3>3. \A t \in {shown.prev, shown.current} : t >= PurgeTick(p)
      BY <1>3, <3>2
    <3> QED
      BY <2>2, <3>1, <3>3, <1>8 DEF RecvSnapshot, ShownIsStored
  <2> QED
    BY <2>1, <2>2 DEF RecvSnapshot, ShownIsStored
<1>18. Forward'
  <2>1. shown'.current # None => shown'.prev < shown'.current
    BY <1>8, <1>15 DEF RecvSnapshot, StorageInv, Forward
  <2> QED
    BY <1>8, <2>1 DEF Forward, GoesUp
<1> QED
  BY <1>8, <1>9, <1>10, <1>13, <1>14, <1>16, <1>17, <1>18 DEF StorageInv

\* Initially nothing is stored.
LEMMA StorageInit == Init => StorageInv
<1> SUFFICES ASSUME Init PROVE StorageInv
  OBVIOUS
<1>1. /\ stored \in Seq(Nat) /\ DOMAIN stored = {}
      /\ inputs \in Seq(OptTick)
  BY DEF Init
<1>2. Period \in Nat
  BY DEF Period
<1> QED
  BY <1>1, <1>2
     DEF Init, StorageInv, Types, OptTick, None, Newest, Begun, Forward, ShownIsStored

\* The server's steps leave the client alone.
LEMMA StorageServer ==
    ASSUME StorageInv, DoSnapshot \/ \E i \in DOMAIN inputs : RecvInput(i)
    PROVE  StorageInv'
<1>1. CASE DoSnapshot
  <2>1. tick' \in Nat
    BY <1>1 DEF DoSnapshot, Period, StorageInv, Types
  <2>2. Base \in OptTick
    BY DEF Base, StorageInv, Types, OptTick
  <2>3. \A p \in snaps' : p.tick \in Nat /\ p.base \in OptTick
    BY <1>1, <2>2, SentParts DEF StorageInv, Types
  <2> QED
    BY <1>1, <2>1, <2>3
       DEF DoSnapshot, clientVars, StorageInv, Types, Newest, Begun, Forward, ShownIsStored
<1>2. ASSUME NEW i \in DOMAIN inputs, RecvInput(i)
      PROVE  StorageInv'
  <2>1. inputs \in Seq(OptTick) /\ i \in 1 .. Len(inputs)
    BY DEF StorageInv, Types
  <2>2. SubSeq(inputs, i + 1, Len(inputs)) \in Seq(OptTick) /\ inputs[i] \in OptTick
    BY <2>1
  <2> QED
    BY <1>2, <2>1, <2>2
       DEF RecvInput, clientVars, StorageInv, Types, Newest, Begun, Forward, ShownIsStored
<1> QED
  BY <1>1, <1>2

\* The client's steps other than storing a snapshot.
LEMMA StorageClient ==
    ASSUME StorageInv,
           \/ SendInput
           \/ \E p \in snaps : RecvPart(p) \/ RecvBroken(p)
           \/ ShowNext
    PROVE  StorageInv'
<1>1. CASE SendInput
  <2>1. Sent(ackTick) \in Seq(OptTick)
    BY SentInputs DEF StorageInv, Types
  <2> QED
    BY <1>1, <2>1 DEF SendInput, serverVars, clientVars, StorageInv, Types, Newest,
                      Begun, Forward, ShownIsStored
<1>2. ASSUME NEW p \in snaps, RecvPart(p) \/ RecvBroken(p)
      PROVE  StorageInv'
  <2>1. p.tick \in Nat
    BY DEF StorageInv, Types
  <2>2. \A i \in DOMAIN stored : stored[i] < p.tick
    BY <1>2, <2>1, WantedIsNew DEF RecvPart, RecvBroken, StorageInv
  <2>3. \A i \in DOMAIN stored : stored[i] \in Nat
    BY DEF StorageInv, Types
  <2>4. Newest'
    BY <1>2, <2>1, <2>2, <2>3 DEF RecvPart, RecvBroken, Newest
  <2>5. AckOf(p.tick) \in OptTick /\ None \in OptTick
    BY <2>1 DEF AckOf, OptTick
  <2>6. Types'
    <3>1. inputs' \in Seq(OptTick)
      BY <1>2, <2>5, SentInputs DEF RecvPart, RecvBroken, StorageInv, Types
    <3> QED
      BY <1>2, <2>1, <2>5, <3>1 DEF RecvPart, RecvBroken, serverVars, StorageInv, Types
  <2> QED
    BY <1>2, <2>4, <2>6
       DEF RecvPart, RecvBroken, StorageInv, Begun, Forward, ShownIsStored
<1>3. CASE ShowNext
  <2>1. PICK i \in 1 .. Len(stored) - 1 :
          /\ stored[i] = shown.current
          /\ shown' = [prev |-> shown.current, current |-> stored[i + 1]]
    BY <1>3 DEF ShowNext
  <2>2. stored \in Seq(Nat) /\ stored' = stored
    BY <1>3 DEF ShowNext, StorageInv, Types
  <2>3. /\ i \in DOMAIN stored /\ i + 1 \in DOMAIN stored /\ i < i + 1
        /\ stored[i] \in Nat /\ stored[i + 1] \in Nat
    BY <2>2
  <2>4. stored[i] < stored[i + 1]
    BY <2>3 DEF StorageInv, Forward
  <2>5. shown' = [prev |-> stored[i], current |-> stored[i + 1]]
    BY <2>1
  <2>6. Forward'
    BY <2>2, <2>4, <2>5 DEF StorageInv, Forward
  <2>7. ShownIsStored'
    BY <2>2, <2>3, <2>5 DEF ShownIsStored, ToSet
  <2>8. Types'
    BY <1>3, <2>2, <2>3, <2>5 DEF ShowNext, serverVars, StorageInv, Types, OptTick
  <2>9. Newest' /\ Begun'
    BY <1>3, <2>2 DEF ShowNext, StorageInv, Types, Newest, Begun
  <2> QED
    BY <2>6, <2>7, <2>8, <2>9 DEF StorageInv
<1> QED
  BY <1>1, <1>2, <1>3

LEMMA StorageStep ==
    ASSUME StorageInv, [Next]_vars
    PROVE  StorageInv'
<1>1. CASE UNCHANGED vars
  BY <1>1 DEF vars, StorageInv, Types, Newest, Begun, Forward, ShownIsStored
<1>2. CASE Next
  BY <1>2, StorageServer, StorageClient, SnapshotStored DEF Next
<1> QED
  BY <1>1, <1>2

\* What is shown, and what the next snapshot to show follows, is in the storage,
\* with any rates and any loss, repetition and reordering.
THEOREM ShownStaysStored == Spec => []ShownIsStored
<1>1. StorageInv => ShownIsStored
  BY DEF StorageInv
<1> QED
  BY <1>1, StorageInit, StorageStep, PTL DEF Spec

\* The storage stays sorted and the game is shown forward.
THEOREM AlwaysForward == Spec => []Forward
<1>1. StorageInv => Forward
  BY DEF StorageInv
<1> QED
  BY <1>1, StorageInit, StorageStep, PTL DEF Spec

-----------------------------------------------------------------------------
(* What is acked and what differences are to, with a snapshot every second tick. *)

\* The invariant has the types that its order needs.
LEMMA RisingTypes ==
    ASSUME StorageInv
    PROVE  /\ tick \in Nat /\ lastAcked \in Int /\ ackTick \in Int /\ recvTick \in Nat
           /\ None <= lastAcked
           /\ inputs \in Seq(OptTick) /\ DOMAIN inputs = 1 .. Len(inputs)
           /\ \A i \in DOMAIN inputs : inputs[i] \in OptTick /\ inputs[i] \in Int
           /\ \A u \in ToSet(stored) : u \in Nat
           /\ \A p \in snaps : p.tick \in Nat /\ p.base \in Int /\ p.base \in OptTick
<1>1. Types
  BY DEF StorageInv
<1>2. inputs \in Seq(OptTick) /\ stored \in Seq(Nat)
  BY <1>1 DEF Types
<1>3. \A i \in DOMAIN inputs : inputs[i] \in OptTick
  BY <1>2
<1>4. \A u \in ToSet(stored) : u \in Nat
  BY <1>2 DEF ToSet
<1>5. \A x \in OptTick : x \in Int /\ None <= x
  BY DEF OptTick, None
<1> QED
  BY <1>1, <1>2, <1>3, <1>4, <1>5 DEF Types

LEMMA OrderInit ==
    ASSUME ~HighBandwidth, Init
    PROVE  IInv
<1>1. StorageInv
  BY StorageInit
<1>2. DOMAIN inputs = {}
  BY DEF Init
<1> QED
  BY <1>1, <1>2 DEF Init, IInv, Even, AckedIsStored, Rising, BaseIsStored, Period, None

LEMMA OrderDoSnapshot ==
    ASSUME ~HighBandwidth, IInv, DoSnapshot
    PROVE  IInv'
<1>1. StorageInv'
  BY StorageStep DEF IInv, Next
<1>2. /\ tick \in Nat /\ lastAcked \in Int /\ None <= lastAcked
      /\ \A p \in snaps : p.tick \in Nat /\ p.base \in Int
  BY RisingTypes DEF IInv
<1>3. tick' = tick + 2 /\ UNCHANGED <<lastAcked, clientVars, inputs, ordered>>
  BY DEF DoSnapshot, Period
<1>4. Base = None \/ Base = lastAcked
  BY DEF Base
<1>5. \A p \in snaps' : p \in snaps \/ (p.tick = tick /\ p.base = Base)
  BY SentParts
<1>6. Even'
  BY <1>2, <1>3, <1>5 DEF IInv, Even
<1>7. AckedIsStored'
  BY <1>3 DEF IInv, AckedIsStored, clientVars
<1>8. Rising'
  <2>1. \A p \in snaps' : p.tick < tick'
    BY <1>2, <1>3, <1>5 DEF IInv, Rising
  <2>2. ordered => \A p \in snaps' : p.base <= lastAcked
    BY <1>2, <1>4, <1>5 DEF IInv, Rising
  <2>3. ASSUME ordered, NEW p \in snaps', NEW q \in snaps', p.tick <= q.tick, q.base # None
        PROVE  p.base <= q.base
    <3>1. CASE q \notin snaps
      <4>1. q.base = lastAcked
        BY <3>1, <2>3, <1>4, <1>5
      <4> QED
        BY <4>1, <2>2, <2>3
    <3>2. CASE q \in snaps
      <4>1. p \in snaps
        BY <3>2, <2>3, <1>2, <1>5 DEF IInv, Rising
      <4> QED
        BY <3>2, <4>1, <2>3 DEF IInv, Rising
    <3> QED
      BY <3>1, <3>2
  <2> QED
    BY <1>3, <2>1, <2>2, <2>3 DEF IInv, Rising, clientVars
<1>9. BaseIsStored'
  <2>1. ASSUME ordered, NEW p \in snaps', IsWanted(p)
        PROVE  ~IsBroken(p)
    <3>1. CASE p \in snaps
      BY <3>1, <2>1 DEF IInv, BaseIsStored
    <3>2. CASE p.base = Base
      BY <3>2, <1>4, <2>1 DEF IInv, Rising, IsBroken
    <3> QED
      BY <3>1, <3>2, <1>5
  <2> QED
    BY <1>3, <2>1 DEF BaseIsStored, IsWanted, IsBroken, clientVars
<1> QED
  BY <1>1, <1>6, <1>7, <1>8, <1>9 DEF IInv

LEMMA OrderRecvInput ==
    ASSUME ~HighBandwidth, IInv, NEW k \in DOMAIN inputs, RecvInput(k)
    PROVE  IInv'
<1>1. StorageInv'
  BY StorageStep DEF IInv, Next
<1>2. /\ lastAcked \in Int /\ ackTick \in Int
      /\ inputs \in Seq(OptTick) /\ DOMAIN inputs = 1 .. Len(inputs)
      /\ \A i \in DOMAIN inputs : inputs[i] \in Int
      /\ \A p \in snaps : p.base \in Int
  BY RisingTypes DEF IInv
<1>3. lastAcked' = inputs[k] /\ UNCHANGED <<tick, clientVars, snaps, ordered>>
  BY DEF RecvInput
<1>4. Even' /\ AckedIsStored' /\ BaseIsStored'
  BY <1>3 DEF IInv, Even, AckedIsStored, BaseIsStored, IsWanted, IsBroken, clientVars
<1>5. Rising'
  <2> SUFFICES ASSUME ordered PROVE Rising'
    BY <1>3 DEF IInv, Rising, clientVars
  <2>1. inputs' = SubSeq(inputs, k + 1, Len(inputs))
    BY DEF RecvInput
  <2>2. \A i \in DOMAIN inputs' : k + i \in DOMAIN inputs /\ inputs'[i] = inputs[k + i]
    BY <1>2, <2>1
  <2>3. DOMAIN inputs' \subseteq Nat \ {0} /\ k \in Nat
    BY <1>2, <2>1
  <2>4. \A i \in DOMAIN inputs' : /\ inputs'[i] \in ToSet(stored)
                                  /\ lastAcked' <= inputs'[i] /\ inputs'[i] <= ackTick
    BY <1>3, <2>2, <2>3 DEF IInv, Rising
  <2>5. ASSUME NEW i \in DOMAIN inputs', NEW j \in DOMAIN inputs', i < j
        PROVE  inputs'[i] <= inputs'[j]
    <3>1. k + i < k + j
      BY <2>3, <2>5
    <3> QED
      BY <2>2, <3>1 DEF IInv, Rising
  <2>6. /\ lastAcked' \in ToSet(stored)
        /\ lastAcked' <= ackTick /\ lastAcked <= lastAcked'
    BY <1>3 DEF IInv, Rising
  <2>7. \A p \in snaps : p.base <= lastAcked'
    BY <1>2, <1>3, <2>6 DEF IInv, Rising
  <2> QED
    BY <1>3, <2>4, <2>5, <2>6, <2>7 DEF IInv, Rising, clientVars
<1> QED
  BY <1>1, <1>4, <1>5 DEF IInv

LEMMA OrderSendInput ==
    ASSUME ~HighBandwidth, IInv, SendInput
    PROVE  IInv'
<1>1. StorageInv'
  BY StorageStep DEF IInv, Next
<1>2. /\ lastAcked \in Int /\ ackTick \in Int
      /\ inputs \in Seq(OptTick) /\ DOMAIN inputs = 1 .. Len(inputs)
      /\ \A i \in DOMAIN inputs : inputs[i] \in Int
  BY RisingTypes DEF IInv
<1>3. /\ received >= 3 /\ inputs' = Sent(ackTick)
      /\ UNCHANGED <<serverVars, clientVars, snaps, ordered>>
  BY DEF SendInput
<1>4. Even' /\ AckedIsStored' /\ BaseIsStored'
  BY <1>3 DEF IInv, Even, AckedIsStored, BaseIsStored, IsWanted, IsBroken, clientVars,
              serverVars
<1>5. Rising'
  <2> SUFFICES ASSUME ordered PROVE Rising'
    BY <1>3 DEF IInv, Rising, clientVars, serverVars
  <2>1. ackTick \in OptTick /\ received \in Nat
    BY DEF IInv, StorageInv, Types
  <2>2. ackTick \in ToSet(stored)
    BY <1>3, <2>1 DEF IInv, Rising, AckedIsStored
  <2>3. \A i \in DOMAIN inputs' :
           \/ i = Len(inputs') /\ inputs'[i] = ackTick
           \/ i \in DOMAIN inputs /\ inputs'[i] = inputs[i]
           \/ i + 1 \in DOMAIN inputs /\ inputs'[i] = inputs[i + 1] /\ inputs' # inputs
    BY <1>2, <1>3, <2>1, SentInputs
  <2>4. \A i \in DOMAIN inputs' : /\ inputs'[i] \in ToSet(stored)
                                  /\ lastAcked <= inputs'[i] /\ inputs'[i] <= ackTick
    BY <1>2, <2>2, <2>3 DEF IInv, Rising
  <2>5. \A i, j \in DOMAIN inputs' : i < j => inputs'[i] <= inputs'[j]
    <3>1. \A i \in DOMAIN inputs : inputs[i] <= ackTick
      BY DEF IInv, Rising
    <3>2. \A i, j \in DOMAIN inputs : i < j => inputs[i] <= inputs[j]
      BY DEF IInv, Rising
    <3> QED
      BY <1>2, <1>3, <2>1, <3>1, <3>2, SentSorted
  <2> QED
    BY <1>3, <2>4, <2>5 DEF IInv, Rising, clientVars, serverVars
<1> QED
  BY <1>1, <1>4, <1>5 DEF IInv

\* The path is not in order, or nothing that is wanted is broken.
LEMMA OrderRecvPart ==
    ASSUME ~HighBandwidth, IInv, NEW p \in snaps, RecvPart(p) \/ RecvBroken(p)
    PROVE  IInv'
<1>1. StorageInv'
  BY StorageStep DEF IInv, Next
<1>2. /\ recvTick \in Nat /\ ackTick \in Int
      /\ \A q \in snaps : q.tick \in Nat
  BY RisingTypes DEF IInv
<1>3. IsWanted(p) /\ recvTick' = p.tick /\ UNCHANGED <<serverVars, stored, received, snaps, ordered>>
  BY DEF RecvPart, RecvBroken
<1>4. CASE RecvPart(p)
  <2>1. UNCHANGED <<ackTick, inputs>>
    BY <1>4 DEF RecvPart
  <2>2. Even' /\ AckedIsStored' /\ Rising'
    BY <1>3, <2>1 DEF IInv, Even, AckedIsStored, Rising, serverVars
  <2>3. \A q \in snaps : IsWanted(q)' => IsWanted(q)
    BY <1>2, <1>3, <2>1 DEF IsWanted
  <2>4. BaseIsStored'
    BY <1>3, <2>3 DEF IInv, BaseIsStored, IsBroken
  <2> QED
    BY <1>1, <2>2, <2>4 DEF IInv
<1>5. CASE RecvBroken(p)
  <2>1. ~ordered /\ ackTick' = None
    BY <1>5 DEF RecvBroken, IInv, BaseIsStored
  <2>2. Even' /\ AckedIsStored' /\ Rising' /\ BaseIsStored'
    BY <1>3, <2>1 DEF IInv, Even, AckedIsStored, Rising, BaseIsStored, serverVars
  <2> QED
    BY <1>1, <2>2 DEF IInv
<1> QED
  BY <1>4, <1>5

\* Storing a snapshot keeps what the acks in flight and the newer parts are about.
LEMMA OrderRecvSnapshot ==
    ASSUME ~HighBandwidth, IInv, NEW p \in snaps, RecvSnapshot(p)
    PROVE  IInv'
<1>1. /\ StorageInv'
      /\ p.tick \in ToSet(stored')
      /\ \A u \in ToSet(stored) : u >= p.base => u \in ToSet(stored')
      /\ p.base = None => \A u \in ToSet(stored) : u \in ToSet(stored')
  BY SnapshotStored DEF IInv
<1>2. /\ recvTick \in Nat /\ ackTick \in Int /\ lastAcked \in Int
      /\ \A i \in DOMAIN inputs : inputs[i] \in Int
      /\ \A u \in ToSet(stored) : u \in Nat
      /\ \A q \in snaps : q.tick \in Nat /\ q.base \in Int
  BY RisingTypes DEF IInv
<1>3. /\ IsWanted(p) /\ recvTick' = p.tick
      /\ UNCHANGED <<serverVars, snaps, inputs, ordered>>
  BY DEF RecvSnapshot
<1>4. ackTick' = p.tick
  <2>1. p.tick % 2 = 0
    BY DEF IInv, Even
  <2> QED
    BY <1>2, <2>1 DEF RecvSnapshot, AckOf
<1>5. ackTick <= p.tick /\ p.tick # None
  BY <1>2, <1>3 DEF IsWanted, None
<1>6. Even' /\ AckedIsStored'
  BY <1>1, <1>3, <1>4 DEF IInv, Even, AckedIsStored, serverVars
<1>7. Rising'
  <2> SUFFICES ASSUME ordered PROVE Rising'
    BY <1>3 DEF IInv, Rising, serverVars
  <2>1. p.base <= lastAcked
    BY DEF IInv, Rising
  <2>2. lastAcked # None => lastAcked \in ToSet(stored')
    BY <1>1, <1>2, <2>1 DEF IInv, Rising
  <2>3. \A i \in DOMAIN inputs : /\ inputs[i] \in ToSet(stored')
                                 /\ lastAcked <= inputs[i] /\ inputs[i] <= p.tick
    <3> SUFFICES ASSUME NEW i \in DOMAIN inputs
                 PROVE  /\ inputs[i] \in ToSet(stored')
                        /\ lastAcked <= inputs[i] /\ inputs[i] <= p.tick
      OBVIOUS
    <3>1. /\ inputs[i] \in ToSet(stored)
          /\ lastAcked <= inputs[i] /\ inputs[i] <= ackTick
      BY DEF IInv, Rising
    <3> QED
      BY <1>1, <1>2, <1>5, <2>1, <3>1
  <2>4. lastAcked <= p.tick
    <3>1. lastAcked <= ackTick
      BY DEF IInv, Rising
    <3> QED
      BY <1>2, <1>5, <3>1
  <2> QED
    BY <1>3, <1>4, <1>5, <2>2, <2>3, <2>4 DEF IInv, Rising, serverVars
<1>8. BaseIsStored'
  <2> SUFFICES ASSUME ordered, NEW q \in snaps, IsWanted(q)', q.base # None
               PROVE  q.base \in ToSet(stored')
    BY <1>3 DEF BaseIsStored, IsBroken
  <2>1. p.tick <= q.tick /\ IsWanted(q)
    BY <1>2, <1>3, <1>4 DEF IsWanted
  <2>2. q.base \in ToSet(stored)
    BY <2>1 DEF IInv, BaseIsStored, IsBroken
  <2>3. p.base <= q.base
    BY <2>1 DEF IInv, Rising
  <2> QED
    BY <1>1, <1>2, <2>2, <2>3
<1> QED
  BY <1>1, <1>6, <1>7, <1>8 DEF IInv

LEMMA OrderRest ==
    ASSUME ~HighBandwidth, IInv, ShowNext \/ UNCHANGED vars
    PROVE  IInv'
<1>1. StorageInv'
  BY StorageStep DEF IInv, Next
<1>2. UNCHANGED <<serverVars, stored, ackTick, recvTick, received, snaps, inputs, ordered>>
  <2>1. CASE ShowNext
    BY <2>1 DEF ShowNext
  <2>2. CASE UNCHANGED vars
    BY <2>2 DEF vars, serverVars
  <2> QED
    BY <2>1, <2>2
<1> QED
  BY <1>1, <1>2
     DEF IInv, Even, AckedIsStored, Rising, BaseIsStored, IsWanted, IsBroken, serverVars

LEMMA OrderStep ==
    ASSUME ~HighBandwidth, IInv, [Next]_vars
    PROVE  IInv'
<1>1. CASE UNCHANGED vars
  BY <1>1, OrderRest
<1>2. CASE Next
  BY <1>2, OrderDoSnapshot, OrderRecvInput, OrderSendInput, OrderRecvPart,
     OrderRecvSnapshot, OrderRest DEF Next
<1> QED
  BY <1>1, <1>2

\* With a snapshot in every second tick, what the client acks it has stored.
THEOREM AckedStaysStored ==
    ASSUME ~HighBandwidth
    PROVE  Spec => []AckedIsStored
<1>1. Init => IInv
  BY OrderInit
<1>2. IInv /\ [Next]_vars => IInv'
  BY OrderStep
<1>3. IInv => AckedIsStored
  BY DEF IInv
<1> QED
  BY <1>1, <1>2, <1>3, PTL DEF Spec

\* With a snapshot in every second tick and inputs that keep their order, the client
\* never resyncs: it has the base of every snapshot it wants.
THEOREM BaseStaysStored ==
    ASSUME ~HighBandwidth
    PROVE  Spec => []BaseIsStored
<1>1. Init => IInv
  BY OrderInit
<1>2. IInv /\ [Next]_vars => IInv'
  BY OrderStep
<1>3. IInv => BaseIsStored
  BY DEF IInv
<1> QED
  BY <1>1, <1>2, <1>3, PTL DEF Spec
=============================================================================
