-------------------------- MODULE AsyncFileProofs --------------------------
(***************************************************************************)
(* The safety of AsyncFile for any writers, lengths of lines and sizes of  *)
(* the buffers: the file is a log of whole lines, and when aio_wait        *)
(* returns it has what was accepted before.                                *)
(*                                                                         *)
(* The circular buffer is reasoned about as constants, a function b of n   *)
(* places with a read and a write position, so that the same lemmas serve  *)
(* for the buffer before a step and after it.                              *)
(***************************************************************************)
EXTENDS AsyncFile, FiniteSetTheorems, SequenceTheorems, TLAPS

(* The circular buffer *)

LenOf(n, r, w) == IF w >= r THEN w - r ELSE n + w - r

Stretch(b, from, to) == [k \in 1..(to - from) |-> b[from + k - 1]]
ContentsOf(b, n, r, w) == IF r <= w THEN Stretch(b, r, w)
                                   ELSE Stretch(b, r, n) \o Stretch(b, 0, w)

\* The place of the k-th byte after r.
Place(n, r, k) == IF r + k - 1 < n THEN r + k - 1 ELSE r + k - 1 - n

IsNear(q, a, n) == q = IF a < 0 THEN a + n ELSE IF a < n THEN a ELSE a - n

LEMMA ModNear ==
    ASSUME NEW n \in Nat \ {0}, NEW a \in Int, -n <= a, a < 2 * n
    PROVE  IsNear(a % n, a, n)
<1> USE DEF IsNear
<1>1. CASE a < 0
  BY <1>1, SMTT(30)
<1>2. CASE 0 <= a /\ a < n
  BY <1>2, SMTT(30)
<1>3. CASE n <= a
  BY <1>3, SMTT(30)
<1> QED
  BY <1>1, <1>2, <1>3

\* A buffer of n bytes, and a sequence of bytes.
IsBuffer(b, n, S) == n \in Nat \ {0} /\ b \in [0..(n - 1) -> S]
Lists(s, S, m, b, from) == /\ s \in Seq(S) /\ Len(s) = m
                           /\ \A k \in 1..m : s[k] = b[from + k - 1]

LEMMA StretchIsSeq ==
    ASSUME NEW S, NEW n, NEW b, IsBuffer(b, n, S),
           NEW from \in Nat, NEW to \in Nat, from <= to, to <= n
    PROVE  Lists(Stretch(b, from, to), S, to - from, b, from)
<1> USE DEF IsBuffer, Lists
<1> DEFINE m == to - from
<1>1. m \in Nat
  OBVIOUS
<1>2. \A k \in 1..m : b[from + k - 1] \in S
  <2> SUFFICES ASSUME NEW k \in 1..m PROVE b[from + k - 1] \in S
    OBVIOUS
  <2>1. from + k - 1 \in 0..(n - 1)
    OBVIOUS
  <2> QED
    BY <2>1
<1> HIDE DEF m
<1>3. Stretch(b, from, to) = [k \in 1..m |-> b[from + k - 1]]
  BY DEF Stretch, m
<1>4. [k \in 1..m |-> b[from + k - 1]] \in Seq(S)
  BY <1>1, <1>2, IsASeq
<1>5. Len([k \in 1..m |-> b[from + k - 1]]) = m
  BY <1>1
<1> QED
  BY <1>3, <1>4, <1>5 DEF m

\* s is what buffer b holds between r and w.
Holds(s, S, b, n, r, w) ==
    /\ s \in Seq(S)
    /\ LenOf(n, r, w) \in 0..(n - 1)
    /\ Len(s) = LenOf(n, r, w)
    /\ \A k \in 1..LenOf(n, r, w) :
          Place(n, r, k) \in 0..(n - 1) /\ s[k] = b[Place(n, r, k)]

LEMMA ContentsAt ==
    ASSUME NEW S, NEW n, NEW b, IsBuffer(b, n, S),
           NEW r \in 0..(n - 1), NEW w \in 0..(n - 1)
    PROVE  Holds(ContentsOf(b, n, r, w), S, b, n, r, w)
<1> USE DEF Holds
<1>0. n \in Nat \ {0}
  BY DEF IsBuffer
<1> USE <1>0
<1>1. CASE r <= w
  <2>1. /\ Stretch(b, r, w) \in Seq(S)
        /\ Len(Stretch(b, r, w)) = w - r
        /\ \A k \in 1..(w - r) : Stretch(b, r, w)[k] = b[r + k - 1]
    <3>1. r \in Nat /\ w \in Nat /\ r <= w /\ w <= n
      BY <1>0, <1>1
    <3>2. Lists(Stretch(b, r, w), S, w - r, b, r)
      BY <3>1, StretchIsSeq
    <3> QED
      BY <3>2 DEF Lists
  <2>2. LenOf(n, r, w) = w - r
    BY <1>1 DEF LenOf
  <2>3. ContentsOf(b, n, r, w) = Stretch(b, r, w)
    BY <1>1 DEF ContentsOf
  <2>4. \A k \in 1..(w - r) : Place(n, r, k) = r + k - 1 /\ r + k - 1 \in 0..(n - 1)
    BY <1>1 DEF Place
  <2> QED
    BY <1>1, <2>1, <2>2, <2>3, <2>4
<1>2. CASE ~(r <= w)
  <2> DEFINE s == Stretch(b, r, n)
             t == Stretch(b, 0, w)
  <2>1. /\ s \in Seq(S)
        /\ Len(s) = n - r
        /\ \A k \in 1..(n - r) : s[k] = b[r + k - 1]
    <3>1. r \in Nat /\ n \in Nat /\ r <= n /\ n <= n
      BY <1>0
    <3>2. Lists(s, S, n - r, b, r)
      BY <3>1, StretchIsSeq
    <3> QED
      BY <3>2 DEF Lists
  <2>2. /\ t \in Seq(S)
        /\ Len(t) = w
        /\ \A k \in 1..w : t[k] = b[k - 1]
    <3>1. 0 \in Nat /\ w \in Nat /\ 0 <= w /\ w <= n
      BY <1>0
    <3>2. Lists(t, S, w - 0, b, 0)
      BY <3>1, StretchIsSeq
    <3> QED
      BY <3>2 DEF Lists
  <2>3. ContentsOf(b, n, r, w) = s \o t
    BY <1>2 DEF ContentsOf
  <2>4. LenOf(n, r, w) = n + w - r
    BY <1>2 DEF LenOf
  <2> HIDE DEF s, t
  <2>5. /\ s \o t \in Seq(S)
        /\ Len(s \o t) = (n - r) + w
        /\ \A k \in 1..((n - r) + w) : (s \o t)[k] = IF k <= n - r THEN s[k] ELSE t[k - (n - r)]
    <3>1. s \in Seq(S) /\ t \in Seq(S)
      BY <2>1, <2>2
    <3>2. /\ s \o t \in Seq(S)
          /\ Len(s \o t) = Len(s) + Len(t)
          /\ \A k \in 1..(Len(s) + Len(t)) :
                (s \o t)[k] = IF k <= Len(s) THEN s[k] ELSE t[k - Len(s)]
      BY <3>1, ConcatProperties
    <3> QED
      BY <2>1, <2>2, <3>2
  <2>6. ASSUME NEW k \in 1..(n + w - r)
        PROVE  /\ Place(n, r, k) \in 0..(n - 1)
               /\ (s \o t)[k] = b[Place(n, r, k)]
    <3>1. CASE k <= n - r
      <4>1. Place(n, r, k) = r + k - 1
        BY <3>1 DEF Place
      <4>2. (s \o t)[k] = s[k] /\ k \in 1..(n - r)
        BY <2>5, <3>1, SMTT(60)
      <4> QED
        BY <4>1, <4>2, <2>1, SMTT(60)
    <3>2. CASE ~(k <= n - r)
      <4>1. Place(n, r, k) = (k - (n - r)) - 1
        BY <3>2 DEF Place
      <4>2. (s \o t)[k] = t[k - (n - r)] /\ k - (n - r) \in 1..w
        BY <2>5, <3>2
      <4> QED
        BY <4>1, <4>2, <2>2
    <3> QED
      BY <3>1, <3>2
  <2>7. LenOf(n, r, w) \in 0..(n - 1)
    BY <1>2, <2>4
  <2> QED
    BY <2>3, <2>4, <2>5, <2>6, <2>7, SMTT(60)
<1> QED
  BY <1>1, <1>2

\* Reading c bytes leaves the rest.
ReadOn(b, n, r, w, c, q) ==
    /\ q \in 0..(n - 1)
    /\ LenOf(n, q, w) = LenOf(n, r, w) - c
    /\ ContentsOf(b, n, q, w) = SubSeq(ContentsOf(b, n, r, w), c + 1, LenOf(n, r, w))

LEMMA Reading ==
    ASSUME NEW S, NEW n \in Nat \ {0}, NEW b, IsBuffer(b, n, S),
           NEW r \in 0..(n - 1), NEW w \in 0..(n - 1),
           NEW c \in 0..LenOf(n, r, w)
    PROVE  ReadOn(b, n, r, w, c, (r + c) % n)
<1> DEFINE q == (r + c) % n
<1>1. LenOf(n, r, w) \in 0..(n - 1)
  BY DEF LenOf
<1>2. q = IF r + c < n THEN r + c ELSE r + c - n
  <2> DEFINE a == r + c
  <2>1. a \in Int /\ -n <= a /\ a < 2 * n /\ ~(a < 0)
    BY <1>1
  <2> HIDE DEF a
  <2>2. IsNear(a % n, a, n)
    BY <2>1, ModNear
  <2> QED
    BY <2>1, <2>2 DEF a, IsNear
<1> HIDE DEF q
<1>3. q \in 0..(n - 1)
  BY <1>1, <1>2
<1>4. LenOf(n, q, w) = LenOf(n, r, w) - c
  BY <1>1, <1>2 DEF LenOf
<1>5. \A k \in 1..LenOf(n, q, w) : Place(n, q, k) = Place(n, r, k + c)
  BY <1>1, <1>2, <1>4 DEF Place
<1> DEFINE s == ContentsOf(b, n, r, w)
           t == ContentsOf(b, n, q, w)
           l == LenOf(n, r, w)
<1>6. /\ s \in Seq(S) /\ Len(s) = l
      /\ \A k \in 1..l : s[k] = b[Place(n, r, k)]
  <2>1. Holds(s, S, b, n, r, w)
    BY ContentsAt
  <2> QED
    BY <2>1 DEF Holds
<1>7. /\ t \in Seq(S) /\ Len(t) = l - c
      /\ \A k \in 1..(l - c) : t[k] = b[Place(n, q, k)]
  <2>1. Holds(t, S, b, n, q, w)
    BY <1>3, ContentsAt
  <2> QED
    BY <1>4, <2>1 DEF Holds
<1>8. \A k \in 1..(l - c) : Place(n, q, k) = Place(n, r, k + c)
  BY <1>4, <1>5
<1> HIDE DEF s, t, l
<1>9. l \in Nat /\ c \in 0..l
  BY <1>1 DEF l
<1>10. /\ SubSeq(s, c + 1, l) \in Seq(S)
       /\ Len(SubSeq(s, c + 1, l)) = l - c
       /\ \A k \in 1..(l - c) : SubSeq(s, c + 1, l)[k] = s[k + c]
  <2>1. \A i \in (c + 1)..l : s[i] \in S
    BY <1>6, <1>9
  <2>2. /\ SubSeq(s, c + 1, l) \in Seq(S)
        /\ Len(SubSeq(s, c + 1, l)) = IF c + 1 <= l THEN l - (c + 1) + 1 ELSE 0
        /\ \A i \in 1..(l - (c + 1) + 1) : SubSeq(s, c + 1, l)[i] = s[(c + 1) + i - 1]
    BY <1>9, <2>1, SubSeqProperties
  <2> QED
    BY <1>9, <2>2
<1>11. \A k \in 1..(l - c) : t[k] = SubSeq(s, c + 1, l)[k]
  <2> SUFFICES ASSUME NEW k \in 1..(l - c) PROVE t[k] = SubSeq(s, c + 1, l)[k]
    OBVIOUS
  <2>1. k + c \in 1..l
    BY <1>9
  <2>2. s[k + c] = b[Place(n, r, k + c)]
    BY <1>6, <2>1
  <2> QED
    BY <1>7, <1>8, <1>10, <2>2
<1>12. t = SubSeq(s, c + 1, l)
  BY <1>7, <1>9, <1>10, <1>11, SeqEqual
<1> QED
  BY <1>3, <1>4, <1>12 DEF q, s, t, l, ReadOn

\* What aio_write_unlocked stores, one piece after the contents.
Stored(b, n, w, piece) ==
  [i \in 0..(n - 1) |-> LET k == (i - w) % n IN
                        IF k < Len(piece) THEN piece[k + 1] ELSE b[i]]

Stores(b, n, r, w, piece, S, v) ==
  LET c == Stored(b, n, w, piece) IN
  /\ IsBuffer(c, n, S)
  /\ v \in 0..(n - 1)
  /\ LenOf(n, r, v) = LenOf(n, r, w) + Len(piece)
  /\ ContentsOf(c, n, r, v) = ContentsOf(b, n, r, w) \o piece

LEMMA Writing ==
    ASSUME NEW S, NEW n \in Nat \ {0}, NEW b, IsBuffer(b, n, S),
           NEW r \in 0..(n - 1), NEW w \in 0..(n - 1),
           NEW piece \in Seq(S), Len(piece) < n - LenOf(n, r, w)
    PROVE  Stores(b, n, r, w, piece, S, (w + Len(piece)) % n)
<1> DEFINE m == Len(piece)
           v == (w + m) % n
           c == Stored(b, n, w, piece)
           l == LenOf(n, r, w)
<1>1. l \in 0..(n - 1) /\ m \in Nat /\ m < n - l
  BY DEF LenOf
<1>2. \A j \in 1..m : piece[j] \in S
  OBVIOUS
<1> HIDE DEF m, c
<1> DEFINE a == w + m
<1>3. v = IF a < n THEN a ELSE a - n
  <2>1. a \in Int /\ -n <= a /\ a < 2 * n /\ ~(a < 0)
    BY <1>1
  <2>2. v = a % n
    OBVIOUS
  <2> HIDE DEF a, v
  <2>3. IsNear(v, a, n)
    BY <2>1, <2>2, ModNear
  <2> QED
    BY <2>1, <2>3 DEF IsNear
<1> HIDE DEF v
<1>4. v \in 0..(n - 1)
  BY <1>1, <1>3
<1>5. LenOf(n, r, v) = l + m
  BY <1>1, <1>3 DEF LenOf
<1>6. ASSUME NEW i \in 0..(n - 1)
      PROVE  LET k == IF i < w THEN i - w + n ELSE i - w IN
             /\ k \in Nat
             /\ c[i] = IF k < m THEN piece[k + 1] ELSE b[i]
  <2> DEFINE k == IF i < w THEN i - w + n ELSE i - w
  <2>1. (i - w) % n = k
    <3> DEFINE e == i - w
    <3>1. e \in Int /\ -n <= e /\ e < 2 * n /\ e < n
      OBVIOUS
    <3>2. k = IF e < 0 THEN e + n ELSE e
      OBVIOUS
    <3> HIDE DEF e, k
    <3>3. IsNear(e % n, e, n)
      BY <3>1, ModNear
    <3> QED
      BY <3>1, <3>2, <3>3 DEF e, IsNear
  <2> HIDE DEF k
  <2>2. c[i] = IF k < m THEN piece[k + 1] ELSE b[i]
    BY <2>1 DEF c, m, Stored
  <2>3. k \in Nat
    BY DEF k
  <2> QED
    BY <2>2, <2>3 DEF k
<1>7. IsBuffer(c, n, S)
  <2>1. \A i \in 0..(n - 1) : c[i] \in S
    BY <1>1, <1>2, <1>6, SMTT(60) DEF IsBuffer
  <2>2. c = [i \in 0..(n - 1) |-> c[i]]
    BY DEF c, Stored
  <2> QED
    BY <2>1, <2>2 DEF IsBuffer
<1>8. ASSUME NEW k \in 1..l
      PROVE  c[Place(n, r, k)] = b[Place(n, r, k)]
  <2> DEFINE i == Place(n, r, k)
             j == IF i < w THEN i - w + n ELSE i - w
  <2>1. i \in 0..(n - 1) /\ j >= m
    BY <1>1 DEF Place, l, LenOf
  <2> HIDE DEF i
  <2> QED
    BY <1>1, <1>6, <2>1, SMTT(60) DEF i
<1>9. ASSUME NEW k \in 1..m
      PROVE  c[Place(n, r, l + k)] = piece[k]
  <2> DEFINE i == Place(n, r, l + k)
             j == IF i < w THEN i - w + n ELSE i - w
  <2>1. i \in 0..(n - 1) /\ j = k - 1
    BY <1>1 DEF Place, l, LenOf
  <2> HIDE DEF i
  <2>2. c[i] = IF j < m THEN piece[j + 1] ELSE b[i]
    BY <1>6, <2>1
  <2> HIDE DEF j
  <2> QED
    BY <1>1, <2>1, <2>2, SMTT(60) DEF i
<1> DEFINE s == ContentsOf(b, n, r, w)
           t == ContentsOf(c, n, r, v)
<1>10. /\ s \in Seq(S) /\ Len(s) = l
       /\ \A k \in 1..l : s[k] = b[Place(n, r, k)]
  <2>1. Holds(s, S, b, n, r, w)
    BY ContentsAt
  <2> QED
    BY <2>1 DEF Holds
<1>11. /\ t \in Seq(S) /\ Len(t) = l + m
       /\ \A k \in 1..(l + m) : t[k] = c[Place(n, r, k)]
  <2>1. Holds(t, S, c, n, r, v)
    BY <1>4, <1>7, ContentsAt
  <2> QED
    BY <1>5, <2>1 DEF Holds
<1> HIDE DEF s, t, l
<1>12. /\ s \o piece \in Seq(S)
       /\ Len(s \o piece) = l + m
       /\ \A k \in 1..(l + m) : (s \o piece)[k] = IF k <= l THEN s[k] ELSE piece[k - l]
  BY <1>10, ConcatProperties, ZenonT(60) DEF m
<1>13. \A k \in 1..(l + m) : t[k] = (s \o piece)[k]
  <2> SUFFICES ASSUME NEW k \in 1..(l + m) PROVE t[k] = (s \o piece)[k]
    OBVIOUS
  <2>1. CASE k <= l
    <3>1. k \in 1..l
      BY <2>1, <1>1
    <3>2. c[Place(n, r, k)] = b[Place(n, r, k)]
      BY <3>1, <1>8
    <3>3. s[k] = b[Place(n, r, k)]
      BY <3>1, <1>10
    <3>4. t[k] = c[Place(n, r, k)]
      BY <1>11
    <3>5. (s \o piece)[k] = s[k]
      BY <2>1, <1>12
    <3> QED
      BY <3>2, <3>3, <3>4, <3>5
  <2>2. CASE ~(k <= l)
    <3> DEFINE j == k - l
    <3>1. j \in 1..m /\ l + j = k
      BY <2>2, <1>1
    <3>2. c[Place(n, r, l + j)] = piece[j]
      BY <3>1, <1>9
    <3> QED
      BY <2>2, <3>1, <3>2, <1>11, <1>12
  <2> QED
    BY <2>1, <2>2
<1>14. t = s \o piece
  BY <1>11, <1>12, <1>13, SeqEqual
<1> QED
  BY <1>4, <1>5, <1>7, <1>14 DEF s, t, c, v, l, m, Stores

\* A larger buffer starts with the contents.
Enlarged(grown, next, g) == [i \in 0..(next - 1) |-> IF i < Len(grown) THEN grown[i + 1] ELSE g]

Enlarges(grown, next, g, S) ==
  LET c == Enlarged(grown, next, g) IN
  /\ IsBuffer(c, next, S)
  /\ LenOf(next, 0, Len(grown)) = Len(grown)
  /\ ContentsOf(c, next, 0, Len(grown)) = grown

LEMMA Growing ==
    ASSUME NEW S, NEW g \in S, NEW grown \in Seq(S), NEW next \in Nat, next > Len(grown)
    PROVE  Enlarges(grown, next, g, S)
<1> DEFINE b == Enlarged(grown, next, g)
           l == Len(grown)
<1>1. l \in Nat /\ l < next /\ next \in Nat \ {0}
  OBVIOUS
<1>2. \A j \in 1..l : grown[j] \in S
  OBVIOUS
<1>3. \A i \in 0..(next - 1) : b[i] = IF i < l THEN grown[i + 1] ELSE g
  BY DEF Enlarged
<1>4. b = [i \in 0..(next - 1) |-> b[i]]
  BY DEF Enlarged
<1> HIDE DEF b, l
<1>5. \A i \in 0..(next - 1) : b[i] \in S
  BY <1>1, <1>2, <1>3
<1>6. IsBuffer(b, next, S)
  BY <1>1, <1>4, <1>5 DEF IsBuffer
<1>7. LenOf(next, 0, l) = l
  BY <1>1 DEF LenOf
<1> DEFINE t == ContentsOf(b, next, 0, l)
<1>8. /\ t \in Seq(S) /\ Len(t) = l
      /\ \A k \in 1..l : t[k] = b[Place(next, 0, k)]
  <2>1. 0 \in 0..(next - 1) /\ l \in 0..(next - 1)
    BY <1>1
  <2>2. Holds(t, S, b, next, 0, l)
    BY <1>6, <2>1, ContentsAt
  <2> QED
    BY <1>7, <2>2 DEF Holds
<1> HIDE DEF t
<1>9. \A k \in 1..l : t[k] = grown[k]
  <2> SUFFICES ASSUME NEW k \in 1..l PROVE t[k] = grown[k]
    OBVIOUS
  <2>1. Place(next, 0, k) = k - 1 /\ k - 1 \in 0..(next - 1) /\ k - 1 < l
    BY <1>1 DEF Place
  <2>2. b[k - 1] = grown[(k - 1) + 1]
    BY <2>1, <1>3
  <2> QED
    BY <2>1, <2>2, <1>8
<1>10. t = grown
  BY <1>8, <1>9, SeqEqual DEF l
<1> QED
  BY <1>6, <1>7, <1>10 DEF b, l, t, Enlarges

-----------------------------------------------------------------------------
(* The invariant *)

\* What a place of a buffer holds.
Byte == (Writer \cup {Nobody}) \X Nat \X Nat

\* The last d bytes of c are the first d of a line.
Ends(c, w, n, d) == /\ d <= Len(c)
                    /\ \A k \in 1..d : c[Len(c) - d + k] = <<w, n, k>>

Types ==
  /\ lock \in Writer \cup {Nobody}
  /\ IsBuffer(buffer, BufferSize, Byte)
  /\ readPos \in 0..(BufferSize - 1)
  /\ writePos \in 0..(BufferSize - 1)
  /\ file \in Seq(Byte)
  /\ local \in Seq(Byte)
  /\ line \in [Writer -> [length : Nat, done : Nat]]
  /\ lines \in [Writer -> Nat]
  /\ thread \in {"looking", "waiting", "writing", "returned"}
  /\ owner \in {"using", "closing", "closed", "waiting", "joining", "joined", "gone"}
  /\ finish \in {"running", "close", "exit"}
  /\ owed \in Nat

\* The line that is being written is the end of what is in the buffer.
LineInBuffer ==
  lock # Nobody =>
    /\ line[lock].length \in Lengths
    /\ line[lock].done <= line[lock].length
    /\ lines[lock] \in 1..MaxLines[lock]
    /\ Ends(Contents, lock, lines[lock], line[lock].done)

\* The local buffer is full only while the thread writes.
NothingInHand == thread # "writing" => local = <<>>

LogInv == Types /\ LineInBuffer /\ NothingInHand

\* The thread returns once the owner has begun to finish, with all that was owed
\* in the file; the owner goes on once it has returned.
Ending ==
  /\ finish = "running" <=> owner = "using"
  /\ owner # "using" => owed <= Len(Accepted)
  /\ thread = "returned" => /\ owner # "using"
                            /\ owed <= Len(file)
                            /\ closed = (finish = "close")
  /\ owner \in {"joined", "gone"} => thread = "returned"

\* The two ends of the file hold it, and the last to let go frees it.
Frees ==
  /\ refcount = (IF thread = "returned" THEN 0 ELSE 1) + (IF owner = "gone" THEN 0 ELSE 1)
  /\ freed = (owner = "gone")

-----------------------------------------------------------------------------
(* What the steps do to the sequence of accepted bytes *)

\* What was accepted, from the file, the local buffer and m bytes of the contents.
Taken(f, l, c, m) == f \o l \o SubSeq(c, 1, m)

LEMMA PrefixIsSeq ==
    ASSUME NEW S, NEW c \in Seq(S), NEW m \in 0..Len(c)
    PROVE  /\ SubSeq(c, 1, m) \in Seq(S)
           /\ Len(SubSeq(c, 1, m)) = m
           /\ \A k \in 1..m : SubSeq(c, 1, m)[k] = c[k]
<1>1. \A i \in 1..m : c[i] \in S
  OBVIOUS
<1>2. 1 \in Int /\ m \in Int
  OBVIOUS
<1>3. /\ SubSeq(c, 1, m) \in Seq(S)
      /\ Len(SubSeq(c, 1, m)) = IF 1 <= m THEN m - 1 + 1 ELSE 0
      /\ \A k \in 1..(m - 1 + 1) : SubSeq(c, 1, m)[k] = c[1 + k - 1]
  BY <1>1, <1>2, SubSeqProperties
<1> QED
  BY <1>3

LEMMA TakenIsSeq ==
    ASSUME NEW S, NEW f \in Seq(S), NEW l \in Seq(S), NEW c \in Seq(S), NEW m \in 0..Len(c)
    PROVE  /\ Taken(f, l, c, m) \in Seq(S)
           /\ Len(Taken(f, l, c, m)) = Len(f) + Len(l) + m
<1> DEFINE p == SubSeq(c, 1, m)
<1>1. p \in Seq(S) /\ Len(p) = m
  BY PrefixIsSeq
<1> HIDE DEF p
<1> DEFINE fl == f \o l
<1>2. fl \in Seq(S) /\ Len(fl) = Len(f) + Len(l)
  BY ConcatProperties
<1> HIDE DEF fl
<1>3. fl \o p \in Seq(S) /\ Len(fl \o p) = Len(fl) + Len(p)
  BY <1>1, <1>2, ConcatProperties
<1> QED
  BY <1>1, <1>2, <1>3 DEF Taken, fl, p

\* A piece is appended to the contents: the line gets longer, and what is accepted stays.
IsPiece(p, w, n, d) == \A k \in 1..Len(p) : p[k] = <<w, n, d + k>>

LineExtended(c, p, w, n, d, S) ==
    /\ c \o p \in Seq(S)
    /\ Len(c \o p) = Len(c) + Len(p)
    /\ Ends(c \o p, w, n, d + Len(p))
    /\ SubSeq(c \o p, 1, Len(c) - d) = SubSeq(c, 1, Len(c) - d)

LEMMA PieceAppended ==
    ASSUME NEW S, NEW c \in Seq(S), NEW p \in Seq(S), NEW w, NEW n, NEW d \in Nat,
           Ends(c, w, n, d), IsPiece(p, w, n, d)
    PROVE  LineExtended(c, p, w, n, d, S)
<1> DEFINE cp == c \o p
           lc == Len(c)
           lp == Len(p)
<1>1. /\ cp \in Seq(S)
      /\ Len(cp) = lc + lp
      /\ \A i \in 1..(lc + lp) : cp[i] = IF i <= lc THEN c[i] ELSE p[i - lc]
  BY ConcatProperties
<1>2. lc \in Nat /\ lp \in Nat /\ d <= lc
  BY DEF Ends
<1>3. \A k \in 1..d : c[lc - d + k] = <<w, n, k>>
  BY DEF Ends
<1>4. \A k \in 1..lp : p[k] = <<w, n, d + k>>
  BY DEF IsPiece
<1>5. SubSeq(cp, 1, lc - d) = SubSeq(c, 1, lc - d)
  <2> DEFINE m == lc - d
  <2>1. m \in 0..Len(c) /\ m \in 0..Len(cp)
    BY <1>1, <1>2
  <2>2. \A k \in 1..m : cp[k] = c[k]
    BY <1>1, <1>2
  <2> HIDE DEF m, cp
  <2>3. /\ SubSeq(c, 1, m) \in Seq(S)
        /\ Len(SubSeq(c, 1, m)) = m
        /\ \A k \in 1..m : SubSeq(c, 1, m)[k] = c[k]
    BY <2>1, PrefixIsSeq
  <2>4. /\ SubSeq(cp, 1, m) \in Seq(S)
        /\ Len(SubSeq(cp, 1, m)) = m
        /\ \A k \in 1..m : SubSeq(cp, 1, m)[k] = cp[k]
    BY <1>1, <2>1, PrefixIsSeq
  <2>5. SubSeq(cp, 1, m) = SubSeq(c, 1, m)
    BY <2>2, <2>3, <2>4, SeqEqual
  <2> QED
    BY <2>5 DEF m
<1> HIDE DEF cp, lc, lp
<1>6. ASSUME NEW k \in 1..(d + lp) PROVE cp[(lc + lp) - (d + lp) + k] = <<w, n, k>>
  <2> DEFINE i == lc - d + k
  <2>1. i \in 1..(lc + lp) /\ (lc + lp) - (d + lp) + k = i
    BY <1>2
  <2>2. CASE k <= d
    <3>1. i <= lc /\ k \in 1..d
      BY <1>2, <2>2
    <3>2. cp[i] = c[i]
      BY <1>1, <2>1, <3>1
    <3>3. c[i] = <<w, n, k>>
      BY <1>3, <3>1
    <3> QED
      BY <2>1, <3>2, <3>3
  <2>3. CASE ~(k <= d)
    <3>1. i - lc = k - d /\ ~(i <= lc) /\ k - d \in 1..lp /\ d + (k - d) = k
      BY <1>2, <2>3
    <3>2. cp[i] = p[k - d]
      BY <1>1, <2>1, <3>1
    <3>3. p[k - d] = <<w, n, d + (k - d)>>
      BY <1>4, <3>1
    <3> QED
      BY <2>1, <3>1, <3>2, <3>3
  <2> QED
    BY <2>2, <2>3
<1>7. Ends(cp, w, n, d + lp)
  <2>1. Len(cp) = lc + lp /\ d + lp <= lc + lp
    BY <1>1, <1>2
  <2> QED
    BY <1>6, <2>1 DEF Ends
<1> QED
  BY <1>1, <1>5, <1>7 DEF cp, lc, lp, LineExtended

\* The lock is given back: the whole line is accepted.
LEMMA LineAccepted ==
    ASSUME NEW S, NEW f \in Seq(S), NEW l \in Seq(S), NEW c \in Seq(S),
           NEW w, NEW n, NEW d \in Nat, Ends(c, w, n, d)
    PROVE  Taken(f, l, c, Len(c)) = Taken(f, l, c, Len(c) - d) \o Line(w, n, d)
<1> DEFINE m == Len(c) - d
           s == SubSeq(c, 1, m)
           t == SubSeq(c, m + 1, Len(c))
           fl == f \o l
<1>1. m \in 0..Len(c) /\ Len(c) \in Nat
  BY SMTT(60) DEF Ends
<1>2. s \o t = c
  <2>1. SubSeq(c, 1, m) \o SubSeq(c, m + 1, Len(c)) = SubSeq(c, 1, Len(c))
    <3>1. 1 \in 1..(Len(c) + 1) /\ m \in (1 - 1)..Len(c) /\ Len(c) \in m..Len(c)
      BY <1>1
    <3> HIDE DEF m
    <3> QED
      BY <3>1, ConcatAdjacentSubSeq
  <2>2. SubSeq(c, 1, Len(c)) = c
    BY SubSeqFull
  <2> QED
    BY <2>1, <2>2
<1>3. SubSeq(c, 1, Len(c)) = c
  BY SubSeqFull
<1>4. s \in Seq(S)
  <2> HIDE DEF m
  <2> QED
    BY <1>1, PrefixIsSeq
<1>5. /\ t \in Seq(S) /\ Len(t) = d
      /\ \A k \in 1..d : t[k] = c[m + k]
  <2> DEFINE lc == Len(c)
             j == m + 1
  <2>1. j \in Int /\ lc \in Int
    BY <1>1
  <2>2. \A i \in j..lc : c[i] \in S
    BY <1>1
  <2>3. lc - j + 1 = d /\ (j <= lc <=> d > 0)
    BY <1>1
  <2>4. \A k \in 1..d : j + k - 1 = m + k
    BY <1>1
  <2> HIDE DEF m, j, lc
  <2>5. /\ SubSeq(c, j, lc) \in Seq(S)
        /\ Len(SubSeq(c, j, lc)) = IF j <= lc THEN lc - j + 1 ELSE 0
        /\ \A k \in 1..(lc - j + 1) : SubSeq(c, j, lc)[k] = c[j + k - 1]
    BY <2>1, <2>2, SubSeqProperties
  <2> QED
    BY <2>3, <2>4, <2>5, SMTT(60) DEF j, lc
<1>6. \A k \in 1..d : c[m + k] = <<w, n, k>>
  BY DEF Ends
<1>7. t = Line(w, n, d)
  <2> HIDE DEF t, m
  <2>1. t = [k \in 1..d |-> t[k]]
    BY <1>5
  <2>2. \A k \in 1..d : t[k] = <<w, n, k>>
    BY <1>5, <1>6
  <2>3. [k \in 1..d |-> t[k]] = [k \in 1..d |-> <<w, n, k>>]
    BY <2>2
  <2> QED
    BY <2>1, <2>3 DEF Line
<1>8. fl \in Seq(S)
  BY ConcatProperties
<1>9. Taken(f, l, c, Len(c)) = fl \o c /\ Taken(f, l, c, m) = fl \o s
  BY <1>3 DEF Taken
<1> HIDE DEF s, t, fl
<1>10. (fl \o s) \o t = fl \o (s \o t)
  BY <1>4, <1>5, <1>8, ConcatAssociative, SMTT(60)
<1>11. fl \o c = (fl \o s) \o t
  BY <1>2, <1>10
<1> HIDE DEF m
<1>12. Taken(f, l, c, Len(c)) = Taken(f, l, c, m) \o Line(w, n, d)
  BY <1>7, <1>9, <1>11
<1> QED
  BY <1>12 DEF m

\* Bytes move from the buffer to the local buffer ...
LEMMA BytesFetched ==
    ASSUME NEW S, NEW f \in Seq(S), NEW c \in Seq(S), NEW k \in 0..Len(c)
    PROVE  /\ SubSeq(c, 1, k) \in Seq(S)
           /\ SubSeq(c, k + 1, Len(c)) \in Seq(S)
           /\ Len(SubSeq(c, k + 1, Len(c))) = Len(c) - k
           /\ Taken(f, SubSeq(c, 1, k), SubSeq(c, k + 1, Len(c)), Len(c) - k)
                = Taken(f, <<>>, c, Len(c))
<1> DEFINE lc == Len(c)
           s == SubSeq(c, 1, k)
           t == SubSeq(c, k + 1, lc)
<1>1. lc \in Nat /\ k \in 0..lc
  OBVIOUS
<1>2. s \in Seq(S)
  BY PrefixIsSeq
<1>3. t \in Seq(S) /\ Len(t) = lc - k
  <2> DEFINE j == k + 1
  <2>1. j \in Int /\ lc \in Int
    BY <1>1
  <2>2. \A i \in j..lc : c[i] \in S
    BY <1>1
  <2> HIDE DEF j, lc
  <2>3. /\ SubSeq(c, j, lc) \in Seq(S)
        /\ Len(SubSeq(c, j, lc)) = IF j <= lc THEN lc - j + 1 ELSE 0
    BY <2>1, <2>2, SubSeqProperties
  <2> QED
    BY <1>1, <2>3 DEF j
<1>4. s \o t = SubSeq(c, 1, lc)
  <2>1. 1 \in 1..(Len(c) + 1) /\ k \in (1 - 1)..Len(c) /\ Len(c) \in k..Len(c)
    BY <1>1
  <2> QED
    BY <2>1, ConcatAdjacentSubSeq
<1>5. SubSeq(c, 1, lc) = c
  BY SubSeqFull
<1>6. SubSeq(t, 1, Len(t)) = t
  <2> HIDE DEF t
  <2> QED
    BY <1>3, SubSeqFull
<1>7. f \o <<>> = f
  BY ConcatEmptySeq
<1> HIDE DEF s, t, lc
<1>8. (f \o s) \o t = f \o (s \o t)
  BY <1>2, <1>3, ConcatAssociative, SMTT(60)
<1>9. SubSeq(t, 1, lc - k) = t
  BY <1>3, <1>6
<1>10. Taken(f, s, t, lc - k) = (f \o s) \o t
  BY <1>9 DEF Taken
<1>11. Taken(f, <<>>, c, lc) = f \o c
  BY <1>5, <1>7 DEF Taken
<1>12. Taken(f, s, t, lc - k) = Taken(f, <<>>, c, lc)
  BY <1>4, <1>5, <1>8, <1>10, <1>11
<1> QED
  BY <1>2, <1>3, <1>12 DEF s, t, lc

\* ... and from there to the file.
LEMMA BytesWritten ==
    ASSUME NEW S, NEW f \in Seq(S), NEW l \in Seq(S), NEW c \in Seq(S), NEW m \in 0..Len(c)
    PROVE  /\ f \o l \in Seq(S)
           /\ Len(f \o l) = Len(f) + Len(l)
           /\ Taken(f \o l, <<>>, c, m) = Taken(f, l, c, m)
           /\ f \o l = SubSeq(Taken(f, l, c, m), 1, Len(f) + Len(l))
<1> DEFINE fl == f \o l
           p == SubSeq(c, 1, m)
<1>1. fl \in Seq(S) /\ Len(fl) = Len(f) + Len(l)
  BY ConcatProperties
<1>2. p \in Seq(S)
  BY PrefixIsSeq
<1> HIDE DEF fl, p
<1>3. fl \o <<>> = fl
  BY <1>1, ConcatEmptySeq
<1>4. Taken(fl, <<>>, c, m) = fl \o p
  BY <1>3 DEF Taken, p
<1>5. Taken(f, l, c, m) = fl \o p
  BY DEF Taken, p, fl
<1>6. fl = SubSeq(fl \o p, 1, Len(fl))
  <2> DEFINE x == fl \o p
             n == Len(fl)
  <2>1. /\ x \in Seq(S)
        /\ Len(x) = Len(fl) + Len(p)
        /\ \A k \in 1..(Len(fl) + Len(p)) :
             x[k] = IF k <= Len(fl) THEN fl[k] ELSE p[k - Len(fl)]
    <3>1. fl \in Seq(S) /\ p \in Seq(S)
      BY <1>1, <1>2
    <3> QED
      BY <3>1, ConcatProperties
  <2> HIDE DEF x
  <2>2. \A k \in 1..n : x[k] = fl[k]
    BY <1>1, <1>2, <2>1
  <2>3. n \in 0..Len(x)
    BY <1>1, <1>2, <2>1
  <2> HIDE DEF n
  <2>4. /\ SubSeq(x, 1, n) \in Seq(S)
        /\ Len(SubSeq(x, 1, n)) = n
        /\ \A k \in 1..n : SubSeq(x, 1, n)[k] = x[k]
    BY <2>1, <2>3, PrefixIsSeq
  <2>5. Len(fl) = n
    BY DEF n
  <2>6. fl = SubSeq(x, 1, n)
    BY <1>1, <2>2, <2>4, <2>5, SeqEqual
  <2> QED
    BY <2>6 DEF n, x
<1> QED
  BY <1>1, <1>4, <1>5, <1>6 DEF fl

-----------------------------------------------------------------------------
(* The steps *)

LEMMA Now ==
    ASSUME LogInv
    PROVE  /\ Contents = ContentsOf(buffer, BufferSize, readPos, writePos)
           /\ Contents \in Seq(Byte)
           /\ BufferLen = LenOf(BufferSize, readPos, writePos)
           /\ Len(Contents) = BufferLen
           /\ BufferSize \in Nat \ {0}
           /\ BufferLen \in 0..(BufferSize - 1)
           /\ Begun \in 0..BufferLen
           /\ Accepted = Taken(file, local, Contents, BufferLen - Begun)
<1>1. Contents = ContentsOf(buffer, BufferSize, readPos, writePos)
  BY DEF Contents, ContentsOf, Stretch
<1>2. BufferLen = LenOf(BufferSize, readPos, writePos)
  BY DEF BufferLen, LenOf
<1>3. BufferSize \in Nat \ {0}
  BY DEF LogInv, Types, IsBuffer
<1>4. Holds(ContentsOf(buffer, BufferSize, readPos, writePos), Byte,
            buffer, BufferSize, readPos, writePos)
  BY ContentsAt DEF LogInv, Types
<1>5. /\ Contents \in Seq(Byte)
      /\ Len(Contents) = BufferLen
      /\ BufferLen \in 0..(BufferSize - 1)
  BY <1>1, <1>2, <1>4 DEF Holds
<1>6. Begun \in 0..BufferLen
  <2>1. CASE lock = Nobody
    BY <2>1, <1>3, <1>5 DEF Begun
  <2>2. CASE lock # Nobody
    <3>1. lock \in Writer
      BY <2>2 DEF LogInv, Types
    <3>2. line[lock].done \in Nat
      BY <3>1, SMTT(60) DEF LogInv, Types
    <3>3. line[lock].done <= Len(Contents)
      BY <2>2 DEF LogInv, LineInBuffer, Ends
    <3>4. Begun = line[lock].done
      BY <2>2 DEF Begun
    <3> QED
      BY <1>3, <1>5, <3>2, <3>3, <3>4
  <2> QED
    BY <2>1, <2>2
<1>7. Accepted = Taken(file, local, Contents, BufferLen - Begun)
  BY DEF Accepted, Taken
<1> QED
  BY <1>1, <1>2, <1>3, <1>5, <1>6, <1>7

LEMMA AcceptedIsSeq ==
    ASSUME LogInv
    PROVE  /\ Accepted \in Seq(Byte)
           /\ Len(Accepted) = Len(file) + Len(local) + (BufferLen - Begun)
           /\ Len(file) \in Nat /\ Len(local) \in Nat
           /\ BufferLen - Begun \in Nat
           /\ Len(Accepted) \in Nat
<1> DEFINE m == BufferLen - Begun
           c == Contents
<1>1. c \in Seq(Byte) /\ m \in 0..Len(c) /\ Accepted = Taken(file, local, c, m)
  BY Now
<1>2. file \in Seq(Byte) /\ local \in Seq(Byte)
  BY DEF LogInv, Types
<1> HIDE DEF m, c
<1>3. /\ Taken(file, local, c, m) \in Seq(Byte)
      /\ Len(Taken(file, local, c, m)) = Len(file) + Len(local) + m
  BY <1>1, <1>2, TakenIsSeq
<1>4. Len(file) \in Nat /\ Len(local) \in Nat
  BY <1>2
<1> QED
  BY <1>1, <1>3, <1>4 DEF m

LEMMA BytesOf ==
    ASSUME NEW w \in Writer, NEW n \in Nat, NEW k \in Nat
    PROVE  <<w, n, k>> \in Byte
BY DEF Byte

\* The steps of the log.
Still == Accepted' = Accepted /\ file' = file
Accepts == /\ \E w \in Writer : \E n \in 1..MaxLines[w], length \in Lengths :
                Accepted' = Accepted \o Line(w, n, length)
           /\ file' = file
Outputs == /\ Accepted' = Accepted
           /\ \E n \in Len(file)..Len(Accepted) : file' = SubSeq(Accepted, 1, n)

-----------------------------------------------------------------------------
\* A step that leaves the buffers and the line alone.
Quiet == /\ UNCHANGED <<lock, bufferVars, local, file, line, lines>>
         /\ thread' \in {"looking", "waiting", "writing", "returned"}
         /\ thread = "writing" => thread' = "writing"
         /\ owner' \in {"using", "closing", "closed", "waiting", "joining", "joined", "gone"}
         /\ finish' \in {"running", "close", "exit"}
         /\ owed' \in Nat

LEMMA QuietStep ==
    ASSUME LogInv, Quiet
    PROVE  LogInv' /\ Still
<1>1. UNCHANGED <<lock, buffer, readPos, writePos, local, file, line, lines>>
  BY DEF Quiet, bufferVars
<1>2. BufferSize' = BufferSize
  BY <1>1 DEF BufferSize
<1>3. BufferLen' = BufferLen
  BY <1>1, <1>2 DEF BufferLen
<1>4. Contents' = Contents
  BY <1>1, <1>2 DEF Contents
<1>5. Begun' = Begun
  BY <1>1 DEF Begun
<1>6. Still
  BY <1>1, <1>3, <1>4, <1>5 DEF Still, Accepted
<1>7. Types'
  BY <1>1, <1>2 DEF LogInv, Types, Quiet
<1>8. LineInBuffer'
  BY <1>1, <1>4 DEF LogInv, LineInBuffer
<1>9. NothingInHand'
  BY <1>1 DEF LogInv, NothingInHand, Quiet
<1> QED
  BY <1>6, <1>7, <1>8, <1>9 DEF LogInv

\* Lock and Unlock change the line and leave the buffer alone.
LEMMA LockStep ==
    ASSUME LogInv, NEW w \in Writer, Lock(w)
    PROVE  LogInv' /\ Still
<1> USE DEF Lock
<1>1. /\ UNCHANGED <<buffer, readPos, writePos, local, file, thread, owner, finish, owed>>
      /\ lock = Nobody /\ lock' = w /\ w # Nobody
      /\ lines[w] < MaxLines[w]
      /\ lines' = [lines EXCEPT ![w] = @ + 1]
  BY AsyncFileAssumption DEF bufferVars, threadVars
<1>2. PICK length \in Lengths : line' = [line EXCEPT ![w] = [length |-> length, done |-> 0]]
  OBVIOUS
<1>3. length \in Nat /\ MaxLines[w] \in Nat
  BY <1>2, AsyncFileAssumption
<1>4. lines[w] \in Nat /\ lines \in [Writer -> Nat] /\ line \in [Writer -> [length : Nat, done : Nat]]
  BY DEF LogInv, Types
<1>5. lines'[w] = lines[w] + 1 /\ lines'[w] \in 1..MaxLines[w] /\ lines' \in [Writer -> Nat]
  BY <1>1, <1>3, <1>4
<1>6. line'[w].length = length /\ line'[w].done = 0
  BY <1>2, <1>4
<1>7. line' \in [Writer -> [length : Nat, done : Nat]]
  <2> DEFINE r == [length |-> length, done |-> 0]
  <2>1. r \in [length : Nat, done : Nat]
    BY <1>3
  <2>2. line' = [line EXCEPT ![w] = r]
    BY <1>2
  <2> HIDE DEF r
  <2> QED
    BY <1>4, <2>1, <2>2
<1>8. BufferSize' = BufferSize
  BY <1>1 DEF BufferSize
<1>9. BufferLen' = BufferLen /\ Contents' = Contents
  BY <1>1, <1>8 DEF BufferLen, Contents
<1>10. Begun' = Begun
  <2>1. Begun = 0
    BY <1>1 DEF Begun
  <2>2. Begun' = line'[w].done
    BY <1>1 DEF Begun
  <2> QED
    BY <1>6, <2>1, <2>2
<1>11. Still
  BY <1>1, <1>9, <1>10 DEF Still, Accepted
<1>12. Types'
  BY <1>1, <1>5, <1>7, <1>8 DEF LogInv, Types
<1>13. LineInBuffer'
  <2>1. Len(Contents) \in Nat
    BY Now
  <2>2. Ends(Contents', w, lines'[w], 0)
    BY <1>9, <2>1 DEF Ends
  <2>3. line'[w].length \in Lengths /\ line'[w].done <= line'[w].length
    BY <1>2, <1>3, <1>6
  <2> QED
    BY <1>1, <1>5, <1>6, <2>2, <2>3 DEF LineInBuffer
<1>14. NothingInHand'
  BY <1>1 DEF LogInv, NothingInHand
<1> QED
  BY <1>11, <1>12, <1>13, <1>14 DEF LogInv

LEMMA UnlockStep ==
    ASSUME LogInv, NEW w \in Writer, Unlock(w)
    PROVE  LogInv' /\ Accepts
<1>1. /\ UNCHANGED <<buffer, readPos, writePos, local, file, thread, lines, owner, finish, owed>>
      /\ lock = w /\ lock' = Nobody /\ w # Nobody
      /\ line' = [line EXCEPT ![w] = NoLine]
      /\ line[w].done = line[w].length
  BY AsyncFileAssumption DEF Unlock, bufferVars, threadVars
<1>2. line \in [Writer -> [length : Nat, done : Nat]]
  BY DEF LogInv, Types
<1>3. line' \in [Writer -> [length : Nat, done : Nat]]
  <2>1. NoLine \in [length : Nat, done : Nat]
    BY DEF NoLine
  <2> QED
    BY <1>1, <1>2, <2>1
<1>4. BufferSize' = BufferSize
  BY <1>1 DEF BufferSize
<1>5. BufferLen' = BufferLen /\ Contents' = Contents
  BY <1>1, <1>4 DEF BufferLen, Contents
<1>6. Begun = line[w].done /\ Begun' = 0
  BY <1>1 DEF Begun
<1> DEFINE d == line[w].done
           n == lines[w]
           c == Contents
<1>7. d \in Nat /\ d \in Lengths /\ n \in 1..MaxLines[w] /\ Ends(c, w, n, d)
  BY <1>1, <1>2 DEF LogInv, LineInBuffer
<1>8. /\ c \in Seq(Byte) /\ Len(c) = BufferLen /\ Len(c) \in Nat
      /\ Accepted = Taken(file, local, c, Len(c) - d)
  BY <1>6, Now
<1>9. Accepted' = Taken(file, local, c, Len(c))
  <2>1. Accepted' = Taken(file', local', Contents', BufferLen' - Begun')
    BY DEF Accepted, Taken
  <2>2. BufferLen' - Begun' = Len(c)
    BY <1>5, <1>6, <1>8
  <2> QED
    BY <1>1, <1>5, <2>1, <2>2
<1>10. file \in Seq(Byte) /\ local \in Seq(Byte)
  BY DEF LogInv, Types
<1> HIDE DEF d, n, c
<1>11. Taken(file, local, c, Len(c)) = Taken(file, local, c, Len(c) - d) \o Line(w, n, d)
  <2>1. d \in Nat /\ Ends(c, w, n, d) /\ c \in Seq(Byte)
    BY <1>7, <1>8
  <2> QED
    BY <1>10, <2>1, LineAccepted, SMTT(60)
<1>12. Accepts
  BY <1>1, <1>7, <1>8, <1>9, <1>11 DEF Accepts
<1>13. Types'
  BY <1>1, <1>3, <1>4 DEF LogInv, Types
<1>14. LineInBuffer' /\ NothingInHand'
  BY <1>1 DEF LogInv, LineInBuffer, NothingInHand
<1> QED
  BY <1>12, <1>13, <1>14 DEF LogInv

LEMMA FetchStep ==
    ASSUME LogInv, Fetch
    PROVE  LogInv' /\ Still
<1> USE DEF Fetch
<1>1. /\ UNCHANGED <<lock, buffer, writePos, file, line, lines, owner, finish, owed>>
      /\ lock = Nobody
      /\ local' = SubSeq(Contents, 1, Copied)
      /\ readPos' = (readPos + Copied) % BufferSize
      /\ thread = "looking" /\ thread' = "writing"
  BY DEF writerVars
<1> DEFINE c == Contents
           k == Copied
           n == BufferSize
<1>2. local = <<>>
  BY <1>1 DEF LogInv, NothingInHand
<1>3. /\ c \in Seq(Byte) /\ Len(c) = BufferLen /\ Len(c) \in Nat
      /\ n \in Nat \ {0}
      /\ BufferLen = LenOf(n, readPos, writePos)
      /\ c = ContentsOf(buffer, n, readPos, writePos)
  BY Now
<1>4. k \in 0..Len(c) /\ k \in 0..LenOf(n, readPos, writePos)
  <2>1. LocalSize \in Nat
    BY AsyncFileAssumption
  <2> QED
    BY <1>3, <2>1 DEF Copied
<1>5. IsBuffer(buffer, n, Byte) /\ readPos \in 0..(n - 1) /\ writePos \in 0..(n - 1)
  BY DEF LogInv, Types
<1>6. Begun = 0 /\ Begun' = 0
  BY <1>1 DEF Begun
<1>7. Accepted = Taken(file, <<>>, c, Len(c))
  BY <1>2, <1>3, <1>6, Now
<1>8. BufferSize' = n
  BY <1>1 DEF BufferSize
<1> HIDE DEF c, k, n
<1> DEFINE q == (readPos + k) % n
<1>9. ReadOn(buffer, n, readPos, writePos, k, q)
  BY <1>3, <1>4, <1>5, Reading
<1> HIDE DEF q
<1>10. readPos' = q
  BY <1>1 DEF k, n, q
<1>11. readPos' \in 0..(n - 1)
  BY <1>9, <1>10 DEF ReadOn
<1>12. BufferLen' = Len(c) - k
  <2>1. BufferLen' = LenOf(BufferSize', readPos', writePos')
    BY DEF BufferLen, LenOf
  <2>2. LenOf(BufferSize', readPos', writePos') = LenOf(n, q, writePos)
    BY <1>1, <1>8, <1>10
  <2> QED
    BY <1>3, <1>9, <2>1, <2>2 DEF ReadOn
<1>13. Contents' = SubSeq(c, k + 1, Len(c))
  <2>1. Contents' = ContentsOf(buffer', BufferSize', readPos', writePos')
    BY DEF Contents, ContentsOf, Stretch
  <2>2. ContentsOf(buffer', BufferSize', readPos', writePos')
          = ContentsOf(buffer, n, q, writePos)
    BY <1>1, <1>8, <1>10
  <2>3. LenOf(n, readPos, writePos) = Len(c)
    BY <1>3
  <2> QED
    BY <1>3, <1>9, <2>1, <2>2, <2>3 DEF ReadOn
<1>14. local' = SubSeq(c, 1, k)
  BY <1>1 DEF c, k
<1>15. file \in Seq(Byte)
  BY DEF LogInv, Types
<1>16. /\ SubSeq(c, 1, k) \in Seq(Byte)
       /\ Taken(file, SubSeq(c, 1, k), SubSeq(c, k + 1, Len(c)), Len(c) - k)
            = Taken(file, <<>>, c, Len(c))
  BY <1>3, <1>4, <1>15, BytesFetched
<1>17. Accepted' = Accepted
  <2>1. Accepted' = Taken(file', local', Contents', BufferLen' - Begun')
    BY DEF Accepted, Taken
  <2>2. BufferLen' - Begun' = Len(c) - k
    BY <1>3, <1>4, <1>6, <1>12
  <2> QED
    BY <1>1, <1>7, <1>13, <1>14, <1>16, <2>1, <2>2
<1>18. Types'
  <2>1. IsBuffer(buffer', BufferSize', Byte) /\ writePos' \in 0..(BufferSize' - 1)
        /\ readPos' \in 0..(BufferSize' - 1)
    BY <1>1, <1>5, <1>8, <1>11
  <2>2. local' \in Seq(Byte)
    BY <1>14, <1>16
  <2> QED
    BY <1>1, <2>1, <2>2 DEF LogInv, Types
<1>19. LineInBuffer' /\ NothingInHand'
  BY <1>1 DEF LineInBuffer, NothingInHand
<1> QED
  BY <1>1, <1>17, <1>18, <1>19 DEF LogInv, Still

LEMMA WriteStep ==
    ASSUME LogInv, Write
    PROVE  LogInv' /\ Outputs
<1>1. /\ UNCHANGED <<lock, buffer, readPos, writePos, line, lines, owner, finish, owed>>
      /\ file' = file \o local
      /\ local' = <<>>
      /\ thread' = "looking"
  BY DEF Write, bufferVars, writerVars
<1>2. BufferSize' = BufferSize
  BY <1>1 DEF BufferSize
<1>3. BufferLen' = BufferLen /\ Contents' = Contents
  BY <1>1, <1>2 DEF BufferLen, Contents
<1>4. Begun' = Begun
  BY <1>1 DEF Begun
<1> DEFINE c == Contents
           m == BufferLen - Begun
<1>5. c \in Seq(Byte) /\ m \in 0..Len(c) /\ Accepted = Taken(file, local, c, m)
  BY Now
<1>6. Accepted' = Taken(file \o local, <<>>, c, m)
  <2>1. Accepted' = Taken(file', local', Contents', BufferLen' - Begun')
    BY DEF Accepted, Taken
  <2> QED
    BY <1>1, <1>3, <1>4, <2>1
<1>7. file \in Seq(Byte) /\ local \in Seq(Byte)
  BY DEF LogInv, Types
<1> HIDE DEF c, m
<1>8. /\ file \o local \in Seq(Byte)
      /\ Taken(file \o local, <<>>, c, m) = Taken(file, local, c, m)
      /\ file \o local = SubSeq(Taken(file, local, c, m), 1, Len(file) + Len(local))
  BY <1>5, <1>7, BytesWritten
<1>9. Accepted' = Accepted
  BY <1>5, <1>6, <1>8
<1>10. file' = SubSeq(Accepted, 1, Len(file) + Len(local))
  BY <1>1, <1>5, <1>8
<1>11. Len(file) + Len(local) \in Len(file)..Len(Accepted)
  BY AcceptedIsSeq
<1>12. Outputs
  BY <1>9, <1>10, <1>11 DEF Outputs
<1>13. local' \in Seq(Byte) /\ file' \in Seq(Byte)
  BY <1>1, <1>8, EmptySeq
<1>14. Types'
  BY <1>1, <1>2, <1>13 DEF LogInv, Types
<1>15. LineInBuffer' /\ NothingInHand'
  BY <1>1, <1>3 DEF LogInv, LineInBuffer, NothingInHand
<1> QED
  BY <1>12, <1>14, <1>15 DEF LogInv

-----------------------------------------------------------------------------
(* The writers' pieces *)

\* The writer of line n adds a piece of it, wherever the buffer then is.
Added(w, size, piece) ==
  /\ UNCHANGED <<lock, local, file, thread, lines, owner, finish, owed>>
  /\ IsBuffer(buffer', BufferSize', Byte)
  /\ readPos' \in 0..(BufferSize' - 1)
  /\ writePos' \in 0..(BufferSize' - 1)
  /\ LenOf(BufferSize', readPos', writePos') = BufferLen + size
  /\ ContentsOf(buffer', BufferSize', readPos', writePos') = Contents \o piece
  /\ line' = [line EXCEPT ![w].done = @ + size]

IsPieceOf(w, size, piece) ==
  /\ size \in 1..(line[w].length - line[w].done)
  /\ piece = [k \in 1..size |-> <<w, lines[w], line[w].done + k>>]

LEMMA AddedStep ==
    ASSUME LogInv, NEW w \in Writer, lock = w, NEW size, NEW piece,
           IsPieceOf(w, size, piece), piece \in Seq(Byte), Len(piece) = size,
           Added(w, size, piece)
    PROVE  LogInv' /\ Still
<1> DEFINE d == line[w].done
           n == lines[w]
           c == Contents
<1>1. w # Nobody
  BY AsyncFileAssumption
<1>2. /\ d \in Nat /\ line[w].length \in Nat /\ n \in Nat
      /\ line \in [Writer -> [length : Nat, done : Nat]]
  BY DEF LogInv, Types
<1>3. /\ line[w].length \in Lengths /\ n \in 1..MaxLines[w] /\ Ends(c, w, n, d)
  BY <1>1 DEF LogInv, LineInBuffer
<1>4. size \in 1..(line[w].length - d) /\ size \in Nat /\ d + size <= line[w].length
  BY <1>2 DEF IsPieceOf
<1>5. /\ line'[w].length = line[w].length /\ line'[w].done = d + size
      /\ line' \in [Writer -> [length : Nat, done : Nat]]
  <2>1. line' = [line EXCEPT ![w].done = @ + size]
    BY DEF Added
  <2>2. line'[w].length = line[w].length /\ line'[w].done = d + size
    BY <1>2, <2>1
  <2>3. line' \in [Writer -> [length : Nat, done : Nat]]
    BY <1>2, <1>4, <2>1
  <2> QED
    BY <2>2, <2>3
<1>6. IsPiece(piece, w, n, d)
  BY <1>4 DEF IsPieceOf, IsPiece
<1>7. c \in Seq(Byte) /\ Len(c) = BufferLen /\ Len(c) \in Nat
  BY Now
<1>8. Begun = d
  BY <1>1 DEF Begun
<1>9. Accepted = Taken(file, local, c, Len(c) - d)
  BY <1>7, <1>8, Now
<1> HIDE DEF d, n, c
<1>10. /\ c \o piece \in Seq(Byte)
       /\ Len(c \o piece) = Len(c) + Len(piece)
       /\ Ends(c \o piece, w, n, d + Len(piece))
       /\ SubSeq(c \o piece, 1, Len(c) - d) = SubSeq(c, 1, Len(c) - d)
  <2>1. d \in Nat /\ Ends(c, w, n, d) /\ c \in Seq(Byte)
    BY <1>2, <1>3, <1>7
  <2>2. IsPiece(piece, w, n, d) /\ piece \in Seq(Byte)
    BY <1>6
  <2>3. LineExtended(c, piece, w, n, d, Byte)
    BY <2>1, <2>2, PieceAppended
  <2> QED
    BY <2>3 DEF LineExtended
<1>11. Contents' = c \o piece
  <2>1. Contents' = ContentsOf(buffer', BufferSize', readPos', writePos')
    BY DEF Contents, ContentsOf, Stretch
  <2> QED
    BY <2>1 DEF Added, c
<1>12. BufferLen' = Len(c) + size
  <2>1. BufferLen' = LenOf(BufferSize', readPos', writePos')
    BY DEF BufferLen, LenOf
  <2> QED
    BY <1>7, <2>1 DEF Added
<1>13. Begun' = d + size
  <2>1. lock' = w
    BY DEF Added
  <2> QED
    BY <1>1, <1>5, <2>1 DEF Begun
<1>14. BufferLen' - Begun' = Len(c) - d
  BY <1>2, <1>4, <1>7, <1>12, <1>13
<1>15. Accepted' = Accepted
  <2>1. Accepted' = Taken(file', local', Contents', BufferLen' - Begun')
    BY DEF Accepted, Taken
  <2>2. Accepted' = Taken(file, local, c \o piece, Len(c) - d)
    BY <1>11, <1>14, <2>1 DEF Added
  <2> QED
    BY <1>9, <1>10, <2>2 DEF Taken
<1>16. Types'
  BY <1>5 DEF LogInv, Types, Added
<1>17. LineInBuffer'
  <2>1. lock' = w /\ lines' = lines
    BY DEF Added
  <2>2. Ends(Contents', w, n, d + size)
    BY <1>10, <1>11
  <2> QED
    BY <1>3, <1>4, <1>5, <2>1, <2>2 DEF LineInBuffer, n
<1>18. NothingInHand'
  BY DEF LogInv, NothingInHand, Added
<1> QED
  BY <1>15, <1>16, <1>17, <1>18 DEF LogInv, Still, Added

LEMMA WriteUnlockedStep ==
    ASSUME LogInv, NEW w \in Writer, WriteUnlocked(w)
    PROVE  LogInv' /\ Still
<1>1. lock = w /\ UNCHANGED <<lock, local, file, thread, lines, owner, finish, owed>>
  BY DEF WriteUnlocked, threadVars
<1>2. PICK size \in 1..(line[w].length - line[w].done) :
        LET piece == [k \in 1..size |-> <<w, lines[w], line[w].done + k>>]
            grown == Contents \o piece
        IN /\ IF Fits(size)
              THEN /\ buffer' = [i \in DOMAIN buffer |->
                        LET k == (i - writePos) % BufferSize IN
                        IF k < size THEN piece[k + 1] ELSE buffer[i]]
                   /\ writePos' = (writePos + size) % BufferSize
                   /\ UNCHANGED readPos
              ELSE \E next \in NextBufferSize(BufferSize, BufferLen + size + 1) :
                   /\ buffer' = [i \in 0..(next - 1) |->
                        IF i < Len(grown) THEN grown[i + 1] ELSE Garbage]
                   /\ readPos' = 0
                   /\ writePos' = Len(grown)
           /\ line' = [line EXCEPT ![w].done = @ + size]
  BY DEF WriteUnlocked
<1> DEFINE piece == [k \in 1..size |-> <<w, lines[w], line[w].done + k>>]
           grown == Contents \o piece
           n == BufferSize
<1>3. IsPieceOf(w, size, piece)
  BY <1>2 DEF IsPieceOf
<1>4. size \in Nat /\ line[w].done \in Nat /\ lines[w] \in Nat
  BY <1>2 DEF LogInv, Types
<1>5. piece \in Seq(Byte) /\ Len(piece) = size
  <2>1. \A k \in 1..size : <<w, lines[w], line[w].done + k>> \in Byte
    <3> SUFFICES ASSUME NEW k \in 1..size
                 PROVE  <<w, lines[w], line[w].done + k>> \in Byte
      OBVIOUS
    <3>1. line[w].done + k \in Nat
      BY <1>4
    <3> QED
      BY <1>4, <3>1, BytesOf
  <2>2. piece \in Seq(Byte)
    BY <1>4, <2>1, IsASeq
  <2> QED
    BY <1>4, <2>2
<1>6. line' = [line EXCEPT ![w].done = @ + size]
  BY <1>2
<1>7. /\ Fits(size) => /\ buffer' = [i \in DOMAIN buffer |->
                            LET k == (i - writePos) % n IN
                            IF k < size THEN piece[k + 1] ELSE buffer[i]]
                       /\ writePos' = (writePos + size) % n
                       /\ readPos' = readPos
      /\ ~Fits(size) => \E next \in NextBufferSize(n, BufferLen + size + 1) :
                            /\ buffer' = [i \in 0..(next - 1) |->
                                 IF i < Len(grown) THEN grown[i + 1] ELSE Garbage]
                            /\ readPos' = 0
                            /\ writePos' = Len(grown)
  BY <1>2
<1>8. /\ n \in Nat \ {0} /\ BufferLen \in 0..(n - 1)
      /\ Contents \in Seq(Byte) /\ Len(Contents) = BufferLen
      /\ BufferLen = LenOf(n, readPos, writePos)
      /\ Contents = ContentsOf(buffer, n, readPos, writePos)
  BY Now
<1>9. IsBuffer(buffer, n, Byte) /\ readPos \in 0..(n - 1) /\ writePos \in 0..(n - 1)
  BY DEF LogInv, Types
<1> HIDE DEF piece
<1>10. CASE Fits(size)
  <2>1. DOMAIN buffer = 0..(n - 1)
    BY <1>9 DEF IsBuffer
  <2>2. BufferSize' = n
    BY <1>7, <1>10 DEF BufferSize
  <2> HIDE DEF n
  <2>3. buffer' = Stored(buffer, n, writePos, piece)
    BY <1>5, <1>7, <1>10, <2>1 DEF Stored
  <2> DEFINE v == (writePos + size) % n
  <2>4. Len(piece) < n - LenOf(n, readPos, writePos)
    BY <1>5, <1>8, <1>10 DEF Fits, n
  <2>5. Stores(buffer, n, readPos, writePos, piece, Byte, v)
    <3>1. v = (writePos + Len(piece)) % n
      BY <1>5
    <3> QED
      BY <3>1, <1>5, <1>8, <1>9, <2>4, Writing
  <2> HIDE DEF v
  <2>6. writePos' = v /\ readPos' = readPos
    BY <1>7, <1>10 DEF v
  <2>7. Added(w, size, piece)
    <3>1. LenOf(BufferSize', readPos', writePos') = BufferLen + size
      BY <1>5, <1>8, <2>2, <2>5, <2>6 DEF Stores
    <3>2. ContentsOf(buffer', BufferSize', readPos', writePos') = Contents \o piece
      BY <1>8, <2>2, <2>3, <2>5, <2>6 DEF Stores
    <3>3. IsBuffer(buffer', BufferSize', Byte) /\ writePos' \in 0..(BufferSize' - 1)
      BY <2>2, <2>3, <2>5, <2>6 DEF Stores
    <3>4. readPos' \in 0..(BufferSize' - 1)
      BY <1>9, <2>2, <2>6
    <3> QED
      BY <1>1, <1>6, <3>1, <3>2, <3>3, <3>4 DEF Added
  <2> QED
    BY <1>1, <1>3, <1>5, <2>7, AddedStep
<1>11. CASE ~Fits(size)
  <2>1. grown \in Seq(Byte) /\ Len(grown) = BufferLen + size
    BY <1>5, <1>8, ConcatProperties
  <2> HIDE DEF grown, n
  <2>2. PICK next \in NextBufferSize(n, BufferLen + size + 1) :
          /\ buffer' = [i \in 0..(next - 1) |->
               IF i < Len(grown) THEN grown[i + 1] ELSE Garbage]
          /\ readPos' = 0
          /\ writePos' = Len(grown)
    BY <1>7, <1>11
  <2>3. next \in (BufferLen + size + 1)..(2 * (BufferLen + size + 1) - 1)
    BY <2>2 DEF NextBufferSize
  <2>4. next \in Nat /\ next > Len(grown) /\ next - 1 \in Nat /\ Len(grown) \in Nat
    BY <1>4, <1>8, <2>1, <2>3, SMTT(60)
  <2>5. buffer' = Enlarged(grown, next, Garbage)
    BY <2>2 DEF Enlarged
  <2>6. Garbage \in Byte
    BY DEF Garbage, Byte
  <2>7. Enlarges(grown, next, Garbage, Byte)
    BY <2>1, <2>4, <2>6, Growing
  <2>8. BufferSize' = next
    <3>1. DOMAIN buffer' = 0..(next - 1)
      BY <2>2
    <3>2. Cardinality(0..(next - 1)) = next
      <4> DEFINE m == next - 1
      <4>1. 0 \in Int /\ m \in Int /\ ~(0 > m) /\ m - 0 + 1 = next
        BY <2>4
      <4> HIDE DEF m
      <4>2. Cardinality(0..m) = IF 0 > m THEN 0 ELSE m - 0 + 1
        BY <4>1, FS_Interval
      <4>3. Cardinality(0..m) = next
        BY <4>1, <4>2
      <4> QED
        BY <4>3 DEF m
    <3> QED
      BY <3>1, <3>2 DEF BufferSize
  <2>9. Added(w, size, piece)
    <3>1. LenOf(BufferSize', readPos', writePos') = BufferLen + size
      BY <2>1, <2>2, <2>7, <2>8 DEF Enlarges
    <3>2. ContentsOf(buffer', BufferSize', readPos', writePos') = Contents \o piece
      BY <2>2, <2>5, <2>7, <2>8 DEF Enlarges, grown
    <3>3. IsBuffer(buffer', BufferSize', Byte)
      BY <2>5, <2>7, <2>8 DEF Enlarges
    <3>4. readPos' \in 0..(BufferSize' - 1) /\ writePos' \in 0..(BufferSize' - 1)
      BY <2>2, <2>4, <2>8
    <3> QED
      BY <1>1, <1>6, <3>1, <3>2, <3>3, <3>4 DEF Added
  <2> QED
    BY <1>1, <1>3, <1>5, <2>9, AddedStep
<1> QED
  BY <1>10, <1>11

-----------------------------------------------------------------------------
(* The log *)

\* The steps that are quiet.
LEMMA QuietSteps ==
    ASSUME LogInv,
           \/ \E w \in Writer : Signal(w)
           \/ Return \/ Sleep \/ Wake
           \/ Close \/ Wait \/ SignalFinish \/ Join \/ Free
    PROVE  Quiet
<1> USE DEF Quiet, bufferVars, threadVars, writerVars
<1>1. /\ thread \in {"looking", "waiting", "writing", "returned"}
      /\ owner \in {"using", "closing", "closed", "waiting", "joining", "joined", "gone"}
      /\ finish \in {"running", "close", "exit"}
      /\ owed \in Nat
  BY DEF LogInv, Types
<1>2. Len(Accepted) \in Nat
  BY AcceptedIsSeq
<1>3. ASSUME NEW w \in Writer, Signal(w) PROVE Quiet
  BY <1>1, <1>3 DEF Signal
<1>4. CASE Return
  BY <1>1, <1>4 DEF Return
<1>5. CASE Sleep
  BY <1>1, <1>5 DEF Sleep
<1>6. CASE Wake
  BY <1>1, <1>6 DEF Wake
<1>7. CASE Close
  BY <1>1, <1>2, <1>7 DEF Close
<1>8. CASE Wait
  BY <1>1, <1>2, <1>8 DEF Wait
<1>9. CASE SignalFinish
  BY <1>1, <1>9 DEF SignalFinish
<1>10. CASE Join
  BY <1>1, <1>10 DEF Join
<1>11. CASE Free
  BY <1>1, <1>11 DEF Free
<1> QED
  BY <1>3, <1>4, <1>5, <1>6, <1>7, <1>8, <1>9, <1>10, <1>11

LEMMA LogStep ==
    ASSUME LogInv, [Next]_vars
    PROVE  LogInv' /\ (Still \/ Accepts \/ Outputs)
<1>1. ASSUME NEW w \in Writer, Lock(w)
      PROVE  LogInv' /\ (Still \/ Accepts \/ Outputs)
  BY <1>1, LockStep
<1>2. ASSUME NEW w \in Writer, WriteUnlocked(w)
      PROVE  LogInv' /\ (Still \/ Accepts \/ Outputs)
  BY <1>2, WriteUnlockedStep
<1>3. ASSUME NEW w \in Writer, Unlock(w)
      PROVE  LogInv' /\ (Still \/ Accepts \/ Outputs)
  BY <1>3, UnlockStep
<1>4. CASE Fetch
  BY <1>4, FetchStep
<1>5. CASE Write
  BY <1>5, WriteStep
<1>6. CASE \/ \E w \in Writer : Signal(w)
           \/ Return \/ Sleep \/ Wake
           \/ Close \/ Wait \/ SignalFinish \/ Join \/ Free
  <2>1. Quiet
    BY <1>6, QuietSteps
  <2> QED
    BY <2>1, QuietStep
<1>7. CASE UNCHANGED vars
  <2>1. Quiet
    BY <1>7 DEF vars, Quiet, LogInv, Types, threadVars, writerVars
  <2> QED
    BY <2>1, QuietStep
<1>8. CASE Next
  BY <1>1, <1>2, <1>3, <1>4, <1>5, <1>6, <1>8 DEF Next
<1> QED
  BY <1>7, <1>8

LEMMA InitLog == Init => LogInv /\ Accepted = <<>> /\ file = <<>>
<1> SUFFICES ASSUME Init PROVE LogInv /\ Accepted = <<>> /\ file = <<>>
  OBVIOUS
<1>1. BufSize \in Nat \ {0}
  BY AsyncFileAssumption
<1>2. BufferSize = BufSize
  <2>1. DOMAIN buffer = 0..(BufSize - 1)
    BY DEF Init
  <2> DEFINE m == BufSize - 1
  <2>2. 0 \in Int /\ m \in Int /\ ~(0 > m) /\ m - 0 + 1 = BufSize
    BY <1>1
  <2> HIDE DEF m
  <2>3. Cardinality(0..m) = IF 0 > m THEN 0 ELSE m - 0 + 1
    BY <2>2, FS_Interval
  <2>4. Cardinality(0..m) = BufSize
    BY <2>2, <2>3
  <2> QED
    BY <2>1, <2>4 DEF BufferSize, m
<1>3. Garbage \in Byte
  BY DEF Garbage, Byte
<1>4. IsBuffer(buffer, BufSize, Byte)
  BY <1>1, <1>3 DEF Init, IsBuffer
<1>5. Types
  <2>1. line \in [Writer -> [length : Nat, done : Nat]]
    <3>1. NoLine \in [length : Nat, done : Nat]
      BY DEF NoLine
    <3> QED
      BY <3>1 DEF Init
  <2>2. lines \in [Writer -> Nat]
    BY DEF Init
  <2>3. 0 \in 0..(BufSize - 1)
    BY <1>1
  <2>4. file \in Seq(Byte) /\ local \in Seq(Byte)
    BY EmptySeq DEF Init
  <2> QED
    BY <1>2, <1>4, <2>1, <2>2, <2>3, <2>4 DEF Init, Types
<1>6. LogInv
  BY <1>5 DEF Init, LogInv, LineInBuffer, NothingInHand
<1>7. Len(Accepted) = 0
  <2>1. BufferLen = 0 /\ Begun = 0
    BY DEF Init, BufferLen, Begun
  <2>2. file = <<>> /\ local = <<>>
    BY DEF Init
  <2> QED
    BY <1>6, <2>1, <2>2, AcceptedIsSeq
<1>8. Accepted = <<>>
  BY <1>6, <1>7, AcceptedIsSeq, EmptySeq
<1> QED
  BY <1>6, <1>8 DEF Init

LEMMA LogInductive == Spec => []LogInv
<1>1. Init => LogInv
  BY InitLog
<1>2. LogInv /\ [Next]_vars => LogInv'
  BY LogStep
<1> QED
  BY <1>1, <1>2, PTL DEF Spec

(***************************************************************************)
(* However the writers and the thread of aio_thread interleave, and        *)
(* however often the buffer is replaced, the file has every byte once, in  *)
(* order, and whole lines.                                                 *)
(***************************************************************************)
THEOREM FileIsLineLog == Spec => IsLineLog
<1>1. Init => Log!Init
  BY InitLog DEF Log!Init
<1>2. LogInv /\ [Next]_vars => [Log!Next]_<<Accepted, file>>
  <2> SUFFICES ASSUME LogInv, [Next]_vars
               PROVE  [Log!Next]_<<Accepted, file>>
    OBVIOUS
  <2>1. CASE Still
    BY <2>1 DEF Still
  <2>2. CASE Accepts
    <3>1. PICK w \in Writer : \E n \in 1..MaxLines[w], length \in Lengths :
            Accepted' = Accepted \o Line(w, n, length)
      BY <2>2 DEF Accepts
    <3>2. PICK n \in 1..MaxLines[w], length \in Lengths :
            Accepted' = Accepted \o Line(w, n, length)
      BY <3>1
    <3>3. Line(w, n, length) \in LinesOf(w)
      BY <3>2 DEF LinesOf
    <3>4. \E ln \in Lines : Accepted' = Accepted \o ln
      BY <3>1, <3>2, <3>3 DEF Lines
    <3>5. Log!Accept
      BY <2>2, <3>4 DEF Accepts, Log!Accept
    <3> QED
      BY <3>5 DEF Log!Next
  <2>3. CASE Outputs
    <3>1. Log!Output
      BY <2>3 DEF Outputs, Log!Output
    <3> QED
      BY <3>1 DEF Log!Next
  <2> QED
    BY <2>1, <2>2, <2>3, LogStep
<1> QED
  BY <1>1, <1>2, LogInductive, PTL DEF Spec, IsLineLog, Log!Spec

-----------------------------------------------------------------------------
(* The end *)

LEMMA Grows ==
    ASSUME LogInv, [Next]_vars
    PROVE  /\ Len(Accepted) \in Nat /\ Len(Accepted') \in Nat
           /\ Len(file) \in Nat /\ Len(file') \in Nat
           /\ Len(Accepted) <= Len(Accepted')
           /\ Len(file) <= Len(file')
<1>1. LogInv'
  BY LogStep
<1>2. Accepted \in Seq(Byte) /\ file \in Seq(Byte)
  BY AcceptedIsSeq DEF LogInv, Types
<1>3. file' \in Seq(Byte)
  BY <1>1 DEF LogInv, Types
<1>4. Len(Accepted) \in Nat /\ Len(file) \in Nat /\ Len(file') \in Nat
  BY <1>2, <1>3
<1>5. CASE Still
  BY <1>4, <1>5 DEF Still
<1>6. CASE Accepts
  <2>1. PICK w \in Writer : \E n \in 1..MaxLines[w], length \in Lengths :
          Accepted' = Accepted \o Line(w, n, length)
    BY <1>6 DEF Accepts
  <2>2. PICK n \in 1..MaxLines[w], length \in Lengths :
          Accepted' = Accepted \o Line(w, n, length)
    BY <2>1
  <2>3. length \in Nat /\ n \in Nat /\ w \in Writer
    BY <2>1, <2>2, AsyncFileAssumption
  <2> DEFINE ln == Line(w, n, length)
  <2>4. ln \in Seq(Byte)
    <3>1. \A k \in 1..length : <<w, n, k>> \in Byte
      BY <2>3, BytesOf
    <3>2. [k \in 1..length |-> <<w, n, k>>] \in Seq(Byte)
      BY <2>3, <3>1, IsASeq
    <3> QED
      BY <3>2 DEF Line
  <2> HIDE DEF ln
  <2>5. Len(Accepted \o ln) = Len(Accepted) + Len(ln) /\ Len(ln) \in Nat
    BY <1>2, <2>4, ConcatProperties
  <2>6. Accepted' = Accepted \o ln
    BY <2>2 DEF ln
  <2> QED
    BY <1>4, <1>6, <2>5, <2>6 DEF Accepts
<1>7. CASE Outputs
  <2>1. PICK n \in Len(file)..Len(Accepted) : file' = SubSeq(Accepted, 1, n)
    BY <1>7 DEF Outputs
  <2>2. n \in 0..Len(Accepted) /\ Len(file) <= n
    BY <1>4, <2>1
  <2>3. Len(file') = n
    BY <1>2, <2>1, <2>2, PrefixIsSeq
  <2> QED
    BY <1>4, <1>7, <2>2, <2>3 DEF Outputs
<1> QED
  BY <1>5, <1>6, <1>7, LogStep

LEMMA EndStep ==
    ASSUME LogInv, Ending, [Next]_vars
    PROVE  Ending'
<1> USE DEF Ending, threadVars
<1>1. /\ Len(Accepted) \in Nat /\ Len(Accepted') \in Nat
      /\ Len(file) \in Nat /\ Len(file') \in Nat
      /\ Len(Accepted) <= Len(Accepted')
      /\ Len(file) <= Len(file')
      /\ owed \in Nat
  BY Grows DEF LogInv, Types
<1>2. CASE UNCHANGED <<finish, owner, owed, thread, closed>>
  BY <1>1, <1>2
<1>3. ASSUME NEW w \in Writer, Lock(w) \/ WriteUnlocked(w) \/ Unlock(w) \/ Signal(w)
      PROVE  UNCHANGED <<finish, owner, owed, thread, closed>>
  BY <1>3 DEF Lock, WriteUnlocked, Unlock, Signal
<1>4. CASE Return
  <2>1. /\ finish # "running" /\ thread' = "returned" /\ closed' = (finish = "close")
        /\ UNCHANGED <<finish, owner, owed, file, local>>
        /\ readPos = writePos /\ lock = Nobody /\ thread = "looking"
    BY <1>4 DEF Return
  <2>2. Len(Accepted) = Len(file)
    <3>1. BufferLen = 0
      BY <2>1 DEF BufferLen, LogInv, Types
    <3>2. Begun = 0
      BY <2>1 DEF Begun
    <3>3. Len(local) = 0
      BY <2>1, EmptySeq DEF LogInv, NothingInHand
    <3> QED
      BY <3>1, <3>2, <3>3, AcceptedIsSeq
  <2> QED
    BY <1>1, <2>1, <2>2
<1>5. CASE Sleep \/ Wake \/ Fetch \/ Write
  <2>1. /\ UNCHANGED <<finish, owner, owed, closed>>
        /\ thread # "returned" /\ thread' # "returned"
    BY <1>5 DEF Sleep, Wake, Fetch, Write
  <2> QED
    BY <1>1, <2>1
<1>6. CASE Close
  <2>1. /\ owner = "using" /\ owner' = "closing" /\ finish' = "close"
        /\ owed' = Len(Accepted) /\ UNCHANGED <<thread, closed, file>>
    BY <1>6 DEF Close
  <2> QED
    BY <1>1, <2>1
<1>7. CASE Wait
  <2>1. /\ owner \in {"using", "closed"} /\ owner' = "waiting"
        /\ finish' = IF finish = "running" THEN "exit" ELSE finish
        /\ owed' = IF owner = "using" THEN Len(Accepted) ELSE owed
        /\ UNCHANGED <<thread, closed, file>>
    BY <1>7 DEF Wait
  <2>2. CASE owner = "using"
    BY <1>1, <2>1, <2>2
  <2>3. CASE owner = "closed"
    BY <1>1, <2>1, <2>3
  <2> QED
    BY <2>1, <2>2, <2>3
<1>8. CASE SignalFinish
  <2>1. /\ owner \in {"closing", "waiting"} /\ owner' \in {"closed", "joining"}
        /\ UNCHANGED <<finish, owed, thread, closed, file>>
    BY <1>8 DEF SignalFinish
  <2> QED
    BY <1>1, <2>1
<1>9. CASE Join
  <2>1. /\ owner = "joining" /\ owner' = "joined" /\ thread = "returned"
        /\ UNCHANGED <<finish, owed, thread, closed, file>>
    BY <1>9 DEF Join
  <2> QED
    BY <1>1, <2>1
<1>10. CASE Free
  <2>1. /\ owner = "joined" /\ owner' = "gone"
        /\ UNCHANGED <<finish, owed, thread, closed, file>>
    BY <1>10 DEF Free
  <2> QED
    BY <1>1, <2>1
<1>11. CASE UNCHANGED vars
  BY <1>2, <1>11 DEF vars
<1> QED
  BY <1>2, <1>3, <1>4, <1>5, <1>6, <1>7, <1>8, <1>9, <1>10, <1>11 DEF Next

LEMMA FreeStep ==
    ASSUME LogInv, Ending, Frees, [Next]_vars
    PROVE  Frees'
<1> USE DEF Frees, HandleFree, threadVars
<1>1. CASE Return
  <2>1. thread = "looking" /\ thread' = "returned" /\ owner # "gone" /\ owner' = owner
    BY <1>1 DEF Return, Ending
  <2> QED
    BY <1>1, <2>1 DEF Return
<1>2. CASE Free
  <2>1. owner = "joined" /\ owner' = "gone" /\ thread = "returned" /\ thread' = thread
    BY <1>2 DEF Free, Ending
  <2> QED
    BY <1>2, <2>1 DEF Free
<1>3. CASE \/ \E w \in Writer : Lock(w) \/ WriteUnlocked(w) \/ Unlock(w) \/ Signal(w)
           \/ Sleep \/ Wake \/ Fetch \/ Write
           \/ Close \/ Wait \/ SignalFinish \/ Join
           \/ UNCHANGED vars
  <2>1. /\ UNCHANGED <<refcount, freed>>
        /\ thread' = "returned" <=> thread = "returned"
        /\ owner' = "gone" <=> owner = "gone"
    BY <1>3 DEF Lock, WriteUnlocked, Unlock, Signal, Sleep, Wake, Fetch, Write, Close, Wait,
                SignalFinish, Join, vars
  <2> QED
    BY <2>1
<1> HIDE DEF Frees, HandleFree, threadVars
<1>4. CASE Next
  BY <1>1, <1>2, <1>3, <1>4 DEF Next
<1> QED
  BY <1>3, <1>4

(***************************************************************************)
(* When aio_wait returns, the file has what was accepted before the owner  *)
(* began to finish, it is closed if it was to be, and the memory is freed  *)
(* once, by aio_free.                                                      *)
(***************************************************************************)
THEOREM AllIsFlushed == Spec => []Flushed
<1>1. Init => Ending /\ Frees
  <2> SUFFICES ASSUME Init PROVE Ending /\ Frees
    OBVIOUS
  <2>1. finish = "running" /\ owner = "using" /\ thread = "looking" /\ refcount = 2 /\ freed = FALSE
    BY DEF Init
  <2>2. Ending
    BY <2>1 DEF Ending
  <2>3. refcount = (IF thread = "returned" THEN 0 ELSE 1) + (IF owner = "gone" THEN 0 ELSE 1)
    BY <2>1
  <2>4. owner # "gone" /\ freed = FALSE
    BY <2>1
  <2>5. freed = (owner = "gone")
    BY <2>4
  <2> QED
    BY <2>2, <2>3, <2>5 DEF Frees
<1>2. LogInv /\ Ending /\ Frees /\ [Next]_vars => Ending' /\ Frees'
  BY EndStep, FreeStep
<1>3. LogInv /\ Ending /\ Frees => Flushed
  <2> SUFFICES ASSUME LogInv, Ending, Frees, owner \in {"joined", "gone"}
               PROVE  /\ Len(file) >= owed
                      /\ closed = (finish = "close")
                      /\ freed = (owner = "gone")
    BY DEF Flushed
  <2>1. Len(file) \in Nat /\ owed \in Nat
    BY AcceptedIsSeq DEF LogInv, Types
  <2>2. owed <= Len(file) /\ closed = (finish = "close")
    BY DEF Ending
  <2> QED
    BY <2>1, <2>2 DEF Frees
<1> QED
  BY <1>1, <1>2, <1>3, LogInductive, PTL DEF Spec
=============================================================================
