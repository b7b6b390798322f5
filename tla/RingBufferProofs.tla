------------------------- MODULE RingBufferProofs -------------------------
(***************************************************************************)
(* The safety of RingBuffer for any sizes of the memory, the headers and   *)
(* the items: the blocks tile the memory, and a buffer that recycles takes *)
(* every item that is not larger than the buffer.                          *)
(*                                                                         *)
(* The lemmas are about a buffer r that is a constant, so that they serve  *)
(* for every state that a step passes through.                             *)
(***************************************************************************)
EXTENDS RingBuffer, FiniteSetTheorems, FunctionTheorems, SequenceTheorems, WellFoundedInduction, TLAPS

(* Numbers *)

\* A set of numbers has a least one, and so allows induction.
LEMMA Smallest ==
    ASSUME NEW T \in SUBSET Nat, T # {}
    PROVE  \E x \in T : \A y \in T : x <= y
<1>1. IsWellFoundedOn(OpToRel(<, Nat), Nat)
  BY NatLessThanWellFounded
<1>2. PICK x \in T : \A y \in T : ~ (<<y, x>> \in OpToRel(<, Nat))
  BY <1>1, WFMin
<1>3. ASSUME NEW y \in T PROVE x <= y
  <2>1. ~ (<<y, x>> \in OpToRel(<, Nat))
    BY <1>2
  <2>2. y \in Nat /\ x \in Nat
    OBVIOUS
  <2>3. ~ (y < x)
    BY <2>1, <2>2 DEF OpToRel
  <2> QED
    BY <2>2, <2>3
<1> QED
  BY <1>3

LEMMA SetInduction ==
    ASSUME NEW T, 0 \in T, \A n \in Nat : n \in T => n + 1 \in T
    PROVE  Nat \subseteq T
<1> SUFFICES ASSUME Nat \ T # {} PROVE FALSE
  OBVIOUS
<1>1. PICK x \in Nat \ T : \A y \in Nat \ T : x <= y
  BY Smallest
<1>2. x - 1 \in Nat
  BY x # 0
<1>3. x - 1 \in T
  BY <1>1, <1>2
<1>4. x - 1 + 1 = x
  OBVIOUS
<1> QED
  BY <1>1, <1>2, <1>3, <1>4

\* Blocks begin and end at multiples of Header.
IsUnit(x) == \E k \in Nat : x = k * Header

LEMMA UnitSum ==
    ASSUME NEW x, NEW y, IsUnit(x), IsUnit(y)
    PROVE  IsUnit(x + y)
<1>1. PICK k \in Nat : x = k * Header
  BY DEF IsUnit
<1>2. PICK l \in Nat : y = l * Header
  BY DEF IsUnit
<1>3. x + y = (k + l) * Header
  BY <1>1, <1>2, SizeAssumption
<1>4. k + l \in Nat
  OBVIOUS
<1> QED
  BY <1>3, <1>4 DEF IsUnit

LEMMA UnitDifference ==
    ASSUME NEW x, NEW y, IsUnit(x), IsUnit(y), x >= y
    PROVE  IsUnit(x - y)
<1>1. PICK k \in Nat : x = k * Header
  BY DEF IsUnit
<1>2. PICK l \in Nat : y = l * Header
  BY DEF IsUnit
<1>3. x - y = (k - l) * Header
  BY <1>1, <1>2, SizeAssumption
<1>4. k - l \in Nat
  <2> SUFFICES ASSUME l - k >= 1 PROVE FALSE
    OBVIOUS
  <2>1. (l - k) * Header >= Header
    BY SizeAssumption
  <2>2. y - x = (l - k) * Header
    BY <1>1, <1>2, SizeAssumption
  <2>3. y - x <= 0
    BY <1>1, <1>2, SizeAssumption
  <2> QED
    BY <2>1, <2>2, <2>3, SizeAssumption
<1> QED
  BY <1>3, <1>4 DEF IsUnit

\* The memory that the blocks share.
LEMMA SizeIsUnits ==
    /\ Blocks \in Nat \ {0}
    /\ Size \in Nat \ {0}
    /\ Header \in Nat \ {0}
    /\ IsUnit(Size)
    /\ IsUnit(First)
<1>1. Blocks \in Nat /\ Blocks >= 1
  BY SizeAssumption DEF Blocks
<1>2. Blocks * Header \in Nat /\ Blocks * Header >= Header
  BY <1>1, SizeAssumption
<1>3. Size = Blocks * Header /\ First = 0 * Header
  BY SizeAssumption DEF Size, Blocks, First
<1> QED
  BY <1>1, <1>2, <1>3, SizeAssumption DEF IsUnit

\* An item gets whole headers, and room for a header and what was asked for.
LEMMA WantedFits ==
    ASSUME NEW asked \in Nat
    PROVE  /\ Wanted(asked) \in Nat \ {0}
           /\ IsUnit(Wanted(asked))
           /\ asked + Header <= Wanted(asked)
<1> DEFINE x == asked + Header + Header - 1
           k == x \div Header
<1>1. x \in Nat /\ Header \in Nat \ {0}
  BY SizeAssumption
<1>2. k \in Nat /\ x = Header * k + (x % Header) /\ x % Header \in 0 .. Header - 1
  BY <1>1
<1>3. Wanted(asked) = k * Header
  BY DEF Wanted
<1> HIDE DEF k
<1>4. k * Header = Header * k /\ k * Header \in Nat
  BY <1>1, <1>2
<1> QED
  BY <1>1, <1>2, <1>3, <1>4 DEF IsUnit

-----------------------------------------------------------------------------
(* The chain of the blocks *)

HeaderType == [prev : Int, next : Int, free : BOOLEAN, size : Nat, item : Item, asked : Nat]

\* What the headers say of the blocks, without the links.
Same(h, g) == h.size = g.size /\ h.free = g.free /\ h.item = g.item /\ h.asked = g.asked

IsRing(r) ==
    /\ r = [block |-> r.block, produce |-> r.produce, consume |-> r.consume, last |-> r.last]
    /\ r.block \in [DOMAIN r.block -> HeaderType]
    /\ DOMAIN r.block \subseteq 0 .. Size - 1
    /\ First \in DOMAIN r.block
    /\ r.produce \in DOMAIN r.block
    /\ r.consume \in DOMAIN r.block
    /\ r.last \in DOMAIN r.block

\* Where block p ends.
End(r, p) == p + r.block[p].size

\* Block p and the links to its neighbours.
IsLinked(r, p) ==
    /\ r.block[p].size >= 1
    /\ IsUnit(p) /\ IsUnit(r.block[p].size)
    /\ IF p = r.last
       THEN r.block[p].next = Null /\ End(r, p) = Size
       ELSE /\ r.block[p].next = End(r, p)
            /\ End(r, p) \in DOMAIN r.block
            /\ r.block[End(r, p)].prev = p
    /\ IF p = First
       THEN r.block[p].prev = Null
       ELSE /\ r.block[p].prev \in DOMAIN r.block
            /\ End(r, r.block[p].prev) = p
    /\ ~r.block[p].free => r.block[p].asked + Header <= r.block[p].size

IsChain(r) ==
    /\ IsRing(r)
    /\ \A p \in DOMAIN r.block : IsLinked(r, p)
    /\ \A p, q \in DOMAIN r.block : p < q => End(r, p) <= q

LEMMA ChainIsTiled ==
    ASSUME IsChain(ring)
    PROVE  Tiled
<1> SUFFICES ASSUME NEW p \in DOMAIN ring.block
             PROVE  LET b == ring.block[p]
                        end == p + b.size
                    IN /\ b.next = IF p = ring.last THEN Null ELSE end
                       /\ IF b.next = Null THEN end = Size ELSE ring.block[b.next].prev = p
                       /\ p = First <=> b.prev = Null
                       /\ ~b.free => b.asked + Header <= b.size
  BY DEF Tiled
<1>1. IsLinked(ring, p) /\ p \in Nat /\ Null \notin DOMAIN ring.block /\ ring.block[p].size \in Nat
  <2>1. Null \notin Nat
    BY DEF Null
  <2>2. ring.block[p] \in HeaderType /\ p \in 0 .. Size - 1 /\ DOMAIN ring.block \subseteq 0 .. Size - 1
    BY DEF IsChain, IsRing
  <2> QED
    BY <2>1, <2>2 DEF IsChain, HeaderType
<1>2. p + ring.block[p].size # Null
  BY <1>1 DEF Null
<1> QED
  BY <1>1, <1>2 DEF IsLinked, End

\* What block p of a chain is like.
LEMMA BlockOfChain ==
    ASSUME NEW r, IsChain(r), NEW p \in DOMAIN r.block
    PROVE  /\ p \in Nat /\ p < Size /\ Size \in Nat
           /\ r.block[p] \in HeaderType
           /\ r.block[p].size \in Nat \ {0}
           /\ r.block[p].free \in BOOLEAN
           /\ r.block[p].asked \in Nat
           /\ End(r, p) \in Nat /\ p < End(r, p)
           /\ IsLinked(r, p)
<1>1. r.block[p] \in HeaderType /\ p \in 0 .. Size - 1 /\ IsLinked(r, p)
  BY DEF IsChain, IsRing
<1>2. r.block[p].size \in Nat /\ r.block[p].size >= 1 /\ r.block[p].free \in BOOLEAN /\ r.block[p].asked \in Nat
  BY <1>1 DEF HeaderType, IsLinked
<1> QED
  BY <1>1, <1>2, SizeIsUnits DEF End

\* The neighbours of a block.
LEMMA NextOfChain ==
    ASSUME NEW r, IsChain(r), NEW p \in DOMAIN r.block
    PROVE  /\ NextBlock(r, p) = IF p = r.last THEN First ELSE End(r, p)
           /\ NextBlock(r, p) \in DOMAIN r.block
           /\ r.block[p].next = Null <=> p = r.last
           /\ p = r.last => End(r, p) = Size
           /\ p # r.last => End(r, p) < Size
           /\ \A q \in DOMAIN r.block : p < q => p # r.last /\ End(r, p) <= q
           /\ \A q \in DOMAIN r.block : End(r, q) = p => r.block[p].prev = q
<1>1. IsLinked(r, p) /\ p \in Nat /\ End(r, p) \in Nat /\ Size \in Nat /\ p < End(r, p)
  BY BlockOfChain
<1>2. First \in DOMAIN r.block
  BY DEF IsChain, IsRing
<1>3. End(r, p) # Null
  BY <1>1 DEF Null
<1>4. p # r.last => End(r, p) < Size /\ End(r, p) \in DOMAIN r.block
  BY <1>1, BlockOfChain DEF IsLinked
<1>5. ASSUME NEW q \in DOMAIN r.block, p < q PROVE p # r.last /\ End(r, p) <= q
  <2>1. End(r, p) <= q
    BY <1>5 DEF IsChain
  <2>2. q < Size /\ q \in Nat
    BY BlockOfChain
  <2> QED
    BY <1>1, <2>1, <2>2 DEF IsLinked
<1>6. ASSUME NEW q \in DOMAIN r.block, End(r, q) = p PROVE r.block[p].prev = q
  <2>1. IsLinked(r, q) /\ p < Size /\ q \in Nat
    BY BlockOfChain
  <2>2. q # r.last
    BY <1>1, <1>6, <2>1 DEF IsLinked
  <2> QED
    BY <1>6, <2>1, <2>2 DEF IsLinked
<1> QED
  BY <1>1, <1>2, <1>3, <1>4, <1>5, <1>6 DEF NextBlock, IsLinked

LEMMA PrevOfChain ==
    ASSUME NEW r, IsChain(r), NEW p \in DOMAIN r.block
    PROVE  /\ p = First <=> r.block[p].prev = Null
           /\ p # First => /\ r.block[p].prev \in DOMAIN r.block
                           /\ End(r, r.block[p].prev) = p
                           /\ r.block[p].prev < p
                           /\ r.block[p].prev # r.last
<1>1. IsLinked(r, p)
  BY BlockOfChain
<1>2. ASSUME p # First
      PROVE  /\ r.block[p].prev \in DOMAIN r.block /\ r.block[p].prev # Null
             /\ End(r, r.block[p].prev) = p /\ r.block[p].prev < p
             /\ r.block[p].prev # r.last
  <2>1. r.block[p].prev \in DOMAIN r.block /\ End(r, r.block[p].prev) = p
    BY <1>1, <1>2 DEF IsLinked
  <2>2. r.block[p].prev \in Nat /\ r.block[p].prev < End(r, r.block[p].prev)
    BY <2>1, BlockOfChain
  <2>3. r.block[p].prev # r.last
    BY <2>1, <2>2, NextOfChain
  <2> QED
    BY <2>1, <2>2, <2>3 DEF Null
<1> QED
  BY <1>1, <1>2 DEF IsLinked

-----------------------------------------------------------------------------
(* Joining *)

\* m is r with block p joined to the block q before it.
IsJoined(r, p, q, m) ==
    /\ DOMAIN m.block = DOMAIN r.block \ {p}
    /\ m.block[q].size = r.block[q].size + r.block[p].size
    /\ m.block[q].free = r.block[q].free
    /\ m.block[q].item = r.block[q].item
    /\ m.block[q].asked = r.block[q].asked
    /\ \A b \in DOMAIN r.block \ {p, q} : Same(m.block[b], r.block[b])
    /\ m.produce = IF r.produce = p THEN q ELSE r.produce
    /\ m.consume = IF r.consume = p THEN q ELSE r.consume
    /\ m.last = IF r.last = p THEN q ELSE r.last

\* The header of block b once p is joined to q.
JoinedHead(r, p, b) ==
    LET q == r.block[p].prev
        n == r.block[p].next
    IN [prev |-> IF b = n THEN q ELSE r.block[b].prev,
        next |-> IF b = q THEN n ELSE r.block[b].next,
        free |-> r.block[b].free,
        size |-> IF b = q THEN r.block[q].size + r.block[p].size ELSE r.block[b].size,
        item |-> r.block[b].item,
        asked |-> r.block[b].asked]

HasJoined(r, p, m) ==
    LET q == r.block[p].prev
        n == r.block[p].next
    IN /\ DOMAIN m.block = DOMAIN r.block \ {p}
       /\ m.block = [b \in DOMAIN m.block |-> m.block[b]]
       /\ q \in DOMAIN r.block \ {p} /\ q # n /\ p # n /\ End(r, q) = p /\ q # r.last
       /\ \A b \in DOMAIN r.block \ {p} : m.block[b] = JoinedHead(r, p, b)
       /\ m = [block |-> m.block, produce |-> m.produce, consume |-> m.consume, last |-> m.last]
       /\ m.produce = IF r.produce = p THEN q ELSE r.produce
       /\ m.consume = IF r.consume = p THEN q ELSE r.consume
       /\ m.last = IF n = Null THEN q ELSE r.last

LEMMA HeadChanged ==
    ASSUME NEW h \in HeaderType, NEW s, NEW n
    PROVE  [[h EXCEPT !.size = s] EXCEPT !.next = n]
             = [prev |-> h.prev, next |-> n, free |-> h.free, size |-> s, item |-> h.item, asked |-> h.asked]
<1> DEFINE g == [prev |-> h.prev, next |-> h.next, free |-> h.free,
                 size |-> s, item |-> h.item, asked |-> h.asked]
<1>1. [h EXCEPT !.size = s] = g
  BY DEF HeaderType
<1>2. [g EXCEPT !.next = n] = [prev |-> h.prev, next |-> n, free |-> h.free,
                               size |-> s, item |-> h.item, asked |-> h.asked]
  OBVIOUS
<1> HIDE DEF g
<1> QED
  BY <1>1, <1>2

LEMMA JoinedBlocks ==
    ASSUME NEW r, IsChain(r), NEW p \in DOMAIN r.block, IsMergeable(r, p)
    PROVE  HasJoined(r, p, MergeBack(r, p))
<1> DEFINE q == r.block[p].prev
           n == r.block[p].next
           m == MergeBack(r, p)
           D == DOMAIN r.block
           joined == [r.block EXCEPT ![q].size = @ + r.block[p].size, ![q].next = n]
<1>1. q # Null /\ q \in D /\ End(r, q) = p /\ q < p /\ q # r.last
  BY PrevOfChain DEF IsMergeable
<1>2. p # n /\ q # n /\ q # p
  <2>1. IsLinked(r, p) /\ p \in Nat /\ End(r, p) \in Nat /\ p < End(r, p) /\ q \in Nat
    BY <1>1, BlockOfChain
  <2>2. n = Null \/ n = End(r, p)
    BY <2>1 DEF IsLinked
  <2> QED
    BY <1>1, <2>1, <2>2 DEF Null
<1>3. m = [block |-> Unlinked(r, p),
           produce |-> IF r.produce = p THEN q ELSE r.produce,
           consume |-> IF r.consume = p THEN q ELSE r.consume,
           last |-> IF n = Null THEN q ELSE r.last]
  BY DEF MergeBack
<1>4. Unlinked(r, p) = [b \in DOMAIN joined \ {p} |->
                          IF b = n THEN [joined[b] EXCEPT !.prev = q] ELSE joined[b]]
  BY DEF Unlinked
<1>5. /\ r.block \in [D -> HeaderType]
  BY DEF IsChain, IsRing
<1>6. /\ DOMAIN joined = D
      /\ joined[q] = [prev |-> r.block[q].prev, next |-> n, free |-> r.block[q].free,
                      size |-> r.block[q].size + r.block[p].size,
                      item |-> r.block[q].item, asked |-> r.block[q].asked]
      /\ \A b \in D \ {q} : joined[b] = r.block[b]
  <2> DEFINE h == [r.block[q] EXCEPT !.size = @ + r.block[p].size]
             f == [r.block EXCEPT ![q] = h]
             g == [h EXCEPT !.next = n]
  <2>1. joined = [f EXCEPT ![q] = [f[q] EXCEPT !.next = n]]
    OBVIOUS
  <2>2. r.block[q] \in HeaderType /\ DOMAIN r.block = D
    BY <1>1, <1>5
  <2>3. g = [prev |-> r.block[q].prev, next |-> n, free |-> r.block[q].free,
             size |-> r.block[q].size + r.block[p].size,
             item |-> r.block[q].item, asked |-> r.block[q].asked]
    BY <2>2, HeadChanged
  <2> HIDE DEF joined, h, q, n
  <2>4. DOMAIN f = D /\ f[q] = h /\ \A b \in D \ {q} : f[b] = r.block[b]
    BY <1>1
  <2> HIDE DEF f
  <2>5. DOMAIN joined = D /\ joined[q] = g /\ \A b \in D \ {q} : joined[b] = r.block[b]
    BY <1>1, <2>1, <2>4, SMTT(60)
  <2> QED
    BY <2>3, <2>5
<1> HIDE DEF joined, m
<1>7. /\ m.block = Unlinked(r, p) /\ DOMAIN m.block = D \ {p}
      /\ m.block = [b \in DOMAIN m.block |-> m.block[b]]
  BY <1>3, <1>4, <1>6
<1>8. ASSUME NEW b \in D \ {p}
      PROVE  m.block[b] = JoinedHead(r, p, b)
  <2>1. m.block[b] = IF b = n THEN [joined[b] EXCEPT !.prev = q] ELSE joined[b]
    BY <1>4, <1>6, <1>7
  <2>2. r.block[b] \in HeaderType
    BY <1>5
  <2>3. CASE b = q
    BY <1>2, <1>6, <2>1, <2>3 DEF JoinedHead
  <2>4. CASE b # q
    <3>1. joined[b] = r.block[b]
      BY <1>6, <2>4
    <3>2. r.block[b] = [prev |-> r.block[b].prev, next |-> r.block[b].next, free |-> r.block[b].free,
                        size |-> r.block[b].size, item |-> r.block[b].item, asked |-> r.block[b].asked]
      BY <2>2 DEF HeaderType
    <3>3. m.block[b] = [prev |-> IF b = n THEN q ELSE r.block[b].prev, next |-> r.block[b].next,
                        free |-> r.block[b].free, size |-> r.block[b].size,
                        item |-> r.block[b].item, asked |-> r.block[b].asked]
      <4> HIDE DEF q, n
      <4> QED
        BY <2>1, <3>1, <3>2
    <3> QED
      BY <2>4, <3>3 DEF JoinedHead
  <2> QED
    BY <2>3, <2>4, SMTT(60)
<1>9. /\ m = [block |-> m.block, produce |-> m.produce, consume |-> m.consume, last |-> m.last]
      /\ m.produce = IF r.produce = p THEN q ELSE r.produce
      /\ m.consume = IF r.consume = p THEN q ELSE r.consume
      /\ m.last = IF n = Null THEN q ELSE r.last
  BY <1>3
<1> QED
  <2> HIDE DEF m
  <2>1. /\ DOMAIN m.block = DOMAIN r.block \ {p}
        /\ m.block = [b \in DOMAIN m.block |-> m.block[b]]
    BY <1>7
  <2>2. q \in DOMAIN r.block \ {p} /\ q # n /\ p # n /\ End(r, q) = p /\ q # r.last
    BY <1>1, <1>2
  <2>3. \A b \in DOMAIN r.block \ {p} : m.block[b] = JoinedHead(r, p, b)
    BY <1>8
  <2>4. HasJoined(r, p, m)
    BY <1>9, <2>1, <2>2, <2>3, Zenon DEF HasJoined
  <2> QED
    BY <2>4 DEF m

\* Joining two blocks keeps the chain.
LEMMA ChainJoined ==
    ASSUME NEW r, IsChain(r), NEW p \in DOMAIN r.block, IsMergeable(r, p)
    PROVE  /\ IsChain(MergeBack(r, p))
           /\ IsJoined(r, p, r.block[p].prev, MergeBack(r, p))
<1> DEFINE q == r.block[p].prev
           n == r.block[p].next
           m == MergeBack(r, p)
           D == DOMAIN r.block
<1>1. HasJoined(r, p, m)
  BY JoinedBlocks
<1>2. r.block[q].free /\ r.block[p].free
  BY DEF IsMergeable
<1>3. DOMAIN m.block = D \ {p} /\ q \in D \ {p} /\ q # n /\ p # n /\ End(r, q) = p /\ q # r.last
  BY <1>1 DEF HasJoined
<1>4. ASSUME NEW b \in D \ {p}
      PROVE  /\ m.block[b].prev = IF b = n THEN q ELSE r.block[b].prev
             /\ m.block[b].next = IF b = q THEN n ELSE r.block[b].next
             /\ m.block[b].free = r.block[b].free
             /\ m.block[b].size = IF b = q THEN r.block[q].size + r.block[p].size ELSE r.block[b].size
             /\ m.block[b].item = r.block[b].item
             /\ m.block[b].asked = r.block[b].asked
             /\ m.block[b] \in HeaderType
             /\ m.block[b].size \in Nat
  <2>1. m.block[b] = JoinedHead(r, p, b)
    BY <1>1 DEF HasJoined
  <2>2. r.block[b] \in HeaderType /\ r.block[q] \in HeaderType /\ r.block[p] \in HeaderType
    BY <1>3, BlockOfChain
  <2>3. q \in Int /\ n \in Int
    BY <2>2 DEF HeaderType
  <2>4. r.block[q].size + r.block[p].size \in Nat
    BY <2>2 DEF HeaderType
  <2>5. /\ r.block[b].prev \in Int /\ r.block[b].next \in Int /\ r.block[b].free \in BOOLEAN
        /\ r.block[b].size \in Nat /\ r.block[b].item \in Item /\ r.block[b].asked \in Nat
    BY <2>2 DEF HeaderType
  <2> HIDE DEF q, n, m
  <2>6. m.block[b] = [prev |-> IF b = n THEN q ELSE r.block[b].prev,
                      next |-> IF b = q THEN n ELSE r.block[b].next,
                      free |-> r.block[b].free,
                      size |-> IF b = q THEN r.block[q].size + r.block[p].size ELSE r.block[b].size,
                      item |-> r.block[b].item,
                      asked |-> r.block[b].asked]
    BY <2>1 DEF JoinedHead, q, n
  <2>7. m.block[b] \in HeaderType
    BY <2>3, <2>4, <2>5, <2>6 DEF HeaderType
  <2> QED
    BY <2>4, <2>5, <2>6, <2>7
<1>5. /\ m = [block |-> m.block, produce |-> m.produce, consume |-> m.consume, last |-> m.last]
      /\ m.produce = IF r.produce = p THEN q ELSE r.produce
      /\ m.consume = IF r.consume = p THEN q ELSE r.consume
      /\ m.last = IF r.last = p THEN q ELSE r.last
  BY <1>1, NextOfChain, SMTT(60) DEF HasJoined
<1>6. IsJoined(r, p, q, m)
  BY <1>3, <1>4, <1>5 DEF IsJoined, Same
<1> HIDE DEF q, n, m, D
<1>7. /\ p \in D /\ p \in Nat /\ End(r, p) \in Nat /\ q \in Nat /\ q < p /\ p < End(r, p)
      /\ r.block[p].size \in Nat /\ r.block[q].size \in Nat
  BY <1>3, BlockOfChain DEF D
<1>8. /\ m.block[q].size = r.block[q].size + r.block[p].size
      /\ End(m, q) = End(r, p)
      /\ \A b \in D \ {p, q} : End(m, b) = End(r, b)
  BY <1>3, <1>4, <1>7 DEF End
<1>9. n = (IF p = r.last THEN Null ELSE End(r, p)) /\ (p # r.last => n \in D) /\ (p = r.last => End(r, p) = Size)
  BY BlockOfChain DEF IsLinked, n, D
<1>10. \A b \in D : End(r, b) = p => b = q
  BY NextOfChain DEF D, q
<1>11. \A b \in D : End(r, p) = b => r.block[b].prev = p
  BY NextOfChain DEF D
<1>12. IsRing(m)
  <2>1. IsRing(r)
    BY DEF IsChain
  <2>2. m.block \in [DOMAIN m.block -> HeaderType]
    <3>1. m.block = [b \in DOMAIN m.block |-> m.block[b]]
      BY <1>1 DEF HasJoined
    <3> QED
      BY <1>3, <1>4, <3>1
  <2>3. /\ DOMAIN m.block \subseteq 0 .. Size - 1
        /\ First \in DOMAIN m.block
        /\ m.produce \in DOMAIN m.block /\ m.consume \in DOMAIN m.block /\ m.last \in DOMAIN m.block
    BY <1>3, <1>5, <1>7, <2>1 DEF IsRing, First, D
  <2> QED
    BY <1>5, <2>2, <2>3 DEF IsRing
<1>13. ASSUME NEW b \in D \ {p} PROVE IsLinked(m, b)
  <2>1. IsLinked(r, b) /\ b \in Nat /\ End(r, b) \in Nat /\ b < End(r, b)
    BY <1>13, BlockOfChain DEF D
  <2>2. m.block[b].size >= 1 /\ IsUnit(b) /\ IsUnit(m.block[b].size)
    <3>1. IsUnit(r.block[p].size) /\ IsUnit(r.block[q].size) /\ r.block[q].size >= 1
      BY <1>3, <1>7, BlockOfChain DEF D, IsLinked
    <3>2. r.block[b].size >= 1 /\ IsUnit(b) /\ IsUnit(r.block[b].size)
      BY <2>1 DEF IsLinked
    <3>3. IsUnit(r.block[q].size + r.block[p].size)
      BY <3>1, UnitSum
    <3> QED
      BY <1>4, <1>7, <1>13, <3>1, <3>2, <3>3
  <2>3. IF b = m.last
        THEN m.block[b].next = Null /\ End(m, b) = Size
        ELSE /\ m.block[b].next = End(m, b)
             /\ End(m, b) \in D \ {p}
             /\ m.block[End(m, b)].prev = b
    <3>1. CASE b = q
      <4>1. m.last = q <=> p = r.last
        BY <1>3, <1>5
      <4>2. p # r.last => n \in D \ {p} /\ n = End(r, p)
        BY <1>3, <1>9
      <4>3. p # r.last => m.block[n].prev = q
        BY <1>4, <4>2
      <4>4. m.block[q].next = n /\ End(m, q) = End(r, p)
        BY <1>3, <1>4, <1>8
      <4> QED
        BY <1>9, <3>1, <4>1, <4>2, <4>3, <4>4
    <3>2. CASE b # q
      <4>1. End(m, b) = End(r, b) /\ m.block[b].next = r.block[b].next
        BY <1>4, <1>8, <1>13, <3>2
      <4>2. b = m.last <=> b = r.last
        BY <1>5, <1>13, <3>2
      <4>3. CASE b = r.last
        BY <2>1, <4>1, <4>2, <4>3 DEF IsLinked
      <4>4. CASE b # r.last
        <5>1. r.block[b].next = End(r, b) /\ End(r, b) \in D /\ r.block[End(r, b)].prev = b
          BY <2>1, <4>4 DEF IsLinked, D
        <5>2. End(r, b) # p
          BY <1>10, <1>13, <3>2
        <5>3. End(r, b) # n
          <6> SUFFICES ASSUME End(r, b) = n PROVE FALSE
            OBVIOUS
          <6>1. n = End(r, p)
            BY <1>9, <2>1 DEF Null
          <6> QED
            BY <1>11, <1>13, <5>1, <6>1
        <5>4. m.block[End(r, b)].prev = b
          BY <1>4, <5>1, <5>2, <5>3
        <5> QED
          BY <4>1, <4>2, <4>4, <5>1, <5>2, <5>4
      <4> QED
        BY <4>3, <4>4
    <3> QED
      BY <3>1, <3>2
  <2>4. IF b = First
        THEN m.block[b].prev = Null
        ELSE /\ m.block[b].prev \in D \ {p}
             /\ End(m, m.block[b].prev) = b
    <3>1. CASE b = n
      <4>1. n = End(r, p) /\ b # First
        BY <1>7, <1>9, <2>1, <3>1 DEF Null, First
      <4> QED
        BY <1>3, <1>4, <1>8, <1>13, <3>1, <4>1
    <3>2. CASE b # n
      <4>1. m.block[b].prev = r.block[b].prev
        BY <1>4, <1>13, <3>2
      <4>2. CASE b = First
        BY <2>1, <4>1, <4>2 DEF IsLinked
      <4>3. CASE b # First
        <5>1. r.block[b].prev \in D /\ End(r, r.block[b].prev) = b
          BY <2>1, <4>3 DEF IsLinked, D
        <5>2. r.block[b].prev # p
          <6> SUFFICES ASSUME r.block[b].prev = p PROVE FALSE
            OBVIOUS
          <6>1. p # r.last
            <7>1. b < Size /\ Size \in Nat
              BY <1>13, BlockOfChain DEF D
            <7> QED
              BY <1>9, <2>1, <5>1, <7>1
          <6> QED
            BY <1>9, <3>2, <5>1, <6>1
        <5>3. r.block[b].prev # q
          BY <1>3, <1>13, <5>1
        <5> QED
          BY <1>8, <4>1, <4>3, <5>1, <5>2, <5>3
      <4> QED
        BY <4>2, <4>3
    <3> QED
      BY <3>1, <3>2
  <2>5. ~m.block[b].free => m.block[b].asked + Header <= m.block[b].size
    <3>1. ~r.block[b].free => r.block[b].asked + Header <= r.block[b].size
      BY <2>1 DEF IsLinked
    <3> QED
      BY <1>2, <1>4, <1>13, <3>1 DEF q
  <2> QED
    BY <1>3, <2>2, <2>3, <2>4, <2>5 DEF IsLinked
<1>14. ASSUME NEW b \in D \ {p}, NEW d \in D \ {p}, b < d PROVE End(m, b) <= d
  <2>1. End(r, b) <= d
    BY <1>14 DEF IsChain, D
  <2>2. CASE b = q
    <3>1. p < d
      <4>1. d \in Nat
        BY <1>14, BlockOfChain DEF D
      <4> QED
        BY <1>3, <1>7, <1>14, <2>1, <2>2, <4>1
    <3>2. End(r, p) <= d
      BY <1>7, <1>14, <3>1 DEF IsChain, D
    <3> QED
      BY <1>8, <2>2, <3>2
  <2>3. CASE b # q
    BY <1>8, <1>14, <2>1, <2>3
  <2> QED
    BY <2>2, <2>3
<1>15. IsChain(m)
  BY <1>3, <1>12, <1>13, <1>14 DEF IsChain
<1> QED
  BY <1>6, <1>15 DEF m, q

\* m is r with other contents of the blocks, and other places to produce and consume.
IsRelabelled(r, m) ==
    /\ IsRing(m)
    /\ DOMAIN m.block = DOMAIN r.block
    /\ m.last = r.last
    /\ \A b \in DOMAIN r.block :
          /\ m.block[b].prev = r.block[b].prev
          /\ m.block[b].next = r.block[b].next
          /\ m.block[b].size = r.block[b].size
          /\ ~m.block[b].free => m.block[b].asked + Header <= m.block[b].size

LEMMA ChainRelabelled ==
    ASSUME NEW r, IsChain(r), NEW m, IsRelabelled(r, m)
    PROVE  /\ IsChain(m)
           /\ \A b \in DOMAIN r.block : End(m, b) = End(r, b)
<1>1. \A b \in DOMAIN r.block : End(m, b) = End(r, b)
  BY DEF IsRelabelled, End
<1>2. ASSUME NEW b \in DOMAIN r.block PROVE IsLinked(m, b)
  <2>1. IsLinked(r, b)
    BY DEF IsChain
  <2>2. /\ m.block[b].prev = r.block[b].prev
        /\ m.block[b].next = r.block[b].next
        /\ m.block[b].size = r.block[b].size
        /\ ~m.block[b].free => m.block[b].asked + Header <= m.block[b].size
        /\ m.last = r.last /\ DOMAIN m.block = DOMAIN r.block
    BY DEF IsRelabelled
  <2>3. IF b = m.last
        THEN m.block[b].next = Null /\ End(m, b) = Size
        ELSE /\ m.block[b].next = End(m, b)
             /\ End(m, b) \in DOMAIN m.block
             /\ m.block[End(m, b)].prev = b
    <3>1. b # m.last => End(r, b) \in DOMAIN r.block /\ r.block[End(r, b)].prev = b
      BY <2>1, <2>2 DEF IsLinked
    <3>2. b # m.last => m.block[End(r, b)].prev = b
      BY <3>1 DEF IsRelabelled
    <3> QED
      BY <1>1, <2>1, <2>2, <3>1, <3>2 DEF IsLinked
  <2>4. IF b = First
        THEN m.block[b].prev = Null
        ELSE /\ m.block[b].prev \in DOMAIN m.block
             /\ End(m, m.block[b].prev) = b
    BY <1>1, <2>1, <2>2 DEF IsLinked
  <2> QED
    BY <2>1, <2>2, <2>3, <2>4 DEF IsLinked
<1>3. ASSUME NEW b \in DOMAIN r.block, NEW d \in DOMAIN r.block, b < d PROVE End(m, b) <= d
  BY <1>1, <1>3 DEF IsChain
<1> QED
  BY <1>1, <1>2, <1>3 DEF IsChain, IsRelabelled

\* The place to consume moves.
LEMMA ConsumeMoved ==
    ASSUME NEW r, IsChain(r), NEW p \in DOMAIN r.block
    PROVE  LET m == [r EXCEPT !.consume = p] IN
           /\ IsChain(m)
           /\ m.block = r.block /\ m.produce = r.produce /\ m.last = r.last /\ m.consume = p
<1> DEFINE m == [r EXCEPT !.consume = p]
<1>1. IsRing(r)
  BY DEF IsChain
<1>2. r = [block |-> r.block, produce |-> r.produce, consume |-> r.consume, last |-> r.last]
  BY <1>1 DEF IsRing
<1>3. m = [block |-> r.block, produce |-> r.produce, consume |-> p, last |-> r.last]
  BY <1>2
<1> HIDE DEF m
<1>4. m.block = r.block /\ m.produce = r.produce /\ m.last = r.last /\ m.consume = p
  BY <1>3
<1>5. IsRing(m)
  BY <1>1, <1>3, <1>4 DEF IsRing
<1>6. IsRelabelled(r, m)
  <2>1. \A b \in DOMAIN r.block : ~r.block[b].free => r.block[b].asked + Header <= r.block[b].size
    BY BlockOfChain DEF IsLinked
  <2> QED
    BY <1>4, <1>5, <2>1 DEF IsRelabelled
<1>7. IsChain(m)
  BY <1>6, ChainRelabelled
<1> QED
  BY <1>4, <1>7 DEF m

\* A block is set free.
IsFreed(r, p, m) ==
    /\ IsChain(m)
    /\ DOMAIN m.block = DOMAIN r.block
    /\ m.produce = r.produce /\ m.last = r.last /\ m.consume = r.consume
    /\ m.block[p].free
    /\ m.block[p].prev = r.block[p].prev /\ m.block[p].size = r.block[p].size
    /\ \A b \in DOMAIN r.block \ {p} : m.block[b] = r.block[b]

LEMMA BlockFreed ==
    ASSUME NEW r, IsChain(r), NEW p \in DOMAIN r.block
    PROVE  IsFreed(r, p, [r EXCEPT !.block[p].free = TRUE])
<1> DEFINE h == [r.block[p] EXCEPT !.free = TRUE]
           f == [r.block EXCEPT ![p] = h]
           m == [r EXCEPT !.block[p].free = TRUE]
<1>1. IsRing(r) /\ r.block[p] \in HeaderType
  BY BlockOfChain DEF IsChain
<1>2. r = [block |-> r.block, produce |-> r.produce, consume |-> r.consume, last |-> r.last]
  BY <1>1 DEF IsRing
<1>3. m = [block |-> f, produce |-> r.produce, consume |-> r.consume, last |-> r.last]
  <2>1. m = [r EXCEPT !.block = f]
    OBVIOUS
  <2> HIDE DEF f, m
  <2> QED
    BY <1>2, <2>1
<1>4. /\ h \in HeaderType /\ h.free /\ h.prev = r.block[p].prev /\ h.size = r.block[p].size
      /\ h.next = r.block[p].next /\ h.asked = r.block[p].asked
  BY <1>1 DEF HeaderType
<1> HIDE DEF h, m
<1>5. f \in [DOMAIN r.block -> HeaderType] /\ f[p] = h /\ \A b \in DOMAIN r.block \ {p} : f[b] = r.block[b]
  BY <1>1, <1>4 DEF IsRing
<1> HIDE DEF f
<1>6. /\ m.block = f /\ DOMAIN f = DOMAIN r.block
      /\ m.produce = r.produce /\ m.last = r.last /\ m.consume = r.consume
  BY <1>3, <1>5
<1>7. IsRing(m)
  BY <1>1, <1>3, <1>5, <1>6 DEF IsRing
<1>8. IsRelabelled(r, m)
  <2>1. \A b \in DOMAIN r.block : ~r.block[b].free => r.block[b].asked + Header <= r.block[b].size
    BY BlockOfChain DEF IsLinked
  <2>2. ASSUME NEW b \in DOMAIN r.block
        PROVE  /\ m.block[b].prev = r.block[b].prev
               /\ m.block[b].next = r.block[b].next
               /\ m.block[b].size = r.block[b].size
               /\ ~m.block[b].free => m.block[b].asked + Header <= m.block[b].size
    <3>1. CASE b = p
      BY <1>4, <1>5, <1>6, <3>1
    <3>2. CASE b # p
      BY <1>5, <1>6, <2>1, <3>2
    <3> QED
      BY <3>1, <3>2
  <2> QED
    BY <1>6, <1>7, <2>2 DEF IsRelabelled
<1>9. IsChain(m)
  BY <1>8, ChainRelabelled
<1> QED
  BY <1>4, <1>5, <1>6, <1>9 DEF IsFreed, m

-----------------------------------------------------------------------------
(* The loops *)

\* f is the loop of AdvanceToUsed from r, turn by turn.
IsPassing(r, f, N) == f = [n \in 0 .. N |-> IF n = 0 THEN r ELSE PassFree(f[n - 1])]

LEMMA PassingExists ==
    ASSUME NEW r, NEW N \in Nat
    PROVE  \E f : IsPassing(r, f, N)
<1> DEFINE T == {n \in Nat : \E f : IsPassing(r, f, n)}
<1>1. 0 \in T
  <2> DEFINE f == [n \in 0 .. 0 |-> r]
  <2>1. f = [n \in 0 .. 0 |-> IF n = 0 THEN r ELSE PassFree(f[n - 1])]
    OBVIOUS
  <2> HIDE DEF f
  <2> QED
    BY <2>1 DEF IsPassing
<1>2. ASSUME NEW n \in Nat, n \in T PROVE n + 1 \in T
  <2>1. PICK f : IsPassing(r, f, n)
    BY <1>2
  <2> DEFINE g == [k \in 0 .. n + 1 |-> IF k = n + 1 THEN PassFree(f[n]) ELSE f[k]]
  <2>2. DOMAIN g = 0 .. n + 1 /\ \A k \in 0 .. n : g[k] = f[k]
    OBVIOUS
  <2>3. g[n + 1] = PassFree(g[n])
    BY <2>2
  <2>4. ASSUME NEW k \in 0 .. n + 1
        PROVE  g[k] = IF k = 0 THEN r ELSE PassFree(g[k - 1])
    <3>1. CASE k = n + 1
      BY <2>3, <3>1
    <3>2. CASE k # n + 1
      <4>1. k \in 0 .. n /\ (k # 0 => k - 1 \in 0 .. n)
        BY <3>2
      <4>2. f[k] = IF k = 0 THEN r ELSE PassFree(f[k - 1])
        BY <2>1, <4>1 DEF IsPassing
      <4> HIDE DEF g
      <4> QED
        BY <2>2, <4>1, <4>2
    <3> QED
      BY <3>1, <3>2
  <2>5. g = [k \in 0 .. n + 1 |-> g[k]]
    OBVIOUS
  <2> HIDE DEF g
  <2>6. g = [k \in 0 .. n + 1 |-> IF k = 0 THEN r ELSE PassFree(g[k - 1])]
    BY <2>4, <2>5
  <2> QED
    BY <2>6 DEF IsPassing
<1>3. Nat \subseteq T
  <2> HIDE DEF T
  <2> QED
    BY <1>1, <1>2, SetInduction
<1> QED
  BY <1>3

LEMMA Passing ==
    ASSUME NEW r
    PROVE  \E f : IsPassing(r, f, Blocks) /\ AdvanceToUsed(r) = f[Blocks]
<1> DEFINE after[n \in 0 .. Blocks] == IF n = 0 THEN r ELSE PassFree(after[n - 1])
<1>1. AdvanceToUsed(r) = after[Blocks]
  BY DEF AdvanceToUsed
<1>2. \E f : IsPassing(r, f, Blocks)
  BY PassingExists, SizeIsUnits
<1>3. IsPassing(r, CHOOSE f : IsPassing(r, f, Blocks), Blocks)
  BY <1>2, Zenon
<1>4. after = CHOOSE f : IsPassing(r, f, Blocks)
  BY DEF after, IsPassing
<1> HIDE DEF after
<1> QED
  BY <1>1, <1>3, <1>4

\* A loop that has nothing to do after its first turn.
LEMMA PassedOnce ==
    ASSUME NEW r, NEW x, PassFree(r) = x, PassFree(x) = x
    PROVE  AdvanceToUsed(r) = x
<1>1. PICK f : IsPassing(r, f, Blocks) /\ AdvanceToUsed(r) = f[Blocks]
  BY Passing
<1>2. Blocks \in Nat \ {0}
  BY SizeIsUnits
<1>3. \A n \in 0 .. Blocks : f[n] = IF n = 0 THEN r ELSE PassFree(f[n - 1])
  BY <1>1, <1>2 DEF IsPassing
<1> DEFINE T == {n \in Nat : n + 1 <= Blocks => f[n + 1] = x}
<1>4. 0 \in T
  <2>1. f[0] = r /\ f[1] = PassFree(f[0])
    BY <1>2, <1>3
  <2> QED
    BY <2>1
<1>5. ASSUME NEW n \in Nat, n \in T PROVE n + 1 \in T
  <2> SUFFICES ASSUME n + 2 <= Blocks PROVE f[n + 2] = x
    OBVIOUS
  <2>1. n + 2 \in 0 .. Blocks /\ n + 2 # 0 /\ n + 2 - 1 = n + 1
    BY <1>2
  <2>2. f[n + 2] = PassFree(f[n + 1])
    BY <1>3, <2>1
  <2>3. f[n + 1] = x
    BY <1>2, <1>5
  <2> QED
    BY <2>2, <2>3
<1>6. Nat \subseteq T
  <2> HIDE DEF T
  <2> QED
    BY <1>4, <1>5, SetInduction
<1>7. Blocks - 1 \in T /\ Blocks - 1 + 1 = Blocks
  BY <1>2, <1>6
<1> QED
  BY <1>1, <1>2, <1>7

-----------------------------------------------------------------------------
(* Dropping the oldest item *)

\* No two free blocks are next to each other.
Alternates(r) ==
    \A b \in DOMAIN r.block : r.block[b].free /\ b # r.last => ~r.block[End(r, b)].free

\* The items lie from m_pConsume on to m_pProduce, around the end of the
\* memory, where a block may be left that was too small.
InCycle(r) ==
    IF r.block[r.consume].free
    THEN DOMAIN r.block = {First}
    ELSE \A b \in DOMAIN r.block :
            /\ r.consume < r.produce =>
                  (r.block[b].free <=> b < r.consume \/ b >= r.produce)
            /\ r.consume >= r.produce =>
                  /\ b < r.produce => ~r.block[b].free
                  /\ b >= r.produce /\ b < r.consume => r.block[b].free
                  /\ b >= r.consume /\ b # r.last => ~r.block[b].free

IsTidy(r) == IsChain(r) /\ Alternates(r) /\ InCycle(r)

\* m is r with the free block p joined to the one before it, if that is free too.
IsMergedBack(r, p, m, p0) ==
    /\ IsChain(m)
    /\ p0 \in DOMAIN m.block /\ m.block[p0].free
    /\ p0 <= p /\ End(m, p0) = End(r, p)
    /\ DOMAIN m.block \subseteq DOMAIN r.block
    /\ \A b \in DOMAIN r.block : b \in DOMAIN m.block <=> (b # p \/ b = p0)
    /\ p0 # p => r.block[p0].free /\ End(r, p0) = p
    /\ p0 = p => \A b \in DOMAIN r.block : End(r, b) = p => ~r.block[b].free
    /\ \A b \in DOMAIN m.block \ {p0} : Same(m.block[b], r.block[b])
    /\ m.produce = IF r.produce = p THEN p0 ELSE r.produce
    /\ m.consume = IF r.consume = p THEN p0 ELSE r.consume
    /\ m.last = IF r.last = p THEN p0 ELSE r.last

LEMMA MergedBack ==
    ASSUME NEW r, IsChain(r), NEW p \in DOMAIN r.block, r.block[p].free
    PROVE  IsMergedBack(r, p, MergeBack(r, p), Merged(r, p))
<1>0. IsRing(r) /\ p \in Nat /\ End(r, p) \in Nat
  BY BlockOfChain DEF IsChain
<1>1. CASE IsMergeable(r, p)
  <2> DEFINE q == r.block[p].prev
             m == MergeBack(r, p)
  <2>1. Merged(r, p) = q
    BY <1>1 DEF Merged
  <2>2. IsChain(m) /\ IsJoined(r, p, q, m)
    BY <1>1, ChainJoined
  <2>3. q # Null /\ r.block[q].free
    BY <1>1 DEF IsMergeable
  <2>4. q \in DOMAIN r.block /\ End(r, q) = p /\ q < p /\ q \in Nat
    BY <2>3, PrevOfChain, BlockOfChain
  <2> HIDE DEF q, m
  <2>5. End(m, q) = End(r, p)
    <3>1. r.block[p].size \in Nat /\ r.block[q].size \in Nat
      BY <2>4, BlockOfChain
    <3> QED
      BY <1>0, <2>2, <2>4, <3>1 DEF End, IsJoined
  <2>6. q # p
    BY <1>0, <2>4
  <2>7. \A b \in DOMAIN m.block \ {q} : Same(m.block[b], r.block[b])
    BY <2>2 DEF IsJoined
  <2>8. /\ m.produce = IF r.produce = p THEN q ELSE r.produce
        /\ m.consume = IF r.consume = p THEN q ELSE r.consume
        /\ m.last = IF r.last = p THEN q ELSE r.last
        /\ DOMAIN m.block = DOMAIN r.block \ {p}
        /\ m.block[q].free
    BY <2>2, <2>3 DEF IsJoined
  <2>9. IsMergedBack(r, p, m, q)
    BY <1>0, <2>2, <2>3, <2>4, <2>5, <2>6, <2>7, <2>8 DEF IsMergedBack
  <2> QED
    BY <2>1, <2>9 DEF m
<1>2. CASE ~IsMergeable(r, p)
  <2>1. MergeBack(r, p) = r /\ Merged(r, p) = p
    BY <1>2 DEF MergeBack, Merged
  <2>2. ASSUME NEW b \in DOMAIN r.block, End(r, b) = p PROVE ~r.block[b].free
    <3>1. r.block[p].prev = b /\ b # Null
      <4>1. b \in Nat
        BY BlockOfChain
      <4> QED
        BY <2>2, <4>1, NextOfChain DEF Null
    <3> QED
      BY <1>2, <3>1 DEF IsMergeable
  <2>3. \A b \in DOMAIN r.block \ {p} : Same(r.block[b], r.block[b])
    BY DEF Same
  <2> QED
    BY <1>0, <2>1, <2>2, <2>3 DEF IsMergedBack
<1> QED
  BY <1>1, <1>2

\* m is r without its oldest item, p0 the free block that it has become part of.
IsGivenUp(r, m, p0) ==
    LET c == r.consume IN
    /\ IsChain(m)
    /\ p0 \in DOMAIN m.block /\ m.block[p0].free
    /\ p0 <= c /\ End(m, p0) = End(r, c)
    /\ DOMAIN m.block \subseteq DOMAIN r.block
    /\ \A b \in DOMAIN r.block : b \in DOMAIN m.block <=> (b # c \/ b = p0)
    /\ p0 # c => r.block[p0].free /\ End(r, p0) = c
    /\ \A b \in DOMAIN r.block : End(r, b) = p0 => ~r.block[b].free
    /\ \A b \in DOMAIN m.block \ {p0} : Same(m.block[b], r.block[b])
    /\ m.produce = IF r.produce = c THEN p0 ELSE r.produce
    /\ m.last = IF r.last = c THEN p0 ELSE r.last

LEMMA GivenUp ==
    ASSUME NEW r, IsTidy(r), ~r.block[r.consume].free
    PROVE  LET r1 == [r EXCEPT !.block[r.consume].free = TRUE] IN
           IsGivenUp(r, MergeBack(r1, r.consume), Merged(r1, r.consume))
<1> DEFINE c == r.consume
           r1 == [r EXCEPT !.block[r.consume].free = TRUE]
           m == MergeBack(r1, c)
           p0 == Merged(r1, c)
<1>1. IsChain(r) /\ Alternates(r) /\ c \in DOMAIN r.block /\ c \in Nat
  BY BlockOfChain DEF IsTidy, IsChain, IsRing
<1>2. IsFreed(r, c, r1)
  BY <1>1, BlockFreed
<1> HIDE DEF r1, c
<1>3. IsMergedBack(r1, c, m, p0)
  BY <1>1, <1>2, MergedBack DEF IsFreed
<1> HIDE DEF m, p0
<1>4. /\ DOMAIN r1.block = DOMAIN r.block
      /\ \A b \in DOMAIN r.block : End(r1, b) = End(r, b)
      /\ \A b \in DOMAIN r.block \ {c} : r1.block[b] = r.block[b]
      /\ r1.block[c].free
      /\ r1.produce = r.produce /\ r1.last = r.last
  BY <1>2 DEF IsFreed, End
<1>5. ASSUME NEW b \in DOMAIN r.block, End(r, b) = p0 PROVE ~r.block[b].free
  <2>1. CASE p0 = c
    <3>1. ~r1.block[b].free
      BY <1>3, <1>4, <1>5, <2>1 DEF IsMergedBack
    <3> QED
      BY <1>4, <3>1
  <2>2. CASE p0 # c
    <3>1. p0 \in DOMAIN r.block /\ r.block[p0].free
      BY <1>3, <1>4, <2>2 DEF IsMergedBack
    <3>2. b # r.last
      <4>1. p0 < Size /\ p0 \in Nat
        BY <1>1, <3>1, BlockOfChain
      <4> QED
        BY <1>1, <1>5, <4>1, NextOfChain
    <3> QED
      BY <1>1, <1>5, <3>1, <3>2 DEF Alternates
  <2> QED
    BY <2>1, <2>2
<1>6. /\ IsChain(m)
      /\ p0 \in DOMAIN m.block /\ m.block[p0].free
      /\ p0 <= c /\ End(m, p0) = End(r, c)
      /\ DOMAIN m.block \subseteq DOMAIN r.block
      /\ \A b \in DOMAIN r.block : b \in DOMAIN m.block <=> (b # c \/ b = p0)
      /\ m.produce = IF r.produce = c THEN p0 ELSE r.produce
      /\ m.last = IF r.last = c THEN p0 ELSE r.last
  BY <1>1, <1>3, <1>4 DEF IsMergedBack
<1>7. p0 # c => r.block[p0].free /\ End(r, p0) = c
  BY <1>3, <1>4, <1>6 DEF IsMergedBack
<1>8. \A b \in DOMAIN m.block \ {p0} : Same(m.block[b], r.block[b])
  <2>1. \A b \in DOMAIN m.block \ {p0} : b \in DOMAIN r.block \ {c}
    BY <1>6
  <2> QED
    BY <1>3, <1>4, <2>1 DEF IsMergedBack
<1>9. IsGivenUp(r, m, p0)
  BY <1>5, <1>6, <1>7, <1>8 DEF IsGivenUp, c
<1> QED
  BY <1>9 DEF m, p0, r1, c

\* m is r without its oldest item, and otherwise has what r has.
IsDropped(r, m) ==
    /\ IsTidy(m)
    /\ Used(m) = Used(r) \ {r.consume}
    /\ \A b \in Used(m) : Same(m.block[b], r.block[b])
    /\ Used(m) # {} => m.produce = r.produce

\* What is true of the blocks that are left, wherever the place to consume moves.
IsLeft(r, x, p0) ==
    /\ IsChain(x)
    /\ p0 \in DOMAIN x.block /\ x.block[p0].free
    /\ \A b \in DOMAIN x.block \ {p0} : /\ b \in DOMAIN r.block /\ b # r.consume
                                        /\ Same(x.block[b], r.block[b])
                                        /\ End(x, b) = End(r, b)
                                        /\ End(r, b) = p0 => ~r.block[b].free
    /\ Used(x) = Used(r) \ {r.consume}

\* Among them no free block follows another, if only the new one does not.
LEMMA LeftAlternates ==
    ASSUME NEW r, IsTidy(r), NEW x, NEW p0, IsLeft(r, x, p0),
           p0 # x.last => ~x.block[End(x, p0)].free,
           r.last \notin {x.last, r.consume} => r.last \notin DOMAIN x.block
    PROVE  Alternates(x)
<1> SUFFICES ASSUME NEW b \in DOMAIN x.block, x.block[b].free, b # x.last
             PROVE  ~x.block[End(x, b)].free
  BY DEF Alternates
<1>1. CASE b = p0
  BY <1>1
<1>2. CASE b # p0
  <2>1. /\ b \in DOMAIN r.block /\ b # r.consume /\ r.block[b].free /\ End(x, b) = End(r, b)
        /\ End(r, b) # p0
    BY <1>2 DEF IsLeft, Same
  <2>2. b # r.last
    <3>1. b \in DOMAIN x.block
      OBVIOUS
    <3> QED
      BY <2>1, <3>1
  <2>3. ~r.block[End(r, b)].free
    BY <2>1, <2>2 DEF IsTidy, Alternates
  <2>4. End(x, b) \in DOMAIN x.block
    <3>1. IsLinked(x, b)
      BY BlockOfChain DEF IsLeft
    <3> QED
      BY <3>1 DEF IsLinked
  <2> QED
    BY <2>1, <2>3, <2>4 DEF IsLeft, Same
<1> QED
  BY <1>1, <1>2

LEMMA LeftByGivenUp ==
    ASSUME NEW r, IsTidy(r), ~r.block[r.consume].free,
           NEW m, NEW p0, IsGivenUp(r, m, p0),
           NEW x, IsChain(x), x.block = m.block
    PROVE  IsLeft(r, x, p0)
<1> DEFINE c == r.consume
<1>1. c \in DOMAIN r.block /\ c \in Nat
  BY BlockOfChain DEF IsTidy, IsChain, IsRing
<1>2. ASSUME NEW b \in DOMAIN x.block \ {p0}
      PROVE  /\ b \in DOMAIN r.block /\ b # c /\ Same(x.block[b], r.block[b])
             /\ End(x, b) = End(r, b)
             /\ End(r, b) = p0 => ~r.block[b].free
  <2>1. b \in DOMAIN r.block /\ b # c /\ Same(x.block[b], r.block[b])
    BY <1>2 DEF IsGivenUp
  <2>2. End(r, b) = p0 => ~r.block[b].free
    BY <2>1 DEF IsGivenUp
  <2>3. End(x, b) = End(r, b)
    BY <2>1 DEF Same, End
  <2> QED
    BY <2>1, <2>2, <2>3
<1>3. p0 \in DOMAIN x.block /\ x.block[p0].free
  BY DEF IsGivenUp
<1>4. Used(x) = Used(r) \ {c}
  <2>1. ASSUME NEW b \in Used(x) PROVE b \in Used(r) \ {c}
    <3>1. b # p0
      BY <1>3 DEF Used
    <3> QED
      BY <1>2, <3>1 DEF Used, Same
  <2>2. ASSUME NEW b \in Used(r) \ {c} PROVE b \in Used(x)
    <3>1. b # p0
      BY DEF IsGivenUp, Used
    <3>2. b \in DOMAIN x.block
      BY <2>2 DEF IsGivenUp, Used
    <3> QED
      BY <1>2, <2>2, <3>1, <3>2 DEF Used, Same
  <2> QED
    BY <2>1, <2>2
<1> QED
  BY <1>2, <1>3, <1>4 DEF IsLeft

\* The item after the oldest one is the oldest then.
LEMMA DroppedToNext ==
    ASSUME NEW r, IsTidy(r), ~r.block[r.consume].free, r.consume # r.last,
           ~r.block[End(r, r.consume)].free,
           NEW m, NEW p0, IsGivenUp(r, m, p0),
           NEW x, IsChain(x), x.block = m.block, x.produce = m.produce, x.last = m.last,
           x.consume = End(r, r.consume)
    PROVE  IsDropped(r, x)
<1> DEFINE c == r.consume
           p == r.produce
           n == End(r, c)
<1>1. /\ IsChain(r) /\ c \in DOMAIN r.block /\ p \in DOMAIN r.block /\ c \in Nat /\ p \in Nat
      /\ n \in DOMAIN r.block /\ c < n /\ n \in Nat
      /\ \A b \in DOMAIN r.block : b \in Nat /\ (c < b => n <= b)
  <2>1. IsChain(r) /\ c \in DOMAIN r.block /\ p \in DOMAIN r.block
    BY DEF IsTidy, IsChain, IsRing
  <2>2. IsLinked(r, c) /\ c \in Nat /\ c < End(r, c) /\ End(r, c) \in Nat
    BY <2>1, BlockOfChain
  <2>3. \A b \in DOMAIN r.block : b \in Nat /\ (c < b => n <= b)
    BY <2>1, BlockOfChain, NextOfChain
  <2> QED
    BY <2>1, <2>2, <2>3, BlockOfChain DEF IsLinked
<1> HIDE DEF c, p, n
<1>2. /\ \A b \in DOMAIN r.block :
            /\ c < p => (r.block[b].free <=> b < c \/ b >= p)
            /\ c >= p => /\ b < p => ~r.block[b].free
                         /\ b >= p /\ b < c => r.block[b].free
                         /\ b >= c /\ b # r.last => ~r.block[b].free
  BY DEF IsTidy, InCycle, c, p
<1>3. /\ p0 <= c /\ p0 \in DOMAIN r.block /\ End(x, p0) = n /\ (p0 # c => r.block[p0].free)
      /\ x.produce = (IF p = c THEN p0 ELSE p) /\ x.last = r.last /\ x.consume = n
  BY DEF IsGivenUp, End, c, p, n
<1>4. x.produce = p
  BY <1>1, <1>2, <1>3
<1>5. IsLeft(r, x, p0)
  BY LeftByGivenUp
<1>6. n \in DOMAIN x.block /\ n # p0 /\ ~x.block[n].free
  <2>1. n \in Used(r) \ {c}
    BY <1>1 DEF Used, n, c
  <2>2. n \in Used(x)
    BY <1>5, <2>1 DEF IsLeft, c
  <2> QED
    BY <1>1, <1>3, <2>2 DEF Used
<1>7. Alternates(x)
  <2>1. p0 # x.last => ~x.block[End(x, p0)].free
    BY <1>3, <1>6
  <2>2. r.last \notin {x.last, r.consume} => r.last \notin DOMAIN x.block
    BY <1>3
  <2> QED
    BY <1>5, <2>1, <2>2, LeftAlternates
<1>8. InCycle(x)
  <2>1. ASSUME NEW b \in DOMAIN x.block
        PROVE  /\ n < p => (x.block[b].free <=> b < n \/ b >= p)
               /\ n >= p => /\ b < p => ~x.block[b].free
                            /\ b >= p /\ b < n => x.block[b].free
                            /\ b >= n /\ b # x.last => ~x.block[b].free
    <3>1. CASE b = p0
      BY <1>1, <1>2, <1>3, <1>5, <3>1 DEF IsLeft, c, n
    <3>2. CASE b # p0
      <4>1. b \in DOMAIN r.block /\ b # c /\ x.block[b].free = r.block[b].free
        BY <1>5, <3>2 DEF IsLeft, Same, c
      <4>2. b \in Nat /\ (c < b => n <= b)
        BY <1>1, <4>1
      <4>3. ~r.block[n].free
        BY DEF n, c
      <4> QED
        BY <1>1, <1>2, <1>3, <4>1, <4>2, <4>3
    <3> QED
      BY <3>1, <3>2
  <2> QED
    BY <1>3, <1>4, <1>6, <2>1 DEF InCycle
<1>9. \A b \in Used(x) : Same(x.block[b], r.block[b])
  BY <1>5 DEF IsLeft, Used
<1> QED
  BY <1>4, <1>5, <1>7, <1>8, <1>9 DEF IsDropped, IsTidy, IsLeft, c, p

\* Nothing is left.
LEMMA DroppedLast ==
    ASSUME NEW r, IsTidy(r), Used(r) \subseteq {r.consume},
           NEW x, IsChain(x), DOMAIN x.block = {First}, x.block[First].free
    PROVE  IsDropped(r, x)
<1>1. x.consume = First /\ x.last = First
  BY DEF IsChain, IsRing
<1>2. Alternates(x) /\ InCycle(x)
  BY <1>1 DEF Alternates, InCycle
<1>3. Used(x) = {}
  BY DEF Used
<1> QED
  BY <1>2, <1>3 DEF IsDropped, IsTidy

\* The items go on at the beginning of the memory, if any are left.
LEMMA DroppedAround ==
    ASSUME NEW r, IsTidy(r), ~r.block[r.consume].free, r.consume >= r.produce,
           NEW x, NEW p0, IsLeft(r, x, p0), p0 <= r.consume, p0 >= r.produce,
           x.last = p0, x.produce = r.produce, x.consume = First
    PROVE  /\ IsDropped(r, x)
           /\ x.block[First].free => First = r.produce
<1> DEFINE c == r.consume
           p == r.produce
<1>1. /\ IsChain(r) /\ c \in DOMAIN r.block /\ p \in DOMAIN r.block /\ c \in Nat /\ p \in Nat
      /\ First \in DOMAIN x.block
  <2>1. IsChain(r) /\ c \in DOMAIN r.block /\ p \in DOMAIN r.block
    BY DEF IsTidy, IsChain, IsRing
  <2>2. First \in DOMAIN x.block
    BY DEF IsLeft, IsChain, IsRing
  <2> QED
    BY <2>1, <2>2, BlockOfChain
<1>2. /\ IsChain(x) /\ p0 \in DOMAIN x.block /\ x.block[p0].free /\ p0 \in Nat
      /\ \A b \in DOMAIN x.block : b \in Nat /\ b <= p0
  <2>1. IsChain(x) /\ p0 \in DOMAIN x.block /\ x.block[p0].free
    BY DEF IsLeft
  <2>2. \A b \in DOMAIN x.block : b \in Nat
    BY <2>1, BlockOfChain
  <2> QED
    BY <2>1, <2>2, NextOfChain
<1>3. ~r.block[c].free
  OBVIOUS
<1> HIDE DEF c, p
<1>4. \A b \in DOMAIN r.block : /\ b < p => ~r.block[b].free
                                /\ b >= p /\ b < c => r.block[b].free
  BY DEF IsTidy, InCycle, c, p
<1>5. CASE First = p
  <2>1. p0 = First
    <3> SUFFICES ASSUME p0 # First PROVE FALSE
      OBVIOUS
    <3> DEFINE d == x.block[p0].prev
    <3>1. d \in DOMAIN x.block /\ End(x, d) = p0 /\ d < p0 /\ d \in Nat
      BY <1>2, PrevOfChain
    <3> HIDE DEF d
    <3>2. d \in DOMAIN r.block /\ ~r.block[d].free
      BY <1>2, <3>1 DEF IsLeft
    <3>3. d < c /\ d >= p
      BY <1>1, <1>2, <1>5, <3>1 DEF c, First
    <3> QED
      BY <1>4, <3>2, <3>3
  <2>2. DOMAIN x.block = {First}
    BY <1>1, <1>2, <2>1 DEF First
  <2>3. Used(r) \subseteq {r.consume}
    <3>1. Used(x) = {}
      BY <1>2, <2>1, <2>2 DEF Used
    <3> QED
      BY <3>1 DEF IsLeft
  <2> QED
    BY <1>2, <1>5, <2>1, <2>2, <2>3, DroppedLast DEF p
<1>6. CASE First # p
  <2>1. First < p
    BY <1>1, <1>6 DEF First
  <2>2. First # p0 /\ ~x.block[First].free
    <3>1. First # p0
      BY <1>1, <2>1 DEF First, p
    <3>2. First \in DOMAIN r.block /\ x.block[First].free = r.block[First].free
      BY <1>1, <3>1 DEF IsLeft, Same
    <3> QED
      BY <1>4, <2>1, <3>1, <3>2
  <2>3. InCycle(x)
    <3>1. ASSUME NEW b \in DOMAIN x.block
          PROVE  x.block[b].free <=> b < First \/ b >= p
      <4>1. CASE b = p0
        BY <1>2, <4>1 DEF p
      <4>2. CASE b # p0
        <5>1. b \in DOMAIN r.block /\ x.block[b].free = r.block[b].free
          BY <4>2 DEF IsLeft, Same
        <5>2. b < c /\ b \in Nat
          BY <1>1, <1>2, <4>2 DEF c
        <5> QED
          BY <1>1, <1>4, <5>1, <5>2 DEF First
      <4> QED
        BY <4>1, <4>2
    <3> QED
      BY <1>1, <2>1, <2>2, <3>1 DEF InCycle, p, First
  <2>4. Alternates(x)
    <3>1. r.last \notin {x.last, r.consume} => r.last \notin DOMAIN x.block
      <4> SUFFICES ASSUME r.last \in DOMAIN x.block, r.last # c PROVE FALSE
        BY DEF c
      <4>1. r.last <= c /\ r.last \in Nat
        BY <1>1, <1>2 DEF c
      <4>2. ~ (r.last < c)
        <5>1. r.last \in DOMAIN r.block
          BY <1>1 DEF IsChain, IsRing
        <5> QED
          BY <1>1, <5>1, NextOfChain
      <4> QED
        BY <1>1, <4>1, <4>2
    <3> QED
      BY <3>1, LeftAlternates
  <2>5. \A b \in Used(x) : Same(x.block[b], r.block[b])
    BY <1>2 DEF IsLeft, Used
  <2>6. IsDropped(r, x)
    BY <1>2, <2>3, <2>4, <2>5 DEF IsDropped, IsTidy, IsLeft
  <2> QED
    BY <2>2, <2>6
<1> QED
  BY <1>5, <1>6

\* With the oldest item the last one goes.
LEMMA DroppedToProduce ==
    ASSUME NEW r, IsTidy(r), ~r.block[r.consume].free, r.consume < r.produce,
           End(r, r.consume) = r.produce,
           NEW m, NEW p0, IsGivenUp(r, m, p0),
           NEW a, IsChain(a), a.block = m.block, a.produce = m.produce, a.last = m.last,
           a.consume = r.produce
    PROVE  IsDropped(r, MergeBack(a, a.consume))
<1> DEFINE c == r.consume
           p == r.produce
           x == MergeBack(a, p)
           p1 == Merged(a, p)
<1>1. /\ IsChain(r) /\ c \in DOMAIN r.block /\ p \in DOMAIN r.block /\ c \in Nat /\ p \in Nat
      /\ \A b \in DOMAIN r.block : b \in Nat /\ (c < b => p <= b)
  <2>1. IsChain(r) /\ c \in DOMAIN r.block /\ p \in DOMAIN r.block
    BY DEF IsTidy, IsChain, IsRing
  <2> QED
    BY <2>1, BlockOfChain, NextOfChain
<1>2. \A b \in DOMAIN r.block : r.block[b].free <=> b < c \/ b >= p
  BY DEF IsTidy, InCycle
<1> HIDE DEF c, p, x, p1
<1>3. c < p /\ End(r, c) = p
  BY DEF c, p
<1>4. /\ p0 <= c /\ p0 \in DOMAIN r.block /\ p0 \in DOMAIN a.block /\ a.block[p0].free
      /\ End(a, p0) = p /\ p0 \in Nat /\ p0 < p
      /\ \A b \in DOMAIN r.block : End(r, b) = p0 => ~r.block[b].free
      /\ \A b \in DOMAIN a.block \ {p0} : b \in DOMAIN r.block /\ b # c
  BY <1>1, <1>3 DEF IsGivenUp, End, c, p
<1>5. p0 = First
  <2> SUFFICES ASSUME p0 # First PROVE FALSE
    OBVIOUS
  <2> DEFINE d == r.block[p0].prev
  <2>1. d \in DOMAIN r.block /\ End(r, d) = p0 /\ d < p0
    BY <1>1, <1>4, PrevOfChain
  <2> HIDE DEF d
  <2>2. d < c
    BY <1>1, <1>4, <2>1
  <2> QED
    BY <1>2, <1>4, <2>1, <2>2
<1>6. p = r.last
  <2> SUFFICES ASSUME p # r.last PROVE FALSE
    OBVIOUS
  <2>1. End(r, p) \in DOMAIN r.block /\ End(r, p) > p
    BY <1>1, BlockOfChain DEF IsLinked
  <2>2. r.block[p].free /\ r.block[End(r, p)].free
    BY <1>1, <1>2, <2>1
  <2> QED
    BY <1>1, <2>2 DEF IsTidy, Alternates
<1>7. p \in DOMAIN a.block /\ a.block[p].free
  <2>1. p \in DOMAIN a.block
    BY <1>1, <1>3 DEF IsGivenUp, c, p
  <2>2. a.block[p].free = r.block[p].free
    BY <1>4, <2>1 DEF IsGivenUp, Same
  <2>3. r.block[p].free
    BY <1>1, <1>2
  <2> QED
    BY <2>1, <2>2, <2>3
<1>8. IsMergedBack(a, p, x, p1)
  BY <1>7, MergedBack DEF x, p1
<1>9. p1 = p0
  <2>1. p1 # p
    BY <1>4, <1>8 DEF IsMergedBack
  <2>2. p1 \in DOMAIN a.block /\ End(a, p1) = p
    BY <1>8, <2>1 DEF IsMergedBack
  <2> QED
    BY <1>4, <1>7, <2>2, NextOfChain
<1>10. IsChain(x) /\ p0 \in DOMAIN x.block /\ x.block[p0].free
  BY <1>8, <1>9 DEF IsMergedBack
<1>11. DOMAIN x.block = {First}
  <2> SUFFICES ASSUME NEW b \in DOMAIN x.block, b # p0 PROVE FALSE
    BY <1>5, <1>10
  <2>1. b \in DOMAIN a.block /\ b # p
    BY <1>4, <1>8, <1>9 DEF IsMergedBack
  <2>2. b \in DOMAIN r.block /\ b \in Nat /\ b > p0
    BY <1>1, <1>4, <1>5, <2>1 DEF First
  <2>3. b >= p
    BY <1>4, <2>1, <2>2, NextOfChain
  <2>4. ~ (p < b)
    BY <1>1, <1>6, <2>2, NextOfChain
  <2> QED
    BY <1>1, <2>1, <2>2, <2>3, <2>4
<1>12. Used(r) \subseteq {r.consume}
  <2> SUFFICES ASSUME NEW b \in Used(r), b # c PROVE FALSE
    BY DEF c
  <2>1. b \in DOMAIN r.block /\ ~r.block[b].free
    BY DEF Used
  <2>2. ~ (b < c) /\ ~ (b >= p) /\ b \in Nat
    BY <1>1, <1>2, <2>1
  <2> QED
    BY <1>1, <2>1, <2>2
<1>13. IsDropped(r, x)
  BY <1>5, <1>10, <1>11, <1>12, DroppedLast
<1> QED
  BY <1>13 DEF x, p

LEMMA GivenUpBehind ==
    ASSUME NEW r, IsTidy(r), ~r.block[r.consume].free, r.consume >= r.produce,
           NEW m, NEW p0, IsGivenUp(r, m, p0)
    PROVE  m.produce = r.produce /\ p0 >= r.produce /\ p0 <= r.consume
<1>1. r.produce \in DOMAIN r.block /\ r.consume \in DOMAIN r.block /\ IsChain(r)
  BY DEF IsTidy, IsChain, IsRing
<1>2. r.produce \in Nat /\ r.consume \in Nat
  BY <1>1, BlockOfChain
<1>3. \A b \in DOMAIN r.block : b < r.produce => ~r.block[b].free
  BY DEF IsTidy, InCycle
<1>4. /\ p0 <= r.consume /\ p0 \in DOMAIN r.block
      /\ p0 # r.consume => r.block[p0].free
      /\ m.produce = IF r.produce = r.consume THEN p0 ELSE r.produce
  BY DEF IsGivenUp
<1>5. p0 \in Nat
  BY <1>1, <1>4, BlockOfChain
<1>6. p0 >= r.produce
  BY <1>2, <1>3, <1>4, <1>5
<1> QED
  BY <1>2, <1>4, <1>5, <1>6

\* The first block is joined to none.
LEMMA FirstStays ==
    ASSUME NEW r, IsChain(r)
    PROVE  MergeBack(r, First) = r
<1>1. r.block[First].prev = Null
  BY PrevOfChain DEF IsChain, IsRing
<1> QED
  BY <1>1 DEF MergeBack, IsMergeable

LEMMA UsedStays ==
    ASSUME NEW r, NEW p, ~r.block[p].free
    PROVE  MergeBack(r, p) = r
BY DEF MergeBack, IsMergeable

\* PopFirst drops the oldest item, and nothing else.
LEMMA OldestDropped ==
    ASSUME NEW r, IsTidy(r), ~r.block[r.consume].free
    PROVE  IsDropped(r, Popped(r))
<1> DEFINE c == r.consume
           p == r.produce
           n == End(r, c)
           r1 == [r EXCEPT !.block[r.consume].free = TRUE]
           m == MergeBack(r1, c)
           p0 == Merged(r1, c)
           a == Advance(r1)
<1>1. /\ IsChain(r) /\ c \in DOMAIN r.block /\ p \in DOMAIN r.block /\ c \in Nat /\ p \in Nat
      /\ r1.consume = c
  <2>1. IsChain(r) /\ c \in DOMAIN r.block /\ p \in DOMAIN r.block
    BY DEF IsTidy, IsChain, IsRing
  <2>2. IsFreed(r, c, r1)
    BY <2>1, BlockFreed
  <2> QED
    BY <2>1, <2>2, BlockOfChain DEF IsFreed
<1>2. IsGivenUp(r, m, p0)
  BY GivenUp
<1>3. a = [m EXCEPT !.consume = NextBlock(m, p0)]
  BY <1>1 DEF Advance
<1>4. Popped(r) = MergeBack(AdvanceToUsed(a), AdvanceToUsed(a).consume)
  BY DEF Popped
<1> HIDE DEF c, p, n, r1, m, p0, a
<1>5. IsChain(m) /\ p0 \in DOMAIN m.block /\ p0 <= c /\ End(m, p0) = n /\ p0 \in DOMAIN r.block
  BY <1>2 DEF IsGivenUp, c, n
<1>6. /\ IsChain(a) /\ a.block = m.block /\ a.produce = m.produce /\ a.last = m.last
      /\ a.consume = NextBlock(m, p0)
  <2>1. NextBlock(m, p0) \in DOMAIN m.block
    BY <1>5, NextOfChain
  <2> DEFINE k == NextBlock(m, p0)
  <2>2. k \in DOMAIN m.block
    BY <2>1
  <2> HIDE DEF k
  <2>3. LET y == [m EXCEPT !.consume = k] IN
        /\ IsChain(y)
        /\ y.block = m.block /\ y.produce = m.produce /\ y.last = m.last /\ y.consume = k
    BY <1>5, <2>2, ConsumeMoved
  <2>4. a = [m EXCEPT !.consume = k]
    BY <1>3 DEF k
  <2>5. /\ IsChain(a) /\ a.block = m.block /\ a.produce = m.produce /\ a.last = m.last
        /\ a.consume = k
    BY <2>3, <2>4
  <2> QED
    BY <2>5 DEF k
<1>7. a.consume = IF c = r.last THEN First ELSE n
  <2>1. ~ (r.last < c) /\ r.last \in DOMAIN r.block /\ r.last \in Nat
    <3>1. r.last \in DOMAIN r.block
      BY <1>1 DEF IsChain, IsRing
    <3> QED
      BY <1>1, <3>1, NextOfChain, BlockOfChain
  <2>2. m.last = IF r.last = c THEN p0 ELSE r.last
    BY <1>2 DEF IsGivenUp, c
  <2>3. p0 = m.last <=> c = r.last
    BY <1>1, <1>5, <2>1, <2>2
  <2> QED
    BY <1>5, <1>6, <2>3, NextOfChain
<1>8. c # r.last => n \in DOMAIN r.block /\ n > c /\ n \in Nat /\ n \in DOMAIN a.block /\ n # p0
  <2> SUFFICES ASSUME c # r.last PROVE n \in DOMAIN r.block /\ n > c /\ n \in Nat /\ n \in DOMAIN a.block /\ n # p0
    OBVIOUS
  <2>1. n \in DOMAIN r.block /\ n > c /\ n \in Nat
    BY <1>1, BlockOfChain DEF IsLinked, n
  <2>2. p0 \in Nat
    BY <1>1, <1>5, BlockOfChain
  <2>3. n # p0 /\ n # c
    BY <1>1, <1>5, <2>1, <2>2
  <2>4. n \in DOMAIN a.block
    BY <1>2, <1>6, <2>1, <2>3 DEF IsGivenUp, c
  <2> QED
    BY <2>1, <2>3, <2>4
<1>9. \A b \in DOMAIN a.block \ {p0} : a.block[b].free = r.block[b].free
  BY <1>2, <1>6 DEF IsGivenUp, Same
<1>10. CASE c # r.last /\ ~r.block[n].free
  <2>1. a.consume = n /\ ~a.block[n].free
    BY <1>7, <1>8, <1>9, <1>10
  <2>2. PassFree(a) = a
    BY <2>1 DEF PassFree
  <2>3. AdvanceToUsed(a) = a
    BY <2>2, PassedOnce
  <2>4. MergeBack(a, n) = a
    BY <2>1, UsedStays
  <2>5. IsDropped(r, a)
    BY <1>2, <1>6, <1>10, <2>1, DroppedToNext DEF c, n
  <2> QED
    BY <1>4, <2>1, <2>3, <2>4, <2>5
<1>11. CASE c # r.last /\ r.block[n].free /\ c < p
  <2>1. n <= p /\ n = p
    <3>1. n <= p
      BY <1>1, <1>11, NextOfChain DEF n
    <3>2. ~ (n < p)
      BY <1>1, <1>8, <1>11 DEF IsTidy, InCycle, c, p
    <3> QED
      BY <1>1, <1>8, <1>11, <3>1, <3>2
  <2>2. a.consume = p /\ a.produce = p
    BY <1>1, <1>2, <1>6, <1>7, <1>11, <2>1 DEF IsGivenUp, c, p
  <2>3. PassFree(a) = a
    BY <2>2 DEF PassFree
  <2>4. AdvanceToUsed(a) = a
    BY <2>3, PassedOnce
  <2>5. IsDropped(r, MergeBack(a, a.consume))
    BY <1>2, <1>6, <1>11, <2>1, <2>2, DroppedToProduce DEF c, p, n
  <2> QED
    BY <1>4, <2>4, <2>5
<1>12. CASE c >= p /\ (c # r.last => r.block[n].free)
  <2>1. m.produce = p /\ p0 >= p /\ p0 <= c
    BY <1>2, <1>12, GivenUpBehind DEF c, p
  <2>2. ASSUME NEW x, PassFree(a) = x, IsLeft(r, x, p0), x.last = p0, x.produce = p, x.consume = First
        PROVE  IsDropped(r, Popped(r))
    <3>1. IsDropped(r, x) /\ (x.block[First].free => First = p)
      BY <1>12, <2>1, <2>2, DroppedAround DEF c, p
    <3>2. PassFree(x) = x
      BY <2>2, <3>1 DEF PassFree
    <3>3. AdvanceToUsed(a) = x
      BY <2>2, <3>2, PassedOnce
    <3>4. MergeBack(x, First) = x
      BY <2>2, FirstStays DEF IsLeft
    <3> QED
      BY <1>4, <2>2, <3>1, <3>3, <3>4
  <2>3. CASE c = r.last
    <3>1. IsLeft(r, a, p0)
      BY <1>2, <1>6, LeftByGivenUp
    <3>2. a.last = p0 /\ a.produce = p /\ a.consume = First
      BY <1>2, <1>6, <1>7, <2>1, <2>3 DEF IsGivenUp, c
    <3>3. PassFree(a) = a
      <4>1. a.block[First].free => First = p
        BY <1>12, <2>1, <3>1, <3>2, DroppedAround DEF c, p
      <4> QED
        BY <3>2, <4>1 DEF PassFree
    <3> QED
      BY <2>2, <3>1, <3>2, <3>3
  <2>4. CASE c # r.last
    <3> DEFINE m2 == MergeBack(a, n)
               p2 == Merged(a, n)
               x == Advance(a)
    <3>1. a.consume = n /\ a.block[n].free /\ a.produce = p /\ n # p
      BY <1>1, <1>6, <1>7, <1>8, <1>9, <1>12, <2>1, <2>4
    <3>2. PassFree(a) = x
      BY <3>1 DEF PassFree
    <3>3. IsMergedBack(a, n, m2, p2)
      BY <1>6, <1>8, <2>4, <3>1, MergedBack
    <3>4. x = [m2 EXCEPT !.consume = NextBlock(m2, p2)]
      BY <3>1 DEF Advance
    <3> HIDE DEF m2, p2, x
    <3>5. n = r.last
      BY <1>1, <1>8, <1>12, <2>4 DEF IsTidy, InCycle, c, p
    <3>6. a.last = n
      BY <1>2, <1>6, <2>4, <3>5 DEF IsGivenUp, c
    <3>7. p2 = p0
      <4>1. End(a, p0) = n /\ p0 \in DOMAIN a.block /\ a.block[p0].free
        BY <1>2, <1>5, <1>6 DEF End, IsGivenUp
      <4>2. p2 # n
        BY <3>3, <4>1 DEF IsMergedBack
      <4>3. p2 \in DOMAIN a.block /\ End(a, p2) = n
        BY <3>3, <4>2 DEF IsMergedBack
      <4> QED
        BY <1>6, <1>8, <2>4, <4>1, <4>3, NextOfChain
    <3>8. IsChain(m2) /\ p0 \in DOMAIN m2.block /\ m2.last = p0 /\ m2.produce = p
      BY <3>1, <3>3, <3>6, <3>7 DEF IsMergedBack
    <3>9. NextBlock(m2, p2) = First /\ First \in DOMAIN m2.block
      BY <3>7, <3>8, NextOfChain
    <3>10. IsChain(x) /\ x.block = m2.block /\ x.produce = p /\ x.last = p0 /\ x.consume = First
      <4>1. LET y == [m2 EXCEPT !.consume = First] IN
            /\ IsChain(y)
            /\ y.block = m2.block /\ y.produce = m2.produce /\ y.last = m2.last /\ y.consume = First
        BY <3>8, <3>9, ConsumeMoved
      <4> QED
        BY <3>4, <3>8, <3>9, <4>1
    <3>11. IsLeft(r, x, p0)
      <4>1. IsLeft(r, a, p0)
        BY <1>2, <1>6, LeftByGivenUp
      <4>2. ASSUME NEW b \in DOMAIN x.block \ {p0}
            PROVE  /\ b \in DOMAIN r.block /\ b # c /\ Same(x.block[b], r.block[b])
                   /\ End(x, b) = End(r, b)
                   /\ End(r, b) = p0 => ~r.block[b].free
        <5>1. b \in DOMAIN a.block \ {p0} /\ Same(x.block[b], a.block[b])
          BY <3>3, <3>7, <3>10, <4>2 DEF IsMergedBack
        <5>2. End(x, b) = End(a, b)
          BY <5>1 DEF End, Same
        <5> QED
          BY <4>1, <5>1, <5>2 DEF IsLeft, Same, c
      <4>3. Used(x) = Used(r) \ {c}
        <5>1. Used(x) = Used(a)
          <6>1. p0 \notin Used(x) /\ p0 \notin Used(a) /\ n \notin Used(a)
            BY <3>1, <3>3, <3>7, <3>10, <4>1 DEF IsMergedBack, IsLeft, Used
          <6>2. ASSUME NEW b, b # p0 PROVE b \in Used(x) <=> b \in Used(a)
            BY <3>3, <3>7, <3>10, <6>1, <6>2 DEF IsMergedBack, Used, Same
          <6> QED
            BY <6>1, <6>2
        <5> QED
          BY <4>1, <5>1 DEF IsLeft, c
      <4>4. p0 \in DOMAIN x.block /\ x.block[p0].free
        BY <3>3, <3>7, <3>10 DEF IsMergedBack
      <4> QED
        BY <3>10, <4>2, <4>3, <4>4 DEF IsLeft, c
    <3> QED
      BY <2>2, <3>2, <3>10, <3>11
  <2> QED
    BY <2>3, <2>4
<1>13. c >= p \/ (c < p /\ c # r.last)
  BY <1>1, NextOfChain
<1> QED
  BY <1>1, <1>10, <1>11, <1>12, <1>13

-----------------------------------------------------------------------------
(* Splitting *)

IsTooLarge(r, p, wanted) == r.block[p].size > wanted + Header

\* The header of block b once block p, of size wanted then, is split.
SplitHeader(r, p, wanted, b) ==
    LET q == p + wanted
        n == r.block[p].next
    IN IF b = q
       THEN [prev |-> p, next |-> n, free |-> TRUE, size |-> r.block[p].size - wanted, item |-> 0, asked |-> 0]
       ELSE [prev |-> IF b = n THEN q ELSE r.block[b].prev,
             next |-> IF b = p THEN q ELSE r.block[b].next,
             free |-> r.block[b].free,
             size |-> IF b = p THEN wanted ELSE r.block[b].size,
             item |-> r.block[b].item,
             asked |-> r.block[b].asked]

HasSplit(r, p, wanted, s) ==
    LET q == p + wanted
        n == r.block[p].next
    IN /\ q \notin DOMAIN r.block /\ p < q /\ q < End(r, p) /\ q \in Nat /\ n # p /\ n # q
       /\ DOMAIN s.block = DOMAIN r.block \union {q}
       /\ s.block = [b \in DOMAIN s.block |-> s.block[b]]
       /\ \A b \in DOMAIN r.block \union {q} : s.block[b] = SplitHeader(r, p, wanted, b)
       /\ s = [block |-> s.block, produce |-> r.produce, consume |-> r.consume, last |-> s.last]
       /\ s.produce = r.produce /\ s.consume = r.consume
       /\ s.last = IF n = Null THEN q ELSE r.last

LEMMA HeaderEnlarged ==
    ASSUME NEW h \in HeaderType, NEW s, NEW n
    PROVE  [[h EXCEPT !.next = n] EXCEPT !.size = s]
             = [prev |-> h.prev, next |-> n, free |-> h.free, size |-> s, item |-> h.item, asked |-> h.asked]
<1> DEFINE g == [prev |-> h.prev, next |-> n, free |-> h.free,
                 size |-> h.size, item |-> h.item, asked |-> h.asked]
<1>1. [h EXCEPT !.next = n] = g
  BY DEF HeaderType
<1>2. [g EXCEPT !.size = s] = [prev |-> h.prev, next |-> n, free |-> h.free,
                               size |-> s, item |-> h.item, asked |-> h.asked]
  OBVIOUS
<1> HIDE DEF g
<1> QED
  BY <1>1, <1>2

LEMMA SplitBlocks ==
    ASSUME NEW r, IsChain(r), NEW p \in DOMAIN r.block,
           NEW wanted \in Nat \ {0}, IsTooLarge(r, p, wanted)
    PROVE  HasSplit(r, p, wanted, Split(r, p, wanted))
<1> DEFINE q == p + wanted
           n == r.block[p].next
           D == DOMAIN r.block
           rest == [prev |-> p, next |-> n, free |-> TRUE,
                    size |-> r.block[p].size - wanted, item |-> 0, asked |-> 0]
           hp == [r.block[p] EXCEPT !.next = q, !.size = wanted]
           hn == [r.block[n] EXCEPT !.prev = q]
           blocks == [b \in D \union {q} |->
                        CASE b = q -> rest [] b = p -> hp [] b = n -> hn [] OTHER -> r.block[b]]
           s == Split(r, p, wanted)
<1>1. /\ p \in Nat /\ r.block[p] \in HeaderType /\ r.block[p].size \in Nat /\ End(r, p) \in Nat
      /\ IsLinked(r, p) /\ Header \in Nat \ {0} /\ IsRing(r)
  BY BlockOfChain, SizeIsUnits DEF HeaderType, IsChain
<1>2. q \in Nat /\ p < q /\ q < End(r, p)
  BY <1>1 DEF End, IsTooLarge
<1>3. q \notin D
  <2> SUFFICES ASSUME q \in D PROVE FALSE
    OBVIOUS
  <2>1. End(r, p) <= q
    BY <1>2 DEF IsChain
  <2> QED
    BY <1>1, <1>2, <2>1
<1>4. n # p /\ n # q
  BY <1>1, <1>2, <1>3 DEF IsLinked, Null
<1>5. s = [r EXCEPT !.block = blocks, !.last = IF n = Null THEN q ELSE @]
  BY <1>1, <1>2 DEF Split, IsTooLarge
<1>6. r = [block |-> r.block, produce |-> r.produce, consume |-> r.consume, last |-> r.last]
  BY <1>1 DEF IsRing
<1> HIDE DEF blocks, q, n, s
<1>7. s = [block |-> blocks, produce |-> r.produce, consume |-> r.consume,
           last |-> IF n = Null THEN q ELSE r.last]
  <2> DEFINE t == [block |-> blocks, produce |-> r.produce, consume |-> r.consume, last |-> r.last]
  <2>1. [r EXCEPT !.block = blocks] = t
    BY <1>6
  <2>2. [t EXCEPT !.last = IF n = Null THEN q ELSE r.last]
          = [block |-> blocks, produce |-> r.produce, consume |-> r.consume,
             last |-> IF n = Null THEN q ELSE r.last]
    OBVIOUS
  <2>3. s = [[r EXCEPT !.block = blocks] EXCEPT !.last = IF n = Null THEN q ELSE r.last]
    BY <1>5, <2>1
  <2> HIDE DEF t
  <2> QED
    BY <2>1, <2>2, <2>3
<1>8. DOMAIN blocks = D \union {q} /\ blocks = [b \in DOMAIN blocks |-> blocks[b]]
  BY DEF blocks
<1>9. ASSUME NEW b \in D \union {q} PROVE blocks[b] = SplitHeader(r, p, wanted, b)
  <2>1. CASE b = q
    <3>1. blocks[b] = rest
      <4> HIDE DEF rest, hp, hn
      <4> QED
        BY <1>1, <1>2, <1>4, <2>1 DEF blocks
    <3> QED
      BY <2>1, <3>1 DEF SplitHeader, q, n
  <2>2. CASE b = p
    <3>0. blocks[b] = hp
      <4> HIDE DEF rest, hp, hn
      <4> QED
        BY <1>1, <1>2, <1>4, <2>2 DEF blocks
    <3>1. hp = [[r.block[p] EXCEPT !.next = q] EXCEPT !.size = wanted]
      OBVIOUS
    <3>2. blocks[b] = [prev |-> r.block[p].prev, next |-> q, free |-> r.block[p].free,
                       size |-> wanted, item |-> r.block[p].item, asked |-> r.block[p].asked]
      BY <1>1, <3>0, <3>1, HeaderEnlarged
    <3>3. b # q /\ b # n
      BY <1>1, <1>2, <1>4, <2>2
    <3> QED
      BY <2>2, <3>2, <3>3 DEF SplitHeader, q, n
  <2>3. CASE b # p /\ b # q
    <3>0. blocks[b] = IF b = n THEN hn ELSE r.block[b]
      <4> HIDE DEF rest, hp, hn
      <4> QED
        BY <2>3 DEF blocks
    <3>1. blocks[b] = IF b = n THEN [r.block[b] EXCEPT !.prev = q] ELSE r.block[b]
      BY <3>0
    <3>2. r.block[b] \in HeaderType
      BY <2>3, BlockOfChain
    <3>3. r.block[b] = [prev |-> r.block[b].prev, next |-> r.block[b].next, free |-> r.block[b].free,
                        size |-> r.block[b].size, item |-> r.block[b].item, asked |-> r.block[b].asked]
      BY <3>2 DEF HeaderType
    <3>4. blocks[b] = [prev |-> IF b = n THEN q ELSE r.block[b].prev,
                       next |-> r.block[b].next, free |-> r.block[b].free,
                       size |-> r.block[b].size, item |-> r.block[b].item, asked |-> r.block[b].asked]
      BY <3>1, <3>3
    <3> QED
      BY <2>3, <3>4 DEF SplitHeader, q, n
  <2> QED
    BY <2>1, <2>2, <2>3
<1> HIDE DEF blocks
<1>10. /\ s.block = blocks /\ s.produce = r.produce /\ s.consume = r.consume
       /\ s.last = IF n = Null THEN q ELSE r.last
  BY <1>7
<1>11. \A b \in D \union {q} : s.block[b] = SplitHeader(r, p, wanted, b)
  BY <1>9, <1>10
<1>12. s = [block |-> s.block, produce |-> r.produce, consume |-> r.consume, last |-> s.last]
  BY <1>7, <1>10
<1>13. s.block = [b \in DOMAIN s.block |-> s.block[b]]
  BY <1>8, <1>10
<1>14. HasSplit(r, p, wanted, s)
  BY <1>2, <1>3, <1>4, <1>8, <1>10, <1>11, <1>12, <1>13 DEF HasSplit, q, n
<1> QED
  BY <1>14 DEF s

\* s is r with free block p of at least the size wanted, and what is left over split off.
IsSplit(r, p, wanted, s) ==
    /\ IsChain(s)
    /\ p \in DOMAIN s.block /\ s.block[p].free /\ s.block[p].size >= wanted
    /\ s.produce = r.produce /\ s.consume = r.consume
    /\ \A b \in DOMAIN r.block \ {p} : /\ b \in DOMAIN s.block
                                       /\ Same(s.block[b], r.block[b])
                                       /\ End(s, b) = End(r, b)
    /\ IF IsTooLarge(r, p, wanted)
       THEN LET q == End(s, p) IN
            /\ q \notin DOMAIN r.block /\ p < q /\ q < End(r, p) /\ q \in Nat
            /\ DOMAIN s.block = DOMAIN r.block \union {q}
            /\ s.block[q].free /\ End(s, q) = End(r, p)
            /\ s.last = IF r.last = p THEN q ELSE r.last
       ELSE s = r

LEMMA ChainSplit ==
    ASSUME NEW r, IsChain(r), NEW p \in DOMAIN r.block, r.block[p].free,
           NEW wanted \in Nat \ {0}, IsUnit(wanted), IsTooLarge(r, p, wanted)
    PROVE  IsSplit(r, p, wanted, Split(r, p, wanted))
<1> DEFINE q == p + wanted
           n == r.block[p].next
           D == DOMAIN r.block
           s == Split(r, p, wanted)
<1>1. HasSplit(r, p, wanted, s)
  BY SplitBlocks
<1>2. /\ q \notin D /\ p < q /\ q < End(r, p) /\ q \in Nat /\ n # p /\ n # q
      /\ DOMAIN s.block = D \union {q}
      /\ s.produce = r.produce /\ s.consume = r.consume
      /\ s.last = IF n = Null THEN q ELSE r.last
  BY <1>1 DEF HasSplit
<1>3. \A b \in D : b \in Nat /\ End(r, b) \in Nat /\ b < End(r, b) /\ IsLinked(r, b)
  BY BlockOfChain
<1>4. /\ r.block[p].size \in Nat /\ Header \in Nat \ {0} /\ r.block[p].size > wanted
      /\ r.block[p].size - wanted \in Nat /\ IsRing(r) /\ Size \in Nat \ {0}
  BY BlockOfChain, SizeIsUnits DEF IsTooLarge, IsChain
<1>5. ASSUME NEW b \in D
      PROVE  /\ s.block[b].prev = IF b = n THEN q ELSE r.block[b].prev
             /\ s.block[b].next = IF b = p THEN q ELSE r.block[b].next
             /\ s.block[b].free = r.block[b].free
             /\ s.block[b].size = IF b = p THEN wanted ELSE r.block[b].size
             /\ s.block[b].item = r.block[b].item
             /\ s.block[b].asked = r.block[b].asked
             /\ s.block[b] \in HeaderType
  <2>1. s.block[b] = SplitHeader(r, p, wanted, b) /\ b # q
    BY <1>1, <1>2 DEF HasSplit
  <2>2. r.block[b] \in HeaderType
    BY BlockOfChain
  <2>3. /\ r.block[b].prev \in Int /\ r.block[b].next \in Int /\ r.block[b].free \in BOOLEAN
        /\ r.block[b].size \in Nat /\ r.block[b].item \in Item /\ r.block[b].asked \in Nat
    BY <2>2 DEF HeaderType
  <2> HIDE DEF q, n, s
  <2>4. s.block[b] = [prev |-> IF b = n THEN q ELSE r.block[b].prev,
                      next |-> IF b = p THEN q ELSE r.block[b].next,
                      free |-> r.block[b].free,
                      size |-> IF b = p THEN wanted ELSE r.block[b].size,
                      item |-> r.block[b].item,
                      asked |-> r.block[b].asked]
    BY <2>1 DEF SplitHeader, q, n
  <2>5. s.block[b] \in HeaderType
    BY <1>2, <2>3, <2>4 DEF HeaderType
  <2> QED
    BY <2>4, <2>5
<1>6. /\ s.block[q].prev = p
      /\ s.block[q].next = n
      /\ s.block[q].free
      /\ s.block[q].size = r.block[p].size - wanted
      /\ s.block[q] \in HeaderType
  <2>1. s.block[q] = SplitHeader(r, p, wanted, q)
    BY <1>1 DEF HasSplit
  <2>2. n \in Int /\ 0 \in Item
    BY BlockOfChain, SizeAssumption DEF HeaderType, Item
  <2> HIDE DEF n, s
  <2>3. s.block[q] = [prev |-> p, next |-> n, free |-> TRUE, size |-> r.block[p].size - wanted,
                      item |-> 0, asked |-> 0]
    BY <2>1 DEF SplitHeader, n
  <2>4. s.block[q] \in HeaderType
    BY <1>3, <1>4, <2>2, <2>3 DEF HeaderType
  <2> QED
    BY <2>3, <2>4
<1> HIDE DEF q, n, s, D
<1>7. p \in D /\ p \in Nat /\ End(r, p) = p + r.block[p].size /\ q = p + wanted
  BY <1>3 DEF D, End, q
<1>8. /\ End(s, p) = q
      /\ End(s, q) = End(r, p)
      /\ \A b \in D \ {p} : End(s, b) = End(r, b)
  BY <1>4, <1>5, <1>6, <1>7 DEF End
<1>9. /\ n = (IF p = r.last THEN Null ELSE End(r, p)) /\ (p # r.last => n \in D)
      /\ (p = r.last => End(r, p) = Size)
      /\ (n = Null <=> p = r.last)
  <2>1. IsLinked(r, p) /\ Null \notin Nat
    BY <1>3, <1>7 DEF Null
  <2> QED
    BY <1>3, <1>7, <2>1 DEF IsLinked, n, D
<1>10. s.last = IF r.last = p THEN q ELSE r.last
  BY <1>2, <1>9
<1>11. End(r, p) <= Size
  BY <1>3, <1>4, <1>7, <1>9, NextOfChain DEF D
<1>12. IsRing(s)
  <2>1. s.block \in [DOMAIN s.block -> HeaderType]
    <3>1. s.block = [b \in DOMAIN s.block |-> s.block[b]]
      BY <1>1 DEF HasSplit
    <3>2. \A b \in DOMAIN s.block : s.block[b] \in HeaderType
      BY <1>2, <1>5, <1>6
    <3> QED
      BY <3>1, <3>2
  <2>2. DOMAIN s.block \subseteq 0 .. Size - 1
    <3>1. D \subseteq 0 .. Size - 1
      BY <1>4 DEF IsRing, D
    <3>2. q \in 0 .. Size - 1
      BY <1>2, <1>3, <1>4, <1>7, <1>11
    <3> QED
      BY <1>2, <3>1, <3>2
  <2>3. /\ First \in DOMAIN s.block
        /\ s.produce \in DOMAIN s.block /\ s.consume \in DOMAIN s.block /\ s.last \in DOMAIN s.block
    BY <1>2, <1>4 DEF IsRing, D
  <2>4. s = [block |-> s.block, produce |-> s.produce, consume |-> s.consume, last |-> s.last]
    BY <1>1 DEF HasSplit
  <2> QED
    BY <2>1, <2>2, <2>3, <2>4 DEF IsRing
<1>13. IsUnit(q) /\ IsUnit(r.block[p].size - wanted)
  <2>1. IsUnit(p) /\ IsUnit(r.block[p].size)
    BY <1>3, <1>7 DEF IsLinked
  <2>2. IsUnit(p + wanted)
    BY <2>1, UnitSum
  <2>3. IsUnit(r.block[p].size - wanted)
    BY <1>4, <2>1, UnitDifference
  <2> QED
    BY <1>7, <2>2, <2>3
<1>14. IsLinked(s, q)
  <2>1. s.block[q].size >= 1 /\ IsUnit(q) /\ IsUnit(s.block[q].size)
    BY <1>4, <1>6, <1>13
  <2>2. IF q = s.last
        THEN s.block[q].next = Null /\ End(s, q) = Size
        ELSE /\ s.block[q].next = End(s, q)
             /\ End(s, q) \in D \union {q}
             /\ s.block[End(s, q)].prev = q
    <3>1. q = s.last <=> r.last = p
      <4>1. r.last \in D
        BY <1>4 DEF IsRing, D
      <4> QED
        BY <1>2, <1>10, <4>1
    <3>2. r.last # p => s.block[n].prev = q
      BY <1>5, <1>9
    <3> QED
      BY <1>6, <1>8, <1>9, <3>1, <3>2
  <2>3. q # First
    BY <1>2, <1>7 DEF First
  <2> QED
    BY <1>2, <1>6, <1>7, <1>8, <2>1, <2>2, <2>3 DEF IsLinked
<1>15. IsLinked(s, p)
  <2>1. IsLinked(r, p)
    BY <1>3, <1>7
  <2>2. s.block[p].size >= 1 /\ IsUnit(p) /\ IsUnit(s.block[p].size)
    BY <1>5, <1>7, <2>1 DEF IsLinked
  <2>3. p # s.last
    BY <1>2, <1>7, <1>10
  <2>4. s.block[p].next = q /\ End(s, p) = q /\ s.block[q].prev = p
    BY <1>5, <1>6, <1>7, <1>8
  <2>5. IF p = First
        THEN s.block[p].prev = Null
        ELSE /\ s.block[p].prev \in D \union {q}
             /\ End(s, s.block[p].prev) = p
    <3>1. s.block[p].prev = r.block[p].prev
      BY <1>2, <1>5, <1>7
    <3>2. p # First => /\ r.block[p].prev \in D /\ End(r, r.block[p].prev) = p
                       /\ r.block[p].prev # p
      <4>1. p # First => /\ r.block[p].prev \in D /\ End(r, r.block[p].prev) = p
        BY <2>1 DEF IsLinked, D
      <4>2. p < End(r, p)
        BY <1>3, <1>7
      <4> QED
        BY <1>7, <4>1, <4>2
    <3> QED
      BY <1>8, <2>1, <3>1, <3>2 DEF IsLinked
  <2>6. s.block[p].free
    BY <1>5, <1>7
  <2> QED
    BY <1>2, <2>2, <2>3, <2>4, <2>5, <2>6 DEF IsLinked
<1>16. ASSUME NEW b \in D \ {p} PROVE IsLinked(s, b)
  <2>1. IsLinked(r, b) /\ b \in Nat /\ End(r, b) \in Nat /\ b < End(r, b)
    BY <1>3
  <2>2. s.block[b].size >= 1 /\ IsUnit(b) /\ IsUnit(s.block[b].size)
    BY <1>5, <1>16, <2>1 DEF IsLinked
  <2>3. IF b = s.last
        THEN s.block[b].next = Null /\ End(s, b) = Size
        ELSE /\ s.block[b].next = End(s, b)
             /\ End(s, b) \in D \union {q}
             /\ s.block[End(s, b)].prev = b
    <3>1. End(s, b) = End(r, b) /\ s.block[b].next = r.block[b].next
      BY <1>5, <1>8, <1>16
    <3>2. b = s.last <=> b = r.last
      BY <1>2, <1>10, <1>16
    <3>3. b # r.last => /\ End(r, b) \in D /\ s.block[End(r, b)].prev = b
      <4> SUFFICES ASSUME b # r.last PROVE End(r, b) \in D /\ s.block[End(r, b)].prev = b
        OBVIOUS
      <4>1. End(r, b) \in D /\ r.block[End(r, b)].prev = b
        BY <2>1 DEF IsLinked, D
      <4>2. End(r, b) # n
        <5> SUFFICES ASSUME End(r, b) = n PROVE FALSE
          OBVIOUS
        <5>1. n = End(r, p)
          BY <1>9, <2>1 DEF Null
        <5>2. r.block[n].prev = p
          BY <1>7, <4>1, <5>1, NextOfChain DEF D
        <5> QED
          BY <1>16, <4>1, <5>2
      <4> QED
        BY <1>5, <4>1, <4>2
    <3> QED
      BY <2>1, <3>1, <3>2, <3>3 DEF IsLinked
  <2>4. IF b = First
        THEN s.block[b].prev = Null
        ELSE /\ s.block[b].prev \in D \union {q}
             /\ End(s, s.block[b].prev) = b
    <3>1. CASE b = n
      <4>1. n = End(r, p) /\ b # First
        BY <1>3, <1>7, <1>9, <2>1, <3>1 DEF Null, First
      <4> QED
        BY <1>5, <1>8, <1>16, <3>1, <4>1
    <3>2. CASE b # n
      <4>1. s.block[b].prev = r.block[b].prev
        BY <1>5, <1>16, <3>2
      <4>2. b # First => r.block[b].prev \in D \ {p} /\ End(r, r.block[b].prev) = b
        <5>1. b # First => r.block[b].prev \in D /\ End(r, r.block[b].prev) = b
          BY <2>1 DEF IsLinked, D
        <5>2. End(r, p) # b
          <6> SUFFICES ASSUME End(r, p) = b PROVE FALSE
            OBVIOUS
          <6>1. b < Size
            BY <1>16, BlockOfChain DEF D
          <6> QED
            BY <1>4, <1>9, <2>1, <3>2, <6>1
        <5> QED
          BY <5>1, <5>2
      <4> QED
        BY <1>8, <2>1, <4>1, <4>2 DEF IsLinked
    <3> QED
      BY <3>1, <3>2
  <2>5. ~s.block[b].free => s.block[b].asked + Header <= s.block[b].size
    BY <1>5, <1>16, <2>1 DEF IsLinked
  <2> QED
    BY <1>2, <2>2, <2>3, <2>4, <2>5 DEF IsLinked
<1>17. ASSUME NEW b \in D \union {q}, NEW d \in D \union {q}, b < d PROVE End(s, b) <= d
  <2>1. \A i, j \in D : i < j => End(r, i) <= j
    BY DEF IsChain, D
  <2>2. CASE b \in D \ {p} /\ d \in D
    BY <1>8, <1>17, <2>1, <2>2
  <2>3. CASE b \in D \ {p} /\ d = q
    <3>1. b < p
      <4> SUFFICES ASSUME p < b PROVE FALSE
        BY <1>3, <1>7, <2>3
      <4>1. End(r, p) <= b
        BY <1>7, <2>1, <2>3
      <4> QED
        BY <1>2, <1>3, <1>7, <1>17, <2>3, <4>1
    <3>2. End(r, b) <= p
      BY <1>7, <2>1, <2>3, <3>1
    <3> QED
      BY <1>2, <1>3, <1>7, <1>8, <2>3, <3>2
  <2>4. CASE b = p
    BY <1>2, <1>3, <1>7, <1>8, <1>17, <2>1, <2>4
  <2>5. CASE b = q
    <3>1. d \in D
      BY <1>2, <1>17, <2>5
    <3>2. p < d
      BY <1>2, <1>3, <1>7, <1>17, <2>5, <3>1
    <3> QED
      BY <1>7, <1>8, <2>1, <2>5, <3>1, <3>2
  <2> QED
    BY <2>2, <2>3, <2>4, <2>5
<1>18. IsChain(s)
  BY <1>2, <1>12, <1>14, <1>15, <1>16, <1>17 DEF IsChain
<1>19. ASSUME NEW b \in D \ {p}
       PROVE  b \in DOMAIN s.block /\ Same(s.block[b], r.block[b]) /\ End(s, b) = End(r, b)
  BY <1>2, <1>5, <1>8, <1>19 DEF Same
<1>20. p \in DOMAIN s.block /\ s.block[p].free /\ s.block[p].size >= wanted
  BY <1>2, <1>5, <1>7
<1>21. IsSplit(r, p, wanted, s)
  BY <1>2, <1>6, <1>8, <1>10, <1>18, <1>19, <1>20 DEF IsSplit, D
<1> QED
  BY <1>21 DEF s

-----------------------------------------------------------------------------
(* Placing an item *)

\* m is the split buffer s with the item in block p.
IsPlaced(s, p, asked, m) ==
    /\ IsChain(m)
    /\ DOMAIN m.block = DOMAIN s.block
    /\ m.produce = (IF p = s.last THEN First ELSE End(s, p))
    /\ m.consume = s.consume /\ m.last = s.last
    /\ ~m.block[p].free /\ m.block[p].item = next /\ m.block[p].asked = asked
    /\ \A b \in DOMAIN s.block : End(m, b) = End(s, b)
    /\ \A b \in DOMAIN s.block \ {p} : m.block[b] = s.block[b]

LEMMA BlockFilled ==
    ASSUME NEW s, IsChain(s), NEW p \in DOMAIN s.block, NEW asked \in Nat, next \in Item,
           asked + Header <= s.block[p].size
    PROVE  IsPlaced(s, p, asked, [s EXCEPT !.produce = NextBlock(s, p),
                                           !.block[p] = [@ EXCEPT !.free = FALSE,
                                                                  !.item = next,
                                                                  !.asked = asked]])
<1> DEFINE h == [prev |-> s.block[p].prev, next |-> s.block[p].next, free |-> FALSE,
                 size |-> s.block[p].size, item |-> next, asked |-> asked]
           f == [s.block EXCEPT ![p] = h]
           k == NextBlock(s, p)
           m == [block |-> f, produce |-> k, consume |-> s.consume, last |-> s.last]
<1>1. IsRing(s) /\ s.block[p] \in HeaderType
  BY BlockOfChain DEF IsChain
<1>2. s = [block |-> s.block, produce |-> s.produce, consume |-> s.consume, last |-> s.last]
  BY <1>1 DEF IsRing
<1>3. [s EXCEPT !.produce = NextBlock(s, p),
                !.block[p] = [@ EXCEPT !.free = FALSE, !.item = next, !.asked = asked]] = m
  <2>1. [s.block[p] EXCEPT !.free = FALSE, !.item = next, !.asked = asked] = h
    <3> DEFINE no == FALSE
    <3> HIDE DEF no
    <3> DEFINE o == s.block[p]
               g1 == [prev |-> o.prev, next |-> o.next, free |-> no,
                      size |-> o.size, item |-> o.item, asked |-> o.asked]
               g2 == [prev |-> o.prev, next |-> o.next, free |-> no,
                      size |-> o.size, item |-> next, asked |-> o.asked]
               g3 == [prev |-> o.prev, next |-> o.next, free |-> no,
                      size |-> o.size, item |-> next, asked |-> asked]
    <3>1. [o EXCEPT !.free = no] = g1
      BY <1>1 DEF HeaderType
    <3>2. [g1 EXCEPT !.item = next] = g2
      OBVIOUS
    <3>3. [g2 EXCEPT !.asked = asked] = g3
      OBVIOUS
    <3> HIDE DEF g1, g2
    <3>4. [[[o EXCEPT !.free = no] EXCEPT !.item = next] EXCEPT !.asked = asked] = g3
      BY <3>1, <3>2, <3>3
    <3> QED
      BY <3>4 DEF no
  <2> DEFINE g == [s.block[p] EXCEPT !.free = FALSE, !.item = next, !.asked = asked]
             t == [block |-> s.block, produce |-> k, consume |-> s.consume, last |-> s.last]
  <2> HIDE DEF k, h
  <2>2. [s EXCEPT !.produce = k] = t
    BY <1>2
  <2>3. [t EXCEPT !.block = f] = m
    <3> HIDE DEF f
    <3> QED
      OBVIOUS
  <2>4. f = [s.block EXCEPT ![p] = g]
    BY <2>1
  <2> HIDE DEF f, g
  <2>5. [[s EXCEPT !.produce = k] EXCEPT !.block = f] = m
    <3> HIDE DEF t, m
    <3> QED
      BY <2>2, <2>3
  <2> QED
    BY <2>4, <2>5 DEF g, k
<1>4. h \in HeaderType /\ ~h.free /\ h.item = next /\ h.asked = asked
      /\ h.prev = s.block[p].prev /\ h.next = s.block[p].next /\ h.size = s.block[p].size
  BY <1>1 DEF HeaderType
<1> HIDE DEF h, k
<1>5. f \in [DOMAIN s.block -> HeaderType] /\ f[p] = h /\ \A b \in DOMAIN s.block \ {p} : f[b] = s.block[b]
  BY <1>1, <1>4 DEF IsRing
<1> HIDE DEF f
<1>6. /\ m.block = f /\ DOMAIN f = DOMAIN s.block
      /\ m.produce = k /\ m.last = s.last /\ m.consume = s.consume
  BY <1>5
<1>7. k \in DOMAIN s.block /\ k = (IF p = s.last THEN First ELSE End(s, p))
  BY NextOfChain DEF k
<1>8. IsRing(m)
  BY <1>1, <1>5, <1>6, <1>7 DEF IsRing
<1> HIDE DEF m
<1>9. IsRelabelled(s, m)
  <2>1. \A b \in DOMAIN s.block : ~s.block[b].free => s.block[b].asked + Header <= s.block[b].size
    BY BlockOfChain DEF IsLinked
  <2>2. ASSUME NEW b \in DOMAIN s.block
        PROVE  /\ m.block[b].prev = s.block[b].prev
               /\ m.block[b].next = s.block[b].next
               /\ m.block[b].size = s.block[b].size
               /\ ~m.block[b].free => m.block[b].asked + Header <= m.block[b].size
    <3>1. CASE b = p
      BY <1>4, <1>5, <1>6, <3>1
    <3>2. CASE b # p
      BY <1>5, <1>6, <2>1, <3>2
    <3> QED
      BY <3>1, <3>2
  <2> QED
    BY <1>6, <1>8, <2>2 DEF IsRelabelled
<1>10. IsChain(m) /\ \A b \in DOMAIN s.block : End(m, b) = End(s, b)
  BY <1>9, ChainRelabelled
<1>11. IsPlaced(s, p, asked, m)
  BY <1>4, <1>5, <1>6, <1>7, <1>10 DEF IsPlaced
<1> QED
  BY <1>3, <1>11

\* m is r with an item in the block p that was free, with or without what was left of it.
IsStored(r, p, asked, m) ==
    LET e == End(m, p) IN
    /\ IsChain(m)
    /\ p \in DOMAIN m.block
    /\ m.consume = r.consume
    /\ ~m.block[p].free /\ m.block[p].item = next /\ m.block[p].asked = asked
    /\ \A b \in DOMAIN r.block \ {p} : /\ b \in DOMAIN m.block
                                       /\ Same(m.block[b], r.block[b])
                                       /\ End(m, b) = End(r, b)
    /\ \/ /\ DOMAIN m.block = DOMAIN r.block /\ e = End(r, p)
          /\ m.last = r.last
          /\ m.produce = IF p = r.last THEN First ELSE e
       \/ /\ e \notin DOMAIN r.block /\ p < e /\ e < End(r, p) /\ e \in Nat
          /\ DOMAIN m.block = DOMAIN r.block \union {e}
          /\ m.block[e].free /\ End(m, e) = End(r, p)
          /\ m.last = IF r.last = p THEN e ELSE r.last
          /\ m.produce = e

LEMMA ItemStored ==
    ASSUME NEW r, IsChain(r), NEW p \in DOMAIN r.block, r.block[p].free,
           NEW asked \in Nat, next \in Item, r.block[p].size >= Wanted(asked)
    PROVE  IsStored(r, p, asked, Placed(r, p, asked))
<1> DEFINE w == Wanted(asked)
           s == Split(r, p, w)
           m == Placed(r, p, asked)
<1>1. w \in Nat \ {0} /\ IsUnit(w) /\ asked + Header <= w
  BY WantedFits
<1>2. r.block[p].size \in Nat /\ Header \in Nat
  BY BlockOfChain, SizeIsUnits
<1>3. r.block[p].size >= w
  OBVIOUS
<1> HIDE DEF w
<1>4. IsSplit(r, p, w, s)
  <2>1. CASE IsTooLarge(r, p, w)
    BY <1>1, <2>1, ChainSplit
  <2>2. CASE ~IsTooLarge(r, p, w)
    <3>1. s = r
      BY <1>1, <1>2, <2>2 DEF Split, IsTooLarge
    <3>2. \A b \in DOMAIN r.block \ {p} : Same(r.block[b], r.block[b])
      BY DEF Same
    <3> QED
      BY <1>3, <2>2, <3>1, <3>2 DEF IsSplit
  <2> QED
    BY <2>1, <2>2
<1> HIDE DEF s
<1>5. /\ IsChain(s) /\ p \in DOMAIN s.block /\ s.block[p].size >= w
      /\ s.block[p].size \in Nat
  BY <1>4, BlockOfChain DEF IsSplit
<1>6. m = [s EXCEPT !.produce = NextBlock(s, p),
                    !.block[p] = [@ EXCEPT !.free = FALSE, !.item = next, !.asked = asked]]
  BY DEF Placed, s, w
<1> HIDE DEF m
<1>7. IsPlaced(s, p, asked, m)
  <2>1. asked + Header <= s.block[p].size
    BY <1>1, <1>2, <1>5
  <2> QED
    BY <1>5, <1>6, <2>1, BlockFilled
<1>8. /\ IsChain(m) /\ p \in DOMAIN m.block /\ m.consume = r.consume
      /\ ~m.block[p].free /\ m.block[p].item = next /\ m.block[p].asked = asked
      /\ m.last = s.last /\ DOMAIN m.block = DOMAIN s.block
      /\ m.produce = (IF p = s.last THEN First ELSE End(s, p))
      /\ End(m, p) = End(s, p)
  BY <1>4, <1>5, <1>7 DEF IsPlaced, IsSplit
<1>9. ASSUME NEW b \in DOMAIN r.block \ {p}
      PROVE  b \in DOMAIN m.block /\ Same(m.block[b], r.block[b]) /\ End(m, b) = End(r, b)
  <2>1. b \in DOMAIN s.block /\ Same(s.block[b], r.block[b]) /\ End(s, b) = End(r, b)
    BY <1>4 DEF IsSplit
  <2>2. m.block[b] = s.block[b] /\ End(m, b) = End(s, b)
    BY <1>7, <2>1 DEF IsPlaced
  <2> QED
    BY <1>8, <2>1, <2>2
<1>10. ASSUME IsTooLarge(r, p, w) PROVE IsStored(r, p, asked, m)
  <2> DEFINE q == End(s, p)
  <2>1. /\ q \notin DOMAIN r.block /\ p < q /\ q < End(r, p) /\ q \in Nat
        /\ DOMAIN s.block = DOMAIN r.block \union {q}
        /\ s.block[q].free /\ End(s, q) = End(r, p)
        /\ s.last = IF r.last = p THEN q ELSE r.last
    BY <1>4, <1>10 DEF IsSplit
  <2>2. q \in DOMAIN s.block /\ q # p
    BY <1>5, <2>1, BlockOfChain
  <2>3. p # s.last
    BY <1>5, <2>1, <2>2, NextOfChain
  <2>4. m.block[q] = s.block[q] /\ End(m, q) = End(s, q)
    BY <1>7, <2>2 DEF IsPlaced
  <2> HIDE DEF q
  <2>5. End(m, p) = q /\ m.produce = q
    BY <1>8, <2>3 DEF q
  <2>6. /\ DOMAIN m.block = DOMAIN r.block \union {q}
        /\ m.block[q].free /\ End(m, q) = End(r, p)
        /\ m.last = IF r.last = p THEN q ELSE r.last
    BY <1>8, <2>1, <2>4
  <2> QED
    BY <1>8, <1>9, <2>1, <2>5, <2>6 DEF IsStored
<1>11. ASSUME ~IsTooLarge(r, p, w) PROVE IsStored(r, p, asked, m)
  <2>1. s = r
    BY <1>4, <1>11 DEF IsSplit
  <2>2. /\ DOMAIN m.block = DOMAIN r.block /\ End(m, p) = End(r, p) /\ m.last = r.last
        /\ m.produce = IF p = r.last THEN First ELSE End(m, p)
    BY <1>8, <2>1
  <2> QED
    BY <1>8, <1>9, <2>2 DEF IsStored
<1>12. IsStored(r, p, asked, m)
  BY <1>10, <1>11
<1> QED
  BY <1>12 DEF m

-----------------------------------------------------------------------------
(* Adding an item *)

\* The place of block b in the queue: the blocks from m_pProduce on come first.
Rank(r, b) == IF b < r.produce THEN b + Size ELSE b

\* The item in p is behind all that r has, which keep their order.
IsBehind(r, p, m) ==
    \A a \in Used(r) :
       /\ Rank(m, a) < Rank(m, p)
       /\ \A b \in Used(r) : Rank(r, a) < Rank(r, b) => Rank(m, a) < Rank(m, b)

\* m is r with a new item in block p.
IsAdded(r, p, asked, m) ==
    /\ IsTidy(m)
    /\ p \notin Used(r)
    /\ Used(m) = Used(r) \union {p}
    /\ \A b \in Used(r) : Same(m.block[b], r.block[b])
    /\ m.block[p].item = next
    /\ m.consume = r.consume
    /\ IsBehind(r, p, m)

LEMMA StoredIsUsed ==
    ASSUME NEW r, NEW p \in DOMAIN r.block, r.block[p].free, NEW asked, NEW m,
           IsStored(r, p, asked, m), Alternates(m), InCycle(m), IsBehind(r, p, m)
    PROVE  IsAdded(r, p, asked, m)
<1>1. p \notin Used(r)
  BY DEF Used
<1>2. ASSUME NEW b \in Used(r)
      PROVE  b \in Used(m) /\ Same(m.block[b], r.block[b])
  <2>1. b \in DOMAIN r.block \ {p} /\ ~r.block[b].free
    BY DEF Used
  <2> QED
    BY <2>1 DEF IsStored, Used, Same
<1>3. p \in Used(m) /\ m.block[p].item = next /\ m.consume = r.consume /\ IsChain(m)
  BY DEF IsStored, Used
<1>4. ASSUME NEW b \in Used(m), b # p PROVE b \in Used(r)
  <2>1. b \in DOMAIN m.block /\ ~m.block[b].free
    BY DEF Used
  <2>2. b \in DOMAIN r.block
    BY <2>1 DEF IsStored
  <2> QED
    BY <1>4, <2>1, <2>2 DEF IsStored, Used, Same
<1> QED
  BY <1>1, <1>2, <1>3, <1>4 DEF IsAdded, IsTidy

\* Into an empty buffer.
LEMMA AddedFirst ==
    ASSUME NEW r, IsTidy(r), r.block[r.consume].free, NEW p \in DOMAIN r.block, NEW asked, NEW m,
           IsStored(r, p, asked, m)
    PROVE  IsAdded(r, p, asked, m)
<1>1. DOMAIN r.block = {First} /\ p = First /\ r.consume = First /\ r.last = First /\ r.block[p].free
  BY DEF IsTidy, InCycle, IsChain, IsRing
<1>2. IsChain(m) /\ ~m.block[First].free /\ m.consume = First
  BY <1>1 DEF IsStored
<1>3. InCycle(m) /\ Alternates(m)
  <2>1. CASE DOMAIN m.block = DOMAIN r.block /\ m.produce = First
    BY <1>1, <1>2, <2>1 DEF InCycle, Alternates, First
  <2>2. CASE /\ First < m.produce /\ m.produce \in Nat
             /\ DOMAIN m.block = DOMAIN r.block \union {m.produce}
             /\ m.block[m.produce].free /\ m.last = m.produce
    BY <1>1, <1>2, <2>2 DEF InCycle, Alternates, First
  <2>3. \/ DOMAIN m.block = DOMAIN r.block /\ m.produce = First
        \/ /\ First < m.produce /\ m.produce \in Nat
           /\ DOMAIN m.block = DOMAIN r.block \union {m.produce}
           /\ m.block[m.produce].free /\ m.last = m.produce
    BY <1>1 DEF IsStored
  <2> QED
    BY <2>1, <2>2, <2>3
<1>4. IsBehind(r, p, m)
  BY <1>1 DEF IsBehind, Used
<1> QED
  BY <1>1, <1>3, <1>4, StoredIsUsed

\* Into the last block, behind the newest item.
LEMMA AddedLast ==
    ASSUME NEW r, IsTidy(r), ~r.block[r.consume].free, r.consume < r.produce,
           r.block[r.produce].free, r.produce = r.last, NEW asked, NEW m,
           IsStored(r, r.produce, asked, m)
    PROVE  IsAdded(r, r.produce, asked, m)
<1> DEFINE c == r.consume
           p == r.produce
           e == End(m, p)
           D == DOMAIN r.block
<1>1. /\ IsChain(r) /\ c \in D /\ p \in D /\ c \in Nat /\ p \in Nat
      /\ \A b \in D : b \in Nat /\ ~ (p < b)
  <2>1. IsChain(r) /\ c \in D /\ p \in D
    BY DEF IsTidy, IsChain, IsRing
  <2> QED
    BY <2>1, BlockOfChain, NextOfChain
<1>2. \A b \in D : r.block[b].free <=> b < c \/ b >= p
  BY DEF IsTidy, InCycle
<1> HIDE DEF c, p, e, D
<1>3. c < p /\ r.last = p /\ r.block[p].free
  BY DEF c, p
<1>4. /\ IsChain(m) /\ m.consume = c /\ ~m.block[p].free
      /\ \A b \in D \ {p} : /\ b \in DOMAIN m.block /\ m.block[b].free = r.block[b].free
                            /\ End(m, b) = End(r, b)
  BY DEF IsStored, Same, c, p, D
<1>5. \/ /\ DOMAIN m.block = D /\ m.last = p /\ m.produce = First
      \/ /\ e \notin D /\ p < e /\ e \in Nat
         /\ DOMAIN m.block = D \union {e} /\ m.block[e].free /\ m.last = e /\ m.produce = e
  BY DEF IsStored, p, D, e
<1>6. ~m.block[c].free
  BY <1>1, <1>2, <1>3, <1>4
<1>7. InCycle(m)
  <2>1. CASE DOMAIN m.block = D /\ m.last = p /\ m.produce = First
    <3>1. First \in Nat /\ First <= c
      BY <1>1 DEF First
    <3>2. ASSUME NEW b \in D
          PROVE  ~ (b < First) /\ (b < c => m.block[b].free) /\ (b >= c => ~m.block[b].free)
      <4>1. CASE b = p
        BY <1>1, <1>3, <1>4, <4>1 DEF First
      <4>2. CASE b # p
        <5>1. b < p /\ b \in Nat
          BY <1>1, <4>2
        <5>2. m.block[b].free = r.block[b].free
          BY <1>4, <4>2
        <5>3. ~ (b < First)
          BY <5>1 DEF First
        <5>4. b < c => m.block[b].free
          BY <1>2, <5>2
        <5>5. b >= c => ~m.block[b].free
          BY <1>1, <1>2, <5>1, <5>2
        <5> QED
          BY <5>3, <5>4, <5>5
      <4> QED
        BY <4>1, <4>2
    <3> QED
      BY <1>1, <1>4, <1>6, <2>1, <3>1, <3>2 DEF InCycle
  <2>2. CASE /\ e \notin D /\ p < e /\ e \in Nat
             /\ DOMAIN m.block = D \union {e} /\ m.block[e].free /\ m.last = e /\ m.produce = e
    <3>1. ASSUME NEW b \in D \union {e}
          PROVE  m.block[b].free <=> b < c \/ b >= e
      <4>1. CASE b = e
        BY <2>2, <4>1
      <4>2. CASE b = p
        <5>1. ~m.block[b].free
          BY <1>4, <4>2
        <5>2. ~ (b < c) /\ ~ (b >= e)
          BY <1>1, <1>3, <2>2, <4>2
        <5> QED
          BY <5>1, <5>2
      <4>3. CASE b # e /\ b # p
        <5>1. b \in D /\ b < p /\ b \in Nat
          BY <1>1, <4>3
        <5>2. m.block[b].free = r.block[b].free
          BY <1>4, <4>3, <5>1
        <5>3. ~ (b >= p) /\ ~ (b >= e)
          BY <1>1, <2>2, <5>1
        <5> QED
          BY <1>2, <5>1, <5>2, <5>3
      <4> QED
        BY <4>1, <4>2, <4>3
    <3> QED
      BY <1>1, <1>3, <1>4, <1>6, <2>2, <3>1 DEF InCycle
  <2> QED
    BY <1>5, <2>1, <2>2
<1>8. Alternates(m)
  <2> SUFFICES ASSUME NEW b \in DOMAIN m.block, m.block[b].free, b # m.last
               PROVE  ~m.block[End(m, b)].free
    BY DEF Alternates
  <2>1. b \in D \ {p} /\ r.block[b].free /\ End(m, b) = End(r, b)
    BY <1>4, <1>5
  <2>2. ~r.block[End(r, b)].free /\ End(r, b) \in D
    <3>1. IsLinked(r, b)
      BY <1>1, <2>1, BlockOfChain DEF D
    <3> QED
      BY <1>3, <2>1, <3>1 DEF IsTidy, Alternates, IsLinked, D
  <2> QED
    BY <1>4, <2>1, <2>2
<1>9. IsBehind(r, p, m)
  <2>1. \A b \in Used(r) : b \in Nat /\ b < p
    <3> SUFFICES ASSUME NEW b \in Used(r) PROVE b \in Nat /\ b < p
      OBVIOUS
    <3>1. b \in D /\ ~r.block[b].free
      BY DEF Used, D
    <3>2. ~ (b >= p) /\ b \in Nat
      BY <1>1, <1>2, <3>1
    <3> QED
      BY <1>1, <3>2
  <2>2. \A b \in Used(r) : Rank(r, b) = b + Size
    BY <2>1 DEF Rank, p
  <2>3. CASE m.produce = First
    <3>1. \A b \in Used(r) : Rank(m, b) = b
      BY <2>1, <2>3 DEF Rank, First
    <3>2. Rank(m, p) = p
      BY <1>1, <2>3 DEF Rank, First
    <3> QED
      BY <1>1, <2>1, <2>2, <3>1, <3>2, SizeIsUnits DEF IsBehind
  <2>4. CASE p < m.produce /\ m.produce \in Nat
    <3>1. \A b \in Used(r) : Rank(m, b) = b + Size
      BY <1>1, <2>1, <2>4 DEF Rank
    <3>2. Rank(m, p) = p + Size
      BY <2>4 DEF Rank
    <3> QED
      BY <1>1, <2>1, <2>2, <3>1, <3>2, SizeIsUnits DEF IsBehind
  <2> QED
    BY <1>5, <2>3, <2>4
<1> QED
  BY <1>1, <1>3, <1>7, <1>8, <1>9, StoredIsUsed DEF p, D

\* Between the newest item and the oldest one.
LEMMA AddedBefore ==
    ASSUME NEW r, IsTidy(r), ~r.block[r.consume].free,
           NEW p \in DOMAIN r.block, r.block[p].free, End(r, p) = r.consume,
           \A b \in DOMAIN r.block : b < p => ~r.block[b].free,
           \A b \in DOMAIN r.block : b >= r.consume /\ b # r.last => ~r.block[b].free,
           p = r.produce \/ r.consume < r.produce,
           NEW asked, NEW m, IsStored(r, p, asked, m)
    PROVE  IsAdded(r, p, asked, m)
<1> DEFINE c == r.consume
           e == End(m, p)
           D == DOMAIN r.block
<1>1. /\ IsChain(r) /\ c \in D /\ p \in D /\ c \in Nat /\ p \in Nat /\ p < c
      /\ \A b \in D : b \in Nat
  <2>1. IsChain(r) /\ c \in D
    BY DEF IsTidy, IsChain, IsRing
  <2> QED
    BY <2>1, BlockOfChain
<1>2. \A b \in D : p < b => p # r.last /\ c <= b
  BY <1>1, NextOfChain
<1> HIDE DEF c, e, D
<1>3. p # r.last
  BY <1>1, <1>2
<1>4. /\ \A b \in D : b < p => ~r.block[b].free
      /\ \A b \in D : b >= c /\ b # r.last => ~r.block[b].free
      /\ ~r.block[c].free
  BY DEF c, D
<1>5. /\ IsChain(m) /\ m.consume = c /\ ~m.block[p].free
      /\ \A b \in D \ {p} : /\ b \in DOMAIN m.block /\ m.block[b].free = r.block[b].free
                            /\ End(m, b) = End(r, b)
  BY DEF IsStored, Same, c, D
<1>6. /\ m.last = r.last /\ m.produce = e
      /\ \/ DOMAIN m.block = D /\ e = c
         \/ /\ e \notin D /\ p < e /\ e < c /\ e \in Nat
            /\ DOMAIN m.block = D \union {e} /\ m.block[e].free /\ End(m, e) = c
  BY <1>3 DEF IsStored, D, e, c
<1>7. ~m.block[c].free
  BY <1>1, <1>4, <1>5
<1>8. p < e /\ e <= c /\ e \in Nat
  BY <1>1, <1>6
<1>9. InCycle(m)
  <2> SUFFICES ASSUME NEW b \in DOMAIN m.block
               PROVE  /\ b < e => ~m.block[b].free
                      /\ b >= e /\ b < c => m.block[b].free
                      /\ b >= c /\ b # m.last => ~m.block[b].free
    BY <1>1, <1>5, <1>6, <1>7, <1>8 DEF InCycle
  <2>1. CASE b = p
    BY <1>1, <1>5, <1>8, <2>1
  <2>2. CASE b # p /\ b \in D
    <3>1. m.block[b].free = r.block[b].free /\ b \in Nat
      BY <1>1, <1>5, <2>2
    <3>2. b < p \/ b >= c
      BY <1>1, <1>2, <2>2, <3>1
    <3>3. CASE b < p
      <4>1. ~m.block[b].free /\ ~ (b >= e) /\ ~ (b >= c)
        BY <1>1, <1>4, <1>8, <2>2, <3>1, <3>3
      <4> QED
        BY <4>1
    <3>4. CASE b >= c
      <4>1. ~ (b < e) /\ ~ (b < c)
        BY <1>1, <1>8, <3>1, <3>4
      <4>2. b # m.last => ~m.block[b].free
        BY <1>4, <1>6, <2>2, <3>1, <3>4
      <4> QED
        BY <4>1, <4>2
    <3> QED
      BY <3>2, <3>3, <3>4
  <2>3. CASE b \notin D
    <3>1. b = e /\ m.block[b].free /\ e < c
      BY <1>6, <2>3
    <3> QED
      BY <1>1, <1>8, <3>1
  <2> QED
    BY <2>1, <2>2, <2>3
<1>10. Alternates(m)
  <2> SUFFICES ASSUME NEW b \in DOMAIN m.block, m.block[b].free, b # m.last
               PROVE  ~m.block[End(m, b)].free
    BY DEF Alternates
  <2>1. CASE b \in D
    <3>1. b \in D \ {p} /\ r.block[b].free /\ End(m, b) = End(r, b) /\ b # r.last
      BY <1>5, <1>6, <2>1
    <3>2. ~r.block[End(r, b)].free /\ End(r, b) \in D
      <4>1. IsLinked(r, b)
        BY <1>1, <3>1, BlockOfChain DEF D
      <4> QED
        BY <3>1, <4>1 DEF IsTidy, Alternates, IsLinked, D
    <3>3. End(r, b) # p
      BY <3>2
    <3> QED
      BY <1>5, <3>1, <3>2, <3>3
  <2>2. CASE b \notin D
    BY <1>6, <1>7, <2>2
  <2> QED
    BY <2>1, <2>2
<1>11. IsBehind(r, p, m)
  <2>1. \A b \in Used(r) : b \in Nat /\ b < Size /\ (b < p \/ b >= c)
    <3> SUFFICES ASSUME NEW b \in Used(r) PROVE b \in Nat /\ b < Size /\ (b < p \/ b >= c)
      OBVIOUS
    <3>1. b \in D /\ b # p
      BY DEF Used, D
    <3>2. b \in Nat /\ b < Size
      BY <1>1, <3>1, BlockOfChain DEF D
    <3> QED
      BY <1>1, <1>2, <3>1, <3>2
  <2>2. /\ \A b \in Used(r) : Rank(m, b) = IF b < p THEN b + Size ELSE b
        /\ Rank(m, p) = p + Size
    BY <1>1, <1>6, <1>8, <2>1 DEF Rank
  <2>3. CASE p = r.produce
    <3>1. \A b \in Used(r) : Rank(r, b) = IF b < p THEN b + Size ELSE b
      BY <2>3 DEF Rank
    <3> QED
      BY <1>1, <2>1, <2>2, <3>1, SizeIsUnits DEF IsBehind
  <2>4. CASE c < r.produce
    <3>1. \A b \in Used(r) : b >= c /\ b < r.produce
      <4> SUFFICES ASSUME NEW b \in Used(r) PROVE b >= c /\ b < r.produce
        OBVIOUS
      <4>1. ~ (b < c \/ b >= r.produce) /\ r.produce \in D
        <5>1. r.produce \in D /\ b \in D /\ ~r.block[b].free
          BY DEF Used, IsTidy, IsChain, IsRing, D
        <5>2. ~ (b < c \/ b >= r.produce)
          BY <2>4, <5>1 DEF IsTidy, InCycle, c, D
        <5> QED
          BY <5>1, <5>2
      <4>2. b \in Nat /\ r.produce \in Nat /\ c \in Nat
        BY <1>1, <2>1, <4>1
      <4> QED
        BY <4>1, <4>2
    <3>2. \A b \in Used(r) : Rank(r, b) = b + Size /\ Rank(m, b) = b
      BY <1>1, <2>1, <2>2, <3>1 DEF Rank
    <3> QED
      BY <1>1, <2>1, <2>2, <3>2, SizeIsUnits DEF IsBehind
  <2> QED
    BY <2>3, <2>4 DEF c
<1> QED
  BY <1>9, <1>10, <1>11, StoredIsUsed

\* What Allocate looks for is free and large enough.
LEMMA FoundFits ==
    ASSUME NEW r, IsChain(r), NEW wanted, Found(r, wanted) # Null
    PROVE  LET p == Found(r, wanted) IN
           /\ p \in DOMAIN r.block /\ r.block[p].free /\ r.block[p].size >= wanted
           /\ r.block[r.produce].free
           /\ p = r.produce \/ p = First
BY DEF Found, IsChain, IsRing

\* The block after the newest item is the last one while the items lie in one piece.
LEMMA ProduceIsLast ==
    ASSUME NEW r, IsTidy(r), ~r.block[r.consume].free, r.consume < r.produce,
           r.block[r.produce].free
    PROVE  r.produce = r.last
<1> DEFINE p == r.produce
<1>1. IsChain(r) /\ p \in DOMAIN r.block
  BY DEF IsTidy, IsChain, IsRing
<1>2. p # r.last => /\ End(r, p) \in DOMAIN r.block /\ End(r, p) >= p
                    /\ ~r.block[End(r, p)].free
  <2>1. IsLinked(r, p) /\ p \in Nat /\ End(r, p) \in Nat /\ p < End(r, p)
    BY <1>1, BlockOfChain
  <2> QED
    BY <1>1, <2>1 DEF IsLinked, IsTidy, Alternates
<1>3. \A b \in DOMAIN r.block : r.block[b].free <=> b < r.consume \/ b >= p
  BY DEF IsTidy, InCycle
<1> QED
  BY <1>2, <1>3

\* Allocate adds the item behind the newest one, and changes no other.
LEMMA ItemAdded ==
    ASSUME NEW r, IsTidy(r), NEW asked \in Nat, next \in Item,
           Found(r, Wanted(asked)) # Null
    PROVE  LET p == Found(r, Wanted(asked)) IN IsAdded(r, p, asked, Placed(r, p, asked))
<1> DEFINE p == Found(r, Wanted(asked))
           m == Placed(r, p, asked)
           c == r.consume
           D == DOMAIN r.block
<1>1. IsChain(r) /\ c \in D /\ r.produce \in D /\ First \in D
  BY DEF IsTidy, IsChain, IsRing
<1>2. /\ p \in D /\ r.block[p].free /\ r.block[p].size >= Wanted(asked)
      /\ r.block[r.produce].free
      /\ p = r.produce \/ p = First
  BY <1>1, FoundFits
<1> HIDE DEF p
<1>3. IsStored(r, p, asked, m)
  BY <1>1, <1>2, ItemStored
<1> HIDE DEF m
<1>4. \A b \in D : b \in Nat
  BY <1>1, BlockOfChain
<1>5. ASSUME r.block[c].free PROVE IsAdded(r, p, asked, m)
  BY <1>2, <1>3, <1>5, AddedFirst
<1>6. ASSUME ~r.block[c].free, c < r.produce PROVE IsAdded(r, p, asked, m)
  <2>1. r.produce = r.last
    BY <1>2, <1>6, ProduceIsLast
  <2>2. CASE p = r.produce
    BY <1>2, <1>3, <1>6, <2>1, <2>2, AddedLast
  <2>3. CASE p # r.produce
    <3>1. p = First
      BY <1>2, <2>3
    <3>2. \A b \in D : r.block[b].free <=> b < c \/ b >= r.produce
      BY <1>6 DEF IsTidy, InCycle
    <3>3. p < c /\ p # r.last
      BY <1>1, <1>2, <1>4, <2>1, <2>3, <3>1, <3>2 DEF First
    <3>4. End(r, p) = c
      <4>1. End(r, p) <= c /\ End(r, p) \in D /\ End(r, p) \in Nat
        BY <1>1, <1>2, <3>3, NextOfChain, BlockOfChain DEF IsLinked
      <4>2. ~r.block[End(r, p)].free
        BY <1>2, <3>3 DEF IsTidy, Alternates
      <4> QED
        BY <1>1, <1>4, <3>2, <4>1, <4>2
    <3>5. \A b \in D : ~ (b < p)
      BY <1>4, <3>1 DEF First
    <3>6. \A b \in D : b >= c /\ b # r.last => ~r.block[b].free
      <4> SUFFICES ASSUME NEW b \in D, b >= c, b # r.last PROVE ~r.block[b].free
        OBVIOUS
      <4>1. ~ (r.last < b)
        BY <1>1, <2>1, NextOfChain
      <4>2. ~ (b < c) /\ ~ (b >= r.produce)
        BY <1>1, <1>4, <2>1, <4>1
      <4> QED
        BY <3>2, <4>2
    <3> QED
      BY <1>2, <1>3, <1>6, <3>4, <3>5, <3>6, AddedBefore
  <2> QED
    BY <2>2, <2>3
<1>7. ASSUME ~r.block[c].free, c >= r.produce PROVE IsAdded(r, p, asked, m)
  <2>1. \A b \in D : /\ b < r.produce => ~r.block[b].free
                     /\ b >= r.produce /\ b < c => r.block[b].free
                     /\ b >= c /\ b # r.last => ~r.block[b].free
    BY <1>1, <1>4, <1>7 DEF IsTidy, InCycle
  <2>2. p = r.produce
    <3> SUFFICES ASSUME p # r.produce PROVE FALSE
      OBVIOUS
    <3>1. p = First /\ p < r.produce
      BY <1>1, <1>2, <1>4 DEF First
    <3> QED
      BY <1>2, <2>1, <3>1
  <2>3. p < c /\ p \in Nat /\ c \in Nat
    BY <1>1, <1>2, <1>4, <1>7, <2>2
  <2>4. p # r.last /\ End(r, p) <= c /\ End(r, p) \in D /\ p < End(r, p) /\ End(r, p) \in Nat
    BY <1>1, <1>2, <2>3, NextOfChain, BlockOfChain DEF IsLinked
  <2>5. ~r.block[End(r, p)].free
    BY <1>2, <2>4 DEF IsTidy, Alternates
  <2>6. End(r, p) = c
    BY <2>1, <2>2, <2>3, <2>4, <2>5
  <2>7. \A b \in D : b < p => ~r.block[b].free
    BY <2>1, <2>2
  <2>8. \A b \in D : b >= c /\ b # r.last => ~r.block[b].free
    BY <2>1
  <2> QED
    BY <1>2, <1>3, <1>7, <2>2, <2>6, <2>7, <2>8, AddedBefore
<1>8. IsAdded(r, p, asked, m)
  BY <1>1, <1>4, <1>5, <1>6, <1>7
<1> QED
  BY <1>8 DEF p, m

-----------------------------------------------------------------------------
(* Iterating *)

\* A free block is followed by an item or by m_pProduce, in both directions.
LEMMA PastFree ==
    ASSUME NEW r, IsTidy(r), NEW p \in DOMAIN r.block, p \notin Used(r), p # r.produce
    PROVE  /\ NextBlock(r, p) = r.produce \/ NextBlock(r, p) \in Used(r)
           /\ PrevBlock(r, p) = r.produce \/ PrevBlock(r, p) \in Used(r)
<1> DEFINE c == r.consume
           d == r.produce
           n == NextBlock(r, p)
           q == PrevBlock(r, p)
           D == DOMAIN r.block
<1>1. /\ IsChain(r) /\ c \in D /\ d \in D /\ First \in D /\ r.last \in D
      /\ r.block[p].free
  BY DEF IsTidy, IsChain, IsRing, Used
<1>2. \A b \in D : b \in Nat
  BY <1>1, BlockOfChain
<1>3. /\ n \in D /\ q \in D
      /\ n = IF p = r.last THEN First ELSE End(r, p)
      /\ q = IF p = First THEN r.last ELSE r.block[p].prev
      /\ p # First => End(r, q) = p /\ q < p /\ q # r.last
  BY <1>1, NextOfChain, PrevOfChain DEF PrevBlock
<1>4. p # r.last => ~r.block[n].free
  BY <1>1, <1>3 DEF IsTidy, Alternates
<1>5. p # First => ~r.block[q].free
  <2> SUFFICES ASSUME p # First, r.block[q].free PROVE FALSE
    OBVIOUS
  <2>1. q \in D /\ q # r.last /\ End(r, q) = p
    BY <1>3
  <2>2. ~r.block[End(r, q)].free
    BY <2>1 DEF IsTidy, Alternates
  <2> QED
    BY <1>1, <2>1, <2>2
<1>6. ~r.block[c].free
  <2> SUFFICES ASSUME r.block[c].free PROVE FALSE
    OBVIOUS
  <2>1. D = {First}
    BY DEF IsTidy, InCycle
  <2> QED
    BY <1>1, <2>1
<1> HIDE DEF n, q
<1>7. ASSUME c < d PROVE (n = d \/ n \in Used(r)) /\ (q = d \/ q \in Used(r))
  <2>1. \A b \in D : r.block[b].free <=> b < c \/ b >= d
    BY <1>6, <1>7 DEF IsTidy, InCycle
  <2>2. d = r.last
    <3>1. r.block[d].free
      BY <1>1, <1>2, <2>1
    <3> QED
      BY <1>6, <1>7, <3>1, ProduceIsLast
  <2>3. p # r.last
    BY <2>2
  <2>4. p = First => q = d
    BY <1>3, <2>2
  <2> QED
    BY <1>3, <1>4, <1>5, <2>3, <2>4 DEF Used
<1>8. ASSUME c >= d PROVE (n = d \/ n \in Used(r)) /\ (q = d \/ q \in Used(r))
  <2>1. \A b \in D : /\ b < d => ~r.block[b].free
                     /\ b >= d /\ b < c => r.block[b].free
                     /\ b >= c /\ b # r.last => ~r.block[b].free
    BY <1>1, <1>2, <1>6, <1>8 DEF IsTidy, InCycle
  <2>2. First = d \/ ~r.block[First].free
    BY <1>1, <1>2, <2>1 DEF First
  <2>3. p # First
    BY <1>1, <2>2
  <2>4. n = d \/ ~r.block[n].free
    BY <1>3, <1>4, <2>2
  <2> QED
    BY <1>3, <1>5, <2>3, <2>4 DEF Used
<1>9. (n = d \/ n \in Used(r)) /\ (q = d \/ q \in Used(r))
  BY <1>1, <1>2, <1>7, <1>8
<1> QED
  BY <1>9 DEF n, q

\* f is the loop of Next through the blocks.
IsWalk(r, f) ==
    f = [q \in DOMAIN r.block |-> IF q = r.produce THEN Null
                                  ELSE IF q \in Used(r) THEN q
                                  ELSE f[NextBlock(r, q)]]

IsWalkBack(r, f) ==
    f = [q \in DOMAIN r.block |-> IF q = r.produce THEN Null
                                  ELSE IF q \in Used(r) THEN q
                                  ELSE f[PrevBlock(r, q)]]

\* Where a loop ends that comes to block q, and to block n after that.
Stop(r, q, n) == IF q = r.produce THEN Null
                 ELSE IF q \in Used(r) THEN q
                 ELSE IF n = r.produce THEN Null
                 ELSE n

LEMMA NextStops ==
    ASSUME NEW r, IsTidy(r), NEW p \in DOMAIN r.block
    PROVE  LET q == NextBlock(r, p) IN NextUsed(r, p) = Stop(r, q, NextBlock(r, q))
<1> DEFINE D == DOMAIN r.block
           g == [q \in D |-> Stop(r, q, NextBlock(r, q))]
<1>1. \A q \in D : NextBlock(r, q) \in D
  BY NextOfChain DEF IsTidy
<1>2. \A q \in D : q = r.produce \/ q \in Used(r) \/ NextBlock(r, q) = r.produce \/ NextBlock(r, q) \in Used(r)
  BY PastFree
<1>3. IsWalk(r, g)
  <2>1. ASSUME NEW q \in D
        PROVE  g[q] = IF q = r.produce THEN Null
                      ELSE IF q \in Used(r) THEN q
                      ELSE g[NextBlock(r, q)]
    BY <1>1, <1>2 DEF Stop
  <2>2. g = [q \in D |-> g[q]]
    OBVIOUS
  <2> HIDE DEF g
  <2> QED
    BY <2>1, <2>2 DEF IsWalk
<1> DEFINE from[q \in D] == IF q = r.produce THEN Null
                            ELSE IF q \in Used(r) THEN q
                            ELSE from[NextBlock(r, q)]
<1>4. NextUsed(r, p) = from[NextBlock(r, p)]
  BY DEF NextUsed
<1>5. IsWalk(r, CHOOSE f : IsWalk(r, f))
  BY <1>3, Zenon
<1>6. from = CHOOSE f : IsWalk(r, f)
  BY DEF from, IsWalk
<1> HIDE DEF from, g
<1>7. IsWalk(r, from)
  BY <1>5, <1>6
<1>8. \A q \in D : from[q] = IF q = r.produce THEN Null
                             ELSE IF q \in Used(r) THEN q
                             ELSE from[NextBlock(r, q)]
  BY <1>7 DEF IsWalk
<1>9. \A q \in D : from[q] = Stop(r, q, NextBlock(r, q))
  BY <1>1, <1>2, <1>8 DEF Stop
<1> QED
  BY <1>1, <1>4, <1>9

LEMMA PrevStops ==
    ASSUME NEW r, IsTidy(r), NEW p \in DOMAIN r.block
    PROVE  LET q == PrevBlock(r, p) IN PrevUsed(r, p) = Stop(r, q, PrevBlock(r, q))
<1> DEFINE D == DOMAIN r.block
           g == [q \in D |-> Stop(r, q, PrevBlock(r, q))]
<1>1. \A q \in D : PrevBlock(r, q) \in D
  BY PrevOfChain DEF IsTidy, PrevBlock, IsChain, IsRing
<1>2. \A q \in D : q = r.produce \/ q \in Used(r) \/ PrevBlock(r, q) = r.produce \/ PrevBlock(r, q) \in Used(r)
  BY PastFree
<1>3. IsWalkBack(r, g)
  <2>1. ASSUME NEW q \in D
        PROVE  g[q] = IF q = r.produce THEN Null
                      ELSE IF q \in Used(r) THEN q
                      ELSE g[PrevBlock(r, q)]
    BY <1>1, <1>2 DEF Stop
  <2>2. g = [q \in D |-> g[q]]
    OBVIOUS
  <2> HIDE DEF g
  <2> QED
    BY <2>1, <2>2 DEF IsWalkBack
<1> DEFINE from[q \in D] == IF q = r.produce THEN Null
                            ELSE IF q \in Used(r) THEN q
                            ELSE from[PrevBlock(r, q)]
<1>4. PrevUsed(r, p) = from[PrevBlock(r, p)]
  BY DEF PrevUsed
<1>5. IsWalkBack(r, CHOOSE f : IsWalkBack(r, f))
  BY <1>3, Zenon
<1>6. from = CHOOSE f : IsWalkBack(r, f)
  BY DEF from, IsWalkBack
<1> HIDE DEF from, g
<1>7. IsWalkBack(r, from)
  BY <1>5, <1>6
<1>8. \A q \in D : from[q] = IF q = r.produce THEN Null
                             ELSE IF q \in Used(r) THEN q
                             ELSE from[PrevBlock(r, q)]
  BY <1>7 DEF IsWalkBack
<1>9. \A q \in D : from[q] = Stop(r, q, PrevBlock(r, q))
  BY <1>1, <1>2, <1>8 DEF Stop
<1> QED
  BY <1>1, <1>4, <1>9

\* The blocks on both sides of block p.
LEMMA Neighbours ==
    ASSUME NEW r, IsChain(r), NEW p \in DOMAIN r.block
    PROVE  /\ NextBlock(r, p) \in DOMAIN r.block
           /\ IF p = r.last
              THEN NextBlock(r, p) = First
              ELSE /\ p < NextBlock(r, p)
                   /\ \A b \in DOMAIN r.block : b <= p \/ b >= NextBlock(r, p)
           /\ PrevBlock(r, p) \in DOMAIN r.block
           /\ IF p = First
              THEN PrevBlock(r, p) = r.last
              ELSE /\ PrevBlock(r, p) < p
                   /\ \A b \in DOMAIN r.block : b <= PrevBlock(r, p) \/ b >= p
<1>1. \A b \in DOMAIN r.block : b \in Nat /\ End(r, b) \in Nat /\ b < End(r, b)
  BY BlockOfChain
<1>2. First \in DOMAIN r.block /\ r.last \in DOMAIN r.block
  BY DEF IsChain, IsRing
<1>3. NextBlock(r, p) \in DOMAIN r.block /\ NextBlock(r, p) = IF p = r.last THEN First ELSE End(r, p)
  BY NextOfChain
<1>4. ASSUME NEW x \in DOMAIN r.block, NEW b \in DOMAIN r.block, ~ (b <= x)
      PROVE  b >= End(r, x)
  <2>1. x < b
    BY <1>1, <1>4
  <2> QED
    BY <1>1, <2>1, NextOfChain
<1>5. p = First => PrevBlock(r, p) = r.last
  BY PrevOfChain DEF PrevBlock
<1>6. p # First => /\ PrevBlock(r, p) \in DOMAIN r.block
                   /\ End(r, PrevBlock(r, p)) = p
  BY PrevOfChain DEF PrevBlock
<1> QED
  BY <1>1, <1>2, <1>3, <1>4, <1>5, <1>6

\* Where the blocks and the items lie.
IsLaid(r, D, U, c, d, last) ==
    /\ First \in D /\ last \in D /\ c \in D /\ d \in D /\ U \subseteq D
    /\ \A b \in D : b \in Nat /\ b < Size /\ b <= last /\ First <= b
    /\ c \notin U => D = {First} /\ U = {}
    /\ c \in U /\ c < d => d = last /\ \A b \in D : b \in U <=> c <= b /\ b < d
    /\ c \in U /\ c >= d => \A b \in D : /\ b < d => b \in U
                                         /\ d <= b /\ b < c => b \notin U
                                         /\ c <= b /\ b # last => b \in U

LEMMA TidyIsLaid ==
    ASSUME NEW r, IsTidy(r)
    PROVE  IsLaid(r, DOMAIN r.block, Used(r), r.consume, r.produce, r.last)
<1> DEFINE D == DOMAIN r.block
           c == r.consume
           d == r.produce
<1>1. IsChain(r) /\ c \in D /\ d \in D /\ First \in D /\ r.last \in D
  BY DEF IsTidy, IsChain, IsRing
<1>2. \A b \in D : b \in Nat /\ b < Size
  BY <1>1, BlockOfChain
<1>3. \A b \in D : b <= r.last /\ First <= b
  <2> SUFFICES ASSUME NEW b \in D PROVE b <= r.last /\ First <= b
    OBVIOUS
  <2>1. ~ (r.last < b)
    BY <1>1, NextOfChain
  <2> QED
    BY <1>1, <1>2, <2>1 DEF First
<1>4. c \notin Used(r) => D = {First} /\ Used(r) = {}
  <2> SUFFICES ASSUME c \notin Used(r) PROVE D = {First} /\ Used(r) = {}
    OBVIOUS
  <2>1. r.block[c].free /\ D = {First}
    BY <1>1 DEF Used, IsTidy, InCycle
  <2> QED
    BY <1>1, <2>1 DEF Used
<1>5. ASSUME c \in Used(r), c < d
      PROVE  d = r.last /\ \A b \in D : b \in Used(r) <=> c <= b /\ b < d
  <2>1. ~r.block[c].free
    BY <1>5 DEF Used
  <2>2. \A b \in D : r.block[b].free <=> b < c \/ b >= d
    BY <1>5, <2>1 DEF IsTidy, InCycle
  <2>3. r.block[d].free
    BY <1>1, <1>2, <2>2
  <2>4. d = r.last
    BY <1>5, <2>1, <2>3, ProduceIsLast
  <2>5. ASSUME NEW b \in D PROVE b \in Used(r) <=> c <= b /\ b < d
    <3>1. b \in Used(r) <=> ~ (b < c \/ b >= d)
      BY <2>2 DEF Used
    <3>2. b \in Nat /\ c \in Nat /\ d \in Nat
      BY <1>1, <1>2
    <3> QED
      BY <3>1, <3>2
  <2> QED
    BY <2>4, <2>5
<1>6. ASSUME c \in Used(r), c >= d, NEW b \in D
      PROVE  /\ b < d => b \in Used(r)
             /\ d <= b /\ b < c => b \notin Used(r)
             /\ c <= b /\ b # r.last => b \in Used(r)
  <2>1. ~r.block[c].free
    BY <1>6 DEF Used
  <2>2. /\ b < d => ~r.block[b].free
        /\ b >= d /\ b < c => r.block[b].free
        /\ b >= c /\ b # r.last => ~r.block[b].free
    BY <1>6, <2>1 DEF IsTidy, InCycle
  <2>3. b \in Nat /\ c \in Nat /\ d \in Nat
    BY <1>1, <1>2
  <2> QED
    BY <2>2, <2>3 DEF Used
<1>7. Used(r) \subseteq D
  BY DEF Used
<1> QED
  BY <1>1, <1>2, <1>3, <1>4, <1>5, <1>6, <1>7 DEF IsLaid

\* Of two items one is ahead.
LEMMA RanksDiffer ==
    ASSUME NEW r, IsTidy(r)
    PROVE  /\ \A a \in Used(r) : Rank(r, a) \in Nat
           /\ \A a, b \in Used(r) : Rank(r, a) = Rank(r, b) => a = b
           /\ r.consume \in Used(r) => \A b \in Used(r) : Rank(r, r.consume) <= Rank(r, b)
<1> DEFINE D == DOMAIN r.block
           U == Used(r)
           c == r.consume
           d == r.produce
           last == r.last
<1>1. IsLaid(r, D, U, c, d, last)
  BY TidyIsLaid
<1>2. \A b : Rank(r, b) = IF b < d THEN b + Size ELSE b
  BY DEF Rank
<1> HIDE DEF D, U, c, d, last
<1>3. \A b \in U : b \in Nat /\ b < Size /\ b \in D
  BY <1>1 DEF IsLaid
<1>4. Size \in Nat /\ d \in Nat /\ c \in Nat /\ d < Size
  BY <1>1, SizeIsUnits DEF IsLaid
<1>5. \A a \in U : Rank(r, a) \in Nat
  BY <1>2, <1>3, <1>4
<1>6. \A a, b \in U : Rank(r, a) = Rank(r, b) => a = b
  BY <1>2, <1>3, <1>4
<1>7. ASSUME c \in U, NEW b \in U PROVE Rank(r, c) <= Rank(r, b)
  <2>1. b \in Nat /\ b < Size /\ b \in D /\ c < Size
    BY <1>3, <1>7
  <2>2. CASE c < d
    <3>1. c <= b /\ b < d
      BY <1>1, <1>7, <2>1, <2>2 DEF IsLaid
    <3> QED
      BY <1>2, <1>4, <2>1, <2>2, <3>1
  <2>3. CASE c >= d
    <3>1. ~ (d <= b /\ b < c)
      BY <1>1, <1>7, <2>1, <2>3 DEF IsLaid
    <3> QED
      BY <1>2, <1>4, <2>1, <2>3, <3>1
  <2> QED
    BY <1>4, <2>2, <2>3
<1>8. c \in U => \A b \in U : Rank(r, c) <= Rank(r, b)
  BY <1>7
<1> QED
  BY <1>5, <1>6, <1>8 DEF U, c

\* q is the item behind p, if there is one.
IsAfter(r, p, q) ==
    IF q = Null
    THEN \A b \in Used(r) : ~ (Rank(r, p) < Rank(r, b))
    ELSE /\ q \in Used(r) /\ Rank(r, p) < Rank(r, q)
         /\ \A b \in Used(r) : ~ (Rank(r, p) < Rank(r, b) /\ Rank(r, b) < Rank(r, q))

LEMMA NextInOrder ==
    ASSUME NEW r, IsTidy(r), NEW p \in Used(r)
    PROVE  IsAfter(r, p, NextUsed(r, p))
<1> DEFINE D == DOMAIN r.block
           U == Used(r)
           c == r.consume
           d == r.produce
           last == r.last
           n == NextBlock(r, p)
           n2 == NextBlock(r, n)
           q == NextUsed(r, p)
<1>1. IsChain(r) /\ IsLaid(r, D, U, c, d, last) /\ p \in D /\ U \subseteq D
  BY TidyIsLaid DEF IsTidy, Used
<1>2. /\ n \in D
      /\ IF p = last THEN n = First ELSE p < n /\ \A b \in D : b <= p \/ b >= n
  BY <1>1, Neighbours
<1>3. /\ n2 \in D
      /\ IF n = last THEN n2 = First ELSE n < n2 /\ \A b \in D : b <= n \/ b >= n2
  BY <1>1, <1>2, Neighbours
<1>4. q = IF n = d THEN Null
          ELSE IF n \in U THEN n
          ELSE IF n2 = d THEN Null
          ELSE n2
  BY <1>1, NextStops DEF Stop
<1>5. n \in U \/ n = d \/ n2 = d \/ n2 \in U
  BY <1>2, PastFree
<1>6. \A b : Rank(r, b) = IF b < d THEN b + Size ELSE b
  BY DEF Rank
<1>7. \A b \in D : b # Null
  BY <1>1 DEF IsLaid, Null
<1> HIDE DEF D, U, c, d, last, n, n2, q
<1>8. /\ \A b \in D : b \in Nat /\ b < Size /\ b <= last /\ First <= b
      /\ Size \in Nat /\ d \in D /\ c \in D /\ last \in D /\ First \in D /\ p \in U /\ First = 0
      /\ c \in U
  BY <1>1, SizeIsUnits DEF IsLaid, First, U
<1>9. CASE n = d
  <2>1. \A b \in U : ~ (Rank(r, p) < Rank(r, b))
    <3> SUFFICES ASSUME NEW b \in U PROVE ~ (Rank(r, p) < Rank(r, b))
      OBVIOUS
    <3>1. b \in D /\ b \in Nat /\ p \in Nat /\ d \in Nat /\ b < Size
      BY <1>1, <1>8
    <3> QED
      BY <1>1, <1>2, <1>6, <1>8, <1>9, <3>1
  <2> QED
    BY <1>4, <1>9, <2>1 DEF IsAfter, q, U
<1>10. CASE n # d /\ n \in U
  <2>1. Rank(r, p) < Rank(r, n)
    <3>1. p \in Nat /\ n \in Nat /\ d \in Nat /\ p \in D /\ n < Size /\ p < Size
      BY <1>1, <1>2, <1>8
    <3> QED
      BY <1>2, <1>6, <1>8, <1>10, <3>1
  <2>2. ASSUME NEW b \in U PROVE ~ (Rank(r, p) < Rank(r, b) /\ Rank(r, b) < Rank(r, n))
    <3>1. b \in D /\ b \in Nat /\ p \in Nat /\ d \in Nat /\ n \in Nat /\ b < Size /\ n < Size
      BY <1>1, <1>2, <1>8
    <3> QED
      BY <1>1, <1>2, <1>6, <1>8, <1>10, <3>1
  <2> QED
    BY <1>2, <1>4, <1>7, <1>10, <2>1, <2>2 DEF IsAfter, q, U
<1>11. CASE n # d /\ n \notin U
  <2>1. p # last /\ n = last /\ c >= d
    <3>1. p \in Nat /\ n \in Nat /\ n2 \in Nat /\ d \in Nat /\ c \in Nat /\ p \in D /\ last \in Nat
      BY <1>1, <1>2, <1>3, <1>8
    <3>2. CASE c < d
      <4>1. \A b \in D : b \in U <=> c <= b /\ b < d
        BY <1>1, <1>8, <3>2 DEF IsLaid
      <4>2. d = last
        BY <1>1, <1>8, <3>2 DEF IsLaid
      <4> QED
        BY <1>1, <1>2, <1>8, <1>11, <3>1, <3>2, <4>1, <4>2
    <3>3. CASE c >= d
      <4>1. \A b \in D : /\ b < d => b \in U
                         /\ d <= b /\ b < c => b \notin U
                         /\ c <= b /\ b # last => b \in U
        BY <1>1, <1>8, <3>3 DEF IsLaid
      <4> QED
        BY <1>1, <1>2, <1>8, <1>11, <3>1, <3>3, <4>1
    <3> QED
      BY <3>1, <3>2, <3>3
  <2>2. n2 = First /\ p < last /\ p \in Nat /\ last \in Nat /\ d \in Nat /\ p >= d
    <3>1. p \in Nat /\ last \in Nat /\ d \in Nat /\ p \in D /\ p < last
      BY <1>1, <1>2, <1>8, <2>1
    <3>2. d <= p
      BY <1>2, <1>8, <1>11, <2>1, <3>1
    <3> QED
      BY <1>3, <2>1, <3>1, <3>2
  <2>3. CASE First = d
    <3>1. \A b \in U : ~ (Rank(r, p) < Rank(r, b))
      <4> SUFFICES ASSUME NEW b \in U PROVE ~ (Rank(r, p) < Rank(r, b))
        OBVIOUS
      <4>1. b \in D /\ b \in Nat /\ b # last /\ (b <= p \/ b >= last)
        BY <1>1, <1>2, <1>8, <1>11, <2>1
      <4>2. b <= p
        BY <1>8, <2>2, <4>1
      <4> QED
        BY <1>6, <1>8, <2>2, <2>3, <4>1, <4>2
    <3> QED
      BY <1>4, <1>11, <2>2, <2>3, <3>1 DEF IsAfter, q, U
  <2>4. CASE First # d
    <3>1. n2 \in U
      BY <1>5, <1>11, <2>2, <2>4
    <3>2. Rank(r, n2) = Size /\ Rank(r, p) = p /\ p < Size
      BY <1>1, <1>6, <1>8, <2>2, <2>4
    <3>3. ASSUME NEW b \in U PROVE ~ (Rank(r, p) < Rank(r, b) /\ Rank(r, b) < Rank(r, n2))
      <4>1. b \in D /\ b \in Nat /\ b # last /\ (b <= p \/ b >= last) /\ b <= last
        BY <1>1, <1>2, <1>8, <1>11, <2>1
      <4>2. b <= p
        BY <1>8, <2>2, <4>1
      <4> QED
        BY <1>6, <1>8, <2>2, <3>2, <4>1, <4>2
    <3>4. n2 # Null
      BY <1>3, <1>7
    <3>5. q = n2
      BY <1>4, <1>11, <2>2, <2>4
    <3> QED
      BY <1>8, <3>1, <3>2, <3>3, <3>4, <3>5 DEF IsAfter, q, U
  <2> QED
    BY <2>3, <2>4
<1> QED
  BY <1>9, <1>10, <1>11

\* s is the items' blocks, the oldest first.
IsListed(r, s) ==
    /\ s \in Seq(Used(r))
    /\ \A b \in Used(r) : \E i \in 1 .. Len(s) : s[i] = b
    /\ \A i, j \in 1 .. Len(s) : i < j => Rank(r, s[i]) < Rank(r, s[j])

\* The items in them.
Stored(r, s) == [i \in 1 .. Len(s) |-> r.block[s[i]].item]

LEMMA ListedOrder ==
    ASSUME NEW r, IsTidy(r), NEW s, IsListed(r, s)
    PROVE  /\ s \in Seq(Used(r)) /\ Len(s) \in Nat
           /\ \A i \in 1 .. Len(s) : s[i] \in Used(r) /\ s[i] # Null /\ Rank(r, s[i]) \in Nat
           /\ \A i, j \in 1 .. Len(s) : Rank(r, s[i]) < Rank(r, s[j]) => i < j
           /\ \A i, j \in 1 .. Len(s) : s[i] = s[j] => i = j
<1>1. s \in Seq(Used(r)) /\ Len(s) \in Nat /\ \A i \in 1 .. Len(s) : s[i] \in Used(r)
  BY DEF IsListed
<1>2. \A a \in Used(r) : Rank(r, a) \in Nat
  BY RanksDiffer
<1>3. \A a \in Used(r) : a # Null
  <2>1. \A a \in DOMAIN r.block : a \in Nat
    BY BlockOfChain DEF IsTidy
  <2> QED
    BY <2>1 DEF Used, Null
<1>4. ASSUME NEW i \in 1 .. Len(s), NEW j \in 1 .. Len(s), Rank(r, s[i]) < Rank(r, s[j])
      PROVE  i < j
  <2> SUFFICES ASSUME ~ (i < j) PROVE FALSE
    OBVIOUS
  <2>1. j < i \/ i = j
    BY <1>1
  <2>2. CASE i = j
    BY <1>1, <1>2, <1>4, <2>2
  <2>3. CASE j < i
    <3>1. Rank(r, s[j]) < Rank(r, s[i])
      BY <2>3 DEF IsListed
    <3>2. Rank(r, s[j]) \in Nat /\ Rank(r, s[i]) \in Nat
      BY <1>1, <1>2
    <3> QED
      BY <1>4, <3>1, <3>2
  <2> QED
    BY <2>1, <2>2, <2>3
<1>5. ASSUME NEW i \in 1 .. Len(s), NEW j \in 1 .. Len(s), s[i] = s[j]
      PROVE  i = j
  <2>1. \A k, l \in 1 .. Len(s) : k < l => Rank(r, s[k]) < Rank(r, s[l])
    BY DEF IsListed
  <2>2. ~ (i < j) /\ ~ (j < i)
    BY <1>1, <1>2, <1>5, <2>1
  <2> QED
    BY <1>1, <2>2
<1> QED
  BY <1>1, <1>2, <1>3, <1>4, <1>5

\* Next leads from one to the next.
LEMMA ListedNext ==
    ASSUME NEW r, IsTidy(r), NEW s, IsListed(r, s), NEW i \in 1 .. Len(s)
    PROVE  NextUsed(r, s[i]) = IF i = Len(s) THEN Null ELSE s[i + 1]
<1> DEFINE q == NextUsed(r, s[i])
<1>1. /\ Len(s) \in Nat
      /\ \A k \in 1 .. Len(s) : s[k] \in Used(r) /\ s[k] # Null
      /\ \A k, l \in 1 .. Len(s) : Rank(r, s[k]) < Rank(r, s[l]) => k < l
  BY ListedOrder
<1>2. IsAfter(r, s[i], q)
  BY <1>1, NextInOrder
<1>3. /\ \A b \in Used(r) : \E k \in 1 .. Len(s) : s[k] = b
      /\ \A k, l \in 1 .. Len(s) : k < l => Rank(r, s[k]) < Rank(r, s[l])
  BY DEF IsListed
<1> HIDE DEF q
<1>4. ASSUME i # Len(s) PROVE q = s[i + 1]
  <2>1. i + 1 \in 1 .. Len(s) /\ i < i + 1
    BY <1>1, <1>4
  <2>2. Rank(r, s[i]) < Rank(r, s[i + 1]) /\ s[i + 1] \in Used(r)
    BY <1>1, <1>3, <2>1
  <2>3. q # Null
    BY <1>2, <2>2 DEF IsAfter
  <2>4. /\ q \in Used(r) /\ Rank(r, s[i]) < Rank(r, q)
        /\ ~ (Rank(r, s[i + 1]) < Rank(r, q))
    BY <1>2, <2>2, <2>3 DEF IsAfter
  <2>5. PICK j \in 1 .. Len(s) : s[j] = q
    BY <1>3, <2>4
  <2>6. i < j
    BY <1>1, <2>4, <2>5
  <2>7. ~ (i + 1 < j)
    BY <1>3, <2>1, <2>4, <2>5
  <2>8. j = i + 1
    BY <2>6, <2>7
  <2> QED
    BY <2>5, <2>8
<1>5. ASSUME i = Len(s) PROVE q = Null
  <2> SUFFICES ASSUME q # Null PROVE FALSE
    OBVIOUS
  <2>1. q \in Used(r) /\ Rank(r, s[i]) < Rank(r, q)
    BY <1>2 DEF IsAfter
  <2>2. PICK j \in 1 .. Len(s) : s[j] = q
    BY <1>3, <2>1
  <2>3. i < j
    BY <1>1, <2>1, <2>2
  <2> QED
    BY <1>1, <1>5, <2>3
<1> QED
  BY <1>4, <1>5 DEF q

LEMMA ListedFirst ==
    ASSUME NEW r, IsTidy(r), NEW s, IsListed(r, s)
    PROVE  /\ FirstUsed(r) = IF s = <<>> THEN Null ELSE s[1]
           /\ s # <<>> => r.consume = s[1] /\ r.consume \in Used(r)
           /\ s = <<>> <=> Used(r) = {}
<1> DEFINE c == r.consume
<1>1. /\ Len(s) \in Nat /\ s \in Seq(Used(r))
      /\ \A k \in 1 .. Len(s) : s[k] \in Used(r) /\ Rank(r, s[k]) \in Nat
      /\ \A k, l \in 1 .. Len(s) : Rank(r, s[k]) < Rank(r, s[l]) => k < l
  BY ListedOrder
<1>2. /\ \A b \in Used(r) : \E k \in 1 .. Len(s) : s[k] = b
      /\ \A k, l \in 1 .. Len(s) : k < l => Rank(r, s[k]) < Rank(r, s[l])
  BY DEF IsListed
<1>3. c \in DOMAIN r.block /\ (c \in Used(r) <=> ~r.block[c].free)
  BY DEF IsTidy, IsChain, IsRing, Used
<1>4. c \notin Used(r) => Used(r) = {}
  BY TidyIsLaid DEF IsLaid
<1>5. s = <<>> <=> Len(s) = 0
  BY <1>1
<1>6. Len(s) # 0 => 1 \in 1 .. Len(s)
  BY <1>1
<1>7. s = <<>> <=> Used(r) = {}
  BY <1>1, <1>2, <1>5, <1>6
<1>8. ASSUME s # <<>> PROVE c \in Used(r) /\ s[1] = c
  <2>1. c \in Used(r)
    BY <1>4, <1>7, <1>8
  <2>2. PICK k \in 1 .. Len(s) : s[k] = c
    BY <1>2, <2>1
  <2>3. Rank(r, c) <= Rank(r, s[1]) /\ s[1] \in Used(r)
    BY <1>1, <1>5, <1>6, <1>8, <2>1, RanksDiffer
  <2>4. ~ (1 < k)
    <3>1. Rank(r, c) \in Nat /\ Rank(r, s[1]) \in Nat
      BY <2>1, <2>3, RanksDiffer
    <3> QED
      BY <1>2, <1>5, <1>6, <1>8, <2>2, <2>3, <3>1
  <2>5. k = 1
    BY <2>4
  <2> QED
    BY <2>1, <2>2, <2>5
<1> QED
  BY <1>3, <1>7, <1>8 DEF FirstUsed

-----------------------------------------------------------------------------
(* The items, the newest first *)

\* q is the item ahead of p, if there is one, but for the one at m_pProduce.
IsAhead(r, p, q) ==
    IF q = Null
    THEN \A b \in Used(r) \ {r.produce} : ~ (Rank(r, b) < Rank(r, p))
    ELSE /\ q \in Used(r) \ {r.produce} /\ Rank(r, q) < Rank(r, p)
         /\ \A b \in Used(r) : ~ (Rank(r, q) < Rank(r, b) /\ Rank(r, b) < Rank(r, p))

\* q is the newest item, if there is one, but for the one at m_pProduce.
IsNewest(r, q) ==
    IF q = Null
    THEN Used(r) \subseteq {r.produce}
    ELSE /\ q \in Used(r) \ {r.produce}
         /\ \A b \in Used(r) : ~ (Rank(r, q) < Rank(r, b))

LEMMA PrevInOrder ==
    ASSUME NEW r, IsTidy(r), NEW p \in Used(r), p # r.produce
    PROVE  IsAhead(r, p, PrevUsed(r, p))
<1> DEFINE D == DOMAIN r.block
           U == Used(r)
           c == r.consume
           d == r.produce
           last == r.last
           n == PrevBlock(r, p)
           n2 == PrevBlock(r, n)
           q == PrevUsed(r, p)
<1>1. IsChain(r) /\ IsLaid(r, D, U, c, d, last) /\ p \in D /\ U \subseteq D /\ p # d
  BY TidyIsLaid DEF IsTidy, Used
<1>2. /\ n \in D
      /\ IF p = First THEN n = last ELSE n < p /\ \A b \in D : b <= n \/ b >= p
  BY <1>1, Neighbours
<1>3. /\ n2 \in D
      /\ IF n = First THEN n2 = last ELSE n2 < n /\ \A b \in D : b <= n2 \/ b >= n
  BY <1>1, <1>2, Neighbours
<1>4. q = IF n = d THEN Null
          ELSE IF n \in U THEN n
          ELSE IF n2 = d THEN Null
          ELSE n2
  BY <1>1, PrevStops DEF Stop
<1>5. n \in U \/ n = d \/ n2 = d \/ n2 \in U
  BY <1>2, PastFree
<1>6. \A b : Rank(r, b) = IF b < d THEN b + Size ELSE b
  BY DEF Rank
<1>7. \A b \in D : b # Null
  BY <1>1 DEF IsLaid, Null
<1>12. ~ (n \notin U /\ n2 \notin U /\ n # First)
  <2> SUFFICES ASSUME n \notin U, n2 \notin U, n # First PROVE FALSE
    OBVIOUS
  <2>1. End(r, n2) = n /\ n2 # last
    <3>1. n2 # last
      BY <1>1, <1>2, <1>3, BlockOfChain DEF IsLaid
    <3> QED
      BY <1>1, <1>2, <3>1, PrevOfChain DEF PrevBlock
  <2>2. r.block[n].free /\ r.block[n2].free
    BY <1>2, <1>3 DEF Used
  <2> QED
    BY <1>3, <2>1, <2>2 DEF IsTidy, Alternates
<1> HIDE DEF D, U, c, d, last, n, n2, q
<1>8. /\ \A b \in D : b \in Nat /\ b < Size /\ b <= last /\ First <= b
      /\ Size \in Nat /\ d \in D /\ c \in D /\ last \in D /\ First \in D /\ p \in U /\ First = 0
      /\ c \in U
  BY <1>1, SizeIsUnits DEF IsLaid, First, U
<1>9. CASE n = d
  <2>1. \A b \in U \ {d} : ~ (Rank(r, b) < Rank(r, p))
    <3> SUFFICES ASSUME NEW b \in U \ {d} PROVE ~ (Rank(r, b) < Rank(r, p))
      OBVIOUS
    <3>1. b \in D /\ b \in Nat /\ p \in Nat /\ d \in Nat /\ b < Size /\ p < Size /\ last \in Nat
      BY <1>1, <1>8
    <3>2. CASE p = First
      <4>1. d = last /\ b <= last
        BY <1>2, <1>8, <1>9, <3>1, <3>2
      <4> QED
        BY <1>6, <1>8, <3>1, <3>2, <4>1
    <3>3. CASE p # First
      <4>1. d < p /\ (b <= d \/ b >= p)
        BY <1>2, <1>9, <3>1, <3>3
      <4> QED
        BY <1>6, <1>8, <3>1, <4>1
    <3> QED
      BY <3>2, <3>3
  <2> QED
    BY <1>4, <1>9, <2>1 DEF IsAhead, q, U, d
<1>10. CASE n # d /\ n \in U
  <2>1. Rank(r, n) < Rank(r, p)
    <3>1. p \in Nat /\ n \in Nat /\ d \in Nat /\ p \in D /\ n < Size /\ p < Size /\ d <= last
      BY <1>1, <1>2, <1>8
    <3> QED
      BY <1>1, <1>2, <1>6, <1>8, <1>10, <3>1
  <2>2. ASSUME NEW b \in U PROVE ~ (Rank(r, n) < Rank(r, b) /\ Rank(r, b) < Rank(r, p))
    <3>1. b \in D /\ b \in Nat /\ p \in Nat /\ d \in Nat /\ n \in Nat /\ b < Size /\ n < Size /\ b <= last
      BY <1>1, <1>2, <1>8
    <3> QED
      BY <1>1, <1>2, <1>6, <1>8, <1>10, <3>1
  <2>3. n # Null /\ q = n
    BY <1>2, <1>4, <1>7, <1>10
  <2>4. n \in U \ {d}
    BY <1>10
  <2> QED
    BY <2>1, <2>2, <2>3, <2>4 DEF IsAhead, q, U, d
<1>11. CASE n # d /\ n \notin U
  <2>1. \A b \in D : b \in Nat /\ b < Size /\ b <= last
    BY <1>8
  <2>2. p \in Nat /\ n \in Nat /\ n2 \in Nat /\ d \in Nat /\ c \in Nat /\ last \in Nat /\ p \in D /\ d <= last
    BY <1>1, <1>2, <1>3, <1>8
  <2>3. CASE c < d
    <3>1. d = last /\ \A b \in D : b \in U <=> c <= b /\ b < d
      BY <1>1, <1>8, <2>3 DEF IsLaid
    <3>2. c <= p /\ p < d
      BY <1>1, <1>8, <3>1
    <3>3. p # First
      BY <1>2, <1>11, <3>1
    <3>4. n < c /\ p = c
      BY <1>2, <1>8, <1>11, <2>2, <3>1, <3>2, <3>3
    <3>5. n2 = d
      <4> SUFFICES ASSUME n2 \in U, n # First PROVE FALSE
        BY <1>3, <1>5, <1>11, <2>3, <3>1, <1>2, <1>8, <3>4
      <4>1. n2 < n /\ c <= n2
        BY <1>3, <3>1
      <4> QED
        BY <2>2, <3>4, <4>1
    <3>6. ASSUME NEW b \in U PROVE ~ (Rank(r, b) < Rank(r, p))
      <4>1. b \in Nat /\ c <= b /\ b < d /\ b < Size
        BY <1>1, <2>1, <3>1
      <4> QED
        BY <1>6, <1>8, <2>2, <3>2, <3>4, <4>1
    <3> QED
      BY <1>4, <1>11, <3>5, <3>6 DEF IsAhead, q, U
  <2>4. CASE c >= d
    <3>1. \A b \in D : /\ b < d => b \in U
                       /\ d <= b /\ b < c => b \notin U
                       /\ c <= b /\ b # last => b \in U
      BY <1>1, <1>8, <2>4 DEF IsLaid
    <3>2. n > d /\ n # First
      BY <1>2, <1>8, <1>11, <2>2, <3>1
    <3>3. n2 < n /\ \A b \in D : b <= n2 \/ b >= n
      BY <1>3, <3>2
    <3>4. n2 >= d /\ n2 # last
      BY <1>2, <1>8, <2>2, <3>2, <3>3
    <3>5. n2 \in U
      BY <1>11, <1>12, <3>2
    <3>6. c <= n2
      BY <1>3, <2>2, <3>1, <3>4, <3>5
    <3>7. n = last
      BY <1>2, <1>11, <2>2, <3>1, <3>3, <3>6
    <3>8. p = First /\ p < d
      <4>1. p = First
        BY <1>2, <1>8, <2>2, <3>7
      <4> QED
        BY <1>1, <1>8, <2>2, <4>1
    <3>9. ASSUME NEW b \in U PROVE b <= n2 /\ b \in Nat
      BY <1>1, <1>8, <1>11, <2>1, <2>2, <3>3, <3>7
    <3>10. Rank(r, p) = Size /\ Rank(r, n2) = n2 /\ n2 < Size
      BY <1>3, <1>6, <1>8, <2>2, <3>4, <3>8
    <3>11. CASE n2 = d
      <4>1. \A b \in U \ {d} : ~ (Rank(r, b) < Rank(r, p))
        BY <1>6, <1>8, <2>2, <3>9, <3>10, <3>11
      <4> QED
        BY <1>4, <1>11, <3>11, <4>1 DEF IsAhead, q, U, d
    <3>12. CASE n2 # d
      <4>1. \A b \in U : ~ (Rank(r, n2) < Rank(r, b) /\ Rank(r, b) < Rank(r, p))
        BY <1>6, <1>8, <2>2, <3>9, <3>10
      <4>2. n2 # Null /\ q = n2
        BY <1>3, <1>4, <1>7, <1>11, <3>12
      <4> QED
        BY <3>5, <3>10, <3>12, <4>1, <4>2 DEF IsAhead, q, U, d
    <3> QED
      BY <3>11, <3>12
  <2> QED
    BY <2>2, <2>3, <2>4
<1> QED
  BY <1>9, <1>10, <1>11

LEMMA LastIsNewest ==
    ASSUME NEW r, IsTidy(r)
    PROVE  IsNewest(r, LastUsed(r))
<1> DEFINE D == DOMAIN r.block
           U == Used(r)
           c == r.consume
           d == r.produce
           last == r.last
           n == PrevBlock(r, d)
           n2 == PrevBlock(r, n)
           q == LastUsed(r)
<1>1. IsChain(r) /\ IsLaid(r, D, U, c, d, last) /\ U \subseteq D /\ d \in D
  BY TidyIsLaid DEF IsTidy, Used, IsLaid
<1>2. /\ n \in D
      /\ IF d = First THEN n = last ELSE n < d /\ \A b \in D : b <= n \/ b >= d
  BY <1>1, Neighbours
<1>3. /\ n2 \in D
      /\ IF n = First THEN n2 = last ELSE n2 < n /\ \A b \in D : b <= n2 \/ b >= n
  BY <1>1, <1>2, Neighbours
<1>4. q = IF n = d THEN Null
          ELSE IF n \in U THEN n
          ELSE IF n2 = d THEN Null
          ELSE n2
  BY <1>1, PrevStops DEF Stop, LastUsed
<1>5. n \in U \/ n = d \/ n2 = d \/ n2 \in U
  BY <1>2, PastFree
<1>6. \A b : Rank(r, b) = IF b < d THEN b + Size ELSE b
  BY DEF Rank
<1>7. \A b \in D : b # Null
  BY <1>1 DEF IsLaid, Null
<1> HIDE DEF D, U, c, d, last, n, n2, q
<1>8. /\ \A b \in D : b \in Nat /\ b < Size /\ b <= last /\ First <= b
      /\ Size \in Nat /\ d \in D /\ c \in D /\ last \in D /\ First \in D /\ First = 0
      /\ c \notin U => D = {First} /\ U = {}
  BY <1>1, SizeIsUnits DEF IsLaid, First, U
<1>9. CASE U = {}
  <2>1. n \notin U /\ n2 \notin U
    BY <1>9
  <2>2. q = Null
    BY <1>4, <1>5, <2>1
  <2> QED
    BY <1>9, <2>2 DEF IsNewest, q, U
<1>10. CASE U # {} /\ n = d
  <2>1. n = First /\ d = last
    BY <1>2, <1>8, <1>10
  <2>2. \A b \in D : b \in Nat /\ b <= d /\ d <= b /\ d \in Nat
    BY <1>2, <1>8, <1>10, <2>1
  <2>3. \A b \in D : b = d
    BY <2>2
  <2>4. U \subseteq {d}
    BY <1>1, <2>3
  <2> QED
    BY <1>4, <1>10, <2>4 DEF IsNewest, q, U, d
<1>11. CASE U # {} /\ n # d /\ n \in U
  <2>1. n # Null /\ q = n
    BY <1>2, <1>4, <1>7, <1>11
  <2>2. ASSUME NEW b \in U PROVE ~ (Rank(r, n) < Rank(r, b))
    <3>1. b \in D /\ b \in Nat /\ d \in Nat /\ n \in Nat /\ b < Size /\ n < Size /\ b <= last /\ last \in Nat
      BY <1>1, <1>2, <1>8
    <3> QED
      BY <1>2, <1>6, <1>8, <3>1
  <2>3. n \in U \ {d}
    BY <1>11
  <2> QED
    BY <2>1, <2>2, <2>3 DEF IsNewest, q, U, d
<1>12. CASE U # {} /\ n # d /\ n \notin U
  <2>1. c \in U /\ c \in Nat /\ d \in Nat /\ n \in Nat /\ n2 \in Nat /\ last \in Nat
    BY <1>2, <1>3, <1>8, <1>12
  <2>2. c >= d
    <3> SUFFICES ASSUME c < d PROVE FALSE
      BY <2>1
    <3>1. d = last /\ \A b \in D : b \in U <=> c <= b /\ b < d
      BY <1>1, <2>1 DEF IsLaid
    <3>2. d # First /\ c <= n /\ n < d
      BY <1>2, <1>8, <2>1
    <3> QED
      BY <1>2, <1>12, <3>1, <3>2
  <2>3. \A b \in D : /\ b < d => b \in U
                     /\ c <= b /\ b # last => b \in U
    BY <1>1, <2>1, <2>2 DEF IsLaid
  <2>4. d = First /\ n = last /\ n # First
    BY <1>2, <1>12, <2>3
  <2>5. ASSUME NEW b \in U PROVE b <= n2 /\ b \in Nat /\ Rank(r, b) = b
    <3>1. b \in D /\ b # last /\ b \in Nat
      BY <1>1, <1>8, <1>12, <2>4
    <3>2. b < n
      BY <1>8, <2>1, <2>4, <3>1
    <3>3. b <= n2
      BY <1>3, <2>1, <2>4, <3>1, <3>2
    <3> QED
      BY <1>6, <1>8, <2>4, <3>1, <3>3
  <2>6. CASE n2 = d
    <3>1. U \subseteq {d}
      BY <1>8, <2>1, <2>4, <2>5, <2>6
    <3> QED
      BY <1>4, <1>12, <2>6, <3>1 DEF IsNewest, q, U, d
  <2>7. CASE n2 # d
    <3>1. n2 \in U \ {d} /\ n2 # Null /\ q = n2
      BY <1>3, <1>4, <1>5, <1>7, <1>12, <2>7
    <3>2. \A b \in U : ~ (Rank(r, n2) < Rank(r, b))
      BY <2>1, <2>5, <3>1
    <3> QED
      BY <3>1, <3>2 DEF IsNewest, q, U, d
  <2> QED
    BY <2>6, <2>7
<1> QED
  BY <1>9, <1>10, <1>11, <1>12

\* Where the loop over Prev ends in the list.
Oldest(r) == IF IsFull(r) THEN 2 ELSE 1

LEMMA FullAtProduce ==
    ASSUME NEW r, IsTidy(r), NEW s, IsListed(r, s)
    PROVE  /\ Oldest(r) \in {1, 2} /\ Oldest(r) <= Len(s) + 1
           /\ r.produce \in Used(r) <=> Oldest(r) = 2
           /\ \A i \in 1 .. Len(s) : s[i] = r.produce <=> i < Oldest(r)
<1> DEFINE U == Used(r)
           c == r.consume
           d == r.produce
<1>1. IsLaid(r, DOMAIN r.block, U, c, d, r.last)
  BY TidyIsLaid
<1>2. c \in U <=> ~r.block[c].free
  BY <1>1 DEF IsLaid, Used
<1>3. d \in U => c = d
  <2> SUFFICES ASSUME d \in U, c # d PROVE FALSE
    OBVIOUS
  <2>1. c \in U /\ c \in Nat /\ d \in Nat
    BY <1>1 DEF IsLaid
  <2> QED
    BY <1>1, <2>1 DEF IsLaid
<1>4. d \in U <=> IsFull(r)
  BY <1>2, <1>3 DEF IsFull
<1>5. Oldest(r) = IF IsFull(r) THEN 2 ELSE 1
  BY DEF Oldest
<1>6. s # <<>> => c = s[1]
  BY ListedFirst
<1>7. s = <<>> <=> U = {}
  BY ListedFirst
<1>8. /\ s \in Seq(U) /\ Len(s) \in Nat
      /\ \A i \in 1 .. Len(s) : s[i] \in U
      /\ \A i, j \in 1 .. Len(s) : s[i] = s[j] => i = j
  BY ListedOrder
<1>9. s # <<>> => 1 \in 1 .. Len(s)
  BY <1>8
<1> HIDE DEF U, c, d
<1>10. ASSUME NEW i \in 1 .. Len(s) PROVE s[i] = d <=> i < Oldest(r)
  <2>1. CASE d \in U
    <3>1. c = d /\ s # <<>> /\ Oldest(r) = 2
      BY <1>3, <1>4, <1>5, <1>7, <2>1
    <3>2. s[1] = d /\ 1 \in 1 .. Len(s)
      BY <1>6, <1>9, <3>1
    <3> QED
      BY <1>8, <3>1, <3>2
  <2>2. CASE d \notin U
    <3>1. Oldest(r) = 1
      BY <1>4, <1>5, <2>2
    <3> QED
      BY <1>8, <2>2, <3>1
  <2> QED
    BY <2>1, <2>2
<1>11. Oldest(r) \in {1, 2} /\ Oldest(r) <= Len(s) + 1 /\ (d \in U <=> Oldest(r) = 2)
  BY <1>4, <1>5, <1>7, <1>8, <1>9
<1> QED
  BY <1>10, <1>11 DEF U, d

\* Prev leads from one to the one before it.
LEMMA ListedPrev ==
    ASSUME NEW r, IsTidy(r), NEW s, IsListed(r, s), NEW i \in Oldest(r) .. Len(s)
    PROVE  PrevUsed(r, s[i]) = IF i = Oldest(r) THEN Null ELSE s[i - 1]
<1> DEFINE q == PrevUsed(r, s[i])
           h == Oldest(r)
           d == r.produce
<1>0. /\ h \in {1, 2}
      /\ \A k \in 1 .. Len(s) : s[k] = d <=> k < h
  BY FullAtProduce
<1>1. /\ Len(s) \in Nat
      /\ \A k \in 1 .. Len(s) : s[k] \in Used(r) /\ s[k] # Null
      /\ \A k, l \in 1 .. Len(s) : Rank(r, s[k]) < Rank(r, s[l]) => k < l
  BY ListedOrder
<1>2. i \in 1 .. Len(s) /\ ~ (i < h) /\ i \in Nat
  BY <1>0, <1>1
<1>3. IsAhead(r, s[i], q)
  <2>1. s[i] # d /\ s[i] \in Used(r)
    BY <1>0, <1>1, <1>2
  <2> QED
    BY <2>1, PrevInOrder
<1>4. /\ \A b \in Used(r) : \E k \in 1 .. Len(s) : s[k] = b
      /\ \A k, l \in 1 .. Len(s) : k < l => Rank(r, s[k]) < Rank(r, s[l])
  BY DEF IsListed
<1>5. i \in h .. Len(s)
  OBVIOUS
<1> HIDE DEF q, h, d
<1>6. ASSUME i # h PROVE q = s[i - 1]
  <2>1. i - 1 \in 1 .. Len(s) /\ i - 1 < i /\ ~ (i - 1 < h)
    BY <1>0, <1>1, <1>2, <1>5, <1>6
  <2>2. Rank(r, s[i - 1]) < Rank(r, s[i]) /\ s[i - 1] \in Used(r) /\ s[i - 1] # d
    BY <1>0, <1>1, <1>2, <1>4, <2>1
  <2>3. q # Null
    BY <1>3, <2>2 DEF IsAhead, d
  <2>4. /\ q \in Used(r) /\ Rank(r, q) < Rank(r, s[i])
        /\ ~ (Rank(r, q) < Rank(r, s[i - 1]))
    BY <1>3, <2>2, <2>3 DEF IsAhead
  <2>5. PICK j \in 1 .. Len(s) : s[j] = q
    BY <1>4, <2>4
  <2>6. j < i
    BY <1>1, <1>2, <2>4, <2>5
  <2>7. ~ (j < i - 1)
    BY <1>4, <2>1, <2>4, <2>5
  <2>8. j = i - 1
    BY <1>2, <2>6, <2>7
  <2> QED
    BY <2>5, <2>8
<1>7. ASSUME i = h PROVE q = Null
  <2> SUFFICES ASSUME q # Null PROVE FALSE
    OBVIOUS
  <2>1. q \in Used(r) /\ q # d /\ Rank(r, q) < Rank(r, s[i])
    BY <1>3 DEF IsAhead, d
  <2>2. PICK j \in 1 .. Len(s) : s[j] = q
    BY <1>4, <2>1
  <2>3. j < i
    BY <1>1, <1>2, <2>1, <2>2
  <2> QED
    BY <1>0, <1>7, <2>1, <2>2, <2>3
<1> QED
  BY <1>6, <1>7 DEF q, h

LEMMA ListedLast ==
    ASSUME NEW r, IsTidy(r), NEW s, IsListed(r, s)
    PROVE  LastUsed(r) = IF Len(s) < Oldest(r) THEN Null ELSE s[Len(s)]
<1> DEFINE q == LastUsed(r)
           h == Oldest(r)
           d == r.produce
           N == Len(s)
<1>0. /\ h \in {1, 2}
      /\ \A k \in 1 .. N : s[k] = d <=> k < h
  BY FullAtProduce
<1>1. /\ N \in Nat
      /\ \A k \in 1 .. N : s[k] \in Used(r) /\ s[k] # Null
      /\ \A k, l \in 1 .. N : Rank(r, s[k]) < Rank(r, s[l]) => k < l
  BY ListedOrder
<1>2. IsNewest(r, q)
  BY LastIsNewest
<1>3. /\ \A b \in Used(r) : \E k \in 1 .. N : s[k] = b
      /\ \A k, l \in 1 .. N : k < l => Rank(r, s[k]) < Rank(r, s[l])
  BY DEF IsListed
<1> HIDE DEF q, h, d, N
<1>4. ASSUME ~ (N < h) PROVE q = s[N]
  <2>1. N \in 1 .. N /\ s[N] \in Used(r) /\ s[N] # d
    BY <1>0, <1>1, <1>4
  <2>2. q # Null
    BY <1>2, <2>1 DEF IsNewest, d
  <2>3. q \in Used(r) /\ ~ (Rank(r, q) < Rank(r, s[N]))
    BY <1>2, <2>1, <2>2 DEF IsNewest
  <2>4. PICK j \in 1 .. N : s[j] = q
    BY <1>3, <2>3
  <2>5. ~ (j < N)
    BY <1>3, <2>1, <2>3, <2>4
  <2>6. j = N
    BY <1>1, <2>5
  <2> QED
    BY <2>4, <2>6
<1>5. ASSUME N < h PROVE q = Null
  <2> SUFFICES ASSUME q # Null PROVE FALSE
    OBVIOUS
  <2>1. q \in Used(r) /\ q # d
    BY <1>2 DEF IsNewest, d
  <2>2. PICK j \in 1 .. N : s[j] = q
    BY <1>3, <2>1
  <2>3. j < h
    BY <1>0, <1>1, <1>5, <2>2
  <2> QED
    BY <1>0, <2>1, <2>2, <2>3
<1> QED
  BY <1>4, <1>5 DEF q, h, N

\* f is the loop over Next that reads the items.
IsReading(r, f) ==
    f = [p \in Used(r) \union {Null} |->
           IF p = Null THEN <<>> ELSE <<r.block[p].item>> \o f[NextUsed(r, p)]]

LEMMA StoredType ==
    ASSUME NEW r, IsTidy(r), NEW s, IsListed(r, s)
    PROVE  /\ Stored(r, s) \in Seq(Item) /\ Len(Stored(r, s)) = Len(s)
           /\ \A i \in 1 .. Len(s) : Stored(r, s)[i] = r.block[s[i]].item
<1>1. Len(s) \in Nat /\ \A i \in 1 .. Len(s) : s[i] \in Used(r)
  BY ListedOrder
<1>2. \A b \in Used(r) : r.block[b].item \in Item
  <2>1. \A b \in DOMAIN r.block : r.block[b] \in HeaderType
    BY BlockOfChain DEF IsTidy
  <2> QED
    BY <2>1 DEF Used, HeaderType
<1>3. \A i \in 1 .. Len(s) : r.block[s[i]].item \in Item
  BY <1>1, <1>2
<1> QED
  BY <1>1, <1>3 DEF Stored

\* Where block p is in the list.
Place(s, p) == CHOOSE i \in 1 .. Len(s) : s[i] = p

LEMMA ListedPlace ==
    ASSUME NEW r, IsTidy(r), NEW s, IsListed(r, s)
    PROVE  /\ \A p \in Used(r) : Place(s, p) \in 1 .. Len(s) /\ s[Place(s, p)] = p
           /\ \A i \in 1 .. Len(s) : Place(s, s[i]) = i
<1>1. \A p \in Used(r) : \E i \in 1 .. Len(s) : s[i] = p
  BY DEF IsListed
<1>2. ASSUME NEW p \in Used(r)
      PROVE  Place(s, p) \in 1 .. Len(s) /\ s[Place(s, p)] = p
  BY <1>1 DEF Place
<1>3. ASSUME NEW i \in 1 .. Len(s) PROVE Place(s, s[i]) = i
  <2>1. s[i] \in Used(r) /\ \A k, l \in 1 .. Len(s) : s[k] = s[l] => k = l
    BY ListedOrder
  <2>2. Place(s, s[i]) \in 1 .. Len(s) /\ s[Place(s, s[i])] = s[i]
    BY <1>2, <2>1
  <2> QED
    BY <2>1, <2>2
<1> QED
  BY <1>2, <1>3

LEMMA ReadingExists ==
    ASSUME NEW r, IsTidy(r), NEW s, IsListed(r, s)
    PROVE  \E f : IsReading(r, f)
<1> DEFINE U == Used(r)
           t == Stored(r, s)
           N == Len(s)
           f == [p \in U \union {Null} |-> IF p = Null THEN <<>> ELSE SubSeq(t, Place(s, p), N)]
<1>1. /\ t \in Seq(Item) /\ Len(t) = N /\ N \in Nat
      /\ \A i \in 1 .. N : t[i] = r.block[s[i]].item
  BY StoredType, ListedOrder
<1>2. /\ \A p \in U : Place(s, p) \in 1 .. N /\ s[Place(s, p)] = p
      /\ \A i \in 1 .. N : Place(s, s[i]) = i
  BY ListedPlace
<1>3. \A i \in 1 .. N : s[i] \in U /\ s[i] # Null
  BY ListedOrder
<1>4. \A i \in 1 .. N : NextUsed(r, s[i]) = IF i = N THEN Null ELSE s[i + 1]
  BY ListedNext
<1> HIDE DEF t, N, U
<1>5. /\ DOMAIN f = U \union {Null}
      /\ f[Null] = <<>>
      /\ \A p \in U : p # Null => f[p] = SubSeq(t, Place(s, p), N)
  OBVIOUS
<1>6. f = [p \in U \union {Null} |-> f[p]]
  OBVIOUS
<1> HIDE DEF f
<1>7. \A i \in 1 .. N : f[s[i]] = SubSeq(t, i, N)
  BY <1>2, <1>3, <1>5
<1>8. ASSUME NEW i \in 1 .. N
      PROVE  f[s[i]] = <<t[i]>> \o f[NextUsed(r, s[i])]
  <2>1. SubSeq(t, i, N) = <<t[i]>> \o SubSeq(t, i + 1, N)
    BY <1>1, SubSeqRecursiveFirst
  <2>2. f[NextUsed(r, s[i])] = SubSeq(t, i + 1, N)
    <3>1. CASE i = N
      <4>1. SubSeq(t, i + 1, N) = <<>>
        BY <1>1, <3>1, SubSeqEmpty
      <4> QED
        BY <1>4, <1>5, <3>1, <4>1
    <3>2. CASE i # N
      <4>1. i + 1 \in 1 .. N
        BY <1>1, <3>2
      <4> QED
        BY <1>4, <1>7, <3>2, <4>1
    <3> QED
      BY <3>1, <3>2
  <2> QED
    BY <1>7, <2>1, <2>2
<1>9. ASSUME NEW p \in U \union {Null}
      PROVE  f[p] = IF p = Null THEN <<>> ELSE <<r.block[p].item>> \o f[NextUsed(r, p)]
  <2>1. CASE p = Null
    BY <1>5, <2>1
  <2>2. CASE p # Null
    <3> DEFINE i == Place(s, p)
    <3>1. i \in 1 .. N /\ s[i] = p
      BY <1>2, <2>2
    <3> HIDE DEF i
    <3> QED
      BY <1>1, <1>8, <2>2, <3>1
  <2> QED
    BY <2>1, <2>2
<1>10. IsReading(r, f)
  BY <1>6, <1>9 DEF IsReading, U
<1> QED
  BY <1>10

\* What the loop reads.
LEMMA ForwardIsStored ==
    ASSUME NEW r, IsTidy(r), NEW s, IsListed(r, s)
    PROVE  ItemsForward(r) = Stored(r, s)
<1> DEFINE U == Used(r)
           t == Stored(r, s)
           N == Len(s)
           from[p \in U \union {Null}] ==
             IF p = Null THEN <<>> ELSE <<r.block[p].item>> \o from[NextUsed(r, p)]
<1>1. ItemsForward(r) = from[FirstUsed(r)]
  BY DEF ItemsForward
<1>2. \E f : IsReading(r, f)
  BY ReadingExists
<1>3. IsReading(r, CHOOSE f : IsReading(r, f))
  BY <1>2, Zenon
<1>4. from = CHOOSE f : IsReading(r, f)
  BY DEF from, IsReading
<1> HIDE DEF from
<1>5. IsReading(r, from)
  BY <1>3, <1>4
<1>6. \A p \in U \union {Null} :
         from[p] = IF p = Null THEN <<>> ELSE <<r.block[p].item>> \o from[NextUsed(r, p)]
  BY <1>5 DEF IsReading
<1>7. /\ t \in Seq(Item) /\ Len(t) = N /\ N \in Nat
      /\ \A i \in 1 .. N : t[i] = r.block[s[i]].item
  BY StoredType, ListedOrder
<1>8. \A i \in 1 .. N : s[i] \in U /\ s[i] # Null
  BY ListedOrder
<1>9. \A i \in 1 .. N : NextUsed(r, s[i]) = IF i = N THEN Null ELSE s[i + 1]
  BY ListedNext
<1>10. /\ FirstUsed(r) = IF s = <<>> THEN Null ELSE s[1]
       /\ s = <<>> <=> N = 0
  <2>1. s \in Seq(U)
    BY ListedOrder
  <2> QED
    BY <2>1, ListedFirst
<1> HIDE DEF t, N, U
<1>11. from[Null] = <<>>
  BY <1>6
<1>12. \A i \in 1 .. N : from[s[i]] = <<t[i]>> \o from[NextUsed(r, s[i])]
  BY <1>6, <1>7, <1>8
<1> DEFINE T == {n \in Nat : n + 1 <= N => from[s[N - n]] = SubSeq(t, N - n, N)}
<1>13. 0 \in T
  <2> SUFFICES ASSUME 1 <= N PROVE from[s[N]] = SubSeq(t, N, N)
    BY <1>7
  <2>1. N \in 1 .. N
    BY <1>7
  <2>2. SubSeq(t, N, N) = <<t[N]>> \o SubSeq(t, N + 1, N)
    BY <1>7, <2>1, SubSeqRecursiveFirst
  <2>3. SubSeq(t, N + 1, N) = <<>>
    BY <1>7, SubSeqEmpty
  <2>4. from[s[N]] = <<t[N]>> \o <<>>
    BY <1>9, <1>11, <1>12, <2>1
  <2> QED
    BY <2>2, <2>3, <2>4
<1>14. ASSUME NEW n \in Nat, n \in T PROVE n + 1 \in T
  <2> SUFFICES ASSUME n + 2 <= N PROVE from[s[N - (n + 1)]] = SubSeq(t, N - (n + 1), N)
    BY <1>7
  <2> DEFINE i == N - (n + 1)
  <2>1. i \in 1 .. N /\ i # N /\ i + 1 = N - n
    BY <1>7
  <2>2. from[s[N - n]] = SubSeq(t, N - n, N)
    BY <1>7, <1>14
  <2> HIDE DEF i
  <2>3. from[s[i]] = <<t[i]>> \o SubSeq(t, i + 1, N)
    BY <1>9, <1>12, <2>1, <2>2
  <2>4. SubSeq(t, i, N) = <<t[i]>> \o SubSeq(t, i + 1, N)
    BY <1>7, <2>1, SubSeqRecursiveFirst
  <2>5. from[s[i]] = SubSeq(t, i, N)
    BY <2>3, <2>4
  <2> QED
    BY <2>5 DEF i
<1>15. Nat \subseteq T
  <2> HIDE DEF T
  <2> QED
    BY <1>13, <1>14, SetInduction
<1>16. from[FirstUsed(r)] = t
  <2>1. CASE N = 0
    <3>1. t = <<>>
      BY <1>7, <2>1
    <3> QED
      BY <1>10, <1>11, <2>1, <3>1
  <2>2. CASE N # 0
    <3> DEFINE n == N - 1
    <3>1. n \in Nat /\ n + 1 <= N /\ N - n = 1
      BY <1>7, <2>2
    <3> HIDE DEF n
    <3>2. from[s[1]] = SubSeq(t, 1, N)
      BY <1>15, <3>1
    <3>3. SubSeq(t, 1, N) = t
      BY <1>7, SubSeqFull
    <3> QED
      BY <1>10, <2>2, <3>2, <3>3
  <2> QED
    BY <2>1, <2>2
<1> QED
  BY <1>1, <1>16 DEF t

\* The elements of t from place i down to place h.
Down(t, h, i) == [k \in 1 .. i - h + 1 |-> t[i + 1 - k]]

LEMMA DownFirst ==
    ASSUME NEW S, NEW t \in Seq(S), NEW h \in Nat \ {0}, NEW i \in h .. Len(t)
    PROVE  /\ Down(t, h, i) = <<t[i]>> \o Down(t, h, i - 1)
           /\ i = h => Down(t, h, i - 1) = <<>>
<1> DEFINE d == Down(t, h, i - 1)
           e == Down(t, h, i)
<1>1. i \in Nat /\ h <= i /\ i <= Len(t) /\ Len(t) \in Nat /\ i - h \in Nat
  OBVIOUS
<1>2. \A k \in 1 .. i - h : i - k \in 1 .. Len(t)
  BY <1>1
<1>3. /\ d = [k \in 1 .. i - h |-> t[i - k]]
      /\ e = [k \in 1 .. i - h + 1 |-> t[i + 1 - k]]
  <2>1. (i - 1) - h + 1 = i - h /\ \A k \in 1 .. i - h : (i - 1) + 1 - k = i - k
    BY <1>1
  <2> QED
    BY <2>1 DEF Down
<1> HIDE DEF d, e
<1>4. d \in Seq(S) /\ Len(d) = i - h /\ \A k \in 1 .. i - h : d[k] = t[i - k]
  <2>1. \A k \in 1 .. i - h : t[i - k] \in S
    BY <1>2
  <2> QED
    BY <1>1, <1>3, <2>1
<1>5. \A k \in 1 .. i - h + 1 : i + 1 - k \in 1 .. Len(t)
  BY <1>1
<1>6. e \in Seq(S) /\ Len(e) = i - h + 1 /\ \A k \in 1 .. i - h + 1 : e[k] = t[i + 1 - k]
  <2>1. \A k \in 1 .. i - h + 1 : t[i + 1 - k] \in S
    BY <1>5
  <2>2. i - h + 1 \in Nat
    BY <1>1
  <2> QED
    BY <1>3, <2>1, <2>2
<1>7. t[i] \in S
  BY <1>1
<1> DEFINE x == t[i]
           c == <<x>> \o d
<1>8. c \in Seq(S) /\ Len(c) = i - h + 1 /\ \A k \in 1 .. i - h + 1 : c[k] = IF k = 1 THEN x ELSE d[k - 1]
  <2>1. <<x>> \in Seq(S) /\ Len(<<x>>) = 1 /\ <<x>>[1] = x
    BY <1>7
  <2> HIDE DEF x
  <2> QED
    BY <1>1, <1>4, <2>1
<1> HIDE DEF c
<1>9. ASSUME NEW k \in 1 .. i - h + 1 PROVE c[k] = e[k]
  <2>1. CASE k = 1
    <3>1. i + 1 - k = i
      BY <1>1, <2>1
    <3> QED
      BY <1>6, <1>8, <2>1, <3>1
  <2>2. CASE k # 1
    <3>1. k - 1 \in 1 .. i - h /\ i - (k - 1) = i + 1 - k
      BY <1>1, <2>2
    <3>2. c[k] = t[i - (k - 1)]
      BY <1>4, <1>8, <2>2, <3>1
    <3> QED
      BY <1>6, <3>1, <3>2
  <2> QED
    BY <2>1, <2>2
<1>10. c = e
  BY <1>6, <1>8, <1>9
<1>11. i = h => d = <<>>
  BY <1>1, <1>4
<1> QED
  BY <1>10, <1>11 DEF c, d, e

\* f is the loop over Prev that reads the items.
IsReadingBack(r, f) ==
    f = [p \in Used(r) \union {Null} |->
           IF p = Null THEN <<>> ELSE <<r.block[p].item>> \o f[PrevUsed(r, p)]]

\* What is known of the list for reading it back.
LEMMA ListedBack ==
    ASSUME NEW r, IsTidy(r), NEW s, IsListed(r, s)
    PROVE  /\ Oldest(r) \in {1, 2} /\ Oldest(r) <= Len(s) + 1 /\ Len(s) \in Nat
           /\ Stored(r, s) \in Seq(Item) /\ Len(Stored(r, s)) = Len(s)
           /\ \A i \in 1 .. Len(s) : /\ Stored(r, s)[i] = r.block[s[i]].item
                                     /\ s[i] \in Used(r) /\ s[i] # Null
           /\ \A i \in Oldest(r) .. Len(s) :
                 PrevUsed(r, s[i]) = IF i = Oldest(r) THEN Null ELSE s[i - 1]
           /\ Oldest(r) = 2 => PrevUsed(r, s[1]) = IF Len(s) < 2 THEN Null ELSE s[Len(s)]
<1>1. /\ Oldest(r) \in {1, 2} /\ Oldest(r) <= Len(s) + 1
      /\ \A i \in 1 .. Len(s) : s[i] = r.produce <=> i < Oldest(r)
  BY FullAtProduce
<1>2. /\ Stored(r, s) \in Seq(Item) /\ Len(Stored(r, s)) = Len(s)
      /\ \A i \in 1 .. Len(s) : Stored(r, s)[i] = r.block[s[i]].item
  BY StoredType
<1>3. Len(s) \in Nat /\ \A i \in 1 .. Len(s) : s[i] \in Used(r) /\ s[i] # Null
  BY ListedOrder
<1>4. \A i \in Oldest(r) .. Len(s) :
         PrevUsed(r, s[i]) = IF i = Oldest(r) THEN Null ELSE s[i - 1]
  BY ListedPrev
<1>5. ASSUME Oldest(r) = 2 PROVE PrevUsed(r, s[1]) = IF Len(s) < 2 THEN Null ELSE s[Len(s)]
  <2>1. 1 \in 1 .. Len(s)
    BY <1>1, <1>3, <1>5
  <2>2. s[1] = r.produce
    BY <1>1, <1>5, <2>1
  <2>3. PrevUsed(r, r.produce) = IF Len(s) < 2 THEN Null ELSE s[Len(s)]
    BY <1>5, ListedLast DEF LastUsed
  <2> QED
    BY <2>2, <2>3
<1> QED
  BY <1>1, <1>2, <1>3, <1>4, <1>5

LEMMA ReadingBackExists ==
    ASSUME NEW r, IsTidy(r), NEW s, IsListed(r, s)
    PROVE  \E f : IsReadingBack(r, f)
<1> DEFINE U == Used(r)
           t == Stored(r, s)
           N == Len(s)
           h == Oldest(r)
           Back(i) == IF i < h THEN <<t[i]>> \o Down(t, h, N) ELSE Down(t, h, i)
           f == [p \in U \union {Null} |-> IF p = Null THEN <<>> ELSE Back(Place(s, p))]
<1>1. /\ t \in Seq(Item) /\ Len(t) = N /\ N \in Nat
      /\ \A i \in 1 .. N : t[i] = r.block[s[i]].item /\ s[i] \in U /\ s[i] # Null
      /\ h \in {1, 2} /\ h <= N + 1
  BY ListedBack
<1>2. /\ \A p \in U : Place(s, p) \in 1 .. N /\ s[Place(s, p)] = p
      /\ \A i \in 1 .. N : Place(s, s[i]) = i
  BY ListedPlace
<1>3. /\ \A i \in h .. N : PrevUsed(r, s[i]) = IF i = h THEN Null ELSE s[i - 1]
      /\ h = 2 => PrevUsed(r, s[1]) = IF N < 2 THEN Null ELSE s[N]
  BY ListedBack
<1> HIDE DEF t, N, U, h
<1>4. \A i \in h .. N : /\ Down(t, h, i) = <<t[i]>> \o Down(t, h, i - 1)
                        /\ i = h => Down(t, h, i - 1) = <<>>
  <2>1. h \in Nat \ {0} /\ Len(t) = N
    BY <1>1
  <2> QED
    BY <1>1, <2>1, DownFirst
<1>5. N < h => Down(t, h, N) = <<>>
  <2> SUFFICES ASSUME N < h PROVE Down(t, h, N) = <<>>
    OBVIOUS
  <2>1. N - h + 1 = 0
    BY <1>1
  <2> QED
    BY <2>1 DEF Down
<1>6. /\ DOMAIN f = U \union {Null}
      /\ f[Null] = <<>>
      /\ \A p \in U : p # Null => f[p] = Back(Place(s, p))
  OBVIOUS
<1>7. f = [p \in U \union {Null} |-> f[p]]
  OBVIOUS
<1> HIDE DEF f
<1>8. \A i \in 1 .. N : f[s[i]] = Back(i)
  <2> SUFFICES ASSUME NEW i \in 1 .. N PROVE f[s[i]] = Back(i)
    OBVIOUS
  <2>1. s[i] \in U /\ s[i] # Null /\ Place(s, s[i]) = i
    BY <1>1, <1>2
  <2>2. f[s[i]] = Back(Place(s, s[i]))
    BY <1>6, <2>1
  <2> HIDE DEF Back
  <2> QED
    BY <2>1, <2>2
<1>9. \A i \in h .. N : f[s[i]] = Down(t, h, i)
  <2>1. \A i \in h .. N : i \in 1 .. N /\ ~ (i < h)
    BY <1>1
  <2> QED
    BY <1>8, <2>1
<1>10. ASSUME NEW i \in 1 .. N
       PROVE  f[s[i]] = <<t[i]>> \o f[PrevUsed(r, s[i])]
  <2>1. CASE i < h
    <3>1. i = 1 /\ h = 2
      BY <1>1, <2>1
    <3>2. f[s[i]] = <<t[i]>> \o Down(t, h, N)
      BY <1>8, <2>1
    <3>3. f[PrevUsed(r, s[1])] = Down(t, h, N)
      <4>1. CASE N < 2
        BY <1>3, <1>5, <1>6, <3>1, <4>1
      <4>2. CASE ~ (N < 2)
        <5>1. N \in h .. N
          BY <1>1, <3>1, <4>2
        <5> QED
          BY <1>3, <1>9, <3>1, <4>2, <5>1
      <4> QED
        BY <4>1, <4>2
    <3> QED
      BY <3>1, <3>2, <3>3
  <2>2. CASE ~ (i < h)
    <3>1. i \in h .. N
      BY <1>1, <2>2
    <3>2. f[PrevUsed(r, s[i])] = Down(t, h, i - 1)
      <4>1. CASE i = h
        BY <1>3, <1>4, <1>6, <3>1, <4>1
      <4>2. CASE i # h
        <5>1. i - 1 \in h .. N
          BY <1>1, <3>1, <4>2
        <5> QED
          BY <1>3, <1>9, <3>1, <4>2, <5>1
      <4> QED
        BY <4>1, <4>2
    <3> QED
      BY <1>4, <1>9, <3>1, <3>2
  <2> QED
    BY <2>1, <2>2
<1>11. ASSUME NEW p \in U \union {Null}
       PROVE  f[p] = IF p = Null THEN <<>> ELSE <<r.block[p].item>> \o f[PrevUsed(r, p)]
  <2>1. CASE p = Null
    BY <1>6, <2>1
  <2>2. CASE p # Null
    <3> DEFINE i == Place(s, p)
    <3>1. i \in 1 .. N /\ s[i] = p
      BY <1>2, <2>2
    <3> HIDE DEF i
    <3> QED
      BY <1>1, <1>10, <2>2, <3>1
  <2> QED
    BY <2>1, <2>2
<1>12. IsReadingBack(r, f)
  BY <1>7, <1>11 DEF IsReadingBack, U
<1> QED
  BY <1>12

\* What the loop over Prev reads.
LEMMA BackwardIsStored ==
    ASSUME NEW r, IsTidy(r), NEW s, IsListed(r, s)
    PROVE  ItemsBackward(r) = Down(Stored(r, s), Oldest(r), Len(s))
<1> DEFINE U == Used(r)
           t == Stored(r, s)
           N == Len(s)
           h == Oldest(r)
           from[p \in U \union {Null}] ==
             IF p = Null THEN <<>> ELSE <<r.block[p].item>> \o from[PrevUsed(r, p)]
<1>1. ItemsBackward(r) = from[LastUsed(r)]
  BY DEF ItemsBackward
<1>2. \E f : IsReadingBack(r, f)
  BY ReadingBackExists
<1>3. IsReadingBack(r, CHOOSE f : IsReadingBack(r, f))
  BY <1>2, Zenon
<1>4. from = CHOOSE f : IsReadingBack(r, f)
  BY DEF from, IsReadingBack
<1> HIDE DEF from
<1>5. IsReadingBack(r, from)
  BY <1>3, <1>4
<1>6. \A p \in U \union {Null} :
         from[p] = IF p = Null THEN <<>> ELSE <<r.block[p].item>> \o from[PrevUsed(r, p)]
  BY <1>5 DEF IsReadingBack
<1>7. /\ t \in Seq(Item) /\ Len(t) = N /\ N \in Nat
      /\ \A i \in 1 .. N : t[i] = r.block[s[i]].item /\ s[i] \in U /\ s[i] # Null
      /\ h \in {1, 2} /\ h <= N + 1
  BY ListedBack
<1>8. \A i \in h .. N : PrevUsed(r, s[i]) = IF i = h THEN Null ELSE s[i - 1]
  BY ListedBack
<1>9. LastUsed(r) = IF N < h THEN Null ELSE s[N]
  BY ListedLast
<1> HIDE DEF t, N, U, h
<1>10. from[Null] = <<>>
  BY <1>6
<1>11. \A i \in h .. N : from[s[i]] = <<t[i]>> \o from[PrevUsed(r, s[i])]
  <2>1. \A i \in h .. N : i \in 1 .. N
    BY <1>7
  <2> QED
    BY <1>6, <1>7, <2>1
<1>12. \A i \in h .. N : /\ Down(t, h, i) = <<t[i]>> \o Down(t, h, i - 1)
                         /\ i = h => Down(t, h, i - 1) = <<>>
  <2>1. h \in Nat \ {0} /\ Len(t) = N
    BY <1>7
  <2> QED
    BY <1>7, <2>1, DownFirst
<1> DEFINE T == {n \in Nat : h + n <= N => from[s[h + n]] = Down(t, h, h + n)}
<1>13. 0 \in T
  <2> SUFFICES ASSUME h <= N PROVE from[s[h]] = Down(t, h, h)
    BY <1>7
  <2>1. h \in h .. N
    BY <1>7
  <2>2. from[s[h]] = <<t[h]>> \o <<>>
    BY <1>8, <1>10, <1>11, <2>1
  <2> QED
    BY <1>12, <2>1, <2>2
<1>14. ASSUME NEW n \in Nat, n \in T PROVE n + 1 \in T
  <2> SUFFICES ASSUME h + (n + 1) <= N PROVE from[s[h + (n + 1)]] = Down(t, h, h + (n + 1))
    OBVIOUS
  <2> DEFINE i == h + (n + 1)
  <2>1. i \in h .. N /\ i # h /\ i - 1 = h + n
    BY <1>7
  <2>2. from[s[h + n]] = Down(t, h, h + n)
    BY <1>7, <1>14
  <2> HIDE DEF i
  <2>3. from[s[i]] = <<t[i]>> \o Down(t, h, i - 1)
    BY <1>8, <1>11, <2>1, <2>2
  <2>4. from[s[i]] = Down(t, h, i)
    BY <1>12, <2>1, <2>3
  <2> QED
    BY <2>4 DEF i
<1>15. Nat \subseteq T
  <2> HIDE DEF T
  <2> QED
    BY <1>13, <1>14, SetInduction
<1>16. from[LastUsed(r)] = Down(t, h, N)
  <2>1. CASE N < h
    <3>1. N - h + 1 = 0
      BY <1>7, <2>1
    <3>2. Down(t, h, N) = <<>>
      BY <3>1 DEF Down
    <3> QED
      BY <1>9, <1>10, <2>1, <3>2
  <2>2. CASE ~ (N < h)
    <3> DEFINE n == N - h
    <3>1. n \in Nat /\ h + n = N /\ h + n <= N
      BY <1>7, <2>2
    <3> HIDE DEF n
    <3>2. from[s[h + n]] = Down(t, h, h + n)
      BY <1>15, <3>1
    <3> QED
      BY <1>9, <2>2, <3>1, <3>2
  <2> QED
    BY <2>1, <2>2
<1> QED
  BY <1>1, <1>16 DEF t, N, h

\* Going down to place 1 or 2 is the reverse of the sequence or of its tail.
LEMMA DownIsReverse ==
    ASSUME NEW S, NEW t \in Seq(S)
    PROVE  /\ Down(t, 1, Len(t)) = Reverse(t)
           /\ t # <<>> => Down(t, 2, Len(t)) = Reverse(Tail(t))
<1>1. Len(t) \in Nat
  OBVIOUS
<1>2. Down(t, 1, Len(t)) = Reverse(t)
  <2>1. Len(t) - 1 + 1 = Len(t) /\ \A k \in 1 .. Len(t) : Len(t) + 1 - k = (Len(t) - k) + 1
    BY <1>1
  <2> QED
    BY <2>1 DEF Down, Reverse
<1>3. ASSUME t # <<>> PROVE Down(t, 2, Len(t)) = Reverse(Tail(t))
  <2> DEFINE u == Tail(t)
             N == Len(t)
  <2>1. N # 0
    BY <1>1, <1>3
  <2>2. Len(u) = N - 1 /\ \A k \in 1 .. N - 1 : u[k] = t[k + 1]
    BY <1>1, <1>3, <2>1
  <2> HIDE DEF u, N
  <2>3. N - 2 + 1 = N - 1 /\ N \in Nat
    BY <1>1 DEF N
  <2>4. \A k \in 1 .. N - 1 : (N - 1 - k) + 1 \in 1 .. N - 1 /\ ((N - 1 - k) + 1) + 1 = N + 1 - k
    BY <2>3
  <2>5. \A k \in 1 .. N - 1 : u[(N - 1 - k) + 1] = t[N + 1 - k]
    BY <2>2, <2>4
  <2>6. Down(t, 2, N) = [k \in 1 .. N - 1 |-> t[N + 1 - k]]
    BY <2>3 DEF Down
  <2>7. Reverse(u) = [k \in 1 .. N - 1 |-> u[(N - 1 - k) + 1]]
    BY <2>2 DEF Reverse
  <2>8. Down(t, 2, N) = Reverse(u)
    BY <2>5, <2>6, <2>7
  <2> QED
    BY <2>8 DEF u, N
<1> QED
  BY <1>2, <1>3

LEMMA BackwardIsReverse ==
    ASSUME NEW r, IsTidy(r), NEW s, IsListed(r, s)
    PROVE  ItemsBackward(r) = Reverse(IF IsFull(r) THEN Tail(ItemsForward(r)) ELSE ItemsForward(r))
<1> DEFINE t == Stored(r, s)
<1>1. t \in Seq(Item) /\ Len(t) = Len(s) /\ Oldest(r) <= Len(s) + 1 /\ Len(s) \in Nat
  BY ListedBack
<1>2. ItemsForward(r) = t /\ ItemsBackward(r) = Down(t, Oldest(r), Len(t))
  BY <1>1, ForwardIsStored, BackwardIsStored
<1>3. Oldest(r) = IF IsFull(r) THEN 2 ELSE 1
  BY DEF Oldest
<1> HIDE DEF t
<1>4. IsFull(r) => t # <<>>
  BY <1>1, <1>3
<1> QED
  BY <1>1, <1>2, <1>3, <1>4, DownIsReverse

\* u is what is left of s when the first are gone.
IsTail(s, u) ==
    /\ Len(u) <= Len(s)
    /\ \A i \in 1 .. Len(u) : u[i] = s[Len(s) - Len(u) + i]

LEMMA ListDropped ==
    ASSUME NEW r, IsTidy(r), r.consume \in Used(r), NEW m, IsDropped(r, m),
           NEW s, IsListed(r, s)
    PROVE  IsListed(m, Tail(s)) /\ IsTail(s, Tail(s))
<1> DEFINE u == Tail(s)
<1>1. /\ s \in Seq(Used(r)) /\ s # <<>> /\ s[1] = r.consume
      /\ Len(s) \in Nat /\ Len(s) >= 1
  BY ListedFirst, ListedOrder
<1>2. /\ u \in Seq(Used(r)) /\ Len(u) = Len(s) - 1
      /\ \A i \in 1 .. Len(u) : u[i] = s[i + 1]
  BY <1>1, HeadTailProperties
<1> HIDE DEF u
<1>3. IsTail(s, u)
  BY <1>1, <1>2 DEF IsTail
<1>4. Used(m) = Used(r) \ {r.consume}
  BY DEF IsDropped
<1>5. ASSUME NEW i \in 1 .. Len(u) PROVE u[i] \in Used(m)
  <2>1. i + 1 \in 1 .. Len(s) /\ 1 \in 1 .. Len(s) /\ i + 1 # 1
    BY <1>1, <1>2
  <2>2. s[i + 1] # s[1] /\ s[i + 1] \in Used(r)
    BY <2>1, ListedOrder
  <2> QED
    BY <1>1, <1>2, <1>4, <2>2
<1>6. u \in Seq(Used(m))
  BY <1>2, <1>5
<1>7. ASSUME NEW b \in Used(m) PROVE \E i \in 1 .. Len(u) : u[i] = b
  <2>1. PICK j \in 1 .. Len(s) : s[j] = b
    BY <1>4 DEF IsListed
  <2>2. j # 1
    BY <1>1, <1>4, <2>1
  <2>3. j - 1 \in 1 .. Len(u) /\ j - 1 + 1 = j
    BY <1>1, <1>2, <2>2
  <2> QED
    BY <1>2, <2>1, <2>3
<1>8. ASSUME NEW i \in 1 .. Len(u), NEW j \in 1 .. Len(u), i < j
      PROVE  Rank(m, u[i]) < Rank(m, u[j])
  <2>1. i + 1 \in 1 .. Len(s) /\ j + 1 \in 1 .. Len(s) /\ i + 1 < j + 1
    BY <1>1, <1>2, <1>8
  <2>2. Rank(r, s[i + 1]) < Rank(r, s[j + 1])
    BY <2>1 DEF IsListed
  <2>3. m.produce = r.produce
    BY <1>5 DEF IsDropped
  <2> QED
    BY <1>2, <2>2, <2>3 DEF Rank
<1>9. IsListed(m, u)
  BY <1>6, <1>7, <1>8 DEF IsListed
<1> QED
  BY <1>3, <1>9 DEF u

LEMMA ListAdded ==
    ASSUME NEW r, IsTidy(r), NEW p, NEW asked, NEW m, IsAdded(r, p, asked, m), next \in Item,
           NEW s, IsListed(r, s)
    PROVE  IsListed(m, Append(s, p)) /\ Stored(m, Append(s, p)) = Append(Stored(r, s), next)
<1> DEFINE u == Append(s, p)
           n == Len(s) + 1
<1>1. /\ s \in Seq(Used(r)) /\ Len(s) \in Nat
      /\ \A i \in 1 .. Len(s) : s[i] \in Used(r)
  BY ListedOrder
<1>2. /\ Used(m) = Used(r) \union {p} /\ p \notin Used(r) /\ IsTidy(m) /\ m.block[p].item = next
      /\ \A b \in Used(r) : m.block[b].item = r.block[b].item
  BY DEF IsAdded, Same
<1>3. s \in Seq(Used(m)) /\ p \in Used(m)
  BY <1>1, <1>2
<1>4. /\ u \in Seq(Used(m)) /\ Len(u) = n /\ n \in Nat
      /\ \A i \in 1 .. Len(s) : u[i] = s[i]
      /\ u[n] = p
  BY <1>1, <1>3, AppendProperties
<1>5. \A i \in 1 .. n : i = n \/ i \in 1 .. Len(s)
  BY <1>1
<1>6. /\ \A b \in Used(r) : \E i \in 1 .. Len(s) : s[i] = b
      /\ \A i, j \in 1 .. Len(s) : i < j => Rank(r, s[i]) < Rank(r, s[j])
  BY DEF IsListed
<1> HIDE DEF u
<1>7. ASSUME NEW b \in Used(m) PROVE \E i \in 1 .. Len(u) : u[i] = b
  <2>1. CASE b = p
    <3>1. n \in 1 .. Len(u)
      BY <1>1, <1>4
    <3> QED
      BY <1>4, <2>1, <3>1
  <2>2. CASE b # p
    <3>1. PICK i \in 1 .. Len(s) : s[i] = b
      BY <1>2, <1>6, <2>2
    <3>2. i \in 1 .. Len(u)
      BY <1>1, <1>4
    <3> QED
      BY <1>4, <3>1, <3>2
  <2> QED
    BY <2>1, <2>2
<1>8. ASSUME NEW i \in 1 .. Len(u), NEW j \in 1 .. Len(u), i < j
      PROVE  Rank(m, u[i]) < Rank(m, u[j])
  <2>1. i \in 1 .. Len(s) /\ s[i] \in Used(r) /\ u[i] = s[i]
    BY <1>1, <1>4, <1>8
  <2>2. CASE j = n
    BY <1>4, <2>1, <2>2 DEF IsAdded, IsBehind
  <2>3. CASE j # n
    <3>1. j \in 1 .. Len(s) /\ s[j] \in Used(r) /\ u[j] = s[j]
      BY <1>1, <1>4, <2>3
    <3>2. Rank(r, s[i]) < Rank(r, s[j])
      BY <1>6, <1>8, <2>1, <3>1
    <3> QED
      BY <2>1, <3>1, <3>2 DEF IsAdded, IsBehind
  <2> QED
    BY <2>2, <2>3
<1>9. IsListed(m, u)
  BY <1>4, <1>7, <1>8 DEF IsListed
<1>10. Stored(m, u) = Append(Stored(r, s), next)
  <2> DEFINE t == Stored(r, s)
             v == Stored(m, u)
             w == Append(t, next)
  <2>1. /\ t \in Seq(Item) /\ Len(t) = Len(s)
        /\ \A i \in 1 .. Len(s) : t[i] = r.block[s[i]].item
    BY StoredType
  <2>2. /\ v \in Seq(Item) /\ Len(v) = Len(u)
        /\ \A i \in 1 .. Len(u) : v[i] = m.block[u[i]].item
    BY <1>2, <1>9, StoredType
  <2> HIDE DEF t, v
  <2>3. /\ w \in Seq(Item) /\ Len(w) = n
        /\ \A i \in 1 .. Len(s) : w[i] = t[i]
        /\ w[n] = next
    BY <1>1, <2>1, AppendProperties
  <2> HIDE DEF w
  <2>4. ASSUME NEW i \in 1 .. Len(v) PROVE v[i] = w[i]
    <3>1. i = n \/ i \in 1 .. Len(s)
      BY <1>4, <1>5, <2>2
    <3>2. CASE i = n
      BY <1>2, <1>4, <2>2, <2>3, <3>2
    <3>3. CASE i \in 1 .. Len(s)
      BY <1>1, <1>2, <1>4, <2>1, <2>2, <2>3, <3>3, SMTT(60)
    <3> QED
      BY <3>1, <3>2, <3>3
  <2>5. v = w
    BY <1>4, <2>2, <2>3, <2>4, SeqEqual
  <2> QED
    BY <2>5 DEF t, v, w
<1> QED
  BY <1>9, <1>10 DEF u

-----------------------------------------------------------------------------
(* Making room *)

\* There are no more items than headers fit into the memory.
LEMMA UsedBounded ==
    ASSUME NEW r, IsChain(r)
    PROVE  IsFiniteSet(Used(r)) /\ Cardinality(Used(r)) <= Blocks /\ Cardinality(Used(r)) \in Nat
<1> DEFINE U == Used(r)
           T == 0 .. Blocks - 1
           f == [b \in U |-> CHOOSE k \in Nat : b = k * Header]
<1>1. ASSUME NEW b \in U
      PROVE  f[b] \in T /\ b = f[b] * Header
  <2>1. b \in DOMAIN r.block
    BY DEF Used
  <2>2. IsUnit(b) /\ b \in Nat /\ b < Size
    BY <2>1, BlockOfChain DEF IsLinked
  <2>3. f[b] \in Nat /\ b = f[b] * Header
    BY <2>2 DEF IsUnit
  <2> HIDE DEF f
  <2>4. f[b] < Blocks
    <3> DEFINE k == f[b]
    <3> SUFFICES ASSUME k >= Blocks PROVE FALSE
      BY <2>3, SizeIsUnits
    <3>1. k \in Nat /\ b = k * Header
      BY <2>3
    <3> HIDE DEF k
    <3>2. Blocks \in Nat /\ Header \in Nat /\ Size = Blocks * Header
      BY SizeIsUnits DEF Size, Blocks
    <3>3. k - Blocks \in Nat
      BY <3>1, <3>2
    <3>4. (k - Blocks) * Header \in Nat
      BY <3>2, <3>3
    <3>5. (k - Blocks) * Header = k * Header - Blocks * Header
      BY <3>1, <3>2
    <3> QED
      BY <2>2, <3>1, <3>2, <3>4, <3>5
  <2> QED
    BY <2>3, <2>4, SizeIsUnits
<1>2. f = [b \in U |-> f[b]]
  OBVIOUS
<1> HIDE DEF f, U
<1>3. f \in [U -> T]
  BY <1>1, <1>2
<1>4. \A a, b \in U : f[a] = f[b] => a = b
  BY <1>1
<1>5. f \in Injection(U, T)
  BY <1>3, <1>4, Fun_IsInj
<1>6. IsFiniteSet(T) /\ Cardinality(T) = Blocks
  BY FS_Interval, SizeIsUnits
<1>7. IsFiniteSet(U) /\ Cardinality(U) <= Blocks
  BY <1>5, <1>6, FS_Injection
<1>8. Cardinality(U) \in Nat
  BY <1>7, FS_CardinalityType
<1> QED
  BY <1>7, <1>8 DEF U

\* m is r without some of its oldest items.
IsReduced(r, m) == /\ IsTidy(m)
                   /\ \A b \in Used(m) : b \in Used(r) /\ Same(m.block[b], r.block[b])
                   /\ \A s : IsListed(r, s) => \E u : IsListed(m, u) /\ IsTail(s, u)

LEMMA NothingReduced ==
    ASSUME NEW r, IsTidy(r)
    PROVE  IsReduced(r, r)
<1>1. \A s : IsListed(r, s) => IsTail(s, s)
  BY DEF IsListed, IsTail
<1> QED
  BY <1>1 DEF IsReduced, Same

LEMMA OldestReduced ==
    ASSUME NEW r, IsTidy(r), r.consume \in Used(r), NEW m, IsDropped(r, m)
    PROVE  IsReduced(r, m)
<1>1. \A s : IsListed(r, s) => \E u : IsListed(m, u) /\ IsTail(s, u)
  BY ListDropped
<1> QED
  BY <1>1 DEF IsReduced, IsDropped

LEMMA ReducedFurther ==
    ASSUME NEW r, NEW x, NEW m, IsReduced(r, x), IsReduced(x, m)
    PROVE  IsReduced(r, m)
<1>1. ASSUME NEW s, IsListed(r, s)
      PROVE  \E u : IsListed(m, u) /\ IsTail(s, u)
  <2>1. PICK v : IsListed(x, v) /\ IsTail(s, v)
    BY <1>1 DEF IsReduced
  <2>2. PICK u : IsListed(m, u) /\ IsTail(v, u)
    BY <2>1 DEF IsReduced
  <2>3. Len(s) \in Nat /\ Len(v) \in Nat /\ Len(u) \in Nat
    BY <1>1, <2>1, <2>2 DEF IsListed
  <2>4. IsTail(s, u)
    BY <2>1, <2>2, <2>3 DEF IsTail
  <2> QED
    BY <2>2, <2>4
<1> QED
  BY <1>1 DEF IsReduced, Same

\* Nothing more is dropped.
IsEnough(r, wanted) == ~ (Found(r, wanted) = Null /\ Recycles /\ IsPoppable(r))

LEMMA DroppedOrEnough ==
    ASSUME NEW r, IsTidy(r), NEW wanted
    PROVE  LET m == DropOldest(r, wanted) IN
           /\ IsReduced(r, m)
           /\ IF IsEnough(r, wanted) THEN m = r ELSE Cardinality(Used(m)) = Cardinality(Used(r)) - 1
<1> DEFINE m == DropOldest(r, wanted)
<1>1. ASSUME ~IsEnough(r, wanted)
      PROVE  IsReduced(r, m) /\ Cardinality(Used(m)) = Cardinality(Used(r)) - 1
  <2>1. m = Popped(r) /\ ~r.block[r.consume].free
    BY <1>1 DEF DropOldest, IsEnough, IsPoppable
  <2>2. IsDropped(r, m)
    BY <2>1, OldestDropped
  <2>3. r.consume \in Used(r) /\ IsFiniteSet(Used(r))
    BY <2>1, UsedBounded DEF IsTidy, IsChain, IsRing, Used
  <2> HIDE DEF m
  <2>4. Used(m) = Used(r) \ {r.consume} /\ IsTidy(m)
    BY <2>2 DEF IsDropped
  <2>5. Cardinality(Used(r) \ {r.consume}) = Cardinality(Used(r)) - 1
    BY <2>3, FS_RemoveElement
  <2>6. IsReduced(r, m)
    BY <2>2, <2>3, OldestReduced
  <2>7. Cardinality(Used(m)) = Cardinality(Used(r)) - 1
    BY <2>4, <2>5
  <2> QED
    BY <2>6, <2>7 DEF m
<1>2. ASSUME IsEnough(r, wanted)
      PROVE  IsReduced(r, m) /\ m = r
  BY <1>2, NothingReduced DEF DropOldest, IsEnough
<1> QED
  BY <1>1, <1>2

\* f is the loop of RoomMade from r, turn by turn.
IsMaking(r, wanted, f, N) ==
    f = [n \in 0 .. N |-> IF n = 0 THEN r ELSE DropOldest(f[n - 1], wanted)]

LEMMA MakingExists ==
    ASSUME NEW r, NEW wanted, NEW N \in Nat
    PROVE  \E f : IsMaking(r, wanted, f, N)
<1> DEFINE T == {n \in Nat : \E f : IsMaking(r, wanted, f, n)}
<1>1. 0 \in T
  <2> DEFINE f == [n \in 0 .. 0 |-> r]
  <2>1. f = [n \in 0 .. 0 |-> IF n = 0 THEN r ELSE DropOldest(f[n - 1], wanted)]
    OBVIOUS
  <2> HIDE DEF f
  <2> QED
    BY <2>1 DEF IsMaking
<1>2. ASSUME NEW n \in Nat, n \in T PROVE n + 1 \in T
  <2>1. PICK f : IsMaking(r, wanted, f, n)
    BY <1>2
  <2> DEFINE g == [k \in 0 .. n + 1 |-> IF k = n + 1 THEN DropOldest(f[n], wanted) ELSE f[k]]
  <2>2. DOMAIN g = 0 .. n + 1 /\ \A k \in 0 .. n : g[k] = f[k]
    OBVIOUS
  <2>3. g[n + 1] = DropOldest(g[n], wanted)
    BY <2>2
  <2>4. ASSUME NEW k \in 0 .. n + 1
        PROVE  g[k] = IF k = 0 THEN r ELSE DropOldest(g[k - 1], wanted)
    <3>1. CASE k = n + 1
      BY <2>3, <3>1
    <3>2. CASE k # n + 1
      <4>1. k \in 0 .. n /\ (k # 0 => k - 1 \in 0 .. n)
        BY <3>2
      <4>2. f[k] = IF k = 0 THEN r ELSE DropOldest(f[k - 1], wanted)
        BY <2>1, <4>1 DEF IsMaking
      <4> HIDE DEF g
      <4> QED
        BY <2>2, <4>1, <4>2
    <3> QED
      BY <3>1, <3>2
  <2>5. g = [k \in 0 .. n + 1 |-> g[k]]
    OBVIOUS
  <2> HIDE DEF g
  <2>6. g = [k \in 0 .. n + 1 |-> IF k = 0 THEN r ELSE DropOldest(g[k - 1], wanted)]
    BY <2>4, <2>5
  <2> QED
    BY <2>6 DEF IsMaking
<1>3. Nat \subseteq T
  <2> HIDE DEF T
  <2> QED
    BY <1>1, <1>2, SetInduction
<1> QED
  BY <1>3

LEMMA Making ==
    ASSUME NEW r, NEW wanted
    PROVE  \E f : IsMaking(r, wanted, f, Blocks) /\ RoomMade(r, wanted) = f[Blocks]
<1> DEFINE after[n \in 0 .. Blocks] == IF n = 0 THEN r ELSE DropOldest(after[n - 1], wanted)
<1>1. RoomMade(r, wanted) = after[Blocks]
  BY DEF RoomMade
<1>2. \E f : IsMaking(r, wanted, f, Blocks)
  BY MakingExists, SizeIsUnits
<1>3. IsMaking(r, wanted, CHOOSE f : IsMaking(r, wanted, f, Blocks), Blocks)
  BY <1>2, Zenon
<1>4. after = CHOOSE f : IsMaking(r, wanted, f, Blocks)
  BY DEF after, IsMaking
<1> HIDE DEF after
<1> QED
  BY <1>1, <1>3, <1>4

\* The loop ends before its turns do.
LEMMA EnoughDropped ==
    ASSUME NEW r, IsTidy(r), NEW wanted
    PROVE  /\ IsReduced(r, RoomMade(r, wanted))
           /\ IsEnough(RoomMade(r, wanted), wanted)
           /\ Recycles \/ RoomMade(r, wanted) = r
<1>1. PICK f : IsMaking(r, wanted, f, Blocks) /\ RoomMade(r, wanted) = f[Blocks]
  BY Making
<1>2. Blocks \in Nat \ {0}
  BY SizeIsUnits
<1>3. \A n \in 0 .. Blocks : f[n] = IF n = 0 THEN r ELSE DropOldest(f[n - 1], wanted)
  BY <1>1, <1>2 DEF IsMaking
<1> DEFINE After(n) == /\ IsReduced(r, f[n])
                       /\ Recycles \/ f[n] = r
                       /\ IsEnough(f[n], wanted) \/ Cardinality(Used(f[n])) <= Blocks - n
           T == {n \in Nat : n <= Blocks => After(n)}
<1>4. 0 \in T
  <2>1. f[0] = r
    BY <1>2, <1>3
  <2>2. Cardinality(Used(r)) <= Blocks - 0
    BY <1>2, UsedBounded DEF IsTidy
  <2> QED
    BY <2>1, <2>2, NothingReduced
<1>5. ASSUME NEW n \in Nat, n \in T PROVE n + 1 \in T
  <2> SUFFICES ASSUME n + 1 <= Blocks PROVE After(n + 1)
    OBVIOUS
  <2> DEFINE x == f[n]
             m == f[n + 1]
  <2>1. n + 1 \in 0 .. Blocks /\ n + 1 # 0 /\ n + 1 - 1 = n
    BY <1>2
  <2>2. m = DropOldest(x, wanted)
    BY <1>3, <2>1
  <2>3. /\ IsReduced(r, x)
        /\ Recycles \/ x = r
        /\ IsEnough(x, wanted) \/ Cardinality(Used(x)) <= Blocks - n
    BY <1>2, <1>5
  <2> HIDE DEF x
  <2>4. IsTidy(x) /\ Cardinality(Used(x)) \in Nat
    BY <2>3, UsedBounded DEF IsReduced, IsTidy
  <2> HIDE DEF m
  <2>5. /\ IsReduced(x, m)
        /\ IF IsEnough(x, wanted) THEN m = x ELSE Cardinality(Used(m)) = Cardinality(Used(x)) - 1
    BY <2>2, <2>4, DroppedOrEnough
  <2>6. IsReduced(r, m)
    BY <2>3, <2>5, ReducedFurther
  <2>7. IsEnough(m, wanted) \/ Cardinality(Used(m)) <= Blocks - (n + 1)
    BY <1>2, <2>3, <2>4, <2>5
  <2>8. Recycles \/ m = r
    BY <2>3, <2>5 DEF IsEnough
  <2> QED
    BY <2>6, <2>7, <2>8 DEF m
<1>6. Nat \subseteq T
  <2> HIDE DEF T
  <2> QED
    BY <1>4, <1>5, SetInduction
<1>7. After(Blocks)
  BY <1>2, <1>6
<1> DEFINE m == f[Blocks]
<1>8. /\ IsReduced(r, m)
      /\ Recycles \/ m = r
      /\ IsEnough(m, wanted) \/ Cardinality(Used(m)) <= Blocks - Blocks
  BY <1>7
<1> HIDE DEF m
<1>9. IsEnough(m, wanted)
  <2> SUFFICES ASSUME ~IsEnough(m, wanted) PROVE FALSE
    OBVIOUS
  <2>1. m.consume \in Used(m) /\ IsFiniteSet(Used(m)) /\ Cardinality(Used(m)) \in Nat
    BY <1>8, UsedBounded DEF IsReduced, IsTidy, IsChain, IsRing, Used, IsEnough, IsPoppable
  <2>2. Cardinality(Used(m)) = 0
    BY <1>2, <1>8, <2>1
  <2> QED
    BY <2>1, <2>2, FS_EmptySet
<1> QED
  BY <1>1, <1>8, <1>9 DEF m

\* Nothing is left to drop in a buffer without items, which has room for all that fits.
LEMMA EmptyHasRoom ==
    ASSUME NEW r, IsTidy(r), ~IsPoppable(r), NEW wanted \in Nat, wanted <= Size
    PROVE  Found(r, wanted) # Null
<1>1. /\ IsChain(r) /\ DOMAIN r.block = {First}
      /\ r.produce = First /\ r.last = First /\ r.block[First].free
  BY DEF IsTidy, InCycle, IsPoppable, IsChain, IsRing
<1>2. End(r, First) = Size /\ r.block[First].size \in Nat
  BY <1>1, NextOfChain, BlockOfChain
<1>3. r.block[First].size = Size
  BY <1>2 DEF End, First
<1> QED
  BY <1>1, <1>3 DEF Found, Null, First

\* A buffer that recycles drops items until there is room.
LEMMA RoomIsMade ==
    ASSUME NEW r, IsTidy(r), Recycles, NEW wanted \in Nat, wanted <= Size
    PROVE  Found(RoomMade(r, wanted), wanted) # Null
<1> DEFINE m == RoomMade(r, wanted)
<1>1. IsReduced(r, m) /\ IsEnough(m, wanted)
  BY EnoughDropped
<1> HIDE DEF m
<1>2. ASSUME ~IsPoppable(m) PROVE Found(m, wanted) # Null
  BY <1>1, <1>2, EmptyHasRoom DEF IsReduced
<1>3. Found(m, wanted) # Null
  BY <1>1, <1>2 DEF IsEnough
<1> QED
  BY <1>3 DEF m

-----------------------------------------------------------------------------
(* The invariant *)

HasList(r) == \E s : IsListed(r, s)

IInv == IsTidy(ring) /\ HasList(ring) /\ next \in Item

LEMMA EmptyIsTidy == IsTidy(Empty)
<1> DEFINE yes == TRUE
<1> HIDE DEF yes
<1> DEFINE h == [prev |-> Null, next |-> Null, free |-> yes, size |-> Size, item |-> 0, asked |-> 0]
           f == [p \in {First} |-> h]
           r == [block |-> f, produce |-> First, consume |-> First, last |-> First]
<1>1. Empty = r
  BY DEF Empty, yes
<1>2. h \in HeaderType /\ h.prev = Null /\ h.next = Null /\ h.free = yes /\ h.size = Size
  BY SizeIsUnits, SizeAssumption DEF HeaderType, Item, Null, yes
<1> HIDE DEF h
<1>3. DOMAIN f = {First} /\ f[First] = h /\ f \in [{First} -> HeaderType]
  BY <1>2
<1> HIDE DEF f
<1>4. r.block = f /\ r.produce = First /\ r.consume = First /\ r.last = First
  OBVIOUS
<1>5. r = [block |-> r.block, produce |-> r.produce, consume |-> r.consume, last |-> r.last]
  OBVIOUS
<1> HIDE DEF r
<1>6. First \in 0 .. Size - 1
  BY SizeIsUnits DEF First
<1>7. IsRing(r)
  BY <1>3, <1>4, <1>5, <1>6 DEF IsRing
<1>8. End(r, First) = Size
  BY <1>2, <1>3, <1>4, SizeIsUnits DEF End, First
<1>9. r.block[First].free
  BY <1>2, <1>3, <1>4 DEF yes
<1>10. r.block[First].size = Size /\ r.block[First].prev = Null /\ r.block[First].next = Null
  BY <1>2, <1>3, <1>4
<1>11. IsLinked(r, First)
  BY <1>4, <1>8, <1>9, <1>10, SizeIsUnits DEF IsLinked
<1>12. IsChain(r)
  BY <1>3, <1>4, <1>6, <1>7, <1>11 DEF IsChain
<1>13. Alternates(r) /\ InCycle(r)
  BY <1>3, <1>4, <1>9 DEF Alternates, InCycle
<1> QED
  BY <1>1, <1>12, <1>13 DEF IsTidy

LEMMA EmptyIsListed == IsListed(Empty, <<>>) /\ ItemsForward(Empty) = <<>>
<1>1. Empty.consume = First /\ Empty.block[First].free
  BY DEF Empty
<1>2. DOMAIN Empty.block = {First}
  BY EmptyIsTidy, <1>1 DEF IsTidy, InCycle
<1>3. Used(Empty) = {}
  BY <1>1, <1>2 DEF Used
<1>4. IsListed(Empty, <<>>)
  BY <1>3 DEF IsListed
<1>5. ItemsForward(Empty) = Stored(Empty, <<>>)
  BY <1>4, EmptyIsTidy, ForwardIsStored
<1>6. Stored(Empty, <<>>) \in Seq(Item) /\ Len(Stored(Empty, <<>>)) = 0
  BY <1>4, EmptyIsTidy, StoredType
<1> QED
  BY <1>4, <1>5, <1>6

LEMMA TidyInit == Init => IInv
BY EmptyIsTidy, EmptyIsListed, SizeAssumption DEF Init, IInv, Item, HasList

LEMMA TidyStep ==
    ASSUME IInv, [Next]_vars
    PROVE  IInv'
<1>1. ASSUME NEW asked \in Asked, Allocate(asked) PROVE IInv'
  <2> DEFINE w == Wanted(asked)
             r == RoomMade(ring, w)
             p == Found(r, w)
  <2>1. asked \in Nat
    BY SizeAssumption
  <2>2. IsReduced(ring, r)
    BY EnoughDropped DEF IInv
  <2>3. IsTidy(r) /\ HasList(r)
    BY <2>2 DEF IsReduced, IInv, HasList
  <2>4. CASE p # Null
    <3>1. ring' = Placed(r, p, asked) /\ next' = (next + 1) % Items
      BY <1>1, <2>4 DEF Allocate
    <3>2. IsAdded(r, p, asked, Placed(r, p, asked))
      <4> HIDE DEF r
      <4> QED
        BY <2>1, <2>3, <2>4, ItemAdded DEF IInv
    <3> HIDE DEF p, r
    <3>3. IsTidy(ring') /\ HasList(ring')
      <4>1. PICK s : IsListed(r, s)
        BY <2>3 DEF HasList
      <4>2. IsListed(Placed(r, p, asked), Append(s, p))
        BY <2>3, <3>2, <4>1, ListAdded DEF IInv
      <4> QED
        BY <3>1, <3>2, <4>2 DEF IsAdded, HasList
    <3>4. next' \in Item
      BY <3>1, SizeAssumption DEF IInv, Item
    <3> QED
      BY <3>3, <3>4 DEF IInv
  <2>5. CASE p = Null
    <3>1. ring' = r /\ next' = next
      BY <1>1, <2>5 DEF Allocate
    <3> HIDE DEF r
    <3> QED
      BY <2>3, <3>1 DEF IInv
  <2> QED
    BY <2>4, <2>5
<1>2. ASSUME PopFirst PROVE IInv'
  <2>1. IsDropped(ring, Popped(ring)) /\ ring.consume \in Used(ring)
    BY <1>2, OldestDropped DEF PopFirst, IsPoppable, IInv, IsTidy, IsChain, IsRing, Used
  <2>2. IsReduced(ring, Popped(ring))
    BY <2>1, OldestReduced DEF IInv
  <2> QED
    BY <1>2, <2>2 DEF PopFirst, IsReduced, IInv, HasList
<1>3. ASSUME Clear PROVE IInv'
  BY <1>3, EmptyIsTidy, EmptyIsListed DEF Clear, IInv, HasList
<1>4. ASSUME UNCHANGED vars PROVE IInv'
  BY <1>4 DEF vars, IInv
<1> QED
  BY <1>1, <1>2, <1>3, <1>4 DEF Next

LEMMA Inductive == Spec => []IInv
<1>1. IInv /\ [Next]_vars => IInv'
  BY TidyStep
<1> QED
  BY <1>1, TidyInit, PTL DEF Spec

(***************************************************************************)
(* The blocks cover the memory without a gap or an overlap, and every item *)
(* has the bytes that were asked for, whatever is allocated and popped.    *)
(***************************************************************************)
THEOREM BlocksTileMemory == Spec => []Tiled
<1>1. IInv => Tiled
  BY ChainIsTiled DEF IInv, IsTidy
<1> QED
  BY <1>1, Inductive, PTL

(***************************************************************************)
(* The loop from Last over Prev, by which the console and the chat go back *)
(* in their history, sees the items in the opposite order, but for the     *)
(* oldest in a buffer that is full to the last block.                      *)
(***************************************************************************)
THEOREM BackwardIsForward == Spec => []BackwardSeesAll
<1>1. ASSUME IInv PROVE BackwardSeesAll
  <2>1. PICK s : IsListed(ring, s)
    BY <1>1 DEF IInv, HasList
  <2>2. IsTidy(ring)
    BY <1>1 DEF IInv
  <2> QED
    BY <2>1, <2>2, BackwardIsReverse DEF BackwardSeesAll, Contents
<1> QED
  BY <1>1, Inductive, PTL

(***************************************************************************)
(* Allocate of a buffer that recycles fails for no item that fits into the *)
(* buffer: after it has dropped at most all items, the free block it comes *)
(* to is the whole memory.                                                 *)
(***************************************************************************)
THEOREM AllocateSucceeds == Spec => []RecyclingSucceeds
<1>1. ASSUME IInv PROVE RecyclingSucceeds
  <2> SUFFICES ASSUME Recycles, NEW asked \in Asked, Wanted(asked) <= Size
               PROVE  IsAllocated(asked)
    BY DEF RecyclingSucceeds
  <2>1. Wanted(asked) \in Nat
    BY WantedFits, SizeAssumption
  <2>2. Found(RoomMade(ring, Wanted(asked)), Wanted(asked)) # Null
    BY <1>1, <2>1, RoomIsMade DEF IInv
  <2> QED
    BY <2>2 DEF IsAllocated
<1> QED
  BY <1>1, Inductive, PTL

-----------------------------------------------------------------------------
(* The queue *)

\* A loop over Next sees the items in the order in which they were stored.
LEMMA ItemsListed ==
    ASSUME NEW r, IsTidy(r), NEW s, IsListed(r, s)
    PROVE  /\ ItemsForward(r) \in Seq(Item)
           /\ Len(ItemsForward(r)) = Len(s) /\ Len(s) \in Nat
           /\ \A i \in 1 .. Len(s) : ItemsForward(r)[i] = r.block[s[i]].item
BY ForwardIsStored, StoredType, ListedOrder

LEMMA ReducedItems ==
    ASSUME NEW r, IsTidy(r), HasList(r), NEW m, IsReduced(r, m)
    PROVE  \E n \in 0 .. Len(ItemsForward(r)) :
              ItemsForward(m) = SubSeq(ItemsForward(r), n + 1, Len(ItemsForward(r)))
<1> DEFINE a == ItemsForward(r)
           b == ItemsForward(m)
<1>1. PICK s : IsListed(r, s)
  BY DEF HasList
<1>2. PICK u : IsListed(m, u) /\ IsTail(s, u)
  BY <1>1 DEF IsReduced
<1>3. IsTidy(m) /\ \A x \in Used(m) : m.block[x].item = r.block[x].item
  BY DEF IsReduced, Same
<1>4. /\ a \in Seq(Item) /\ Len(a) = Len(s) /\ Len(s) \in Nat
      /\ \A i \in 1 .. Len(s) : a[i] = r.block[s[i]].item
  BY <1>1, ItemsListed
<1>5. /\ b \in Seq(Item) /\ Len(b) = Len(u) /\ Len(u) \in Nat
      /\ \A i \in 1 .. Len(u) : b[i] = m.block[u[i]].item
  BY <1>2, <1>3, ItemsListed
<1>6. \A i \in 1 .. Len(u) : u[i] \in Used(m)
  BY <1>2, <1>3, ListedOrder
<1> DEFINE n == Len(s) - Len(u)
           c == SubSeq(a, n + 1, Len(a))
<1> HIDE DEF a, b
<1>7. n \in 0 .. Len(a) /\ n \in Nat
  BY <1>2, <1>4, <1>5 DEF IsTail
<1> HIDE DEF n
<1>8. /\ c \in Seq(Item) /\ Len(c) = Len(u)
      /\ \A i \in 1 .. Len(u) : c[i] = a[n + i]
  <2>1. \A i \in n + 1 .. Len(a) : a[i] \in Item
    BY <1>4, <1>7
  <2>2. n + 1 \in Int /\ Len(a) \in Int /\ Len(a) - (n + 1) + 1 = Len(u)
    BY <1>4, <1>5, <1>7 DEF n
  <2>3. /\ c \in Seq(Item) /\ Len(c) = IF n + 1 <= Len(a) THEN Len(a) - (n + 1) + 1 ELSE 0
        /\ \A i \in 1 .. Len(a) - (n + 1) + 1 : c[i] = a[n + 1 + i - 1]
    BY <2>1, <2>2, SubSeqProperties
  <2>4. \A i \in 1 .. Len(u) : n + 1 + i - 1 = n + i
    BY <1>5, <1>7
  <2> HIDE DEF c
  <2> QED
    BY <1>4, <1>5, <1>7, <2>2, <2>3, <2>4
<1>9. ASSUME NEW i \in 1 .. Len(u) PROVE b[i] = c[i]
  <2>1. u[i] = s[n + i]
    BY <1>2 DEF IsTail, n
  <2>2. n + i \in 1 .. Len(s)
    BY <1>2, <1>4, <1>5, <1>7 DEF n
  <2>3. c[i] = a[n + i] /\ a[n + i] = r.block[s[n + i]].item
    BY <1>4, <1>8, <2>2
  <2>4. b[i] = m.block[u[i]].item /\ u[i] \in Used(m)
    BY <1>5, <1>6
  <2> QED
    BY <1>3, <2>1, <2>3, <2>4
<1> HIDE DEF c
<1>10. b = c
  BY <1>5, <1>8, <1>9, SeqEqual
<1> QED
  BY <1>7, <1>10 DEF a, b, c

LEMMA QueueStep ==
    ASSUME IInv, [Next]_vars
    PROVE  [Queue!QueueNext]_Contents
<1> DEFINE a == ItemsForward(ring)
<1>1. Contents = a /\ Contents' = ItemsForward(ring')
  BY DEF Contents
<1>2. PICK s : IsListed(ring, s)
  BY DEF IInv, HasList
<1>3. /\ a \in Seq(Item) /\ Len(a) = Len(s) /\ Len(a) \in Nat
      /\ IsTidy(ring) /\ HasList(ring) /\ next \in Item
  BY <1>2, ItemsListed DEF IInv
<1> HIDE DEF a
<1>4. ASSUME NEW asked \in Asked, Allocate(asked)
      PROVE  Contents' = Contents \/ \E item \in Item, n \in 0 .. Len(Contents) : Queue!Put(item, n)
  <2> DEFINE w == Wanted(asked)
             r == RoomMade(ring, w)
             p == Found(r, w)
             b == ItemsForward(r)
  <2>1. asked \in Nat /\ w \in Nat /\ w <= Size
    BY <1>4, SizeAssumption, WantedFits DEF Allocate
  <2>2. IsReduced(ring, r) /\ (Recycles \/ r = ring)
    BY <1>3, EnoughDropped
  <2>3. IsTidy(r) /\ HasList(r)
    BY <1>3, <2>2 DEF IsReduced, HasList
  <2>4. PICK n \in 0 .. Len(a) : b = SubSeq(a, n + 1, Len(a)) /\ (n = 0 \/ Recycles)
    <3>1. CASE Recycles
      <4> HIDE DEF r
      <4> QED
        BY <1>3, <2>2, <3>1, ReducedItems DEF a
    <3>2. CASE ~Recycles
      <4>1. b = a
        BY <2>2, <3>2 DEF a
      <4>2. a = SubSeq(a, 0 + 1, Len(a))
        BY <1>3, SubSeqFull
      <4> QED
        BY <1>3, <4>1, <4>2
    <3> QED
      BY <3>1, <3>2
  <2>5. CASE p # Null
    <3>1. ring' = Placed(r, p, asked)
      BY <1>4, <2>5 DEF Allocate
    <3>2. IsAdded(r, p, asked, Placed(r, p, asked))
      <4> HIDE DEF r
      <4> QED
        BY <1>3, <2>1, <2>3, <2>5, ItemAdded
    <3> HIDE DEF p, r
    <3>3. PICK u : IsListed(r, u)
      BY <2>3 DEF HasList
    <3>4. /\ IsListed(ring', Append(u, p)) /\ IsTidy(ring')
          /\ Stored(ring', Append(u, p)) = Append(Stored(r, u), next)
      BY <1>3, <2>3, <3>1, <3>2, <3>3, ListAdded DEF IsAdded
    <3>5. ItemsForward(ring') = Append(ItemsForward(r), next)
      BY <2>3, <3>3, <3>4, ForwardIsStored
    <3>6. Contents' = Append(SubSeq(Contents, n + 1, Len(Contents)), next)
      BY <1>1, <2>4, <3>5
    <3>7. n <= Len(Contents) /\ n \in 0 .. Len(Contents)
      BY <1>1, <1>3
    <3>8. Queue!Put(next, n)
      BY <2>4, <3>6, <3>7 DEF Queue!Put
    <3> QED
      BY <1>3, <3>7, <3>8
  <2>6. CASE p = Null
    <3>1. ring' = r
      BY <1>4, <2>6 DEF Allocate
    <3>2. ~Recycles
      BY <1>3, <2>1, <2>6, RoomIsMade
    <3>3. ring' = ring
      BY <2>2, <3>1, <3>2
    <3> QED
      BY <1>1, <3>3 DEF a
  <2> QED
    BY <2>5, <2>6
<1>5. ASSUME PopFirst PROVE Queue!Take
  <2> DEFINE m == Popped(ring)
             u == Tail(s)
             b == ItemsForward(m)
  <2>1. ring' = m /\ ring.consume \in Used(ring) /\ ~ring.block[ring.consume].free
    <3>1. ring' = m /\ ~ring.block[ring.consume].free
      BY <1>5 DEF PopFirst, IsPoppable
    <3>2. ring.consume \in DOMAIN ring.block
      BY <1>3 DEF IsTidy, IsChain, IsRing
    <3> QED
      BY <3>1, <3>2 DEF Used
  <2>2. IsDropped(ring, m)
    BY <1>3, <2>1, OldestDropped
  <2> HIDE DEF m
  <2>3. IsListed(m, u) /\ IsTidy(m) /\ \A x \in Used(m) : m.block[x].item = ring.block[x].item
    <3>1. IsListed(m, u)
      BY <1>2, <1>3, <2>1, <2>2, ListDropped
    <3>2. IsTidy(m) /\ \A x \in Used(m) : m.block[x].item = ring.block[x].item
      BY <2>2 DEF IsDropped, Same
    <3> QED
      BY <3>1, <3>2
  <2> HIDE DEF u
  <2>4. /\ b \in Seq(Item) /\ Len(b) = Len(u)
        /\ \A i \in 1 .. Len(u) : b[i] = m.block[u[i]].item
    BY <2>3, ItemsListed
  <2>5. /\ s \in Seq(Used(ring)) /\ s # <<>>
        /\ \A i \in 1 .. Len(s) : a[i] = ring.block[s[i]].item
    BY <1>2, <1>3, <2>1, ListedFirst, ListedOrder, ItemsListed DEF a
  <2>6. Len(u) = Len(s) - 1 /\ \A i \in 1 .. Len(u) : u[i] = s[i + 1]
    BY <2>5, HeadTailProperties DEF u
  <2>7. \A i \in 1 .. Len(u) : u[i] \in Used(m)
    BY <2>3, ListedOrder
  <2>8. a # <<>>
    BY <1>3, <2>5
  <2>9. /\ Tail(a) \in Seq(Item) /\ Len(Tail(a)) = Len(u)
        /\ \A i \in 1 .. Len(u) : Tail(a)[i] = a[i + 1]
    BY <1>3, <2>6, <2>8, HeadTailProperties
  <2> HIDE DEF b
  <2>10. ASSUME NEW i \in 1 .. Len(b) PROVE b[i] = Tail(a)[i]
    <3>1. i \in 1 .. Len(u) /\ i + 1 \in 1 .. Len(s)
      BY <1>3, <2>4, <2>6
    <3> QED
      BY <2>3, <2>4, <2>5, <2>6, <2>7, <2>9, <3>1
  <2>11. b = Tail(a)
    BY <2>4, <2>9, <2>10, SeqEqual
  <2>12. Contents # <<>> /\ Contents' = Tail(Contents)
    BY <1>1, <2>1, <2>8, <2>11 DEF b
  <2> QED
    BY <2>12 DEF Queue!Take
<1>6. ASSUME Clear PROVE Queue!Clear
  <2>1. ring' = Empty
    BY <1>6 DEF Clear
  <2> QED
    BY <1>1, <2>1, EmptyIsListed DEF Queue!Clear
<1>7. ASSUME UNCHANGED vars PROVE Contents' = Contents
  <2>1. ring' = ring
    BY <1>7 DEF vars
  <2> QED
    BY <1>1, <2>1 DEF a
<1>8. CASE Next
  BY <1>4, <1>5, <1>6, <1>8 DEF Next, Queue!QueueNext
<1> QED
  BY <1>7, <1>8

(***************************************************************************)
(* The buffer implements the queue of ItemQueue, whatever the sizes: what  *)
(* a loop over Next sees loses its oldest item in PopFirst and gets a new  *)
(* one at its end in Allocate, which drops the oldest ones only in a       *)
(* buffer that recycles.                                                   *)
(***************************************************************************)
THEOREM ImplementsQueue == Spec => IsQueue
<1>1. Init => Contents = <<>>
  BY EmptyIsListed DEF Init, Contents
<1>2. IInv /\ [Next]_vars => [Queue!QueueNext]_Contents
  BY QueueStep
<1> QED
  BY <1>1, <1>2, Inductive, PTL DEF Spec, IsQueue, Queue!QueueSpec
=============================================================================
