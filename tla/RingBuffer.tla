---------------------------- MODULE RingBuffer ----------------------------
(***************************************************************************)
(* CRingBufferBase: a queue of items of different sizes in one piece of    *)
(* memory, which keeps the chunks of a connection for resending and the    *)
(* history of the console and the chat.  The memory is cut into blocks     *)
(* with a header each; the headers are linked in the order of their        *)
(* addresses.  m_pProduce is the block tried next, m_pConsume the oldest   *)
(* item.                                                                   *)
(*                                                                         *)
(* A block is the address of its header.  "item" and "asked" of a header   *)
(* are ghosts: what was stored in the block and how many bytes were asked. *)
(***************************************************************************)
EXTENDS Integers, Sequences, SequencesExt

CONSTANTS
    Memory,     \* bytes of memory, TSIZE
    Header,     \* sizeof(CItem)
    Asked,      \* bound: the numbers of bytes asked for
    Recycles,   \* FLAG_RECYCLE
    Items       \* bound: items are numbered modulo Items

ASSUME SizeAssumption == /\ Header \in Nat \ {0}
                         /\ Memory \in Nat /\ Memory >= Header
                         /\ Asked \subseteq Nat
                         /\ Recycles \in BOOLEAN
                         /\ Items \in Nat \ {0}

VARIABLES
    ring,   \* the buffer: its headers, m_pProduce, m_pConsume and m_pLast
    next    \* ghost: the number of the next item

vars == <<ring, next>>

Null == -1
First == 0
Size == (Memory \div Header) * Header

\* There are no more blocks than this, since their sizes are multiples of Header:
\* no loop goes around more often.
Blocks == Memory \div Header

Item == 0 .. Items - 1

(***************************************************************************)
(* Faulty... operators are variants with a bug, as in the other modules.   *)
(***************************************************************************)

\* The memory is one free block.
Empty == [block |-> [p \in {First} |->
                       [prev |-> Null, next |-> Null, free |-> TRUE,
                        size |-> Size, item |-> 0, asked |-> 0]],
          produce |-> First, consume |-> First, last |-> First]

NextBlock(r, p) == IF r.block[p].next # Null THEN r.block[p].next ELSE First

PrevBlock(r, p) == IF r.block[p].prev # Null THEN r.block[p].prev ELSE r.last

-----------------------------------------------------------------------------
(* Joining free blocks. *)

IsMergeable(r, p) == LET q == r.block[p].prev IN
                     r.block[p].free /\ q # Null /\ r.block[q].free

\* The block that p is part of after MergeBack.
Merged(r, p) == IF IsMergeable(r, p) THEN r.block[p].prev ELSE p

\* The headers once p is joined to the block before it.
Unlinked(r, p) ==
    LET q == r.block[p].prev
        n == r.block[p].next
        joined == [r.block EXCEPT ![q].size = @ + r.block[p].size, ![q].next = n]
    IN [b \in DOMAIN joined \ {p} |->
          IF b = n THEN [joined[b] EXCEPT !.prev = q] ELSE joined[b]]

\* MergeBack: p joins the block before it if both are free.
MergeBack(r, p) ==
    IF ~IsMergeable(r, p) THEN r
    ELSE LET q == r.block[p].prev
             Fixed(x) == IF x = p THEN q ELSE x
         IN [block |-> Unlinked(r, p),
             produce |-> Fixed(r.produce),
             consume |-> Fixed(r.consume),
             last |-> IF r.block[p].next = Null THEN q ELSE r.last]

-----------------------------------------------------------------------------
(* PopFirst. *)

\* m_pConsume moves to the block after the one it has been joined to.
Advance(r) == LET p == Merged(r, r.consume)
                  m == MergeBack(r, r.consume)
              IN [m EXCEPT !.consume = NextBlock(m, p)]

\* A turn of the loop: over a free block, joining it, as far as m_pProduce.
PassFree(r) == IF r.block[r.consume].free /\ r.consume # r.produce THEN Advance(r) ELSE r

AdvanceToUsed(r) ==
    LET after[n \in 0 .. Blocks] == IF n = 0 THEN r ELSE PassFree(after[n - 1])
    IN after[Blocks]

\* The last joining, next to m_pProduce, is left out.
FaultyPopped(r) == AdvanceToUsed(Advance([r EXCEPT !.block[r.consume].free = TRUE]))

\* The buffer without its oldest item.
Popped(r) ==
    LET a == AdvanceToUsed(Advance([r EXCEPT !.block[r.consume].free = TRUE]))
    IN MergeBack(a, a.consume)

IsPoppable(r) == ~r.block[r.consume].free

-----------------------------------------------------------------------------
(* Allocate. *)

\* Rounded down instead of up.
FaultyWanted(asked) == ((asked + Header) \div Header) * Header

\* WantedSize: a header and the bytes asked for, rounded up to headers.
Wanted(asked) == ((asked + Header + Header - 1) \div Header) * Header

\* The block is taken wherever it lies.
FaultyFound(r, wanted) ==
    IF r.block[r.produce].free /\ r.block[r.produce].size >= wanted THEN r.produce
    ELSE IF r.block[First].size >= wanted THEN First
    ELSE Null

\* The block to use, if there is one: m_pProduce, or m_pFirst if that is too small.
Found(r, wanted) ==
    IF ~r.block[r.produce].free THEN Null
    ELSE IF r.block[r.produce].size >= wanted THEN r.produce
    ELSE IF r.block[First].free /\ r.block[First].size >= wanted THEN First
    ELSE Null

\* What is left of block p becomes a free block, unless it is a header's size.
Split(r, p, wanted) ==
    IF r.block[p].size <= wanted + Header THEN r
    ELSE LET q == p + wanted
             n == r.block[p].next
             rest == [prev |-> p, next |-> n, free |-> TRUE,
                      size |-> r.block[p].size - wanted, item |-> 0, asked |-> 0]
             blocks == [b \in DOMAIN r.block \union {q} |->
                          CASE b = q -> rest
                            [] b = p -> [r.block[p] EXCEPT !.next = q, !.size = wanted]
                            [] b = n -> [r.block[n] EXCEPT !.prev = q]
                            [] OTHER -> r.block[b]]
         IN [r EXCEPT !.block = blocks, !.last = IF n = Null THEN q ELSE @]

\* Item in block p.
Placed(r, p, asked) ==
    LET s == Split(r, p, Wanted(asked)) IN
    [s EXCEPT !.produce = NextBlock(s, p),
              !.block[p] = [@ EXCEPT !.free = FALSE, !.item = next, !.asked = asked]]

\* A turn of the loop: the oldest item is dropped, unless there is a block.
DropOldest(r, wanted) ==
    IF Found(r, wanted) = Null /\ Recycles /\ IsPoppable(r) THEN Popped(r) ELSE r

RoomMade(r, wanted) ==
    LET after[n \in 0 .. Blocks] == IF n = 0 THEN r ELSE DropOldest(after[n - 1], wanted)
    IN after[Blocks]

IsAllocated(asked) == /\ Wanted(asked) <= Size
                      /\ Found(RoomMade(ring, Wanted(asked)), Wanted(asked)) # Null

Allocate(asked) ==
    /\ Wanted(asked) <= Size
    /\ LET r == RoomMade(ring, Wanted(asked))
           p == Found(r, Wanted(asked))
       IN IF p # Null
          THEN ring' = Placed(r, p, asked) /\ next' = (next + 1) % Items
          ELSE ring' = r /\ UNCHANGED next

PopFirst == /\ IsPoppable(ring)
            /\ ring' = Popped(ring)
            /\ UNCHANGED next

\* Init, which also a connection's Reset calls.
Clear == ring' = Empty /\ UNCHANGED next

Init == ring = Empty /\ next = 0

Next == \/ \E asked \in Asked : Allocate(asked)
        \/ PopFirst
        \/ Clear

Spec == Init /\ [][Next]_vars

-----------------------------------------------------------------------------
(* Iterating. *)

Used(r) == {p \in DOMAIN r.block : ~r.block[p].free}

\* CRingBufferBase::Next: the used block after p, up to m_pProduce.
NextUsed(r, p) ==
    LET from[q \in DOMAIN r.block] ==
          IF q = r.produce THEN Null
          ELSE IF q \in Used(r) THEN q
          ELSE from[NextBlock(r, q)]
    IN from[NextBlock(r, p)]

\* CRingBufferBase::Prev.
PrevUsed(r, p) ==
    LET from[q \in DOMAIN r.block] ==
          IF q = r.produce THEN Null
          ELSE IF q \in Used(r) THEN q
          ELSE from[PrevBlock(r, q)]
    IN from[PrevBlock(r, p)]

FirstUsed(r) == IF r.block[r.consume].free THEN Null ELSE r.consume

\* The loop starts at the last block in memory.
FaultyLastUsed(r) == PrevUsed(r, r.last)

LastUsed(r) == PrevUsed(r, r.produce)

\* The items, as a loop from First over Next sees them: CNetConnection::Resend.
ItemsForward(r) ==
    LET from[p \in Used(r) \union {Null}] ==
          IF p = Null THEN <<>> ELSE <<r.block[p].item>> \o from[NextUsed(r, p)]
    IN from[FirstUsed(r)]

\* The items, as a loop from Last over Prev sees them.
ItemsBackward(r) ==
    LET from[p \in Used(r) \union {Null}] ==
          IF p = Null THEN <<>> ELSE <<r.block[p].item>> \o from[PrevUsed(r, p)]
    IN from[LastUsed(r)]

IsFull(r) == r.produce = r.consume /\ ~r.block[r.consume].free

Contents == ItemsForward(ring)

-----------------------------------------------------------------------------
(* Properties. *)

(***************************************************************************)
(* The blocks are linked both ways in the order of their addresses and     *)
(* cover the memory: no two items overlap, and no memory is lost between   *)
(* splits and joins.  Every item has the bytes that were asked for.        *)
(***************************************************************************)
Tiled ==
    \A p \in DOMAIN ring.block :
       LET b == ring.block[p]
           end == p + b.size
       IN /\ b.next = IF p = ring.last THEN Null ELSE end
          /\ IF b.next = Null THEN end = Size ELSE ring.block[b.next].prev = p
          /\ p = First <=> b.prev = Null
          /\ ~b.free => b.asked + Header <= b.size

\* A buffer that recycles takes every item that is not larger than the buffer.
RecyclingSucceeds ==
    Recycles => \A asked \in Asked : Wanted(asked) <= Size => IsAllocated(asked)

\* From Last over Prev the loop sees the same items backwards; only in a buffer
\* that is full to the last block it misses the oldest, from where it starts.
BackwardSeesAll ==
    ItemsBackward(ring) = Reverse(IF IsFull(ring) THEN Tail(Contents) ELSE Contents)

Queue == INSTANCE ItemQueue WITH queue <- Contents

\* The buffer is a queue of items: the oldest leaves first, and nothing else
\* changes or goes.
IsQueue == Queue!QueueSpec
=============================================================================
