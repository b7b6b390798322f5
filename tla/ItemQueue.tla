----------------------------- MODULE ItemQueue -----------------------------
(***************************************************************************)
(* What CRingBufferBase promises: a queue of items.  A buffer that         *)
(* recycles may drop its oldest items to make room for a new one.          *)
(***************************************************************************)
EXTENDS Naturals, Sequences

CONSTANTS Item, Recycles

VARIABLE queue

\* The new item goes to the end, after n of the oldest have made room.
Put(item, n) == /\ n = 0 \/ Recycles
                /\ n <= Len(queue)
                /\ queue' = Append(SubSeq(queue, n + 1, Len(queue)), item)

Take == queue # <<>> /\ queue' = Tail(queue)

Clear == queue' = <<>>

QueueNext == \/ \E item \in Item, n \in 0 .. Len(queue) : Put(item, n)
             \/ Take
             \/ Clear

QueueSpec == queue = <<>> /\ [][QueueNext]_queue
=============================================================================
