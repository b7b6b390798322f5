----------------------------- MODULE AsyncFile -----------------------------
(***************************************************************************)
(* A file that is written by a thread of its own: ASYNCIO of               *)
(* base/system.cpp.  Writers append to a circular buffer under a lock, a   *)
(* line in one or more pieces; the thread copies what it can into a local  *)
(* buffer and writes that to the file without the lock; the owner closes   *)
(* the file, waits for the thread and frees the rest.                      *)
(*                                                                         *)
(* What a thread does between taking the lock and giving it back is one    *)
(* step, except for a writer's pieces, which are a step each.              *)
(***************************************************************************)
EXTENDS Integers, FiniteSets, Sequences

CONSTANTS
  Writer,      \* the threads that write lines
  Lengths,     \* how long a line may be
  BufSize,     \* ASYNC_BUFSIZE
  LocalSize,   \* ASYNC_LOCAL_BUFSIZE
  MaxLines     \* bound: lines that each writer writes

Nobody == "nobody"

ASSUME AsyncFileAssumption ==
  /\ Nobody \notin Writer
  /\ Lengths \cup {BufSize, LocalSize} \subseteq Nat \ {0}
  /\ MaxLines \in [Writer -> Nat]

VARIABLES
  lock,        \* who holds lock: a writer, or Nobody
  buffer,      \* buffer, a function from 0..buffer_size-1
  readPos,     \* read_pos
  writePos,    \* write_pos
  finish,      \* finish: "running", "close", "exit"
  refcount,    \* refcount
  freed,       \* the memory was given back
  sphore,      \* the count of sphore
  thread,      \* the thread: "looking" at the buffer, "waiting", "writing", "returned"
  local,       \* local_buffer
  file,        \* what is in the file
  closed,      \* io_close was called
  writer,      \* writers: "idle", "writing" with the lock, "signalling" after it
  line,        \* how long its line is, and how much of it a writer has written
  lines,       \* how many lines a writer has begun
  owner,       \* "using", "closing", "closed", "waiting", "joining", "joined", "gone"
  owed         \* history: how many bytes had been accepted when the owner began to finish

bufferVars == <<buffer, readPos, writePos>>
threadVars == <<thread, local, file, closed>>
writerVars == <<writer, line, lines>>
vars == <<lock, bufferVars, finish, refcount, freed, sphore, threadVars, writerVars, owner, owed>>

Garbage == <<Nobody, 0, 0>>      \* what malloc left in a buffer

BufferSize == Cardinality(DOMAIN buffer)

(* A byte is told from every other by its writer, line and place. *)
Line(w, n, len) == [k \in 1..len |-> <<w, n, k>>]
NoLine == [length |-> 0, done |-> 0]

(* buffer_len *)
BufferLen == IF writePos >= readPos THEN writePos - readPos
                                    ELSE BufferSize + writePos - readPos

(* The two stretches of buffer_ptrs, one after the other. *)
Contents ==
  LET stretch(from, to) == [k \in 1..(to - from) |-> buffer[from + k - 1]] IN
  IF readPos <= writePos THEN stretch(readPos, writePos)
                         ELSE stretch(readPos, BufferSize) \o stretch(0, writePos)

(* The bytes of the line that the holder of the lock has in the buffer. *)
Begun == IF lock = Nobody THEN 0 ELSE line[lock].done

(* What was accepted is in the file, in the thread's hands or in the       *)
(* buffer, in this order, up to the line that is being written.            *)
Accepted == file \o local \o SubSeq(Contents, 1, BufferLen - Begun)

-----------------------------------------------------------------------------
(* The writers *)

Init ==
  /\ lock = Nobody
  /\ buffer = [i \in 0..(BufSize - 1) |-> Garbage]
  /\ readPos = 0 /\ writePos = 0
  /\ finish = "running" /\ refcount = 2 /\ freed = FALSE
  /\ sphore = 0
  /\ thread = "looking" /\ local = <<>> /\ file = <<>> /\ closed = FALSE
  /\ writer = [w \in Writer |-> "idle"]
  /\ line = [w \in Writer |-> NoLine]
  /\ lines = [w \in Writer |-> 0]
  /\ owner = "using"
  /\ owed = 0

(* aio_lock, for a line.  Nobody writes to a file that its owner has let   *)
(* go of.                                                                  *)
Lock(w) ==
  /\ writer[w] = "idle"
  /\ lines[w] < MaxLines[w]
  /\ owner # "gone"
  /\ lock = Nobody /\ lock' = w
  /\ writer' = [writer EXCEPT ![w] = "writing"]
  /\ lines' = [lines EXCEPT ![w] = @ + 1]
  /\ \E length \in Lengths : line' = [line EXCEPT ![w] = [length |-> length, done |-> 0]]
  /\ UNCHANGED <<bufferVars, finish, refcount, freed, sphore, threadVars, owner, owed>>

(* next_buffer_size doubles it until it is enough: the one such size. *)
NextBufferSize(cur, need) == {size \in need..(2 * need - 1) : \E k \in 1..need : size = cur * 2^k}

(* aio_write_unlocked: never fill the buffer, since full would look like   *)
(* empty; a buffer that is too small is replaced by a larger one.          *)
FaultyFits(size) == size <= BufferSize - BufferLen
Fits(size) == size < BufferSize - BufferLen

WriteUnlocked(w) ==
  /\ lock = w
  /\ \E size \in 1..(line[w].length - line[w].done) :
       LET piece == [k \in 1..size |-> <<w, lines[w], line[w].done + k>>]
           grown == Contents \o piece
       IN /\ IF Fits(size)
             THEN /\ buffer' = [i \in DOMAIN buffer |->
                       LET k == (i - writePos) % BufferSize IN
                       IF k < size THEN piece[k + 1] ELSE buffer[i]]
                  /\ writePos' = (writePos + size) % BufferSize
                  /\ UNCHANGED readPos
             ELSE \E next \in NextBufferSize(BufferSize, BufferLen + size + 1) :
                  /\ buffer' = [i \in 0..(next - 1) |->
                       IF i < Len(grown) THEN grown[i + 1] ELSE Garbage]
                  /\ readPos' = 0
                  /\ writePos' = Len(grown)
          /\ line' = [line EXCEPT ![w].done = @ + size]
  /\ UNCHANGED <<lock, finish, refcount, freed, sphore, threadVars, writer, lines, owner, owed>>

(* aio_unlock gives the lock back and then signals. *)
Unlock(w) ==
  /\ lock = w /\ line[w].done = line[w].length
  /\ lock' = Nobody
  /\ writer' = [writer EXCEPT ![w] = "signalling"]
  /\ line' = [line EXCEPT ![w] = NoLine]
  /\ UNCHANGED <<bufferVars, finish, refcount, freed, sphore, threadVars, lines, owner, owed>>

FaultySignal(w) ==
  /\ writer[w] = "signalling"
  /\ writer' = [writer EXCEPT ![w] = "idle"]
  /\ UNCHANGED <<lock, bufferVars, finish, refcount, freed, sphore, threadVars, line, lines, owner, owed>>
Signal(w) ==
  /\ writer[w] = "signalling"
  /\ writer' = [writer EXCEPT ![w] = "idle"]
  /\ sphore' = sphore + 1
  /\ UNCHANGED <<lock, bufferVars, finish, refcount, freed, threadVars, line, lines, owner, owed>>

-----------------------------------------------------------------------------
(* The thread: aio_thread *)

(* aio_handle_free_and_unlock: the last of two frees the memory. *)
HandleFree == refcount' = refcount - 1 /\ freed' = (refcount = 1)

(* Nothing is left, and nothing will come. *)
FaultyReturn ==
  /\ thread = "looking" /\ lock = Nobody
  /\ finish # "running"
  /\ closed' = (finish = "close")
  /\ HandleFree
  /\ thread' = "returned"
  /\ UNCHANGED <<lock, bufferVars, finish, sphore, local, file, writerVars, owner, owed>>
Return ==
  /\ thread = "looking" /\ lock = Nobody
  /\ readPos = writePos
  /\ finish # "running"
  /\ closed' = (finish = "close")
  /\ HandleFree
  /\ thread' = "returned"
  /\ UNCHANGED <<lock, bufferVars, finish, sphore, local, file, writerVars, owner, owed>>

Sleep ==
  /\ thread = "looking" /\ lock = Nobody
  /\ readPos = writePos
  /\ finish = "running"
  /\ thread' = "waiting"
  /\ UNCHANGED <<lock, bufferVars, finish, refcount, freed, sphore, local, file, closed, writerVars, owner, owed>>

Wake ==
  /\ thread = "waiting"
  /\ sphore > 0 /\ sphore' = sphore - 1
  /\ thread' = "looking"
  /\ UNCHANGED <<lock, bufferVars, finish, refcount, freed, local, file, closed, writerVars, owner, owed>>

(* Copy what fits into the local buffer. *)
Copied == IF BufferLen < LocalSize THEN BufferLen ELSE LocalSize

Fetch ==
  /\ thread = "looking" /\ lock = Nobody
  /\ readPos # writePos
  /\ local' = SubSeq(Contents, 1, Copied)
  /\ readPos' = (readPos + Copied) % BufferSize
  /\ thread' = "writing"
  /\ UNCHANGED <<lock, buffer, writePos, finish, refcount, freed, sphore, file, closed, writerVars, owner, owed>>

(* io_write, without the lock. *)
Write ==
  /\ thread = "writing"
  /\ file' = file \o local
  /\ local' = <<>>
  /\ thread' = "looking"
  /\ UNCHANGED <<lock, bufferVars, finish, refcount, freed, sphore, closed, writerVars, owner, owed>>

-----------------------------------------------------------------------------
(* The owner: CLoggerAsync::GlobalFinish and ~CLoggerAsync, and the        *)
(* teehistorian of CGameContext::OnShutdown                                *)

(* aio_close *)
Close ==
  /\ owner = "using" /\ lock = Nobody
  /\ finish' = "close"
  /\ owner' = "closing"
  /\ owed' = Len(Accepted)
  /\ UNCHANGED <<lock, bufferVars, refcount, freed, sphore, threadVars, writerVars>>

(* aio_wait: a file that is not to be closed is left open. *)
Wait ==
  /\ owner \in {"using", "closed"} /\ lock = Nobody
  /\ finish' = IF finish = "running" THEN "exit" ELSE finish
  /\ owner' = "waiting"
  /\ owed' = IF owner = "using" THEN Len(Accepted) ELSE owed
  /\ UNCHANGED <<lock, bufferVars, refcount, freed, sphore, threadVars, writerVars>>

(* The signals of aio_close and of aio_wait. *)
SignalFinish ==
  /\ \/ owner = "closing" /\ owner' = "closed"
     \/ owner = "waiting" /\ owner' = "joining"
  /\ sphore' = sphore + 1
  /\ UNCHANGED <<lock, bufferVars, finish, refcount, freed, threadVars, writerVars, owed>>

(* thread_wait *)
Join ==
  /\ owner = "joining" /\ thread = "returned"
  /\ owner' = "joined"
  /\ UNCHANGED <<lock, bufferVars, finish, refcount, freed, sphore, threadVars, writerVars, owed>>

(* aio_free, once nobody writes any more. *)
Free ==
  /\ owner = "joined" /\ lock = Nobody
  /\ \A w \in Writer : writer[w] = "idle"
  /\ owner' = "gone"
  /\ HandleFree
  /\ UNCHANGED <<lock, bufferVars, finish, sphore, threadVars, writerVars, owed>>

Next ==
  \/ \E w \in Writer : Lock(w) \/ WriteUnlocked(w) \/ Unlock(w) \/ Signal(w)
  \/ Return \/ Sleep \/ Wake \/ Fetch \/ Write
  \/ Close \/ Wait \/ SignalFinish \/ Join \/ Free

(* The threads keep running: a writer ends the line it has begun, and the  *)
(* owner that has begun to finish goes on.                                 *)
Fairness ==
  /\ \A w \in Writer : WF_vars(WriteUnlocked(w) \/ Unlock(w) \/ Signal(w))
  /\ WF_vars(Return \/ Sleep \/ Fetch) /\ WF_vars(Wake) /\ WF_vars(Write)
  /\ WF_vars(SignalFinish) /\ WF_vars(Join)

Spec == Init /\ [][Next]_vars
FairSpec == Spec /\ Fairness

-----------------------------------------------------------------------------
(* Properties *)

LinesOf(w) == {Line(w, n, length) : n \in 1..MaxLines[w], length \in Lengths}
Lines == UNION {LinesOf(w) : w \in Writer}

Log == INSTANCE LineLog WITH accepted <- Accepted

(* The circular buffer, its growth, the local buffer and the two threads   *)
(* lose, repeat and reorder no byte, and tear no line: the file is written *)
(* as LineLog says.                                                        *)
IsLineLog == Log!Spec

(* When aio_wait returns, all that was accepted before the owner began to  *)
(* finish (aio_close, or aio_wait alone) is in the file, whatever was      *)
(* written meanwhile, and the file is closed if that was asked for; the    *)
(* memory stays until the owner frees it.                                  *)
Flushed == owner \in {"joined", "gone"} =>
             /\ Len(file) >= owed
             /\ closed = (finish = "close")
             /\ freed = (owner = "gone")

(* No signal is lost: what is accepted while the thread runs gets into the *)
(* file, however the signals, the waits and the end fall together, and     *)
(* aio_wait returns.                                                       *)
EventuallyWritten ==
  /\ (Accepted # file /\ thread # "returned") ~> Accepted = file
  /\ owner = "waiting" ~> owner = "joined"
=============================================================================
