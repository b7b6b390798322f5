---------------------- MODULE DbConnectionPoolProofs ----------------------
(***************************************************************************)
(* The safety of DbConnectionPool for a ring of any size that the backlog  *)
(* does not fill, and any number of queries: no record is lost, a success  *)
(* is stored, and the worker never overtakes the backup thread.            *)
(***************************************************************************)
EXTENDS DbConnectionPool, SequenceTheorems, TLAPS

Types == /\ asked \in Seq(Kind)
         /\ ring \in [0 .. Ring - 1 -> Nat]
         /\ numBackup \in Nat /\ numWorker \in Nat
         /\ backup \in [at : {"waiting", "writing", "exited"},
                        job : Nat, query : Nat, db : BOOLEAN]
         /\ worker \in [at : {"checking", "waiting", "reading", "writing", "moving", "exited"},
                        job : Nat, query : Nat, ok : BOOLEAN, failMode : BOOLEAN,
                        dbs : SUBSET Kind]
         /\ result \in [Query -> {"none", "success", "failed"}]

\* How many queries the worker has taken from the ring.
Gone == worker.job + IF worker.query = None THEN 0 ELSE 1

\* The ring holds the queries that the worker has not taken, and nothing else.
RingHolds == /\ \A j \in Gone .. Len(asked) - 1 : ring[Slot(j)] = j + 1
             /\ \A x \in 0 .. Ring - 1 :
                   ring[x] # None => \E j \in Gone .. Len(asked) - 1 : x = Slot(j)

\* The worker follows the backup thread, which follows the main thread.
Places == /\ Gone <= backup.job /\ backup.job <= Len(asked)
          /\ Len(asked) <= MaxQueries
          /\ Len(asked) - worker.job <= Backlog

\* Each semaphore counts what lies between its two threads, and the one query more
\* that ends them.
Tokens == /\ numBackup + backup.job + (IF backup.at = "waiting" THEN 0 ELSE 1)
                = Len(asked) + (IF main = "running" THEN 0 ELSE 1)
          /\ numWorker + (IF worker.at = "exited" THEN 1 ELSE 0) + Gone
                = backup.job + (IF backup.at = "exited" THEN 1 ELSE 0)

\* What the threads are at.
AtQuery == /\ backup.at = "writing" => /\ backup.query = backup.job + 1
                                       /\ backup.job < Len(asked)
           /\ backup.at = "exited" => backup.job = Len(asked) /\ main # "running"
           /\ worker.query # None <=> worker.at \in {"reading", "writing", "moving"}
           /\ worker.query # None => worker.query = worker.job + 1
           /\ worker.at = "reading" => asked[worker.query] = "READ_ACCESS"
           /\ worker.at \in {"writing", "moving"} => asked[worker.query] = "WRITE_ACCESS"
           /\ \A q \in Query : result[q] # "none" => q <= worker.job

QueueInv == Types /\ RingHolds /\ Places /\ Tokens /\ AtQuery

-----------------------------------------------------------------------------
(* Numbers modulo M. *)

\* The quotient and remainder of a natural number.
LEMMA DivMod ==
    ASSUME NEW M \in Nat \ {0}, NEW a \in Nat
    PROVE  /\ a % M \in 0 .. M - 1
           /\ a \div M \in Nat
           /\ a = M * (a \div M) + (a % M)
OBVIOUS

\* A positive multiple of M is at least M.
LEMMA MultipleGe ==
    ASSUME NEW M \in Nat \ {0}, NEW x \in Int, x >= 1
    PROVE  M * x >= M
OBVIOUS

\* Numbers less than M apart are told apart by their remainders.
LEMMA ModUnique ==
    ASSUME NEW M \in Nat \ {0}, NEW a \in Nat, NEW b \in Nat,
           a % M = b % M, a - b < M, b - a < M
    PROVE  a = b
<1> DEFINE qa == a \div M
           qb == b \div M
<1>1. /\ qa \in Nat /\ a = M * qa + (a % M)
      /\ qb \in Nat /\ b = M * qb + (b % M)
  BY DivMod
<1>2. a - b = M * (qa - qb)
  BY <1>1
<1>3. qa - qb < 1
  BY <1>1, <1>2, MultipleGe
<1>4. qb - qa < 1
  BY <1>1, <1>2, MultipleGe
<1> QED
  BY <1>1, <1>3, <1>4

-----------------------------------------------------------------------------
(* The queries in the ring. *)

\* The assumptions under which the ring is never full.
RoomInRing == Backlog < Ring

LEMMA SlotInRing ==
    ASSUME NEW j \in Nat
    PROVE  Slot(j) \in 0 .. Ring - 1 /\ Ring \in Nat \ {0}
<1>1. Ring \in Nat \ {0}
  BY RingAssumption
<1> QED
  BY <1>1, DivMod DEF Slot

\* Queries that are in the ring together have slots of their own.
LEMMA SlotsDiffer ==
    ASSUME NEW i \in Nat, NEW j \in Nat, i < j, j - i < Ring
    PROVE  Slot(i) # Slot(j)
<1>1. Ring \in Nat \ {0}
  BY RingAssumption
<1>2. i - j < Ring
  BY <1>1
<1> SUFFICES ASSUME i % Ring = j % Ring PROVE FALSE
  BY DEF Slot
<1>3. i = j
  BY <1>1, <1>2, ModUnique
<1> QED
  BY <1>3

\* What the main and worker threads count.
LEMMA Counts ==
    ASSUME Types, AtQuery
    PROVE  /\ Gone \in Nat /\ Len(asked) \in Nat
           /\ worker.job \in Nat /\ backup.job \in Nat
           /\ numBackup \in Nat /\ numWorker \in Nat
           /\ worker.job <= Gone /\ Gone <= worker.job + 1
           /\ Ring \in Nat \ {0} /\ Backlog \in Nat \ {0} /\ MaxQueries \in Nat \ {0}
           /\ DOMAIN asked = 1 .. Len(asked)
BY RingAssumption, SMTT(60) DEF Types, Gone

\* What a thread finds in the slot of its next query.
LEMMA NextInRing ==
    ASSUME RoomInRing, QueueInv, NEW j \in Gone .. Len(asked)
    PROVE  /\ j < Len(asked) => ring[Slot(j)] = j + 1
           /\ j = Len(asked) => ring[Slot(j)] = None
<1>1. /\ Gone \in Nat /\ Len(asked) \in Nat /\ worker.job \in Nat /\ worker.job <= Gone
      /\ Ring \in Nat /\ Backlog \in Nat
  BY Counts DEF QueueInv
<1>2. j \in Nat
  BY <1>1
<1>3. CASE j < Len(asked)
  BY <1>1, <1>3 DEF QueueInv, RingHolds
<1>4. CASE j = Len(asked)
  <2> SUFFICES ASSUME ring[Slot(j)] # None PROVE FALSE
    BY <1>4
  <2>1. Slot(j) \in 0 .. Ring - 1
    BY <1>2, SlotInRing
  <2>2. PICK i \in Gone .. Len(asked) - 1 : Slot(j) = Slot(i)
    BY <2>1 DEF QueueInv, RingHolds
  <2>3. i \in Nat /\ i < j /\ j - i < Ring
    BY <1>1, <1>4 DEF QueueInv, Places, RoomInRing
  <2> QED
    BY <1>2, <2>2, <2>3, SlotsDiffer
<1> QED
  BY <1>1, <1>3, <1>4

-----------------------------------------------------------------------------
(* The steps and the queue. *)

LEMMA QueueInit == Init => QueueInv
<1> SUFFICES ASSUME Init PROVE QueueInv
  OBVIOUS
<1>1. {Ring, Backlog, MaxQueries} \subseteq Nat \ {0}
  BY RingAssumption
<1>2. asked \in Seq(Kind) /\ Len(asked) = 0 /\ Gone = 0
  BY DEF Init, Gone
<1>3. Types
  BY <1>1, <1>2 DEF Init, Types, None
<1> QED
  BY <1>1, <1>2, <1>3
     DEF Init, QueueInv, RingHolds, Places, Tokens, AtQuery, None

LEMMA QueueExecute ==
    ASSUME RoomInRing, QueueInv, NEW kind \in Kind, Execute(kind)
    PROVE  QueueInv'
<1> DEFINE n == Len(asked)
<1>1. /\ Gone \in Nat /\ n \in Nat /\ worker.job \in Nat /\ backup.job \in Nat
      /\ worker.job <= Gone /\ Ring \in Nat \ {0} /\ Backlog \in Nat /\ MaxQueries \in Nat
      /\ DOMAIN asked = 1 .. n /\ numBackup \in Nat
  BY Counts DEF QueueInv
<1>2. /\ asked' = Append(asked, kind)
      /\ ring' = [ring EXCEPT ![Slot(n)] = n + 1]
      /\ numBackup' = numBackup + 1
      /\ n < MaxQueries /\ n - worker.job < Backlog /\ main = "running"
      /\ UNCHANGED <<numWorker, main, backup, worker, result>>
  BY DEF Execute
<1>3. /\ asked' \in Seq(Kind) /\ Len(asked') = n + 1
      /\ \A i \in 1 .. n : asked'[i] = asked[i]
  BY <1>2 DEF QueueInv, Types
<1>4. Slot(n) \in 0 .. Ring - 1
  BY <1>1, SlotInRing
<1>5. Types'
  <2>1. ring' \in [0 .. Ring - 1 -> Nat]
    BY <1>1, <1>2, <1>4, SMTT(60) DEF QueueInv, Types
  <2>2. numBackup' \in Nat
    BY <1>1, <1>2
  <2> QED
    BY <1>2, <1>3, <2>1, <2>2 DEF QueueInv, Types
<1>6. Gone' = Gone
  BY <1>2 DEF Gone
<1>7. RingHolds'
  <2>1. \A j \in Gone .. n - 1 : ring'[Slot(j)] = j + 1
    <3> SUFFICES ASSUME NEW j \in Gone .. n - 1
                 PROVE  ring'[Slot(j)] = j + 1
      OBVIOUS
    <3>1. j \in Nat /\ j < n /\ n - j < Ring
      BY <1>1, <1>2, SMTT(60) DEF RoomInRing
    <3>2. Slot(j) # Slot(n) /\ Slot(j) \in 0 .. Ring - 1
      BY <1>1, <3>1, SlotsDiffer, SlotInRing
    <3> QED
      BY <1>2, <3>2 DEF QueueInv, RingHolds, Types
  <2>2. ring'[Slot(n)] = n + 1
    BY <1>2, <1>4 DEF QueueInv, Types
  <2>3. \A j \in Gone .. (n + 1) - 1 : ring'[Slot(j)] = j + 1
    BY <1>1, <2>1, <2>2
  <2>4. ASSUME NEW x \in 0 .. Ring - 1, ring'[x] # None
        PROVE  \E j \in Gone .. (n + 1) - 1 : x = Slot(j)
    <3>1. CASE x = Slot(n)
      BY <1>1, <3>1 DEF QueueInv, Places
    <3>2. CASE x # Slot(n)
      <4>1. ring[x] # None
        BY <1>2, <2>4, <3>2 DEF QueueInv, Types
      <4>2. PICK j \in Gone .. n - 1 : x = Slot(j)
        BY <4>1 DEF QueueInv, RingHolds
      <4> QED
        BY <1>1, <4>2
    <3> QED
      BY <3>1, <3>2
  <2> QED
    BY <1>3, <1>6, <2>3, <2>4 DEF RingHolds, Slot
<1>8. Places'
  BY <1>1, <1>2, <1>3, <1>6, SMTT(60) DEF QueueInv, Places
<1>9. Tokens'
  <2>1. backup' = backup /\ worker' = worker /\ main' = main /\ numWorker' = numWorker
    BY <1>2
  <2>2. Tokens
    BY DEF QueueInv
  <2> QED
    <3>1. numBackup + backup.job + (IF backup.at = "waiting" THEN 0 ELSE 1) = n
      BY <1>1, <1>2, <2>2 DEF Tokens
    <3>2. numBackup' + backup.job + (IF backup.at = "waiting" THEN 0 ELSE 1) = Len(asked')
      <4>1. /\ numBackup' = numBackup + 1 /\ Len(asked') = n + 1
            /\ numBackup \in Nat /\ backup.job \in Nat /\ n \in Nat
        BY <1>1, <1>2, <1>3
      <4>2. CASE backup.at = "waiting"
        BY <3>1, <4>1, <4>2
      <4>3. CASE backup.at # "waiting"
        BY <3>1, <4>1, <4>3, SMTT(60)
      <4> QED
        BY <4>2, <4>3
    <3> QED
      BY <1>2, <1>6, <2>1, <2>2, <3>2 DEF Tokens
<1>10. AtQuery'
  <2>1. backup.at # "exited"
    BY <1>2 DEF QueueInv, AtQuery
  <2>2. worker.query # None => worker.query \in 1 .. n
    BY <1>1 DEF QueueInv, AtQuery, Places, Gone
  <2> QED
    BY <1>1, <1>2, <1>3, <2>1, <2>2 DEF QueueInv, AtQuery, None
<1> QED
  BY <1>5, <1>7, <1>8, <1>9, <1>10 DEF QueueInv

\* The other steps of the main thread only move its own place and a semaphore.
LEMMA QueueMain ==
    ASSUME RoomInRing, QueueInv, OnShutdown \/ ShutdownDone \/ Close
    PROVE  QueueInv'
<1>1. numBackup \in Nat /\ backup.job \in Nat /\ Len(asked) \in Nat
  BY Counts DEF QueueInv
<1>2. UNCHANGED <<asked, ring, numWorker, backup, worker, result>> /\ main' # "running"
  BY DEF OnShutdown, ShutdownDone, Close
<1>3. \/ main = "running" /\ numBackup' = numBackup + 1
      \/ main # "running" /\ numBackup' = numBackup
  BY DEF OnShutdown, ShutdownDone, Close
<1>4. Gone' = Gone
  BY <1>2 DEF Gone
<1>5. RingHolds' /\ Places' /\ AtQuery'
  BY <1>2, <1>4 DEF QueueInv, RingHolds, Places, AtQuery, Slot
<1>6. Types'
  BY <1>1, <1>2, <1>3 DEF QueueInv, Types
<1>7. Tokens'
  <2>1. Tokens
    BY DEF QueueInv
  <2> QED
    BY <1>1, <1>2, <1>3, <1>4, <2>1, SMTT(60) DEF Tokens
<1> QED
  BY <1>5, <1>6, <1>7 DEF QueueInv

\* The backup thread finds the query behind the last one it took, if there is one.
LEMMA BackupNext ==
    ASSUME RoomInRing, QueueInv
    PROVE  /\ NextForBackup = None <=> backup.job = Len(asked)
           /\ NextForBackup # None => /\ NextForBackup = backup.job + 1
                                      /\ backup.job < Len(asked)
                                      /\ NextForBackup \in DOMAIN asked
<1>1. /\ backup.job \in Nat /\ Len(asked) \in Nat /\ Gone \in Nat
      /\ DOMAIN asked = 1 .. Len(asked)
  BY Counts DEF QueueInv
<1>2. backup.job \in Gone .. Len(asked)
  BY <1>1 DEF QueueInv, Places
<1>3. /\ backup.job < Len(asked) => NextForBackup = backup.job + 1
      /\ backup.job = Len(asked) => NextForBackup = None
  BY <1>2, NextInRing DEF NextForBackup
<1> QED
  BY <1>1, <1>2, <1>3 DEF None

LEMMA QueueBackup ==
    ASSUME RoomInRing, QueueInv, Backup
    PROVE  QueueInv'
<1>1. /\ numBackup \in Nat /\ numWorker \in Nat /\ backup.job \in Nat
      /\ Len(asked) \in Nat /\ Gone \in Nat
  BY Counts DEF QueueInv
<1>2. UNCHANGED <<asked, ring, main, worker, result>>
  BY DEF Backup, BackupExit, BackupTake, BackupWrite
<1>3. Gone' = Gone
  BY <1>2 DEF Gone
<1>4. RingHolds'
  BY <1>2, <1>3 DEF QueueInv, RingHolds, Slot
<1>5. Types /\ Places /\ Tokens /\ AtQuery
  BY DEF QueueInv
<1>6. backup = [at |-> backup.at, job |-> backup.job, query |-> backup.query, db |-> backup.db]
      /\ backup.query \in Nat /\ backup.db \in BOOLEAN
  BY <1>5 DEF Types
<1>7. CASE BackupExit
  <2>1. /\ backup.at = "waiting" /\ backup'.at = "exited" /\ backup'.job = backup.job
        /\ numBackup > 0 /\ numBackup' = numBackup - 1 /\ numWorker' = numWorker + 1
        /\ backup' \in [at : {"exited"}, job : Nat, query : Nat, db : BOOLEAN]
    BY <1>1, <1>5, <1>7 DEF BackupExit, Types
  <2>2. backup.job = Len(asked)
    BY <1>7, BackupNext DEF BackupExit
  <2>3. main # "running"
    BY <1>1, <1>5, <2>1, <2>2 DEF Tokens
  <2>4. Types'
    BY <1>1, <1>2, <1>5, <2>1 DEF Types
  <2>5. Places'
    BY <1>2, <1>3, <1>5, <2>1 DEF Places
  <2>6. Tokens'
    BY <1>1, <1>2, <1>3, <1>5, <2>1, SMTT(60) DEF Tokens
  <2>7. AtQuery'
    BY <1>2, <1>5, <2>1, <2>2, <2>3 DEF AtQuery
  <2> QED
    BY <1>4, <2>4, <2>5, <2>6, <2>7 DEF QueueInv
<1>8. CASE BackupTake
  <2>1. /\ NextForBackup = backup.job + 1 /\ backup.job < Len(asked)
    BY <1>8, BackupNext DEF BackupTake
  <2>2. /\ backup.at = "waiting"
        /\ numBackup > 0 /\ numBackup' = numBackup - 1
        /\ \/ /\ backup' = [backup EXCEPT !.at = "writing", !.query = NextForBackup]
              /\ numWorker' = numWorker
           \/ /\ backup' = [backup EXCEPT !.job = @ + 1,
                                          !.db = @ \/ asked[NextForBackup] = "ADD_BACKUP"]
              /\ numWorker' = numWorker + 1
    BY <1>8 DEF BackupTake
  <2>3. (backup.db \/ asked[NextForBackup] = "ADD_BACKUP") \in BOOLEAN
    OBVIOUS
  <2>4. \/ /\ backup'.at = "writing" /\ backup'.job = backup.job
           /\ backup'.query = backup.job + 1 /\ numWorker' = numWorker
        \/ /\ backup'.at = "waiting" /\ backup'.job = backup.job + 1
           /\ numWorker' = numWorker + 1
    BY <1>5, <2>1, <2>2 DEF Types
  <2>5. backup' \in [at : {"waiting", "writing", "exited"}, job : Nat, query : Nat, db : BOOLEAN]
    <3>1. CASE backup' = [backup EXCEPT !.at = "writing", !.query = NextForBackup]
      <4>1. backup' = [at |-> "writing", job |-> backup.job, query |-> backup.job + 1,
                       db |-> backup.db]
        BY <1>6, <2>1, <3>1
      <4> QED
        BY <1>1, <1>6, <4>1
    <3>2. CASE backup' = [backup EXCEPT !.job = @ + 1,
                                !.db = @ \/ asked[NextForBackup] = "ADD_BACKUP"]
      <4> DEFINE d == backup.db \/ asked[NextForBackup] = "ADD_BACKUP"
      <4>1. backup' = [backup EXCEPT !.job = backup.job + 1, !.db = d]
        BY <3>2
      <4>2. d \in BOOLEAN
        OBVIOUS
      <4> HIDE DEF d
      <4>3. backup' = [at |-> backup.at, job |-> backup.job + 1, query |-> backup.query,
                       db |-> d]
        BY <1>6, <4>1
      <4>4. backup.at = "waiting"
        BY <2>2
      <4> QED
        BY <1>1, <1>6, <4>2, <4>3, <4>4
    <3> QED
      BY <2>2, <3>1, <3>2
  <2>6. Types'
    <3>1. numBackup' \in Nat /\ numWorker' \in Nat
      BY <1>1, <2>2, <2>4
    <3> QED
      BY <1>2, <1>5, <2>5, <3>1 DEF Types
  <2>7. Places'
    BY <1>1, <1>2, <1>3, <1>5, <2>1, <2>4 DEF Places
  <2>8. Tokens'
    <3>1. backup.at = "waiting" /\ numBackup' = numBackup - 1
      BY <2>2
    <3>2. /\ Len(asked') = Len(asked) /\ main' = main /\ worker' = worker
      BY <1>2
    <3>3. /\ numBackup + backup.job = Len(asked) + (IF main = "running" THEN 0 ELSE 1)
          /\ numWorker + (IF worker.at = "exited" THEN 1 ELSE 0) + Gone = backup.job
      BY <1>1, <1>5, <3>1 DEF Tokens
    <3>4. CASE backup'.at = "writing"
      <4>1. backup'.job = backup.job /\ numWorker' = numWorker
        BY <2>4, <3>4
      <4> QED
        BY <1>1, <1>3, <3>1, <3>2, <3>3, <3>4, <4>1 DEF Tokens
    <3>5. CASE backup'.at = "waiting"
      <4>1. backup'.job = backup.job + 1 /\ numWorker' = numWorker + 1
        BY <2>4, <3>5
      <4> QED
        BY <1>1, <1>3, <3>1, <3>2, <3>3, <3>5, <4>1, SMTT(60) DEF Tokens
    <3> QED
      BY <2>4, <3>4, <3>5
  <2>9. AtQuery'
    BY <1>2, <1>5, <2>1, <2>4 DEF AtQuery
  <2> QED
    BY <1>4, <2>6, <2>7, <2>8, <2>9 DEF QueueInv
<1>9. CASE BackupWrite
  <2>1. /\ backup.at = "writing" /\ backup.job < Len(asked)
        /\ backup'.at = "waiting" /\ backup'.job = backup.job + 1
        /\ numBackup' = numBackup /\ numWorker' = numWorker + 1
        /\ backup' \in [at : {"waiting"}, job : Nat, query : Nat, db : BOOLEAN]
    BY <1>1, <1>5, <1>9 DEF BackupWrite, Types, AtQuery, None
  <2>2. Types'
    BY <1>1, <1>2, <1>5, <2>1 DEF Types
  <2>3. Places'
    BY <1>1, <1>2, <1>3, <1>5, <2>1 DEF Places
  <2>4. Tokens'
    <3> DEFINE closing == IF main = "running" THEN 0 ELSE 1
               left == IF worker.at = "exited" THEN 1 ELSE 0
    <3>1. /\ numBackup + backup.job + 1 = Len(asked) + closing
          /\ numWorker + left + Gone = backup.job + 0
      BY <1>5, <2>1 DEF Tokens
    <3>2. closing \in Nat /\ left \in Nat
      OBVIOUS
    <3>3. Tokens' = /\ numBackup' + backup'.job + 0 = Len(asked) + closing
                    /\ numWorker' + left + Gone = backup'.job + 0
      BY <1>2, <1>3, <2>1 DEF Tokens
    <3> HIDE DEF closing, left
    <3> QED
      BY <1>1, <2>1, <3>1, <3>2, <3>3, SMTT(60)
  <2>5. AtQuery'
    BY <1>2, <1>5, <2>1 DEF AtQuery
  <2> QED
    BY <1>4, <2>2, <2>3, <2>4, <2>5 DEF QueueInv
<1> QED
  BY <1>7, <1>8, <1>9 DEF Backup

\* What the worker finds behind the last query it has dealt with.
LEMMA WorkerNext ==
    ASSUME RoomInRing, QueueInv, worker.query = None
    PROVE  /\ Gone = worker.job
           /\ NextForWorker # None => /\ NextForWorker = worker.job + 1
                                      /\ worker.job < Len(asked)
                                      /\ NextForWorker \in DOMAIN asked
                                      /\ NextForWorker \in Query
<1>1. /\ worker.job \in Nat /\ Len(asked) \in Nat /\ Gone \in Nat /\ backup.job \in Nat
      /\ MaxQueries \in Nat /\ DOMAIN asked = 1 .. Len(asked)
  BY Counts DEF QueueInv
<1>2. Gone = worker.job
  BY <1>1 DEF Gone
<1>3. worker.job \in Gone .. Len(asked) /\ Len(asked) <= MaxQueries
  BY <1>1, <1>2 DEF QueueInv, Places
<1>4. /\ worker.job < Len(asked) => NextForWorker = worker.job + 1
      /\ worker.job = Len(asked) => NextForWorker = None
  BY <1>3, NextInRing DEF NextForWorker
<1> QED
  BY <1>1, <1>2, <1>3, <1>4 DEF None, Query

\* A query that is in the worker's hands is the one behind those it has dealt with.
LEMMA InHand ==
    ASSUME QueueInv, worker.query # None
    PROVE  /\ worker.query = worker.job + 1 /\ Gone = worker.job + 1
           /\ worker.query \in Query /\ worker.query \in DOMAIN asked
           /\ worker.query <= backup.job
<1>1. /\ worker.job \in Nat /\ Len(asked) \in Nat /\ backup.job \in Nat
      /\ MaxQueries \in Nat /\ DOMAIN asked = 1 .. Len(asked)
  BY Counts DEF QueueInv
<1>2. worker.query = worker.job + 1 /\ Gone = worker.job + 1
  BY DEF QueueInv, AtQuery, Gone
<1> QED
  BY <1>1, <1>2 DEF QueueInv, Places, Query

LEMMA QueueFinish ==
    ASSUME QueueInv, worker.query # None,
           NEW ok \in BOOLEAN, NEW failMode \in BOOLEAN, Finish(ok, failMode),
           UNCHANGED <<asked, ring, numBackup, numWorker, main, backup>>
    PROVE  /\ QueueInv'
           /\ worker'.job = worker.job + 1 /\ worker'.query = None
           /\ worker'.at = "checking" /\ worker'.dbs = worker.dbs
<1>1. /\ worker.job \in Nat /\ Len(asked) \in Nat /\ Gone \in Nat /\ backup.job \in Nat
      /\ numWorker \in Nat /\ Backlog \in Nat
  BY Counts DEF QueueInv
<1>2. Types /\ RingHolds /\ Places /\ Tokens /\ AtQuery
  BY DEF QueueInv
<1>3. /\ worker.query = worker.job + 1 /\ Gone = worker.job + 1
      /\ worker.query \in Query /\ worker.at # "exited"
  BY <1>2, InHand DEF AtQuery
<1>4. worker' = [worker EXCEPT !.at = "checking", !.job = worker.job + 1, !.query = None,
                               !.ok = FALSE, !.failMode = failMode]
  BY DEF Finish
<1>5. /\ worker'.at = "checking" /\ worker'.job = worker.job + 1 /\ worker'.query = None
      /\ worker'.dbs = worker.dbs
      /\ worker' \in [at : {"checking"}, job : Nat, query : Nat, ok : BOOLEAN,
                      failMode : BOOLEAN, dbs : SUBSET Kind]
  <2>1. /\ worker = [at |-> worker.at, job |-> worker.job, query |-> worker.query,
                     ok |-> worker.ok, failMode |-> worker.failMode, dbs |-> worker.dbs]
        /\ worker.dbs \in SUBSET Kind
    BY <1>2 DEF Types
  <2>2. worker' = [at |-> "checking", job |-> worker.job + 1, query |-> None, ok |-> FALSE,
                   failMode |-> failMode, dbs |-> worker.dbs]
    BY <1>4, <2>1
  <2> QED
    BY <1>1, <2>1, <2>2 DEF None
<1>6. result' = [result EXCEPT ![worker.query] = IF ok THEN "success" ELSE "failed"]
  BY DEF Finish
<1>7. Gone' = Gone
  BY <1>1, <1>3, <1>5 DEF Gone
<1>8. Types'
  BY <1>2, <1>5, <1>6 DEF Types
<1>9. RingHolds'
  BY <1>2, <1>7 DEF RingHolds, Slot
<1>10. Places'
  BY <1>1, <1>2, <1>3, <1>5, <1>7, SMTT(60) DEF Places
<1>11. Tokens'
  BY <1>1, <1>2, <1>3, <1>5, <1>7 DEF Tokens
<1>12. \A q \in Query : result'[q] # "none" => q <= worker'.job
  <2> SUFFICES ASSUME NEW q \in Query, result'[q] # "none" PROVE q <= worker'.job
    OBVIOUS
  <2>1. CASE q = worker.query
    BY <1>1, <1>3, <1>5, <2>1 DEF Query
  <2>2. CASE q # worker.query
    <3>1. result[q] # "none"
      BY <1>2, <1>6, <2>2 DEF Types
    <3> QED
      BY <1>1, <1>2, <1>5, <3>1, RingAssumption DEF AtQuery, Query
  <2> QED
    BY <2>1, <2>2
<1>13. AtQuery'
  BY <1>2, <1>5, <1>12 DEF AtQuery
<1> QED
  BY <1>5, <1>8, <1>9, <1>10, <1>11, <1>13 DEF QueueInv

\* The steps of the worker that keep the query in its hand, or that it is without one.
LEMMA QueueHold ==
    ASSUME QueueInv, WorkerCheck \/ WorkerExit \/ WorkerWrite
    PROVE  QueueInv'
<1>1. /\ worker.job \in Nat /\ Len(asked) \in Nat /\ Gone \in Nat /\ backup.job \in Nat
      /\ numWorker \in Nat
  BY Counts DEF QueueInv
<1>2. Types /\ RingHolds /\ Places /\ Tokens /\ AtQuery
  BY DEF QueueInv
<1>3. UNCHANGED <<asked, ring, numBackup, main, backup, result>>
  BY DEF WorkerCheck, WorkerExit, WorkerWrite
<1>4. worker = [at |-> worker.at, job |-> worker.job, query |-> worker.query, ok |-> worker.ok,
                failMode |-> worker.failMode, dbs |-> worker.dbs]
  BY <1>2 DEF Types
<1>5. \E f \in BOOLEAN, k \in BOOLEAN :
         \/ /\ worker.at = "checking" /\ numWorker' = numWorker
            /\ worker' = [worker EXCEPT !.at = "waiting", !.failMode = f]
         \/ /\ worker.at = "waiting" /\ numWorker > 0 /\ numWorker' = numWorker - 1
            /\ worker' = [worker EXCEPT !.at = "exited", !.failMode = worker.failMode]
         \/ /\ worker.at = "writing" /\ numWorker' = numWorker
            /\ worker' = [worker EXCEPT !.at = "moving", !.ok = k, !.failMode = f]
  <2>1. CASE WorkerCheck
    <3> DEFINE f == worker.failMode /\ numWorker > 0
    <3>1. f \in BOOLEAN
      OBVIOUS
    <3>2. worker.at = "checking" /\ numWorker' = numWorker
          /\ worker' = [worker EXCEPT !.at = "waiting", !.failMode = f]
      BY <2>1 DEF WorkerCheck
    <3> QED
      BY <3>1, <3>2
  <2>2. CASE WorkerExit
    <3>1. worker' = [worker EXCEPT !.at = "exited"]
      BY <2>2 DEF WorkerExit
    <3>2. worker' = [worker EXCEPT !.at = "exited", !.failMode = worker.failMode]
      BY <1>4, <3>1
    <3> QED
      BY <2>2, <3>2 DEF WorkerExit
  <2>3. CASE WorkerWrite
    <3>1. worker.at = "writing" /\ numWorker' = numWorker
      BY <2>3 DEF WorkerWrite
    <3>2. CASE \E ok \in BOOLEAN :
                  worker' = [worker EXCEPT !.at = "moving", !.ok = ok, !.failMode = @ \/ ~ok]
      <4>1. PICK ok \in BOOLEAN :
                  worker' = [worker EXCEPT !.at = "moving", !.ok = ok, !.failMode = @ \/ ~ok]
        BY <3>2
      <4> DEFINE f == worker.failMode \/ ~ok
      <4>2. f \in BOOLEAN
        OBVIOUS
      <4>3. worker' = [worker EXCEPT !.at = "moving", !.ok = ok, !.failMode = f]
        BY <4>1
      <4> QED
        BY <3>1, <4>2, <4>3
    <3>3. CASE worker' = [worker EXCEPT !.at = "moving", !.failMode = TRUE]
      <4>1. worker' = [worker EXCEPT !.at = "moving", !.ok = worker.ok, !.failMode = TRUE]
        BY <1>4, <3>3
      <4>2. worker.ok \in BOOLEAN
        BY <1>2 DEF Types
      <4> QED
        BY <3>1, <4>1, <4>2
    <3> QED
      BY <2>3, <3>2, <3>3 DEF WorkerWrite
  <2> QED
    BY <2>1, <2>2, <2>3
<1>6. PICK f \in BOOLEAN, k \in BOOLEAN :
         \/ /\ worker.at = "checking" /\ numWorker' = numWorker
            /\ worker' = [worker EXCEPT !.at = "waiting", !.failMode = f]
         \/ /\ worker.at = "waiting" /\ numWorker > 0 /\ numWorker' = numWorker - 1
            /\ worker' = [worker EXCEPT !.at = "exited", !.failMode = worker.failMode]
         \/ /\ worker.at = "writing" /\ numWorker' = numWorker
            /\ worker' = [worker EXCEPT !.at = "moving", !.ok = k, !.failMode = f]
  BY <1>5
<1>7. /\ worker'.job = worker.job /\ worker'.query = worker.query
      /\ \/ worker.at = "checking" /\ worker'.at = "waiting"
         \/ worker.at = "waiting" /\ worker'.at = "exited"
         \/ worker.at = "writing" /\ worker'.at = "moving"
  BY <1>4, <1>6
<1>8. worker' \in [at : {"waiting", "moving", "exited"}, job : Nat, query : Nat,
                   ok : BOOLEAN, failMode : BOOLEAN, dbs : SUBSET Kind]
  BY <1>2, <1>6, ZenonT(60) DEF Types
<1>9. numWorker' \in Nat
  BY <1>1, <1>6
<1>10. numWorker' + (IF worker'.at = "exited" THEN 1 ELSE 0)
          = numWorker + (IF worker.at = "exited" THEN 1 ELSE 0)
  <2>1. \/ worker.at = "checking" /\ worker'.at = "waiting" /\ numWorker' = numWorker
        \/ worker.at = "waiting" /\ worker'.at = "exited" /\ numWorker' = numWorker - 1
        \/ worker.at = "writing" /\ worker'.at = "moving" /\ numWorker' = numWorker
    BY <1>6, <1>7
  <2> QED
    BY <1>1, <2>1
<1>11. Gone' = Gone
  BY <1>7 DEF Gone
<1>12. RingHolds' /\ Places'
  BY <1>2, <1>3, <1>7, <1>11 DEF RingHolds, Places, Slot
<1>13. Types'
  BY <1>2, <1>3, <1>8, <1>9 DEF Types
<1>14. Tokens'
  <2>1. numBackup' = numBackup /\ backup' = backup /\ main' = main /\ asked' = asked
    BY <1>3
  <2> QED
    BY <1>2, <1>10, <1>11, <2>1 DEF Tokens
<1>15. AtQuery'
  BY <1>2, <1>3, <1>7 DEF AtQuery
<1> QED
  BY <1>12, <1>13, <1>14, <1>15 DEF QueueInv

\* What the worker is at after it has taken a query.
LEMMA WorkerTaken ==
    ASSUME RoomInRing, QueueInv, WorkerTake
    PROVE  /\ worker.at = "waiting" /\ worker.query = None
           /\ NextForWorker = worker.job + 1 /\ NextForWorker \in DOMAIN asked
           /\ worker.job + 1 <= Len(asked) /\ NextForWorker \in Query
           /\ worker'.at \in {"checking", "reading", "writing"}
           /\ \/ /\ worker'.at = "checking" /\ worker'.query = None
                 /\ worker'.job = worker.job + 1
                 /\ worker'.dbs = worker.dbs \union {asked[worker.job + 1]}
                 /\ asked[worker.job + 1] # "WRITE_ACCESS"
              \/ /\ worker'.at # "checking" /\ worker'.query = worker.job + 1
                 /\ worker'.job = worker.job /\ worker'.dbs = worker.dbs
           /\ worker'.at = "reading" => asked[worker.job + 1] = "READ_ACCESS"
           /\ worker'.at = "writing" => asked[worker.job + 1] = "WRITE_ACCESS"
           /\ worker' \in [at : {"checking", "reading", "writing"}, job : Nat, query : Nat,
                           ok : BOOLEAN, failMode : BOOLEAN, dbs : SUBSET Kind]
<1> DEFINE q == NextForWorker
<1>1. worker.at = "waiting" /\ worker.query = None /\ q # None /\ worker' = Taken(q)
  BY DEF WorkerTake, QueueInv, AtQuery
<1>2. /\ q = worker.job + 1 /\ q \in DOMAIN asked /\ worker.job < Len(asked) /\ q \in Query
  BY <1>1, WorkerNext
<1>3. /\ worker.job \in Nat /\ Len(asked) \in Nat
      /\ worker.dbs \in SUBSET Kind /\ worker.ok \in BOOLEAN /\ worker.failMode \in BOOLEAN
      /\ worker = [at |-> worker.at, job |-> worker.job, query |-> worker.query,
                   ok |-> worker.ok, failMode |-> worker.failMode, dbs |-> worker.dbs]
      /\ asked \in Seq(Kind)
  BY Counts DEF QueueInv, Types
<1>4. asked[q] \in Kind
  BY <1>2, <1>3
<1> HIDE DEF q
<1>5. CASE asked[q] = "READ_ACCESS"
  <2>1. worker' = [worker EXCEPT !.at = "reading", !.query = q]
    BY <1>1, <1>5 DEF Taken
  <2>2. worker' = [at |-> "reading", job |-> worker.job, query |-> q, ok |-> worker.ok,
                   failMode |-> worker.failMode, dbs |-> worker.dbs]
    BY <1>3, <2>1
  <2> QED
    BY <1>1, <1>2, <1>3, <1>5, <2>2 DEF q
<1>6. CASE asked[q] = "WRITE_ACCESS"
  <2>1. worker' = [worker EXCEPT !.at = "writing", !.query = q]
    BY <1>1, <1>6 DEF Taken
  <2>2. worker' = [at |-> "writing", job |-> worker.job, query |-> q, ok |-> worker.ok,
                   failMode |-> worker.failMode, dbs |-> worker.dbs]
    BY <1>3, <2>1
  <2> QED
    BY <1>1, <1>2, <1>3, <1>6, <2>2 DEF q
<1>7. CASE asked[q] \notin {"READ_ACCESS", "WRITE_ACCESS"}
  <2>1. worker' = [worker EXCEPT !.at = "checking", !.job = @ + 1,
                                 !.dbs = @ \union {asked[q]}]
    BY <1>1, <1>7 DEF Taken
  <2>2. worker' = [at |-> "checking", job |-> worker.job + 1, query |-> None, ok |-> worker.ok,
                   failMode |-> worker.failMode, dbs |-> worker.dbs \union {asked[q]}]
    BY <1>1, <1>3, <2>1
  <2>3. worker.dbs \union {asked[q]} \in SUBSET Kind
    BY <1>3, <1>4
  <2> QED
    BY <1>1, <1>2, <1>3, <1>7, <2>2, <2>3 DEF q, None
<1> QED
  BY <1>5, <1>6, <1>7

LEMMA QueueTake ==
    ASSUME RoomInRing, QueueInv, WorkerTake
    PROVE  QueueInv'
<1> DEFINE n == Len(asked)
           w == worker.job
<1>1. /\ w \in Nat /\ n \in Nat /\ Gone \in Nat /\ backup.job \in Nat
      /\ numWorker \in Nat /\ Backlog \in Nat /\ Ring \in Nat \ {0} /\ MaxQueries \in Nat
      /\ DOMAIN asked = 1 .. n
  BY Counts DEF QueueInv
<1>2. Types /\ RingHolds /\ Places /\ Tokens /\ AtQuery
  BY DEF QueueInv
<1>3. /\ worker.at = "waiting" /\ worker.query = None
      /\ NextForWorker = w + 1 /\ w + 1 <= n /\ w + 1 \in Query
      /\ worker'.at \in {"checking", "reading", "writing"}
      /\ \/ worker'.at = "checking" /\ worker'.query = None /\ worker'.job = w + 1
         \/ worker'.at # "checking" /\ worker'.query = w + 1 /\ worker'.job = w
      /\ worker'.at = "reading" => asked[w + 1] = "READ_ACCESS"
      /\ worker'.at = "writing" => asked[w + 1] = "WRITE_ACCESS"
  BY WorkerTaken
<1>4. worker' \in [at : {"checking", "reading", "writing"}, job : Nat, query : Nat,
                   ok : BOOLEAN, failMode : BOOLEAN, dbs : SUBSET Kind]
  BY WorkerTaken
<1>5. /\ UNCHANGED <<asked, numBackup, main, backup>>
      /\ ring' = [ring EXCEPT ![Slot(w)] = None]
      /\ numWorker > 0 /\ numWorker' = numWorker - 1
      /\ result' = IF worker'.query = None
                   THEN [result EXCEPT ![w + 1] = "success"] ELSE result
  BY <1>3 DEF WorkerTake
<1>6. Gone = w /\ Gone' = w + 1
  BY <1>1, <1>3 DEF Gone, None
<1>7. w < backup.job
  <2>1. CASE backup.at = "exited"
    BY <1>1, <1>2, <1>3, <2>1 DEF AtQuery
  <2>2. CASE backup.at # "exited"
    <3>1. numWorker + 0 + Gone = backup.job + 0
      BY <1>2, <1>3, <2>2 DEF Tokens
    <3> QED
      BY <1>1, <1>5, <1>6, <3>1
  <2> QED
    BY <2>1, <2>2
<1>8. Types'
  <2>1. ring' \in [0 .. Ring - 1 -> Nat]
    BY <1>2, <1>5 DEF Types, None
  <2>2. result' \in [Query -> {"none", "success", "failed"}]
    BY <1>2, <1>5 DEF Types
  <2> QED
    BY <1>1, <1>2, <1>4, <1>5, <2>1, <2>2, SMTT(60) DEF Types
<1>9. RingHolds'
  <2>1. ASSUME NEW j \in w + 1 .. n - 1
        PROVE  ring'[Slot(j)] = j + 1
    <3>1. j \in Nat /\ w < j /\ j - w < Ring /\ j \in Gone .. n - 1
      BY <1>1, <1>2, <1>6, SMTT(60) DEF Places, RoomInRing
    <3>2. Slot(w) # Slot(j) /\ Slot(j) \in 0 .. Ring - 1
      BY <1>1, <3>1, SlotsDiffer, SlotInRing
    <3>3. ring[Slot(j)] = j + 1
      BY <1>2, <3>1 DEF RingHolds
    <3> QED
      BY <1>2, <1>5, <3>2, <3>3 DEF Types
  <2>2. ASSUME NEW x \in 0 .. Ring - 1, ring'[x] # None
        PROVE  \E j \in w + 1 .. n - 1 : x = Slot(j)
    <3>1. x # Slot(w) /\ ring[x] # None
      BY <1>2, <1>5, <2>2 DEF Types
    <3>2. PICK j \in w .. n - 1 : x = Slot(j)
      BY <1>2, <1>6, <3>1 DEF RingHolds
    <3>3. j # w
      BY <3>1, <3>2
    <3> QED
      BY <1>1, <3>2, <3>3
  <2> QED
    BY <1>5, <1>6, <2>1, <2>2 DEF RingHolds, Slot
<1>10. Places'
  BY <1>1, <1>2, <1>3, <1>5, <1>6, <1>7, SMTT(60) DEF Places
<1>11. Tokens'
  <2>1. worker'.at # "exited" /\ worker.at # "exited"
    BY <1>3
  <2>2. numWorker + Gone = backup.job + (IF backup.at = "exited" THEN 1 ELSE 0)
    BY <1>1, <1>2, <2>1 DEF Tokens
  <2>3. numWorker' + 0 + Gone' = numWorker + Gone
    BY <1>1, <1>5, <1>6
  <2> QED
    BY <1>2, <1>5, <2>1, <2>2, <2>3 DEF Tokens
<1>12. \A q \in Query : result'[q] # "none" => q <= worker'.job
  <2> SUFFICES ASSUME NEW q \in Query, result'[q] # "none" PROVE q <= worker'.job
    OBVIOUS
  <2>1. CASE worker'.query = None /\ q = w + 1
    BY <1>1, <1>3, <2>1 DEF None
  <2>2. CASE worker'.query # None \/ q # w + 1
    <3>1. result[q] # "none"
      BY <1>2, <1>5, <2>2 DEF Types
    <3>2. q <= w
      BY <1>2, <3>1 DEF AtQuery
    <3>3. q \in Nat
      BY <1>1 DEF Query
    <3> QED
      BY <1>1, <1>3, <3>2, <3>3
  <2> QED
    BY <2>1, <2>2
<1>13. AtQuery'
  <2>1. worker'.query # None <=> worker'.at \in {"reading", "writing", "moving"}
    BY <1>1, <1>3 DEF None
  <2> QED
    BY <1>1, <1>2, <1>3, <1>5, <1>12, <2>1 DEF AtQuery
<1> QED
  BY <1>8, <1>9, <1>10, <1>11, <1>13 DEF QueueInv

\* A read or the end of a write finishes the query.
LEMMA Finishes ==
    ASSUME QueueInv, WorkerRead \/ WorkerMove
    PROVE  /\ worker.query # None
           /\ UNCHANGED <<asked, ring, numBackup, numWorker, main, backup>>
           /\ \E ok \in BOOLEAN, failMode \in BOOLEAN : Finish(ok, failMode)
<1>1. worker.query # None
  BY DEF QueueInv, AtQuery, WorkerRead, WorkerMove
<1>2. UNCHANGED <<asked, ring, numBackup, numWorker, main, backup>>
  BY DEF WorkerRead, WorkerMove
<1>3. worker.ok \in BOOLEAN /\ worker.failMode \in BOOLEAN
  BY DEF QueueInv, Types
<1>4. CASE WorkerRead
  <2>1. Finish(TRUE, FALSE) \/ Finish(FALSE, TRUE)
    BY <1>4 DEF WorkerRead
  <2> QED
    BY <1>1, <1>2, <2>1
<1>5. CASE WorkerMove
  <2>1. \/ Finish(TRUE, worker.failMode)
        \/ Finish(FALSE, worker.failMode)
        \/ Finish(worker.ok, worker.failMode)
    BY <1>5 DEF WorkerMove, DeleteCopy, MoveCopy
  <2> QED
    BY <1>1, <1>2, <1>3, <2>1
<1> QED
  BY <1>4, <1>5

LEMMA QueueStep ==
    ASSUME RoomInRing, QueueInv, [Next]_vars
    PROVE  QueueInv'
<1>1. CASE UNCHANGED vars
  BY <1>1, SMTT(60) DEF vars, QueueInv, Types, RingHolds, Places, Tokens, AtQuery, Gone, Slot
<1>2. CASE WorkerRead \/ WorkerMove
  BY <1>2, Finishes, QueueFinish
<1>3. CASE Next /\ ~(WorkerRead \/ WorkerMove)
  BY <1>3, QueueExecute, QueueMain, QueueBackup, QueueHold, QueueTake
     DEF Next, Main, Worker
<1> QED
  BY <1>1, <1>2, <1>3

-----------------------------------------------------------------------------
(* The records. *)

\* A write asked for after a backup database was added is copied, or failed to be,
\* before the worker can have it.
CopyInv == /\ backup.at = "writing" => asked[backup.job + 1] = "WRITE_ACCESS"
           /\ \A b \in 1 .. backup.job : asked[b] = "ADD_BACKUP" => backup.db
           /\ HasBackup => \E b \in 1 .. worker.job : asked[b] = "ADD_BACKUP"
           /\ \A q \in 1 .. backup.job, b \in 1 .. backup.job :
                 /\ b < q /\ worker.job < q
                 /\ asked[b] = "ADD_BACKUP" /\ asked[q] = "WRITE_ACCESS"
                 => q \in copied \union unsaved

\* What the worker believes of the remote database is so.
RemoteInv == worker.ok => worker.at = "moving" /\ worker.query \in remote

IInv == QueueInv /\ CopyInv /\ RemoteInv /\ SuccessIsStored

LEMMA RecordsInit == Init => IInv
<1> SUFFICES ASSUME Init PROVE IInv
  OBVIOUS
<1>1. QueueInv
  BY QueueInit
<1>2. Len(asked) = 0
  BY DEF Init
<1> QED
  BY <1>1, <1>2 DEF Init, IInv, CopyInv, RemoteInv, SuccessIsStored, HasBackup

LEMMA RecordsMain ==
    ASSUME RoomInRing, IInv, Main
    PROVE  IInv'
<1>1. QueueInv'
  BY QueueStep DEF IInv, Next
<1>2. /\ worker.job \in Nat /\ Len(asked) \in Nat /\ backup.job \in Nat
      /\ DOMAIN asked = 1 .. Len(asked) /\ worker.job <= Gone /\ Gone \in Nat
      /\ MaxQueries \in Nat
  BY Counts DEF IInv, QueueInv
<1>3. UNCHANGED <<backup, worker, result, tables>>
  BY DEF Main, Execute, OnShutdown, ShutdownDone, Close
<1>4. CASE asked' = asked
  BY <1>1, <1>3, <1>4 DEF IInv, CopyInv, RemoteInv, SuccessIsStored, HasBackup, tables
<1>5. CASE \E kind \in Kind : Execute(kind)
  <2>1. PICK kind \in Kind : asked' = Append(asked, kind) /\ Len(asked) < MaxQueries
    BY <1>5 DEF Execute
  <2>2. asked \in Seq(Kind)
    BY DEF IInv, QueueInv, Types
  <2>3. /\ Len(asked') = Len(asked) + 1
        /\ \A i \in 1 .. Len(asked) : asked'[i] = asked[i]
    BY <2>1, <2>2
  <2>4. /\ worker.job <= backup.job /\ backup.job <= Len(asked)
        /\ backup.at = "writing" => backup.job + 1 \in 1 .. Len(asked)
    BY <1>2 DEF IInv, QueueInv, Places, AtQuery
  <2>5. CopyInv'
    BY <1>2, <1>3, <2>3, <2>4, SMTT(60) DEF IInv, CopyInv, HasBackup, tables
  <2>6. \A q \in Query : result[q] # "none" => q \in 1 .. Len(asked)
    BY <1>2, <2>4 DEF IInv, QueueInv, AtQuery, Query
  <2>7. \A q \in 1 .. Len(asked') : q \in Query
    BY <1>2, <2>1, <2>3 DEF Query
  <2>8. SuccessIsStored'
    BY <1>3, <2>3, <2>6, <2>7 DEF IInv, SuccessIsStored, tables
  <2>9. RemoteInv'
    BY <1>3 DEF IInv, RemoteInv, tables
  <2> QED
    BY <1>1, <2>5, <2>8, <2>9 DEF IInv
<1> QED
  BY <1>4, <1>5 DEF Main, OnShutdown, ShutdownDone, Close

LEMMA RecordsBackup ==
    ASSUME RoomInRing, IInv, Backup
    PROVE  IInv'
<1>1. QueueInv'
  BY QueueStep DEF IInv, Next
<1>2. /\ worker.job \in Nat /\ Len(asked) \in Nat /\ backup.job \in Nat
      /\ DOMAIN asked = 1 .. Len(asked) /\ worker.job <= Gone /\ Gone \in Nat
  BY Counts DEF IInv, QueueInv
<1>3. /\ UNCHANGED <<asked, worker, result, remote, moved>>
      /\ copied \subseteq copied' /\ unsaved \subseteq unsaved'
  BY DEF Backup, BackupExit, BackupTake, BackupWrite, tables
<1>4. RemoteInv' /\ SuccessIsStored'
  BY <1>3 DEF IInv, RemoteInv, SuccessIsStored
<1>5. backup = [at |-> backup.at, job |-> backup.job, query |-> backup.query, db |-> backup.db]
      /\ backup.db \in BOOLEAN
  BY DEF IInv, QueueInv, Types
<1>6. CASE BackupExit
  <2>1. backup' = [at |-> "exited", job |-> backup.job, query |-> backup.query,
                   db |-> backup.db]
    BY <1>5, <1>6 DEF BackupExit
  <2> QED
    BY <1>1, <1>3, <1>4, <2>1 DEF IInv, CopyInv, HasBackup
<1>7. CASE BackupTake
  <2>1. NextForBackup = backup.job + 1
    BY <1>7, BackupNext DEF BackupTake, IInv
  <2>2. CASE asked[backup.job + 1] = "WRITE_ACCESS" /\ backup.db
    <3>1. backup' = [backup EXCEPT !.at = "writing", !.query = backup.job + 1]
      BY <1>7, <2>1, <2>2 DEF BackupTake
    <3>2. backup' = [at |-> "writing", job |-> backup.job, query |-> backup.job + 1,
                     db |-> backup.db]
      BY <1>5, <3>1
    <3> QED
      BY <1>1, <1>3, <1>4, <2>2, <3>2 DEF IInv, CopyInv, HasBackup
  <2>3. CASE ~(asked[backup.job + 1] = "WRITE_ACCESS" /\ backup.db)
    <3> DEFINE d == backup.db \/ asked[backup.job + 1] = "ADD_BACKUP"
    <3>1. backup' = [backup EXCEPT !.job = backup.job + 1, !.db = d]
      BY <1>7, <2>1, <2>3 DEF BackupTake
    <3>2. d <=> backup.db \/ asked[backup.job + 1] = "ADD_BACKUP"
      OBVIOUS
    <3> HIDE DEF d
    <3>3. backup' = [at |-> backup.at, job |-> backup.job + 1, query |-> backup.query,
                     db |-> d]
      BY <1>5, <3>1
    <3>4. backup'.at = "waiting" /\ backup'.job = backup.job + 1 /\ backup'.db = d
      BY <1>7, <3>3 DEF BackupTake
    <3>5. ASSUME NEW b \in 1 .. backup.job + 1, asked[b] = "ADD_BACKUP"
          PROVE  d
      BY <1>2, <3>2, <3>5 DEF IInv, CopyInv
    <3>6. ASSUME NEW q \in 1 .. backup.job + 1, NEW b \in 1 .. backup.job + 1,
                 b < q, worker.job < q, asked[b] = "ADD_BACKUP", asked[q] = "WRITE_ACCESS"
          PROVE  q \in copied \union unsaved
      <4>1. CASE q \in 1 .. backup.job
        BY <1>2, <3>6, <4>1 DEF IInv, CopyInv
      <4>2. CASE q = backup.job + 1
        <5>1. b \in 1 .. backup.job
          BY <1>2, <3>6, <4>2
        <5>2. backup.db
          BY <3>6, <5>1 DEF IInv, CopyInv
        <5> QED
          BY <2>3, <3>6, <4>2, <5>2
      <4> QED
        BY <1>2, <4>1, <4>2
    <3> QED
      BY <1>1, <1>3, <1>4, <3>4, <3>5, <3>6 DEF IInv, CopyInv, HasBackup
  <2> QED
    BY <2>2, <2>3
<1>8. CASE BackupWrite
  <2>1. /\ backup.at = "writing" /\ backup.query = backup.job + 1
        /\ asked[backup.job + 1] = "WRITE_ACCESS"
    BY <1>8 DEF BackupWrite, IInv, QueueInv, AtQuery, CopyInv
  <2>2. backup'.at = "waiting" /\ backup'.job = backup.job + 1 /\ backup'.db = backup.db
    <3>1. backup' = [at |-> "waiting", job |-> backup.job + 1, query |-> None,
                     db |-> backup.db]
      BY <1>5, <1>8 DEF BackupWrite
    <3> QED
      BY <3>1
  <2>3. backup.job + 1 \in copied' \union unsaved'
    BY <1>8, <2>1 DEF BackupWrite
  <2>4. \A b \in 1 .. backup.job + 1 : asked[b] = "ADD_BACKUP" => b \in 1 .. backup.job
    BY <1>2, <2>1
  <2>5. \A q \in 1 .. backup.job + 1 : q \in 1 .. backup.job \/ q = backup.job + 1
    BY <1>2
  <2> QED
    BY <1>1, <1>3, <1>4, <2>2, <2>3, <2>4, <2>5 DEF IInv, CopyInv, HasBackup
<1> QED
  BY <1>6, <1>7, <1>8 DEF Backup

\* The steps of the worker that do not finish a query.
LEMMA RecordsHold ==
    ASSUME RoomInRing, IInv, WorkerCheck \/ WorkerExit \/ WorkerWrite
    PROVE  IInv'
<1>1. QueueInv'
  BY QueueStep DEF IInv, Next, Worker
<1>2. worker = [at |-> worker.at, job |-> worker.job, query |-> worker.query, ok |-> worker.ok,
                failMode |-> worker.failMode, dbs |-> worker.dbs]
      /\ worker.ok \in BOOLEAN
  BY DEF IInv, QueueInv, Types
<1>3. /\ UNCHANGED <<asked, backup, result, copied, moved, unsaved>>
      /\ remote \subseteq remote'
  BY DEF WorkerCheck, WorkerExit, WorkerWrite, tables
<1>4. worker'.job = worker.job /\ worker'.dbs = worker.dbs
  BY <1>2 DEF WorkerCheck, WorkerExit, WorkerWrite
<1>5. CopyInv'
  BY <1>3, <1>4 DEF IInv, CopyInv, HasBackup
<1>6. SuccessIsStored'
  BY <1>3 DEF IInv, SuccessIsStored
<1>7. RemoteInv'
  <2>1. CASE WorkerCheck \/ WorkerExit
    <3>1. ~worker.ok
      BY <2>1 DEF IInv, RemoteInv, WorkerCheck, WorkerExit
    <3>2. worker'.ok = worker.ok
      BY <1>2, <2>1 DEF WorkerCheck, WorkerExit
    <3> QED
      BY <3>1, <3>2 DEF RemoteInv
  <2>2. CASE WorkerWrite
    <3>1. worker.at = "writing" /\ ~worker.ok
      BY <2>2 DEF WorkerWrite, IInv, RemoteInv
    <3>2. worker'.at = "moving" /\ worker'.query = worker.query
      BY <1>2, <2>2 DEF WorkerWrite
    <3>3. worker'.ok => worker.query \in remote'
      BY <1>2, <2>2, <3>1 DEF WorkerWrite
    <3> QED
      BY <3>2, <3>3 DEF RemoteInv
  <2> QED
    BY <2>1, <2>2
<1> QED
  BY <1>1, <1>5, <1>6, <1>7 DEF IInv

LEMMA RecordsTake ==
    ASSUME RoomInRing, IInv, WorkerTake
    PROVE  IInv'
<1>1. QueueInv'
  BY QueueStep DEF IInv, Next, Worker
<1>2. /\ worker.job \in Nat /\ Len(asked) \in Nat /\ backup.job \in Nat
      /\ DOMAIN asked = 1 .. Len(asked) /\ MaxQueries \in Nat
  BY Counts DEF IInv, QueueInv
<1>3. /\ NextForWorker = worker.job + 1
      /\ \/ /\ worker'.at = "checking" /\ worker'.query = None
            /\ worker'.job = worker.job + 1
            /\ worker'.dbs = worker.dbs \union {asked[worker.job + 1]}
            /\ asked[worker.job + 1] # "WRITE_ACCESS"
         \/ /\ worker'.at # "checking" /\ worker'.query = worker.job + 1
            /\ worker'.job = worker.job /\ worker'.dbs = worker.dbs
  BY WorkerTaken DEF IInv
<1>4. /\ UNCHANGED <<asked, backup, tables>>
      /\ result' = IF worker'.query = None
                   THEN [result EXCEPT ![worker.job + 1] = "success"] ELSE result
  BY <1>3 DEF WorkerTake
<1>5. ~worker'.ok
  <2>1. ~worker.ok /\ worker' = Taken(NextForWorker)
    BY DEF WorkerTake, IInv, RemoteInv
  <2>2. worker'.ok = worker.ok
    <3>1. worker = [at |-> worker.at, job |-> worker.job, query |-> worker.query,
                    ok |-> worker.ok, failMode |-> worker.failMode, dbs |-> worker.dbs]
      BY DEF IInv, QueueInv, Types
    <3>2. asked[NextForWorker] = "READ_ACCESS" \/ asked[NextForWorker] = "WRITE_ACCESS"
             \/ asked[NextForWorker] \notin {"READ_ACCESS", "WRITE_ACCESS"}
      OBVIOUS
    <3> QED
      BY <2>1, <3>1, <3>2 DEF Taken
  <2> QED
    BY <2>1, <2>2
<1>6. RemoteInv'
  BY <1>5 DEF RemoteInv
<1>7. CopyInv'
  <2>1. HasBackup' => \E b \in 1 .. worker'.job : asked[b] = "ADD_BACKUP"
    <3>1. CASE asked[worker.job + 1] = "ADD_BACKUP" /\ worker'.job = worker.job + 1
      BY <1>2, <3>1
    <3>2. CASE ~(asked[worker.job + 1] = "ADD_BACKUP" /\ worker'.job = worker.job + 1)
      <4>1. HasBackup' => HasBackup
        BY <1>3, <3>2 DEF HasBackup
      <4>2. worker.job <= worker'.job /\ worker'.job \in Nat
        BY <1>2, <1>3
      <4> QED
        BY <1>2, <4>1, <4>2 DEF IInv, CopyInv
    <3> QED
      BY <3>1, <3>2
  <2>2. \A q \in Nat : worker'.job < q => worker.job < q
    BY <1>2, <1>3
  <2>3. \A q \in 1 .. backup.job : q \in Nat
    OBVIOUS
  <2> QED
    BY <1>4, <2>1, <2>2, <2>3 DEF IInv, CopyInv, tables
<1>8. SuccessIsStored'
  <2> SUFFICES ASSUME NEW q \in 1 .. Len(asked), asked[q] = "WRITE_ACCESS",
                      result'[q] = "success"
               PROVE  result[q] = "success"
    BY <1>4 DEF IInv, SuccessIsStored, tables
  <2>1. CASE worker'.query # None
    BY <1>4, <2>1
  <2>2. CASE worker'.query = None
    <3>1. q # worker.job + 1
      BY <1>2, <1>3, <2>2 DEF None
    <3>2. result \in [Query -> {"none", "success", "failed"}] /\ q \in Query
      BY <1>2 DEF IInv, QueueInv, Types, Places, Query
    <3> QED
      BY <1>4, <2>2, <3>1, <3>2
  <2> QED
    BY <2>1, <2>2
<1> QED
  BY <1>1, <1>6, <1>7, <1>8 DEF IInv

\* When the worker has finished with a query, it is the others that are left to show.
LEMMA RecordsFinish ==
    ASSUME IInv, QueueInv', worker.query # None,
           NEW ok \in BOOLEAN, NEW failMode \in BOOLEAN, Finish(ok, failMode),
           UNCHANGED <<asked, ring, numBackup, numWorker, main, backup, remote, unsaved>>,
           moved \subseteq moved', copied \ {worker.query} \subseteq copied',
           asked[worker.query] = "WRITE_ACCESS" /\ ok
              => worker.query \in remote \union moved' \union unsaved
    PROVE  IInv'
<1>1. /\ worker.job \in Nat /\ Len(asked) \in Nat /\ backup.job \in Nat
      /\ DOMAIN asked = 1 .. Len(asked) /\ MaxQueries \in Nat
  BY Counts DEF IInv, QueueInv
<1>2. /\ worker'.job = worker.job + 1 /\ worker'.query = None
      /\ worker'.at = "checking" /\ worker'.dbs = worker.dbs
  BY QueueFinish DEF IInv
<1>3. worker.query = worker.job + 1 /\ worker.query \in Query
  BY InHand DEF IInv
<1>4. result' = [result EXCEPT ![worker.query] = IF ok THEN "success" ELSE "failed"]
  BY DEF Finish
<1>5. RemoteInv'
  <2>1. worker = [at |-> worker.at, job |-> worker.job, query |-> worker.query,
                  ok |-> worker.ok, failMode |-> worker.failMode, dbs |-> worker.dbs]
    BY DEF IInv, QueueInv, Types
  <2>2. worker' = [at |-> "checking", job |-> worker.job + 1, query |-> None, ok |-> FALSE,
                   failMode |-> failMode, dbs |-> worker.dbs]
    BY <2>1 DEF Finish
  <2> QED
    BY <2>2 DEF RemoteInv
<1>6. CopyInv'
  <2>1. HasBackup' => \E b \in 1 .. worker'.job : asked[b] = "ADD_BACKUP"
    BY <1>1, <1>2 DEF IInv, CopyInv, HasBackup
  <2>2. ASSUME NEW q \in 1 .. backup.job, NEW b \in 1 .. backup.job,
               b < q, worker'.job < q, asked[b] = "ADD_BACKUP", asked[q] = "WRITE_ACCESS"
        PROVE  q \in copied' \union unsaved
    <3>1. worker.job < q /\ q # worker.query
      BY <1>1, <1>2, <1>3, <2>2
    <3>2. q \in copied \union unsaved
      BY <2>2, <3>1 DEF IInv, CopyInv
    <3> QED
      BY <3>1, <3>2
  <2> QED
    BY <2>1, <2>2 DEF IInv, CopyInv
<1>7. SuccessIsStored'
  <2> SUFFICES ASSUME NEW q \in 1 .. Len(asked), asked[q] = "WRITE_ACCESS",
                      result'[q] = "success"
               PROVE  q \in remote \union moved' \union unsaved
    BY DEF SuccessIsStored
  <2>1. result \in [Query -> {"none", "success", "failed"}] /\ q \in Query
    BY <1>1 DEF IInv, QueueInv, Types, Places, Query
  <2>2. CASE q = worker.query
    BY <1>4, <2>1, <2>2
  <2>3. CASE q # worker.query
    BY <1>4, <2>1, <2>3 DEF IInv, SuccessIsStored
  <2> QED
    BY <2>2, <2>3
<1> QED
  BY <1>5, <1>6, <1>7 DEF IInv

\* A record that the backup thread has seen after the backup database was added.
LEMMA RecordCopied ==
    ASSUME IInv, worker.at = "moving", HasBackup
    PROVE  worker.query \in copied \union unsaved
<1>1. worker.query # None /\ asked[worker.query] = "WRITE_ACCESS"
  BY DEF IInv, QueueInv, AtQuery
<1>2. /\ worker.query = worker.job + 1 /\ worker.query <= backup.job
  BY <1>1, InHand DEF IInv
<1>3. worker.job \in Nat /\ backup.job \in Nat
  BY Counts DEF IInv, QueueInv
<1>4. PICK b \in 1 .. worker.job : asked[b] = "ADD_BACKUP"
  BY DEF IInv, CopyInv
<1>5. /\ worker.query \in 1 .. backup.job /\ b \in 1 .. backup.job
      /\ b < worker.query /\ worker.job < worker.query
  BY <1>2, <1>3
<1> QED
  BY <1>1, <1>4, <1>5 DEF IInv, CopyInv

LEMMA RecordsRead ==
    ASSUME RoomInRing, IInv, WorkerRead
    PROVE  IInv'
<1>1. QueueInv'
  BY QueueStep DEF IInv, Next, Worker
<1>2. PICK ok \in BOOLEAN, failMode \in BOOLEAN : Finish(ok, failMode)
  BY Finishes DEF IInv
<1>3. worker.query # None /\ UNCHANGED <<asked, ring, numBackup, numWorker, main, backup>>
  BY Finishes DEF IInv
<1>4. asked[worker.query] # "WRITE_ACCESS"
  BY DEF WorkerRead, IInv, QueueInv, AtQuery
<1>5. UNCHANGED <<remote, copied, moved, unsaved>>
  BY DEF WorkerRead, tables
<1> QED
  BY <1>1, <1>2, <1>3, <1>4, <1>5, RecordsFinish

LEMMA RecordsMove ==
    ASSUME RoomInRing, IInv, WorkerMove
    PROVE  IInv'
<1>1. QueueInv'
  BY QueueStep DEF IInv, Next, Worker
<1>2. worker.query # None /\ UNCHANGED <<asked, ring, numBackup, numWorker, main, backup>>
  BY Finishes DEF IInv
<1>3. UNCHANGED <<remote, unsaved>> /\ worker.at = "moving"
  BY DEF WorkerMove
<1>4. worker.ok => worker.query \in remote
  BY DEF IInv, RemoteInv
<1>5. worker.ok \in BOOLEAN /\ worker.failMode \in BOOLEAN
  BY DEF IInv, QueueInv, Types
<1>6. CASE HasBackup /\ DeleteCopy
  <2>1. /\ Finish(TRUE, worker.failMode) /\ moved' = moved
        /\ copied' = copied \ {worker.query} /\ worker.query \in remote
    BY <1>4, <1>6 DEF DeleteCopy
  <2> QED
    BY <1>1, <1>2, <1>3, <1>5, <2>1, RecordsFinish
<1>7. CASE HasBackup /\ MoveCopy
  <2>1. /\ moved' = moved \union ({worker.query} \intersect copied)
        /\ copied \ {worker.query} \subseteq copied'
        /\ Finish(TRUE, worker.failMode) \/ Finish(FALSE, worker.failMode)
    BY <1>7 DEF MoveCopy
  <2>2. worker.query \in moved' \union unsaved
    BY <1>3, <1>7, <2>1, RecordCopied
  <2> QED
    BY <1>1, <1>2, <1>3, <1>5, <2>1, <2>2, RecordsFinish
<1>8. CASE Finish(worker.ok, worker.failMode) /\ UNCHANGED <<copied, moved>>
  BY <1>1, <1>2, <1>3, <1>4, <1>5, <1>8, RecordsFinish
<1> QED
  BY <1>6, <1>7, <1>8 DEF WorkerMove

LEMMA RecordsStep ==
    ASSUME RoomInRing, IInv, [Next]_vars
    PROVE  IInv'
<1>1. CASE UNCHANGED vars
  <2>1. QueueInv'
    BY QueueStep DEF IInv
  <2> QED
    BY <1>1, <2>1 DEF vars, IInv, CopyInv, RemoteInv, SuccessIsStored, HasBackup
<1>2. CASE Next
  BY <1>2, RecordsMain, RecordsBackup, RecordsHold, RecordsTake, RecordsRead, RecordsMove
     DEF Next, Worker
<1> QED
  BY <1>1, <1>2

-----------------------------------------------------------------------------
(* The theorems. *)

\* A write is reported as a success only when its record is in the remote database
\* or in the proper table of the local one, or could not be copied.
THEOREM SuccessStaysStored ==
    ASSUME RoomInRing
    PROVE  Spec => []SuccessIsStored
<1>1. Init => IInv
  BY RecordsInit
<1>2. IInv /\ [Next]_vars => IInv'
  BY RecordsStep
<1>3. IInv => SuccessIsStored
  BY DEF IInv
<1> QED
  BY <1>1, <1>2, <1>3, PTL DEF Spec

\* A copied record is in one of the tables from then on, wherever the process ends.
THEOREM RecordsAreKept ==
    ASSUME RoomInRing
    PROVE  Spec => Kept
<1> DEFINE K == remote \union copied \union moved
                   \subseteq (remote \union copied \union moved)'
<1>1. Init => IInv
  BY RecordsInit
<1>2. IInv /\ [Next]_vars => IInv'
  BY RecordsStep
<1>3. ASSUME IInv, [Next]_vars
      PROVE  [K]_vars
  <2>1. CASE UNCHANGED tables
    BY <2>1 DEF tables
  <2>2. CASE BackupWrite
    BY <2>2 DEF BackupWrite
  <2>3. CASE WorkerWrite
    BY <2>3 DEF WorkerWrite
  <2>4. CASE WorkerMove
    <3>1. worker.ok => worker.query \in remote
      BY <1>3 DEF IInv, RemoteInv
    <3> QED
      BY <2>4, <3>1 DEF WorkerMove, DeleteCopy, MoveCopy
  <2>5. CASE UNCHANGED vars
    BY <2>5
  <2>6. Next => \/ UNCHANGED tables
                \/ BackupWrite \/ WorkerWrite \/ WorkerMove
    BY DEF Next, Main, Backup, Worker, Execute, OnShutdown, ShutdownDone, Close,
           BackupExit, BackupTake, WorkerCheck, WorkerExit, WorkerTake, WorkerRead
  <2> QED
    BY <1>3, <2>1, <2>2, <2>3, <2>4, <2>5, <2>6
<1> QED
  BY <1>1, <1>2, <1>3, PTL DEF Spec, Kept

\* No copy is made of a record that the worker is already at or has dealt with.
THEOREM BackupComesFirst ==
    ASSUME RoomInRing
    PROVE  Spec => BackupFirst
<1> DEFINE F == \A q \in copied' \ copied : worker.query # q /\ result[q] = "none"
<1>1. Init => IInv
  BY RecordsInit
<1>2. IInv /\ [Next]_vars => IInv'
  BY RecordsStep
<1>3. ASSUME IInv, [Next]_vars
      PROVE  [F]_vars
  <2> SUFFICES ASSUME NEW q \in copied' \ copied
               PROVE  worker.query # q /\ result[q] = "none"
    OBVIOUS
  <2>1. BackupWrite
    BY <1>3 DEF Next, Main, Backup, Worker, Execute, OnShutdown, ShutdownDone, Close,
                BackupExit, BackupTake, WorkerCheck, WorkerExit, WorkerTake, WorkerRead,
                WorkerWrite, WorkerMove, DeleteCopy, MoveCopy, vars, tables
  <2>2. q = backup.query /\ backup.query = backup.job + 1 /\ backup.job < Len(asked)
    BY <1>3, <2>1 DEF BackupWrite, IInv, QueueInv, AtQuery
  <2>3. /\ worker.job \in Nat /\ Len(asked) \in Nat /\ backup.job \in Nat
        /\ MaxQueries \in Nat /\ Gone \in Nat /\ worker.job <= Gone
    BY <1>3, Counts DEF IInv, QueueInv
  <2>4. Gone <= backup.job /\ Len(asked) <= MaxQueries
    BY <1>3 DEF IInv, QueueInv, Places
  <2>5. q \in Query /\ worker.job < q
    BY <2>2, <2>3, <2>4 DEF Query
  <2>6. worker.query # q
    BY <1>3, <2>2, <2>3, <2>4, InHand DEF IInv, None
  <2>7. result[q] = "none"
    <3>1. result[q] # "none" => q <= worker.job
      BY <1>3, <2>5 DEF IInv, QueueInv, AtQuery
    <3> QED
      BY <2>2, <2>3, <2>5, <3>1
  <2> QED
    BY <2>6, <2>7
<1> QED
  BY <1>1, <1>2, <1>3, PTL DEF Spec, BackupFirst
=============================================================================
