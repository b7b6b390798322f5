------------------------- MODULE DbConnectionPool -------------------------
(***************************************************************************)
(* How the server runs its queries in the background.  The main thread     *)
(* puts them into a ring.  The backup thread looks at each first and       *)
(* copies what is written into a backup table of a local database; the     *)
(* worker thread then runs it on the remote database and deletes the copy, *)
(* or, where that fails, moves the copy into the proper table of the local *)
(* database.  On shutdown everything in the ring is still worked off.      *)
(*                                                                         *)
(* A query is a number, in the order of asking.  A write is one record, as *)
(* with CScoreWorker::SaveScore.  Any access to a database may fail, and   *)
(* the remote one may do what it is asked and fail to say so.  The process *)
(* may end in any state: what the tables hold there is what is left.       *)
(***************************************************************************)
EXTENDS Integers, Sequences, FiniteSets, SequencesExt

CONSTANTS
    Ring,       \* size of m_aQueries, 512
    Backlog,    \* bound: queries that the worker has not taken yet
    MaxQueries  \* bound: queries in all

ASSUME RingAssumption == {Ring, Backlog, MaxQueries} \subseteq Nat \ {0}

VARIABLES
    asked,      \* the kinds of the queries so far
    ring,       \* m_aQueries
    numBackup,  \* m_NumBackup
    numWorker,  \* m_NumWorker
    shutdown,   \* m_Shutdown
    main,       \* where the main thread is
    backup,     \* the backup thread: where it is, JobNum, pThreadData, m_pWriteBackup
    worker,     \* the worker thread: where it is, JobNum, pThreadData, Success,
                \* FailMode and the databases it knows
    result,     \* m_Completed and m_Success of each query, also those without a result
    remote,     \* records in the remote database
    copied,     \* records in the backup table
    moved,      \* records in the proper table of the local database
    unsaved     \* history: the writes that the backup thread failed to copy

vars == <<asked, ring, numBackup, numWorker, shutdown, main, backup, worker,
          result, remote, copied, moved, unsaved>>

tables == <<remote, copied, moved, unsaved>>

Kind == {"READ_ACCESS", "WRITE_ACCESS", "ADD_READ", "ADD_WRITE", "ADD_BACKUP"}
Query == 1 .. MaxQueries
None == 0
Slot(job) == job % Ring

Init == /\ asked = <<>>
        /\ ring = [i \in 0 .. Ring - 1 |-> None]
        /\ numBackup = 0
        /\ numWorker = 0
        /\ shutdown = FALSE
        /\ main = "running"
        /\ backup = [at |-> "waiting", job |-> 0, query |-> None, db |-> FALSE]
        /\ worker = [at |-> "checking", job |-> 0, query |-> None, ok |-> FALSE,
                     failMode |-> FALSE, dbs |-> {}]
        /\ result = [q \in Query |-> "none"]
        /\ remote = {}
        /\ copied = {}
        /\ moved = {}
        /\ unsaved = {}

-----------------------------------------------------------------------------
(* The main thread. *)

\* Register..., Execute and ExecuteWrite.  Nothing but Backlog keeps a query from
\* replacing one that is still in the ring.
Execute(kind) ==
    /\ main = "running"
    /\ Len(asked) < MaxQueries
    /\ Len(asked) - worker.job < Backlog
    /\ asked' = Append(asked, kind)
    /\ ring' = [ring EXCEPT ![Slot(Len(asked))] = Len(asked) + 1]
    /\ numBackup' = numBackup + 1
    /\ UNCHANGED <<numWorker, shutdown, main, backup, worker, result, tables>>

\* The backup thread is not woken up.
FaultyOnShutdown ==
    /\ main = "running"
    /\ main' = "waiting"
    /\ shutdown' = TRUE
    /\ UNCHANGED <<asked, ring, numBackup, numWorker, backup, worker, result, tables>>

OnShutdown ==
    /\ main = "running"
    /\ main' = "waiting"
    /\ shutdown' = TRUE
    /\ numBackup' = numBackup + 1
    /\ UNCHANGED <<asked, ring, numWorker, backup, worker, result, tables>>

\* The main thread sees m_Shutdown cleared.
ShutdownDone ==
    /\ main = "waiting"
    /\ ~shutdown
    /\ main' = "closing"
    /\ UNCHANGED <<asked, ring, numBackup, numWorker, shutdown, backup, worker, result,
                   tables>>

\* The destructor has waited for both threads.
Close ==
    /\ main = "closing"
    /\ worker.at = "exited"
    /\ backup.at = "exited"
    /\ main' = "closed"
    /\ UNCHANGED <<asked, ring, numBackup, numWorker, shutdown, backup, worker, result,
                   tables>>

-----------------------------------------------------------------------------
(* The backup thread. *)

NextForBackup == ring[Slot(backup.job)]

\* The slot behind the last query is empty, which ends the thread on shutdown.
BackupExit ==
    /\ backup.at = "waiting"
    /\ numBackup > 0
    /\ NextForBackup = None
    /\ numBackup' = numBackup - 1
    /\ numWorker' = numWorker + 1
    /\ backup' = [backup EXCEPT !.at = "exited"]
    /\ UNCHANGED <<asked, ring, shutdown, main, worker, result, tables>>

\* The worker gets a query before it is copied.
FaultyBackupTake ==
    /\ backup.at = "waiting"
    /\ numBackup > 0
    /\ NextForBackup # None
    /\ numBackup' = numBackup - 1
    /\ IF asked[NextForBackup] = "WRITE_ACCESS" /\ backup.db
       THEN backup' = [backup EXCEPT !.at = "writing", !.query = NextForBackup]
       ELSE backup' = [backup EXCEPT !.job = @ + 1,
                                     !.db = @ \/ asked[NextForBackup] = "ADD_BACKUP"]
    /\ numWorker' = numWorker + 1
    /\ UNCHANGED <<asked, ring, shutdown, main, worker, result, tables>>

BackupTake ==
    /\ backup.at = "waiting"
    /\ numBackup > 0
    /\ NextForBackup # None
    /\ numBackup' = numBackup - 1
    /\ IF asked[NextForBackup] = "WRITE_ACCESS" /\ backup.db
       THEN /\ backup' = [backup EXCEPT !.at = "writing", !.query = NextForBackup]
            /\ UNCHANGED numWorker
       ELSE /\ backup' = [backup EXCEPT !.job = @ + 1,
                                        !.db = @ \/ asked[NextForBackup] = "ADD_BACKUP"]
            /\ numWorker' = numWorker + 1
    /\ UNCHANGED <<asked, ring, shutdown, main, worker, result, tables>>

\* BACKUP_FIRST
BackupWrite ==
    /\ backup.at = "writing"
    /\ \/ copied' = copied \union {backup.query} /\ UNCHANGED unsaved
       \/ unsaved' = unsaved \union {backup.query} /\ UNCHANGED copied
    /\ backup' = [backup EXCEPT !.at = "waiting", !.job = @ + 1, !.query = None]
    /\ numWorker' = numWorker + 1
    /\ UNCHANGED <<asked, ring, numBackup, shutdown, main, worker, result, remote, moved>>

-----------------------------------------------------------------------------
(* The worker thread. *)

NextForWorker == ring[Slot(worker.job)]

\* The fail mode ends when there is nothing left to do.
WorkerCheck ==
    /\ worker.at = "checking"
    /\ worker' = [worker EXCEPT !.at = "waiting", !.failMode = @ /\ numWorker > 0]
    /\ UNCHANGED <<asked, ring, numBackup, numWorker, shutdown, main, backup, result,
                   tables>>

WorkerExit ==
    /\ worker.at = "waiting"
    /\ numWorker > 0
    /\ NextForWorker = None
    /\ numWorker' = numWorker - 1
    /\ shutdown' = FALSE
    /\ worker' = [worker EXCEPT !.at = "exited"]
    /\ UNCHANGED <<asked, ring, numBackup, main, backup, result, tables>>

\* Where the worker goes with a query, and the databases it knows then.
Taken(q) ==
    CASE asked[q] = "READ_ACCESS" -> [worker EXCEPT !.at = "reading", !.query = q]
      [] asked[q] = "WRITE_ACCESS" -> [worker EXCEPT !.at = "writing", !.query = q]
      [] OTHER -> [worker EXCEPT !.at = "checking", !.job = @ + 1, !.dbs = @ \union {asked[q]}]

\* A database is added at once; accesses follow in steps of their own.
WorkerTake ==
    /\ worker.at = "waiting"
    /\ numWorker > 0
    /\ NextForWorker # None
    /\ ring' = [ring EXCEPT ![Slot(worker.job)] = None]
    /\ numWorker' = numWorker - 1
    /\ worker' = Taken(NextForWorker)
    /\ result' = IF worker'.query = None
                 THEN [result EXCEPT ![NextForWorker] = "success"]
                 ELSE result
    /\ UNCHANGED <<asked, numBackup, shutdown, main, backup, tables>>

\* The worker is done with its query; a failed one starts the fail mode.
Finish(ok, failMode) ==
    /\ result' = [result EXCEPT ![worker.query] = IF ok THEN "success" ELSE "failed"]
    /\ worker' = [worker EXCEPT !.at = "checking", !.job = @ + 1, !.query = None,
                                !.ok = FALSE, !.failMode = failMode]

\* Reads are dismissed during shutdown and in fail mode.
WorkerRead ==
    /\ worker.at = "reading"
    /\ \/ /\ "ADD_READ" \in worker.dbs
          /\ ~shutdown
          /\ ~worker.failMode
          /\ Finish(TRUE, FALSE)
       \/ Finish(FALSE, TRUE)
    /\ UNCHANGED <<asked, ring, numBackup, numWorker, shutdown, main, backup, tables>>

HasBackup == "ADD_BACKUP" \in worker.dbs

\* Whether the write is left to the local database.
IsSkipped == HasBackup /\ (shutdown \/ worker.failMode)

\* NORMAL.  A failure may also be that of the answer.
WorkerWrite ==
    /\ worker.at = "writing"
    /\ \/ /\ ~IsSkipped
          /\ "ADD_WRITE" \in worker.dbs
          /\ remote' = remote \union {worker.query}
          /\ \E ok \in BOOLEAN :
                worker' = [worker EXCEPT !.at = "moving", !.ok = ok,
                                         !.failMode = @ \/ ~ok]
       \/ /\ worker' = [worker EXCEPT !.at = "moving", !.failMode = TRUE]
          /\ UNCHANGED remote
    /\ UNCHANGED <<asked, ring, numBackup, numWorker, shutdown, main, backup, result,
                   copied, moved, unsaved>>

\* The copy is deleted whatever became of the record.
FaultyDeleteCopy ==
    /\ copied' = copied \ {worker.query}
    /\ Finish(worker.ok, worker.failMode)
    /\ UNCHANGED moved

\* NORMAL_SUCCEEDED
DeleteCopy ==
    /\ worker.ok
    /\ copied' = copied \ {worker.query}
    /\ Finish(TRUE, worker.failMode)
    /\ UNCHANGED moved

\* NORMAL_FAILED: two statements, of which the second may fail.  It is a success
\* also when there was no copy to move.
MoveCopy ==
    /\ ~worker.ok
    /\ moved' = moved \union ({worker.query} \intersect copied)
    /\ \/ /\ copied' = copied \ {worker.query}
          /\ Finish(TRUE, worker.failMode)
       \/ /\ UNCHANGED copied
          /\ Finish(FALSE, worker.failMode)

\* A success although the local database failed.
FaultyWorkerMove ==
    /\ worker.at = "moving"
    /\ \/ HasBackup /\ (DeleteCopy \/ MoveCopy)
       \/ Finish(worker.ok \/ HasBackup, worker.failMode) /\ UNCHANGED <<copied, moved>>
    /\ UNCHANGED <<asked, ring, numBackup, numWorker, shutdown, main, backup, remote,
                   unsaved>>

WorkerMove ==
    /\ worker.at = "moving"
    /\ \/ HasBackup /\ (DeleteCopy \/ MoveCopy)
       \/ Finish(worker.ok, worker.failMode) /\ UNCHANGED <<copied, moved>>
    /\ UNCHANGED <<asked, ring, numBackup, numWorker, shutdown, main, backup, remote,
                   unsaved>>

-----------------------------------------------------------------------------
Main == (\E kind \in Kind : Execute(kind)) \/ OnShutdown \/ ShutdownDone \/ Close
Backup == BackupExit \/ BackupTake \/ BackupWrite
Worker == WorkerCheck \/ WorkerExit \/ WorkerTake \/ WorkerRead \/ WorkerWrite \/ WorkerMove

Next == Main \/ Backup \/ Worker

Spec == Init /\ [][Next]_vars

\* Both threads run, every access to a database returns, and a main thread that
\* shuts down goes on once it can.
FairSpec == Spec /\ WF_vars(Backup) /\ WF_vars(Worker)
                 /\ WF_vars(ShutdownDone) /\ WF_vars(Close)

-----------------------------------------------------------------------------
(* Properties. *)

(***************************************************************************)
(* What this is for: a record that has been copied is never in none of the *)
(* tables again, whatever fails and wherever the process ends.             *)
(***************************************************************************)
Kept == [][remote \union copied \union moved
              \subseteq (remote \union copied \union moved)']_vars

(***************************************************************************)
(* A write that is reported as a success is in the remote database or in   *)
(* the proper table of the local one, unless it could not even be copied.  *)
(***************************************************************************)
SuccessIsStored ==
    \A q \in 1 .. Len(asked) :
       asked[q] = "WRITE_ACCESS" /\ result[q] = "success" => q \in remote \union moved \union unsaved

(***************************************************************************)
(* A query is looked at by the backup thread before the worker has it: no  *)
(* copy is made of a record that the worker is already at, which nothing   *)
(* would delete any more.                                                  *)
(***************************************************************************)
BackupFirst ==
    [][\A q \in copied' \ copied : worker.query # q /\ result[q] = "none"]_vars

(***************************************************************************)
(* A shutdown ends, both threads with it, and everything that was asked    *)
(* has been answered by then.                                              *)
(***************************************************************************)
ShutdownCompletes ==
    main = "waiting" ~> /\ main = "closed"
                        /\ \A q \in 1 .. Len(asked) : result[q] # "none"
=============================================================================
