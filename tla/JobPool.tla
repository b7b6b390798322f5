------------------------------ MODULE JobPool ------------------------------
(***************************************************************************)
(* The job pool of the engine, CJobPool of engine/shared/jobs.cpp: a       *)
(* linked list of jobs under a lock, worker threads that take the first    *)
(* one whenever the semaphore was signalled, and a shutdown that waits for *)
(* the threads and not for the list.                                       *)
(*                                                                         *)
(* The semaphore is signalled once for every job that is added and once    *)
(* for every worker at the shutdown, so a worker that waits gets through   *)
(* exactly when there is a job or the pool shuts down.  The workers are    *)
(* alike: the model keeps how many are left and the jobs they run, in the  *)
(* order in which they were taken.                                         *)
(***************************************************************************)
EXTENDS Integers, SequencesExt

CONSTANT NumThreads     \* the argument of CJobPool::Init

ASSUME NumThreadsAssumption == NumThreads \in Nat \ {0}

VARIABLES
  queue,       \* m_pFirstJob .. m_pLastJob
  running,     \* the jobs that workers run
  threads,     \* the workers that have not returned
  shutdown     \* m_Shutdown

poolVars == <<queue, running, threads, shutdown>>

(* The jobs that were added and are not done. *)
Pending == ToSet(queue) \cup ToSet(running)
NumPending == Len(queue) + Len(running)

PoolInit ==
  /\ queue = <<>>
  /\ running = <<>>
  /\ threads = NumThreads
  /\ shutdown = FALSE

(* A worker takes the first job and starts to run it. *)
Fetch ==
  /\ Len(running) < threads
  /\ queue # <<>>
  /\ running' = Append(running, Head(queue))
  /\ queue' = Tail(queue)
  /\ UNCHANGED <<threads, shutdown>>

(* The i-th job is done.  Its worker looks at m_Shutdown, and not at the   *)
(* list, before it waits again.                                            *)
Finish(i) ==
  /\ i \in DOMAIN running
  /\ running' = RemoveAt(running, i)
  /\ threads' = IF shutdown THEN threads - 1 ELSE threads
  /\ UNCHANGED <<queue, shutdown>>

(* The pool is destroyed: no worker starts another round. *)
Destroy ==
  /\ ~shutdown
  /\ shutdown' = TRUE
  /\ UNCHANGED <<queue, running, threads>>

(* A worker that waited at the shutdown finds no job. *)
Return ==
  /\ shutdown
  /\ Len(running) < threads
  /\ queue = <<>>
  /\ threads' = threads - 1
  /\ UNCHANGED <<queue, running, shutdown>>
=============================================================================
