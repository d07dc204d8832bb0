----------------------------- MODULE ThreadPool -----------------------------
(***************************************************************************)
(* The pool of worker threads (threadpool/threadpool.h).  Sub Reactors     *)
(* append jobs; the list is guarded by a mutex, the semaphore queuestat is *)
(* posted after the mutex has been released, and a worker waits for it     *)
(* before it takes the mutex.                                              *)
(***************************************************************************)
EXTENDS Naturals, Sequences, FiniteSets

CONSTANTS
  Workers,
  Reactors,     \* the threads that append
  MaxRequests,  \* m_max_requests
  NoJob

ASSUME ThreadPoolAssumption ==
  IsFiniteSet(Workers) /\ IsFiniteSet(Reactors) /\ MaxRequests \in Nat \ {0}

VARIABLES
  workqueue,  \* m_workqueue
  queuestat,  \* the value of the semaphore
  posting,    \* reactors that have appended and have not posted yet
  thread,     \* what each worker does: it waits, is about to take a job, or has one
  task        \* the job a worker has

poolVars == <<workqueue, queuestat, posting, thread, task>>

PoolInit ==
  /\ workqueue = <<>> /\ queuestat = 0 /\ posting = {}
  /\ thread = [w \in Workers |-> "wait"] /\ task = [w \in Workers |-> NoJob]

\* append_p.  A full list refuses the job, and nothing has changed.
Append_p(r, job) ==
  /\ r \notin posting /\ Len(workqueue) < MaxRequests
  /\ workqueue' = Append(workqueue, job)
  /\ posting' = posting \cup {r}
  /\ UNCHANGED <<queuestat, thread, task>>

\* Mutant: a condition is signalled in its place; when nobody waits it is forgotten.
SignalTask == queuestat' = IF \E w \in Workers : thread[w] = "wait" THEN queuestat + 1 ELSE queuestat
PostTask == queuestat' = queuestat + 1

Post(r) ==
  /\ r \in posting /\ PostTask
  /\ posting' = posting \ {r}
  /\ UNCHANGED <<workqueue, thread, task>>

WaitForTask(w) ==
  /\ thread[w] = "wait" /\ queuestat > 0
  /\ queuestat' = queuestat - 1
  /\ thread' = [thread EXCEPT ![w] = "take"]
  /\ UNCHANGED <<workqueue, posting, task>>

\* A worker that finds the list empty waits again.  (It could be woken for nothing by
\* SIGTERM, which ends the server and is left out.)
TakeTask(w) ==
  /\ thread[w] = "take"
  /\ IF workqueue = <<>>
     THEN thread' = [thread EXCEPT ![w] = "wait"] /\ UNCHANGED <<workqueue, task>>
     ELSE /\ thread' = [thread EXCEPT ![w] = "run"]
          /\ task' = [task EXCEPT ![w] = Head(workqueue)]
          /\ workqueue' = Tail(workqueue)
  /\ UNCHANGED <<queuestat, posting>>

TaskDone(w) ==
  /\ thread' = [thread EXCEPT ![w] = "wait"] /\ task' = [task EXCEPT ![w] = NoJob]
  /\ UNCHANGED <<workqueue, queuestat, posting>>

-----------------------------------------------------------------------------
\* Every job in the list has been announced to a worker, or is being: no worker
\* sleeps on a job, and none is woken for nothing.
JobsAreAnnounced ==
  Len(workqueue) = queuestat + Cardinality(posting)
                   + Cardinality({w \in Workers : thread[w] = "take"})
=============================================================================
