------------------------------ MODULE SseStream ------------------------------
(***************************************************************************)
(* api/sse_stream.cpp: the queue between the thread that asks the model    *)
(* (the producer: push, finish) and the sub reactor (the consumer: try_pop,*)
(* finished_and_empty, cancel).  One mutex guards the queue; canceled_ is  *)
(* an atomic that cancel() sets before it takes the mutex.                 *)
(*                                                                         *)
(* push() is cut where the consumer may come between: at the mutex, and    *)
(* between the test of the wait's predicate and falling asleep.  The other *)
(* operations are one critical section each.  Of a chunk only its size     *)
(* matters.  push("") is left out: an event is never empty.                *)
(***************************************************************************)
EXTENDS Naturals, Sequences

CONSTANTS
  Chunks,          \* bound: the chunks of one stream, each pushed once at most
  Size,            \* their sizes
  MaxQueuedBytes   \* max_queued_bytes_

ASSUME SseStreamAssumption ==
  Size \in [Chunks -> Nat \ {0}] /\ MaxQueuedBytes \in Nat

VARIABLES
  chunks,       \* chunks_
  queuedBytes,  \* queued_bytes_
  finished,     \* finished_
  canceled,     \* canceled_
  mutex,        \* who holds mutex_
  signaled,     \* a notification has reached the waiting producer
  producer,     \* where the producer is
  item,         \* the chunk it is pushing
  used,         \* the chunks it has already tried to push
  consumer      \* where the consumer is

vars == <<chunks, queuedBytes, finished, canceled, mutex, signaled, producer, item, used,
          consumer>>

TypeOK ==
  /\ chunks \in Seq(Chunks) /\ queuedBytes \in Nat
  /\ finished \in BOOLEAN /\ canceled \in BOOLEAN /\ signaled \in BOOLEAN
  /\ mutex \in {"free", "producer"}
  /\ producer \in {"idle", "lock", "test", "sleep", "waiting", "append", "done"}
  /\ item \in Chunks /\ used \subseteq Chunks
  /\ consumer \in {"open", "canceling", "left", "drained"}

Init ==
  /\ chunks = <<>> /\ queuedBytes = 0
  /\ finished = FALSE /\ canceled = FALSE
  /\ mutex = "free" /\ signaled = FALSE
  /\ producer = "idle" /\ item \in Chunks /\ used = {}
  /\ consumer = "open"

-----------------------------------------------------------------------------
(* The producer: push.                                                     *)
StartPush ==
  /\ producer = "idle" /\ ~finished
  /\ \E chunk \in Chunks \ used : item' = chunk /\ used' = used \cup {chunk}
  /\ producer' = "lock"
  /\ UNCHANGED <<chunks, queuedBytes, finished, canceled, mutex, signaled, consumer>>

LockPush ==
  /\ producer = "lock" /\ mutex = "free"
  /\ mutex' = "producer" /\ producer' = "test"
  /\ UNCHANGED <<chunks, queuedBytes, finished, canceled, signaled, item, used, consumer>>

\* A chunk fits; one that never would goes into an empty queue.
Fits(chunk) == chunks = <<>> \/ queuedBytes + Size[chunk] <= MaxQueuedBytes

\* The predicate of the wait.
Test ==
  /\ producer = "test"
  /\ producer' = IF canceled \/ finished \/ Fits(item) THEN "append" ELSE "sleep"
  /\ UNCHANGED <<chunks, queuedBytes, finished, canceled, mutex, signaled, item, used, consumer>>

\* The wait releases the mutex and sleeps in one step.
Sleep ==
  /\ producer = "sleep"
  /\ producer' = "waiting" /\ mutex' = "free" /\ signaled' = FALSE
  /\ UNCHANGED <<chunks, queuedBytes, finished, canceled, item, used, consumer>>

\* A notification, or none: the wait may also return by itself.
Awake ==
  /\ mutex = "free" /\ mutex' = "producer"
  /\ producer' = "test"
  /\ UNCHANGED <<chunks, queuedBytes, finished, canceled, signaled, item, used, consumer>>
WakeUp == producer = "waiting" /\ signaled /\ Awake
SpuriousWakeUp == producer = "waiting" /\ ~signaled /\ Awake

\* Mutant: what was canceled while push waited is pushed all the same.
AcceptsUnfinished == ~finished
Accepts == ~canceled /\ ~finished

\* Mutant: the newest chunk is the next one popped.
AddedInFront == <<item>> \o chunks
Added == Append(chunks, item)

Enqueue ==
  /\ producer = "append"
  /\ IF Accepts
     THEN chunks' = Added /\ queuedBytes' = queuedBytes + Size[item]
     ELSE UNCHANGED <<chunks, queuedBytes>>
  /\ mutex' = "free" /\ producer' = "idle"
  /\ UNCHANGED <<finished, canceled, signaled, item, used, consumer>>

\* finish(), the producer's last call.  Its notification reaches nobody: the only
\* thread that ever waits is the one that calls it.
Finish ==
  /\ producer = "idle" /\ mutex = "free"
  /\ finished' = TRUE /\ producer' = "done"
  /\ UNCHANGED <<chunks, queuedBytes, canceled, mutex, signaled, item, used, consumer>>

-----------------------------------------------------------------------------
(* The consumer.                                                           *)

\* space_available_.notify_one() and notify_all(): at most the producer waits.
\* Mutant: nobody is notified.
NotifyNobody == UNCHANGED signaled
Notify == signaled' = (producer = "waiting" \/ signaled)

\* Mutants: the bytes of the chunk stay counted; those of another are taken off.
StillQueued == queuedBytes
LeftByItem == queuedBytes - Size[item]
LeftQueued == queuedBytes - Size[Head(chunks)]

TryPop ==
  /\ consumer = "open" /\ mutex = "free" /\ chunks # <<>>
  /\ queuedBytes' = LeftQueued
  /\ chunks' = Tail(chunks)
  /\ Notify
  /\ UNCHANGED <<finished, canceled, mutex, producer, item, used, consumer>>

\* finished_and_empty(): the reactor then closes the connection.
\* Mutant: the queue is not looked at.
FinishedOnly == finished
FinishedAndEmpty == finished /\ chunks = <<>>

Drain ==
  /\ consumer = "open" /\ mutex = "free" /\ FinishedAndEmpty
  /\ consumer' = "drained"
  /\ UNCHANGED <<chunks, queuedBytes, finished, canceled, mutex, signaled, producer, item, used>>

\* cancel(): first the flag, which a push may see at once ...
CancelFlag ==
  /\ consumer = "open"
  /\ canceled' = TRUE /\ consumer' = "canceling"
  /\ UNCHANGED <<chunks, queuedBytes, finished, mutex, signaled, producer, item, used>>

\* ... then the mutex, the queue and the producer that waits.
\* Mutant: the queue is cleared and the producer notified without the mutex.
WithoutMutex == TRUE
MutexIsFree == mutex = "free"

CancelClear ==
  /\ consumer = "canceling" /\ MutexIsFree
  /\ chunks' = <<>> /\ queuedBytes' = 0
  /\ Notify
  /\ consumer' = "left"
  /\ UNCHANGED <<finished, canceled, mutex, producer, item, used>>

-----------------------------------------------------------------------------
Pushing == LockPush \/ Test \/ Sleep \/ WakeUp \/ Enqueue
Consuming == TryPop \/ Drain \/ CancelFlag \/ CancelClear

\* Both ends have ended.
Over == producer = "done" /\ consumer \in {"left", "drained"} /\ UNCHANGED vars

Next == StartPush \/ Pushing \/ SpuriousWakeUp \/ Finish \/ Consuming \/ Over

Spec == Init /\ [][Next]_vars

\* A push that has begun goes on.  The reactor keeps taking chunks, or its write
\* timeout closes the connection and cancels.
FairSpec == Spec /\ WF_vars(Pushing) /\ WF_vars(Consuming)

-----------------------------------------------------------------------------
(* Properties.                                                             *)

\* A producer that sleeps has something to wait for and somebody who will tell
\* it: the stream is neither finished nor canceled to the end, and the queue
\* holds chunks that leave no room.
NoLostWakeup ==
  (producer = "waiting" /\ ~signaled) =>
    /\ ~finished /\ consumer \in {"open", "canceling"}
    /\ ~Fits(item)

\* Once cancel() has returned the queue is empty and stays so, although a push
\* may have been on its way.
NothingAfterCancel == consumer = "left" => chunks = <<>> /\ queuedBytes = 0

\* The reactor closes a connection only when the client has been given all of it.
DrainedIsEmpty == consumer = "drained" => chunks = <<>> /\ producer = "done"

\* The bytes of a sequence of chunks.
Sum(s) ==
  LET sum[n \in 0..Len(s)] == IF n = 0 THEN 0 ELSE sum[n - 1] + Size[s[n]]
  IN  sum[Len(s)]

\* The queue's memory is bounded, but for one oversized chunk, and counted right.
Bounded ==
  /\ queuedBytes = Sum(chunks)
  /\ queuedBytes > MaxQueuedBytes => Len(chunks) = 1

\* The queue a client sees: nothing as soon as it has left.
visible == IF canceled THEN <<>> ELSE chunks
Abstract == INSTANCE Channel WITH queue <- visible

\* The implementation of the channel's promises.
ImplementsChannel == Abstract!Spec

\* push returns, also when the client has left or reads too slowly.
PushReturns == producer \notin {"idle", "done"} ~> producer \in {"idle", "done"}
=============================================================================
