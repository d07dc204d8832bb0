------------------------------ MODULE AsyncLog ------------------------------
(***************************************************************************)
(* The asynchronous log (log/log.cpp) on its circular queue                *)
(* (log/block_queue.h).  A thread asks whether the queue is full and then  *)
(* pushes, in two critical sections; the log thread pops and writes.  The  *)
(* text of a line, the files' names and their rotation are left out.       *)
(***************************************************************************)
EXTENDS Integers, Sequences

CONSTANTS LogCapacity, NoLine

ASSUME AsyncLogAssumption == LogCapacity \in Nat \ {0}

VARIABLES
  ring, front, back, size,  \* m_array, m_front, m_back, m_size
  logger,                   \* the log thread: "awake", or "asleep" in m_cond.wait
  accepted                  \* history: the lines pushed and not popped, in order

logVars == <<ring, front, back, size, logger, accepted>>

LogInit ==
  /\ ring = [i \in 0..LogCapacity - 1 |-> NoLine]
  /\ front = -1 /\ back = -1 /\ size = 0
  /\ logger = "awake" /\ accepted = <<>>

\* Mutant: the queue takes one line too many.
FullTooLate == size > LogCapacity
Full == size >= LogCapacity

\* m_cond.broadcast.
Broadcast == logger' = IF logger = "asleep" THEN "awake" ELSE logger

NextSlot(i) == (i + 1) % LogCapacity

\* block_queue::push.  The caller ignores the answer: a line that finds the queue
\* full by now is lost.
PushLine(line) ==
  /\ Broadcast
  /\ IF Full THEN UNCHANGED <<ring, front, back, size, accepted>>
     ELSE /\ back' = NextSlot(back) /\ ring' = [ring EXCEPT ![NextSlot(back)] = line]
          /\ size' = size + 1 /\ accepted' = Append(accepted, line)
          /\ UNCHANGED front

\* block_queue::pop and fputs, or wait.  The slot's old text is never read again.
PopLine ==
  /\ logger = "awake"
  /\ IF size <= 0
     THEN logger' = "asleep" /\ UNCHANGED <<ring, front, back, size, accepted>>
     ELSE /\ front' = NextSlot(front) /\ ring' = [ring EXCEPT ![NextSlot(front)] = NoLine]
          /\ size' = size - 1 /\ accepted' = Tail(accepted)
          /\ UNCHANGED <<back, logger>>

-----------------------------------------------------------------------------
\* The circular array gives the lines back in the order in which they were pushed,
\* and the log thread never sleeps on one.
LinesInOrder ==
  /\ size = Len(accepted)
  /\ \A i \in 1..size : ring[(front + i) % LogCapacity] = accepted[i]
  /\ logger = "asleep" => size = 0
=============================================================================
