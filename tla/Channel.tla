------------------------------- MODULE Channel -------------------------------
(***************************************************************************)
(* What an event stream promises its two ends: chunks are received in the  *)
(* order in which they were accepted, none is accepted after the producer  *)
(* has finished or the consumer has left, and a consumer that leaves takes *)
(* everything with it.                                                     *)
(***************************************************************************)
EXTENDS Sequences

CONSTANT Chunks

VARIABLES queue, finished, canceled

Init == queue = <<>> /\ finished = FALSE /\ canceled = FALSE

Push(chunk) ==
  /\ ~finished /\ ~canceled
  /\ queue' = Append(queue, chunk)
  /\ UNCHANGED <<finished, canceled>>

Pop ==
  /\ queue # <<>>
  /\ queue' = Tail(queue)
  /\ UNCHANGED <<finished, canceled>>

Finish == finished' = TRUE /\ UNCHANGED <<queue, canceled>>

Cancel == canceled' = TRUE /\ queue' = <<>> /\ UNCHANGED finished

Next == (\E chunk \in Chunks : Push(chunk)) \/ Pop \/ Finish \/ Cancel

Spec == Init /\ [][Next]_<<queue, finished, canceled>>
=============================================================================
