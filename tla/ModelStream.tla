----------------------------- MODULE ModelStream -----------------------------
(***************************************************************************)
(* Streamed questions (api/api_router.cpp): a worker takes one of the      *)
(* MAX_ACTIVE_MODEL_STREAMS slots and starts a detached thread, which      *)
(* prepares the answer, asks the model, tries again once, and pushes events*)
(* into the stream; the sub reactor pops them for the client and closes the*)
(* connection when the stream has ended.  The streams are channels here    *)
(* (Channel, which SseStream implements); push waits for room.             *)
(***************************************************************************)
EXTENDS Naturals, Sequences, FiniteSets

CONSTANTS
  Streams,     \* bound: the streamed questions that are ever asked
  MaxStreams,  \* MAX_ACTIVE_MODEL_STREAMS
  Capacity,    \* events that fit a stream's queue
  MaxDeltas    \* bound: pieces of text in one answer of the model

ASSUME ModelStreamAssumption ==
  /\ IsFiniteSet(Streams)
  /\ {MaxStreams, Capacity, MaxDeltas} \subseteq Nat \ {0}

VARIABLES
  active,   \* active_model_streams
  at,       \* where each question's thread is
  attempt,  \* the call of the model it is in
  deltas,   \* the pieces of text that call has given
  emitted,  \* emitted_delta
  queue,    \* the events in the stream
  ended,    \* finish() has been called
  client,   \* the connection the stream belongs to
  received  \* the events the client was sent

threadVars == <<active, at, attempt, deltas, emitted>>
streamVars == <<queue, ended>>
clientVars == <<client, received>>
vars == <<threadVars, streamVars, clientVars>>

Running == {"prepare", "sources", "ask", "delta", "pause", "done", "failed", "failedDone", "finish",
            "release"}
Event == [kind : {"sources", "delta", "error", "done"}, attempt : 1..2]

TypeOK ==
  /\ active \in Nat
  /\ at \in [Streams -> Running \cup {"none", "refused", "rejected", "over"}]
  /\ attempt \in [Streams -> 1..2]
  /\ deltas \in [Streams -> 0..MaxDeltas]
  /\ emitted \in [Streams -> BOOLEAN]
  /\ queue \in [Streams -> Seq(Event)]
  /\ ended \in [Streams -> BOOLEAN]
  /\ client \in [Streams -> {"none", "open", "left", "drained"}]
  /\ received \in [Streams -> Seq(Event)]

Init ==
  /\ active = 0
  /\ at = [s \in Streams |-> "none"]
  /\ attempt = [s \in Streams |-> 1]
  /\ deltas = [s \in Streams |-> 0]
  /\ emitted = [s \in Streams |-> FALSE]
  /\ queue = [s \in Streams |-> <<>>]
  /\ ended = [s \in Streams |-> FALSE]
  /\ client = [s \in Streams |-> "none"]
  /\ received = [s \in Streams |-> <<>>]

\* close_conn cancels the stream.  Mutant: the thread is not told.
NeverCanceled(s) == FALSE
Canceled(s) == client[s] = "left"

-----------------------------------------------------------------------------
(* The worker that has a streamed question: fetch_add, and then a thread or*)
(* fetch_sub and 503.                                                      *)

\* Mutant: one slot too many.
OneTooMany == active <= MaxStreams
HasSlot == active < MaxStreams
TakeSlot == active' = active + 1

\* A thread that cannot be started throws, after fetch_add, through a worker whose
\* loop catches nothing: the process ends, and the behaviour with it.
Ask(s) ==
  /\ at[s] = "none"
  /\ TakeSlot
  /\ IF HasSlot
     THEN at' = [at EXCEPT ![s] = "prepare"] /\ client' = [client EXCEPT ![s] = "open"]
     ELSE at' = [at EXCEPT ![s] = "refused"] /\ UNCHANGED client
  /\ UNCHANGED <<attempt, deltas, emitted, streamVars, received>>

Refuse(s) ==
  /\ at[s] = "refused"
  /\ active' = active - 1
  /\ at' = [at EXCEPT ![s] = "rejected"]
  /\ UNCHANGED <<attempt, deltas, emitted, streamVars, clientVars>>

-----------------------------------------------------------------------------
(* The detached thread.                                                    *)
Goto(s, place) == at' = [at EXCEPT ![s] = place]

\* push returns at once when the client has left, and waits for room otherwise.
CanPush(s) == Len(queue[s]) < Capacity \/ Canceled(s)

Pushed(s, kind) ==
  /\ CanPush(s)
  /\ queue' = IF Canceled(s) THEN queue
              ELSE [queue EXCEPT ![s] = Append(@, [kind |-> kind, attempt |-> attempt[s]])]

\* RagService::prepare, which may throw.
Prepare(s) ==
  /\ at[s] = "prepare"
  /\ \/ Goto(s, IF Canceled(s) THEN "finish" ELSE "sources")
     \/ Goto(s, "failed")
  /\ UNCHANGED <<active, attempt, deltas, emitted, streamVars, clientVars>>

PushSources(s) ==
  /\ at[s] = "sources"
  /\ Pushed(s, "sources")
  /\ Goto(s, IF Canceled(s) THEN "finish" ELSE "ask")
  /\ UNCHANGED <<active, attempt, deltas, emitted, ended, clientVars>>

\* stream_answer: the model gives another piece of text; emitted_delta is set
\* before it is pushed.
ModelGives(s) ==
  /\ at[s] = "ask" /\ ~Canceled(s)
  /\ deltas[s] < MaxDeltas
  /\ deltas' = [deltas EXCEPT ![s] = @ + 1]
  /\ emitted' = [emitted EXCEPT ![s] = TRUE]
  /\ Goto(s, "delta")
  /\ UNCHANGED <<active, attempt, streamVars, clientVars>>

\* A push that is refused makes stream_answer return.
PushDelta(s) ==
  /\ at[s] = "delta"
  /\ Pushed(s, "delta")
  /\ Goto(s, IF Canceled(s) THEN "done" ELSE "ask")
  /\ UNCHANGED <<active, attempt, deltas, emitted, ended, clientVars>>

\* The model's answer ends, or the client has left and the call is given up.
ModelEnds(s) ==
  /\ at[s] = "ask"
  /\ Goto(s, "done")
  /\ UNCHANGED <<active, attempt, deltas, emitted, streamVars, clientVars>>

\* The call fails: it is made once more if nothing of it was emitted.
\* Mutant: whatever was emitted.
RetryAnyway(s) == attempt[s] = 1 /\ ~Canceled(s)
MayRetry(s) == attempt[s] = 1 /\ ~emitted[s] /\ ~Canceled(s)

ModelFails(s) ==
  /\ at[s] = "ask"
  /\ Goto(s, IF MayRetry(s) THEN "pause" ELSE "failed")
  /\ UNCHANGED <<active, attempt, deltas, emitted, streamVars, clientVars>>

AskAgain(s) ==
  /\ at[s] = "pause"
  /\ attempt' = [attempt EXCEPT ![s] = 2] /\ deltas' = [deltas EXCEPT ![s] = 0]
  /\ Goto(s, "ask")
  /\ UNCHANGED <<active, emitted, streamVars, clientVars>>

\* The last events; none when the client has left.
PushLast(s, place, kind, next) ==
  /\ at[s] = place
  /\ Pushed(s, kind)
  /\ Goto(s, next)
  /\ UNCHANGED <<active, attempt, deltas, emitted, ended, clientVars>>

PushDone(s) == PushLast(s, "done", "done", "finish")
PushError(s) == PushLast(s, "failed", "error", "failedDone")
PushErrorDone(s) == PushLast(s, "failedDone", "done", "finish")

Finish(s) ==
  /\ at[s] = "finish"
  /\ ended' = [ended EXCEPT ![s] = TRUE]
  /\ Goto(s, "release")
  /\ UNCHANGED <<active, attempt, deltas, emitted, queue, clientVars>>

\* ~ActiveStreamGuard.
Release(s) ==
  /\ at[s] = "release"
  /\ active' = active - 1
  /\ Goto(s, "over")
  /\ UNCHANGED <<attempt, deltas, emitted, streamVars, clientVars>>

Thread(s) ==
  \/ Prepare(s) \/ PushSources(s)
  \/ ModelGives(s) \/ PushDelta(s) \/ ModelEnds(s) \/ ModelFails(s) \/ AskAgain(s)
  \/ PushDone(s) \/ PushError(s) \/ PushErrorDone(s) \/ Finish(s) \/ Release(s)

-----------------------------------------------------------------------------
(* The sub reactor and the client (http_conn).                             *)
Send(s) ==
  /\ client[s] = "open" /\ queue[s] # <<>>
  /\ received' = [received EXCEPT ![s] = Append(@, Head(queue[s]))]
  /\ queue' = [queue EXCEPT ![s] = Tail(@)]
  /\ UNCHANGED <<threadVars, ended, client>>

\* finished_and_empty(): m_sse_close_ready, the reactor closes the connection.
\* Mutant: events that are still queued are not waited for.
EndedOnly(s) == ended[s]
FinishedAndEmpty(s) == ended[s] /\ queue[s] = <<>>

CloseEnded(s) ==
  /\ client[s] = "open" /\ FinishedAndEmpty(s)
  /\ client' = [client EXCEPT ![s] = "drained"]
  /\ UNCHANGED <<threadVars, streamVars, received>>

\* The client hangs up or is too slow: close_conn cancels the stream.
Leave(s) ==
  /\ client[s] = "open"
  /\ client' = [client EXCEPT ![s] = "left"]
  /\ queue' = [queue EXCEPT ![s] = <<>>]
  /\ UNCHANGED <<threadVars, ended, received>>

Connection(s) == Send(s) \/ CloseEnded(s) \/ Leave(s)

\* Every question has been answered or refused.
AllOver ==
  /\ \A s \in Streams : at[s] \in {"rejected", "over"} /\ client[s] # "open"
  /\ UNCHANGED vars

Next == (\E s \in Streams : Ask(s) \/ Refuse(s) \/ Thread(s) \/ Connection(s)) \/ AllOver

Spec == Init /\ [][Next]_vars

\* A thread goes on, since every call of a model has a timeout; a connection
\* sends what there is, or its write timeout closes it.
FairSpec == Spec /\ \A s \in Streams : WF_vars(Thread(s)) /\ WF_vars(Connection(s))

-----------------------------------------------------------------------------
(* Properties.                                                             *)

Threads == {s \in Streams : at[s] \in Running}
Refused == {s \in Streams : at[s] = "refused"}

\* No more than MAX_ACTIVE_MODEL_STREAMS threads run, although the counter is
\* changed first and tested afterwards; none of its slots is ever lost.
SlotsBounded ==
  /\ Cardinality(Threads) <= MaxStreams
  /\ active = Cardinality(Threads \cup Refused)

\* What the client is sent holds text of one call of the model only: a retry
\* never repeats what was already shown.
OneAnswer ==
  \A s \in Streams :
    LET all == received[s] \o queue[s] IN
    \A i, j \in 1..Len(all) :
      all[i].kind = "delta" /\ all[j].kind = "delta" => all[i].attempt = all[j].attempt

\* A connection that the server closes at the end of a stream has sent the
\* client its last event, done, and that once.
EndsWithDone ==
  \A s \in Streams : client[s] = "drained" =>
    /\ received[s] # <<>>
    /\ \A i \in 1..Len(received[s]) : received[s][i].kind = "done" <=> i = Len(received[s])

\* Every thread ends, also when its client has left or is too slow.
ThreadEnds == \A s \in Streams : at[s] \in Running ~> at[s] = "over"
=============================================================================
