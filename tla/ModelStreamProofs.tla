-------------------------- MODULE ModelStreamProofs --------------------------
(***************************************************************************)
(* Streamed questions for every number of questions, slots, queued events  *)
(* and pieces of text: at most MaxStreams threads run and no slot is lost, *)
(* the client sees the text of one call of the model only, and a stream    *)
(* that the server closes ends with its only done event.                   *)
(***************************************************************************)
EXTENDS ModelStream, SequenceTheorems, FiniteSetTheorems, TLAPS

Slots == Threads \cup Refused    \* the questions that active counts

-----------------------------------------------------------------------------
(* Types.                                                                  *)

\* Everything but the counter, whose type follows from what it counts.
Types ==
  /\ at \in [Streams -> Running \cup {"none", "refused", "rejected", "over"}]
  /\ attempt \in [Streams -> 1..2]
  /\ deltas \in [Streams -> 0..MaxDeltas]
  /\ emitted \in [Streams -> BOOLEAN]
  /\ queue \in [Streams -> Seq(Event)]
  /\ ended \in [Streams -> BOOLEAN]
  /\ client \in [Streams -> {"none", "open", "left", "drained"}]
  /\ received \in [Streams -> Seq(Event)]

LEMMA InitTypes == Init => Types
<1> SUFFICES ASSUME Init PROVE Types
  OBVIOUS
<1>1. 0 \in 0..MaxDeltas
  BY ModelStreamAssumption
<1>2. <<>> \in Seq(Event)
  BY EmptySeq
<1> QED
  BY <1>1, <1>2 DEF Init, Types

\* What push adds to the queue is an event.
LEMMA PushedTypes ==
  ASSUME Types, NEW s \in Streams, NEW kind \in {"sources", "delta", "error", "done"},
         Pushed(s, kind)
  PROVE  /\ queue' \in [Streams -> Seq(Event)]
         /\ \A r \in Streams \ {s} : queue'[r] = queue[r]
         /\ Canceled(s) => queue'[s] = queue[s]
         /\ ~Canceled(s) => queue'[s] = Append(queue[s], [kind |-> kind, attempt |-> attempt[s]])
<1>1. [kind |-> kind, attempt |-> attempt[s]] \in Event
  BY DEF Types, Event
<1>2. Append(queue[s], [kind |-> kind, attempt |-> attempt[s]]) \in Seq(Event)
  BY <1>1, AppendProperties DEF Types
<1> QED
  BY <1>2 DEF Types, Pushed

LEMMA ThreadTypes ==
  ASSUME Types, NEW s \in Streams, Thread(s)
  PROVE  Types'
<1> USE DEF Types, Goto
<1>1. CASE Prepare(s)
  BY <1>1 DEF Prepare, streamVars, clientVars, Running
<1>2. CASE PushSources(s)
  <2>1. queue' \in [Streams -> Seq(Event)]
    BY <1>2, PushedTypes DEF PushSources
  <2> QED
    BY <1>2, <2>1 DEF PushSources, clientVars, Running
<1>3. CASE ModelGives(s)
  <2>1. deltas[s] + 1 \in 0..MaxDeltas
    BY <1>3, ModelStreamAssumption DEF ModelGives
  <2>2. deltas' \in [Streams -> 0..MaxDeltas]
    BY <1>3, <2>1 DEF ModelGives
  <2> QED
    BY <1>3, <2>2 DEF ModelGives, streamVars, clientVars, Running
<1>4. CASE PushDelta(s)
  <2>1. queue' \in [Streams -> Seq(Event)]
    BY <1>4, PushedTypes DEF PushDelta
  <2> QED
    BY <1>4, <2>1 DEF PushDelta, clientVars, Running
<1>5. CASE ModelEnds(s)
  BY <1>5 DEF ModelEnds, streamVars, clientVars, Running
<1>6. CASE ModelFails(s)
  BY <1>6 DEF ModelFails, streamVars, clientVars, Running
<1>7. CASE AskAgain(s)
  <2>1. 0 \in 0..MaxDeltas
    BY ModelStreamAssumption
  <2> QED
    BY <1>7, <2>1 DEF AskAgain, streamVars, clientVars, Running
<1>8. ASSUME NEW place \in Running, NEW kind \in {"error", "done"}, NEW next \in Running,
             PushLast(s, place, kind, next)
      PROVE  Types'
  <2>1. queue' \in [Streams -> Seq(Event)]
    BY <1>8, PushedTypes DEF PushLast
  <2> QED
    BY <1>8, <2>1 DEF PushLast, clientVars
<1>9. CASE PushDone(s) \/ PushError(s) \/ PushErrorDone(s)
  BY <1>8, <1>9 DEF PushDone, PushError, PushErrorDone, Running
<1>10. CASE Finish(s)
  BY <1>10 DEF Finish, clientVars, Running
<1>11. CASE Release(s)
  BY <1>11 DEF Release, streamVars, clientVars
<1> QED
  BY <1>1, <1>2, <1>3, <1>4, <1>5, <1>6, <1>7, <1>9, <1>10, <1>11 DEF Thread

LEMMA NextTypes == Types /\ [Next]_vars => Types'
<1> SUFFICES ASSUME Types, [Next]_vars PROVE Types'
  OBVIOUS
<1>1. ASSUME NEW s \in Streams, Ask(s) PROVE Types'
  BY <1>1 DEF Types, Ask, streamVars, Running
<1>2. ASSUME NEW s \in Streams, Refuse(s) PROVE Types'
  BY <1>2 DEF Types, Refuse, streamVars, clientVars
<1>3. ASSUME NEW s \in Streams, Send(s) PROVE Types'
  <2>1. Head(queue[s]) \in Event /\ Tail(queue[s]) \in Seq(Event)
    BY <1>3, HeadTailProperties DEF Send, Types
  <2>2. Append(received[s], Head(queue[s])) \in Seq(Event)
    BY <2>1, AppendProperties DEF Types
  <2> QED
    BY <1>3, <2>1, <2>2 DEF Send, Types, threadVars
<1>4. ASSUME NEW s \in Streams, CloseEnded(s) PROVE Types'
  BY <1>4 DEF Types, CloseEnded, threadVars, streamVars
<1>5. ASSUME NEW s \in Streams, Leave(s) PROVE Types'
  <2>1. <<>> \in Seq(Event)
    BY EmptySeq
  <2> QED
    BY <1>5, <2>1 DEF Types, Leave, threadVars
<1>6. CASE UNCHANGED vars
  BY <1>6 DEF Types, vars, threadVars, streamVars, clientVars
<1> QED
  BY <1>1, <1>2, <1>3, <1>4, <1>5, <1>6, ThreadTypes DEF Next, Connection, AllOver

-----------------------------------------------------------------------------
(* Slots: active counts exactly the threads and the requests that have been*)
(* counted and are about to be refused.                                    *)
Counted ==
  /\ active = Cardinality(Slots)
  /\ Cardinality(Threads) <= MaxStreams

\* Sets of questions are finite and have a size.
LEMMA Sizes ==
  /\ IsFiniteSet(Threads) /\ Cardinality(Threads) \in Nat
  /\ IsFiniteSet(Slots) /\ Cardinality(Slots) \in Nat
  /\ Cardinality(Threads) <= Cardinality(Slots)
<1>1. Threads \subseteq Slots /\ Slots \subseteq Streams
  BY DEF Slots, Threads, Refused
<1>2. IsFiniteSet(Slots) /\ IsFiniteSet(Threads)
  BY <1>1, ModelStreamAssumption, FS_Subset
<1> QED
  BY <1>1, <1>2, FS_Subset, FS_CardinalityType

\* A question that gives its slot back is one less.
LEMMA OneSlotLess ==
  ASSUME Types, Counted, NEW s \in Slots, active' = active - 1,
         Slots' = Slots \ {s}, Threads' = Threads \ {s}
  PROVE  Counted'
<1>1. Cardinality(Slots \ {s}) = Cardinality(Slots) - 1
  BY Sizes, FS_RemoveElement
<1>2. Cardinality(Threads \ {s}) <= Cardinality(Threads) /\ Cardinality(Threads \ {s}) \in Nat
  BY Sizes, FS_Subset, FS_CardinalityType
<1> QED
  BY <1>1, <1>2, Sizes, ModelStreamAssumption DEF Counted

LEMMA AskCounted ==
  ASSUME Types, Counted, NEW s \in Streams, Ask(s)
  PROVE  Counted'
<1>1. s \notin Slots /\ s \notin Threads
  BY DEF Ask, Slots, Threads, Refused, Running
<1>2. Slots' = Slots \cup {s}
  BY DEF Ask, Types, Slots, Threads, Refused, Running
<1>3. active' = Cardinality(Slots')
  BY <1>1, <1>2, Sizes, FS_AddElement DEF Counted, Ask, TakeSlot
<1>4. CASE HasSlot
  <2>1. Threads' = Threads \cup {s}
    BY <1>4 DEF Ask, Types, Threads, Running
  <2>2. Cardinality(Threads') = Cardinality(Threads) + 1
    BY <1>1, <2>1, Sizes, FS_AddElement
  <2> QED
    BY <1>3, <1>4, <2>2, Sizes, ModelStreamAssumption DEF Counted, HasSlot
<1>5. CASE ~HasSlot
  <2>1. Threads' = Threads
    BY <1>5 DEF Ask, Types, Threads, Running
  <2> QED
    BY <1>3, <2>1 DEF Counted
<1> QED
  BY <1>4, <1>5

\* A thread that goes on keeps its slot.
LEMMA ThreadCounted ==
  ASSUME Types, Counted, NEW s \in Streams, Thread(s)
  PROVE  Counted'
<1>1. CASE Release(s)
  <2>1. Slots' = Slots \ {s} /\ Threads' = Threads \ {s} /\ s \in Slots
    BY <1>1 DEF Release, Goto, Types, Slots, Threads, Refused, Running
  <2> QED
    BY <1>1, <2>1, OneSlotLess DEF Release
<1>2. CASE ~Release(s)
  <2>1. /\ at[s] \in Running /\ UNCHANGED active
        /\ \E place \in Running : at' = [at EXCEPT ![s] = place]
    <3>1. CASE PushDone(s) \/ PushError(s) \/ PushErrorDone(s)
      BY <3>1 DEF PushDone, PushError, PushErrorDone, PushLast, Goto, Running
    <3>2. CASE Prepare(s) \/ PushSources(s)
      BY <3>2 DEF Prepare, PushSources, Goto, Running
    <3>3. CASE ModelGives(s) \/ PushDelta(s) \/ ModelEnds(s)
      BY <3>3 DEF ModelGives, PushDelta, ModelEnds, Goto, Running
    <3>4. CASE ModelFails(s) \/ AskAgain(s) \/ Finish(s)
      BY <3>4 DEF ModelFails, AskAgain, Finish, Goto, Running
    <3> QED
      BY <1>2, <3>1, <3>2, <3>3, <3>4 DEF Thread
  <2>2. Threads' = Threads /\ Refused' = Refused
    BY <2>1 DEF Types, Threads, Refused, Running
  <2> QED
    BY <2>1, <2>2 DEF Counted, Slots
<1> QED
  BY <1>1, <1>2

LEMMA NextCounted == Types /\ Counted /\ [Next]_vars => Counted'
<1> SUFFICES ASSUME Types, Counted, [Next]_vars PROVE Counted'
  OBVIOUS
<1>1. ASSUME NEW s \in Streams, Refuse(s) PROVE Counted'
  <2>1. Slots' = Slots \ {s} /\ Threads' = Threads \ {s} /\ s \in Slots
    BY <1>1 DEF Refuse, Types, Slots, Threads, Refused, Running
  <2> QED
    BY <1>1, <2>1, OneSlotLess DEF Refuse
<1>2. CASE UNCHANGED <<active, at>>
  BY <1>2 DEF Counted, Slots, Threads, Refused
<1>3. ASSUME NEW s \in Streams, Connection(s) PROVE UNCHANGED <<active, at>>
  BY <1>3 DEF Connection, Send, CloseEnded, Leave, threadVars
<1> QED
  BY <1>1, <1>2, <1>3, AskCounted, ThreadCounted DEF Next, AllOver, vars, threadVars

\* api_router.cpp:564-569, 578-583: at most MAX_ACTIVE_MODEL_STREAMS threads run at
\* any time, although the counter is changed before it is tested, and the counter is
\* exact: no slot is lost or given back twice.
THEOREM SlotsSafe == Spec => [](Types /\ SlotsBounded)
<1>1. Init => Counted
  <2> SUFFICES ASSUME Init PROVE Counted
    OBVIOUS
  <2>1. Slots = {} /\ Threads = {}
    BY DEF Init, Slots, Threads, Refused, Running
  <2> QED
    BY <2>1, FS_EmptySet, ModelStreamAssumption DEF Counted, Init
<1>2. Types /\ Counted => Types /\ SlotsBounded
  BY DEF Counted, SlotsBounded, Slots
<1> QED
  BY <1>1, <1>2, InitTypes, NextTypes, NextCounted, PTL DEF Spec

\* The type invariant, the counter included: it is never decremented below zero.
THEOREM TypesSafe == Spec => []TypeOK
<1>1. Types /\ SlotsBounded => TypeOK
  BY Sizes DEF Types, SlotsBounded, TypeOK, Slots
<1> QED
  BY <1>1, SlotsSafe, PTL

-----------------------------------------------------------------------------
(* One answer: every piece of text that is queued or sent belongs to the   *)
(* call the thread is in now, which is why the call may be made again only *)
(* as long as there is no such piece.                                      *)

\* The pieces of text in a sequence of events are of the call s is in.
OfThisCall(s, events) ==
  \A i \in 1..Len(events) :
    events[i].kind = "delta" => events[i].attempt = attempt[s] /\ emitted[s]

OneCall ==
  \A s \in Streams :
    /\ OfThisCall(s, queue[s]) /\ OfThisCall(s, received[s])
    /\ at[s] = "delta" => emitted[s]
    /\ at[s] = "pause" => ~emitted[s]

LEMMA InitOneCall == Init => OneCall
  BY DEF Init, OneCall, OfThisCall

\* The other questions are not concerned by a step of a thread.
LEMMA OthersOneCall ==
  ASSUME Types, OneCall, NEW s \in Streams, NEW r \in Streams \ {s},
         at'[r] = at[r], attempt'[r] = attempt[r], emitted'[r] = emitted[r],
         queue'[r] = queue[r], received'[r] = received[r]
  PROVE  /\ OfThisCall(r, queue[r])' /\ OfThisCall(r, received[r])'
         /\ at'[r] = "delta" => emitted'[r]
         /\ at'[r] = "pause" => ~emitted'[r]
  BY DEF OneCall, OfThisCall

\* A push adds text of the current call, or none.
LEMMA PushOneCall ==
  ASSUME Types, OneCall, NEW s \in Streams, NEW kind \in {"sources", "delta", "error", "done"},
         Pushed(s, kind), kind = "delta" => emitted[s],
         NEW place \in Running \ {"delta", "pause"}, Goto(s, place),
         UNCHANGED <<attempt, emitted, received>>
  PROVE  OneCall'
<1>1. at' = [at EXCEPT ![s] = place] /\ at[s] \in Running \cup {"none", "refused", "rejected", "over"}
  BY DEF Goto, Types
<1>2. OfThisCall(s, queue[s])'
  <2>1. CASE Canceled(s)
    BY <2>1, PushedTypes, ZenonT(60) DEF OneCall, OfThisCall
  <2>2. CASE ~Canceled(s)
    <3> DEFINE e == [kind |-> kind, attempt |-> attempt[s]]
    <3>1. queue'[s] = Append(queue[s], e) /\ queue[s] \in Seq(Event)
      BY <2>2, PushedTypes DEF Types
    <3>2. e \in Event /\ e.kind = kind /\ e.attempt = attempt[s]
      BY DEF Types, Event
    <3> HIDE DEF e
    <3>3. /\ Len(queue'[s]) = Len(queue[s]) + 1 /\ Len(queue[s]) \in Nat
          /\ \A i \in 1..Len(queue[s]) : queue'[s][i] = queue[s][i]
          /\ queue'[s][Len(queue[s]) + 1] = e
      BY <3>1, <3>2, AppendProperties, LenProperties
    <3> QED
      BY <3>2, <3>3, SMTT(30) DEF OneCall, OfThisCall
  <2> QED
    BY <2>1, <2>2
<1>3. ASSUME NEW r \in Streams \ {s}
      PROVE  /\ OfThisCall(r, queue[r])' /\ OfThisCall(r, received[r])'
             /\ at'[r] = "delta" => emitted'[r]
             /\ at'[r] = "pause" => ~emitted'[r]
  <2>1. queue'[r] = queue[r]
    BY PushedTypes
  <2>2. at'[r] = at[r]
    BY <1>1 DEF Types
  <2> QED
    BY <2>1, <2>2, OthersOneCall
<1>4. OfThisCall(s, received[s])' /\ at'[s] \notin {"delta", "pause"}
  BY <1>1 DEF OneCall, OfThisCall, Types
<1> QED
  BY <1>2, <1>3, <1>4 DEF OneCall

LEMMA ThreadOneCall ==
  ASSUME Types, OneCall, NEW s \in Streams, Thread(s)
  PROVE  OneCall'
<1>1. CASE Prepare(s) \/ ModelEnds(s) \/ ModelFails(s) \/ Finish(s) \/ Release(s)
  <2>1. UNCHANGED <<queue, received, attempt, emitted>>
    BY <1>1 DEF Prepare, ModelEnds, ModelFails, Finish, Release, streamVars, clientVars
  <2>2. PICK place \in Running \cup {"over"} : at' = [at EXCEPT ![s] = place]
    BY <1>1 DEF Prepare, ModelEnds, ModelFails, Finish, Release, Goto, Running
  <2>3. place # "delta" /\ (place = "pause" => ~emitted[s])
    BY <1>1, <2>2 DEF Prepare, ModelEnds, ModelFails, MayRetry, Finish, Release, Goto, Types
  <2> QED
    BY <2>1, <2>2, <2>3 DEF OneCall, OfThisCall, Types
<1>2. CASE PushSources(s)
  BY <1>2, PushOneCall DEF PushSources, clientVars, Running
<1>3. CASE ModelGives(s)
  <2>1. /\ UNCHANGED <<queue, received, attempt>>
        /\ at' = [at EXCEPT ![s] = "delta"] /\ emitted' = [emitted EXCEPT ![s] = TRUE]
    BY <1>3 DEF ModelGives, Goto, streamVars, clientVars
  <2> QED
    BY <2>1 DEF OneCall, OfThisCall, Types
<1>4. CASE PushDelta(s)
  <2>1. emitted[s]
    BY <1>4 DEF PushDelta, OneCall
  <2> QED
    BY <1>4, <2>1, PushOneCall DEF PushDelta, clientVars, Running
<1>5. CASE AskAgain(s)
  <2>1. ~emitted[s]
    BY <1>5 DEF AskAgain, OneCall
  <2>2. /\ UNCHANGED <<queue, received, emitted>>
        /\ at' = [at EXCEPT ![s] = "ask"] /\ attempt' = [attempt EXCEPT ![s] = 2]
    BY <1>5 DEF AskAgain, Goto, streamVars, clientVars
  <2> QED
    BY <2>1, <2>2 DEF OneCall, OfThisCall, Types
<1>6. ASSUME NEW place, NEW kind \in {"error", "done"},
             NEW next \in Running \ {"delta", "pause"}, PushLast(s, place, kind, next)
      PROVE  OneCall'
  BY <1>6, PushOneCall DEF PushLast, clientVars
<1>7. CASE PushDone(s) \/ PushError(s) \/ PushErrorDone(s)
  BY <1>6, <1>7 DEF PushDone, PushError, PushErrorDone, Running
<1> QED
  BY <1>1, <1>2, <1>3, <1>4, <1>5, <1>7 DEF Thread

\* What is sent was queued; nothing else changes.
LEMMA SendOneCall ==
  ASSUME Types, OneCall, NEW s \in Streams, Send(s)
  PROVE  OneCall'
<1> DEFINE r == received[s]
           q == queue[s]
<1>1. r \in Seq(Event) /\ q \in Seq(Event) /\ q # <<>>
  BY DEF Types, Send
<1>2. received'[s] = Append(r, Head(q)) /\ queue'[s] = Tail(q)
  BY DEF Types, Send
<1>3. /\ Head(q) \in Event /\ Len(Tail(q)) = Len(q) - 1 /\ Len(q) \in Nat
      /\ \A i \in 1..Len(Tail(q)) : Tail(q)[i] = q[i + 1]
  BY <1>1, HeadTailProperties, LenProperties
<1>4. /\ Len(Append(r, Head(q))) = Len(r) + 1 /\ Len(r) \in Nat
      /\ \A i \in 1..Len(r) : Append(r, Head(q))[i] = r[i]
      /\ Append(r, Head(q))[Len(r) + 1] = q[1]
  BY <1>1, <1>3, AppendProperties, LenProperties
<1>5. 1 \in 1..Len(q)
  BY <1>1, EmptySeq, LenProperties
<1> HIDE DEF r, q
<1>6. OfThisCall(s, q) /\ OfThisCall(s, r) /\ UNCHANGED <<at, attempt, emitted>>
  BY DEF OneCall, Send, threadVars, r, q
<1>7. OfThisCall(s, Tail(q))
  BY <1>3, <1>6 DEF OfThisCall
<1>8. OfThisCall(s, Append(r, Head(q)))
  BY <1>4, <1>5, <1>6 DEF OfThisCall
<1>9. OfThisCall(s, queue[s])' /\ OfThisCall(s, received[s])'
  BY <1>2, <1>6, <1>7, <1>8 DEF OfThisCall
<1>10. ASSUME NEW t \in Streams \ {s}
       PROVE  OfThisCall(t, queue[t])' /\ OfThisCall(t, received[t])'
  <2>1. queue'[t] = queue[t] /\ received'[t] = received[t]
    BY DEF Send, Types
  <2> QED
    BY <1>6, <2>1 DEF OneCall, OfThisCall
<1> QED
  BY <1>6, <1>9, <1>10 DEF OneCall

LEMMA NextOneCall == Types /\ OneCall /\ [Next]_vars => OneCall'
<1> SUFFICES ASSUME Types, OneCall, [Next]_vars PROVE OneCall'
  OBVIOUS
<1>1. ASSUME NEW s \in Streams, Ask(s) \/ Refuse(s) PROVE OneCall'
  <2>1. UNCHANGED <<queue, received, attempt, emitted>>
    BY <1>1 DEF Ask, Refuse, streamVars, clientVars
  <2>2. PICK place \in {"prepare", "refused", "rejected"} : at' = [at EXCEPT ![s] = place]
    BY <1>1 DEF Ask, Refuse
  <2> QED
    BY <2>1, <2>2 DEF OneCall, OfThisCall, Types
<1>2. ASSUME NEW s \in Streams, Leave(s) PROVE OneCall'
  <2>1. UNCHANGED <<received, at, attempt, emitted>> /\ queue' = [queue EXCEPT ![s] = <<>>]
    BY <1>2 DEF Leave, threadVars
  <2> QED
    BY <2>1 DEF OneCall, OfThisCall, Types
<1>3. CASE UNCHANGED <<queue, received, at, attempt, emitted>>
  BY <1>3 DEF OneCall, OfThisCall
<1>4. ASSUME NEW s \in Streams, CloseEnded(s) PROVE OneCall'
  BY <1>3, <1>4 DEF CloseEnded, threadVars, streamVars
<1> QED
  BY <1>1, <1>2, <1>3, <1>4, ThreadOneCall, SendOneCall
     DEF Next, Connection, AllOver, vars, threadVars, streamVars, clientVars

\* api_router.cpp:617-630: the client never sees text of two calls of the model,
\* since the second is made only if the first has emitted nothing.
THEOREM OneAnswerSafe == Spec => []OneAnswer
<1>1. Types /\ OneCall => OneAnswer
  <2> SUFFICES ASSUME Types, OneCall, NEW s \in Streams
               PROVE  OfThisCall(s, received[s] \o queue[s])
    BY ZenonT(60) DEF OneAnswer, OfThisCall
  <2> DEFINE r == received[s]
             q == queue[s]
  <2>1. r \in Seq(Event) /\ q \in Seq(Event) /\ OfThisCall(s, r) /\ OfThisCall(s, q)
    BY DEF Types, OneCall
  <2>2. Len(r) \in Nat /\ Len(q) \in Nat
    BY <2>1, LenProperties
  <2>3. /\ Len(r \o q) = Len(r) + Len(q)
        /\ \A i \in 1..Len(r) + Len(q) :
             (r \o q)[i] = IF i <= Len(r) THEN r[i] ELSE q[i - Len(r)]
    BY <2>1, ConcatProperties
  <2> HIDE DEF r, q
  <2>4. OfThisCall(s, r \o q)
    <3> SUFFICES ASSUME NEW i \in 1..Len(r) + Len(q), (r \o q)[i].kind = "delta"
                 PROVE  (r \o q)[i].attempt = attempt[s] /\ emitted[s]
      BY <2>3 DEF OfThisCall
    <3>1. i <= Len(r) => i \in 1..Len(r)
      BY <2>2
    <3>2. ~(i <= Len(r)) => i - Len(r) \in 1..Len(q)
      BY <2>2
    <3> QED
      BY <2>1, <2>3, <3>1, <3>2 DEF OfThisCall
  <2> QED
    BY <2>4 DEF r, q
<1> QED
  BY <1>1, InitTypes, NextTypes, InitOneCall, NextOneCall, PTL DEF Spec

-----------------------------------------------------------------------------
(* The end: done is the last event that is pushed, and it is pushed before *)
(* finish unless the client has left.                                      *)
NoDone(events) == \A i \in 1..Len(events) : events[i].kind # "done"
DoneLast(events) ==
  events # <<>> /\ \A i \in 1..Len(events) : events[i].kind = "done" <=> i = Len(events)

\* What has been accepted by the stream of s.
Accepted(s) == received[s] \o queue[s]

Closing == {"finish", "release", "over"}

EndOf(s) ==
  /\ at[s] \notin Closing => NoDone(Accepted(s))
  /\ at[s] \in Closing /\ ~Canceled(s) => DoneLast(Accepted(s))
  /\ ended[s] => at[s] \in {"release", "over"}
  /\ client[s] = "drained" => ended[s] /\ queue[s] = <<>>

Ending == \A s \in Streams : EndOf(s)

LEMMA InitEnding == Init => Ending
<1> SUFFICES ASSUME Init, NEW s \in Streams PROVE EndOf(s)
  BY DEF Ending
<1>1. Accepted(s) = <<>>
  BY ConcatEmptySeq, EmptySeq DEF Init, Accepted
<1> QED
  BY <1>1 DEF Init, EndOf, NoDone, Closing

\* The other streams are not concerned by a step of one.
LEMMA OneEnding ==
  ASSUME Ending, NEW s \in Streams, EndOf(s)',
         \A r \in Streams \ {s} : /\ at'[r] = at[r] /\ client'[r] = client[r]
                                  /\ ended'[r] = ended[r] /\ queue'[r] = queue[r]
                                  /\ received'[r] = received[r]
  PROVE  Ending'
<1> SUFFICES ASSUME NEW r \in Streams \ {s} PROVE EndOf(r)'
  BY DEF Ending
<1>1. Accepted(r)' = Accepted(r) /\ Canceled(r)' = Canceled(r)
  BY DEF Accepted, Canceled
<1> QED
  BY <1>1 DEF Ending, EndOf

\* An event that is appended is the last one.
LEMMA AppendedEvent ==
  ASSUME NEW events \in Seq(Event), NEW e \in Event, NoDone(events)
  PROVE  /\ e.kind # "done" => NoDone(Append(events, e))
         /\ e.kind = "done" => DoneLast(Append(events, e))
<1>1. /\ Len(Append(events, e)) = Len(events) + 1 /\ Len(events) \in Nat
      /\ Append(events, e) # <<>>
      /\ \A i \in 1..Len(events) : Append(events, e)[i] = events[i]
      /\ Append(events, e)[Len(events) + 1] = e
  BY AppendProperties, LenProperties
<1> QED
  BY <1>1 DEF NoDone, DoneLast

\* Queueing an event accepts it; sending one accepts nothing.
LEMMA AcceptedByPush ==
  ASSUME NEW r \in Seq(Event), NEW q \in Seq(Event), NEW e \in Event
  PROVE  r \o Append(q, e) = Append(r \o q, e)
<1>1. <<e>> \in Seq(Event) /\ r \o q \in Seq(Event)
  BY ConcatProperties
<1>2. r \o Append(q, e) = r \o (q \o <<e>>) /\ Append(r \o q, e) = (r \o q) \o <<e>>
  BY <1>1, AppendIsConcat
<1> QED
  BY <1>1, <1>2, ConcatAssociative

LEMMA AcceptedBySend ==
  ASSUME NEW r \in Seq(Event), NEW q \in Seq(Event), q # <<>>
  PROVE  Append(r, Head(q)) \o Tail(q) = r \o q
<1>1. Head(q) \in Event /\ Tail(q) \in Seq(Event) /\ <<Head(q)>> \in Seq(Event)
  BY HeadTailProperties
<1>2. Append(r, Head(q)) = r \o <<Head(q)>>
  BY <1>1, AppendIsConcat
<1>3. <<Head(q)>> \o Tail(q) = q
  <2> DEFINE h == <<Head(q)>>
             t == Tail(q)
  <2>1. /\ Len(h \o t) = Len(h) + Len(t)
        /\ \A i \in 1..Len(h) + Len(t) : (h \o t)[i] = IF i <= Len(h) THEN h[i] ELSE t[i - Len(h)]
        /\ h \o t \in Seq(Event)
    BY <1>1, ConcatProperties
  <2>2. Len(h) = 1 /\ h[1] = q[1]
    OBVIOUS
  <2>3. /\ Len(t) = Len(q) - 1 /\ Len(q) \in Nat
        /\ \A i \in 1..Len(t) : t[i] = q[i + 1]
    BY HeadTailProperties, LenProperties
  <2> HIDE DEF h, t
  <2>4. \A i \in 1..Len(q) : (h \o t)[i] = q[i]
    BY <2>1, <2>2, <2>3
  <2>5. Len(h \o t) = Len(q)
    BY <2>1, <2>2, <2>3
  <2>6. h \o t = q
    BY <2>1, <2>4, <2>5, SeqEqual
  <2> QED
    BY <2>6 DEF h, t
<1> QED
  BY <1>1, <1>2, <1>3, ConcatAssociative

LEMMA NoDonePrefix ==
  ASSUME NEW r \in Seq(Event), NEW q \in Seq(Event), NoDone(r \o q)
  PROVE  NoDone(r)
<1>1. Len(r) \in Nat /\ Len(q) \in Nat
  BY LenProperties
<1>2. /\ Len(r \o q) = Len(r) + Len(q)
      /\ \A i \in 1..Len(r) + Len(q) : (r \o q)[i] = IF i <= Len(r) THEN r[i] ELSE q[i - Len(r)]
  BY ConcatProperties
<1> QED
  BY <1>1, <1>2 DEF NoDone

LEMMA AcceptedType == ASSUME Types, NEW s \in Streams PROVE Accepted(s) \in Seq(Event)
<1>1. received[s] \in Seq(Event) /\ queue[s] \in Seq(Event)
  BY DEF Types
<1> QED
  BY <1>1, ConcatProperties DEF Accepted

\* A push by a thread that is not closing: the event is accepted, and after done
\* the stream is finished; or the client has left.
LEMMA PushEnding ==
  ASSUME Types, Ending, NEW s \in Streams, NEW kind \in {"sources", "delta", "error", "done"},
         Pushed(s, kind), at[s] \in Running \ Closing,
         NEW place \in Running, Goto(s, place),
         ~Canceled(s) => (kind = "done" <=> place \in Closing), place \notin {"release"},
         UNCHANGED <<ended, client, received>>
  PROVE  Ending'
<1>1. at' = [at EXCEPT ![s] = place] /\ at'[s] = place
  BY DEF Goto, Types
<1>2. EndOf(s) /\ ~ended[s] /\ client[s] # "drained" /\ NoDone(Accepted(s))
  BY DEF Ending, EndOf, Closing
<1>3. CASE Canceled(s)
  <2>1. Accepted(s)' = Accepted(s) /\ Canceled(s)'
    BY <1>3, PushedTypes DEF Accepted, Canceled
  <2> QED
    BY <1>1, <1>2, <2>1, PushedTypes, OneEnding, ZenonT(60) DEF EndOf, Types
<1>4. CASE ~Canceled(s)
  <2> DEFINE e == [kind |-> kind, attempt |-> attempt[s]]
  <2>1. queue'[s] = Append(queue[s], e) /\ queue[s] \in Seq(Event) /\ received[s] \in Seq(Event)
    BY <1>4, PushedTypes DEF Types
  <2>2. e \in Event /\ e.kind = kind
    BY DEF Types, Event
  <2> HIDE DEF e
  <2>3. Accepted(s)' = Append(Accepted(s), e)
    <3>1. received[s] \o Append(queue[s], e) = Append(received[s] \o queue[s], e)
      BY <2>1, <2>2, AcceptedByPush
    <3> QED
      BY <2>1, <3>1 DEF Accepted
  <2>4. /\ kind # "done" => NoDone(Accepted(s)')
        /\ kind = "done" => DoneLast(Accepted(s)')
    BY <1>2, <2>2, <2>3, AcceptedType, AppendedEvent
  <2>5. EndOf(s)'
    BY <1>1, <1>2, <1>4, <2>4 DEF EndOf, NoDone, DoneLast
  <2> QED
    BY <1>1, <2>5, PushedTypes, OneEnding DEF Types
<1> QED
  BY <1>3, <1>4

LEMMA ThreadEnding ==
  ASSUME Types, Ending, NEW s \in Streams, Thread(s)
  PROVE  Ending'
<1>1. CASE Prepare(s) \/ ModelGives(s) \/ ModelEnds(s) \/ ModelFails(s) \/ AskAgain(s)
  <2>1. UNCHANGED <<queue, received, ended, client>>
    BY <1>1 DEF Prepare, ModelGives, ModelEnds, ModelFails, AskAgain, streamVars, clientVars
  <2>2. PICK place \in Running : /\ at' = [at EXCEPT ![s] = place]
                                 /\ place \in Closing => Canceled(s) /\ place = "finish"
    BY <1>1 DEF Prepare, ModelGives, ModelEnds, ModelFails, AskAgain, Goto, Running, Closing
  <2>3. at[s] \in Running \ Closing /\ EndOf(s)
    BY <1>1 DEF Prepare, ModelGives, ModelEnds, ModelFails, AskAgain, Running, Closing, Ending
  <2>4. Accepted(s)' = Accepted(s) /\ Canceled(s)' = Canceled(s)
    BY <2>1 DEF Accepted, Canceled
  <2>5. at'[s] = place /\ \A r \in Streams \ {s} : at'[r] = at[r]
    <3>1. DOMAIN at = Streams
      BY DEF Types
    <3> QED
      BY <2>2, <3>1
  <2>6. ~ended[s] /\ client[s] # "drained" /\ NoDone(Accepted(s))
    BY <2>3 DEF EndOf, Closing
  <2>7. NoDone(Accepted(s))'
    BY <2>4, <2>6 DEF NoDone
  <2>8. EndOf(s)'
    <3>1. at'[s] \in Closing => Canceled(s)'
      BY <2>2, <2>4, <2>5
    <3>2. ~ended'[s] /\ client'[s] # "drained"
      BY <2>1, <2>6
    <3> QED
      BY <2>7, <3>1, <3>2 DEF EndOf
  <2> QED
    BY <2>1, <2>5, <2>8, OneEnding
<1>2. CASE PushSources(s)
  <2>1. PICK place \in {"finish", "ask"} : Goto(s, place) /\ (place = "finish" => Canceled(s))
    BY <1>2 DEF PushSources
  <2>2. place \in Running /\ place # "release" /\ (place \in Closing => place = "finish")
    BY <2>1 DEF Running, Closing
  <2> QED
    BY <1>2, <2>1, <2>2, PushEnding DEF PushSources, clientVars, Running, Closing
<1>3. CASE PushDelta(s)
  <2>1. PICK place \in {"done", "ask"} : Goto(s, place)
    BY <1>3 DEF PushDelta
  <2>2. place \in Running /\ place # "release" /\ place \notin Closing
    BY <2>1 DEF Running, Closing
  <2> QED
    BY <1>3, <2>1, <2>2, PushEnding DEF PushDelta, clientVars, Running, Closing
<1>4. CASE PushDone(s) \/ PushError(s) \/ PushErrorDone(s)
  <2>1. CASE PushDone(s)
    BY <2>1, PushEnding DEF PushDone, PushLast, clientVars, Running, Closing
  <2>2. CASE PushError(s)
    BY <2>2, PushEnding DEF PushError, PushLast, clientVars, Running, Closing
  <2>3. CASE PushErrorDone(s)
    BY <2>3, PushEnding DEF PushErrorDone, PushLast, clientVars, Running, Closing
  <2> QED
    BY <1>4, <2>1, <2>2, <2>3
<1>5. CASE Finish(s) \/ Release(s)
  <2>1. /\ UNCHANGED <<queue, received, client>>
        /\ \E place \in {"release", "over"} : at' = [at EXCEPT ![s] = place]
        /\ ended' \in {ended, [ended EXCEPT ![s] = TRUE]}
        /\ at[s] \in {"finish", "release"}
    BY <1>5 DEF Finish, Release, Goto, streamVars, clientVars
  <2>2. Accepted(s)' = Accepted(s) /\ Canceled(s)' = Canceled(s)
    BY <2>1 DEF Accepted, Canceled
  <2>3. at'[s] \in {"release", "over"} /\ (ended[s] => ended'[s])
    BY <2>1 DEF Types
  <2>4. EndOf(s)'
    BY <2>1, <2>2, <2>3 DEF EndOf, Ending, Closing
  <2> QED
    BY <2>1, <2>4, OneEnding DEF Types
<1> QED
  BY <1>1, <1>2, <1>3, <1>4, <1>5 DEF Thread

LEMMA ConnectionEnding ==
  ASSUME Types, Ending, NEW s \in Streams, Connection(s)
  PROVE  Ending'
<1>0. EndOf(s) /\ received[s] \in Seq(Event) /\ queue[s] \in Seq(Event)
  BY DEF Ending, Types
<1>1. CASE Send(s)
  <2>1. received'[s] = Append(received[s], Head(queue[s])) /\ queue'[s] = Tail(queue[s])
    BY <1>1 DEF Send, Types
  <2>2. Accepted(s)' = Accepted(s)
    <3>1. Append(received[s], Head(queue[s])) \o Tail(queue[s]) = received[s] \o queue[s]
      BY <1>0, <1>1, AcceptedBySend DEF Send
    <3> QED
      BY <2>1, <3>1 DEF Accepted
  <2>3. Canceled(s)' = Canceled(s) /\ UNCHANGED <<at, client, ended>> /\ client[s] = "open"
    BY <1>1 DEF Send, threadVars, Canceled
  <2>4. EndOf(s)'
    BY <1>0, <2>2, <2>3 DEF EndOf
  <2> QED
    BY <1>1, <2>3, <2>4, OneEnding DEF Send, Types
<1>2. CASE CloseEnded(s)
  <2>1. /\ UNCHANGED <<at, ended, queue, received>> /\ client' = [client EXCEPT ![s] = "drained"]
        /\ client[s] = "open"
    BY <1>2 DEF CloseEnded, threadVars, streamVars
  <2>2. Accepted(s)' = Accepted(s) /\ ~Canceled(s)
    BY <2>1 DEF Accepted, Canceled
  <2>3. EndOf(s)'
    BY <1>0, <1>2, <2>1, <2>2 DEF CloseEnded, FinishedAndEmpty, EndOf, Types
  <2> QED
    BY <2>1, <2>3, OneEnding DEF Types
<1>3. CASE Leave(s)
  <2>1. /\ UNCHANGED <<at, ended, received>> /\ client' = [client EXCEPT ![s] = "left"]
        /\ queue' = [queue EXCEPT ![s] = <<>>]
    BY <1>3 DEF Leave, threadVars
  <2>2. Accepted(s)' = received[s]
    <3>1. received[s] \o <<>> = received[s]
      BY <1>0, ConcatEmptySeq
    <3> QED
      BY <2>1, <3>1 DEF Accepted, Types
  <2>3. NoDone(Accepted(s)) => NoDone(received[s])
    BY <1>0, NoDonePrefix DEF Accepted
  <2>4. EndOf(s)'
    BY <1>0, <2>1, <2>2, <2>3 DEF EndOf, Canceled, NoDone, Types
  <2> QED
    BY <2>1, <2>4, OneEnding DEF Types
<1> QED
  BY <1>1, <1>2, <1>3 DEF Connection

LEMMA NextEnding == Types /\ Ending /\ [Next]_vars => Ending'
<1> SUFFICES ASSUME Types, Ending, [Next]_vars PROVE Ending'
  OBVIOUS
<1>1. ASSUME NEW s \in Streams, Ask(s) \/ Refuse(s) PROVE Ending'
  <2>1. /\ UNCHANGED <<queue, received, ended>>
        /\ client' \in {client, [client EXCEPT ![s] = "open"]}
        /\ at[s] \in {"none", "refused"}
        /\ \E place \in {"prepare", "refused", "rejected"} : at' = [at EXCEPT ![s] = place]
    BY <1>1 DEF Ask, Refuse, streamVars, clientVars
  <2>2. at'[s] \notin Closing /\ Accepted(s)' = Accepted(s) /\ client'[s] \in {client[s], "open"}
    BY <2>1 DEF Types, Closing, Accepted
  <2>3. EndOf(s) /\ ~ended[s] /\ NoDone(Accepted(s))
    BY <2>1 DEF Ending, EndOf, Closing
  <2>4. EndOf(s)'
    BY <2>1, <2>2, <2>3 DEF EndOf, NoDone
  <2> QED
    BY <2>1, <2>4, OneEnding DEF Types
<1>2. CASE UNCHANGED vars
  BY <1>2 DEF Ending, EndOf, Accepted, NoDone, DoneLast, Canceled, vars, threadVars, streamVars,
              clientVars
<1> QED
  BY <1>1, <1>2, ThreadEnding, ConnectionEnding DEF Next, AllOver

\* api_router.cpp:632-663, http_conn.cpp:1784-1790, 2325-2341: a connection that the
\* server closes at the end of a stream has sent its client exactly one done event,
\* the last one.
THEOREM EndSafe == Spec => []EndsWithDone
<1>1. Types /\ Ending => EndsWithDone
  <2> SUFFICES ASSUME Types, Ending, NEW s \in Streams, client[s] = "drained"
               PROVE  DoneLast(received[s])
    BY DEF EndsWithDone, DoneLast
  <2>1. EndOf(s) /\ queue[s] = <<>> /\ at[s] \in Closing /\ ~Canceled(s)
    BY DEF Ending, EndOf, Closing, Canceled
  <2>2. Accepted(s) = received[s]
    BY <2>1, ConcatEmptySeq DEF Accepted, Types
  <2> QED
    BY <2>1, <2>2 DEF EndOf
<1> QED
  BY <1>1, InitTypes, NextTypes, InitEnding, NextEnding, PTL DEF Spec
=============================================================================
