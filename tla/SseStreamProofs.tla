--------------------------- MODULE SseStreamProofs ---------------------------
(***************************************************************************)
(* What SseStream guarantees for every set of chunks, every size and every *)
(* limit: no notification is lost, cancel leaves nothing behind, the       *)
(* connection is closed only after the last chunk, and the stream is a     *)
(* Channel.  The byte counter is not needed for any of it; its own         *)
(* invariant comes last: the counter is a running total of the sizes.      *)
(***************************************************************************)
EXTENDS SseStream, WellFoundedInduction, TLAPS

\* The values the control state takes.
Places ==
  /\ chunks \in Seq(Chunks) /\ item \in Chunks
  /\ finished \in BOOLEAN /\ canceled \in BOOLEAN /\ signaled \in BOOLEAN
  /\ mutex \in {"free", "producer"}
  /\ producer \in {"idle", "lock", "test", "sleep", "waiting", "append", "done"}
  /\ consumer \in {"open", "canceling", "left", "drained"}

\* The flags say where the two ends are, and the mutex who is in push.
Control ==
  /\ mutex = "producer" <=> producer \in {"test", "sleep", "append"}
  /\ canceled <=> consumer \in {"canceling", "left"}
  /\ finished <=> producer = "done"

\* What the test of the wait's predicate has found still holds when the producer
\* falls asleep, as the mutex is held in between.  Only the flag of cancel may
\* have been set: its notification is still to come.
AboutToSleep ==
  producer = "sleep" => consumer \in {"open", "canceling"} /\ ~Fits(item)

\* What finished_and_empty has found cannot be undone by a later push.
StaysDrained == consumer = "drained" => finished /\ chunks = <<>>

Inv == Places /\ Control /\ AboutToSleep /\ StaysDrained /\ NoLostWakeup /\ NothingAfterCancel

-----------------------------------------------------------------------------
\* The stream starts empty, open and unlocked.
LEMMA InitInv == Init => Inv
<1> SUFFICES ASSUME Init PROVE Inv
  OBVIOUS
<1>1. Places
  <2>1. chunks \in Seq(Chunks)
    BY DEF Init
  <2> QED
    BY <2>1 DEF Init, Places
<1>2. Control
  BY DEF Init, Control
<1>3. AboutToSleep /\ StaysDrained /\ NoLostWakeup /\ NothingAfterCancel
  BY DEF Init, AboutToSleep, StaysDrained, NoLostWakeup, NothingAfterCancel
<1> QED
  BY <1>1, <1>2, <1>3 DEF Inv

\* A push that starts touches neither the queue nor the mutex.
LEMMA StartPushInv == Inv /\ StartPush => Inv'
  BY DEF Inv, StartPush, Places, Control, AboutToSleep, StaysDrained, NoLostWakeup,
         NothingAfterCancel, Fits

\* No step of a push breaks the invariant: what it adds it adds to an open stream.
LEMMA PushingInv == Inv /\ (Pushing \/ SpuriousWakeUp) => Inv'
<1> SUFFICES ASSUME Inv, Pushing \/ SpuriousWakeUp PROVE Inv'
  OBVIOUS
<1> USE DEF Inv, Places, Control, AboutToSleep, StaysDrained, NoLostWakeup, NothingAfterCancel,
            Fits
<1>1. CASE LockPush
  BY <1>1 DEF LockPush
<1>2. CASE Test
  BY <1>2 DEF Test
<1>3. CASE Sleep
  BY <1>3 DEF Sleep
<1>4. CASE WakeUp \/ SpuriousWakeUp
  BY <1>4 DEF WakeUp, SpuriousWakeUp, Awake
<1>5. CASE Enqueue
  <2>1. chunks' \in Seq(Chunks)
    BY <1>5 DEF Enqueue, Added
  <2>2. consumer \in {"left", "drained"} => UNCHANGED <<chunks, queuedBytes>>
    BY <1>5 DEF Enqueue, Accepts
  <2> QED
    BY <1>5, <2>1, <2>2 DEF Enqueue
<1> QED
  BY <1>1, <1>2, <1>3, <1>4, <1>5 DEF Pushing

\* finish is the producer's own call, so nobody waits when it comes.
LEMMA FinishInv == Inv /\ Finish => Inv'
  BY DEF Inv, Finish, Places, Control, AboutToSleep, StaysDrained, NoLostWakeup,
         NothingAfterCancel, Fits

\* No step of the consumer breaks the invariant: whatever makes room notifies.
LEMMA ConsumingInv == Inv /\ Consuming => Inv'
<1> SUFFICES ASSUME Inv, Consuming PROVE Inv'
  OBVIOUS
<1> USE DEF Inv, Places, Control, AboutToSleep, StaysDrained, NoLostWakeup, NothingAfterCancel,
            Fits
<1>1. CASE TryPop
  <2>1. chunks' \in Seq(Chunks)
    BY <1>1 DEF TryPop
  <2>2. signaled' \in BOOLEAN /\ (producer = "waiting" => signaled')
    BY <1>1 DEF TryPop, Notify
  <2> QED
    BY <1>1, <2>1, <2>2 DEF TryPop
<1>2. CASE Drain
  BY <1>2 DEF Drain, FinishedAndEmpty
<1>3. CASE CancelFlag
  BY <1>3 DEF CancelFlag
<1>4. CASE CancelClear
  <2>1. signaled' \in BOOLEAN /\ (producer = "waiting" => signaled')
    BY <1>4 DEF CancelClear, Notify
  <2> QED
    BY <1>4, <2>1 DEF CancelClear, MutexIsFree
<1> QED
  BY <1>1, <1>2, <1>3, <1>4 DEF Consuming

\* Every step, and every stutter, keeps the invariant.
LEMMA NextInv == Inv /\ [Next]_vars => Inv'
<1> SUFFICES ASSUME Inv, [Next]_vars PROVE Inv'
  OBVIOUS
<1>1. CASE UNCHANGED vars
  BY <1>1 DEF Inv, vars, Places, Control, AboutToSleep, StaysDrained, NoLostWakeup,
              NothingAfterCancel, Fits
<1> QED
  BY <1>1, StartPushInv, PushingInv, FinishInv, ConsumingInv DEF Next, Over

\* The invariant holds in every state of every behaviour.
THEOREM Invariance == Spec => []Inv
  BY InitInv, NextInv, PTL DEF Spec

-----------------------------------------------------------------------------
\* sse_stream.cpp:13-16, 30, 47: a producer asleep in push always has somebody
\* who will wake it: no notification falls between its test and its wait.
THEOREM NotifiedSafe == Spec => []NoLostWakeup
<1>1. Inv => NoLostWakeup
  BY DEF Inv
<1> QED
  BY <1>1, Invariance, PTL

\* sse_stream.cpp:17, 44-46: when cancel has returned the queue is empty for ever,
\* although a push may have been between its test and its insertion.
THEOREM CancelSafe == Spec => []NothingAfterCancel
<1>1. Inv => NothingAfterCancel
  BY DEF Inv
<1> QED
  BY <1>1, Invariance, PTL

\* sse_stream.cpp:50-54, http_conn.cpp:2325-2341: the connection is closed at the
\* end of a stream only when the producer is done and every chunk was taken.
THEOREM DrainedSafe == Spec => []DrainedIsEmpty
<1>1. Inv => DrainedIsEmpty
  BY DEF Inv, StaysDrained, Control, DrainedIsEmpty
<1> QED
  BY <1>1, Invariance, PTL

-----------------------------------------------------------------------------
\* A step of the stream is one operation of the channel, or none.
LEMMA StepImplements == Inv /\ [Next]_vars => [Abstract!Next]_<<visible, finished, canceled>>
<1> SUFFICES ASSUME Inv, [Next]_vars PROVE [Abstract!Next]_<<visible, finished, canceled>>
  OBVIOUS
<1> USE DEF visible
<1>1. CASE UNCHANGED <<chunks, finished, canceled>>
  BY <1>1
<1>2. CASE Enqueue /\ Accepts
  <2>1. Abstract!Push(item) /\ item \in Chunks
    BY <1>2 DEF Enqueue, Accepts, Added, Abstract!Push, Inv, Places
  <2> QED
    BY <2>1 DEF Abstract!Next
<1>3. CASE Finish
  BY <1>3 DEF Finish, Abstract!Next, Abstract!Finish
<1>4. CASE TryPop
  <2>1. Abstract!Pop
    BY <1>4 DEF TryPop, Abstract!Pop, Inv, Control
  <2> QED
    BY <2>1 DEF Abstract!Next
<1>5. CASE CancelFlag
  <2>1. Abstract!Cancel
    BY <1>5 DEF CancelFlag, Abstract!Cancel
  <2> QED
    BY <2>1 DEF Abstract!Next
<1>6. CASE CancelClear
  BY <1>6 DEF CancelClear, Inv, Control
<1>7. CASE Enqueue /\ ~Accepts
  BY <1>1, <1>7 DEF Enqueue
<1> QED
  BY <1>1, <1>2, <1>3, <1>4, <1>5, <1>6, <1>7
     DEF Next, vars, StartPush, Pushing, LockPush, Test, Sleep, WakeUp, SpuriousWakeUp, Awake,
         Consuming, Drain, Over

\* The whole class keeps the promises of the abstract channel: chunks arrive in
\* order, and nothing is sent once the consumer has canceled.
THEOREM StreamIsAChannel == Spec => ImplementsChannel
<1>1. Init => Abstract!Init
  BY DEF Init, Abstract!Init, visible
<1> QED
  BY <1>1, Invariance, StepImplements, PTL DEF Spec, ImplementsChannel, Abstract!Spec
-----------------------------------------------------------------------------
(* The byte counter.                                                       *)

\* The running totals of the sizes.
Totals(s, f) ==
  /\ f \in [0..Len(s) -> Nat] /\ f[0] = 0
  /\ \A n \in 1..Len(s) : f[n] = f[n - 1] + Size[s[n]]
  /\ \A m, n \in 0..Len(s) : m <= n => f[m] <= f[n]

\* A set of natural numbers has a least element.
LEMMA Least ==
  ASSUME NEW T \in SUBSET Nat, T # {}
  PROVE  \E n \in T : \A m \in T : n <= m
<1> DEFINE R == {p \in Nat \X Nat : p[1] < p[2]}
<1>1. IsWellFoundedOn(R, Nat)
  BY NatLessThanWellFounded, Zenon DEF OpToRel
<1>2. PICK n \in T : \A m \in T : <<m, n>> \notin R
  <2> HIDE DEF R
  <2> QED BY <1>1, WFMin
<1>3. ASSUME NEW m \in T PROVE n <= m
  <2>1. <<m, n>> \in Nat \X Nat /\ ~(m < n)
    BY <1>2
  <2> QED BY <2>1
<1> QED BY <1>3

\* The running totals end in the sum.
LEMMA SumIsTotal ==
  ASSUME NEW s \in Seq(Chunks), NEW f, Totals(s, f)
  PROVE  Sum(s) = f[Len(s)]
<1> DEFINE last == Len(s)
           Sums(g) == g = [n \in 0..last |-> IF n = 0 THEN 0 ELSE g[n - 1] + Size[s[n]]]
           sum == CHOOSE g : Sums(g)
<1>1. last \in Nat /\ \A n \in 0..last : n # 0 => n \in 1..last
  OBVIOUS
<1>2. Sums(f)
  <2> HIDE DEF last
  <2>1. f \in [0..last -> Nat] /\ f[0] = 0 /\ \A n \in 1..last : f[n] = f[n - 1] + Size[s[n]]
    BY DEF Totals, last
  <2> QED BY <1>1, <2>1
<1>3. Sums(sum)
  <2> HIDE DEF Sums
  <2> QED BY <1>2
<1>4. Sum(s) = sum[last]
  BY DEF Sum
<1>5. \A n \in 0..last : sum[n] = IF n = 0 THEN 0 ELSE sum[n - 1] + Size[s[n]]
  <2> HIDE DEF last, sum
  <2> QED BY <1>3
<1> HIDE DEF sum, Sums
<1> DEFINE Wrong == {n \in 0..last : sum[n] # f[n]}
<1>6. Wrong = {}
  <2> SUFFICES ASSUME Wrong # {} PROVE FALSE
    OBVIOUS
  <2>1. PICK n \in Wrong : \A m \in Wrong : n <= m
    <3>1. Wrong \in SUBSET Nat
      BY <1>1
    <3> HIDE DEF Wrong
    <3> QED BY <3>1, Least
  <2>2. n \in Nat /\ n \in 0..last /\ sum[n] # f[n]
    BY <1>1, <2>1
  <2>3. n # 0
    BY <1>1, <1>5, <2>2 DEF Totals
  <2>4. n - 1 \in 0..last /\ n \in 1..last /\ sum[n - 1] = f[n - 1]
    BY <1>1, <2>1, <2>2, <2>3
  <2>5. sum[n] = sum[n - 1] + Size[s[n]] /\ f[n] = f[n - 1] + Size[s[n]]
    BY <1>5, <2>2, <2>3, <2>4 DEF Totals
  <2> QED BY <2>2, <2>4, <2>5
<1> QED BY <1>1, <1>4, <1>6

\* A chunk at the end adds its size, the one at the head takes its size away.
LEMMA TotalsOfAppend ==
  ASSUME NEW s \in Seq(Chunks), NEW c \in Chunks, NEW f, Totals(s, f)
  PROVE  \E g : Totals(Append(s, c), g) /\ g[Len(Append(s, c))] = f[Len(s)] + Size[c]
<1>1. PICK k \in Nat : k = Len(s)
  OBVIOUS
<1>2. /\ f \in [0..k -> Nat] /\ f[0] = 0 /\ \A n \in 1..k : f[n] = f[n - 1] + Size[s[n]]
      /\ \A m, n \in 0..k : m <= n => f[m] <= f[n]
  BY <1>1 DEF Totals
<1>3. Size[c] \in Nat
  BY SseStreamAssumption
<1> DEFINE t == Append(s, c)
           g == [n \in 0..k + 1 |-> IF n = k + 1 THEN f[k] + Size[c] ELSE f[n]]
<1>4. Len(t) = k + 1 /\ t[k + 1] = c /\ \A n \in 1..k : t[n] = s[n]
  BY <1>1
<1>5. g \in [0..k + 1 -> Nat] /\ g[0] = 0 /\ g[k + 1] = f[k] + Size[c] /\ \A n \in 0..k : g[n] = f[n]
  BY <1>1, <1>2, <1>3, SMTT(30)
<1> HIDE DEF g, t
<1>6. \A n \in 1..k + 1 : g[n] = g[n - 1] + Size[t[n]]
  <2>1. \A n \in 1..k : n \in 0..k /\ n - 1 \in 0..k
    BY <1>1
  <2>2. \A n \in 1..k : g[n] = g[n - 1] + Size[t[n]]
    BY <1>2, <1>4, <1>5, <2>1
  <2>3. g[k + 1] = g[k] + Size[t[k + 1]]
    BY <1>1, <1>4, <1>5
  <2>4. k + 1 - 1 = k /\ \A n \in 1..k + 1 : n = k + 1 \/ n \in 1..k
    BY <1>1
  <2> QED BY <2>2, <2>3, <2>4
<1>7. ASSUME NEW m \in 0..k + 1, NEW n \in 0..k + 1, m <= n PROVE g[m] <= g[n]
  <2>1. CASE n \in 0..k
    BY <1>1, <1>2, <1>5, <1>7, <2>1
  <2>2. CASE n = k + 1 /\ m = k + 1
    BY <1>5, <1>7, <2>2
  <2>3. CASE n = k + 1 /\ m \in 0..k
    <3>1. f[m] <= f[k] /\ f[m] \in Nat /\ f[k] \in Nat
      BY <1>1, <1>2, <2>3
    <3> QED BY <1>3, <1>5, <2>3, <3>1
  <2> QED BY <1>1, <2>1, <2>2, <2>3
<1>8. Totals(t, g)
  BY <1>4, <1>5, <1>6, <1>7 DEF Totals
<1>9. g[Len(t)] = f[Len(s)] + Size[c]
  BY <1>1, <1>4, <1>5
<1> QED BY <1>8, <1>9 DEF t

LEMMA TotalsOfTail ==
  ASSUME NEW s \in Seq(Chunks), s # <<>>, NEW f, Totals(s, f)
  PROVE  /\ f[Len(s)] - Size[Head(s)] \in Nat
         /\ Len(s) = 1 => f[Len(s)] = Size[Head(s)]
         /\ \E g : Totals(Tail(s), g) /\ g[Len(Tail(s))] = f[Len(s)] - Size[Head(s)]
<1> DEFINE t == Tail(s)
<1>1. PICK k \in Nat : Len(s) = k + 1 /\ Len(t) = k /\ \A n \in 1..k : t[n] = s[n + 1]
  <2>1. /\ Len(s) \in Nat /\ Len(s) - 1 \in Nat /\ Len(s) = (Len(s) - 1) + 1
        /\ Len(t) = Len(s) - 1 /\ \A n \in 1..(Len(s) - 1) : t[n] = s[n + 1]
    OBVIOUS
  <2> HIDE DEF t
  <2> QED BY <2>1
<1>2. /\ f \in [0..k + 1 -> Nat] /\ f[0] = 0 /\ \A n \in 1..k + 1 : f[n] = f[n - 1] + Size[s[n]]
      /\ \A m, n \in 0..k + 1 : m <= n => f[m] <= f[n]
  BY <1>1 DEF Totals
<1>3. Head(s) = s[1] /\ Size[s[1]] \in Nat
  BY SseStreamAssumption
<1>4. f[1] = Size[s[1]]
  BY <1>1, <1>2, <1>3
<1>5. ASSUME NEW n \in 0..k PROVE n + 1 \in 0..k + 1 /\ f[n + 1] \in Nat /\ f[n + 1] - Size[s[1]] \in Nat
  <2>1. n + 1 \in 0..k + 1 /\ 1 \in 0..k + 1 /\ 1 <= n + 1
    BY <1>1
  <2>2. f[1] <= f[n + 1] /\ f[n + 1] \in Nat
    BY <1>2, <2>1
  <2> QED BY <1>3, <1>4, <2>1, <2>2
<1> DEFINE g == [n \in 0..k |-> f[n + 1] - Size[s[1]]]
<1>6. g \in [0..k -> Nat] /\ \A n \in 0..k : g[n] = f[n + 1] - Size[s[1]]
  BY <1>5
<1> HIDE DEF g, t
<1>7. g[0] = 0
  BY <1>1, <1>3, <1>4, <1>6
<1>8. ASSUME NEW n \in 1..k PROVE g[n] = g[n - 1] + Size[t[n]]
  <2>1. n \in 0..k /\ n - 1 \in 0..k /\ n + 1 \in 1..k + 1 /\ n + 1 - 1 = n /\ n - 1 + 1 = n
    BY <1>1
  <2>2. f[n + 1] = f[n] + Size[s[n + 1]]
    BY <1>2, <2>1
  <2>3. g[n] = f[n + 1] - Size[s[1]] /\ g[n - 1] = f[n] - Size[s[1]] /\ t[n] = s[n + 1]
    BY <1>1, <1>6, <2>1
  <2>4. f[n] \in Nat /\ Size[s[n + 1]] \in Nat
    <3>1. n + 1 \in 1..Len(s) /\ n \in 0..k + 1
      BY <1>1, <2>1
    <3>2. s[n + 1] \in Chunks
      BY <3>1
    <3> QED BY <1>2, <3>1, <3>2, SseStreamAssumption
  <2> QED BY <1>3, <2>2, <2>3, <2>4
<1>9. ASSUME NEW m \in 0..k, NEW n \in 0..k, m <= n PROVE g[m] <= g[n]
  <2>1. m + 1 \in 0..k + 1 /\ n + 1 \in 0..k + 1 /\ m + 1 <= n + 1
    BY <1>1, <1>9
  <2>2. f[m + 1] <= f[n + 1] /\ f[m + 1] \in Nat /\ f[n + 1] \in Nat
    BY <1>2, <2>1
  <2> QED BY <1>3, <1>6, <2>2, SMTT(30)
<1>10. Totals(t, g)
  BY <1>1, <1>6, <1>7, <1>8, <1>9 DEF Totals
<1>11. g[Len(t)] = f[Len(s)] - Size[Head(s)] /\ g[k] \in Nat
  BY <1>1, <1>3, <1>6
<1>12. Len(s) = 1 => f[Len(s)] = Size[Head(s)]
  BY <1>3, <1>4
<1> QED BY <1>1, <1>10, <1>11, <1>12 DEF t

\* The counter is the running total at the end of the queue; a chunk is only added
\* where it fits, as the test of the wait has found while the mutex was held.
Counted ==
  /\ \E f : Totals(chunks, f) /\ queuedBytes = f[Len(chunks)]
  /\ producer = "append" /\ Accepts => Fits(item)
  /\ queuedBytes > MaxQueuedBytes => Len(chunks) = 1

\* Nothing is queued.
LEMMA EmptyIsCounted == \E f : Totals(<<>>, f) /\ f[Len(<<>>)] = 0
<1> DEFINE f == [n \in 0..0 |-> 0]
<1>1. Totals(<<>>, f)
  BY DEF Totals
<1>2. f[Len(<<>>)] = 0
  OBVIOUS
<1> QED BY <1>1, <1>2

LEMMA InitCounted == Init => Counted
<1> SUFFICES ASSUME Init PROVE Counted
  OBVIOUS
<1>1. chunks = <<>> /\ queuedBytes = 0 /\ producer = "idle"
  BY DEF Init
<1>2. MaxQueuedBytes \in Nat
  BY SseStreamAssumption
<1> QED BY <1>1, <1>2, EmptyIsCounted DEF Counted

LEMMA NextCounted == Inv /\ Counted /\ [Next]_vars => Counted'
<1> SUFFICES ASSUME Inv, Counted, [Next]_vars PROVE Counted'
  OBVIOUS
<1>1. chunks \in Seq(Chunks) /\ item \in Chunks /\ MaxQueuedBytes \in Nat
  BY SseStreamAssumption DEF Inv, Places
<1>2. PICK f : Totals(chunks, f) /\ queuedBytes = f[Len(chunks)]
  BY DEF Counted
<1>3. queuedBytes \in Nat
  BY <1>1, <1>2 DEF Totals
<1>4. ASSUME UNCHANGED <<chunks, queuedBytes>>, producer' = "append" /\ Accepts' => Fits(item)'
      PROVE  Counted'
  BY <1>4 DEF Counted
<1>5. CASE Enqueue /\ Accepts
  <2>1. chunks' = Append(chunks, item) /\ queuedBytes' = queuedBytes + Size[item] /\ producer' = "idle"
    BY <1>5 DEF Enqueue, Added
  <2>2. \E g : Totals(chunks', g) /\ queuedBytes' = g[Len(chunks')]
    BY <1>1, <1>2, <2>1, TotalsOfAppend
  <2>3. chunks = <<>> \/ queuedBytes' <= MaxQueuedBytes
    BY <1>5, <2>1 DEF Counted, Enqueue, Fits
  <2>4. chunks = <<>> => Len(chunks') = 1
    BY <2>1
  <2>5. Size[item] \in Nat
    BY <1>1, SseStreamAssumption
  <2> QED BY <1>1, <1>3, <2>1, <2>2, <2>3, <2>4, <2>5 DEF Counted
<1>6. CASE TryPop
  <2>1. /\ chunks # <<>> /\ chunks' = Tail(chunks) /\ queuedBytes' = queuedBytes - Size[Head(chunks)]
        /\ producer' = producer /\ mutex = "free"
    BY <1>6 DEF TryPop, LeftQueued
  <2>2. producer # "append"
    BY <2>1 DEF Inv, Control
  <2>3. /\ \E g : Totals(chunks', g) /\ queuedBytes' = g[Len(chunks')]
        /\ queuedBytes' \in Nat
        /\ Len(chunks) = 1 => queuedBytes' = 0
    <3>1. Len(chunks) = 1 => queuedBytes = Size[Head(chunks)]
      BY <1>1, <1>2, <2>1, TotalsOfTail
    <3>2. queuedBytes' \in Nat /\ \E g : Totals(chunks', g) /\ queuedBytes' = g[Len(chunks')]
      BY <1>1, <1>2, <2>1, TotalsOfTail
    <3> QED BY <1>3, <2>1, <3>1, <3>2
  <2>4. queuedBytes' <= queuedBytes
    <3>1. Size[Head(chunks)] \in Nat
      BY <1>1, <2>1, SseStreamAssumption
    <3> QED BY <1>3, <2>1, <3>1
  <2>5. ~(queuedBytes' > MaxQueuedBytes)
    BY <1>1, <1>3, <2>3, <2>4 DEF Counted
  <2> QED BY <2>1, <2>2, <2>3, <2>5 DEF Counted
<1>7. CASE CancelClear
  <2>1. chunks' = <<>> /\ queuedBytes' = 0 /\ producer' = producer /\ mutex = "free"
    BY <1>7 DEF CancelClear, MutexIsFree
  <2>2. producer # "append"
    BY <2>1 DEF Inv, Control
  <2> QED BY <1>1, <2>1, <2>2, EmptyIsCounted DEF Counted
<1>8. CASE \/ StartPush \/ LockPush \/ Sleep \/ WakeUp \/ SpuriousWakeUp \/ Finish \/ Drain \/ CancelFlag
           \/ Test \/ (Enqueue /\ ~Accepts) \/ UNCHANGED vars
  <2>1. UNCHANGED <<chunks, queuedBytes>>
    BY <1>8 DEF StartPush, LockPush, Sleep, WakeUp, SpuriousWakeUp, Awake, Finish, Drain, CancelFlag, Test,
                Enqueue, vars
  <2>2. producer' = "append" /\ Accepts' => Fits(item)'
    <3>1. CASE Test
      BY <3>1 DEF Test, Accepts, Fits
    <3>2. CASE CancelFlag \/ Drain \/ UNCHANGED vars
      BY <3>2 DEF CancelFlag, Drain, vars, Accepts, Fits, Counted
    <3>3. CASE \/ StartPush \/ LockPush \/ Sleep \/ WakeUp \/ SpuriousWakeUp \/ Finish
               \/ (Enqueue /\ ~Accepts)
      BY <3>3 DEF StartPush, LockPush, Sleep, WakeUp, SpuriousWakeUp, Awake, Finish, Enqueue
    <3> QED BY <1>8, <3>1, <3>2, <3>3
  <2> QED BY <1>4, <2>1, <2>2
<1> QED BY <1>5, <1>6, <1>7, <1>8 DEF Next, Pushing, Consuming, Over

LEMMA CountInvariance == Spec => [](Inv /\ Counted)
  BY InitInv, NextInv, InitCounted, NextCounted, PTL DEF Spec

\* sse_stream.cpp:13-22, 33-39: the bytes are counted right whatever the two ends do at
\* the same time, and the queue exceeds its limit only by one oversized chunk.
THEOREM QueueIsBounded == Spec => []Bounded
<1>1. Inv /\ Counted => Bounded
  BY SumIsTotal DEF Inv, Places, Counted, Bounded
<1> QED BY <1>1, CountInvariance, PTL

\* For every set of chunks all state is well typed; queuedBytes, an unsigned number
\* in the code, never becomes negative.
THEOREM TypeCorrect == Spec => []TypeOK
<1>1. Inv /\ Counted /\ used \subseteq Chunks => TypeOK
  BY DEF Inv, Places, Counted, Totals, TypeOK
<1>2. Init => used \subseteq Chunks
  BY DEF Init
<1>3. used \subseteq Chunks /\ [Next]_vars => (used \subseteq Chunks)'
  BY DEF Next, vars, StartPush, Pushing, LockPush, Test, Sleep, WakeUp, SpuriousWakeUp, Awake, Enqueue,
         Finish, Consuming, TryPop, Drain, CancelFlag, CancelClear, Over
<1> QED BY <1>1, <1>2, <1>3, CountInvariance, PTL DEF Spec

=============================================================================
