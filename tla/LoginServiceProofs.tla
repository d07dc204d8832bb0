-------------------------- MODULE LoginServiceProofs --------------------------
(***************************************************************************)
(* Logins for any number of workers, reactors, addresses and names and any *)
(* lengths of the two queues: every job is announced, the log keeps its    *)
(* order, a key is frozen only for failures, and only attempts that had    *)
(* looked at it before can end a freeze early.                             *)
(***************************************************************************)
EXTENDS LoginService, SequenceTheorems, FiniteSetTheorems, TLAPS

-----------------------------------------------------------------------------
(* The pool.                                                               *)

Takers == {w \in Workers : thread[w] = "take"}

PoolInv ==
  /\ workqueue \in Seq(Attempts) /\ queuestat \in Nat /\ posting \subseteq Reactors
  /\ thread \in [Workers -> {"wait", "take", "run"}]
  /\ task \in [Workers -> Attempts \cup {NoJob}]
  /\ \A w \in Workers : thread[w] = "run" => task[w] \in Attempts
  /\ JobsAreAnnounced

\* What a step does to the pool.
LEMMA PoolMoves ==
  ASSUME [Next]_vars
  PROVE  \/ UNCHANGED poolVars
         \/ \E r \in Reactors, a \in Attempts : Append_p(r, a)
         \/ \E r \in Reactors : Post(r)
         \/ \E w \in Workers : WaitForTask(w) \/ TakeTask(w) \/ (thread[w] = "run" /\ TaskDone(w))
<1>1. CASE Request \/ Announce \/ LogThread \/ Tick \/ UNCHANGED vars
  BY <1>1 DEF Request, Announce, LogThread, Tick, vars
<1>2. ASSUME NEW w \in Workers, Wake(w) \/ Begin(w)
      PROVE  WaitForTask(w) \/ TakeTask(w)
  BY <1>2 DEF Wake, Begin
<1>3. ASSUME NEW w \in Workers, Attempt(w)
      PROVE  UNCHANGED poolVars \/ (thread[w] = "run" /\ TaskDone(w))
  BY <1>3 DEF Attempt, AskAddress, AskName, Verify, ClearAddress, ClearName, Clear, FailAddress,
              FailName, Fail, AskAddressAgain, AskNameAgain, TestFull, Push, Logged, End, At
<1> QED
  BY <1>1, <1>2, <1>3 DEF Next

LEMMA TakersFinite ==
  ASSUME PoolInv
  PROVE  /\ IsFiniteSet(Takers) /\ Cardinality(Takers) \in Nat
         /\ IsFiniteSet(posting) /\ Cardinality(posting) \in Nat /\ Len(workqueue) \in Nat
<1>1. IsFiniteSet(Takers) /\ IsFiniteSet(posting)
  BY ThreadPoolAssumption, FS_Subset DEF PoolInv, Takers
<1> QED
  BY <1>1, FS_CardinalityType, LenProperties DEF PoolInv

\* Each job in the list stands for a permit, a reactor that will post one, or a
\* worker that has taken one.
LEMMA PoolNext == PoolInv /\ [Next]_vars => PoolInv'
<1> SUFFICES ASSUME PoolInv, [Next]_vars PROVE PoolInv'
  OBVIOUS
<1> USE DEF PoolInv
<1>0. /\ Len(workqueue) = queuestat + Cardinality(posting) + Cardinality(Takers)
      /\ JobsAreAnnounced' <=> Len(workqueue') = queuestat' + Cardinality(posting') + Cardinality(Takers')
  BY DEF JobsAreAnnounced, Takers
<1>1. CASE UNCHANGED poolVars
  BY <1>1 DEF poolVars, JobsAreAnnounced
<1>2. ASSUME NEW r \in Reactors, NEW a \in Attempts, Append_p(r, a) PROVE PoolInv'
  <2>1. /\ workqueue' = Append(workqueue, a) /\ posting' = posting \cup {r} /\ r \notin posting
        /\ UNCHANGED <<queuestat, thread, task>>
    BY <1>2 DEF Append_p
  <2>2. workqueue' \in Seq(Attempts) /\ Len(workqueue') = Len(workqueue) + 1
    BY <2>1, AppendProperties
  <2>3. Cardinality(posting') = Cardinality(posting) + 1 /\ Takers' = Takers
    BY <2>1, TakersFinite, FS_AddElement DEF Takers
  <2> QED
    BY <1>0, <2>1, <2>2, <2>3, TakersFinite
<1>3. ASSUME NEW r \in Reactors, Post(r) PROVE PoolInv'
  <2>1. /\ posting' = posting \ {r} /\ r \in posting /\ queuestat' = queuestat + 1
        /\ UNCHANGED <<workqueue, thread, task>>
    BY <1>3 DEF Post, PostTask
  <2>2. Cardinality(posting') = Cardinality(posting) - 1 /\ Takers' = Takers
    BY <2>1, TakersFinite, FS_RemoveElement DEF Takers
  <2> QED
    BY <1>0, <2>1, <2>2, TakersFinite
<1>4. ASSUME NEW w \in Workers, WaitForTask(w) PROVE PoolInv'
  <2>1. /\ thread[w] = "wait" /\ thread' = [thread EXCEPT ![w] = "take"]
        /\ queuestat > 0 /\ queuestat' = queuestat - 1
        /\ UNCHANGED <<workqueue, posting, task>>
    BY <1>4 DEF WaitForTask
  <2>2. Takers' = Takers \cup {w} /\ w \notin Takers
    BY <2>1 DEF Takers
  <2>3. Cardinality(Takers') = Cardinality(Takers) + 1
    BY <2>2, TakersFinite, FS_AddElement
  <2> QED
    BY <1>0, <2>1, <2>3, TakersFinite
<1>5. ASSUME NEW w \in Workers, TakeTask(w) PROVE PoolInv'
  <2>1. w \in Takers /\ Cardinality(Takers \ {w}) = Cardinality(Takers) - 1
    BY <1>5, TakersFinite, FS_RemoveElement DEF TakeTask, Takers
  <2>2. Cardinality(Takers \ {w}) \in Nat
    BY TakersFinite, FS_RemoveElement, FS_CardinalityType
  <2>3. workqueue # <<>>
    BY <1>0, <2>1, <2>2, TakersFinite, EmptySeq
  <2>4. /\ thread' = [thread EXCEPT ![w] = "run"] /\ task' = [task EXCEPT ![w] = Head(workqueue)]
        /\ workqueue' = Tail(workqueue) /\ UNCHANGED <<queuestat, posting>>
    BY <1>5, <2>3 DEF TakeTask
  <2>5. /\ Head(workqueue) \in Attempts /\ workqueue' \in Seq(Attempts)
        /\ Len(workqueue') = Len(workqueue) - 1
    BY <2>3, <2>4, HeadTailProperties
  <2>6. Takers' = Takers \ {w}
    BY <2>4 DEF Takers
  <2> QED
    BY <1>0, <2>1, <2>4, <2>5, <2>6, TakersFinite
<1>6. ASSUME NEW w \in Workers, thread[w] = "run", TaskDone(w) PROVE PoolInv'
  <2>1. /\ thread' = [thread EXCEPT ![w] = "wait"] /\ task' = [task EXCEPT ![w] = NoJob]
        /\ UNCHANGED <<workqueue, queuestat, posting>>
    BY <1>6 DEF TaskDone
  <2>2. Takers' = Takers
    BY <1>6, <2>1 DEF Takers
  <2> QED
    BY <1>0, <2>1, <2>2
<1> QED
  BY <1>1, <1>2, <1>3, <1>4, <1>5, <1>6, PoolMoves

LEMMA PoolStarts == Init => PoolInv
<1> SUFFICES ASSUME Init PROVE PoolInv
  OBVIOUS
<1>1. /\ workqueue = <<>> /\ queuestat = 0 /\ posting = {}
      /\ thread = [w \in Workers |-> "wait"] /\ task = [w \in Workers |-> NoJob]
  BY DEF Init, PoolInit
<1>2. Takers = {} /\ Len(workqueue) = 0 /\ Cardinality({}) = 0
  BY <1>1, FS_EmptySet, EmptySeq DEF Takers
<1>3. workqueue \in Seq(Attempts)
  BY <1>1, EmptySeq
<1>4. JobsAreAnnounced
  <2>1. JobsAreAnnounced <=> Len(workqueue) = queuestat + Cardinality(posting) + Cardinality(Takers)
    BY DEF JobsAreAnnounced, Takers
  <2> QED
    BY <1>1, <1>2, <2>1
<1> QED
  BY <1>1, <1>3, <1>4 DEF PoolInv

\* The semaphore is posted after the mutex has been released, and waited for before
\* it is taken: no worker sleeps on a job, and none is woken for nothing.
THEOREM NoForgottenJob == Spec => []JobsAreAnnounced
<1>1. PoolInv => JobsAreAnnounced
  BY DEF PoolInv
<1> QED
  BY <1>1, PoolStarts, PoolNext, PTL DEF Spec

-----------------------------------------------------------------------------
(* The log.                                                                *)

\* Going round the array once.
Wrapped(x) == IF x < LogCapacity THEN x ELSE x - LogCapacity

LEMMA OnceRound ==
  ASSUME NEW x \in 0..2 * LogCapacity - 1
  PROVE  x % LogCapacity = Wrapped(x) /\ Wrapped(x) \in 0..LogCapacity - 1
BY AsyncLogAssumption DEF Wrapped

\* back is as many places behind front as there are lines.
LogInv ==
  /\ ring \in [0..LogCapacity - 1 -> Workers \cup {NoLine}]
  /\ front \in -1..LogCapacity - 1 /\ back \in -1..LogCapacity - 1 /\ size \in 0..LogCapacity
  /\ logger \in {"awake", "asleep"} /\ accepted \in Seq(Workers)
  /\ back = IF size = 0 THEN front ELSE Wrapped(front + size)
  /\ LinesInOrder

\* What a step does to the log.
LEMMA LogMoves ==
  ASSUME [Next]_vars
  PROVE  UNCHANGED logVars \/ PopLine \/ \E w \in Workers : PushLine(w)
<1>1. CASE Request \/ Announce \/ LogThread \/ Tick \/ UNCHANGED vars
  BY <1>1 DEF Request, Announce, LogThread, Tick, vars
<1>2. ASSUME NEW w \in Workers, Wake(w) \/ Begin(w) \/ Attempt(w)
      PROVE  UNCHANGED logVars \/ PushLine(w)
  BY <1>2 DEF Wake, Begin, Attempt, AskAddress, AskName, Verify, ClearAddress, ClearName, Clear,
              FailAddress, FailName, Fail, AskAddressAgain, AskNameAgain, TestFull, Push
<1> QED
  BY <1>1, <1>2 DEF Next

LEMMA PushKeepsOrder ==
  ASSUME LogInv, NEW w \in Workers, PushLine(w)
  PROVE  LogInv'
<1> USE AsyncLogAssumption DEF LogInv
<1>1. logger' = "awake"
  BY DEF PushLine, Broadcast
<1>2. CASE Full
  BY <1>1, <1>2 DEF PushLine, LinesInOrder
<1>3. CASE ~Full
  <2> DEFINE slot == NextSlot(back)
  <2>1. /\ back' = slot /\ ring' = [ring EXCEPT ![slot] = w] /\ front' = front
        /\ size' = size + 1 /\ accepted' = Append(accepted, w) /\ size < LogCapacity
    BY <1>3 DEF PushLine, Full
  <2>2. slot = Wrapped(back + 1) /\ slot \in 0..LogCapacity - 1
    <3>1. back + 1 \in 0..2 * LogCapacity - 1
      OBVIOUS
    <3>2. slot = (back + 1) % LogCapacity
      BY DEF NextSlot
    <3> QED
      BY <3>1, <3>2, OnceRound
  <2>3. slot = Wrapped(front + size + 1)
    BY <2>1, <2>2 DEF Wrapped
  <2>4. ASSUME NEW i \in 1..size
        PROVE  (front + i) % LogCapacity \in (0..LogCapacity - 1) \ {slot}
    <3>1. front + i \in 0..2 * LogCapacity - 1 /\ front + size + 1 \in 0..2 * LogCapacity - 1
      BY <2>1
    <3>2. /\ (front + i) % LogCapacity = Wrapped(front + i)
          /\ Wrapped(front + i) \in 0..LogCapacity - 1
      BY <3>1, OnceRound
    <3>3. Wrapped(front + i) # Wrapped(front + size + 1)
      BY <2>1, <3>1 DEF Wrapped
    <3> QED
      BY <2>3, <3>2, <3>3
  <2>5. (front + size + 1) % LogCapacity = slot
    BY <2>1, <2>3, OnceRound
  <2>6. /\ accepted' \in Seq(Workers) /\ Len(accepted') = size + 1 /\ size = Len(accepted)
        /\ \A i \in 1..size : accepted'[i] = accepted[i] /\ accepted'[size + 1] = w
    BY <2>1, AppendProperties DEF LinesInOrder
  <2> HIDE DEF slot
  <2>7. ASSUME NEW i \in 1..size + 1 PROVE ring'[(front + i) % LogCapacity] = accepted'[i]
    <3>1. CASE i = size + 1
      BY <2>1, <2>2, <2>5, <2>6, <3>1
    <3>2. CASE i # size + 1
      <4>1. i \in 1..size
        BY <3>2
      <4>2. ring[(front + i) % LogCapacity] = accepted[i]
        BY <4>1 DEF LinesInOrder
      <4> QED
        BY <2>1, <2>4, <2>6, <4>1, <4>2
    <3> QED
      BY <3>1, <3>2
  <2>8. LinesInOrder'
    BY <1>1, <2>1, <2>6, <2>7 DEF LinesInOrder
  <2> QED
    BY <1>1, <2>1, <2>2, <2>3, <2>6, <2>8
<1> QED
  BY <1>2, <1>3

LEMMA PopKeepsOrder ==
  ASSUME LogInv, PopLine
  PROVE  LogInv'
<1> USE AsyncLogAssumption DEF LogInv
<1>1. CASE size <= 0
  BY <1>1 DEF PopLine, LinesInOrder
<1>2. CASE ~(size <= 0)
  <2> DEFINE slot == NextSlot(front)
  <2>1. /\ front' = slot /\ ring' = [ring EXCEPT ![slot] = NoLine] /\ back' = back
        /\ size' = size - 1 /\ accepted' = Tail(accepted) /\ size \in 1..LogCapacity
        /\ logger' = "awake"
    BY <1>2 DEF PopLine
  <2>2. slot = Wrapped(front + 1) /\ slot \in 0..LogCapacity - 1
    <3>1. front + 1 \in 0..2 * LogCapacity - 1
      OBVIOUS
    <3>2. slot = (front + 1) % LogCapacity
      BY DEF NextSlot
    <3> QED
      BY <3>1, <3>2, OnceRound
  <2>3. back = IF size' = 0 THEN slot ELSE Wrapped(slot + size')
    BY <2>1, <2>2 DEF Wrapped
  <2>4. ASSUME NEW i \in 1..size - 1
        PROVE  /\ (slot + i) % LogCapacity = (front + (i + 1)) % LogCapacity
               /\ (slot + i) % LogCapacity \in (0..LogCapacity - 1) \ {slot}
    <3>1. slot + i \in 0..2 * LogCapacity - 1 /\ front + (i + 1) \in 0..2 * LogCapacity - 1
      BY <2>1, <2>2, SMTT(30)
    <3>2. /\ (slot + i) % LogCapacity = Wrapped(slot + i)
          /\ (front + (i + 1)) % LogCapacity = Wrapped(front + (i + 1))
          /\ Wrapped(slot + i) \in 0..LogCapacity - 1
      BY <3>1, OnceRound
    <3>3. Wrapped(slot + i) = Wrapped(front + (i + 1)) /\ Wrapped(slot + i) # slot
      BY <2>1, <2>2, <3>1 DEF Wrapped
    <3> QED
      BY <3>2, <3>3
  <2>5. /\ accepted' \in Seq(Workers) /\ Len(accepted') = size - 1 /\ size = Len(accepted)
        /\ \A i \in 1..size - 1 : accepted'[i] = accepted[i + 1]
    BY <2>1, HeadTailProperties, EmptySeq DEF LinesInOrder
  <2> HIDE DEF slot
  <2>6. ASSUME NEW i \in 1..size - 1 PROVE ring'[(slot + i) % LogCapacity] = accepted'[i]
    <3>1. ring[(front + (i + 1)) % LogCapacity] = accepted[i + 1]
      BY <2>1 DEF LinesInOrder
    <3> QED
      BY <2>1, <2>4, <2>5, <3>1
  <2>7. LinesInOrder'
    BY <2>1, <2>5, <2>6 DEF LinesInOrder
  <2> QED
    BY <2>1, <2>2, <2>3, <2>5, <2>7, SMTT(30)
<1> QED
  BY <1>1, <1>2

LEMMA LogStarts == Init => LogInv
<1> SUFFICES ASSUME Init PROVE LogInv
  OBVIOUS
<1>1. /\ ring = [i \in 0..LogCapacity - 1 |-> NoLine]
      /\ front = -1 /\ back = -1 /\ size = 0 /\ logger = "awake" /\ accepted = <<>>
  BY DEF Init, LogInit
<1>2. accepted \in Seq(Workers) /\ Len(accepted) = 0
  BY <1>1, EmptySeq
<1> QED
  BY <1>1, <1>2, AsyncLogAssumption DEF LogInv, LinesInOrder

LEMMA LogNext == LogInv /\ [Next]_vars => LogInv'
<1>1. LogInv /\ UNCHANGED logVars => LogInv'
  BY DEF LogInv, logVars, LinesInOrder
<1> QED
  BY <1>1, LogMoves, PushKeepsOrder, PopKeepsOrder

\* The circular array, with its two indices and its count, is a queue, and the log
\* thread sleeps only when it is empty.
THEOREM LogKeepsOrder == Spec => []LinesInOrder
<1>1. LogInv => LinesInOrder
  BY DEF LogInv
<1> QED
  BY <1>1, LogStarts, LogNext, PTL DEF Spec

-----------------------------------------------------------------------------
(* The guard: what its records say of the failures that there have been.   *)

Ages == 0..Window + 1
Records == [count : 0..MaxCount - 1, first : {Unset} \cup Ages, until : {Unset} \cup 0..BlockTicks]

\* The failures of a key are known youngest first; a record that counts some counts
\* the youngest of them and has the age of the oldest that it counts.
CountsRecent(record, ages) ==
  /\ Len(ages) <= MaxCount - 1
  /\ \A i, j \in 1..Len(ages) : i <= j => ages[i] <= ages[j]
  /\ record # NoRecord /\ record.first # Unset =>
       /\ record.until = Unset /\ record.count \in 1..Len(ages)
       /\ ages[record.count] = record.first

GuardInv ==
  /\ records \in [Keys -> Records \cup {NoRecord}]
  /\ recent \in [Keys -> Seq(Ages)]
  /\ \A k \in Keys : CountsRecent(records[k], recent[k])

\* A failure, with its history.
FailureOf(k) ==
  /\ RecordFail(k)
  /\ recent' = [recent EXCEPT ![k] = IF Blocks(k) THEN <<>> ELSE Youngest(<<0>> \o @)]

\* What a step does to the records.
LEMMA GuardMoves ==
  ASSUME PoolInv, [Next]_vars
  PROVE  \/ UNCHANGED <<records, recent>>
         \/ \E k \in Keys : LookUp(k) /\ UNCHANGED recent
         \/ \E k \in Keys : ClearFail(k) /\ recent' = [recent EXCEPT ![k] = <<>>]
         \/ \E k \in Keys : FailureOf(k)
         \/ Tick
<1>1. CASE Request \/ Announce \/ LogThread \/ Tick \/ UNCHANGED vars
  BY <1>1 DEF Request, Announce, LogThread, vars, attemptVars
<1>2. ASSUME NEW w \in Workers, Wake(w) \/ Begin(w) PROVE UNCHANGED <<records, recent>>
  BY <1>2 DEF Wake, Begin, attemptVars
<1>3. ASSUME NEW w \in Workers, Attempt(w)
      PROVE  \/ UNCHANGED <<records, recent>>
             \/ \E k \in Keys : LookUp(k) /\ UNCHANGED recent
             \/ \E k \in Keys : ClearFail(k) /\ recent' = [recent EXCEPT ![k] = <<>>]
             \/ \E k \in Keys : FailureOf(k)
  <2>1. CASE Verify(w) \/ \E refused \in BOOLEAN : TestFull(w, refused) \/ Push(w, refused)
    BY <2>1 DEF Verify, TestFull, Push
  <2>2. CASE ~(Verify(w) \/ \E refused \in BOOLEAN : TestFull(w, refused) \/ Push(w, refused))
    <3>1. thread[w] = "run"
      BY <1>3, <2>2 DEF Attempt, AskAddress, AskName, ClearAddress, ClearName, Clear, FailAddress,
                        FailName, Fail, AskAddressAgain, AskNameAgain, At
    <3>2. task[w].address \in Keys /\ task[w].name \in Keys
      BY <3>1, LoginServiceAssumption DEF PoolInv, Attempts
    <3> QED
      BY <1>3, <2>2, <3>2 DEF Attempt, AskAddress, AskName, ClearAddress, ClearName, Clear,
                              FailAddress, FailName, Fail, FailureOf, AskAddressAgain, AskNameAgain
  <2> QED
    BY <2>1, <2>2
<1> QED
  BY <1>1, <1>2, <1>3 DEF Next

\* The ages after one more failure.
LEMMA YoungestAges ==
  ASSUME NEW s \in Seq(Ages), Len(s) <= MaxCount - 1, NEW t, t = Youngest(<< 0 >> \o s)
  PROVE  /\ t \in Seq(Ages)
         /\ Len(t) = IF Len(s) + 1 < MaxCount THEN Len(s) + 1 ELSE MaxCount - 1
         /\ \A i \in 1..Len(t) : t[i] = IF i = 1 THEN 0 ELSE s[i - 1]
<1> USE LoginGuardAssumption
<1> DEFINE all == <<0>> \o s
           n == IF Len(s) + 1 < MaxCount THEN Len(s) + 1 ELSE MaxCount - 1
<1>1. 0 \in Ages
  BY DEF Ages
<1>2. <<0>> \in Seq(Ages) /\ Len(<<0>>) = 1 /\ <<0>>[1] = 0
  BY <1>1
<1>3. Len(s) \in Nat
  BY LenProperties
<1>4. /\ all \in Seq(Ages) /\ Len(all) = Len(s) + 1
      /\ \A i \in 1..Len(s) + 1 : all[i] = IF i <= 1 THEN <<0>>[i] ELSE s[i - 1]
  BY <1>2, ConcatProperties
<1>5. n \in 0..Len(all) /\ t = SubSeq(all, 1, n)
  BY <1>3, <1>4 DEF Youngest
<1> HIDE DEF all, n
<1>6. \A i \in 1..n : all[i] \in Ages
  BY <1>3, <1>4, <1>5, ElementOfSeq
<1>7. t \in Seq(Ages) /\ Len(t) = n /\ \A i \in 1..n : t[i] = all[i]
  BY <1>5, <1>6, SubSeqProperties
<1> QED
  BY <1>2, <1>3, <1>4, <1>5, <1>7 DEF n

\* A failure freezes the key, is the first that counts, or is one more.  It freezes
\* after MaxCount failures in the window.
LEMMA FailureCases ==
  ASSUME GuardInv, NEW k \in Keys, FailureOf(k)
  PROVE  \/ /\ records' = [records EXCEPT ![k] = [count |-> 0, first |-> Unset, until |-> BlockTicks]]
            /\ recent' = [recent EXCEPT ![k] = <<>>]
            /\ Len(recent[k]) = MaxCount - 1 /\ \A i \in 1..Len(recent[k]) : recent[k][i] <= Window
         \/ /\ records' = [records EXCEPT ![k] = [count |-> 1, first |-> 0, until |-> Unset]]
            /\ recent' = [recent EXCEPT ![k] = Youngest(<<0>> \o recent[k])] /\ MaxCount > 1
         \/ /\ records[k] # NoRecord /\ records[k].first \in 0..Window
            /\ records[k].count + 1 < MaxCount
            /\ records' = [records EXCEPT ![k] = [records[k] EXCEPT !.count = @ + 1]]
            /\ recent' = [recent EXCEPT ![k] = Youngest(<<0>> \o recent[k])]
<1> USE LoginGuardAssumption
<1> DEFINE none == [count |-> 0, first |-> Unset, until |-> Unset]
           record == IF records[k] = NoRecord THEN none ELSE records[k]
           one == [count |-> 1, first |-> 0, until |-> Unset]
           block == [count |-> 0, first |-> Unset, until |-> BlockTicks]
<1>1. /\ records[k] \in Records \cup {NoRecord} /\ recent[k] \in Seq(Ages)
      /\ CountsRecent(records[k], recent[k]) /\ Len(recent[k]) \in Nat
  BY LenProperties DEF GuardInv
<1>2. records' = [records EXCEPT ![k] = Judged(OneMore(record))]
  BY DEF FailureOf, RecordFail
<1>3. record \in Records
  BY <1>1 DEF Records, Unset
<1>4. /\ recent' = [recent EXCEPT ![k] = IF Blocks(k) THEN <<>> ELSE Youngest(<<0>> \o recent[k])]
      /\ Blocks(k) <=> Judged(OneMore(record)).until = BlockTicks
  BY <1>2 DEF FailureOf, Blocks, GuardInv
<1> HIDE DEF record
<1>5. CASE Stale(record) /\ MaxCount > 1
  <2>1. Judged(OneMore(record)) = one /\ one.until # BlockTicks
    BY <1>5 DEF OneMore, Judged, Unset
  <2> QED
    BY <1>2, <1>4, <1>5, <2>1
<1>6. CASE Stale(record) /\ ~(MaxCount > 1)
  <2>1. Judged(OneMore(record)) = block /\ block.until = BlockTicks /\ MaxCount = 1
    BY <1>6 DEF OneMore, Judged
  <2>2. Len(recent[k]) = MaxCount - 1 /\ 1..Len(recent[k]) = {}
    BY <1>1, <2>1 DEF CountsRecent
  <2> QED
    BY <1>2, <1>4, <2>1, <2>2
<1>7. CASE ~Stale(record)
  <2> DEFINE more == [record EXCEPT !.count = @ + 1]
  <2>1. record = records[k] /\ records[k] # NoRecord /\ record.first \in 0..Window
    BY <1>1, <1>3, <1>7 DEF Stale, record, Records, Ages, Unset
  <2>2. /\ record.until = Unset /\ record.count \in 1..Len(recent[k])
        /\ recent[k][record.count] = record.first
    BY <1>1, <2>1 DEF CountsRecent, Unset
  <2>3. OneMore(record) = more /\ more.count = record.count + 1 /\ more.until = Unset
    BY <1>3, <1>7, <2>2 DEF OneMore, Records
  <2>4. CASE record.count + 1 < MaxCount
    <3>1. Judged(OneMore(record)) = more /\ more.until # BlockTicks
      BY <1>3, <2>3, <2>4 DEF Judged, Records, Unset
    <3> QED
      BY <1>2, <1>4, <2>1, <2>4, <3>1
  <2>5. CASE ~(record.count + 1 < MaxCount)
    <3>1. Judged(OneMore(record)) = block /\ block.until = BlockTicks
      BY <1>3, <2>3, <2>5 DEF Judged, Records
    <3>2. Len(recent[k]) = MaxCount - 1 /\ record.count = MaxCount - 1
      BY <1>1, <2>2, <2>5 DEF CountsRecent
    <3>3. ASSUME NEW i \in 1..Len(recent[k]) PROVE recent[k][i] <= Window
      <4>1. recent[k][i] <= recent[k][record.count]
        BY <1>1, <2>2, <3>2 DEF CountsRecent
      <4>2. recent[k][i] \in Ages
        BY <1>1, ElementOfSeq
      <4> QED
        BY <2>1, <2>2, <4>1, <4>2 DEF Ages
    <3> QED
      BY <1>2, <1>4, <3>1, <3>2, <3>3
  <2> QED
    BY <2>4, <2>5
<1> QED
  BY <1>5, <1>6, <1>7

\* The first of the failures that count, and one more of them.
LEMMA CountsOneMore ==
  ASSUME NEW ages \in Seq(Ages), NEW record, CountsRecent(record, ages),
         NEW t, t = Youngest(<< 0 >> \o ages), MaxCount > 1,
         NEW new, \/ new = [count |-> 1, first |-> 0, until |-> Unset]
                  \/ /\ record \in Records /\ record # NoRecord /\ record.first \in 0..Window
                     /\ record.count + 1 < MaxCount
                     /\ new = [record EXCEPT !.count = @ + 1]
  PROVE  t \in Seq(Ages) /\ new \in Records /\ CountsRecent(new, t)
<1> USE LoginGuardAssumption
<1>1. /\ Len(ages) \in Nat /\ Len(ages) <= MaxCount - 1
      /\ \A i \in 1..Len(ages) : ages[i] \in Ages
      /\ \A i, j \in 1..Len(ages) : i <= j => ages[i] <= ages[j]
  BY LenProperties, ElementOfSeq DEF CountsRecent
<1>2. /\ t \in Seq(Ages)
      /\ Len(t) = IF Len(ages) + 1 < MaxCount THEN Len(ages) + 1 ELSE MaxCount - 1
      /\ \A i \in 1..Len(t) : t[i] = IF i = 1 THEN 0 ELSE ages[i - 1]
  BY <1>1, YoungestAges
<1>3. Len(t) \in 1..MaxCount - 1 /\ Len(t) <= Len(ages) + 1
  BY <1>1, <1>2
<1>4. ASSUME NEW i \in 1..Len(t), NEW j \in 1..Len(t), i <= j PROVE t[i] <= t[j]
  <2>1. CASE j = 1
    BY <1>2, <1>4, <2>1
  <2>2. CASE j # 1 /\ i = 1
    <3>1. j - 1 \in 1..Len(ages)
      BY <1>1, <1>3, <2>2
    <3>2. t[j] = ages[j - 1] /\ ages[j - 1] \in Ages /\ t[i] = 0
      BY <1>1, <1>2, <2>2, <3>1
    <3> QED
      BY <3>2 DEF Ages
  <2>3. CASE j # 1 /\ i # 1
    <3>1. i - 1 \in 1..Len(ages) /\ j - 1 \in 1..Len(ages) /\ i - 1 <= j - 1
      BY <1>1, <1>3, <1>4, <2>3
    <3> QED
      BY <1>1, <1>2, <2>3, <3>1
  <2> QED
    BY <2>1, <2>2, <2>3
<1>5. CASE new = [count |-> 1, first |-> 0, until |-> Unset]
  <2>1. new \in Records
    BY <1>5 DEF Records, Ages, Unset
  <2>2. new.count \in 1..Len(t) /\ t[new.count] = new.first /\ new.until = Unset
    BY <1>2, <1>3, <1>5
  <2> QED
    BY <1>2, <1>3, <1>4, <2>1, <2>2 DEF CountsRecent
<1>6. CASE /\ record \in Records /\ record # NoRecord /\ record.first \in 0..Window
           /\ record.count + 1 < MaxCount
           /\ new = [record EXCEPT !.count = @ + 1]
  <2>1. /\ record.until = Unset /\ record.count \in 1..Len(ages)
        /\ ages[record.count] = record.first
    BY <1>6 DEF CountsRecent, Unset
  <2>2. /\ new.count = record.count + 1 /\ new.first = record.first /\ new.until = Unset
        /\ new \in Records
    BY <1>6, <2>1, SMTT(30) DEF Records
  <2>3. new.count \in 1..Len(t) /\ new.count # 1
    <3>1. Len(t) = IF Len(ages) + 1 < MaxCount THEN Len(ages) + 1 ELSE MaxCount - 1
      BY <1>2
    <3>2. /\ Len(ages) \in Nat /\ record.count \in 1..Len(ages) /\ MaxCount \in Nat
          /\ record.count + 1 < MaxCount /\ new.count = record.count + 1
      BY <1>1, <1>6, <2>1, <2>2
    <3> QED BY ONLY <3>1, <3>2, SMT
  <2>4. t[new.count] = ages[record.count]
    BY <1>2, <2>1, <2>2, <2>3
  <2> QED
    BY <1>2, <1>3, <1>4, <2>1, <2>2, <2>3, <2>4 DEF CountsRecent
<1> QED
  BY <1>5, <1>6

\* A tick makes the record and the known failures older alike.
LEMMA CountsOlder ==
  ASSUME NEW ages \in Seq(Ages), NEW record \in Records, CountsRecent(record, ages),
         NEW t, t = [i \in DOMAIN ages |-> IF ages[i] > Window THEN ages[i] ELSE ages[i] + 1]
  PROVE  /\ t \in Seq(Ages) /\ Older(record) \in Records
         /\ CountsRecent(Older(record), t) /\ Older(record).until # BlockTicks
<1> USE LoginGuardAssumption
<1>1. /\ Len(ages) \in Nat /\ DOMAIN ages = 1..Len(ages)
      /\ \A i \in 1..Len(ages) : ages[i] \in Ages
  BY LenProperties, ElementOfSeq
<1>2. \A i \in 1..Len(ages) : t[i] \in Ages
  BY <1>1 DEF Ages
<1>3. t \in Seq(Ages) /\ Len(t) = Len(ages)
  BY <1>1, <1>2
<1>4. \A i, j \in 1..Len(t) : i <= j => t[i] <= t[j]
  <2> TAKE i, j \in 1..Len(t)
  <2>1. i <= j => ages[i] <= ages[j]
    BY <1>3 DEF CountsRecent
  <2> QED
    BY <1>1, <1>3, <2>1 DEF Ages
<1> DEFINE first == IF record.first \in 0..Window THEN record.first + 1 ELSE record.first
           until == IF record.until > 0 THEN record.until - 1 ELSE record.until
<1>5. /\ Older(record) \in Records /\ Older(record).count = record.count
      /\ Older(record).first = first /\ Older(record).until = until
  <2>0. Older(record) = [record EXCEPT !.first = first, !.until = until]
    BY DEF Older
  <2>1. Older(record) = [count |-> record.count, first |-> first, until |-> until]
    BY <2>0 DEF Records
  <2>2. first \in {Unset} \cup Ages /\ until \in {Unset} \cup 0..BlockTicks
    BY DEF Records, Ages, Unset
  <2> QED
    BY <2>1, <2>2 DEF Records
<1>6. Older(record).until # BlockTicks
  BY <1>5 DEF Records, Unset
<1>7. ASSUME Older(record) # NoRecord, Older(record).first # Unset
      PROVE  /\ Older(record).until = Unset /\ Older(record).count \in 1..Len(t)
             /\ t[Older(record).count] = Older(record).first
  <2>1. record # NoRecord /\ record.first # Unset
    BY <1>5, <1>7, LoginGuardAssumption DEF Records, Ages, Unset
  <2>2. /\ record.until = Unset /\ record.count \in 1..Len(ages)
        /\ ages[record.count] = record.first
    BY <2>1 DEF CountsRecent
  <2>3. record.first \in Ages
    BY <1>1, <2>2
  <2> QED
    BY <1>1, <1>3, <1>5, <2>2, <2>3 DEF Ages, Unset
<1> QED
  BY <1>3, <1>4, <1>5, <1>6, <1>7 DEF CountsRecent

\* Each step keeps the records right, and a block begins only after MaxCount failures.
LEMMA GuardNext ==
  ASSUME PoolInv, GuardInv, [Next]_vars
  PROVE  /\ GuardInv'
         /\ \A k \in Keys :
              /\ records'[k] # NoRecord /\ records'[k].until = BlockTicks
              /\ records[k] = NoRecord \/ records[k].until # BlockTicks
              => Len(recent[k]) = MaxCount - 1 /\ \A i \in DOMAIN recent[k] : recent[k][i] <= Window
<1> USE LoginGuardAssumption
<1>1. CASE UNCHANGED <<records, recent>>
  BY <1>1 DEF GuardInv
<1>2. ASSUME NEW k \in Keys, LookUp(k), UNCHANGED recent
      PROVE  GuardInv' /\ \A l \in Keys : records'[l] \in {NoRecord, records[l]}
  BY <1>2 DEF LookUp, GuardInv, CountsRecent
<1>3. ASSUME NEW k \in Keys, ClearFail(k), recent' = [recent EXCEPT ![k] = <<>>]
      PROVE  GuardInv' /\ \A l \in Keys : records'[l] \in {NoRecord, records[l]}
  <2>1. CountsRecent(NoRecord, <<>>) /\ <<>> \in Seq(Ages)
    BY EmptySeq DEF CountsRecent
  <2> QED
    BY <1>3, <2>1 DEF ClearFail, GuardInv
<1>4. ASSUME NEW k \in Keys, FailureOf(k)
      PROVE  /\ GuardInv' /\ \A l \in Keys \ {k} : records'[l] = records[l]
             /\ \/ Len(recent[k]) = MaxCount - 1 /\ \A i \in DOMAIN recent[k] : recent[k][i] <= Window
                \/ records'[k].until # BlockTicks
  <2>0. /\ recent[k] \in Seq(Ages) /\ CountsRecent(records[k], recent[k])
        /\ records[k] \in Records \cup {NoRecord}
        /\ DOMAIN recent[k] = 1..Len(recent[k])
    BY LenProperties DEF GuardInv
  <2> DEFINE t == Youngest(<<0>> \o recent[k])
             block == [count |-> 0, first |-> Unset, until |-> BlockTicks]
             one == [count |-> 1, first |-> 0, until |-> Unset]
             more == [records[k] EXCEPT !.count = @ + 1]
  <2>1. CASE /\ records' = [records EXCEPT ![k] = block] /\ recent' = [recent EXCEPT ![k] = <<>>]
             /\ Len(recent[k]) = MaxCount - 1 /\ \A i \in 1..Len(recent[k]) : recent[k][i] <= Window
    <3>1. block \in Records /\ CountsRecent(block, <<>>) /\ <<>> \in Seq(Ages)
      BY EmptySeq DEF CountsRecent, Records, Unset
    <3> QED
      BY <2>0, <2>1, <3>1 DEF GuardInv
  <2>2. CASE /\ records' = [records EXCEPT ![k] = one] /\ recent' = [recent EXCEPT ![k] = t]
             /\ MaxCount > 1
    <3>1. t \in Seq(Ages) /\ one \in Records /\ CountsRecent(one, t)
      BY <2>0, <2>2, CountsOneMore
    <3>2. one.until # BlockTicks
      BY DEF Unset
    <3> HIDE DEF t, one
    <3> QED
      BY <2>2, <3>1, <3>2 DEF GuardInv
  <2>3. CASE /\ records[k] # NoRecord /\ records[k].first \in 0..Window
             /\ records[k].count + 1 < MaxCount
             /\ records' = [records EXCEPT ![k] = more] /\ recent' = [recent EXCEPT ![k] = t]
    <3>1. records[k] \in Records /\ records[k].until = Unset /\ MaxCount > 1
      BY <2>0, <2>3 DEF CountsRecent, Unset, Records
    <3>2. t \in Seq(Ages) /\ more \in Records /\ CountsRecent(more, t)
      BY <2>0, <2>3, <3>1, CountsOneMore
    <3>3. more.until # BlockTicks
      BY <3>1 DEF Unset, Records
    <3> HIDE DEF t, more
    <3> QED
      BY <2>3, <3>2, <3>3 DEF GuardInv
  <2> QED
    BY <1>4, <2>1, <2>2, <2>3, FailureCases
<1>5. CASE Tick
  <2> DEFINE t(k) == [i \in DOMAIN recent[k] |->
                        IF recent[k][i] > Window THEN recent[k][i] ELSE recent[k][i] + 1]
  <2>1. /\ records' = [k \in Keys |-> IF records[k] = NoRecord THEN NoRecord ELSE Older(records[k])]
        /\ recent' = [k \in Keys |-> t(k)]
    BY <1>5 DEF Tick, GuardTick
  <2>2. ASSUME NEW k \in Keys
        PROVE  /\ t(k) \in Seq(Ages) /\ records'[k] \in Records \cup {NoRecord}
               /\ CountsRecent(records'[k], t(k))
               /\ records'[k] = NoRecord \/ records'[k].until # BlockTicks
    <3>1. recent[k] \in Seq(Ages) /\ CountsRecent(records[k], recent[k])
      BY DEF GuardInv
    <3>2. CASE records[k] \in Records
      <4>1. records[k] # NoRecord
        BY <3>2 DEF Records, Ages, Unset
      <4> QED
        BY <2>1, <3>1, <3>2, <4>1, CountsOlder
    <3>3. CASE records[k] = NoRecord
      <4> DEFINE zero == [count |-> 0, first |-> Unset, until |-> Unset]
      <4>1. zero \in Records /\ CountsRecent(zero, recent[k])
        BY <3>1 DEF Records, Unset, CountsRecent
      <4>2. t(k) \in Seq(Ages) /\ CountsRecent(Older(zero), t(k))
        BY <3>1, <4>1, CountsOlder
      <4> QED
        BY <2>1, <3>3, <4>2 DEF CountsRecent
    <3> QED
      BY <3>2, <3>3 DEF GuardInv
  <2> HIDE DEF t
  <2> QED
    BY <2>1, <2>2 DEF GuardInv
<1> QED
  BY <1>1, <1>2, <1>3, <1>4, <1>5, GuardMoves

LEMMA GuardStarts == Init => GuardInv
<1> SUFFICES ASSUME Init PROVE GuardInv
  OBVIOUS
<1>1. records = [k \in Keys |-> NoRecord] /\ recent = [k \in Keys |-> <<>>]
  BY DEF Init, GuardInit
<1>2. <<>> \in Seq(Ages) /\ CountsRecent(NoRecord, <<>>)
  BY EmptySeq, LoginGuardAssumption DEF CountsRecent
<1> QED
  BY <1>1, <1>2 DEF GuardInv

\* Failures that overlap freeze a key no earlier than failures one after the other.
THEOREM FreezesAreEarned == Spec => FreezeIsEarned
<1>1. PoolInv /\ GuardInv /\ [Next]_vars => GuardInv'
  BY GuardNext
<1>2. PoolInv /\ GuardInv /\ [Next]_vars =>
        [\A k \in Keys :
           /\ records'[k] # NoRecord /\ records'[k].until = BlockTicks
           /\ records[k] = NoRecord \/ records[k].until # BlockTicks
           => /\ Len(recent[k]) = MaxCount - 1
              /\ \A i \in DOMAIN recent[k] : recent[k][i] <= Window]_vars
  BY GuardNext
<1> QED
  BY <1>1, <1>2, PoolStarts, PoolNext, GuardStarts, PTL DEF Spec, FreezeIsEarned

-----------------------------------------------------------------------------
(* Who can end a freeze.                                                   *)

Places ==
  {"out", "askAddress", "askName", "verify", "clearAddress", "clearName", "failAddress", "failName",
   "logFailed", "pushFailed", "askAddressAgain", "askNameAgain", "logRefused", "pushRefused"}

\* Whoever has looked at a frozen key and may still change its record had looked
\* before it was frozen.
LateInv ==
  /\ at \in [Workers -> Places]
  /\ late \in [Keys -> SUBSET Workers]
  /\ \A k \in Keys : IsBlocked(k) => \A v \in Workers : Beyond(v, k) => v \in late[k]

\* A step of an attempt is one of its own worker.
LEMMA OthersStay ==
  ASSUME PoolInv, LateInv, NEW w \in Workers, Attempt(w), NEW v \in Workers \ {w}, NEW k
  PROVE  at'[v] = at[v] /\ (Beyond(v, k)' <=> Beyond(v, k))
<1>1. at'[v] = at[v] /\ thread'[v] = thread[v] /\ task'[v] = task[v]
  BY DEF Attempt, AskAddress, AskName, Verify, ClearAddress, ClearName, Clear, FailAddress, FailName,
         Fail, AskAddressAgain, AskNameAgain, TestFull, Push, Logged, End, Goto, TaskDone, poolVars,
         PoolInv, LateInv
<1> QED
  BY <1>1 DEF Beyond

\* A failure of an attempt at one of its two keys, and the attempt's place after it.
LEMMA FailKeepsLate ==
  ASSUME PoolInv, GuardInv, LateInv, NEW w \in Workers, NEW k \in Keys,
         \/ FailAddress(w) /\ k = task[w].address
         \/ FailName(w) /\ k = task[w].name
  PROVE  /\ LateInv'
         /\ \A l \in Keys : IsBlocked(l) /\ ~IsBlocked(l)' => \E v \in late[l] : at'[v] # at[v]
<1> USE LoginGuardAssumption
<1>1. /\ thread[w] = "run" /\ task[w].address \in Keys /\ task[w].name \in Keys
      /\ task[w].address # task[w].name
  BY LoginServiceAssumption DEF FailAddress, FailName, Fail, At, PoolInv, Attempts
<1>2. /\ RecordFail(k) /\ FailureOf(k) /\ UNCHANGED poolVars
      /\ late' = [late EXCEPT ![k] = IF Blocks(k) THEN {v \in Workers \ {w} : Beyond(v, k)} ELSE @]
  BY DEF FailAddress, FailName, Fail, FailureOf
<1>3. \/ /\ k = task[w].address /\ at[w] = "failAddress"
         /\ at' = [at EXCEPT ![w] = "failName"]
      \/ /\ k = task[w].name /\ at[w] = "failName"
         /\ at' = [at EXCEPT ![w] = "logFailed"]
  BY DEF FailAddress, FailName, Fail, At, Goto
<1>4. at' \in [Workers -> Places] /\ at'[w] # at[w]
  BY <1>3 DEF LateInv, Places
<1>5. thread'[w] = thread[w] /\ task'[w] = task[w]
  BY <1>2 DEF poolVars
<1>6. Beyond(w, k)
  BY <1>1, <1>3 DEF Beyond
<1>7. ASSUME NEW l \in Keys, Beyond(w, l)' PROVE l # k /\ Beyond(w, l)
  <2>1. CASE k = task[w].address /\ at[w] = "failAddress" /\ at' = [at EXCEPT ![w] = "failName"]
    <3>1. at'[w] = "failName"
      BY <2>1 DEF LateInv
    <3>2. task[w].name = l
      BY <1>5, <1>7, <3>1 DEF Beyond
    <3> QED
      BY <1>1, <2>1, <3>2 DEF Beyond
  <2>2. CASE at' = [at EXCEPT ![w] = "logFailed"]
    <3>1. at'[w] = "logFailed"
      BY <2>2 DEF LateInv
    <3> QED
      BY <1>7, <3>1 DEF Beyond
  <2> QED
    BY <1>3, <2>1, <2>2
<1>8. \A v \in Workers \ {w}, l \in Keys : at'[v] = at[v] /\ (Beyond(v, l)' <=> Beyond(v, l))
  BY OthersStay DEF Attempt
<1>9. IsBlocked(k)' => Blocks(k)
  <2>1. records'[k] # NoRecord /\ records'[k].until > 0 => records'[k].until = BlockTicks
    <3>1. CASE records' = [records EXCEPT ![k] = [count |-> 0, first |-> Unset, until |-> BlockTicks]]
      BY <1>2, <3>1 DEF GuardInv
    <3>2. CASE records' = [records EXCEPT ![k] = [count |-> 1, first |-> 0, until |-> Unset]]
      BY <1>2, <3>2 DEF GuardInv, Unset
    <3>3. CASE /\ records[k] # NoRecord /\ records[k].first \in 0..Window
               /\ records' = [records EXCEPT ![k] = [records[k] EXCEPT !.count = @ + 1]]
      <4>1. records[k] \in Records /\ records[k].until = Unset
        BY <1>2, <3>3 DEF GuardInv, CountsRecent, Unset
      <4> QED
        BY <1>2, <3>3, <4>1 DEF GuardInv, Unset, Records
    <3> QED
      BY <1>2, <3>1, <3>2, <3>3, FailureCases
  <2> QED
    BY <2>1 DEF IsBlocked, Blocks
<1>10. \A l \in Keys \ {k} : records'[l] = records[l] /\ (IsBlocked(l)' <=> IsBlocked(l))
  BY <1>2 DEF RecordFail, IsBlocked, GuardInv
<1>11. ASSUME NEW l \in Keys, IsBlocked(l)', NEW v \in Workers, Beyond(v, l)'
      PROVE  v \in late'[l]
  <2>1. CASE l = k
    BY <1>2, <1>7, <1>8, <1>9, <1>11, <2>1 DEF LateInv
  <2>2. CASE l # k
    <3>1. IsBlocked(l) /\ Beyond(v, l)
      BY <1>7, <1>8, <1>10, <1>11, <2>2
    <3> QED
      BY <1>2, <2>2, <3>1 DEF LateInv
  <2> QED
    BY <2>1, <2>2
<1>12. late' \in [Keys -> SUBSET Workers]
  BY <1>2 DEF LateInv
<1>13. LateInv'
  BY <1>4, <1>11, <1>12 DEF LateInv
<1>14. ASSUME NEW l \in Keys, IsBlocked(l), ~IsBlocked(l)'
      PROVE  \E v \in late[l] : at'[v] # at[v]
  <2>1. l = k
    BY <1>10, <1>14
  <2>2. w \in late[l]
    BY <1>6, <1>14, <2>1 DEF LateInv
  <2> QED
    BY <1>4, <2>2
<1> QED
  BY <1>13, <1>14

\* The other steps of an attempt: each goes on to a place beyond a key only if the key
\* is not frozen, and clears a frozen key only from such a place.
LEMMA AttemptKeepsLate ==
  ASSUME PoolInv, GuardInv, LateInv, NEW w \in Workers, Attempt(w),
         ~FailAddress(w), ~FailName(w)
  PROVE  /\ LateInv'
         /\ \A k \in Keys : IsBlocked(k) /\ ~IsBlocked(k)' => \E v \in late[k] : at'[v] # at[v]
<1> USE LoginGuardAssumption
<1>1. /\ thread[w] = "run" /\ task[w].address \in Keys /\ task[w].name \in Keys
      /\ task[w].address # task[w].name
  BY LoginServiceAssumption DEF Attempt, AskAddress, AskName, Verify, ClearAddress, ClearName, Clear,
     AskAddressAgain, AskNameAgain, TestFull, Push, At, PoolInv, Attempts
<1>2. late' = late
  BY DEF Attempt, AskAddress, AskName, Verify, ClearAddress, ClearName, Clear, AskAddressAgain,
         AskNameAgain, TestFull, Push
<1>3. \E place \in Places : at' = [at EXCEPT ![w] = place]
  BY DEF Attempt, AskAddress, AskName, Verify, ClearAddress, ClearName, AskAddressAgain,
         AskNameAgain, TestFull, Push, Logged, End, Goto, Places
<1>4. at' \in [Workers -> Places]
  BY <1>3 DEF LateInv
<1>5. \A v \in Workers \ {w}, k \in Keys : Beyond(v, k)' <=> Beyond(v, k)
  BY OthersStay
<1>6. ASSUME NEW k \in Keys
      PROVE  \/ records'[k] = records[k]
             \/ records[k].until = 0 /\ records'[k] = NoRecord
             \/ Beyond(w, k) /\ records'[k] = NoRecord /\ at'[w] # at[w]
  <2>1. CASE records' = records
    BY <2>1
  <2>2. CASE \E l \in Keys : LookUp(l)
    BY <2>2 DEF LookUp, GuardInv
  <2>3. CASE ClearAddress(w) \/ ClearName(w)
    BY <1>1, <2>3 DEF ClearAddress, ClearName, Clear, ClearFail, End, Goto, At, Beyond, GuardInv, LateInv
  <2> QED
    BY <1>1, <2>1, <2>2, <2>3 DEF Attempt, AskAddress, AskName, Verify, AskAddressAgain, AskNameAgain,
       TestFull, Push
<1>7. ASSUME NEW k \in Keys, IsBlocked(k), Beyond(w, k)' PROVE Beyond(w, k)
  <2>1. CASE AskAddress(w)
    BY <1>1, <1>7, <2>1 DEF AskAddress, Refused, Goto, At, Beyond, LateInv, poolVars
  <2>2. CASE AskName(w)
    BY <1>1, <1>7, <2>2 DEF AskName, Refused, Goto, At, Beyond, LateInv, poolVars
  <2>3. CASE Verify(w)
    BY <1>1, <1>7, <2>3 DEF Verify, Goto, At, Beyond, LateInv, poolVars
  <2>4. CASE ClearAddress(w)
    BY <1>1, <1>7, <2>4 DEF ClearAddress, Clear, Goto, At, Beyond, LateInv, poolVars
  <2>5. CASE thread' = [thread EXCEPT ![w] = "wait"]
    BY <1>7, <2>5 DEF Beyond, PoolInv
  <2>6. CASE at'[w] \in {"askNameAgain", "askAddressAgain", "pushRefused", "pushFailed"}
    BY <1>7, <2>6 DEF Beyond
  <2> QED
    BY <2>1, <2>2, <2>3, <2>4, <2>5, <2>6 DEF Attempt, ClearName, AskAddressAgain, AskNameAgain,
       TestFull, Push, Logged, End, Goto, TaskDone, LateInv
<1>8. ASSUME NEW k \in Keys, IsBlocked(k)' PROVE IsBlocked(k)
  BY <1>6, <1>8 DEF IsBlocked
<1>9. LateInv'
  BY <1>2, <1>4, <1>5, <1>7, <1>8 DEF LateInv
<1>10. ASSUME NEW k \in Keys, IsBlocked(k), ~IsBlocked(k)'
       PROVE  \E v \in late[k] : at'[v] # at[v]
  BY <1>6, <1>10 DEF IsBlocked, LateInv
<1> QED
  BY <1>9, <1>10

LEMMA LateNext ==
  ASSUME PoolInv, GuardInv, LateInv, [Next]_vars
  PROVE  /\ LateInv'
         /\ \A k \in Keys : IsBlocked(k) /\ ~IsBlocked(k)'
                           => GuardTick \/ \E v \in late[k] : at'[v] # at[v]
<1> USE LoginGuardAssumption
<1>1. CASE Request \/ Announce \/ LogThread \/ UNCHANGED vars
  <2>1. UNCHANGED <<records, at, late, thread, task>>
    BY <1>1 DEF Request, Announce, LogThread, Append_p, Post, vars, poolVars, attemptVars
  <2> QED
    BY <2>1 DEF LateInv, IsBlocked, Beyond
<1>2. CASE Tick
  <2>1. UNCHANGED <<at, late, thread, task>> /\ GuardTick
    BY <1>2 DEF Tick, poolVars
  <2>2. ASSUME NEW k \in Keys, IsBlocked(k)' PROVE IsBlocked(k)
    <3>1. records[k] # NoRecord /\ records'[k] = Older(records[k]) /\ records[k] \in Records
      BY <2>1, <2>2 DEF GuardTick, IsBlocked, GuardInv
    <3>2. Older(records[k]).until = IF records[k].until > 0 THEN records[k].until - 1
                                    ELSE records[k].until
      BY <3>1 DEF Older, Records
    <3> QED
      BY <2>2, <3>1, <3>2 DEF IsBlocked
  <2> QED
    BY <2>1, <2>2 DEF LateInv, Beyond
<1>3. ASSUME NEW w \in Workers, Wake(w) \/ Begin(w)
      PROVE  /\ LateInv' /\ UNCHANGED records
  <2>1. /\ UNCHANGED records
        /\ at' = at \/ at' = [at EXCEPT ![w] = "out"] \/ at' = [at EXCEPT ![w] = "askAddress"]
        /\ late' = late \/ late' = [k \in Keys |-> late[k] \ {w}]
    BY <1>3 DEF Wake, Begin, attemptVars, Goto, WaitForTask, TakeTask, PoolInv
  <2>2. at' \in [Workers -> Places] /\ late' \in [Keys -> SUBSET Workers]
    BY <2>1 DEF LateInv, Places
  <2>3. \A k \in Keys : ~Beyond(w, k)'
    BY <1>3 DEF Wake, Begin, attemptVars, Goto, WaitForTask, TakeTask, PoolInv, LateInv, Beyond
  <2>4. \A v \in Workers \ {w}, k \in Keys : Beyond(v, k)' => Beyond(v, k)
    BY <1>3 DEF Wake, Begin, attemptVars, Goto, WaitForTask, TakeTask, PoolInv, LateInv, Beyond
  <2> QED
    BY <2>1, <2>2, <2>3, <2>4 DEF LateInv, IsBlocked
<1>4. ASSUME NEW w \in Workers, Attempt(w)
      PROVE  /\ LateInv'
             /\ \A k \in Keys : IsBlocked(k) /\ ~IsBlocked(k)'
                               => \E v \in late[k] : at'[v] # at[v]
  <2>1. CASE FailAddress(w) \/ FailName(w)
    <3>1. task[w].address \in Keys /\ task[w].name \in Keys
      BY <2>1, LoginServiceAssumption DEF FailAddress, FailName, Fail, At, PoolInv, Attempts
    <3> QED
      BY <2>1, <3>1, FailKeepsLate
  <2> QED
    BY <1>4, <2>1, AttemptKeepsLate
<1> QED
  BY <1>1, <1>2, <1>3, <1>4 DEF Next, Tick, IsBlocked, vars, Request, Announce, LogThread

LEMMA LateStarts == Init => LateInv
BY DEF Init, GuardInit, LateInv, IsBlocked, Places

\* A freeze ends with its time, or by an attempt that had looked at the key before it
\* began.
THEOREM NewAttemptsDoNotThaw == Spec => FreezeSurvivesNewAttempts
<1>1. PoolInv /\ GuardInv /\ LateInv /\ [Next]_vars => LateInv'
  BY LateNext
<1>2. PoolInv /\ GuardInv /\ LateInv /\ [Next]_vars =>
        [\A k \in Keys :
           IsBlocked(k) /\ ~IsBlocked(k)' => GuardTick \/ \E v \in late[k] : at'[v] # at[v]]_vars
  BY LateNext
<1>3. PoolInv /\ GuardInv /\ [Next]_vars => GuardInv'
  BY GuardNext
<1> QED
  BY <1>1, <1>2, <1>3, PoolStarts, PoolNext, GuardStarts, LateStarts,
     PTL DEF Spec, FreezeSurvivesNewAttempts
=============================================================================
