-------------------------- MODULE RagServiceProofs --------------------------
(***************************************************************************)
(* For any number of requests and any setting of the circuit breaker: the  *)
(* index is searched only when it is complete, and the breaker refuses     *)
(* only after Threshold failures without a success, the last of them       *)
(* within the cool-down.                                                   *)
(*                                                                         *)
(* For any capacity and time to live of the semantic cache: no answer of a *)
(* cancelled stream and none that owes anything to the community is in it, *)
(* and none is given when its time is over.  What a lookup leaves of the cache is   *)
(* defined by recursion, so this part begins with induction.               *)
(***************************************************************************)
EXTENDS RagService, SequenceTheorems, WellFoundedInduction, TLAPS

\* The requests that have passed ensure_index.
Past == {"admit", "embed", "lookup", "search", "model", "retry", "put"}

\* The mutex of the index is held by the request that builds it, and nobody
\* builds what is there.
IndexInv ==
  /\ pc \in [Requests -> Places] /\ indexReady \in BOOLEAN
  /\ \A r \in Requests : pc[r] = "build" <=> indexLock = r
  /\ \A r \in Requests : pc[r] = "build" => ~indexReady
  /\ \A r \in Requests : pc[r] \in Past => indexReady

\* The counter never runs ahead of the failures without a success, and an open
\* breaker was opened by the last of Threshold of them.
BreakerInv ==
  /\ failures \in Nat /\ openFor \in {Closed} \cup 0..Cooldown
  /\ streak \in 0..Threshold /\ quiet \in 0..Cooldown
  /\ failures <= streak \/ streak = Threshold
  /\ openFor # Closed => streak = Threshold /\ failures >= Threshold
  /\ openFor > 0 => quiet = Cooldown - openFor

-----------------------------------------------------------------------------
\* How a request moves: along the program, and into and out of the index's mutex.
LEMMA Moves ==
  ASSUME IndexInv, NEW r \in Requests, Step(r)
  PROVE  \/ UNCHANGED <<pc, index>>
         \/ /\ UNCHANGED index /\ pc[r] \notin {"build", "ensure"}
            /\ \E p \in Places \ {"build"} :
                 /\ pc' = [pc EXCEPT ![r] = p]
                 /\ p \in Past => pc[r] \in Past
         \/ UNCHANGED index /\ indexReady /\ pc[r] = "ensure" /\ pc' = [pc EXCEPT ![r] = "admit"]
         \/ /\ pc[r] = "ensure" /\ pc' = [pc EXCEPT ![r] = "build"]
            /\ ~indexReady /\ UNCHANGED indexReady /\ indexLock = Nobody /\ indexLock' = r
         \/ /\ pc[r] = "build" /\ indexLock' = Nobody
            /\ \/ indexReady' = TRUE /\ pc' = [pc EXCEPT ![r] = "admit"]
               \/ UNCHANGED indexReady /\ pc' = [pc EXCEPT ![r] = "idle"]
<1> USE DEF At, Goto, Past, Places, index
<1>1. CASE Arrive(r)
  <2>1. UNCHANGED index /\ pc[r] = "idle" /\ pc' = [pc EXCEPT ![r] = "ensure"]
    BY <1>1 DEF Arrive
  <2>2. "ensure" \in Places \ {"build"} /\ "ensure" \notin Past
    OBVIOUS
  <2> QED
    BY <2>1, <2>2
<1>2. CASE FindIndex(r) \/ StartIndex(r) \/ BuildIndex(r) \/ IndexFails(r)
  BY <1>2 DEF FindIndex, StartIndex, TakeIndexLock, BuildIndex, IndexFails
<1>3. CASE Admit(r) \/ Refuse(r) \/ Embed(r) \/ EmbedFails(r) \/ CacheMiss(r) \/ CacheHit(r)
  BY <1>3 DEF Admit, Refuse, Embed, EmbedFails, CacheMiss, CacheHit
<1>4. CASE Retrieved(r) \/ SearchFindsNothing(r) \/ SearchFinds(r)
  BY <1>4 DEF Retrieved, SearchFindsNothing, SearchFinds, Keep
<1>5. CASE Cancel(r)
  BY <1>5 DEF Cancel
<1>6. CASE ModelAnswers(r)
  BY <1>6 DEF ModelAnswers, Calling, Keep
<1>7. CASE ModelSaysNothing(r) \/ ModelFails(r) \/ StreamRetries(r) \/ Put(r)
  BY <1>7 DEF ModelSaysNothing, ModelFails, StreamRetries, Calling, Put
<1> QED
  BY <1>1, <1>2, <1>3, <1>4, <1>5, <1>6, <1>7 DEF Step

\* Every step, and every stutter, keeps the index's part of the invariant.
LEMMA IndexNext == IndexInv /\ [Next]_vars => IndexInv'
<1> SUFFICES ASSUME IndexInv, [Next]_vars PROVE IndexInv'
  OBVIOUS
<1>1. ASSUME UNCHANGED <<pc, index>> PROVE IndexInv'
  <2>1. pc' = pc /\ indexReady' = indexReady /\ indexLock' = indexLock
    BY <1>1 DEF index
  <2> QED
    BY <2>1 DEF IndexInv
<1>2. ASSUME NEW r \in Requests, Step(r) PROVE IndexInv'
  <2>1. CASE UNCHANGED <<pc, index>>
    BY <1>1, <2>1
  <2>2. CASE /\ UNCHANGED index /\ pc[r] \notin {"build", "ensure"}
             /\ \E p \in Places \ {"build"} :
                  /\ pc' = [pc EXCEPT ![r] = p]
                  /\ p \in Past => pc[r] \in Past
    BY <2>2 DEF IndexInv, index
  <2>3. CASE UNCHANGED index /\ indexReady /\ pc[r] = "ensure" /\ pc' = [pc EXCEPT ![r] = "admit"]
    BY <2>3 DEF IndexInv, index, Places
  <2>4. CASE /\ pc[r] = "ensure" /\ pc' = [pc EXCEPT ![r] = "build"]
             /\ ~indexReady /\ UNCHANGED indexReady /\ indexLock = Nobody /\ indexLock' = r
    BY <2>4, RagServiceAssumption DEF IndexInv, Places, Past
  <2>5. CASE /\ pc[r] = "build" /\ indexLock' = Nobody
             /\ \/ indexReady' = TRUE /\ pc' = [pc EXCEPT ![r] = "admit"]
                \/ UNCHANGED indexReady /\ pc' = [pc EXCEPT ![r] = "idle"]
    BY <2>5, RagServiceAssumption DEF IndexInv, Places, Past
  <2> QED
    BY <1>2, <2>1, <2>2, <2>3, <2>4, <2>5, Moves
<1>3. CASE UNCHANGED vars
  BY <1>1, <1>3 DEF vars, request
<1>4. CASE Tick
  BY <1>1, <1>4 DEF Tick, request
<1> QED
  BY <1>2, <1>3, <1>4 DEF Next

\* The index is searched only when it is complete, for any number of requests.
THEOREM IndexComplete == Spec => []SearchesCompleteIndex
<1>1. Init => IndexInv
  BY RagServiceAssumption DEF Init, IndexInv, Places, Past
<1>2. IndexInv => SearchesCompleteIndex
  BY DEF IndexInv, SearchesCompleteIndex, At, Past
<1> QED
  BY <1>1, <1>2, IndexNext, PTL DEF Spec

-----------------------------------------------------------------------------
\* What a step does to the breaker.
LEMMA BreakerMoves ==
  ASSUME NEW r \in Requests, Step(r)
  PROVE  UNCHANGED breaker \/ RecordSuccess \/ RecordFailure \/ AllowRequest
  BY DEF Step, Arrive, FindIndex, StartIndex, BuildIndex, IndexFails, Admit, Refuse, Embed,
         EmbedFails, CacheMiss, CacheHit, Retrieved, SearchFindsNothing, SearchFinds, Cancel, ModelAnswers,
         ModelSaysNothing, ModelFails, StreamRetries, Put

\* Every step, and every stutter, keeps the breaker's part of the invariant.
LEMMA BreakerNext == BreakerInv /\ [Next]_vars => BreakerInv'
<1> SUFFICES ASSUME BreakerInv, [Next]_vars PROVE BreakerInv'
  OBVIOUS
<1> USE RagServiceAssumption DEF BreakerInv, Closed
<1>1. CASE UNCHANGED breaker
  BY <1>1 DEF breaker
<1>2. CASE RecordSuccess
  BY <1>2 DEF RecordSuccess, Reset
<1>3. CASE RecordFailure
  <2>1. failures' = failures + 1 /\ quiet' = 0 /\ Threshold >= 1 /\ Cooldown >= 1
    BY <1>3 DEF RecordFailure
  <2>2. streak' \in 0..Threshold /\ (failures' <= streak' \/ streak' = Threshold)
    <3>1. CASE streak < Threshold
      BY <1>3, <2>1, <3>1 DEF RecordFailure
    <3>2. CASE ~(streak < Threshold)
      BY <1>3, <2>1, <3>2 DEF RecordFailure
    <3> QED
      BY <3>1, <3>2
  <2>3. CASE failures + 1 >= Threshold
    <3>1. openFor' = Cooldown
      BY <1>3, <2>3 DEF RecordFailure
    <3>2. streak' = Threshold
      BY <2>1, <2>2, <2>3
    <3> QED
      BY <2>1, <2>2, <2>3, <3>1, <3>2
  <2>4. CASE ~(failures + 1 >= Threshold)
    <3>1. openFor' = openFor /\ openFor = Closed
      BY <1>3, <2>4 DEF RecordFailure
    <3> QED
      BY <2>1, <2>2, <3>1
  <2> QED
    BY <2>3, <2>4
<1>4. CASE AllowRequest
  BY <1>4 DEF AllowRequest, breaker
<1>5. CASE Tick
  <2>1. failures' = failures /\ streak' = streak
    BY <1>5 DEF Tick
  <2>2. openFor' = (IF openFor > 0 THEN openFor - 1 ELSE openFor)
    BY <1>5 DEF Tick, Down
  <2>3. quiet' = (IF quiet < Cooldown THEN quiet + 1 ELSE quiet)
    BY <1>5 DEF Tick, Up
  <2>4. CASE openFor > 0
    <3>1. openFor' = openFor - 1 /\ quiet' = quiet + 1 /\ openFor \in 1..Cooldown
      BY <2>2, <2>3, <2>4
    <3> QED
      BY <2>1, <2>4, <3>1
  <2>5. CASE ~(openFor > 0)
    <3>1. openFor' = openFor /\ quiet' \in 0..Cooldown
      BY <2>2, <2>3, <2>5
    <3> QED
      BY <2>1, <2>5, <3>1
  <2> QED
    BY <2>4, <2>5
<1> QED
  BY <1>1, <1>2, <1>3, <1>4, <1>5, BreakerMoves DEF Next, vars, breaker

\* The breaker refuses only while the upstream services are failing.
THEOREM BreakerIsEarned == Spec => []BreakerEarned
<1>1. Init => BreakerInv
  BY RagServiceAssumption DEF Init, BreakerInv, Closed
<1>2. BreakerInv => BreakerEarned
  BY RagServiceAssumption DEF BreakerInv, BreakerEarned, Closed
<1> QED
  BY <1>1, <1>2, BreakerNext, PTL DEF Spec
-----------------------------------------------------------------------------
(* Induction over the natural numbers, for sets of them.                   *)

\* A set of natural numbers has a least element.
LEMMA Least ==
  ASSUME NEW T \in SUBSET Nat, T # {}
  PROVE  \E n \in T : \A m \in T : n <= m
<1> DEFINE R == {p \in Nat \X Nat : p[1] < p[2]}
<1>1. IsWellFoundedOn(R, Nat)
  BY NatLessThanWellFounded, Zenon DEF OpToRel
<1>2. PICK n \in T : \A m \in T : <<m, n>> \notin R
  <2> HIDE DEF R
  <2> QED BY <1>1, WFMin
<1>3. ASSUME NEW m \in T PROVE n <= m
  <2>1. <<m, n>> \in Nat \X Nat /\ ~(m < n)
    BY <1>2
  <2> QED BY <2>1
<1> QED BY <1>3

LEMMA Induction ==
  ASSUME NEW T \in SUBSET Nat, 0 \in T, \A n \in T : n + 1 \in T
  PROVE  T = Nat
<1> SUFFICES ASSUME Nat \ T # {} PROVE FALSE
  OBVIOUS
<1>1. PICK n \in Nat \ T : \A m \in Nat \ T : n <= m
  BY Least
<1>2. n # 0 /\ n - 1 \in T
  BY <1>1
<1> QED BY <1>1, <1>2

\* What is made step by step exists.
Steps(A, last, step) == last \in Nat /\ step \in [1..last -> [A -> A]]
Makes(A, a, last, step, f) ==
  f \in [0..last -> A] /\ f[0] = a /\ \A n \in 1..last : f[n] = step[n][f[n - 1]]

LEMMA Iteration ==
  ASSUME NEW A, NEW last, NEW step, Steps(A, last, step), NEW a \in A
  PROVE  \E f : Makes(A, a, last, step, f)
<1> USE DEF Steps
<1> DEFINE Until(k, f) == Makes(A, a, k, step, f)
           T == {k \in Nat : k <= last => \E f : Until(k, f)}
<1>1. 0 \in T
  <2>1. Until(0, [n \in 0..0 |-> a])
    BY DEF Makes
  <2> QED BY <2>1
<1>2. ASSUME NEW k \in T PROVE k + 1 \in T
  <2> SUFFICES ASSUME k + 1 <= last PROVE \E g : Until(k + 1, g)
    OBVIOUS
  <2>1. PICK f : Until(k, f)
    BY <1>2
  <2> DEFINE g == [n \in 0..k + 1 |-> IF n = k + 1 THEN step[k + 1][f[k]] ELSE f[n]]
  <2>2. k + 1 \in 1..last /\ f[k] \in A
    BY <1>2, <2>1 DEF Makes
  <2>3. step[k + 1][f[k]] \in A
    BY <2>2
  <2>4. g \in [0..k + 1 -> A] /\ g[0] = a
    BY <1>2, <2>1, <2>3 DEF Makes
  <2>5. ASSUME NEW n \in 1..k + 1 PROVE g[n] = step[n][g[n - 1]]
    <3>1. CASE n = k + 1
      <4>1. g[n] = step[k + 1][f[k]] /\ g[k] = f[k] /\ n - 1 = k
        BY <1>2, <3>1
      <4> HIDE DEF g
      <4> QED BY <3>1, <4>1
    <3>2. CASE n # k + 1
      <4>1. n \in 1..k /\ g[n] = f[n] /\ g[n - 1] = f[n - 1]
        BY <1>2, <3>2
      <4> HIDE DEF g
      <4> QED BY <2>1, <4>1 DEF Makes
    <3> QED BY <3>1, <3>2
  <2>6. Until(k + 1, g)
    <3> HIDE DEF g
    <3> QED BY <2>4, <2>5 DEF Makes
  <2> HIDE DEF g, Until
  <2> QED BY <2>4, <2>6
<1>3. last \in T
  <2> HIDE DEF T
  <2>1. T \in SUBSET Nat
    BY DEF T
  <2> QED BY <1>1, <1>2, <2>1, Induction
<1> QED BY <1>3

-----------------------------------------------------------------------------
(* The cache.                                                              *)

\* An iteration that filters a sequence of entries exists.
LEMMA Filtering ==
  ASSUME NEW S, NEW c \in Seq(S)
  PROVE  \E f \in [0..Len(c) -> Seq(S)] :
           /\ f[0] = <<>>
           /\ \A n \in 1..Len(c) : f[n] = IF c[n].left > 0 THEN Append(f[n - 1], c[n]) ELSE f[n - 1]
<1> DEFINE last == Len(c)
           A == Seq(S)
           step == [n \in 1..last |-> [s \in A |-> IF c[n].left > 0 THEN Append(s, c[n]) ELSE s]]
           a == <<>>
<1>1. last \in Nat /\ a \in A /\ \A n \in 1..last : c[n] \in S
  OBVIOUS
<1>2. step \in [1..last -> [A -> A]]
  <2>1. ASSUME NEW n \in 1..last, NEW s \in A
        PROVE  (IF c[n].left > 0 THEN Append(s, c[n]) ELSE s) \in A
    BY <1>1
  <2> HIDE DEF last, A
  <2> QED BY <2>1
<1>3. PICK f : Makes(A, a, last, step, f)
  <2>1. Steps(A, last, step)
    BY <1>1, <1>2 DEF Steps
  <2> HIDE DEF last, A, a, step
  <2> QED BY <1>1, <2>1, Iteration
<1>4. ASSUME NEW n \in 1..last
      PROVE  f[n] = IF c[n].left > 0 THEN Append(f[n - 1], c[n]) ELSE f[n - 1]
  <2>1. n - 1 \in 0..last /\ f[n - 1] \in A
    <3>1. n \in Nat /\ n - 1 \in 0..last
      BY <1>1
    <3> HIDE DEF last, A
    <3> QED BY <1>3, <3>1 DEF Makes
  <2>2. step[n][f[n - 1]] = IF c[n].left > 0 THEN Append(f[n - 1], c[n]) ELSE f[n - 1]
    <3> HIDE DEF A, last
    <3> QED BY <2>1
  <2> HIDE DEF step
  <2> QED BY <1>3, <2>2 DEF Makes
<1> QED BY <1>3, <1>4 DEF Makes

\* The entries that are found are entries of the cache that have time left.
LEMMA LiveEntries ==
  ASSUME NEW S \in SUBSET Entries, cache \in Seq(S)
  PROVE  Live \in Seq({e \in S : e.left > 0}) /\ Len(Live) <= Len(cache)
<1> DEFINE last == Len(cache)
           Filters(f) == f = [n \in 0..last |-> IF n = 0 THEN <<>>
                                              ELSE IF cache[n].left > 0 THEN Append(f[n - 1], cache[n])
                                              ELSE f[n - 1]]
<1>1. last \in Nat /\ \A n \in 1..last : cache[n] \in S
  OBVIOUS
<1>2. PICK f \in [0..last -> Seq(S)] :
        /\ f[0] = <<>>
        /\ \A n \in 1..last : f[n] = IF cache[n].left > 0 THEN Append(f[n - 1], cache[n]) ELSE f[n - 1]
  BY Filtering
<1>3. Filters(f)
  <2>1. \A n \in 0..last : n # 0 => n \in 1..last
    BY <1>1
  <2> HIDE DEF last
  <2> QED BY <1>2, <2>1
<1>4. Filters(LiveOf)
  <2> HIDE DEF Filters
  <2>1. LiveOf = CHOOSE g : Filters(g)
    BY DEF LiveOf, Filters
  <2> QED BY <1>3, <2>1
<1>5. /\ LiveOf[0] = <<>>
      /\ \A n \in 1..last : LiveOf[n] = IF cache[n].left > 0 THEN Append(LiveOf[n - 1], cache[n])
                                        ELSE LiveOf[n - 1]
  <2>1. \A n \in 0..last : LiveOf[n] = IF n = 0 THEN <<>>
                                       ELSE IF cache[n].left > 0 THEN Append(LiveOf[n - 1], cache[n])
                                       ELSE LiveOf[n - 1]
    <3> HIDE DEF LiveOf, last
    <3> QED BY <1>4
  <2>2. \A n \in 1..last : n \in 0..last /\ n # 0
    BY <1>1
  <2> HIDE DEF LiveOf, last
  <2> QED BY <1>1, <2>1, <2>2
<1> DEFINE U == {e \in S : e.left > 0}
           T == {n \in Nat : n <= last => LiveOf[n] \in Seq(U) /\ Len(LiveOf[n]) <= n}
<1>6. 0 \in T
  <2>1. LiveOf[0] \in Seq(U) /\ Len(LiveOf[0]) = 0
    BY <1>5
  <2> HIDE DEF U, LiveOf
  <2> QED BY <2>1
<1>7. ASSUME NEW n \in T PROVE n + 1 \in T
  <2> SUFFICES ASSUME n + 1 <= last PROVE LiveOf[n + 1] \in Seq(U) /\ Len(LiveOf[n + 1]) <= n + 1
    OBVIOUS
  <2>1. n \in Nat /\ n + 1 \in 1..last /\ n + 1 - 1 = n /\ LiveOf[n] \in Seq(U) /\ Len(LiveOf[n]) <= n
    BY <1>1, <1>7
  <2>2. LiveOf[n + 1] = IF cache[n + 1].left > 0 THEN Append(LiveOf[n], cache[n + 1]) ELSE LiveOf[n]
    BY <1>5, <2>1
  <2>3. cache[n + 1].left > 0 => cache[n + 1] \in U
    BY <1>1, <2>1
  <2> HIDE DEF U
  <2> QED BY <2>1, <2>2, <2>3
<1>8. last \in T
  <2> HIDE DEF T
  <2>1. T \in SUBSET Nat
    BY DEF T
  <2> QED BY <1>1, <1>6, <1>7, <2>1, Induction
<1> QED BY <1>8 DEF Live

\* An answer about nothing in the community that its client has waited for, got as
\* long ago as it has lost of its time to live.
Good == {e \in Entries : e.text # "left" /\ ~e.community /\ e.left + e.age = CacheTtl}
Fresh == {e \in Good : e.left > 0}

\* What a request asks is known while it runs, and only what is good is stored.
AskInv ==
  /\ pc \in [Requests -> Places] /\ DOMAIN job = Requests
  /\ answer \in [Requests -> {None} \cup Texts]
  /\ \A r \in Requests :
       /\ pc[r] # "idle" => job[r] \in Jobs
       /\ pc[r] \in {"lookup", "put"} => ~job[r].community
       /\ pc[r] = "put" => answer[r] \in Texts \ {"left"}

CacheInv ==
  /\ cache \in Seq(Good) /\ Len(cache) <= CacheCapacity
  /\ DOMAIN given = Requests /\ CachedAnswersAreFresh

LEMMA LiveIsGood == CacheInv => Live \in Seq(Fresh) /\ Len(Live) <= CacheCapacity
<1> SUFFICES ASSUME CacheInv PROVE Live \in Seq(Fresh) /\ Len(Live) <= CacheCapacity
  OBVIOUS
<1>1. Good \in SUBSET Entries /\ cache \in Seq(Good) /\ Len(cache) <= CacheCapacity
  BY DEF CacheInv, Good
<1>2. Live \in Seq(Fresh) /\ Len(Live) <= Len(cache)
  BY <1>1, LiveEntries DEF Fresh
<1>3. Len(cache) \in Nat /\ Len(Live) \in Nat /\ CacheCapacity \in Nat
  BY <1>1, <1>2, RagServiceAssumption
<1> QED BY <1>1, <1>2, <1>3

LEMMA AskNext == AskInv /\ [Next]_vars => AskInv'
<1> SUFFICES ASSUME AskInv, [Next]_vars PROVE AskInv'
  OBVIOUS
<1> USE DEF At, Goto
<1>1. CASE UNCHANGED <<pc, job, answer>>
  BY <1>1 DEF AskInv
<1>2. ASSUME NEW r \in Requests, NEW p \in Places \ {"lookup", "put"}, Goto(r, p), UNCHANGED <<job, answer>>,
             p = "idle" \/ ~At(r, "idle")
      PROVE  AskInv'
  BY <1>2 DEF AskInv
<1>3. ASSUME NEW r \in Requests, Arrive(r) PROVE AskInv'
  BY <1>3 DEF Arrive, AskInv, Places
<1>4. ASSUME NEW r \in Requests, Embed(r) PROVE AskInv'
  BY <1>4 DEF Embed, Cacheable, AskInv, Places
<1>5. ASSUME NEW r \in Requests, NEW text \in Texts \ {"left"}, ~At(r, "idle"), Keep(r, text), UNCHANGED job
      PROVE  AskInv'
  BY <1>5 DEF Keep, MayStore, Cacheable, AskInv, Places
<1>6. ASSUME NEW r \in Requests,
             FindIndex(r) \/ StartIndex(r) \/ BuildIndex(r) \/ IndexFails(r) \/ Admit(r) \/ Refuse(r)
      PROVE  AskInv'
  <2>1. \E p \in {"admit", "build", "idle", "embed"} :
          Goto(r, p) /\ UNCHANGED <<job, answer>> /\ ~At(r, "idle")
    BY <1>6 DEF FindIndex, StartIndex, BuildIndex, IndexFails, Admit, Refuse
  <2> QED BY <1>2, <2>1 DEF Places
<1>7. ASSUME NEW r \in Requests,
             \/ EmbedFails(r) \/ CacheMiss(r) \/ CacheHit(r) \/ Retrieved(r) \/ SearchFinds(r)
             \/ ModelSaysNothing(r) \/ ModelFails(r) \/ StreamRetries(r) \/ Put(r)
      PROVE  AskInv'
  <2>1. \E p \in {"idle", "search", "model", "retry"} :
          Goto(r, p) /\ UNCHANGED <<job, answer>> /\ ~At(r, "idle")
    BY <1>7 DEF EmbedFails, CacheMiss, CacheHit, Retrieved, SearchFinds, ModelSaysNothing, ModelFails,
                StreamRetries, Put, Calling
  <2> QED BY <1>2, <2>1 DEF Places
<1>8. ASSUME NEW r \in Requests, SearchFindsNothing(r) PROVE AskInv'
  BY <1>5, <1>8 DEF SearchFindsNothing, Texts
<1>9. ASSUME NEW r \in Requests, ModelAnswers(r) PROVE AskInv'
  <2>1. ~At(r, "idle") /\ UNCHANGED job
    BY <1>9 DEF ModelAnswers, Calling
  <2>2. PICK text \in Returned(r) :
          IF r \notin canceled THEN Keep(r, text) ELSE answer' = answer /\ Goto(r, "idle")
    BY <1>9 DEF ModelAnswers, Counts
  <2>3. CASE r \notin canceled
    <3>1. text \in Texts \ {"left"}
      BY <2>2, <2>3 DEF Returned, Texts
    <3> QED BY <1>5, <2>1, <2>2, <2>3, <3>1
  <2>4. CASE r \in canceled
    <3>1. Goto(r, "idle") /\ UNCHANGED answer
      BY <2>2, <2>4
    <3> QED BY <1>2, <2>1, <3>1 DEF Places
  <2> QED BY <2>3, <2>4
<1>10. ASSUME NEW r \in Requests, Cancel(r) PROVE AskInv'
  BY <1>1, <1>10 DEF Cancel
<1>11. ASSUME NEW r \in Requests, Step(r) PROVE AskInv'
  BY <1>3, <1>4, <1>6, <1>7, <1>8, <1>9, <1>10, <1>11 DEF Step
<1>12. CASE Tick \/ UNCHANGED vars
  BY <1>1, <1>12 DEF Tick, vars, request
<1> QED BY <1>11, <1>12 DEF Next

\* Taking an entry out of a sequence.
LEMMA WithoutOne ==
  ASSUME NEW S, NEW s \in Seq(S), NEW i \in DOMAIN s
  PROVE  Without(s, i) \in Seq(S) /\ Len(Without(s, i)) = Len(s) - 1
<1>1. i \in 1..Len(s) /\ Len(s) \in Nat /\ \A k \in 1..Len(s) : s[k] \in S
  OBVIOUS
<1>2. /\ SubSeq(s, 1, i - 1) \in Seq(S) /\ Len(SubSeq(s, 1, i - 1)) = i - 1
      /\ SubSeq(s, i + 1, Len(s)) \in Seq(S) /\ Len(SubSeq(s, i + 1, Len(s))) = Len(s) - i
  BY <1>1, SubSeqProperties
<1>3. Without(s, i) \in Seq(S) /\ Len(Without(s, i)) = (i - 1) + (Len(s) - i)
  <2> DEFINE before == SubSeq(s, 1, i - 1)
             after == SubSeq(s, i + 1, Len(s))
  <2>1. before \in Seq(S) /\ after \in Seq(S) /\ Len(before) = i - 1 /\ Len(after) = Len(s) - i
    BY <1>2
  <2>2. Without(s, i) = before \o after
    BY DEF Without
  <2> HIDE DEF before, after
  <2> QED BY <2>1, <2>2, ConcatProperties
<1> QED BY <1>1, <1>3

LEMMA CacheNext == AskInv /\ CacheInv /\ [Next]_vars => CacheInv'
<1> SUFFICES ASSUME AskInv, CacheInv, [Next]_vars PROVE CacheInv'
  OBVIOUS
<1>1. CASE UNCHANGED <<cache, given>>
  BY <1>1 DEF CacheInv, CachedAnswersAreFresh
<1>2. Fresh \subseteq Good /\ Live \in Seq(Fresh) /\ Live \in Seq(Good)
      /\ Len(Live) \in Nat /\ Len(Live) <= CacheCapacity /\ CacheCapacity \in Nat \ {0}
  BY LiveIsGood, RagServiceAssumption DEF Fresh
<1>3. ASSUME NEW r \in Requests, CacheMiss(r) PROVE CacheInv'
  BY <1>2, <1>3 DEF CacheMiss, CacheInv, CachedAnswersAreFresh
<1>4. ASSUME NEW r \in Requests, CacheHit(r) PROVE CacheInv'
  <2>1. PICK i \in DOMAIN Live :
          /\ cache' = Append(Without(Live, i), Live[i])
          /\ given' = [given EXCEPT ![r] = Live[i]]
    BY <1>4 DEF CacheHit, Refreshed
  <2>2. Live[i] \in Fresh /\ Live[i] \in Good
    BY <1>2, <2>1
  <2>3. cache' \in Seq(Good) /\ Len(cache') <= CacheCapacity
    BY <1>2, <2>1, <2>2, WithoutOne
  <2>4. Live[i].age < CacheTtl
    BY <2>2, RagServiceAssumption DEF Fresh, Good, Entries
  <2> QED BY <2>1, <2>3, <2>4 DEF CacheInv, CachedAnswersAreFresh
<1>5. ASSUME NEW r \in Requests, Put(r) PROVE CacheInv'
  <2> DEFINE e == [question |-> job[r].question, text |-> answer[r],
                   community |-> job[r].community, left |-> CacheTtl, age |-> 0]
             kept == IF Len(Live) >= CacheCapacity THEN Tail(Live) ELSE Live
  <2>1. cache' = Append(kept, e) /\ UNCHANGED given
    BY <1>5 DEF Put, Stored
  <2>2. job[r] \in Jobs /\ ~job[r].community /\ answer[r] \in Texts \ {"left"}
    BY <1>5 DEF Put, At, AskInv
  <2>3. e \in Good
    <3>1. job[r].question \in Questions /\ job[r].community \in BOOLEAN
      BY <2>2 DEF Jobs
    <3>2. CacheTtl \in 0..CacheTtl /\ 0 \in 0..CacheTtl /\ CacheTtl + 0 = CacheTtl
      BY RagServiceAssumption
    <3>3. e \in Entries
      BY <2>2, <3>1, <3>2 DEF Entries
    <3>4. e.text # "left" /\ ~e.community /\ e.left + e.age = CacheTtl
      BY <2>2, <3>2
    <3> HIDE DEF e
    <3> QED BY <3>3, <3>4 DEF Good
  <2>4. kept \in Seq(Good) /\ Len(kept) < CacheCapacity
    BY <1>2
  <2> HIDE DEF kept, e
  <2>5. cache' \in Seq(Good) /\ Len(cache') <= CacheCapacity
    BY <1>2, <2>1, <2>3, <2>4
  <2> QED BY <2>1, <2>5 DEF CacheInv, CachedAnswersAreFresh
<1>6. CASE Tick
  <2>1. /\ cache' = [i \in DOMAIN cache |-> [cache[i] EXCEPT !.left = Down(@), !.age = Up(@, CacheTtl)]]
        /\ UNCHANGED given
    BY <1>6 DEF Tick, request
  <2>2. ASSUME NEW e \in Good PROVE [e EXCEPT !.left = Down(@), !.age = Up(@, CacheTtl)] \in Good
    <3> DEFINE f == [e EXCEPT !.left = Down(@), !.age = Up(@, CacheTtl)]
    <3>1. /\ e \in Entries /\ e.text # "left" /\ ~e.community /\ e.left + e.age = CacheTtl
          /\ e.left \in 0..CacheTtl /\ e.age \in 0..CacheTtl
      BY <2>2 DEF Good, Entries
    <3>2. /\ Down(e.left) \in 0..CacheTtl /\ Up(e.age, CacheTtl) \in 0..CacheTtl
          /\ Down(e.left) + Up(e.age, CacheTtl) = CacheTtl
      BY <3>1, RagServiceAssumption DEF Down, Up
    <3>3. /\ f.left = Down(e.left) /\ f.age = Up(e.age, CacheTtl)
          /\ f.text = e.text /\ f.community = e.community
      BY <3>1 DEF Entries
    <3>4. f \in Entries
      BY <3>1, <3>2 DEF Entries
    <3>5. f \in Good
      <4> HIDE DEF f
      <4> QED BY <3>1, <3>2, <3>3, <3>4 DEF Good
    <3> QED BY <3>5
  <2>3. cache \in Seq(Good) /\ Len(cache) <= CacheCapacity
    BY DEF CacheInv
  <2>4. cache' \in Seq(Good) /\ Len(cache') = Len(cache)
    <3>1. DOMAIN cache = 1..Len(cache) /\ Len(cache) \in Nat /\ \A i \in DOMAIN cache : cache[i] \in Good
      BY <2>3
    <3>2. DOMAIN cache' = DOMAIN cache
      BY <2>1
    <3>3. ASSUME NEW i \in DOMAIN cache PROVE cache'[i] \in Good
      BY <2>1, <2>2, <3>1
    <3>4. cache' = [i \in 1..Len(cache) |-> cache'[i]]
      BY <2>1, <3>1
    <3> QED BY <3>1, <3>3, <3>4
  <2> QED BY <2>1, <2>3, <2>4 DEF CacheInv, CachedAnswersAreFresh
<1>7. ASSUME NEW r \in Requests, Step(r) PROVE CacheInv'
  <2>1. CASE Arrive(r)
    BY <2>1 DEF Arrive, CacheInv, CachedAnswersAreFresh
  <2>2. CASE CacheMiss(r) \/ CacheHit(r) \/ Put(r)
    BY <1>3, <1>4, <1>5, <2>2
  <2> QED
    BY <1>1, <1>7, <2>1, <2>2 DEF Step, FindIndex, StartIndex, BuildIndex, IndexFails, Admit, Refuse, Embed,
       EmbedFails, Retrieved, SearchFindsNothing, SearchFinds, Cancel, ModelAnswers, ModelSaysNothing,
       ModelFails, StreamRetries
<1>8. CASE UNCHANGED vars
  BY <1>1, <1>8 DEF vars, request
<1> QED BY <1>6, <1>7, <1>8 DEF Next

LEMMA CacheInvariance == Spec => [](AskInv /\ CacheInv)
<1>1. Init => AskInv /\ CacheInv
  BY RagServiceAssumption DEF Init, AskInv, CacheInv, CachedAnswersAreFresh, Places
<1> QED BY <1>1, AskNext, CacheNext, PTL DEF Spec

\* rag_service.cpp:269-413: what a cancelled stream has got and what was asked about
\* the community never come into the semantic cache, although a stream that its
\* service cuts short may.
THEOREM CancelledAnswersAreNotKept == Spec => []CacheIsSound
<1>1. CacheInv => CacheIsSound
  BY DEF CacheInv, CacheIsSound, Good
<1> QED BY <1>1, CacheInvariance, PTL

\* resilience.cpp:27-55: a hit moves an entry to the end and does not make it
\* younger, so that no answer outlives its time to live in the cache.
THEOREM HitsAreFresh == Spec => []CachedAnswersAreFresh
<1>1. CacheInv => CachedAnswersAreFresh
  BY DEF CacheInv
<1> QED BY <1>1, CacheInvariance, PTL

=============================================================================
