----------------------------- MODULE RagService -----------------------------
(***************************************************************************)
(* Requests to the RAG service (ai_rag/rag_service.cpp) that run at the    *)
(* same time on worker and stream threads, with the three things they      *)
(* share: the knowledge index, loaded or built by the first request that   *)
(* needs it; the circuit breaker; and the semantic cache                   *)
(* (ai_rag/resilience.cpp).                                                *)
(*                                                                         *)
(* A request is cut wherever it calls an upstream service or takes a       *)
(* mutex.  Of an answer it matters what has ended it, whether posts of the *)
(* community went into it, and how old it is.  Time passes in ticks; a     *)
(* deadline is modelled by the ticks that are left to it.                  *)
(***************************************************************************)
EXTENDS Naturals, Integers, Sequences

CONSTANTS
  Requests,    \* bound: requests at the same time
  Questions,
  Similarity,  \* of the embeddings of two questions
  CacheSimilarity, CacheCapacity, CacheTtl,   \* RAG_CACHE_...
  Threshold, Cooldown,                        \* RAG_CIRCUIT_...
  Nobody, None

\* What has ended an answer: the model's service, or the leaving of its client.
Texts == {"ended", "left"}

ASSUME RagServiceAssumption ==
  /\ Similarity \in [Questions \X Questions -> Int] /\ CacheSimilarity \in Int
  /\ CacheCapacity \in Nat \ {0} /\ CacheTtl \in Nat \ {0}
  /\ Threshold \in Nat \ {0} /\ Cooldown \in Nat \ {0}
  /\ Nobody \notin Requests /\ None \notin Texts

VARIABLES
  indexReady,  \* index_initialized_
  indexLock,   \* who holds index_mutex_
  failures,    \* failures_
  openFor,     \* ticks until open_until_; Closed when that is the epoch
  cache,       \* entries_, the least recently used first
  pc, job,     \* where each request is, and what it asks
  answer,      \* the answer that a request is about to store
  canceled,    \* streams whose client has left
  given,       \* the cache entry that answered a request
  streak,      \* history: failures since the last success, up to Threshold
  quiet        \* history: ticks since the last failure, up to Cooldown

index == <<indexReady, indexLock>>
breaker == <<failures, openFor, streak, quiet>>
request == <<pc, job, answer, canceled, given>>
vars == <<index, breaker, cache, request>>

Closed == -1
Jobs == [kind : {"ask", "stream", "retrieve"}, question : Questions, community : BOOLEAN]
Entries == [question : Questions, text : Texts, community : BOOLEAN,
            left : 0..CacheTtl, age : 0..CacheTtl]
Places == {"idle", "ensure", "build", "admit", "embed", "lookup", "search", "model", "retry",
           "put"}

TypeOK ==
  /\ indexReady \in BOOLEAN /\ indexLock \in Requests \cup {Nobody}
  /\ failures \in Nat /\ openFor \in {Closed} \cup 0..Cooldown
  /\ streak \in 0..Threshold /\ quiet \in 0..Cooldown
  /\ cache \in Seq(Entries) /\ Len(cache) <= CacheCapacity
  /\ pc \in [Requests -> Places] /\ job \in [Requests -> Jobs]
  /\ answer \in [Requests -> {None} \cup Texts]
  /\ canceled \subseteq Requests /\ given \in [Requests -> Entries \cup {None}]

Init ==
  /\ indexReady = FALSE /\ indexLock = Nobody
  /\ failures = 0 /\ openFor = Closed /\ streak = 0 /\ quiet = Cooldown
  /\ cache = <<>>
  /\ pc = [r \in Requests |-> "idle"] /\ job = [r \in Requests |-> CHOOSE j \in Jobs : TRUE]
  /\ answer = [r \in Requests |-> None]
  /\ canceled = {} /\ given = [r \in Requests |-> None]

At(r, place) == pc[r] = place
Goto(r, place) == pc' = [pc EXCEPT ![r] = place]

-----------------------------------------------------------------------------
(* The circuit breaker.                                                    *)

\* Mutant: a success closes the breaker and leaves the failures counted.
CloseOnly == failures' = failures /\ openFor' = Closed
Reset == failures' = 0 /\ openFor' = Closed

RecordSuccess == Reset /\ streak' = 0 /\ UNCHANGED quiet

RecordFailure ==
  /\ failures' = failures + 1
  /\ openFor' = IF failures + 1 >= Threshold THEN Cooldown ELSE openFor
  /\ streak' = IF streak < Threshold THEN streak + 1 ELSE streak
  /\ quiet' = 0

\* After the cool-down one more failure opens it again.
AllowRequest ==
  IF openFor = Closed
  THEN UNCHANGED breaker
  ELSE /\ openFor = 0
       /\ openFor' = Closed /\ failures' = Threshold - 1
       /\ UNCHANGED <<streak, quiet>>

-----------------------------------------------------------------------------
(* The semantic cache.                                                     *)

\* The first n entries without those that have expired, and all of them.
LiveOf[n \in 0..Len(cache)] ==
  IF n = 0 THEN <<>>
  ELSE IF cache[n].left > 0 THEN Append(LiveOf[n - 1], cache[n])
  ELSE LiveOf[n - 1]
Live == LiveOf[Len(cache)]

\* The most similar entry of those similar enough, the most recently used of those.
IsBest(entries, i, question) ==
  LET sim(k) == Similarity[question, entries[k].question]
  IN  /\ sim(i) >= CacheSimilarity
      /\ \A k \in DOMAIN entries : sim(k) < sim(i) \/ (sim(k) = sim(i) /\ k <= i)

Without(entries, i) == SubSeq(entries, 1, i - 1) \o SubSeq(entries, i + 1, Len(entries))

\* An entry that is used becomes the youngest, and expires when it would have.
\* Mutant: a hit prolongs the life of an entry.
Prolonged(entry) == [entry EXCEPT !.left = CacheTtl]
Refreshed(entry) == entry

Stored(entry) ==
  LET kept == IF Len(Live) >= CacheCapacity THEN Tail(Live) ELSE Live
  IN  Append(kept, entry)

-----------------------------------------------------------------------------
(* A request.                                                              *)

Arrive(r) ==
  /\ At(r, "idle")
  /\ \E j \in Jobs : job' = [job EXCEPT ![r] = j]
  /\ Goto(r, "ensure")
  /\ answer' = [answer EXCEPT ![r] = None] /\ given' = [given EXCEPT ![r] = None]
  /\ canceled' = canceled \ {r}
  /\ UNCHANGED <<index, breaker, cache>>

\* ensure_index, all of it under index_mutex_.
\* Mutant: the flag is looked at, and the index built, without the mutex.
NoIndexLock(r) == indexLock' = r
TakeIndexLock(r) == indexLock = Nobody /\ indexLock' = r

FindIndex(r) ==
  /\ At(r, "ensure") /\ indexLock = Nobody /\ indexReady
  /\ Goto(r, "admit")
  /\ UNCHANGED <<index, breaker, cache, job, answer, canceled, given>>

StartIndex(r) ==
  /\ At(r, "ensure") /\ ~indexReady
  /\ TakeIndexLock(r) /\ Goto(r, "build")
  /\ UNCHANGED <<indexReady, breaker, cache, job, answer, canceled, given>>

\* The file is loaded, or the documents are embedded and saved; then the two
\* search structures are made.
BuildIndex(r) ==
  /\ At(r, "build")
  /\ indexReady' = TRUE /\ indexLock' = Nobody /\ Goto(r, "admit")
  /\ UNCHANGED <<breaker, cache, job, answer, canceled, given>>

IndexFails(r) ==
  /\ At(r, "build")
  /\ indexLock' = Nobody /\ Goto(r, "idle")
  /\ UNCHANGED <<indexReady, breaker, cache, job, answer, canceled, given>>

Admit(r) ==
  /\ At(r, "admit") /\ AllowRequest
  /\ Goto(r, "embed")
  /\ UNCHANGED <<index, cache, job, answer, canceled, given>>

\* CircuitOpenError
Refuse(r) ==
  /\ At(r, "admit") /\ openFor > 0
  /\ Goto(r, "idle")
  /\ UNCHANGED <<index, breaker, cache, job, answer, canceled, given>>

Cacheable(r) == ~job[r].community

Embed(r) ==
  /\ At(r, "embed")
  /\ Goto(r, IF job[r].kind # "retrieve" /\ Cacheable(r) THEN "lookup" ELSE "search")
  /\ UNCHANGED <<index, breaker, cache, job, answer, canceled, given>>

EmbedFails(r) ==
  /\ At(r, "embed") /\ RecordFailure
  /\ Goto(r, "idle")
  /\ UNCHANGED <<index, cache, job, answer, canceled, given>>

CacheMiss(r) ==
  /\ At(r, "lookup")
  /\ ~\E i \in DOMAIN Live : IsBest(Live, i, job[r].question)
  /\ cache' = Live /\ Goto(r, "search")
  /\ UNCHANGED <<index, breaker, job, answer, canceled, given>>

CacheHit(r) ==
  /\ At(r, "lookup")
  /\ \E i \in DOMAIN Live :
       /\ IsBest(Live, i, job[r].question)
       /\ cache' = Append(Without(Live, i), Refreshed(Live[i]))
       /\ given' = [given EXCEPT ![r] = Live[i]]
  /\ Goto(r, "idle")
  /\ UNCHANGED <<index, breaker, job, answer, canceled>>

\* An answer that may be stored, or not.
MayStore(r) == Cacheable(r)

Keep(r, text) ==
  /\ answer' = [answer EXCEPT ![r] = text]
  /\ Goto(r, IF MayStore(r) THEN "put" ELSE "idle")

\* retrieve gives what it has found, nothing or something.  A failing reranker changes
\* the order of what is found only.
Retrieved(r) ==
  /\ At(r, "search") /\ job[r].kind = "retrieve"
  /\ RecordSuccess /\ Goto(r, "idle")
  /\ UNCHANGED <<index, cache, job, answer, canceled, given>>

\* prepare: the fallback is an answer like any other.
SearchFindsNothing(r) ==
  /\ At(r, "search") /\ job[r].kind # "retrieve"
  /\ RecordSuccess /\ Keep(r, "ended")
  /\ UNCHANGED <<index, cache, job, canceled, given>>

SearchFinds(r) ==
  /\ At(r, "search") /\ job[r].kind # "retrieve"
  /\ Goto(r, "model")
  /\ UNCHANGED <<index, breaker, cache, job, answer, canceled, given>>

Calling(r) == pc[r] \in {"model", "retry"}

\* The client of a stream leaves.
Cancel(r) ==
  /\ ~At(r, "idle") /\ job[r].kind = "stream"
  /\ canceled' = canceled \cup {r}
  /\ UNCHANGED <<index, breaker, cache, pc, job, answer, given>>

\* What has come when the call returns without an error.  A stream ends with its
\* connection: neither "[DONE]" nor an error event among its lines is looked for, so
\* that "ended" is all that the model had to say, or what it had said when its
\* service gave up.  A client that has left may have left too late.
Returned(r) == {"ended"} \cup (IF r \in canceled THEN {"left"} ELSE {})

\* Mutant: what a canceled stream has got so far counts as an answer.
CountPart(r) == TRUE
Counts(r) == r \notin canceled

ModelAnswers(r) ==
  /\ Calling(r)
  /\ \E text \in Returned(r) :
       IF Counts(r)
       THEN RecordSuccess /\ Keep(r, text)
       ELSE UNCHANGED <<breaker, answer>> /\ Goto(r, "idle")
  /\ UNCHANGED <<index, cache, job, canceled, given>>

\* An empty answer is not stored; an empty stream is not even a success.
ModelSaysNothing(r) ==
  /\ Calling(r)
  /\ IF job[r].kind = "stream" THEN UNCHANGED breaker ELSE RecordSuccess
  /\ Goto(r, "idle")
  /\ UNCHANGED <<index, cache, job, answer, canceled, given>>

ModelFails(r) ==
  /\ Calling(r) /\ RecordFailure
  /\ Goto(r, "idle")
  /\ UNCHANGED <<index, cache, job, answer, canceled, given>>

\* A stream that has not said anything yet calls once more, and asks nobody.
StreamRetries(r) ==
  /\ At(r, "model") /\ job[r].kind = "stream" /\ r \notin canceled /\ RecordFailure
  /\ Goto(r, "retry")
  /\ UNCHANGED <<index, cache, job, answer, canceled, given>>

Put(r) ==
  /\ At(r, "put")
  /\ cache' = Stored([question |-> job[r].question, text |-> answer[r],
                      community |-> job[r].community, left |-> CacheTtl, age |-> 0])
  /\ Goto(r, "idle")
  /\ UNCHANGED <<index, breaker, job, answer, canceled, given>>

-----------------------------------------------------------------------------
\* A tick of steady_clock.
Down(n) == IF n > 0 THEN n - 1 ELSE n
Up(n, limit) == IF n < limit THEN n + 1 ELSE n

Tick ==
  /\ openFor' = Down(openFor) /\ quiet' = Up(quiet, Cooldown)
  /\ cache' = [i \in DOMAIN cache |->
                 [cache[i] EXCEPT !.left = Down(@), !.age = Up(@, CacheTtl)]]
  /\ UNCHANGED <<index, failures, streak, request>>

Step(r) ==
  \/ Arrive(r) \/ FindIndex(r) \/ StartIndex(r) \/ BuildIndex(r) \/ IndexFails(r)
  \/ Admit(r) \/ Refuse(r) \/ Embed(r) \/ EmbedFails(r) \/ CacheMiss(r) \/ CacheHit(r)
  \/ Retrieved(r) \/ SearchFindsNothing(r) \/ SearchFinds(r) \/ Cancel(r)
  \/ ModelAnswers(r) \/ ModelSaysNothing(r) \/ ModelFails(r) \/ StreamRetries(r) \/ Put(r)

Next == (\E r \in Requests : Step(r)) \/ Tick

Spec == Init /\ [][Next]_vars

-----------------------------------------------------------------------------
(* Properties.                                                             *)

\* A thread that searches the index, without the mutex, searches one that is
\* complete and that nobody is filling.
SearchesCompleteIndex ==
  \A r \in Requests : At(r, "search") => indexReady /\ \A s \in Requests : ~At(s, "build")

\* The breaker refuses only while the upstream services are failing: Threshold
\* failures with no success between them, the last one within the cool-down,
\* although calls that overlap report in any order and late.
BreakerEarned == openFor > 0 => streak = Threshold /\ quiet < Cooldown

\* No cached answer was cut short by its client's leaving, which only the flag tells
\* from its end, and none comes from posts of the community, which the cache's key
\* knows nothing of.  Whether its service has cut one short nobody asks.
CacheIsSound == \A i \in DOMAIN cache : cache[i].text # "left" /\ ~cache[i].community

\* An answer from the cache was got from the model within the time to live.
CachedAnswersAreFresh == \A r \in Requests : given[r] # None => given[r].age < CacheTtl
=============================================================================
