# RAGReactor-AICommunity in TLA+

A formal model of the server in this repository: a C++ HTTP server (one main
reactor, several sub reactors, a thread pool, a MySQL connection pool) with a
community, a retrieval-augmented question service and a tool that indexes the
community's posts on top. The modules are written from the code; paths below are
relative to the repository, `M.tla` is in this directory.

Check a run with `tlc -workers 2 -config <cfg> <module>`, a proof with
`tlapm <module>.tla`. `PROJECT.json` lists the runs, a mutant of the code's
definitions for every property, the source lines every definition stands for,
the findings and the hazards.

## 1. The system

| Component | Code | State | Operations | Talks to |
|---|---|---|---|---|
| Main reactor | `webserver.cpp` | `m_conn_pool`, `m_free_conns` | accept, `acquire_conn`, `recycle_conn`, hand-off | sub reactors' queues |
| Sub reactor | `sub_reactor.cpp` | `m_connections`, `m_deadlines`, `m_pending_writes`, `m_pending`, `m_completed`, eventfd | `handle_read/write/notifications`, three sweeps, `close_connection` | thread pool (`append_p`), `http_conn` |
| Connection | `http/http_conn.cpp` | buffers, parser state, `m_processing`, `m_timeout_pending`, `m_generation` | `read_once`, `process_async`, `write`, `reset_request`, `resume_sse_if_due` | everything below |
| Thread pool | `threadpool/threadpool.h` | `m_workqueue`, semaphore | `append_p`, `run` | connections, completions |
| MySQL pool | `CGImysql/` | `connList`, semaphore | lease, release | workers |
| Login guard, buckets, sessions | `http/http_conn.cpp` 36-502 | maps under locks | block, refill, create, expire | login and request handlers |
| API router and event streams | `api/` | `SseStream`, active-stream counter | routing, `push`, `try_pop`, `finish`, `cancel` | a detached thread per stream, sub reactor |
| RAG service | `ai_rag/rag_service.cpp`, `resilience.cpp` | index, semantic cache, circuit breaker | `prepare`, `ask`, `stream_answer` | providers over HTTP |
| Retrieval | `ai_rag/` | vector store file, HNSW graph | split, embed, search, fuse, rerank | files |
| Community | `community/` | tables, feed snapshots | feed, `record_action`, ranking | MySQL |
| Index synchronisation | `community_index_sync.cpp`, `migrations/` | registry rows, vector file | one pass over the registry; triggers | MySQL, vector store |
| Log | `log/` | circular queue, file | `write_log`, the log thread | everybody |

The main thread only accepts. It gives each socket a free `http_conn` object
and puts both into a sub reactor's queue. The sub reactor does all socket I/O of
its connections, hands complete reads to the thread pool and hears back through
a second queue; both queues wake it through an eventfd. Pool threads parse and
answer a request, lease MySQL connections, and, for a streamed answer, start a
detached thread that fills an `SseStream` which the sub reactor empties.

What is hard here: the same `http_conn` is touched by a reactor thread and a
worker, its descriptor and the object itself are recycled, one-shot epoll
interest must be re-armed by exactly one of them, timeouts and hang-ups race
with completions, responses are sent in pieces, clients pipeline; a leased
database connection is held while two other locks are taken; a streaming
producer can outlive its client; a login is a sequence of looks at a shared
record; upstream answers come late; a database transaction fails at any
statement; the indexing tool is killed at any of its steps. Section 7 has the
plan for the rest.

Correctness, component by component:

* connection life cycle: objects are conserved; no notification is lost; one
  thread at a time; no dead connection; no response replaced; no request lost;
  what was dispatched is completed;
* MySQL pool: exclusive leases, no pop of an empty list, no blocking at the
  documented sizes, no lost permit, sessions clean between leases;
* thread pool: bounded, no lost job, no lost wake-up;
* event streams: bounded, in order, nothing after cancel, the producer never
  blocks for ever on a client that has left;
* login guard: a login is frozen only for failures; no attempt that comes after
  the freeze ends it;
* RAG service: the index is searched only when it is complete; the breaker is
  open only after consecutive recent failures; the cache has only fresh answers,
  none that a leaving client has cut short, none from the community's posts;
* community: counters agree with reactions and with the log, an event counts
  once, a kept page follows its viewer's reactions; the ranking is clean;
* index synchronisation: what is searchable is what is visible, after a kill as
  well; failures take nothing away;
* log: lines in order, the log thread never sleeps on one.

## 2. Modules

| Module | What it is |
|---|---|
| `Reactor` | main reactor, one sub reactor, the thread pool and `http_conn` as they interact; the kernel and the clients as environment |
| `MCReactor` | its instances for TLC |
| `ReactorProofs` | type correctness, conservation of objects, deadlines and notifications, for all constants; for clients that wait for their responses also one user per object, nobody forgotten, no response replaced, no request dropped |
| `SqlPool` | the MySQL connection pool with uploads, the legacy page, registration and the community API on top |
| `MCSqlPool` | its instances |
| `SqlPoolProofs` | leases are exclusive, pops are safe, no blocking, the page keeps its posts, users have rows, for all constants |
| `Channel` | the abstract event stream: a FIFO that the consumer may cancel |
| `SseStream` | `api/sse_stream.cpp`: mutex, condition variable, byte limit and the flag of `cancel` |
| `MCSseStream` | its instance |
| `SseStreamProofs` | no lost wake-up, nothing after cancel, the byte counter and its bound, and that `SseStream` implements `Channel` |
| `ModelStream` | streamed questions: slots, the detached thread with its retry, the connection; streams are channels |
| `MCModelStream` | its instance |
| `ModelStreamProofs` | the slots' bound, one answer, one last event, for all constants |
| `ThreadPool` | the list of jobs, its mutex and its semaphore |
| `LoginGuard` | the records of failed logins, each operation under its lock |
| `AsyncLog` | the circular log queue and the log thread |
| `LoginService`, `MCLoginService` | logins as jobs of the thread pool that use the guard and the log, and its instance |
| `LoginServiceProofs` | no forgotten job, the log's order, freezes are earned and hold against later attempts, for all constants |
| `RagService`, `MCRagService` | questions, streams and retrievals at the same time on the index, the breaker and the cache |
| `RagServiceProofs` | the index's mutex, the breaker and the cache, for all constants |
| `Ranking` | the order of a feed and its pages, as functions |
| `Community`, `MCCommunity` | actions and feeds as transactions at the same time |
| `CommunityProofs` | counters, events and kept pages, and what the ranking's functions compute, for all constants |
| `IndexSync`, `MCIndexSync` | the posts' registry, the vector file and the tool |
| `IndexSyncProofs` | the file is current and failures keep chunks, for all constants |

### Reactor

State is the code's: `freeConns` is `m_free_conns`, `incoming` and `completed`
the two mailboxes, `notified` the eventfd, `connections`, `deadlines` and
`pendingWrites` the reactor's maps, `conn` the fields of each object, `jobs` the
pool's queue. `socket` is the kernel's side: whether epoll interest is armed
(one-shot), the bytes in flight each way, and what the peer has done.

A reactor step is one handler of `run()`, or the part of one that another
thread can get in between: `EpollWait` returns everything that is ready and
disarms it; `HandleEvent` takes one event of that batch (`HandleRead`,
`HandleWrite`, a close); `DrainNotifications`, `TakeNotifications`, `Adopt`,
`Finish` and `EndNotifications` are `handle_notifications`, with the drain of the
eventfd and the swap of the queues apart; the sweeps are `Resume`, `Reap`, `Retry`
and `Expire`. Handlers end in `CloseConnection`, `Dispatch` or `KeepOpen`, the
code's three ways out. The main thread pushes (`Accept`) and then wakes the
reactor (`WakeAfterAccept`); a worker does the same with a completion (`Notify`,
`WakeReactor`).

Between `Take` and `Notify` a worker makes a response. For an ordinary one that is
one step, `Process`: the fields it writes are read by the reactor only in handlers
that need an event, a retry or an armed descriptor for the connection, of which
there is none meanwhile (`OneUserPerConnection`), and the sweep of event streams
passes it by, since `m_sse_streaming` is not set. (A client that sends while its
stream is open, as none does in the runs, can have it set: the model then lets the
sweep in before the step.) A streamed response is two
steps, because line 1746 of `http_conn.cpp` sets `m_sse_streaming` before the
rest: after `PublishStream` and before `BuildStream` the reactor's `Resume`, which
does not ask whether a worker has the object, may find the stream due. It then
takes a chunk or a heartbeat, writes the same fields as the worker and arms the
descriptor. The field `entered` marks such an object. What it leaves is undefined
below this level (two threads write one `std::string` and one iovec); the model
lets `bytes_to_send` be anything afterwards (`Built`) and the write fail
(`WriteFails`) or succeed. A response whose headers do not fit closes the
connection with its stream published.

Bytes are units: `part` and `end` of a request, `bad` for one that is rejected,
`junk` for the cut-up remains of one. A response is a number of pieces and the
kernel takes `SendBuffer` of them. Time is a choice: any deadline may have
passed at a sweep. Reactors share only the object pool and the job queue, so one
is enough; the others would appear to it as an environment that takes and
returns objects. Left out: bodies larger than the read buffer (they go to
`m_body_buffer` and are read by the same handler), the busy answer to a socket
for which no object is free, and stopping.

### SqlPool

`connList` and `permits` are the list and the semaphore `reserve`, which
`GetConnection` and `RealeaseConnection` change at different moments (`Get`,
`Wait`, `Pop`; `Push`, `PostPermit`). Each worker has a place in one of four
requests. `session` keeps what a MySQL session remembers between leases:
autocommit, and rows it has not committed. `Select` and `Write` are the two
halves of `rebuild_community_page` under `community_page_init_lock`; an upload
takes that lock with a connection in hand and the legacy page takes it first.
SQL and HTML are left out: a post or a user is an identity. `opened`, chosen at
the start, is the set of connections that `init` has opened, so that one run has
pools smaller than and as large as the number of workers.

The upload's transaction may fail at any statement, at its commit, at
`mysql_rollback` and at the `mysql_autocommit(mysql, 1)` after both, whose results
the code ignores (1136, 1137). `RestoreAutocommit` is that last call: it commits
what is still pending, or fails and gives the connection back with autocommit off,
as the early return at 1028 does. `AfterRollback` is what may be pending before
it. What is registered over such a session is uncommitted until another call
commits it or a rollback drops it. `leftOff` and `via` are history: the
connections so given back, and the one over which a user was last registered.

### SseStream and Channel

`chunks`, `queuedBytes`, `finished` and `canceled` are the fields of the class.
`push` is cut at the mutex and between the test of the wait's predicate and
falling asleep (`LockPush`, `Test`, `Sleep`, `WakeUp`, `SpuriousWakeUp`,
`Enqueue`); `cancel` is cut between the flag and the mutex (`CancelFlag`,
`CancelClear`). The other operations are one critical section each. Of a chunk
only the size matters. The refinement mapping to `Channel` shows the client an
empty queue as soon as the flag is set, before `cancel` has cleared it.

### ModelStream

Each question has a place `at` in the code of its request and its detached
thread (`api_router.cpp` 549-664): counted and perhaps refused, `prepare`, the
sources event, the call of the model with its pieces of text, the pause and the
second call, the error path, `done`, `finish`, and the guard that gives the slot
back. The model's answer, its failures and those of `prepare` are choices. That
the thread cannot be made (571) is left out: nothing catches the exception, so
the process ends. A stream here is a channel with room for `Capacity` events, which is what
`SseStream` implements. The connection sends, closes at the end of the stream,
or leaves and cancels, at any moment. Heartbeats carry no event and are left
out.

### LoginService: ThreadPool, LoginGuard, AsyncLog

`LoginService` joins three small modules, each of which gives its operations as
actions on its own variables. `ThreadPool` has `append_p` in two steps (the list
under the mutex, the semaphore after it) and a worker's wait, pop and return.
`LoginGuard` has the record of a key: of the first failure its age, of a block
the ticks that are left; a tick of the clock makes every record older.
`AsyncLog` has the array and the indices of `block_queue`; `accepted` is the
queue it should be. A login takes a step for every call that takes a lock: two
looks (`AskAddress`, `AskName`), the password, two records of a failure or two
removals, a log line (`TestFull`, `Push`) and two looks for the choice of the
page. `recent` and `late` are history for the two properties about freezes.
Whether a password is right belongs to the attempt.

### RagService

A request goes `ensure`, `build`, `admit`, `embed`, `lookup`, `search`, `model`,
`retry`, `put`: it is cut at each call of an upstream service and at each mutex.
The index is a flag and the holder of its mutex. Of the breaker there are the
counter and the ticks until it may be asked again; of a cache entry its
question, the ticks it has left and, as history, its age, what has ended its text
(the model's service or its client's leaving) and whether community posts went
into it. The client does not see that a service has cut a stream short: neither
`[DONE]` nor an error event is looked for (`llm_client.cpp:104`), and only curl
errors and the HTTP status are failures. Such an answer has "ended" like any other
(`Returned`). Which questions are close enough is
the constant `Similarity`. What a search finds, whether an upstream call fails,
and whether a stream's client leaves are choices. A page about a post
(`community_related`) is a request of kind `retrieve`.

### Community and Ranking

An action is one transaction, a step for each SQL statement. Its writes are kept
in `draft` until the commit; InnoDB's locks follow from how far a transaction is
and what it has written: an `INSERT IGNORE` that finds the row shares it, a
write owns it, the unique index on `event_id` lets one of two equal events in.
A statement whose lock is taken waits, and any statement may fail, so a deadlock
is a wait that ends in `ActionFails`. `CommitUnanswered` is a commit that
succeeds and is reported as failed. A feed reads (`ReadCandidates`) and stores
its page (`Store`) in different steps, without a transaction around them. How
long a dwell took is left out: it counts one.

`Ranking` is functions: the order by score, duplicates out, authors spread, and
the two kinds of pages. A loop of the code is a recursive function of the number
of its rounds; the sort is what it returns, each post at the place that the posts
before it leave. A score is any function of the posts, so the
floating-point formula does not matter; `FeedIsClean` compares the result with
what a reader may expect, for all scores and all dislikes.

### IndexSync

`post` and `row` are the tables, changed by a user's statement together with
the triggers of `migrations/002`. The tool loads the file (`Start`), reads all
records (`Select`), goes through them in any order, and replaces the file
(`Publish`, or `RenameFails` and `PublishAgain`). Its own variables are lost
when it ends or is killed (`End`, enabled everywhere). The chunks of a post are
the version they were made from. `stale` is history: the posts about which the
file may be wrong, because they changed after the pass read them or the pass
counted them as failed.

## 3. The runs

| Run | Instance | Shows |
|---|---|---|
| `reactor_pool` | 2 objects, 2 descriptors, 1 worker, queue of 1, ordinary responses, each object used twice | objects are conserved, every connection expires, no notification is lost |
| `reactor_streams` | 1 object, 1 descriptor, 2 workers, ordinary and streamed responses of 2 pieces, the object used twice, fair threads | one user per object, nobody forgotten, no response replaced, no request lost, for clients that wait for each response; a dispatched request is completed and a put-off close happens |
| `reactor_short_sends` | violation | a response is replaced while part of it is unsent |
| `sqlpool` | 2 workers, 1 or 2 connections, all faults, fair workers | exclusive leases, safe pops, users that are stored, a page that never goes back; with 2 connections nobody blocks on the semaphore and the page lock is released |
| `sqlpool_blocked` | violation | an upload and the legacy page block each other for ever |
| `sse_stream` | 4 chunks of sizes 1, 1, 2, 3, limit 2 bytes | the queue is a cancellable FIFO, bounded, without lost wake-ups; every push returns |
| `model_stream` | 2 questions, 1 slot, room for 2 events, 2 pieces of text per call | the slot counter is exact and bounds the threads; no repeated text, one last `done`, every thread ends |
| `index_sync` | 2 posts, 2 versions each, 2 dimensions, all failures and kills | the file is current, failures keep chunks |
| `rag_service` | 2 requests at a time, 2 questions, cache of 2, threshold 2, 2 ticks | complete index, earned breaker, sound and fresh cache |
| `community` | 2 requests at a time, 2 users, 3 events; 5 posts of 3 authors, all scores in 0..2 | counters, events, pages and rankings |
| `login` | 2 workers, 1 address, 1 name, list of 1 job, log queue of 2, freeze after 2 | no forgotten job, log in order, freezes are earned and hold against later attempts |
| `login_thaws` | violation | freeze after 3, as in the code: a late attempt ends it |

Bounds. Two objects and two descriptors (`reactor_pool`) are the least with which
an object can come back under another descriptor and a descriptor under another
object; `MaxGeneration = 2` is the least that lets a stale completion meet a
reused object. A queue of one job and two connections makes rejection happen. One
object is enough for what happens to one connection between the reactor and two
workers (`reactor_streams`), for connections share only what the first run has;
`MaxStreams` counts the streams open at once. A buffer of two units holds a
request and the beginning of the next. A client that does not read its last
response makes a send block, a send buffer smaller than the response makes it
short, and one unit in flight is enough to fill the buffer over several reads.
For the pool, two workers on one
connection give a holder and a waiter that has passed the empty test or is sent
away; as many connections as workers is the program's default
(8 and 8). For the event stream, sizes below, at and above the limit make a
push fit exactly, wait for one pop or for several, and pass as an oversized
chunk; each chunk is pushed once, which names it. Two questions for one slot
let one be counted and refused while the other's thread runs or ends. Two pieces
of text are the least for a call that fails after it has emitted, and room for
fewer events than an answer has makes the thread wait.

For the index, two versions let a post change while its chunks are made, the
second dimension makes a file useless, and a second post keeps its chunks while
the first one's embedding fails. For the RAG service, two requests overlap in
every way a lock or the breaker can tell apart (a third would only repeat one of
them); a cool-down and a life of two ticks have a beginning, a middle and an
end, and a cache of two for two questions evicts because a question may be
stored twice. For the community, three events are the least for a like, an
unlike and an action of somebody else; five posts of three authors, one author
with three of them and two posts alike, make the pass over authors look further
than its neighbour and run out of other authors. For logins, two workers let one
attempt be past the look when the other blocks; `login` freezes after two
failures so that all properties fit one run, `login_thaws` after three. A list
of one job and a log queue of two lines fill up.

Symmetry is used only in runs without liveness. Deadlock is checked, except
where workers really may block each other (`sqlpool`, with one connection, and
`sqlpool_blocked`) and in the two runs of `LoginService`, where the clock may
always go on.

## 4. Fairness

`Reactor!FairSpec`: the reactor thread and each pool thread are scheduled
(`WF` on each thread's own next-state relation), and the main thread wakes the
reactor after a push (`WakeAfterAccept`), but need not accept another socket.
Clients need not act: a client that never reads or never sends is allowed. `epoll_wait` has a 100 ms timeout,
so the reactor's loop is never blocked. `SqlPool!FairSpec`: a worker inside a
request goes on when it can (`WF` on its whole step); nobody has to send a
request. A mutex or a semaphore of the platform promises no order among its
waiters; `StarvationFreeSpec` gives them one (`SF`) only in the violation run,
so that what it finds is a deadlock and not starvation.

`SseStream!FairSpec`: a push that has begun goes on (`WF(Pushing)`, without
spurious wake-ups and without the start of another push), and the consumer goes
on (`WF(Consuming)`): the sub reactor visits every stream at least every 100 ms
and its write timeout closes, and so cancels, a connection whose client does not
read. `ModelStream!FairSpec` is the same for each thread and each connection;
every call of the model has a timeout (`CURLOPT_TIMEOUT_MS`).

## 5. What is proved

Every safety property that a run checks is a theorem, for all values of the
constants that satisfy each module's named assumption, with no bound on
generations, clients, posts or the lengths of queues beyond the constants
themselves. The four properties of the reactor's second half have a hypothesis
about clients as well, stated below.

### Reactor

* `TypeCorrect`, `PoolConservation`, `ConnectionsExpire`, `NotificationsSeen`, for
  every client. `PoolConserved` is not
  inductive: registering a descriptor that is already registered would lose the
  object under it. That cannot happen because the kernel does not return an open
  descriptor from `accept` and a descriptor is closed exactly when it leaves the
  map; `OpenOnce` says so, `AdoptsAll` says that the swapped queue is empty when
  queues are swapped again, and `BusyHasObject` that a working thread has an
  object. The proof follows the code: one lemma for each way a handler can end
  (close, dispatch, keep open) and for each handler only that it changes nothing
  but its own connection. `NotificationsSeen` goes step by step: a push leaves
  its thread about to wake the reactor, and the reactor drains before it takes.
* `OneUser`, `NobodyForgotten`, `ResponsesNotReplaced`, `RequestsKept`. Their
  hypothesis is `Polite`: a client sends its next request after the response to
  the last, and a response fits the kernel's send buffer (`Habits = {}` and
  `ResponseLength <= SendBuffer`, as in `reactor_streams`). It is needed:
  `reactor_short_sends` is a response that does not fit, section 6 has the
  pipelining client. Nothing is assumed about how requests are cut into packets,
  when clients leave, which of their responses are streams or whether they read.
  The invariant `FlowInv` has two halves. `Flows` says of every descriptor where
  the one request and its response are (`Dialogue`: being composed, on its way,
  in the buffer, in the response, on its way back) and who goes on with the
  connection (a worker, epoll, the sweep for writes, the sweep that closes ended
  streams). `Users` says that the busy objects are those in the queue, in the
  hands of workers or in a completion, each in one place and once, and that a
  completion still means what it says when it is applied. Proving it takes the
  three exits again, with what each leaves to the next user. An object that the
  sweep has entered has no dialogue any more: `Disturbed` says what is left of it,
  that it is streaming or done with, that its bytes may be anything and that
  somebody goes on with it or closes it, and lemmas `Entered...` carry that through
  each handler. `OneUser` and `ResponsesNotReplaced` therefore except the entered
  object, in its second half and between the two steps of the worker;
  `NobodyForgotten` and `RequestsKept` except nothing.

### MySQL pool

* `ConnectionsConserved`, `PopSafe`, `NoBlocking`. The invariant counts: list +
  holders = connections, and list = permits + workers that have a permit but no
  connection yet + workers that have given the connection back but not the
  permit. `PopSafe` reads off the second equation; `NoBlocking` needs that a
  waiting worker is none of the holders, poppers and posters, so these are fewer
  than the workers.
* `PageNeverLosesPosts`. `PageInv` says who holds the page lock by where it is in
  the code, and that an upload at the page has its row committed and in what it
  has selected. The part that is easy to miss is the session: the upload's `SELECT`
  sees the row because its own commit has ended the transaction before, whether or
  not autocommit could be put back; a session left in a transaction may show a page
  request an earlier state, but that rebuilds only before the first upload has
  shown its post.
* `UsersHaveRows`. A session without autocommit belongs to a connection of
  `leftOff`; over any other a name is added to `users` after its row has been
  committed. The exception is what the ignored results cost (section 6).

### Event streams

* `NotifiedSafe`, `CancelSafe`, `DrainedSafe`, `StreamIsAChannel`. The invariant
  says who holds the mutex where, which flag belongs to which end, and
  `AboutToSleep`: what the test of the predicate has found still holds when the
  producer falls asleep. `NoLostWakeup` follows from it, since only the consumer
  can make room and it always notifies. The refinement takes each step to one
  operation of `Channel` or to a stutter.
* `QueueIsBounded`, `TypeCorrect`. `queuedBytes` is the sum of the queued sizes,
  so it is never taken below zero and an oversized chunk is alone in the queue.
  Two lemmas say what appending a chunk and taking the first do to the sum.
* `SlotsSafe`, `TypesSafe`, `OneAnswerSafe`, `EndSafe` of `ModelStream`. The
  counter equals the threads plus the requests that were counted and are about to
  be refused, so a request that is admitted found fewer threads than slots.
  `OneCall` says that every piece of text queued or sent belongs to the current
  call and that `emitted_delta` is set if there is one; it is false in the pause
  before the second call. `Ending` looks at all events the stream has accepted:
  none is `done` before the thread reaches `finish`, exactly the last one is
  afterwards, unless the client has left.

### Logins

* `NoForgottenJob`. The list is as long as the semaphore, the posts under way and
  the workers between the semaphore and the list together.
* `LogKeepsOrder`. `back` is `size` places after `front`, once round the array at
  most, and what lies between is what was accepted.
* `FreezesAreEarned`. `GuardInv` compares a record with the ages of the failures
  since the last success or block: its count is not more than the failures it
  covers, and its first failure is the oldest of these.
* `NewAttemptsDoNotThaw`. `LateInv`: whoever is past the look at a blocked key
  had looked before the block began.

### RAG service

* `IndexComplete`, `BreakerIsEarned`. The mutex of the index is held exactly by
  the request that builds, and every place after `ensure` has the flag set. The
  breaker's counter may run ahead of the streak of failures only when the streak
  has reached the threshold (the half-open state starts at `Threshold - 1`), and
  what is left of the cool-down says how long ago the last failure was.
* `CancelledAnswersAreNotKept`, `HitsAreFresh`. A call that returns after its client
  has left finds the flag set and stores nothing. Of every entry, what is left and its
  age make `CacheTtl`; a look keeps the entries that have time left, and moves the
  one it finds to the front without making it younger. What a look keeps is a
  recursive function, about which `LiveEntries` is proved by induction.

### Community

* `EventsAreCountedOnce`, `CountersMatchReactions`. The counters of a post change
  at a commit only, so the invariant speaks of the drafts: a transaction that is
  about to commit would make of the row what the action makes of it. This is
  stable because of the locks: `Excluded` says, for any two transactions, that
  they have not both inserted an event and that what one owns the other does not
  share, and `EventIsNew` that the event of a transaction is not in the log.
* `PagesFollow`. Whoever is about to drop pages has its event in the log, under
  the user whose pages it drops.
* `FeedsAreClean` is about `Ranking` and needs no state. The sort has a lemma of
  its own: the number of posts before a post is a one-to-one numbering of the
  places. Removing duplicates and spreading authors are inductions over the rounds
  of the loops; of the second, `Separate` is the loop's invariant: up to here an
  author follows himself only when all the rest is by him, which a later swap
  cannot undo because it stays behind. For the pages, the posts older than the
  last one shown are those at the later places, and each page goes on where the
  last ended, so that as many pages as there are posts reach the end.

### Index synchronisation

* `FileIsCurrent`, `TypeCorrect`, `FailureKeepsChunks`. The invariant carries
  three facts through a pass: what was read of a post that has not changed since
  is what the tables say; a chunk never has a version later than its row's; and
  the tool's copy of the chunks is right about every post that is done and not
  failed. `UpToDate` is sound only because a version is never used twice, which is
  what the triggers are for.

### How, and what is left to TLC

Inductions over the rounds of a loop or the length of a sequence are made over
sets of numbers: the well-founded order of the naturals gives a set its least
element (`Least`), that gives `Induction` for sets, and `Iteration` says that a
function defined round by round exists, which a recursive definition alone does
not. Every step of the inductive invariants was checked with TLC on the runs'
instances before it was proved.

Only model-checked: liveness (`DispatchCompletes`, `PageLockReleased`, `PushReturns`, `ThreadEnds`), because the proof system does
not do `ENABLED`, and the three violations.

## 6. Findings

1. `reactor_short_sends` (`sub_reactor.cpp:139`): after `EAGAIN` the buffer
   still holds the request being answered, `has_buffered_request()` says true,
   and the same request is processed again while its response is being sent.
2. `sqlpool_blocked` (`http_conn.cpp:1409`): lock order. Not reachable with the
   default sizes, reachable with fewer connections than workers.
3. `login_thaws` (`http_conn.cpp:308`): the page of a frozen login promises five
   minutes; an attempt that was past the check when the freeze began, and fails,
   starts the record anew and ends it.

Met while modelling and not stated by a run:

* `http_conn.cpp:1746`: `m_sse_streaming` is set before the response it belongs to,
  and `resume_sse_streams` (`sub_reactor.cpp:196`) does not ask `m_processing`. With
  ordinary clients the sweep can write `m_dynamic_body`, `m_iv` and
  `m_write_idx` while a worker does, and arm the descriptor under it. Without the
  exception for `entered`, TLC finds `OneUserPerConnection` and
  `ResponseNotReplaced` violated in twenty steps: one request, published, one sweep.
* `http_conn.cpp:1136`: the results of `mysql_rollback` and `mysql_autocommit(mysql,
  1)` are ignored, and the early return at 1028 skips both. The connection may go
  back to the pool inside a transaction; a user registered over it can log in until
  the restart and is not in the database.
* `llm_client.cpp:104`, `http_json_client.cpp:155`: a model stream that is cut short
  after an HTTP 200, or ends with an error event, is taken for an answer and cached
  (`rag_service.cpp:375`).
* `api_router.cpp:571`: if the thread of a stream cannot be made, the exception ends
  the process.
* `http_conn.cpp:2255`: `write()` with nothing to send calls `init()` and clears
  the buffer. For a client that pipelines, a left-over `EPOLLOUT` event then
  wipes a request that was already read; `RequestKept` holds only for clients
  that wait for their responses, which `reactor_streams` assumes.
* `sql_connection_pool.cpp:63`: the pool returns NULL when its list looks empty,
  where `lock/locker.h:10` speaks of blocking.
* `http_conn.cpp:308`: the window of failures begins with the first one, so three
  failures within five minutes need not freeze a login, when the first of them
  is older than the window.
* `rag_service.cpp:126`: the index's mutex is held while all documents are
  embedded over the network; the health page waits for it as well.
* `api_router.cpp:627`: the second call of a failed stream does not ask the
  breaker. `rag_service.cpp:278`: the cache's key knows nothing of `top_k`.
* `mysql_community_store.cpp:571`: two first reactions to a post share the lock
  on its counters and both want it alone; one of them fails and its client is
  answered 503. A page stored after the invalidation by a reaction it has not
  seen, or after a commit whose answer was lost, stays for its time to live.
* `mysql_community_store.cpp:398`: the cursor of the personal feed is an offset
  into a ranking that is made anew for each page.
* `community_index_sync.cpp:34`: the tool's update of a status is not conditional
  on the version, so a moderator's `blocked` that comes while the post is being
  indexed is written over; two tools at once would share the temporary file's
  name.
* `log.cpp:171`: a line whose push finds the queue full is dropped; one written
  directly overtakes those in the queue.

## 7. Plan and what is not modelled

To prove, if the need arises: what remains true of the reactor for clients that
pipeline, as theorems with a weaker hypothesis than `Polite`; the steps of the
liveness arguments that do not need `ENABLED`.

To model, if the need arises: `ModelStream` joined with `Reactor`'s connections,
where a second streamed question may arrive on a connection whose stream is
still open; the session table and its expiry; the log's rotation.

Not modelled, and why:

* the HTTP parser, the text splitter, prompts, decimal and JSON parsing: one
  thread on one text, which tests over many texts reach better;
* the token bucket and the scores: real arithmetic under one lock or none;
  vectors, BM25, rank fusion and the graph search: floating-point code of one
  thread;
* password hashing, libcurl, metrics (counters nobody reads back), start-up
  options;
* shutdown: the destructor frees objects that detached threads may still use,
  which is below the level of the models;
* evaluation scripts, `webbench` (third party), static pages.
