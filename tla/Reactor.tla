------------------------------- MODULE Reactor -------------------------------
(***************************************************************************)
(* The life of the pooled http_conn objects: the main thread accepts a     *)
(* socket and hands a free object to a sub reactor, the sub reactor reads, *)
(* dispatches to the thread pool, collects completions, writes responses,  *)
(* expires idle connections and recycles the objects; the workers process  *)
(* requests and post completions.  One sub reactor is modelled: reactors   *)
(* share only the object pool and the job queue.                           *)
(*                                                                         *)
(* A step of the reactor thread is one handler of sub_reactor.cpp, or the  *)
(* part of one that another thread can get in between: handing over a      *)
(* socket or a completion is a push and a wake-up, taking them is a drain  *)
(* and a swap, and a streamed response is published before it is built.    *)
(* The bytes of requests and responses are abstracted to units: a request  *)
(* is any number of "part" units and one "end" unit; a response is         *)
(* ResponseLength pieces, of which the kernel takes SendBuffer at a time.  *)
(***************************************************************************)
EXTENDS Naturals, Sequences, FiniteSets

CONSTANTS
  Conns,           \* the pooled http_conn objects (m_conn_pool)
  Fds,             \* the descriptors the kernel may return from accept
  Workers,         \* the threads of the pool
  NoConn, NoFd,    \* "not in m_connections" and m_sockfd = -1
  MaxRequests,     \* m_max_requests of the thread pool
  ReadBufferSize,  \* units that fit m_read_buf
  ResponseLength,  \* pieces of an ordinary response
  SendBuffer,      \* pieces the kernel's send buffer holds
  Habits,          \* what clients do beyond one well-formed request at a time
  Kinds,           \* kinds of response the requests ask for
  MaxInbox,        \* bound: units in flight from one client
  MaxStreams,      \* bound: event streams open at once
  MaxGeneration    \* bound: times one object is reused

ASSUME ReactorAssumption ==
  /\ NoConn \notin Conns /\ NoFd \notin Fds
  /\ {MaxRequests, ReadBufferSize, ResponseLength, SendBuffer} \subseteq Nat \ {0}
  /\ {MaxInbox, MaxStreams, MaxGeneration} \subseteq Nat
  /\ Habits \subseteq {"pipelines", "malformed"}
  /\ Kinds \subseteq {"plain", "stream"} /\ Kinds # {}

VARIABLES
  freeConns,       \* m_free_conns
  incoming,        \* m_pending: accepted sockets not yet seen by the reactor
  completed,       \* m_completed
  notified,        \* the counter of m_notifyfd is not zero
  acceptor,        \* the main thread: accepting, or about to wake the reactor
  phase,           \* where the reactor thread is in run()
  batch,           \* events of this epoll_wait that are still to be handled
  adopting,        \* the swapped m_pending of handle_notifications
  finishing,       \* the swapped m_completed of handle_notifications
  todo,            \* descriptors the current sweep has still to visit
  connections,     \* m_connections
  deadlines,       \* the keys of m_deadlines
  pendingWrites,   \* m_pending_writes
  conn,            \* the fields of each http_conn object
  socket,          \* the kernel's and the client's side of each descriptor
  jobs,            \* m_workqueue of the thread pool
  worker           \* what each pool thread is doing

queueVars == <<incoming, completed, notified, acceptor>>
loopVars == <<phase, batch, adopting, finishing, todo>>
mapVars == <<connections, deadlines, pendingWrites>>
poolVars == <<jobs, worker>>
vars == <<freeConns, queueVars, loopVars, mapVars, conn, socket, poolVars>>

Units == {"part", "end", "bad", "junk"}
Results == {"needRead", "readyWrite", "close"}

ClosedSocket == [open |-> FALSE, armed |-> "off", inbox |-> <<>>, outbox |-> <<>>,
                 peer |-> "up", waiting |-> FALSE]
IdleWorker == [at |-> "idle", conn |-> NoConn, result |-> "close"]

\* "entered" stands for what resume_sse_if_due() leaves in m_dynamic_body, m_iv
\* and m_write_idx when the object is not the reactor's: a worker is building the
\* response or has not reported it yet.
ConnRecord == [fd : Fds \cup {NoFd}, gen : Nat, busy : BOOLEAN, timedOut : BOOLEAN,
               buf : Seq(Units), parsed : Nat, unsent : Nat,
               stream : {"off", "on", "done"}, entered : BOOLEAN]
SocketRecord == [open : BOOLEAN, armed : {"off", "in", "out"}, inbox : Seq(Units),
                 outbox : Seq({"more", "last"}), peer : {"up", "fin", "rst"},
                 waiting : BOOLEAN]
Handoff == [conn : Conns, fd : Fds]
Completion == [conn : Conns, fd : Fds \cup {NoFd}, gen : Nat, result : Results]
Event == [fd : Fds, ev : {"in", "out", "hup", "rdhup"}]
NotifyEvent == [fd |-> NoFd, ev |-> "notify"]  \* the eventfd is readable

TypeOK ==
  /\ freeConns \subseteq Conns
  /\ incoming \subseteq Handoff /\ adopting \subseteq Handoff
  /\ completed \in Seq(Completion) /\ finishing \in Seq(Completion)
  /\ notified \in BOOLEAN /\ acceptor \in {"accepting", "waking"}
  /\ phase \in {"wait", "events", "drained", "notify", "resume", "reap", "retry", "expire"}
  /\ batch \subseteq Event \cup {NotifyEvent}
  /\ todo \subseteq Fds
  /\ connections \in [Fds -> Conns \cup {NoConn}]
  /\ deadlines \subseteq Fds /\ pendingWrites \subseteq Fds
  /\ conn \in [Conns -> ConnRecord]
  /\ \A c \in Conns : Len(conn[c].buf) <= ReadBufferSize
  /\ socket \in [Fds -> SocketRecord]
  /\ jobs \in Seq(Conns)
  /\ worker \in [Workers -> [at : {"idle", "working", "opening", "notifying", "waking"},
                             conn : Conns \cup {NoConn}, result : Results]]

Init ==
  /\ freeConns = Conns
  /\ incoming = {} /\ adopting = {}
  /\ completed = <<>> /\ finishing = <<>>
  /\ notified = FALSE /\ acceptor = "accepting"
  /\ phase = "wait" /\ batch = {} /\ todo = {}
  /\ connections = [fd \in Fds |-> NoConn]
  /\ deadlines = {} /\ pendingWrites = {}
  /\ conn = [c \in Conns |-> [fd |-> NoFd, gen |-> 0, busy |-> FALSE, timedOut |-> FALSE,
                              buf |-> <<>>, parsed |-> 0, unsent |-> 0, stream |-> "off",
                              entered |-> FALSE]]
  /\ socket = [fd \in Fds |-> ClosedSocket]
  /\ jobs = <<>>
  /\ worker = [w \in Workers |-> IdleWorker]

Registered == {fd \in Fds : connections[fd] # NoConn}

-----------------------------------------------------------------------------
(* Pieces of http_conn the handlers share.                                 *)

\* reset_request(FALSE) and init(): every per-request field and the buffer.
\* Mutant: what the last response left unsent is kept.
ClearedButUnsent(r) == [r EXCEPT !.buf = <<>>, !.parsed = 0, !.stream = "off"]
Cleared(r) == [r EXCEPT !.buf = <<>>, !.parsed = 0, !.unsent = 0, !.stream = "off"]

\* reset_request(TRUE): what follows the answered request stays in the buffer.
NextRequest(r) ==
  [Cleared(r) EXCEPT !.buf = SubSeq(r.buf, r.parsed + 1, Len(r.buf))]

HasBufferedRequest(r) == r.buf # <<>> /\ r.stream # "on"

\* arm_read() and arm_write().
\* Mutant: a one-shot descriptor is not armed again for reading.
ArmWritesOnly(sk, fd, ev) == IF ev = "out" THEN [sk EXCEPT ![fd].armed = ev] ELSE sk
Arm(sk, fd, ev) == [sk EXCEPT ![fd].armed = ev]

\* m_connections.erase(fd).
\* Mutant: the entry is left behind.
UnregisterNothing(fd) == connections
Unregister(fd) == [connections EXCEPT ![fd] = NoConn]

\* defer_timeout() asks whether a worker has the object.
\* Mutants: never wait for the worker; wait for the response as well.
NeverDefer(r) == FALSE
DeferWrites(r) == r.busy \/ r.unsent > 0
MustDefer(r) == r.busy

\* wake(): the eventfd becomes readable.
Wake == notified' = TRUE

\* close_connection(fd), after the handler has left the objects as cs and the
\* sockets as sk.  A busy object is only marked; its completion closes it.
CloseConnection(fd, cs, sk) ==
  LET c == connections[fd] IN
  IF MustDefer(cs[c])
  THEN /\ conn' = [cs EXCEPT ![c].timedOut = TRUE]
       /\ deadlines' = deadlines \ {fd}
       /\ socket' = sk
       /\ UNCHANGED <<connections, pendingWrites, freeConns>>
  ELSE /\ conn' = [cs EXCEPT ![c].fd = NoFd, ![c].stream = "off"]
       /\ connections' = Unregister(fd)
       /\ deadlines' = deadlines \ {fd}
       /\ pendingWrites' = pendingWrites \ {fd}
       /\ socket' = [sk EXCEPT ![fd] = ClosedSocket]
       /\ freeConns' = freeConns \cup {c}

\* dispatch(conn) and what its two callers do with the answer: the descriptor
\* keeps its deadline, or the full queue rejects the job and it is closed.
Dispatch(fd, cs, sk, pending) ==
  LET c == connections[fd] IN
  IF Len(jobs) < MaxRequests
  THEN /\ conn' = [cs EXCEPT ![c].busy = TRUE]
       /\ jobs' = Append(jobs, c)
       /\ deadlines' = deadlines \cup {fd}
       /\ pendingWrites' = pending
       /\ socket' = sk
       /\ UNCHANGED <<connections, freeConns>>
  ELSE /\ CloseConnection(fd, [cs EXCEPT ![c].busy = FALSE], sk)
       /\ UNCHANGED jobs

\* A handler that keeps the connection and gives it a new deadline.
KeepOpen(fd, cs, sk, pending) ==
  /\ conn' = cs /\ socket' = sk
  /\ deadlines' = deadlines \cup {fd}
  /\ pendingWrites' = pending
  /\ UNCHANGED <<connections, freeConns, jobs>>

-----------------------------------------------------------------------------
(* Main thread: accept, acquire_conn, and the two parts of                 *)
(* enqueue_connection: push under the lock, then wake.  When no object is  *)
(* free the socket is answered "busy" and closed, which changes nothing    *)
(* here.                                                                   *)
Accept ==
  \E fd \in Fds, c \in freeConns :
    /\ acceptor = "accepting"
    /\ ~socket[fd].open
    /\ conn[c].gen < MaxGeneration
    /\ freeConns' = freeConns \ {c}
    /\ incoming' = incoming \cup {[conn |-> c, fd |-> fd]}
    /\ acceptor' = "waking"
    /\ socket' = [socket EXCEPT ![fd] = [ClosedSocket EXCEPT !.open = TRUE]]
    /\ UNCHANGED <<completed, notified, loopVars, mapVars, conn, poolVars>>

WakeAfterAccept ==
  /\ acceptor = "waking" /\ acceptor' = "accepting"
  /\ Wake
  /\ UNCHANGED <<freeConns, incoming, completed, loopVars, mapVars, conn, socket, poolVars>>

-----------------------------------------------------------------------------
(* The reactor thread: run().                                              *)

\* What epoll reports for a descriptor whose interest is armed.
Ready(fd) ==
  LET s == socket[fd] IN
  IF s.armed = "off" THEN {}
  ELSE IF s.peer = "rst" THEN {[fd |-> fd, ev |-> "hup"]}
  ELSE IF s.armed = "in"
       THEN IF s.inbox # <<>> \/ s.peer = "fin" THEN {[fd |-> fd, ev |-> "in"]} ELSE {}
  ELSE IF Len(s.outbox) < SendBuffer THEN {[fd |-> fd, ev |-> "out"]}
  ELSE IF s.peer = "fin" THEN {[fd |-> fd, ev |-> "rdhup"]} ELSE {}

\* epoll_wait returns everything that is ready, or nothing after 100 ms;
\* EPOLLONESHOT disarms what it reports.
EpollWait ==
  /\ phase = "wait"
  /\ LET ready == UNION {Ready(fd) : fd \in Fds} IN
     /\ batch' = ready \cup (IF notified THEN {NotifyEvent} ELSE {})
     /\ socket' = [fd \in Fds |-> IF \E e \in ready : e.fd = fd
                                  THEN [socket[fd] EXCEPT !.armed = "off"]
                                  ELSE socket[fd]]
  /\ phase' = "events"
  /\ UNCHANGED <<freeConns, queueVars, adopting, finishing, todo, mapVars, conn, poolVars>>

RoomToRead(r) == ReadBufferSize - Len(r.buf)

\* read_once(): take what has arrived.  A full buffer, or the end of the
\* stream seen before the buffer is full, makes it fail.
Received(r, s) ==
  LET room == RoomToRead(r)
      n == IF Len(s.inbox) < room THEN Len(s.inbox) ELSE room
  IN  [buf  |-> r.buf \o SubSeq(s.inbox, 1, n),
       rest |-> SubSeq(s.inbox, n + 1, Len(s.inbox)),
       ok   |-> room > 0 /\ (n = room \/ s.peer = "up")]

HandleRead(fd) ==
  LET c == connections[fd]
      got == Received(conn[c], socket[fd])
      cs == [conn EXCEPT ![c].buf = got.buf]
      sk == [socket EXCEPT ![fd].inbox = got.rest]
  IN  IF got.ok THEN Dispatch(fd, cs, sk, pendingWrites)
      ELSE CloseConnection(fd, cs, sk) /\ UNCHANGED jobs

\* write() with nothing to send listens for the next request and forgets the
\* buffer.
WriteNothing(fd, c) ==
  /\ conn[c].unsent = 0
  /\ KeepOpen(fd, [conn EXCEPT ![c] = Cleared(conn[c])], Arm(socket, fd, "in"),
              pendingWrites \ {fd})

\* The pieces of an n-piece send; the last piece ends an ordinary response.  An
\* event stream has no length: only its connection's end ends it.
Pieces(r, n) ==
  [i \in 1..n |-> IF i = r.unsent /\ r.stream = "off" /\ ~r.entered THEN "last" ELSE "more"]
RoomToSend(fd) == SendBuffer - Len(socket[fd].outbox)
Sent(fd, r, n) == [socket EXCEPT ![fd].outbox = @ \o Pieces(r, n)]

\* send() takes what fits and then fails with EAGAIN.  A stream that is done is
\* closed whatever write() did (stream_should_close).
WriteBlocks(fd, c) ==
  LET r == conn[c]  room == RoomToSend(fd) IN
  /\ r.unsent > room /\ socket[fd].peer # "rst" /\ r.stream # "done"
  /\ LET cs == [conn EXCEPT ![c].unsent = @ - room]
         sk == Arm(Sent(fd, r, room), fd, "out")
     IN  IF HasBufferedRequest(r)
         THEN Dispatch(fd, cs, sk, pendingWrites \cup {fd})
         ELSE KeepOpen(fd, cs, sk, pendingWrites \cup {fd})

\* send() fails, or there is no data behind an iovec that two threads have set.
WriteFails(fd, c) ==
  /\ conn[c].unsent > 0
  /\ socket[fd].peer = "rst" \/ conn[c].entered
  /\ CloseConnection(fd, conn, socket) /\ UNCHANGED jobs

\* The last byte of an ordinary response: close it, or keep it alive and go on
\* with the request already buffered, or listen for the next one.
WriteCompletes(fd, c) ==
  LET r == conn[c]
      after == NextRequest(r)
      cs == [conn EXCEPT ![c] = after]
      sk == Sent(fd, r, r.unsent)
  IN  /\ r.stream # "on"
      /\ r.unsent > 0 /\ r.unsent <= RoomToSend(fd) /\ socket[fd].peer # "rst"
      /\ \/ CloseConnection(fd, [conn EXCEPT ![c].unsent = 0], sk) /\ UNCHANGED jobs
         \/ /\ r.stream = "off" /\ HasBufferedRequest(after)
            /\ Dispatch(fd, cs, sk, pendingWrites \ {fd})
         \/ /\ r.stream = "off" /\ ~HasBufferedRequest(after)
            /\ KeepOpen(fd, cs, Arm(sk, fd, "in"), pendingWrites \ {fd})

\* The last byte of a chunk of an event stream: the producer has finished, or
\* the stream listens for the client until the next chunk.
WriteChunk(fd, c) ==
  LET r == conn[c]
      cs == [conn EXCEPT ![c].unsent = 0]
      sk == Sent(fd, r, r.unsent)
  IN  /\ r.stream = "on"
      /\ r.unsent > 0 /\ r.unsent <= RoomToSend(fd) /\ socket[fd].peer # "rst"
      /\ \/ CloseConnection(fd, [cs EXCEPT ![c].stream = "done"], sk) /\ UNCHANGED jobs
         \/ KeepOpen(fd, cs, Arm(sk, fd, "in"), pendingWrites \ {fd})

HandleWrite(fd) ==
  LET c == connections[fd] IN
  \/ WriteNothing(fd, c) \/ WriteBlocks(fd, c) \/ WriteFails(fd, c)
  \/ WriteCompletes(fd, c) \/ WriteChunk(fd, c)

\* One descriptor event of the batch.  An event for a descriptor that left
\* m_connections earlier in the batch is ignored.
HandleEvent ==
  \E e \in batch \ {NotifyEvent} :
    /\ phase = "events"
    /\ batch' = batch \ {e}
    /\ \/ e.fd \notin Registered /\ UNCHANGED <<freeConns, mapVars, conn, socket, jobs>>
       \/ /\ e.fd \in Registered
          /\ \/ e.ev \in {"hup", "rdhup"} /\ CloseConnection(e.fd, conn, socket) /\ UNCHANGED jobs
             \/ e.ev = "in" /\ HandleRead(e.fd)
             \/ e.ev = "out" /\ HandleWrite(e.fd)
    /\ UNCHANGED <<queueVars, phase, adopting, finishing, todo, worker>>

-----------------------------------------------------------------------------
(* handle_notifications(): drain the eventfd, take both queues under the   *)
(* lock, adopt the new sockets, then apply the completions in order.       *)

\* Mutant: the queues are taken before the eventfd is drained.
SwapFirst == <<"swap", "drain">>
NotificationOrder == <<"drain", "swap">>

DrainOrSwap(part) ==
  \/ /\ part = "drain" /\ notified' = FALSE
     /\ UNCHANGED <<incoming, adopting, completed, finishing>>
  \/ /\ part = "swap"
     /\ adopting' = incoming /\ incoming' = {}
     /\ finishing' = completed /\ completed' = <<>>
     /\ UNCHANGED notified

DrainNotifications ==
  /\ phase = "events" /\ NotifyEvent \in batch
  /\ batch' = batch \ {NotifyEvent}
  /\ DrainOrSwap(NotificationOrder[1])
  /\ phase' = "drained"
  /\ UNCHANGED <<freeConns, acceptor, todo, mapVars, conn, socket, poolVars>>

TakeNotifications ==
  /\ phase = "drained"
  /\ DrainOrSwap(NotificationOrder[2])
  /\ phase' = "notify"
  /\ UNCHANGED <<freeConns, acceptor, batch, todo, mapVars, conn, socket, poolVars>>

\* http_conn::init for the next client of an object.
Adopted(r, fd) ==
  [Cleared(r) EXCEPT !.fd = fd, !.gen = r.gen + 1, !.busy = FALSE, !.timedOut = FALSE,
                      !.entered = FALSE]

\* The registration of one accepted socket.
Adopt ==
  \E item \in adopting :
    /\ phase = "notify"
    /\ adopting' = adopting \ {item}
    /\ conn' = [conn EXCEPT ![item.conn] = Adopted(@, item.fd)]
    /\ connections' = [connections EXCEPT ![item.fd] = item.conn]
    /\ deadlines' = deadlines \cup {item.fd}
    /\ socket' = Arm(socket, item.fd, "in")
    /\ UNCHANGED <<freeConns, queueVars, phase, batch, finishing, todo, pendingWrites, poolVars>>

\* The test a completion has to pass: same object, same incarnation.
\* Mutant: the completion of a connection that has timed out is dropped.
IsCurrentAndInTime(e) ==
  /\ e.fd \in Registered
  /\ connections[e.fd] = e.conn
  /\ conn[e.conn].gen = e.gen
  /\ ~conn[e.conn].timedOut
IsCurrent(e) ==
  /\ e.fd \in Registered
  /\ connections[e.fd] = e.conn
  /\ conn[e.conn].gen = e.gen

ApplyCompletion(e) ==
  LET idle == [conn EXCEPT ![e.conn].busy = FALSE, ![e.conn].timedOut = FALSE] IN
  \/ /\ conn[e.conn].timedOut \/ e.result = "close"
     /\ CloseConnection(e.fd, idle, socket) /\ UNCHANGED jobs
  \/ /\ ~conn[e.conn].timedOut /\ e.result = "needRead"
     /\ KeepOpen(e.fd, idle, Arm(socket, e.fd, "in"), pendingWrites)
  \/ /\ ~conn[e.conn].timedOut /\ e.result = "readyWrite"
     /\ KeepOpen(e.fd, idle, Arm(socket, e.fd, "out"), pendingWrites \cup {e.fd})

Finish ==
  /\ phase = "notify" /\ adopting = {} /\ finishing # <<>>
  /\ finishing' = Tail(finishing)
  /\ LET e == Head(finishing) IN
     IF IsCurrent(e) THEN ApplyCompletion(e)
     ELSE UNCHANGED <<freeConns, mapVars, conn, socket, jobs>>
  /\ UNCHANGED <<queueVars, phase, batch, adopting, todo, worker>>

EndNotifications ==
  /\ phase = "notify" /\ adopting = {} /\ finishing = <<>>
  /\ phase' = "events"
  /\ UNCHANGED <<freeConns, queueVars, batch, adopting, finishing, todo, mapVars, conn, socket,
                 poolVars>>

-----------------------------------------------------------------------------
(* The sweeps after the events: resume_sse_streams (in two loops),         *)
(* retry_pending_writes and expire_idle_connections.  A deadline may have  *)
(* passed at any time, so any set of the descriptors that have one expires.*)
Sweep(from, to, fds) ==
  /\ phase = from /\ todo = {} /\ batch = {}
  /\ phase' = to /\ todo' = fds
  /\ UNCHANGED <<freeConns, queueVars, batch, adopting, finishing, mapVars, conn, socket,
                 poolVars>>

NextSweep ==
  \/ Sweep("events", "resume", {fd \in Registered : conn[connections[fd]].stream # "off"})
  \/ Sweep("resume", "reap", {fd \in Registered : conn[connections[fd]].stream = "done"})
  \/ Sweep("reap", "retry", pendingWrites)
  \/ \E expired \in SUBSET deadlines : Sweep("retry", "expire", expired)
  \/ Sweep("expire", "wait", {})

Visit(in, fd) ==
  /\ phase = in /\ fd \in todo
  /\ todo' = todo \ {fd}
  /\ UNCHANGED <<queueVars, phase, batch, adopting, finishing, worker>>

\* resume_sse_if_due(): nothing is due, a chunk or a heartbeat is, or the
\* producer has finished; a stream that is done is closed after the sweep.  It
\* does not ask whether a worker has the object.
ResumeStream(fd) ==
  LET c == connections[fd]
      due == conn[c].stream = "on" /\ conn[c].unsent = 0
      r0 == [conn[c] EXCEPT !.entered = @ \/ conn[c].busy]
      resumed(r) == /\ due
                    /\ KeepOpen(fd, [conn EXCEPT ![c] = r], Arm(socket, fd, "out"),
                                pendingWrites \cup {fd})
  IN  \/ UNCHANGED <<freeConns, mapVars, conn, socket, jobs>>
      \/ resumed([r0 EXCEPT !.unsent = 1])
      \/ \E n \in IF r0.entered THEN {0, 1} ELSE {0} :
            resumed([r0 EXCEPT !.stream = "done", !.unsent = n])

Close(fd) == CloseConnection(fd, conn, socket) /\ UNCHANGED jobs

Resume == \E fd \in Registered : Visit("resume", fd) /\ ResumeStream(fd)

Reap == \E fd \in Registered : Visit("reap", fd) /\ Close(fd)

Retry == \E fd \in Registered : Visit("retry", fd) /\ HandleWrite(fd)

Expire == \E fd \in Registered : Visit("expire", fd) /\ Close(fd)

ReactorNext ==
  \/ EpollWait \/ HandleEvent
  \/ DrainNotifications \/ TakeNotifications \/ Adopt \/ Finish \/ EndNotifications
  \/ NextSweep \/ Resume \/ Reap \/ Retry \/ Expire

-----------------------------------------------------------------------------
(* The workers of the pool: threadpool::run, process_async and             *)
(* notify_completion.                                                      *)
Take(w) ==
  /\ worker[w].at = "idle" /\ jobs # <<>>
  /\ worker' = [worker EXCEPT ![w].at = "working", ![w].conn = Head(jobs)]
  /\ jobs' = Tail(jobs)
  /\ UNCHANGED <<freeConns, queueVars, loopVars, mapVars, conn, socket>>

\* Ends of requests in the buffer after position p, the first one only.
NextEnd(buf, p) ==
  LET ends == {i \in (p + 1)..Len(buf) : buf[i] = "end"}
  IN  {i \in ends : \A j \in ends : i <= j}

\* The line process_read() rejects: a malformed one, or any line behind the
\* remains of one.
RejectedLine(buf) ==
  IF buf # <<>> /\ buf[1] = "junk" THEN {2} \cap (1..Len(buf))
  ELSE {i \in 1..Len(buf) : buf[i] = "bad" /\ \A j \in 1..(i - 1) : buf[j] = "part"}

\* What bytes_to_send may be when the reactor has written to it as well.
Built(r) == IF r.entered THEN 0..ResponseLength ELSE {ResponseLength}

\* A rejected request is answered but not consumed (m_request_end stays 0); its
\* line ends are already cut, so that what precedes them is never a line again.
Reject(c) ==
  /\ conn[c].parsed = 0
  /\ \E i \in RejectedLine(conn[c].buf), n \in Built(conn[c]) :
       conn' = [conn EXCEPT ![c].unsent = n,
                            ![c].buf = <<"junk">> \o SubSeq(@, i + 1, Len(@))]

\* The request the worker answers.  If the object was processed without a reset
\* since, a request with a body is found, and answered, a second time.
Answerable(r) ==
  IF r.parsed > 0 \/ RejectedLine(r.buf) = {}
  THEN NextEnd(r.buf, r.parsed) \cup ({r.parsed} \ {0}) ELSE {}

\* An ordinary response.  A stream that is open stays open.
Answer(c) ==
  /\ "plain" \in Kinds
  /\ \E e \in Answerable(conn[c]), n \in Built(conn[c]) :
       conn' = [conn EXCEPT ![c].unsent = n, ![c].parsed = e]

\* No complete request in what has been read.
Incomplete(c) ==
  LET r == conn[c] IN
  /\ r.parsed > 0 \/ RejectedLine(r.buf) = {}
  /\ NextEnd(r.buf, r.parsed) = {}
  /\ UNCHANGED conn

\* process_async(), up to the result or to a response that is an event stream;
\* the answer may also fail to fit its buffer (PROCESS_CLOSE).
Process(w) ==
  LET c == worker[w].conn IN
  /\ worker[w].at = "working"
  /\ \E result \in Results :
       /\ \/ result = "needRead" /\ Incomplete(c)
          \/ result = "readyWrite" /\ (Answer(c) \/ Reject(c))
          \/ result = "close" /\ NextEnd(conn[c].buf, 0) # {} /\ UNCHANGED conn
       /\ worker' = [worker EXCEPT ![w].at = "notifying", ![w].result = result]
  /\ UNCHANGED <<freeConns, queueVars, loopVars, mapVars, socket, jobs>>

\* prepare_api_response() sets m_sse_streaming, which the reactor's sweep reads,
\* before the rest of the response.
PublishStream(w) ==
  LET c == worker[w].conn IN
  /\ worker[w].at = "working" /\ "stream" \in Kinds
  /\ Cardinality({d \in Conns : conn[d].stream # "off" \/ conn[d].entered}) < MaxStreams
  /\ \E e \in Answerable(conn[c]) :
       conn' = [conn EXCEPT ![c].parsed = e, ![c].stream = "on"]
  /\ worker' = [worker EXCEPT ![w].at = "opening"]
  /\ UNCHANGED <<freeConns, queueVars, loopVars, mapVars, socket, jobs>>

\* The headers and the first chunk, or headers that do not fit: the connection is
\* to be closed, with its stream published.
BuildStream(w) ==
  LET c == worker[w].conn IN
  /\ worker[w].at = "opening"
  /\ \/ /\ \E n \in Built(conn[c]) : conn' = [conn EXCEPT ![c].unsent = n]
        /\ worker' = [worker EXCEPT ![w].at = "notifying", ![w].result = "readyWrite"]
     \/ /\ worker' = [worker EXCEPT ![w].at = "notifying", ![w].result = "close"]
        /\ UNCHANGED conn
  /\ UNCHANGED <<freeConns, queueVars, loopVars, mapVars, socket, jobs>>

\* notify_completion() and the push of enqueue_completion(): descriptor and
\* generation are those the object has now.
Notify(w) ==
  LET c == worker[w].conn
      e == [conn |-> c, fd |-> conn[c].fd, gen |-> conn[c].gen, result |-> worker[w].result]
  IN  /\ worker[w].at = "notifying"
      /\ completed' = Append(completed, e)
      /\ worker' = [worker EXCEPT ![w] = [IdleWorker EXCEPT !.at = "waking"]]
      /\ UNCHANGED <<freeConns, incoming, notified, acceptor, loopVars, mapVars, conn, socket,
                     jobs>>

\* Its wake-up.
WakeReactor(w) ==
  /\ worker[w].at = "waking"
  /\ Wake
  /\ worker' = [worker EXCEPT ![w] = IdleWorker]
  /\ UNCHANGED <<freeConns, incoming, completed, acceptor, loopVars, mapVars, conn, socket,
                 jobs>>

WorkerNext(w) ==
  Take(w) \/ Process(w) \/ PublishStream(w) \/ BuildStream(w) \/ Notify(w) \/ WakeReactor(w)

-----------------------------------------------------------------------------
(* The clients.  One without habits sends one request, in one or several   *)
(* units, and waits for the whole response before the next.                *)
Sendable == {"part", "end"} \cup (IF "malformed" \in Habits THEN {"bad"} ELSE {})

ClientSend(fd) ==
  LET s == socket[fd] IN
  /\ s.open /\ s.peer = "up"
  /\ ~s.waiting
  /\ Len(s.inbox) < MaxInbox
  /\ \E u \in Sendable :
       socket' = [socket EXCEPT ![fd].inbox = Append(@, u), 
                                ![fd].waiting = u # "part" /\ "pipelines" \notin Habits]
  /\ UNCHANGED <<freeConns, queueVars, loopVars, mapVars, conn, poolVars>>

ClientReceive(fd) ==
  LET s == socket[fd] IN
  /\ s.open /\ s.outbox # <<>>
  /\ socket' = [socket EXCEPT ![fd].outbox = Tail(@),
                              ![fd].waiting = @ /\ Head(s.outbox) # "last"]
  /\ UNCHANGED <<freeConns, queueVars, loopVars, mapVars, conn, poolVars>>

ClientLeave(fd) ==
  /\ socket[fd].open /\ socket[fd].peer = "up"
  /\ \E how \in {"fin", "rst"} : socket' = [socket EXCEPT ![fd].peer = how]
  /\ UNCHANGED <<freeConns, queueVars, loopVars, mapVars, conn, poolVars>>

ClientNext == \E fd \in Fds : ClientSend(fd) \/ ClientReceive(fd) \/ ClientLeave(fd)

-----------------------------------------------------------------------------
Next ==
  \/ Accept \/ WakeAfterAccept
  \/ ReactorNext
  \/ \E w \in Workers : WorkerNext(w)
  \/ ClientNext

Spec == Init /\ [][Next]_vars

\* Every thread keeps being scheduled; the main thread owes nobody another accept.
FairSpec ==
  /\ Spec
  /\ WF_vars(ReactorNext) /\ WF_vars(WakeAfterAccept)
  /\ \A w \in Workers : WF_vars(WorkerNext(w))

-----------------------------------------------------------------------------
(* Properties.                                                             *)

Handed == {item.conn : item \in incoming \cup adopting}
InMap == {connections[fd] : fd \in Registered}

\* How many times an object is in the job queue, with a worker, or named by a
\* completion the reactor has still to apply.
Uses(c) ==
  Cardinality({i \in 1..Len(jobs) : jobs[i] = c})
  + Cardinality({w \in Workers : worker[w].conn = c})
  + Cardinality({i \in 1..Len(completed) : completed[i].conn = c})
  + Cardinality({i \in 1..Len(finishing) : finishing[i].conn = c})

\* acquire_conn, the hand-off queue, m_connections and recycle_conn never lose
\* an object and never hold one twice: each is free, handed off, or registered
\* under exactly the descriptor it believes it has.
PoolConserved ==
  /\ freeConns \cup Handed \cup InMap = Conns
  /\ freeConns \cap Handed = {} /\ freeConns \cap InMap = {} /\ Handed \cap InMap = {}
  /\ \A i, j \in incoming \cup adopting : i.conn = j.conn \/ i.fd = j.fd => i = j
  /\ \A fd \in Registered : conn[connections[fd]].fd = fd

\* Every entry of m_deadlines and m_pending_writes belongs to a connection, and
\* a connection without a deadline is one whose close was put off until the
\* worker that has it answers: nothing else can leave a connection for ever.
EveryConnectionExpires ==
  /\ deadlines \cup pendingWrites \subseteq Registered
  /\ \A fd \in Registered \ deadlines :
        conn[connections[fd]].timedOut /\ conn[connections[fd]].busy

\* The reactor is in the middle of a response of this descriptor, or will be told
\* when it can go on with one.
Claimed(fd) ==
  socket[fd].armed # "off" \/ fd \in pendingWrites \/ \E e \in batch : e.fd = fd

\* An object is worked on by at most one thread.  From dispatch to the handling of
\* its completion it stays registered and marked as processing, so that it is
\* neither recycled nor dispatched again under the worker, and the reactor has no
\* event, retry or armed interest with which to go on with it.  The exception is
\* explicit: a stream that the sweep has entered while its response was built.
OneUserPerConnection ==
  /\ \A c \in Conns : IF c \in InMap /\ conn[c].busy THEN Uses(c) = 1 ELSE Uses(c) = 0
  /\ \A fd \in Registered :
       LET r == conn[connections[fd]] IN r.busy /\ ~r.entered => ~Claimed(fd)

\* A connection whose epoll interest is disarmed has somebody who will go on
\* with it: a worker, an event of this batch or a response in m_pending_writes.
\* None is left with only its timeout to wake it.
NoForgottenConnection ==
  \A fd \in Registered :
    LET r == conn[connections[fd]] IN
    socket[fd].armed = "off" =>
      \/ r.busy
      \/ \E e \in batch : e.fd = fd
      \/ fd \in pendingWrites /\ r.unsent > 0

\* A response is sent to its end before the next one is made: no worker makes a
\* response in an object some of whose last one is still to be sent, except into
\* a stream that the sweep has entered.
ResponseNotReplaced ==
  \A w \in Workers :
    LET r == conn[worker[w].conn] IN
    /\ worker[w].at = "working" => r.unsent = 0
    /\ worker[w].at = "opening" => r.unsent = 0 \/ r.entered

\* What is in the two queues will be seen: the eventfd is readable, somebody is
\* about to make it so, or the reactor has drained it and has yet to take them.
NoLostNotification ==
  incoming # {} \/ completed # <<>> =>
    \/ notified \/ phase = "drained"
    \/ acceptor = "waking" \/ \E w \in Workers : worker[w].at = "waking"

\* A complete request that was read stays in the buffer until it has been
\* answered, unless its connection is closed.
RequestKept ==
  [][\A c \in Conns :
       LET r == conn[c] IN
       (NextEnd(r.buf, r.parsed) # {} /\ conn'[c].gen = r.gen /\ conn'[c].fd = r.fd)
         => NextEnd(conn'[c].buf, conn'[c].parsed) # {} \/ conn'[c].parsed > r.parsed]_vars

\* A request that was dispatched is completed, and a connection that timed out
\* under a worker is closed in the end: what a worker has pushed is applied.
DispatchCompletes ==
  \A c \in Conns : /\ conn[c].busy ~> ~conn[c].busy
                   /\ (c \in InMap /\ conn[c].timedOut) ~> c \in freeConns
=============================================================================
