---------------------------- MODULE ReactorProofs ----------------------------
(***************************************************************************)
(* Reactor for every set of objects, descriptors and workers and for every *)
(* client: the state is well typed, the object pool is conserved, and      *)
(* every connection has a deadline or a pending close.                     *)
(*                                                                         *)
(* Every handler of the reactor thread ends in one of three ways: it       *)
(* closes the connection, dispatches it, or keeps it open.  Each way       *)
(* preserves the invariant when the handler has changed only the object    *)
(* and the socket of its own descriptor (lemmas CloseKeepsInv,             *)
(* DispatchKeepsInv and KeepOpenKeepsInv); what is left for each action is *)
(* that this is all it has changed.                                        *)
(*                                                                         *)
(* The second half is about clients that wait for each response (Polite):  *)
(* an object has one user at a time, no connection is forgotten, no        *)
(* response is replaced before it is sent and no request is dropped.  Its  *)
(* invariant says where the one request of each client and the response to *)
(* it are, and who is in charge of the connection meanwhile.               *)
(***************************************************************************)
EXTENDS Reactor, SequenceTheorems, FiniteSetTheorems, TLAPS

\* An accepted descriptor is open until its connection is closed, so the
\* kernel returns it once, and it is in one hand-off queue.  PoolConserved is
\* not inductive without this: registering a descriptor twice would lose the
\* object under it.
OpenOnce ==
  /\ incoming \cap adopting = {}
  /\ \A item \in incoming \cup adopting : socket[item.fd].open /\ item.fd \notin Registered
  /\ \A fd \in Registered : socket[fd].open

\* The swapped queue is empty when the queues are swapped again.
AdoptsAll == phase # "notify" => adopting = {}

\* A worker with a job has an object.
BusyHasObject == \A w \in Workers :
  worker[w].at \notin {"idle", "waking"} => worker[w].conn \in Conns

Inv == TypeOK /\ PoolConserved /\ OpenOnce /\ EveryConnectionExpires /\ AdoptsAll
       /\ BusyHasObject

\* A handler may change the object and the socket of its own connection.
OnlyObject(cs, c) ==
  /\ cs \in [Conns -> ConnRecord]
  /\ \A d \in Conns : Len(cs[d].buf) <= ReadBufferSize
  /\ \A d \in Conns \ {c} : cs[d] = conn[d]
  /\ cs[c].fd = conn[c].fd
OnlySocket(sk, fd) ==
  /\ sk \in [Fds -> SocketRecord]
  /\ \A g \in Fds \ {fd} : sk[g] = socket[g]
  /\ sk[fd].open

\* What a handler of one connection cannot disturb.
QueuesOK ==
  /\ completed \in Seq(Completion) /\ finishing \in Seq(Completion)
  /\ notified \in BOOLEAN /\ acceptor \in {"accepting", "waking"}
  /\ phase \in {"wait", "events", "drained", "notify", "resume", "reap", "retry", "expire"}
  /\ batch \subseteq Event \cup {NotifyEvent}
  /\ todo \subseteq Fds
WorkersOK ==
  /\ worker \in [Workers -> [at : {"idle", "working", "opening", "notifying", "waking"},
                             conn : Conns \cup {NoConn}, result : Results]]
  /\ BusyHasObject
ObjectsOK ==
  /\ freeConns \subseteq Conns
  /\ incoming \subseteq Handoff /\ adopting \subseteq Handoff
  /\ connections \in [Fds -> Conns \cup {NoConn}]
  /\ deadlines \subseteq Fds /\ pendingWrites \subseteq Fds
  /\ conn \in [Conns -> ConnRecord]
  /\ \A c \in Conns : Len(conn[c].buf) <= ReadBufferSize
  /\ socket \in [Fds -> SocketRecord]

\* The part of Inv that the handlers of one connection can disturb.
PoolInv == ObjectsOK /\ PoolConserved /\ OpenOnce /\ EveryConnectionExpires

LEMMA InvParts == Inv <=> /\ PoolInv /\ AdoptsAll
                          /\ QueuesOK /\ WorkersOK /\ jobs \in Seq(Conns)
BY DEF Inv, PoolInv, QueuesOK, WorkersOK, ObjectsOK, TypeOK

LEMMA ClosedSocketType == ClosedSocket \in SocketRecord
BY DEF ClosedSocket, SocketRecord

\* Changing some fields of one object.
LEMMA UpdateObject ==
  ASSUME NEW cs \in [Conns -> ConnRecord], NEW c \in Conns,
         \A d \in Conns : Len(cs[d].buf) <= ReadBufferSize,
         NEW r \in ConnRecord, Len(r.buf) <= ReadBufferSize
  PROVE  /\ [cs EXCEPT ![c] = r] \in [Conns -> ConnRecord]
         /\ \A d \in Conns : Len([cs EXCEPT ![c] = r][d].buf) <= ReadBufferSize
         /\ [cs EXCEPT ![c] = r][c] = r
         /\ \A d \in Conns \ {c} : [cs EXCEPT ![c] = r][d] = cs[d]
OBVIOUS

LEMMA UpdateSocket ==
  ASSUME NEW sk \in [Fds -> SocketRecord], NEW fd \in Fds, NEW s \in SocketRecord
  PROVE  /\ [sk EXCEPT ![fd] = s] \in [Fds -> SocketRecord]
         /\ [sk EXCEPT ![fd] = s][fd] = s
         /\ \A g \in Fds \ {fd} : [sk EXCEPT ![fd] = s][g] = sk[g]
OBVIOUS

\* The connection stays registered and its object keeps its descriptor.  It
\* has a deadline afterwards, or it waits for its worker.
LEMMA StaysRegistered ==
  ASSUME PoolInv, NEW fd \in Registered,
         OnlyObject(conn', connections[fd]), OnlySocket(socket', fd),
         UNCHANGED <<incoming, adopting, connections, freeConns>>,
         deadlines' \in {deadlines \cup {fd}, deadlines \ {fd}},
         pendingWrites' \in {pendingWrites, pendingWrites \cup {fd}, pendingWrites \ {fd}},
         fd \notin deadlines' => conn'[connections[fd]].timedOut /\ conn'[connections[fd]].busy
  PROVE  PoolInv'
<1> DEFINE c == connections[fd]
<1> USE ReactorAssumption DEF PoolInv
<1>1. c \in Conns /\ fd \in Fds /\ conn[c].fd = fd
  BY DEF PoolConserved, ObjectsOK, Registered
<1>2. Registered' = Registered
  BY DEF Registered
<1>3. \A g \in Registered \ {fd} : /\ connections[g] \in Conns \ {c}
                                   /\ conn'[connections[g]] = conn[connections[g]]
  BY <1>1 DEF PoolConserved, OnlyObject, ObjectsOK, Registered
<1>4. ObjectsOK'
  BY <1>1 DEF OnlyObject, OnlySocket, ObjectsOK
<1>5. PoolConserved'
  <2>1. Handed' = Handed /\ InMap' = InMap
    BY <1>2 DEF Handed, InMap
  <2>2. \A g \in Registered : conn'[connections[g]].fd = g
    BY <1>1, <1>3 DEF OnlyObject, PoolConserved
  <2>3. QED BY <2>1, <2>2, <1>2 DEF PoolConserved
<1>6. OpenOnce'
  BY <1>1, <1>2 DEF OnlySocket, OpenOnce, ObjectsOK, Handoff, Registered
<1>7. EveryConnectionExpires'
  BY <1>1, <1>2, <1>3 DEF EveryConnectionExpires
<1>8. QED BY <1>4, <1>5, <1>6, <1>7

\* The connection leaves m_connections and its object becomes free.
LEMMA LeavesMap ==
  ASSUME PoolInv, NEW fd \in Registered,
         conn' \in [Conns -> ConnRecord],
         \A d \in Conns : Len(conn'[d].buf) <= ReadBufferSize,
         \A d \in Conns \ {connections[fd]} : conn'[d] = conn[d],
         socket' \in [Fds -> SocketRecord],
         \A g \in Fds \ {fd} : socket'[g] = socket[g],
         UNCHANGED <<incoming, adopting>>,
         connections' = [connections EXCEPT ![fd] = NoConn],
         deadlines' = deadlines \ {fd},
         pendingWrites' = pendingWrites \ {fd},
         freeConns' = freeConns \cup {connections[fd]}
  PROVE  PoolInv'
<1> DEFINE c == connections[fd]
<1> USE ReactorAssumption DEF PoolInv
<1>1. c \in Conns /\ fd \in Fds /\ conn[c].fd = fd
  BY DEF PoolConserved, ObjectsOK, Registered
<1>2. Registered' = Registered \ {fd}
  BY <1>1 DEF Registered, ObjectsOK
<1>3. \A g \in Registered \ {fd} : /\ connections'[g] = connections[g]
                                   /\ connections[g] \in Conns \ {c}
                                   /\ conn'[connections[g]] = conn[connections[g]]
  BY <1>1 DEF PoolConserved, ObjectsOK, Registered
<1>4. ObjectsOK'
  BY <1>1 DEF ObjectsOK
<1>5. PoolConserved'
  <2>1. Handed' = Handed
    BY DEF Handed
  <2>2. InMap' = InMap \ {c} /\ c \in InMap
    BY <1>2, <1>3 DEF InMap
  <2>3. \A g \in Registered' : conn'[connections'[g]].fd = g
    BY <1>2, <1>3 DEF PoolConserved
  <2>4. QED BY <2>1, <2>2, <2>3 DEF PoolConserved
<1>6. OpenOnce'
  BY <1>1, <1>2 DEF OpenOnce, ObjectsOK, Handoff, Registered
<1>7. EveryConnectionExpires'
  BY <1>1, <1>2, <1>3 DEF EveryConnectionExpires
<1>8. QED BY <1>4, <1>5, <1>6, <1>7

-----------------------------------------------------------------------------
(* The three ways a handler ends.                                          *)

LEMMA CloseKeepsPool ==
  ASSUME PoolInv, NEW fd \in Registered, NEW cs, NEW sk,
         OnlyObject(cs, connections[fd]), OnlySocket(sk, fd),
         CloseConnection(fd, cs, sk), UNCHANGED <<incoming, adopting>>
  PROVE  PoolInv'
<1> DEFINE c == connections[fd]
<1>1. c \in Conns /\ fd \in Fds /\ conn[c].fd = fd
  BY DEF PoolInv, PoolConserved, ObjectsOK, Registered
<1>2. cs[c] \in ConnRecord /\ Len(cs[c].buf) <= ReadBufferSize
  BY <1>1 DEF OnlyObject
<1>3. CASE MustDefer(cs[c])
  <2> DEFINE r == [cs[c] EXCEPT !.timedOut = TRUE]
  <2>1. /\ r \in ConnRecord /\ Len(r.buf) <= ReadBufferSize
        /\ r.fd = cs[c].fd /\ r.timedOut /\ r.busy = cs[c].busy
    BY <1>2 DEF ConnRecord
  <2>2. conn' = [cs EXCEPT ![c] = r]
    BY <1>3 DEF CloseConnection
  <2> HIDE DEF r
  <2>3. OnlyObject(conn', c) /\ conn'[c] = r
    BY <1>1, <2>1, <2>2, UpdateObject DEF OnlyObject
  <2>4. conn'[c].timedOut /\ conn'[c].busy
    BY <1>3, <2>1, <2>3 DEF MustDefer
  <2>5. /\ OnlySocket(socket', fd)
        /\ UNCHANGED <<connections, freeConns, pendingWrites>>
        /\ deadlines' = deadlines \ {fd}
    BY <1>3 DEF CloseConnection
  <2>6. QED BY <2>3, <2>4, <2>5, StaysRegistered
<1>4. CASE ~MustDefer(cs[c])
  <2>1. /\ conn' = [cs EXCEPT ![c] = [cs[c] EXCEPT !.fd = NoFd, !.stream = "off"]]
        /\ socket' = [sk EXCEPT ![fd] = ClosedSocket]
        /\ connections' = [connections EXCEPT ![fd] = NoConn]
        /\ deadlines' = deadlines \ {fd} /\ pendingWrites' = pendingWrites \ {fd}
        /\ freeConns' = freeConns \cup {c}
    BY <1>4 DEF CloseConnection, Unregister
  <2>2. [cs[c] EXCEPT !.fd = NoFd, !.stream = "off"] \in ConnRecord
    BY <1>2 DEF ConnRecord
  <2>3. /\ conn' \in [Conns -> ConnRecord]
        /\ \A d \in Conns : Len(conn'[d].buf) <= ReadBufferSize
        /\ \A d \in Conns \ {c} : conn'[d] = conn[d]
    BY <1>1, <1>2, <2>1, <2>2, UpdateObject DEF OnlyObject, ConnRecord
  <2>4. /\ socket' \in [Fds -> SocketRecord]
        /\ \A g \in Fds \ {fd} : socket'[g] = socket[g]
    BY <1>1, <2>1, ClosedSocketType, UpdateSocket DEF OnlySocket
  <2>5. QED BY <2>1, <2>3, <2>4, LeavesMap
<1>5. QED BY <1>3, <1>4

LEMMA KeepOpenKeepsPool ==
  ASSUME PoolInv, NEW fd \in Registered, NEW cs, NEW sk,
         OnlyObject(cs, connections[fd]), OnlySocket(sk, fd),
         NEW pending \in {pendingWrites, pendingWrites \cup {fd}, pendingWrites \ {fd}},
         KeepOpen(fd, cs, sk, pending), UNCHANGED <<incoming, adopting>>
  PROVE  PoolInv' /\ UNCHANGED jobs
<1>1. /\ conn' = cs /\ socket' = sk /\ pendingWrites' = pending
      /\ deadlines' = deadlines \cup {fd}
      /\ UNCHANGED <<connections, freeConns, jobs>>
  BY DEF KeepOpen
<1>2. QED BY <1>1, StaysRegistered

LEMMA DispatchKeepsPool ==
  ASSUME PoolInv, jobs \in Seq(Conns), NEW fd \in Registered, NEW cs, NEW sk,
         OnlyObject(cs, connections[fd]), OnlySocket(sk, fd),
         NEW pending \in {pendingWrites, pendingWrites \cup {fd}, pendingWrites \ {fd}},
         Dispatch(fd, cs, sk, pending), UNCHANGED <<incoming, adopting>>
  PROVE  PoolInv' /\ jobs' \in Seq(Conns)
<1> DEFINE c == connections[fd]
           marked(b) == [cs EXCEPT ![c] = [cs[c] EXCEPT !.busy = b]]
<1>1. c \in Conns
  BY DEF PoolInv, ObjectsOK, Registered
<1>2. ASSUME NEW b \in BOOLEAN PROVE OnlyObject(marked(b), c)
  <2>1. [cs[c] EXCEPT !.busy = b] \in ConnRecord
    BY <1>1, ZenonT(60) DEF OnlyObject, ConnRecord
  <2>2. Len([cs[c] EXCEPT !.busy = b].buf) <= ReadBufferSize
        /\ [cs[c] EXCEPT !.busy = b].fd = conn[c].fd
    BY <1>1 DEF OnlyObject, ConnRecord
  <2>3. QED BY <1>1, <2>1, <2>2, UpdateObject DEF OnlyObject
<1>3. CASE Len(jobs) < MaxRequests
  <2>1. /\ conn' = marked(TRUE) /\ socket' = sk /\ pendingWrites' = pending
        /\ deadlines' = deadlines \cup {fd} /\ jobs' = Append(jobs, c)
        /\ UNCHANGED <<connections, freeConns>>
    BY <1>3 DEF Dispatch
  <2>2. jobs' \in Seq(Conns)
    BY <1>1, <2>1, AppendProperties
  <2>3. QED BY <1>2, <2>1, <2>2, StaysRegistered
<1>4. CASE ~(Len(jobs) < MaxRequests)
  <2>1. CloseConnection(fd, marked(FALSE), sk) /\ UNCHANGED jobs
    BY <1>4 DEF Dispatch
  <2>2. QED BY <1>2, <2>1, CloseKeepsPool
<1>5. QED BY <1>3, <1>4

-----------------------------------------------------------------------------
(* The values the handlers compute are of the right type.                  *)

LEMMA HandlerObject ==
  ASSUME PoolInv, NEW fd \in Registered, NEW r \in ConnRecord,
         Len(r.buf) <= ReadBufferSize, r.fd = conn[connections[fd]].fd
  PROVE  OnlyObject([conn EXCEPT ![connections[fd]] = r], connections[fd])
<1>1. connections[fd] \in Conns
  BY DEF PoolInv, ObjectsOK, Registered
<1>2. QED BY <1>1, UpdateObject DEF PoolInv, ObjectsOK, OnlyObject

LEMMA HandlerSocket ==
  ASSUME PoolInv, NEW fd \in Registered, NEW s \in SocketRecord, s.open
  PROVE  OnlySocket([socket EXCEPT ![fd] = s], fd)
BY UpdateSocket DEF PoolInv, ObjectsOK, OnlySocket, Registered

\* The handler left the object or the socket alone.
LEMMA Untouched ==
  ASSUME PoolInv, NEW fd \in Registered
  PROVE  OnlyObject(conn, connections[fd]) /\ OnlySocket(socket, fd)
BY DEF PoolInv, ObjectsOK, OpenOnce, OnlyObject, OnlySocket, Registered

LEMMA ArmType ==
  ASSUME NEW fd \in Fds, NEW sk, OnlySocket(sk, fd), NEW ev \in {"off", "in", "out"}
  PROVE  OnlySocket(Arm(sk, fd, ev), fd)
<1> DEFINE s == [sk[fd] EXCEPT !.armed = ev]
<1>1. s \in SocketRecord /\ s.open
  BY DEF OnlySocket, SocketRecord
<1>2. Arm(sk, fd, ev) = [sk EXCEPT ![fd] = s]
  BY DEF Arm
<1> HIDE DEF s
<1>3. QED BY <1>1, <1>2, UpdateSocket DEF OnlySocket

LEMMA ReceivedType ==
  ASSUME NEW r \in ConnRecord, Len(r.buf) <= ReadBufferSize, NEW s \in SocketRecord
  PROVE  /\ Received(r, s).buf \in Seq(Units)
         /\ Len(Received(r, s).buf) <= ReadBufferSize
         /\ Received(r, s).rest \in Seq(Units)
<1> DEFINE room == RoomToRead(r)
           n == IF Len(s.inbox) < room THEN Len(s.inbox) ELSE room
<1>1. r.buf \in Seq(Units) /\ s.inbox \in Seq(Units)
  BY DEF ConnRecord, SocketRecord
<1>2. ReadBufferSize \in Nat
  BY ReactorAssumption
<1>3. Len(r.buf) \in Nat /\ Len(s.inbox) \in Nat
  BY <1>1, LenProperties
<1>4. n \in 0..Len(s.inbox) /\ Len(r.buf) + n <= ReadBufferSize
  <2>1. room \in Nat /\ Len(r.buf) + room = ReadBufferSize
    BY <1>2, <1>3 DEF RoomToRead
  <2>2. \/ n = Len(s.inbox) /\ Len(s.inbox) < room
        \/ n = room /\ ~(Len(s.inbox) < room)
    OBVIOUS
  <2> HIDE DEF room, n
  <2>3. QED BY <1>2, <1>3, <2>1, <2>2
<1> HIDE DEF n
<1>5. \A i \in 1..Len(s.inbox) : s.inbox[i] \in Units
  BY <1>1, ElementOfSeq
<1>6. SubSeq(s.inbox, 1, n) \in Seq(Units) /\ Len(SubSeq(s.inbox, 1, n)) = n
  <2>1. \A i \in 1..n : s.inbox[i] \in Units
    BY <1>3, <1>4, <1>5
  <2>2. QED BY <1>4, <2>1, SubSeqProperties
<1>7. SubSeq(s.inbox, n + 1, Len(s.inbox)) \in Seq(Units)
  <2>1. \A i \in (n + 1)..Len(s.inbox) : s.inbox[i] \in Units
    BY <1>3, <1>4, <1>5
  <2>2. QED BY <1>3, <1>4, <2>1, SubSeqProperties
<1>8. r.buf \o SubSeq(s.inbox, 1, n) \in Seq(Units)
      /\ Len(r.buf \o SubSeq(s.inbox, 1, n)) = Len(r.buf) + n
  BY <1>1, <1>6, ConcatProperties
<1>9. QED BY <1>4, <1>7, <1>8 DEF Received, n

LEMMA NextRequestType ==
  ASSUME NEW r \in ConnRecord, Len(r.buf) <= ReadBufferSize
  PROVE  /\ NextRequest(r) \in ConnRecord /\ NextRequest(r).fd = r.fd
         /\ Len(NextRequest(r).buf) <= ReadBufferSize
         /\ Cleared(r) \in ConnRecord /\ Cleared(r).fd = r.fd
         /\ Len(Cleared(r).buf) <= ReadBufferSize
<1> DEFINE rest == SubSeq(r.buf, r.parsed + 1, Len(r.buf))
<1>1. r.buf \in Seq(Units) /\ r.parsed \in Nat
  BY DEF ConnRecord
<1>2. Len(r.buf) \in Nat /\ ReadBufferSize \in Nat
  BY <1>1, LenProperties, ReactorAssumption
<1>3. rest \in Seq(Units) /\ Len(rest) <= ReadBufferSize
  <2>1. \A i \in (r.parsed + 1)..Len(r.buf) : r.buf[i] \in Units
    BY <1>1, <1>2, ElementOfSeq
  <2>2. /\ rest \in Seq(Units)
        /\ Len(rest) = IF r.parsed + 1 <= Len(r.buf)
                       THEN Len(r.buf) - (r.parsed + 1) + 1 ELSE 0
    BY <1>1, <1>2, <2>1, SubSeqProperties
  <2>3. QED BY <1>1, <1>2, <2>2
<1>4. /\ Cleared(r) \in ConnRecord /\ Cleared(r).fd = r.fd /\ Cleared(r).buf = <<>>
  BY EmptySeq DEF Cleared, ConnRecord
<1>5. NextRequest(r) = [Cleared(r) EXCEPT !.buf = rest]
  BY DEF NextRequest
<1> HIDE DEF rest
<1>6. /\ NextRequest(r) \in ConnRecord /\ NextRequest(r).fd = r.fd
      /\ NextRequest(r).buf = rest
  BY <1>3, <1>4, <1>5 DEF ConnRecord
<1>7. Len(Cleared(r).buf) <= ReadBufferSize
  BY <1>2, <1>4, EmptySeq
<1>8. QED BY <1>3, <1>4, <1>6, <1>7

LEMMA SentType ==
  ASSUME PoolInv, NEW fd \in Registered, NEW r \in ConnRecord, NEW n \in Int
  PROVE  OnlySocket(Sent(fd, r, n), fd)
<1> DEFINE piece(i) == IF i = r.unsent /\ r.stream = "off" /\ ~r.entered THEN "last" ELSE "more"
           s == [socket[fd] EXCEPT !.outbox = socket[fd].outbox \o Pieces(r, n)]
<1>1. socket[fd] \in SocketRecord /\ socket[fd].open
  BY DEF PoolInv, ObjectsOK, OpenOnce, Registered
<1>2. Pieces(r, n) \in Seq({"more", "last"})
  <2>1. PICK m \in Nat : 1..n = 1..m
    <3>1. CASE n \in Nat
      BY <3>1
    <3>2. CASE n \notin Nat
      <4>1. 1..n = 1..0
        BY <3>2
      <4>2. QED BY <4>1
    <3>3. QED BY <3>1, <3>2
  <2>2. Pieces(r, n) = [i \in 1..m |-> piece(i)]
    BY <2>1 DEF Pieces
  <2>3. \A i \in 1..m : piece(i) \in {"more", "last"}
    OBVIOUS
  <2> HIDE DEF piece
  <2>4. [i \in 1..m |-> piece(i)] \in Seq({"more", "last"})
    BY <2>3, IsASeq
  <2>5. QED BY <2>2, <2>4
<1>3. socket[fd].outbox \in Seq({"more", "last"})
  BY <1>1 DEF SocketRecord
<1>4. socket[fd].outbox \o Pieces(r, n) \in Seq({"more", "last"})
  BY <1>2, <1>3, ConcatProperties
<1>5. s \in SocketRecord /\ s.open
  BY <1>1, <1>4 DEF SocketRecord
<1>6. Sent(fd, r, n) = [socket EXCEPT ![fd] = s]
  BY DEF Sent
<1> HIDE DEF s
<1>7. QED BY <1>5, <1>6, HandlerSocket

-----------------------------------------------------------------------------
(* The handlers of a registered descriptor.                                *)

LEMMA CloseHandler ==
  ASSUME PoolInv, jobs \in Seq(Conns), NEW fd \in Registered,
         Close(fd), UNCHANGED <<incoming, adopting>>
  PROVE  PoolInv' /\ jobs' \in Seq(Conns)
BY CloseKeepsPool, Untouched DEF Close

LEMMA ReadHandler ==
  ASSUME PoolInv, jobs \in Seq(Conns), NEW fd \in Registered,
         HandleRead(fd), UNCHANGED <<incoming, adopting>>
  PROVE  PoolInv' /\ jobs' \in Seq(Conns)
<1> DEFINE c == connections[fd]
           got == Received(conn[c], socket[fd])
           r == [conn[c] EXCEPT !.buf = got.buf]
           s == [socket[fd] EXCEPT !.inbox = got.rest]
           cs == [conn EXCEPT ![c] = r]
           sk == [socket EXCEPT ![fd] = s]
<1>1. /\ conn[c] \in ConnRecord /\ Len(conn[c].buf) <= ReadBufferSize
      /\ socket[fd] \in SocketRecord /\ socket[fd].open
  BY DEF PoolInv, ObjectsOK, OpenOnce, Registered
<1>2. r \in ConnRecord /\ Len(r.buf) <= ReadBufferSize /\ r.fd = conn[c].fd
  <2>1. got.buf \in Seq(Units) /\ Len(got.buf) <= ReadBufferSize
    BY <1>1, ReceivedType
  <2> HIDE DEF got
  <2>2. QED BY <1>1, <2>1 DEF ConnRecord
<1>3. s \in SocketRecord /\ s.open
  <2>1. got.rest \in Seq(Units)
    BY <1>1, ReceivedType
  <2> HIDE DEF got
  <2>2. QED BY <1>1, <2>1 DEF SocketRecord
<1>4. \/ Dispatch(fd, cs, sk, pendingWrites)
      \/ CloseConnection(fd, cs, sk) /\ UNCHANGED jobs
  BY DEF HandleRead
<1> HIDE DEF r, s, c
<1>5. OnlyObject(cs, c) /\ OnlySocket(sk, fd)
  BY <1>2, <1>3, HandlerObject, HandlerSocket DEF c
<1>6. CASE Dispatch(fd, cs, sk, pendingWrites)
  BY <1>5, <1>6, DispatchKeepsPool DEF c
<1>7. CASE CloseConnection(fd, cs, sk) /\ UNCHANGED jobs
  BY <1>5, <1>7, CloseKeepsPool DEF c
<1>8. QED BY <1>4, <1>6, <1>7

LEMMA WriteHandler ==
  ASSUME PoolInv, jobs \in Seq(Conns), NEW fd \in Registered,
         HandleWrite(fd), UNCHANGED <<incoming, adopting>>
  PROVE  PoolInv' /\ jobs' \in Seq(Conns)
<1> DEFINE c == connections[fd]
           r == conn[c]
<1>1. fd \in Fds /\ r \in ConnRecord /\ Len(r.buf) <= ReadBufferSize
  BY DEF PoolInv, ObjectsOK, Registered
<1>2. r.unsent \in Nat /\ RoomToSend(fd) \in Int
  <2>1. socket[fd].outbox \in Seq({"more", "last"})
    BY <1>1 DEF PoolInv, ObjectsOK, SocketRecord
  <2>2. Len(socket[fd].outbox) \in Nat /\ SendBuffer \in Nat
    BY <2>1, LenProperties, ReactorAssumption
  <2>3. RoomToSend(fd) \in Int
    BY <2>2 DEF RoomToSend
  <2>4. QED BY <1>1, <2>3 DEF ConnRecord
<1>3. ASSUME NEW n \in Nat
      PROVE  OnlyObject([conn EXCEPT ![c].unsent = n], c)
  <2>1. /\ [r EXCEPT !.unsent = n] \in ConnRecord
        /\ [r EXCEPT !.unsent = n].buf = r.buf /\ [r EXCEPT !.unsent = n].fd = r.fd
    BY <1>1 DEF ConnRecord
  <2>2. QED BY <1>1, <2>1, HandlerObject
<1>4. ASSUME NEW n \in Int, NEW ev \in {"off", "in", "out"}
      PROVE  OnlySocket(Sent(fd, r, n), fd) /\ OnlySocket(Arm(Sent(fd, r, n), fd, ev), fd)
  BY <1>1, SentType, ArmType
<1>5. CASE WriteNothing(fd, c)
  <2>1. OnlyObject([conn EXCEPT ![c] = Cleared(conn[c])], c)
    BY <1>1, NextRequestType, HandlerObject
  <2>2. OnlySocket(Arm(socket, fd, "in"), fd)
    BY <1>1, Untouched, ArmType
  <2>3. QED BY <1>5, <2>1, <2>2, KeepOpenKeepsPool DEF WriteNothing
<1>6. CASE WriteBlocks(fd, c)
  <2> DEFINE room == RoomToSend(fd)
             left == r.unsent - room
             cs == [conn EXCEPT ![c].unsent = left]
             sk == Arm(Sent(fd, r, room), fd, "out")
  <2>1. left \in Nat
    BY <1>2, <1>6 DEF WriteBlocks
  <2>2. \/ Dispatch(fd, cs, sk, pendingWrites \cup {fd})
        \/ KeepOpen(fd, cs, sk, pendingWrites \cup {fd})
    BY <1>6 DEF WriteBlocks
  <2> HIDE DEF left
  <2>3. OnlyObject(cs, c) /\ OnlySocket(sk, fd)
    BY <1>2, <1>3, <1>4, <2>1
  <2> HIDE DEF cs, sk
  <2>4. QED BY <2>2, <2>3, DispatchKeepsPool, KeepOpenKeepsPool
<1>7. CASE WriteFails(fd, c)
  BY <1>7, Untouched, CloseKeepsPool DEF WriteFails
<1>8. CASE WriteCompletes(fd, c)
  <2> DEFINE after == NextRequest(r)
             cs == [conn EXCEPT ![c] = after]
             none == [conn EXCEPT ![c].unsent = 0]
             sk == Sent(fd, r, r.unsent)
             sa == Arm(sk, fd, "in")
             left == pendingWrites \ {fd}
  <2>1. \/ CloseConnection(fd, none, sk) /\ UNCHANGED jobs
        \/ Dispatch(fd, cs, sk, left)
        \/ KeepOpen(fd, cs, sa, left)
    BY <1>8 DEF WriteCompletes
  <2>2. OnlyObject(cs, c)
    BY <1>1, NextRequestType, HandlerObject
  <2>3. OnlyObject(none, c) /\ OnlySocket(sk, fd) /\ OnlySocket(sa, fd)
    BY <1>2, <1>3, <1>4
  <2> HIDE DEF cs, none, sk, sa
  <2>4. QED BY <2>1, <2>2, <2>3, CloseKeepsPool, DispatchKeepsPool, KeepOpenKeepsPool
<1>9. CASE WriteChunk(fd, c)
  <2> DEFINE cs == [conn EXCEPT ![c].unsent = 0]
             done == [cs EXCEPT ![c].stream = "done"]
             sk == Sent(fd, r, r.unsent)
             sa == Arm(sk, fd, "in")
             left == pendingWrites \ {fd}
             last == [r EXCEPT !.unsent = 0, !.stream = "done"]
  <2>1. \/ CloseConnection(fd, done, sk) /\ UNCHANGED jobs
        \/ KeepOpen(fd, cs, sa, left)
    BY <1>9 DEF WriteChunk
  <2>2. OnlyObject(cs, c) /\ OnlySocket(sk, fd) /\ OnlySocket(sa, fd)
    BY <1>2, <1>3, <1>4
  <2>3. OnlyObject(done, c)
    <3>1. done = [conn EXCEPT ![c] = last]
      <4>1. c \in Conns /\ conn \in [Conns -> ConnRecord]
        BY DEF PoolInv, ObjectsOK, Registered
      <4>2. cs = [conn EXCEPT ![c] = [r EXCEPT !.unsent = 0]]
        OBVIOUS
      <4>3. cs[c] = [r EXCEPT !.unsent = 0]
        BY <4>1, <4>2
      <4>4. done = [cs EXCEPT ![c] = [[r EXCEPT !.unsent = 0] EXCEPT !.stream = "done"]]
        BY <4>3
      <4>5. last = [[r EXCEPT !.unsent = 0] EXCEPT !.stream = "done"]
        OBVIOUS
      <4> HIDE DEF last
      <4>6. QED BY <4>1, <4>2, <4>4, <4>5
    <3>2. last \in ConnRecord /\ last.buf = r.buf /\ last.fd = r.fd
      BY <1>1 DEF ConnRecord
    <3> HIDE DEF done, last
    <3>3. QED BY <1>1, <3>1, <3>2, HandlerObject
  <2> HIDE DEF cs, done, sk, sa
  <2>4. QED BY <2>1, <2>2, <2>3, CloseKeepsPool, KeepOpenKeepsPool
<1>10. QED BY <1>5, <1>6, <1>7, <1>8, <1>9 DEF HandleWrite

-----------------------------------------------------------------------------
(* One lemma for each action that moves objects or descriptors.            *)

\* When nothing of the pool, the map, the objects or the sockets moves.
LEMMA PoolUnchanged ==
  ASSUME PoolInv, UNCHANGED <<freeConns, incoming, adopting, mapVars, conn, socket>>
  PROVE  PoolInv'
<1>1. ObjectsOK'
  BY DEF PoolInv, ObjectsOK, mapVars
<1>2. Registered' = Registered /\ Handed' = Handed /\ InMap' = InMap
  BY DEF Registered, Handed, InMap, mapVars
<1>3. QED BY <1>1, <1>2 DEF PoolInv, PoolConserved, OpenOnce, EveryConnectionExpires, mapVars

\* The main thread takes a free object and a closed descriptor together.
LEMMA AcceptKeepsPool ==
  ASSUME PoolInv, Accept
  PROVE  PoolInv'
<1>1. PICK fd \in Fds, c \in freeConns :
        /\ ~socket[fd].open
        /\ freeConns' = freeConns \ {c}
        /\ incoming' = incoming \cup {[conn |-> c, fd |-> fd]}
        /\ socket' = [socket EXCEPT ![fd] = [ClosedSocket EXCEPT !.open = TRUE]]
        /\ UNCHANGED <<loopVars, mapVars, conn>>
  BY DEF Accept
<1> DEFINE item == [conn |-> c, fd |-> fd]
           s == [ClosedSocket EXCEPT !.open = TRUE]
<1>2. s \in SocketRecord /\ s.open
  BY ClosedSocketType DEF SocketRecord, ClosedSocket
<1> HIDE DEF s
<1>3. UNCHANGED <<adopting, connections, deadlines, pendingWrites, conn, Registered, InMap>>
  BY <1>1 DEF loopVars, mapVars, Registered, InMap
<1>4. c \in Conns /\ item \in Handoff /\ item.conn = c /\ item.fd = fd
  BY <1>1 DEF PoolInv, ObjectsOK, Handoff
<1>5. /\ socket' \in [Fds -> SocketRecord] /\ socket'[fd].open
      /\ \A g \in Fds \ {fd} : socket'[g] = socket[g]
  BY <1>1, <1>2, UpdateSocket DEF PoolInv, ObjectsOK, s
<1>6. \A i \in incoming \cup adopting : i.conn # c /\ i.fd # fd /\ i.fd \in Fds
  BY <1>1, <1>4 DEF PoolInv, PoolConserved, OpenOnce, Handed, ObjectsOK, Handoff
<1>7. fd \notin Registered /\ c \notin InMap
  BY <1>1, <1>4 DEF PoolInv, PoolConserved, OpenOnce
<1> HIDE DEF item
<1>8. incoming' \cup adopting' = (incoming \cup adopting) \cup {item}
  BY <1>1, <1>3 DEF item
<1>9. ObjectsOK'
  BY <1>1, <1>3, <1>4, <1>5 DEF PoolInv, ObjectsOK, item
<1>10. PoolConserved'
  <2>1. Handed' = Handed \cup {c}
    BY <1>4, <1>8 DEF Handed
  <2>2. \A i, j \in (incoming \cup adopting)' : i.conn = j.conn \/ i.fd = j.fd => i = j
    BY <1>4, <1>6, <1>8 DEF PoolInv, PoolConserved
  <2>3. c \notin Handed
    BY <1>6 DEF Handed
  <2>4. QED BY <1>1, <1>3, <1>4, <1>7, <2>1, <2>2, <2>3 DEF PoolInv, PoolConserved
<1>11. OpenOnce'
  <2>1. \A g \in Registered : g \in Fds \ {fd}
    BY <1>7 DEF Registered
  <2>2. \A g \in Registered' : socket'[g].open
    BY <1>3, <1>5, <2>1 DEF PoolInv, OpenOnce
  <2>3. \A i \in incoming \cup adopting : socket'[i.fd].open /\ i.fd \notin Registered'
    BY <1>3, <1>5, <1>6 DEF PoolInv, OpenOnce
  <2>4. incoming' \cap adopting' = {}
    BY <1>1, <1>3, <1>4, <1>6 DEF PoolInv, OpenOnce, item
  <2>5. QED BY <1>3, <1>4, <1>5, <1>7, <1>8, <2>2, <2>3, <2>4 DEF OpenOnce
<1>12. EveryConnectionExpires'
  BY <1>3 DEF PoolInv, EveryConnectionExpires
<1>13. QED BY <1>9, <1>10, <1>11, <1>12 DEF PoolInv

\* The reactor registers a descriptor that nobody else has.
LEMMA AdoptKeepsPool ==
  ASSUME PoolInv, Adopt
  PROVE  PoolInv'
<1>1. PICK item \in adopting :
        /\ adopting' = adopting \ {item}
        /\ conn' = [conn EXCEPT ![item.conn] = Adopted(conn[item.conn], item.fd)]
        /\ connections' = [connections EXCEPT ![item.fd] = item.conn]
        /\ deadlines' = deadlines \cup {item.fd}
        /\ socket' = Arm(socket, item.fd, "in")
        /\ UNCHANGED <<freeConns, incoming, pendingWrites>>
  BY DEF Adopt, queueVars
<1> DEFINE c == item.conn
           fd == item.fd
           r == Adopted(conn[c], fd)
<1>2. /\ c \in Conns /\ fd \in Fds /\ fd \notin Registered
      /\ socket[fd] \in SocketRecord /\ socket[fd].open
      /\ conn[c] \in ConnRecord /\ Len(conn[c].buf) <= ReadBufferSize
  BY DEF PoolInv, ObjectsOK, OpenOnce, Handoff
<1>3. c \in Handed /\ c \notin InMap /\ c \notin freeConns
  BY DEF PoolInv, PoolConserved, Handed
<1>4. r \in ConnRecord /\ r.fd = fd /\ Len(r.buf) <= ReadBufferSize
  <2>1. Cleared(conn[c]) \in ConnRecord /\ Len(Cleared(conn[c]).buf) <= ReadBufferSize
    BY <1>2, NextRequestType
  <2>2. conn[c].gen + 1 \in Nat
    BY <1>2 DEF ConnRecord
  <2>3. QED BY <1>2, <2>1, <2>2 DEF ConnRecord, Adopted
<1>14. conn' = [conn EXCEPT ![c] = r]
  BY <1>1
<1> HIDE DEF r
<1>5. /\ conn' \in [Conns -> ConnRecord] /\ conn'[c] = r
      /\ \A d \in Conns : Len(conn'[d].buf) <= ReadBufferSize
      /\ \A d \in Conns \ {c} : conn'[d] = conn[d]
  BY <1>2, <1>4, <1>14, UpdateObject DEF PoolInv, ObjectsOK
<1>6. /\ socket' \in [Fds -> SocketRecord] /\ socket'[fd].open
      /\ \A g \in Fds \ {fd} : socket'[g] = socket[g]
  <2>1. OnlySocket(socket, fd)
    BY <1>2 DEF OnlySocket, PoolInv, ObjectsOK
  <2>2. QED BY <1>1, <1>2, <2>1, ArmType DEF OnlySocket
<1>7. /\ Registered' = Registered \cup {fd} /\ connections'[fd] = c
      /\ \A g \in Registered : connections'[g] = connections[g] /\ g # fd
                               /\ connections[g] \in Conns \ {c}
                               /\ conn'[connections[g]] = conn[connections[g]]
  <2>1. connections'[fd] = c /\ \A g \in Fds \ {fd} : connections'[g] = connections[g]
    BY <1>1, <1>2 DEF PoolInv, ObjectsOK
  <2>2. Registered' = Registered \cup {fd}
    BY <1>2, <2>1, ReactorAssumption DEF Registered
  <2>3. \A g \in Registered : g \in Fds /\ connections[g] \in Conns \ {c}
    BY <1>3 DEF PoolInv, ObjectsOK, Registered, InMap
  <2>4. QED BY <1>2, <1>5, <2>1, <2>2, <2>3
<1>8. \A i \in incoming' \cup adopting' : /\ i \in (incoming \cup adopting) /\ i.conn # c
                                          /\ i.fd # fd /\ i.fd \in Fds
  <2>1. item \notin incoming
    BY DEF PoolInv, OpenOnce
  <2>2. QED BY <1>1, <2>1 DEF PoolInv, PoolConserved, ObjectsOK, Handoff
<1>9. ObjectsOK'
  BY <1>1, <1>2, <1>5, <1>6 DEF PoolInv, ObjectsOK
<1>10. PoolConserved'
  <2>1. InMap' = InMap \cup {c}
    BY <1>7 DEF InMap
  <2>2. Handed' = Handed \ {c}
    BY <1>1, <1>8 DEF Handed
  <2>3. \A g \in Registered' : conn'[connections'[g]].fd = g
    BY <1>4, <1>5, <1>7 DEF PoolInv, PoolConserved
  <2>4. \A i, j \in incoming' \cup adopting' : i.conn = j.conn \/ i.fd = j.fd => i = j
    BY <1>8 DEF PoolInv, PoolConserved
  <2>5. QED BY <1>1, <1>3, <2>1, <2>2, <2>3, <2>4 DEF PoolInv, PoolConserved
<1>11. OpenOnce'
  <2>1. \A g \in Registered' : socket'[g].open
    BY <1>6, <1>7 DEF PoolInv, OpenOnce, Registered
  <2>2. \A i \in incoming' \cup adopting' : socket'[i.fd].open /\ i.fd \notin Registered'
    BY <1>6, <1>7, <1>8 DEF PoolInv, OpenOnce
  <2>3. incoming' \cap adopting' = {}
    BY <1>1 DEF PoolInv, OpenOnce
  <2>4. QED BY <2>1, <2>2, <2>3 DEF OpenOnce
<1>12. EveryConnectionExpires'
  BY <1>1, <1>7 DEF PoolInv, EveryConnectionExpires
<1>13. QED BY <1>9, <1>10, <1>11, <1>12 DEF PoolInv

\* Sockets change, none is closed.
LEMMA SocketsKeepPool ==
  ASSUME PoolInv, socket' \in [Fds -> SocketRecord],
         \A fd \in Fds : socket[fd].open => socket'[fd].open,
         UNCHANGED <<freeConns, incoming, adopting, mapVars, conn>>
  PROVE  PoolInv'
<1>1. ObjectsOK'
  BY DEF PoolInv, ObjectsOK, mapVars
<1>2. /\ Registered' = Registered /\ Handed' = Handed /\ InMap' = InMap
      /\ UNCHANGED <<connections, deadlines, pendingWrites>>
  BY DEF Registered, Handed, InMap, mapVars
<1>3. OpenOnce'
  <2>1. \A i \in incoming \cup adopting : i.fd \in Fds
    BY DEF PoolInv, ObjectsOK, Handoff
  <2>2. QED BY <1>2, <2>1 DEF PoolInv, OpenOnce, Registered
<1>4. QED BY <1>1, <1>2, <1>3 DEF PoolInv, PoolConserved, EveryConnectionExpires

\* A worker changes what its object has parsed and has to send.
LEMMA ObjectKeepsPool ==
  ASSUME PoolInv, NEW c \in Conns, NEW r \in ConnRecord,
         Len(r.buf) <= ReadBufferSize, r.fd = conn[c].fd,
         conn[c].timedOut => r.timedOut, conn[c].busy => r.busy,
         conn' = [conn EXCEPT ![c] = r],
         UNCHANGED <<freeConns, incoming, adopting, mapVars, socket>>
  PROVE  PoolInv'
<1>1. /\ conn' \in [Conns -> ConnRecord] /\ conn'[c] = r
      /\ \A d \in Conns : Len(conn'[d].buf) <= ReadBufferSize
      /\ \A d \in Conns \ {c} : conn'[d] = conn[d]
  BY UpdateObject DEF PoolInv, ObjectsOK
<1>2. /\ Registered' = Registered /\ Handed' = Handed /\ InMap' = InMap
      /\ UNCHANGED <<connections, deadlines, pendingWrites>>
  BY DEF Registered, Handed, InMap, mapVars
<1>3. \A d \in Conns : /\ conn'[d].fd = conn[d].fd
                       /\ conn[d].timedOut => conn'[d].timedOut
                       /\ conn[d].busy => conn'[d].busy
  BY <1>1
<1>4. \A g \in Registered : connections[g] \in Conns
  BY DEF PoolInv, ObjectsOK, Registered
<1>5. ObjectsOK'
  BY <1>1, <1>2 DEF PoolInv, ObjectsOK
<1>6. PoolConserved' /\ EveryConnectionExpires'
  BY <1>2, <1>3, <1>4 DEF PoolInv, PoolConserved, EveryConnectionExpires
<1>7. OpenOnce'
  BY <1>2 DEF PoolInv, OpenOnce
<1>8. QED BY <1>5, <1>6, <1>7 DEF PoolInv

\* A completion that is current belongs to a registered descriptor.
LEMMA CompletionHandler ==
  ASSUME PoolInv, jobs \in Seq(Conns), NEW e, IsCurrent(e), ApplyCompletion(e),
         UNCHANGED <<incoming, adopting>>
  PROVE  PoolInv' /\ jobs' \in Seq(Conns)
<1> DEFINE fd == e.fd
           c == connections[fd]
           r == [conn[c] EXCEPT !.busy = FALSE, !.timedOut = FALSE]
           idle == [conn EXCEPT ![c].busy = FALSE, ![c].timedOut = FALSE]
           in == Arm(socket, fd, "in")
           out == Arm(socket, fd, "out")
           more == pendingWrites \cup {fd}
<1>1. fd \in Registered /\ fd \in Fds /\ c = e.conn
  BY DEF IsCurrent, Registered
<1>2. c \in Conns /\ conn[c] \in ConnRecord /\ Len(conn[c].buf) <= ReadBufferSize
  BY <1>1 DEF PoolInv, ObjectsOK, Registered
<1>3. \/ CloseConnection(fd, idle, socket) /\ UNCHANGED jobs
      \/ KeepOpen(fd, idle, in, pendingWrites)
      \/ KeepOpen(fd, idle, out, more)
  BY <1>1 DEF ApplyCompletion
<1>4. OnlyObject(idle, c)
  <2>1. r \in ConnRecord /\ r.buf = conn[c].buf /\ r.fd = conn[c].fd
    BY <1>2 DEF ConnRecord
  <2>2. idle = [conn EXCEPT ![c] = r]
    <3>1. conn \in [Conns -> ConnRecord]
      BY DEF PoolInv, ObjectsOK
    <3>2. QED BY <1>2, <3>1
  <2> HIDE DEF r, idle
  <2>3. QED BY <1>1, <1>2, <2>1, <2>2, HandlerObject
<1>5. OnlySocket(socket, fd) /\ OnlySocket(in, fd) /\ OnlySocket(out, fd)
  BY <1>1, Untouched, ArmType
<1> HIDE DEF fd, idle, in, out, more
<1>6. CASE CloseConnection(fd, idle, socket) /\ UNCHANGED jobs
  BY <1>1, <1>4, <1>5, <1>6, CloseKeepsPool
<1>7. CASE KeepOpen(fd, idle, in, pendingWrites)
  BY <1>1, <1>4, <1>5, <1>7, KeepOpenKeepsPool
<1>8. CASE KeepOpen(fd, idle, out, more)
  BY <1>1, <1>4, <1>5, <1>8, KeepOpenKeepsPool DEF more
<1>9. QED BY <1>3, <1>6, <1>7, <1>8

LEMMA ResumeHandler ==
  ASSUME PoolInv, jobs \in Seq(Conns), NEW fd \in Registered,
         ResumeStream(fd), UNCHANGED <<incoming, adopting>>
  PROVE  PoolInv' /\ jobs' \in Seq(Conns)
<1> DEFINE c == connections[fd]
           r0 == [conn[c] EXCEPT !.entered = @ \/ conn[c].busy]
           chunk == [r0 EXCEPT !.unsent = 1]
           done(n) == [r0 EXCEPT !.stream = "done", !.unsent = n]
           out == Arm(socket, fd, "out")
<1>1. fd \in Fds /\ conn[c] \in ConnRecord /\ Len(conn[c].buf) <= ReadBufferSize
  BY DEF PoolInv, ObjectsOK, Registered
<1>2. \/ UNCHANGED <<freeConns, mapVars, conn, socket, jobs>>
      \/ KeepOpen(fd, [conn EXCEPT ![c] = chunk], out, pendingWrites \cup {fd})
      \/ \E n \in {0, 1} : KeepOpen(fd, [conn EXCEPT ![c] = done(n)], out, pendingWrites \cup {fd})
  BY DEF ResumeStream
<1>3. ASSUME NEW n \in {0, 1}
      PROVE  /\ chunk \in ConnRecord /\ chunk.buf = conn[c].buf /\ chunk.fd = conn[c].fd
             /\ done(n) \in ConnRecord /\ done(n).buf = conn[c].buf /\ done(n).fd = conn[c].fd
  <2>1. r0 \in ConnRecord /\ r0.buf = conn[c].buf /\ r0.fd = conn[c].fd
    BY <1>1 DEF ConnRecord
  <2> HIDE DEF r0
  <2>2. chunk \in ConnRecord /\ chunk.buf = conn[c].buf /\ chunk.fd = conn[c].fd
    BY <2>1 DEF ConnRecord
  <2>3. n \in Nat
    OBVIOUS
  <2>4. done(n) \in ConnRecord /\ done(n).buf = conn[c].buf /\ done(n).fd = conn[c].fd
    BY <2>1, <2>3 DEF ConnRecord
  <2>5. QED BY <2>2, <2>4
<1> HIDE DEF chunk, done
<1>4. /\ OnlyObject([conn EXCEPT ![c] = chunk], c)
      /\ \A n \in {0, 1} : OnlyObject([conn EXCEPT ![c] = done(n)], c)
  BY <1>1, <1>3, HandlerObject
<1>5. OnlySocket(out, fd)
  BY <1>1, Untouched, ArmType
<1> HIDE DEF out
<1>6. CASE UNCHANGED <<freeConns, mapVars, conn, socket, jobs>>
  BY <1>6, PoolUnchanged
<1>7. CASE KeepOpen(fd, [conn EXCEPT ![c] = chunk], out, pendingWrites \cup {fd})
  BY <1>4, <1>5, <1>7, KeepOpenKeepsPool
<1>8. CASE \E n \in {0, 1} :
             KeepOpen(fd, [conn EXCEPT ![c] = done(n)], out, pendingWrites \cup {fd})
  BY <1>4, <1>5, <1>8, KeepOpenKeepsPool
<1>9. QED BY <1>2, <1>6, <1>7, <1>8

-----------------------------------------------------------------------------
(* The invariant.                                                          *)

LEMMA InitInv == Init => Inv
<1> SUFFICES ASSUME Init PROVE Inv
  OBVIOUS
<1> USE DEF Init
<1>1. Registered = {} /\ Handed = {} /\ InMap = {}
  BY DEF Registered, Handed, InMap
<1>2. Len(<<>>) <= ReadBufferSize
  BY ReactorAssumption, EmptySeq
<1>3. conn \in [Conns -> ConnRecord]
  BY EmptySeq DEF ConnRecord
<1>4. ObjectsOK
  BY <1>2, <1>3, ClosedSocketType DEF ObjectsOK
<1>5. PoolInv
  BY <1>1, <1>4 DEF PoolInv, PoolConserved, OpenOnce, EveryConnectionExpires
<1>6. QueuesOK /\ WorkersOK /\ jobs \in Seq(Conns) /\ AdoptsAll
  BY EmptySeq DEF QueuesOK, WorkersOK, BusyHasObject, IdleWorker, Results, AdoptsAll
<1>7. QED BY <1>5, <1>6, InvParts

\* The steps of the reactor thread leave the workers alone.
LEMMA ReactorKeepsInv == Inv /\ ReactorNext => Inv'
<1> SUFFICES ASSUME Inv, ReactorNext PROVE Inv'
  OBVIOUS
<1>1. PoolInv /\ AdoptsAll /\ QueuesOK /\ WorkersOK /\ jobs \in Seq(Conns)
  BY InvParts
<1>2. UNCHANGED worker
  BY DEF ReactorNext, EpollWait, HandleEvent, DrainNotifications, TakeNotifications, Adopt,
         Finish, EndNotifications, NextSweep, Sweep, Resume, Reap, Retry, Expire, Visit, poolVars
<1>3. WorkersOK'
  BY <1>1, <1>2 DEF WorkersOK, BusyHasObject
<1>4. PoolInv' /\ jobs' \in Seq(Conns) /\ QueuesOK' /\ AdoptsAll'
  <2>1. CASE EpollWait
    <3> DEFINE ready == UNION {Ready(fd) : fd \in Fds}
               next(fd) == IF \E e \in ready : e.fd = fd
                           THEN [socket[fd] EXCEPT !.armed = "off"] ELSE socket[fd]
    <3>1. ready \subseteq Event
      <4>1. \A fd \in Fds : Ready(fd) \subseteq Event
        BY DEF Ready, Event
      <4>2. QED BY <4>1
    <3>2. /\ phase' = "events" /\ phase = "wait"
          /\ batch' = ready \cup (IF notified THEN {NotifyEvent} ELSE {})
          /\ socket' = [fd \in Fds |-> next(fd)]
          /\ UNCHANGED <<freeConns, queueVars, adopting, finishing, todo, mapVars, conn, jobs>>
      BY <2>1 DEF EpollWait, poolVars
    <3> HIDE DEF ready
    <3>3. \A fd \in Fds : /\ next(fd) \in SocketRecord
                          /\ socket[fd].open => next(fd).open
      <4> SUFFICES ASSUME NEW fd \in Fds
                   PROVE  next(fd) \in SocketRecord /\ (socket[fd].open => next(fd).open)
        OBVIOUS
      <4>1. socket[fd] \in SocketRecord
        BY <1>1 DEF PoolInv, ObjectsOK
      <4>2. QED BY <4>1 DEF SocketRecord
    <3>4. PoolInv'
      BY <1>1, <3>2, <3>3, SocketsKeepPool DEF queueVars
    <3>5. batch' \subseteq Event \cup {NotifyEvent}
      BY <3>1, <3>2
    <3>6. QED BY <1>1, <3>2, <3>4, <3>5 DEF QueuesOK, AdoptsAll, queueVars
  <2>2. CASE HandleEvent
    <3>1. PICK e \in batch \ {NotifyEvent} :
            /\ batch' = batch \ {e}
            /\ \/ UNCHANGED <<freeConns, mapVars, conn, socket, jobs>>
               \/ /\ e.fd \in Registered
                  /\ \/ CloseConnection(e.fd, conn, socket) /\ UNCHANGED jobs
                     \/ HandleRead(e.fd)
                     \/ HandleWrite(e.fd)
            /\ UNCHANGED <<queueVars, phase, adopting, finishing, todo>>
      BY <2>2 DEF HandleEvent
    <3>2. UNCHANGED <<incoming, adopting, completed, notified, acceptor>>
      BY <3>1 DEF queueVars
    <3>3. QueuesOK' /\ AdoptsAll'
      BY <1>1, <3>1, <3>2 DEF QueuesOK, AdoptsAll
    <3>4. PoolInv' /\ jobs' \in Seq(Conns)
      BY <1>1, <3>1, <3>2, PoolUnchanged, CloseHandler, ReadHandler, WriteHandler DEF Close
    <3>5. QED BY <3>3, <3>4
  <2>9. CASE DrainNotifications
    <3>1. /\ phase = "events" /\ phase' = "drained" /\ notified' = FALSE /\ batch' \subseteq batch
          /\ UNCHANGED <<freeConns, incoming, adopting, completed, finishing, acceptor, todo,
                         mapVars, conn, socket, jobs>>
      BY <2>9 DEF DrainNotifications, DrainOrSwap, NotificationOrder, poolVars
    <3>2. PoolInv'
      BY <1>1, <3>1, PoolUnchanged
    <3>3. QED BY <1>1, <3>1, <3>2 DEF QueuesOK, AdoptsAll
  <2>3. CASE TakeNotifications
    <3>1. /\ adopting = {} /\ adopting' = incoming /\ incoming' = {}
          /\ phase' = "notify"
          /\ finishing' = completed /\ completed' = <<>>
          /\ UNCHANGED <<freeConns, notified, acceptor, batch, todo, mapVars, conn, socket, jobs>>
      BY <1>1, <2>3 DEF TakeNotifications, DrainOrSwap, NotificationOrder, AdoptsAll, poolVars
    <3>2. incoming' \cup adopting' = incoming \cup adopting /\ incoming' \cap adopting' = {}
      BY <3>1
    <3>3. /\ Registered' = Registered /\ Handed' = Handed /\ InMap' = InMap
          /\ UNCHANGED <<connections, deadlines, pendingWrites>>
      BY <3>1, <3>2 DEF Registered, Handed, InMap, mapVars
    <3>4. ObjectsOK'
      BY <1>1, <3>1 DEF PoolInv, ObjectsOK, mapVars
    <3>5. PoolInv'
      BY <1>1, <3>1, <3>2, <3>3, <3>4
         DEF PoolInv, PoolConserved, OpenOnce, EveryConnectionExpires
    <3>6. QueuesOK' /\ AdoptsAll'
      BY <1>1, <3>1, EmptySeq DEF QueuesOK, AdoptsAll
    <3>7. QED BY <1>1, <3>1, <3>5, <3>6
  <2>4. CASE Adopt
    <3>1. /\ phase = "notify"
          /\ UNCHANGED <<completed, notified, acceptor, phase, batch, finishing, todo, jobs>>
      BY <2>4 DEF Adopt, queueVars, poolVars
    <3>2. QED BY <1>1, <2>4, <3>1, AdoptKeepsPool DEF QueuesOK, AdoptsAll
  <2>5. CASE Finish
    <3>1. /\ finishing # <<>> /\ finishing' = Tail(finishing)
          /\ \/ IsCurrent(Head(finishing)) /\ ApplyCompletion(Head(finishing))
             \/ UNCHANGED <<freeConns, mapVars, conn, socket, jobs>>
          /\ UNCHANGED <<incoming, adopting, completed, notified, acceptor, phase, batch, todo>>
      BY <2>5 DEF Finish, queueVars
    <3>2. PoolInv' /\ jobs' \in Seq(Conns)
      BY <1>1, <3>1, CompletionHandler, PoolUnchanged
    <3>3. finishing' \in Seq(Completion)
      BY <1>1, <3>1, HeadTailProperties DEF QueuesOK
    <3>4. QED BY <1>1, <3>1, <3>2, <3>3 DEF QueuesOK, AdoptsAll
  <2>6. CASE EndNotifications
    <3>1. /\ adopting = {} /\ phase' = "events"
          /\ UNCHANGED <<freeConns, queueVars, incoming, batch, adopting, finishing, todo,
                         mapVars, conn, socket, jobs>>
      BY <2>6 DEF EndNotifications, queueVars, poolVars
    <3>2. QED BY <1>1, <3>1, PoolUnchanged DEF QueuesOK, AdoptsAll, queueVars
  <2>7. CASE NextSweep
    <3>1. \A g \in Registered : g \in Fds
      BY DEF Registered
    <3>2. \E from, to \in {"wait", "events", "resume", "reap", "retry", "expire"}, fds \in SUBSET Fds :
            Sweep(from, to, fds)
      BY <1>1, <2>7, <3>1 DEF NextSweep, PoolInv, ObjectsOK
    <3>3. /\ phase' \in {"wait", "events", "resume", "reap", "retry", "expire"}
          /\ todo' \subseteq Fds /\ phase # "notify"
          /\ UNCHANGED <<freeConns, queueVars, incoming, batch, adopting, finishing,
                         mapVars, conn, socket, jobs>>
      BY <3>2 DEF Sweep, queueVars, poolVars
    <3>4. QED BY <1>1, <3>3, PoolUnchanged DEF QueuesOK, AdoptsAll, queueVars
  <2>8. CASE Resume \/ Reap \/ Retry \/ Expire
    <3>1. PICK fd \in Registered :
            /\ todo' \subseteq todo
            /\ UNCHANGED <<queueVars, phase, batch, adopting, finishing>>
            /\ ResumeStream(fd) \/ HandleWrite(fd) \/ Close(fd)
      BY <2>8 DEF Resume, Reap, Retry, Expire, Visit
    <3>2. UNCHANGED <<incoming, completed, notified, acceptor>>
      BY <3>1 DEF queueVars
    <3>3. PoolInv' /\ jobs' \in Seq(Conns)
      BY <1>1, <3>1, <3>2, ResumeHandler, WriteHandler, CloseHandler
    <3>4. QED BY <1>1, <3>1, <3>2, <3>3 DEF QueuesOK, AdoptsAll
  <2>10. QED
    BY <2>1, <2>2, <2>3, <2>4, <2>5, <2>6, <2>7, <2>8, <2>9 DEF ReactorNext
<1>5. QED
  BY <1>3, <1>4 DEF Inv, PoolInv, QueuesOK, WorkersOK, ObjectsOK, TypeOK

\* The steps of a worker move no object and no descriptor.
LEMMA WorkerKeepsInv ==
  ASSUME Inv, NEW w \in Workers, WorkerNext(w)
  PROVE  Inv'
<1>1. PoolInv /\ AdoptsAll /\ QueuesOK /\ WorkersOK /\ jobs \in Seq(Conns)
  BY InvParts
<1>2. worker[w].at \notin {"idle", "waking"} => worker[w].conn \in Conns
  BY <1>1 DEF WorkersOK, BusyHasObject
<1>3. CASE Take(w)
  <2>1. /\ jobs # <<>> /\ jobs' = Tail(jobs)
        /\ worker' = [worker EXCEPT ![w].at = "working", ![w].conn = Head(jobs)]
        /\ UNCHANGED <<freeConns, incoming, completed, notified, acceptor, phase, batch, adopting,
                       finishing, todo, mapVars, conn, socket>>
    BY <1>3 DEF Take, queueVars, loopVars
  <2>2. Head(jobs) \in Conns /\ jobs' \in Seq(Conns)
    BY <1>1, <2>1, HeadTailProperties
  <2>3. WorkersOK'
    BY <1>1, <2>1, <2>2 DEF WorkersOK, BusyHasObject
  <2>4. PoolInv' /\ QueuesOK' /\ AdoptsAll'
    BY <1>1, <2>1, PoolUnchanged DEF QueuesOK, AdoptsAll
  <2>5. QED
    BY <2>2, <2>3, <2>4 DEF Inv, PoolInv, QueuesOK, WorkersOK, ObjectsOK, TypeOK
<1>4. CASE Process(w)
  <2> DEFINE c == worker[w].conn
             r == conn[c]
  <2>1. /\ c \in Conns
        /\ UNCHANGED <<freeConns, incoming, completed, notified, acceptor, phase, batch, adopting,
                       finishing, todo, mapVars, socket, jobs>>
    BY <1>2, <1>4 DEF Process, queueVars, loopVars
  <2>2. PICK result \in Results :
          /\ Incomplete(c) \/ Answer(c) \/ Reject(c) \/ UNCHANGED conn
          /\ worker' = [worker EXCEPT ![w].at = "notifying", ![w].result = result]
    BY <1>4 DEF Process
  <2>3. /\ r \in ConnRecord /\ Len(r.buf) <= ReadBufferSize
        /\ r.buf \in Seq(Units) /\ Len(r.buf) \in Nat /\ r.parsed \in Nat
        /\ ResponseLength \in Nat /\ ReadBufferSize \in Nat
    <3>1. r \in ConnRecord /\ Len(r.buf) <= ReadBufferSize
      BY <1>1, <2>1 DEF PoolInv, ObjectsOK
    <3>2. r.buf \in Seq(Units) /\ r.parsed \in Nat
      BY <3>1 DEF ConnRecord
    <3>3. QED BY <3>1, <3>2, LenProperties, ReactorAssumption
  <2>4. WorkersOK'
    BY <1>1, <1>2, <2>1, <2>2, <1>4, ZenonT(60) DEF WorkersOK, BusyHasObject, Process
  <2>5. PoolInv'
    <3>1. CASE UNCHANGED conn
      BY <1>1, <2>1, <3>1, PoolUnchanged
    <3>2. CASE Answer(c)
      <4>1. PICK e \in Nat, n \in Nat :
              conn' = [conn EXCEPT ![c].unsent = n, ![c].parsed = e]
        <5>1. Answerable(r) \subseteq Nat /\ Built(r) \subseteq Nat
          BY <2>3 DEF Answerable, NextEnd, Built
        <5>2. QED BY <3>2, <5>1 DEF Answer
      <4> DEFINE q == [r EXCEPT !.unsent = n, !.parsed = e]
      <4>2. /\ q \in ConnRecord /\ q.buf = r.buf /\ q.fd = r.fd
            /\ q.timedOut = r.timedOut /\ q.busy = r.busy
        BY <2>3 DEF ConnRecord
      <4>3. conn' = [conn EXCEPT ![c] = q]
        BY <4>1, <2>1, <1>1 DEF PoolInv, ObjectsOK
      <4> HIDE DEF q
      <4>4. QED BY <1>1, <2>1, <2>3, <4>2, <4>3, ObjectKeepsPool
    <3>3. CASE Reject(c)
      <4>1. PICK i \in 1..Len(r.buf), n \in Nat :
              conn' = [conn EXCEPT ![c].unsent = n,
                                   ![c].buf = <<"junk">> \o SubSeq(@, i + 1, Len(@))]
        <5>1. RejectedLine(r.buf) \subseteq 1..Len(r.buf) /\ Built(r) \subseteq Nat
          BY <2>3 DEF RejectedLine, Built
        <5>2. QED BY <3>3, <5>1 DEF Reject
      <4> DEFINE rest == SubSeq(r.buf, i + 1, Len(r.buf))
                 b == <<"junk">> \o rest
                 q == [r EXCEPT !.unsent = n, !.buf = b]
      <4>2. rest \in Seq(Units) /\ Len(rest) + 1 <= Len(r.buf) /\ Len(rest) \in Nat
        <5>1. \A j \in (i + 1)..Len(r.buf) : r.buf[j] \in Units
          BY <2>3, ElementOfSeq
        <5>2. /\ rest \in Seq(Units)
              /\ Len(rest) = IF i + 1 <= Len(r.buf) THEN Len(r.buf) - (i + 1) + 1 ELSE 0
          BY <2>3, <5>1, SubSeqProperties
        <5> HIDE DEF rest
        <5>3. QED BY <2>3, <5>2
      <4>3. b \in Seq(Units) /\ Len(b) <= ReadBufferSize
        <5>1. <<"junk">> \in Seq(Units) /\ Len(<<"junk">>) = 1
          BY DEF Units
        <5> HIDE DEF rest
        <5>2. b \in Seq(Units) /\ Len(b) = 1 + Len(rest)
          BY <4>2, <5>1, ConcatProperties
        <5> HIDE DEF b
        <5>3. QED BY <2>3, <4>2, <5>2
      <4>4. conn' = [conn EXCEPT ![c] = q]
        BY <4>1, <2>1, <1>1 DEF PoolInv, ObjectsOK
      <4> HIDE DEF b
      <4>5. /\ q \in ConnRecord /\ q.buf = b /\ q.fd = r.fd
            /\ q.timedOut = r.timedOut /\ q.busy = r.busy
        BY <2>3, <4>3 DEF ConnRecord
      <4> HIDE DEF q
      <4>6. QED BY <1>1, <2>1, <2>3, <4>3, <4>4, <4>5, ObjectKeepsPool
    <3>4. QED BY <2>2, <3>1, <3>2, <3>3 DEF Incomplete
  <2>6. QueuesOK' /\ AdoptsAll' /\ jobs' \in Seq(Conns)
    BY <1>1, <2>1 DEF QueuesOK, AdoptsAll
  <2>7. QED
    BY <2>4, <2>5, <2>6 DEF Inv, PoolInv, QueuesOK, WorkersOK, ObjectsOK, TypeOK
<1>5. CASE PublishStream(w)
  <2> DEFINE c == worker[w].conn
             r == conn[c]
  <2>1. /\ c \in Conns
        /\ worker' = [worker EXCEPT ![w].at = "opening"]
        /\ UNCHANGED <<freeConns, incoming, completed, notified, acceptor, phase, batch, adopting,
                       finishing, todo, mapVars, socket, jobs>>
    BY <1>2, <1>5 DEF PublishStream, queueVars, loopVars
  <2>2. r \in ConnRecord /\ Len(r.buf) <= ReadBufferSize /\ Len(r.buf) \in Nat /\ r.parsed \in Nat
    <3>1. r \in ConnRecord /\ Len(r.buf) <= ReadBufferSize
      BY <1>1, <2>1 DEF PoolInv, ObjectsOK
    <3>2. r.buf \in Seq(Units) /\ r.parsed \in Nat
      BY <3>1 DEF ConnRecord
    <3>3. QED BY <3>1, <3>2, LenProperties
  <2>3. WorkersOK'
    BY <1>1, <1>2, <2>1, ZenonT(60) DEF WorkersOK, BusyHasObject
  <2>4. PICK e \in Nat :
          conn' = [conn EXCEPT ![c].parsed = e, ![c].stream = "on"]
    <3>1. Answerable(r) \subseteq Nat
      BY <2>2 DEF Answerable, NextEnd
    <3>2. QED BY <1>5, <3>1 DEF PublishStream
  <2> DEFINE q == [r EXCEPT !.parsed = e, !.stream = "on"]
  <2>5. /\ q \in ConnRecord /\ q.buf = r.buf /\ q.fd = r.fd
        /\ q.timedOut = r.timedOut /\ q.busy = r.busy
    BY <2>2 DEF ConnRecord
  <2>6. conn' = [conn EXCEPT ![c] = q]
    BY <2>1, <2>4, <1>1 DEF PoolInv, ObjectsOK
  <2> HIDE DEF q
  <2>7. PoolInv'
    BY <1>1, <2>1, <2>2, <2>5, <2>6, ObjectKeepsPool
  <2>8. QueuesOK' /\ AdoptsAll' /\ jobs' \in Seq(Conns)
    BY <1>1, <2>1 DEF QueuesOK, AdoptsAll
  <2>9. QED
    BY <2>3, <2>7, <2>8 DEF Inv, PoolInv, QueuesOK, WorkersOK, ObjectsOK, TypeOK
<1>6. CASE BuildStream(w)
  <2> DEFINE c == worker[w].conn
             r == conn[c]
  <2>1. /\ c \in Conns
        /\ UNCHANGED <<freeConns, incoming, completed, notified, acceptor, phase, batch, adopting,
                       finishing, todo, mapVars, socket, jobs>>
    BY <1>2, <1>6 DEF BuildStream, queueVars, loopVars
  <2>2. PICK result \in Results :
          worker' = [worker EXCEPT ![w].at = "notifying", ![w].result = result]
    BY <1>6 DEF BuildStream, Results
  <2>3. WorkersOK'
    BY <1>1, <1>2, <2>1, <2>2, <1>6, ZenonT(60) DEF WorkersOK, BusyHasObject, BuildStream
  <2>4. PoolInv'
    <3>1. CASE UNCHANGED conn
      BY <1>1, <2>1, <3>1, PoolUnchanged
    <3>2. CASE \E n \in Built(r) : conn' = [conn EXCEPT ![c].unsent = n]
      <4>1. PICK n \in Nat : conn' = [conn EXCEPT ![c].unsent = n]
        <5>1. Built(r) \subseteq Nat
          BY ReactorAssumption DEF Built
        <5>2. QED BY <3>2, <5>1
      <4> DEFINE q == [r EXCEPT !.unsent = n]
      <4>2. r \in ConnRecord /\ Len(r.buf) <= ReadBufferSize
        BY <1>1, <2>1 DEF PoolInv, ObjectsOK
      <4>3. /\ q \in ConnRecord /\ q.buf = r.buf /\ q.fd = r.fd
            /\ q.timedOut = r.timedOut /\ q.busy = r.busy
        BY <4>2 DEF ConnRecord
      <4>4. conn' = [conn EXCEPT ![c] = q]
        BY <4>1, <2>1, <1>1 DEF PoolInv, ObjectsOK
      <4> HIDE DEF q
      <4>5. QED BY <1>1, <2>1, <4>2, <4>3, <4>4, ObjectKeepsPool
    <3>3. QED BY <1>6, <3>1, <3>2 DEF BuildStream
  <2>5. QueuesOK' /\ AdoptsAll' /\ jobs' \in Seq(Conns)
    BY <1>1, <2>1 DEF QueuesOK, AdoptsAll
  <2>6. QED
    BY <2>3, <2>4, <2>5 DEF Inv, PoolInv, QueuesOK, WorkersOK, ObjectsOK, TypeOK
<1>7. CASE Notify(w)
  <2> DEFINE c == worker[w].conn
             e == [conn |-> c, fd |-> conn[c].fd, gen |-> conn[c].gen,
                   result |-> worker[w].result]
  <2>1. /\ c \in Conns
        /\ completed' = Append(completed, e)
        /\ worker' = [worker EXCEPT ![w] = [IdleWorker EXCEPT !.at = "waking"]]
        /\ UNCHANGED <<freeConns, incoming, notified, acceptor, phase, batch, adopting, finishing, todo, mapVars,
                       conn, socket, jobs>>
    BY <1>2, <1>7 DEF Notify, loopVars
  <2>2. e \in Completion
    BY <1>1, <2>1 DEF PoolInv, ObjectsOK, ConnRecord, WorkersOK, Completion
  <2> HIDE DEF e
  <2>3. completed' \in Seq(Completion)
    BY <1>1, <2>1, <2>2, AppendProperties DEF QueuesOK
  <2>4. WorkersOK'
    BY <1>1, <2>1 DEF WorkersOK, BusyHasObject, IdleWorker, Results
  <2>5. PoolInv' /\ QueuesOK' /\ AdoptsAll' /\ jobs' \in Seq(Conns)
    BY <1>1, <2>1, <2>3, PoolUnchanged DEF QueuesOK, AdoptsAll
  <2>6. QED
    BY <2>4, <2>5 DEF Inv, PoolInv, QueuesOK, WorkersOK, ObjectsOK, TypeOK
<1>8. CASE WakeReactor(w)
  <2>1. /\ notified' = TRUE
        /\ worker' = [worker EXCEPT ![w] = IdleWorker]
        /\ UNCHANGED <<freeConns, incoming, completed, acceptor, phase, batch, adopting,
                       finishing, todo, mapVars, conn, socket, jobs>>
    BY <1>8 DEF WakeReactor, Wake, loopVars
  <2>2. WorkersOK'
    BY <1>1, <2>1 DEF WorkersOK, BusyHasObject, IdleWorker, Results
  <2>3. PoolInv' /\ QueuesOK' /\ AdoptsAll' /\ jobs' \in Seq(Conns)
    BY <1>1, <2>1, PoolUnchanged DEF QueuesOK, AdoptsAll
  <2>4. QED
    BY <2>2, <2>3 DEF Inv, PoolInv, QueuesOK, WorkersOK, ObjectsOK, TypeOK
<1>9. QED BY <1>3, <1>4, <1>5, <1>6, <1>7, <1>8 DEF WorkerNext

\* A client changes an open socket and leaves it open.
LEMMA ClientKeepsInv == Inv /\ ClientNext => Inv'
<1> SUFFICES ASSUME Inv, ClientNext PROVE Inv'
  OBVIOUS
<1>1. PoolInv /\ AdoptsAll /\ QueuesOK /\ WorkersOK /\ jobs \in Seq(Conns)
  BY InvParts
<1>2. PICK fd \in Fds : ClientSend(fd) \/ ClientReceive(fd) \/ ClientLeave(fd)
  BY DEF ClientNext
<1>3. UNCHANGED <<freeConns, incoming, completed, notified, acceptor, phase, batch, adopting,
                  finishing, todo, mapVars, conn, jobs, worker>>
  BY <1>2 DEF ClientSend, ClientReceive, ClientLeave, queueVars, loopVars, poolVars
<1>4. socket[fd] \in SocketRecord /\ socket \in [Fds -> SocketRecord]
  BY <1>1 DEF PoolInv, ObjectsOK
<1>5. PICK s \in SocketRecord : s.open /\ socket' = [socket EXCEPT ![fd] = s]
  <2>1. CASE ClientSend(fd)
    <3>1. PICK u \in Units :
            /\ socket[fd].open
            /\ socket' = [socket EXCEPT ![fd].inbox = Append(@, u),
                              ![fd].waiting = u # "part" /\ "pipelines" \notin Habits]
      BY <2>1 DEF ClientSend, Sendable, Units
    <3> DEFINE line == Append(socket[fd].inbox, u)
               waits == u # "part" /\ "pipelines" \notin Habits
    <3>2. line \in Seq(Units)
      BY <1>4, AppendProperties DEF SocketRecord
    <3>3. waits \in BOOLEAN
      OBVIOUS
    <3>4. socket' = [socket EXCEPT ![fd] = [socket[fd] EXCEPT !.inbox = line, !.waiting = waits]]
      BY <1>4, <3>1
    <3> HIDE DEF line, waits
    <3>5. /\ [socket[fd] EXCEPT !.inbox = line, !.waiting = waits] \in SocketRecord
          /\ [socket[fd] EXCEPT !.inbox = line, !.waiting = waits].open
      BY <1>4, <3>1, <3>2, <3>3 DEF SocketRecord
    <3>6. QED BY <3>4, <3>5
  <2>2. CASE ClientReceive(fd)
    <3> DEFINE rest == Tail(socket[fd].outbox)
               waits == socket[fd].waiting /\ Head(socket[fd].outbox) # "last"
    <3>1. socket[fd].open /\ socket[fd].outbox # <<>>
          /\ socket' = [socket EXCEPT ![fd] = [socket[fd] EXCEPT !.outbox = rest,
                                                                 !.waiting = waits]]
      BY <1>4, <2>2 DEF ClientReceive
    <3>2. socket[fd].outbox \in Seq({"more", "last"})
      BY <1>4 DEF SocketRecord
    <3>3. rest \in Seq({"more", "last"})
      BY <3>1, <3>2, HeadTailProperties
    <3>4. waits \in BOOLEAN
      OBVIOUS
    <3> HIDE DEF rest, waits
    <3>5. /\ [socket[fd] EXCEPT !.outbox = rest, !.waiting = waits] \in SocketRecord
          /\ [socket[fd] EXCEPT !.outbox = rest, !.waiting = waits].open
      BY <1>4, <3>1, <3>3, <3>4 DEF SocketRecord
    <3>6. QED BY <3>1, <3>5
  <2>3. CASE ClientLeave(fd)
    <3>1. PICK how \in {"fin", "rst"} :
            socket[fd].open /\ socket' = [socket EXCEPT ![fd] = [socket[fd] EXCEPT !.peer = how]]
      BY <2>3 DEF ClientLeave
    <3>2. /\ [socket[fd] EXCEPT !.peer = how] \in SocketRecord
          /\ [socket[fd] EXCEPT !.peer = how].open
      BY <1>4, <3>1 DEF SocketRecord
    <3>3. QED BY <3>1, <3>2
  <2>4. QED BY <1>2, <2>1, <2>2, <2>3
<1>6. /\ socket' \in [Fds -> SocketRecord]
      /\ \A g \in Fds : socket[g].open => socket'[g].open
  BY <1>4, <1>5, UpdateSocket
<1>7. PoolInv'
  BY <1>1, <1>3, <1>6, SocketsKeepPool
<1>8. QueuesOK' /\ WorkersOK' /\ AdoptsAll' /\ jobs' \in Seq(Conns)
  BY <1>1, <1>3 DEF QueuesOK, WorkersOK, BusyHasObject, AdoptsAll
<1>9. QED
  BY <1>7, <1>8 DEF Inv, PoolInv, QueuesOK, WorkersOK, ObjectsOK, TypeOK

LEMMA NextKeepsInv == Inv /\ [Next]_vars => Inv'
<1> SUFFICES ASSUME Inv, [Next]_vars PROVE Inv'
  OBVIOUS
<1>1. PoolInv /\ AdoptsAll /\ QueuesOK /\ WorkersOK /\ jobs \in Seq(Conns)
  BY InvParts
<1>2. CASE Accept
  <2>1. /\ acceptor' = "waking"
        /\ UNCHANGED <<completed, notified, phase, batch, adopting, finishing, todo, jobs, worker>>
    BY <1>2 DEF Accept, loopVars, poolVars
  <2>2. PoolInv'
    BY <1>1, <1>2, AcceptKeepsPool
  <2>3. QueuesOK' /\ WorkersOK' /\ AdoptsAll' /\ jobs' \in Seq(Conns)
    BY <1>1, <2>1 DEF QueuesOK, WorkersOK, BusyHasObject, AdoptsAll
  <2>4. QED
    BY <2>2, <2>3 DEF Inv, PoolInv, QueuesOK, WorkersOK, ObjectsOK, TypeOK
<1>3. CASE ReactorNext
  BY <1>3, ReactorKeepsInv
<1>4. CASE \E w \in Workers : WorkerNext(w)
  BY <1>4, WorkerKeepsInv
<1>5. CASE ClientNext
  BY <1>5, ClientKeepsInv
<1>6. CASE UNCHANGED vars
  <2>1. UNCHANGED <<freeConns, incoming, completed, notified, acceptor, phase, batch, adopting,
                    finishing, todo, mapVars, conn, socket, jobs, worker>>
    BY <1>6 DEF vars, queueVars, loopVars, poolVars
  <2>2. PoolInv'
    BY <1>1, <2>1, PoolUnchanged
  <2>3. QueuesOK' /\ WorkersOK' /\ AdoptsAll' /\ jobs' \in Seq(Conns)
    BY <1>1, <2>1 DEF QueuesOK, WorkersOK, BusyHasObject, AdoptsAll
  <2>4. QED
    BY <2>2, <2>3 DEF Inv, PoolInv, QueuesOK, WorkersOK, ObjectsOK, TypeOK
<1>7. CASE WakeAfterAccept
  <2>1. /\ acceptor' = "accepting" /\ notified' = TRUE
        /\ UNCHANGED <<freeConns, incoming, completed, phase, batch, adopting, finishing, todo,
                       mapVars, conn, socket, jobs, worker>>
    BY <1>7 DEF WakeAfterAccept, Wake, loopVars, poolVars
  <2>2. PoolInv'
    BY <1>1, <2>1, PoolUnchanged
  <2>3. QueuesOK' /\ WorkersOK' /\ AdoptsAll' /\ jobs' \in Seq(Conns)
    BY <1>1, <2>1 DEF QueuesOK, WorkersOK, BusyHasObject, AdoptsAll
  <2>4. QED
    BY <2>2, <2>3 DEF Inv, PoolInv, QueuesOK, WorkersOK, ObjectsOK, TypeOK
<1>8. QED BY <1>2, <1>3, <1>4, <1>5, <1>6, <1>7 DEF Next

LEMMA Invariance == Spec => []Inv
BY InitInv, NextKeepsInv, PTL DEF Spec

\* Every queue, map, object and buffer holds what the code declares it to hold;
\* in particular read_once never writes behind the end of the read buffer.
THEOREM TypeCorrect == Spec => []TypeOK
<1>1. Inv => TypeOK
  BY DEF Inv
<1>2. QED BY <1>1, Invariance, PTL

\* acquire_conn, the hand-off queue, m_connections and recycle_conn never lose
\* a pooled http_conn and never hold one twice, however many clients, workers
\* and descriptors there are and whatever the clients send.
THEOREM PoolConservation == Spec => []PoolConserved
<1>1. Inv => PoolConserved
  BY DEF Inv
<1>2. QED BY <1>1, Invariance, PTL

\* Every registered connection has a deadline in m_deadlines, or its close waits
\* only for the worker that has it.
THEOREM ConnectionsExpire == Spec => []EveryConnectionExpires
<1>1. Inv => EveryConnectionExpires
  BY DEF Inv
<1>2. QED BY <1>1, Invariance, PTL

-----------------------------------------------------------------------------
(* Wake-ups.                                                               *)

\* A worker that is about to wake the reactor stays so until it has.
LEMMA StillWaking ==
  ASSUME Inv, NEW v \in Workers, NEW w \in Workers, worker[v].at = "waking", WorkerNext(w)
  PROVE  worker'[v].at = "waking" \/ notified' = TRUE
<1>1. CASE WakeReactor(w)
  BY <1>1 DEF WakeReactor, Wake
<1>2. CASE Take(w) \/ Process(w) \/ PublishStream(w) \/ BuildStream(w) \/ Notify(w)
  <2>1. worker[w].at # "waking" /\ \A u \in Workers \ {w} : worker'[u] = worker[u]
    BY <1>2 DEF Take, Process, PublishStream, BuildStream, Notify, Inv, TypeOK
  <2>2. QED BY <2>1
<1>3. QED BY <1>1, <1>2 DEF WorkerNext

\* Whatever the main thread and the workers hand to the sub reactor, and whenever
\* they do so between its draining the eventfd and its taking the queues, the next
\* epoll_wait will report it, or its wake-up is on its way.
THEOREM NotificationsSeen == Spec => []NoLostNotification
<1>1. Init => NoLostNotification
  BY DEF Init, NoLostNotification
<1>2. Inv /\ NoLostNotification /\ [Next]_vars => NoLostNotification'
  <2> SUFFICES ASSUME Inv, NoLostNotification, [Next]_vars PROVE NoLostNotification'
    OBVIOUS
  <2>1. CASE Accept \/ WakeAfterAccept
    BY <2>1 DEF Accept, WakeAfterAccept, Wake, NoLostNotification
  <2>2. CASE DrainNotifications
    BY <2>2 DEF DrainNotifications, NoLostNotification
  <2>3. CASE TakeNotifications
    BY <2>3 DEF TakeNotifications, DrainOrSwap, NotificationOrder, NoLostNotification
  <2>4. ASSUME UNCHANGED <<queueVars, worker>>, phase' = phase \/ phase # "drained"
        PROVE  NoLostNotification'
    BY <2>4 DEF queueVars, NoLostNotification
  <2>5. CASE ReactorNext
    <3>1. CASE DrainNotifications \/ TakeNotifications
      BY <2>2, <2>3, <3>1
    <3>2. CASE EpollWait \/ HandleEvent \/ Adopt \/ Finish \/ EndNotifications \/ NextSweep
      <4>1. /\ UNCHANGED <<queueVars, worker>>
            /\ phase' = phase \/ phase # "drained"
        BY <3>2 DEF EpollWait, HandleEvent, Adopt, Finish, EndNotifications, NextSweep, Sweep, poolVars
      <4>2. QED BY <2>4, <4>1
    <3>3. CASE Resume \/ Reap \/ Retry \/ Expire
      <4>1. UNCHANGED <<queueVars, worker>> /\ phase' = phase
        BY <3>3 DEF Resume, Reap, Retry, Expire, Visit
      <4>2. QED BY <2>4, <4>1
    <3>4. QED BY <2>5, <3>1, <3>2, <3>3 DEF ReactorNext
  <2>6. CASE \E w \in Workers : WorkerNext(w)
    <3>1. PICK w \in Workers : WorkerNext(w)
      BY <2>6
    <3>2. CASE Notify(w)
      <4>1. worker'[w].at = "waking"
        BY <3>2 DEF Notify, Inv, TypeOK, IdleWorker
      <4>2. QED BY <4>1 DEF NoLostNotification
    <3>3. CASE ~Notify(w)
      <4>1. UNCHANGED <<incoming, completed, acceptor, phase>> /\ (notified => notified')
        <5>1. CASE WakeReactor(w)
          BY <5>1 DEF WakeReactor, Wake, loopVars
        <5>2. CASE Take(w)
          BY <5>2 DEF Take, queueVars, loopVars
        <5>3. CASE Process(w)
          BY <5>3 DEF Process, queueVars, loopVars
        <5>4. CASE PublishStream(w)
          BY <5>4 DEF PublishStream, queueVars, loopVars
        <5>5. CASE BuildStream(w)
          BY <5>5 DEF BuildStream, queueVars, loopVars
        <5>6. QED BY <3>1, <3>3, <5>1, <5>2, <5>3, <5>4, <5>5 DEF WorkerNext
      <4>2. \A v \in Workers : worker[v].at = "waking" => worker'[v].at = "waking" \/ notified'
        BY <3>1, StillWaking
      <4>3. QED BY <4>1, <4>2 DEF NoLostNotification
    <3>4. QED BY <3>2, <3>3
  <2>7. CASE ClientNext \/ UNCHANGED vars
    <3>1. UNCHANGED <<queueVars, worker>> /\ phase' = phase
      BY <2>7 DEF ClientNext, ClientSend, ClientReceive, ClientLeave, vars, loopVars, poolVars
    <3>2. QED BY <2>4, <3>1
  <2>8. QED BY <2>1, <2>5, <2>6, <2>7 DEF Next
<1>3. QED BY <1>1, <1>2, Invariance, PTL DEF Spec

-----------------------------------------------------------------------------
(* Connections whose clients wait for each response.                       *)

\* Every client waits for its response before the next request, and a response
\* fits the kernel's send buffer.  The run reactor_short_sends shows that the
\* properties below are false without the second.
Polite == Habits = {} /\ ResponseLength <= SendBuffer

Events(fd) == {e \in batch : e.fd = fd}

\* Epoll waits for the descriptor in one direction, or has reported it in this
\* batch and disarmed it.
Watched(fd, dir, reports) ==
  \/ socket[fd].armed = dir /\ Events(fd) = {}
  \/ /\ socket[fd].armed = "off"
     /\ \E e \in Events(fd) :
          /\ Events(fd) = {e} /\ e.ev \in reports
          /\ (e.ev = "in") => (socket[fd].inbox # <<>> \/ socket[fd].peer = "fin")

\* A request on its way: some parts, or parts and the end.
Parts(q) == \A i \in 1..Len(q) : q[i] = "part"
Whole(q) == /\ q # <<>> /\ q[Len(q)] = "end"
            /\ \A i \in 1..(Len(q) - 1) : q[i] = "part"
\* A response on its way to the client, down to its last piece.
Ending(q) == /\ q # <<>> /\ q[Len(q)] = "last"
             /\ \A i \in 1..(Len(q) - 1) : q[i] = "more"

Unanswered(r) == r.unsent = 0 /\ r.parsed = 0 /\ r.stream = "off" /\ ~r.entered
Answered(r) == r.unsent = ResponseLength /\ r.parsed = Len(r.buf) /\ r.stream = "off"

\* Where the only request of a client and the response to it are.
Composing(r, s) == ~s.waiting /\ Parts(r.buf) /\ Parts(s.inbox) /\ s.outbox = <<>>
Asked(r, s) == s.waiting /\ Parts(r.buf) /\ Whole(s.inbox) /\ s.outbox = <<>>
Arrived(r, s) == s.waiting /\ Whole(r.buf) /\ s.inbox = <<>> /\ s.outbox = <<>>
Replied(r, s) == s.waiting /\ r.buf = <<>> /\ s.inbox = <<>> /\ Ending(s.outbox)
Streams(s) == s.waiting /\ s.inbox = <<>> /\ \A i \in 1..Len(s.outbox) : s.outbox[i] = "more"

Dialogue(r, s) ==
  \/ Unanswered(r) /\ (Composing(r, s) \/ Asked(r, s) \/ Arrived(r, s) \/ Replied(r, s))
  \/ Answered(r) /\ Arrived(r, s)
  \/ r.stream # "off" /\ r.parsed = Len(r.buf) /\ Streams(s)

\* Who goes on with a registered connection: a worker, epoll for reading, epoll
\* and the sweep for writing, or the sweep that closes ended streams.
Working(fd, r) ==
  /\ r.busy /\ socket[fd].armed = "off" /\ Events(fd) = {} /\ fd \notin pendingWrites
Listening(fd, r) ==
  /\ ~r.busy /\ r.unsent = 0 /\ r.stream # "done" /\ fd \notin pendingWrites
  /\ Watched(fd, "in", {"in", "hup"})
  /\ r.stream = "off" => Parts(r.buf)
Sending(fd, r) ==
  /\ ~r.busy /\ r.unsent > 0 /\ r.stream # "done" /\ fd \in pendingWrites
  /\ Watched(fd, "out", {"out", "hup", "rdhup"})
Ended(fd, r) ==
  /\ ~r.busy /\ r.unsent = 0 /\ r.stream = "done" /\ fd \in pendingWrites
  /\ socket[fd].armed = "out"
  /\ phase = "resume" \/ (phase = "reap" /\ fd \in todo)

\* The same of a stream that the sweep entered under its worker.  What it has to
\* send is anybody's guess, but its client asks for nothing more and nothing is
\* dispatched from it: there is no request behind the answered one.
Silent(r, s) ==
  r.entered /\ Streams(s) /\ r.parsed = Len(r.buf) /\ (r.stream = "off" => r.buf = <<>>)
Disturbed(fd, r) ==
  /\ Silent(r, socket[fd])
  /\ \A e \in Events(fd) : Events(fd) = {e} /\ (e.ev = "in" => socket[fd].peer = "fin")
  /\ \/ r.busy \/ socket[fd].armed # "off" \/ Events(fd) # {}
     \/ (fd \in pendingWrites /\ r.unsent > 0)

\* No socket is adopted any more before the rest of the batch has been handled.
Settled ==
  NotifyEvent \notin batch /\ adopting = {} /\ phase \in {"events", "notify"}

Accepted(fd) ==
  LET s == socket[fd] IN
  /\ s.armed = "off" /\ (Events(fd) = {} \/ Settled) /\ s.outbox = <<>>
  /\ IF s.waiting THEN Whole(s.inbox) ELSE Parts(s.inbox)

Flow(fd) ==
  LET r == conn[connections[fd]] IN
  IF fd \in Registered
  THEN \/ /\ ~r.entered /\ Dialogue(r, socket[fd])
          /\ Working(fd, r) \/ Listening(fd, r) \/ Sending(fd, r) \/ Ended(fd, r)
       \/ Disturbed(fd, r)
  ELSE Accepted(fd)

\* The sweeps begin when the batch is done; the swapped completions are applied in
\* one go; what the sweep of writes visits is still to be written.
LoopOK ==
  /\ phase \notin {"events", "drained", "notify"} => batch = {}
  /\ phase # "notify" => finishing = <<>>
  /\ phase = "retry" => todo \subseteq pendingWrites
  /\ phase \in {"drained", "notify"} => NotifyEvent \notin batch

\* The users of the objects: each busy one is in one place, once.
BusyConns == {c \in InMap : conn[c].busy}
Queued == {jobs[i] : i \in 1..Len(jobs)}
Handless == {"idle", "waking"}
Held == {worker[w].conn : w \in {v \in Workers : worker[v].at \notin Handless}}
Reported(q) == {q[i].conn : i \in 1..Len(q)}

OnePlace ==
  /\ Queued \cup Held \cup Reported(completed) \cup Reported(finishing) = BusyConns
  /\ Queued \cap Held = {} /\ Reported(completed) \cap Reported(finishing) = {}
  /\ (Queued \cup Held) \cap (Reported(completed) \cup Reported(finishing)) = {}
Once ==
  /\ \A i, j \in 1..Len(jobs) : jobs[i] = jobs[j] => i = j
  /\ \A v, w \in Workers :
       worker[v].at \notin Handless /\ worker[w].at \notin Handless
         /\ worker[v].conn = worker[w].conn => v = w
  /\ \A i, j \in 1..Len(completed) : completed[i].conn = completed[j].conn => i = j
  /\ \A i, j \in 1..Len(finishing) : finishing[i].conn = finishing[j].conn => i = j
  /\ \A w \in Workers : worker[w].at \in Handless => worker[w].conn = NoConn

\* What the users of an object have made of it, if nobody else entered it.
Judged(r, result) ==
  \/ r.entered
  \/ /\ result = "needRead" => Unanswered(r) /\ Parts(r.buf)
     /\ result = "readyWrite" => r.unsent = ResponseLength /\ r.stream # "done"
     /\ result = "close" => Unanswered(r) \/ (r.unsent = 0 /\ r.stream = "on")
Opening(r) == r.entered \/ (r.unsent = 0 /\ r.stream = "on")
Current(e) == /\ e.fd = conn[e.conn].fd /\ e.gen = conn[e.conn].gen
              /\ Judged(conn[e.conn], e.result)
Progress ==
  /\ \A c \in Queued : Unanswered(conn[c])
  /\ \A w \in Workers :
       /\ worker[w].at = "working" => Unanswered(conn[worker[w].conn])
       /\ worker[w].at = "opening" => Opening(conn[worker[w].conn])
       /\ worker[w].at = "notifying" => Judged(conn[worker[w].conn], worker[w].result)
  /\ \A i \in 1..Len(completed) : Current(completed[i])
  /\ \A i \in 1..Len(finishing) : Current(finishing[i])

Flows == \A fd \in Fds : Flow(fd)
Users == OnePlace /\ Once /\ Progress

FlowInv == LoopOK /\ Flows /\ Users

-----------------------------------------------------------------------------
(* What one step does to the connections it does not handle.               *)

\* The types of what belongs to a registered descriptor.
LEMMA RegisteredType ==
  ASSUME Inv, NEW fd \in Registered
  PROVE  /\ fd \in Fds /\ connections[fd] \in Conns /\ connections[fd] \in InMap
         /\ conn[connections[fd]] \in ConnRecord /\ conn[connections[fd]].fd = fd
         /\ socket[fd] \in SocketRecord /\ socket[fd].open
BY DEF Inv, TypeOK, PoolConserved, OpenOnce, Registered, InMap

\* Two descriptors are registered with two objects.
LEMMA ObjectsDiffer ==
  ASSUME Inv, NEW f \in Registered, NEW g \in Registered, connections[f] = connections[g]
  PROVE  f = g
BY DEF Inv, PoolConserved

LEMMA FlowFrame ==
  ASSUME NEW g \in Fds, Flow(g),
         connections'[g] = connections[g],
         g \in Registered => conn'[connections[g]] = conn[connections[g]],
         socket'[g] = socket[g], Events(g)' = Events(g),
         g \in pendingWrites' <=> g \in pendingWrites,
         g \notin Registered /\ Events(g) # {} /\ Settled => Settled',
         g \in Registered /\ conn[connections[g]].stream = "done"
           => (phase = "resume" \/ (phase = "reap" /\ g \in todo)
                => phase' = "resume" \/ (phase' = "reap" /\ g \in todo'))
  PROVE  Flow(g)'
<1>1. (g \in Registered)' <=> g \in Registered
  BY DEF Registered
<1>2. CASE g \in Registered
  <2> DEFINE r == conn[connections[g]]
  <2>1. r' = r
    BY <1>2
  <2>2. Dialogue(r, socket[g])' <=> Dialogue(r, socket[g])
    BY <2>1
  <2>3. \A dir, reports : Watched(g, dir, reports)' <=> Watched(g, dir, reports)
    BY DEF Watched
  <2>4. Working(g, r) => Working(g, r)'
    BY <2>1 DEF Working
  <2>5. Listening(g, r) => Listening(g, r)'
    BY <2>1, <2>3 DEF Listening, Parts
  <2>6. Sending(g, r) => Sending(g, r)'
    BY <2>1, <2>3 DEF Sending
  <2>7. Ended(g, r) => Ended(g, r)'
    BY <1>2, <2>1 DEF Ended
  <2>8. Disturbed(g, r) => Disturbed(g, r)'
    BY <2>1 DEF Disturbed, Silent, Streams
  <2>9. QED BY <1>1, <1>2, <2>1, <2>2, <2>4, <2>5, <2>6, <2>7, <2>8 DEF Flow
<1>3. CASE g \notin Registered
  BY <1>1, <1>3 DEF Flow, Accepted, Parts, Whole
<1>4. QED BY <1>2, <1>3

\* A step of the reactor that handles one connection, and one that uses up its
\* events.
Apart(fd) ==
  /\ phase' = phase /\ todo' \in {todo, todo \ {fd}} /\ (Settled => Settled')
  /\ \A g \in Fds \ {fd} : Events(g)' = Events(g)
Elsewhere(fd) == Apart(fd) /\ Events(fd)' = {}

LEMMA OthersFlow ==
  ASSUME Flows, NEW fd \in Fds, Apart(fd), Flow(fd)',
         \A g \in Fds \ {fd} :
           /\ connections'[g] = connections[g] /\ socket'[g] = socket[g]
           /\ g \in Registered => conn'[connections[g]] = conn[connections[g]]
           /\ g \in pendingWrites' <=> g \in pendingWrites
  PROVE  Flows'
<1> SUFFICES ASSUME NEW g \in Fds \ {fd} PROVE Flow(g)'
  BY DEF Flows
<1>1. /\ Flow(g) /\ Events(g)' = Events(g)
      /\ phase = "resume" \/ (phase = "reap" /\ g \in todo)
           => phase' = "resume" \/ (phase' = "reap" /\ g \in todo')
      /\ Settled => Settled'
  BY DEF Flows, Apart
<1>2. QED BY <1>1, FlowFrame

\* What the handler of a connection leaves alone.
LEMMA OthersStay ==
  ASSUME Inv, NEW fd \in Registered, NEW cs, NEW sk,
         OnlyObject(cs, connections[fd]), OnlySocket(sk, fd)
  PROVE  \A g \in Fds \ {fd} : /\ sk[g] = socket[g]
                               /\ g \in Registered => cs[connections[g]] = conn[connections[g]]
<1> TAKE g \in Fds \ {fd}
<1>1. g \in Registered => connections[g] # connections[fd] /\ connections[g] \in Conns
  BY ObjectsDiffer, RegisteredType
<1>2. QED BY <1>1 DEF OnlyObject, OnlySocket

\* An object that stays in the map, or leaves it, becomes idle or busy.
LEMMA BusyAfter ==
  ASSUME Inv, NEW fd \in Registered, OnlyObject(conn', connections[fd]) \/
           (\A d \in Conns \ {connections[fd]} : conn'[d] = conn[d]),
         \/ connections' = connections
         \/ connections' = [connections EXCEPT ![fd] = NoConn]
  PROVE  /\ BusyConns' \ {connections[fd]} = BusyConns \ {connections[fd]}
         /\ connections[fd] \in BusyConns' <=>
              connections' = connections /\ conn'[connections[fd]].busy
<1> DEFINE c == connections[fd]
<1>1. c \in Conns /\ fd \in Fds /\ c \in InMap /\ c # NoConn
  BY RegisteredType, ReactorAssumption
<1>2. connections \in [Fds -> Conns \cup {NoConn}]
  BY DEF Inv, TypeOK
<1>3. \A d \in Conns \ {c} : conn'[d] = conn[d]
  BY DEF OnlyObject
<1>4. CASE connections' = connections
  <2>1. InMap' = InMap /\ InMap \subseteq Conns
    BY <1>2, <1>4 DEF InMap, Registered
  <2>2. QED BY <1>1, <1>3, <1>4, <2>1 DEF BusyConns
<1>5. CASE connections' = [connections EXCEPT ![fd] = NoConn]
  <2>1. /\ connections'[fd] = NoConn
        /\ \A g \in Fds \ {fd} : connections'[g] = connections[g]
    BY <1>1, <1>2, <1>5
  <2>2. \A g \in Registered \ {fd} : connections[g] # c
    BY ObjectsDiffer
  <2>3. InMap' = InMap \ {c} /\ InMap \subseteq Conns
    BY <1>1, <1>2, <2>1, <2>2 DEF InMap, Registered
  <2>4. connections' # connections
    BY <1>1, <2>1
  <2>5. QED BY <1>3, <2>3, <2>4 DEF BusyConns
<1>6. QED BY <1>4, <1>5

LEMMA ClosedIsAccepted ==
  ASSUME NEW fd \in Fds, fd \notin Registered', Events(fd)' = {} \/ Settled',
         socket'[fd] = ClosedSocket
  PROVE  Flow(fd)'
<1>1. Parts(<<>>)
  BY DEF Parts
<1>2. (fd \in Registered)' <=> fd \in Registered'
  OBVIOUS
<1>3. Accepted(fd)'
  BY <1>1 DEF Accepted, ClosedSocket, Parts
<1>4. QED BY <1>3 DEF Flow

LEMMA CloseApart ==
  ASSUME Inv, Flows, NEW fd \in Registered, NEW cs, NEW sk,
         OnlyObject(cs, connections[fd]), OnlySocket(sk, fd), ~cs[connections[fd]].busy,
         CloseConnection(fd, cs, sk), Apart(fd), Events(fd)' = {} \/ Settled'
  PROVE  /\ Flows' /\ BusyConns' = BusyConns \ {connections[fd]}
         /\ \A d \in Conns \ {connections[fd]} : conn'[d] = conn[d]
         /\ pendingWrites' = pendingWrites \ {fd}
         /\ fd \notin Registered'
<1> DEFINE c == connections[fd]
<1>1. c \in Conns /\ fd \in Fds /\ c \in InMap
  BY RegisteredType
<1>2. /\ conn' = [cs EXCEPT ![c].fd = NoFd, ![c].stream = "off"]
      /\ connections' = [connections EXCEPT ![fd] = NoConn]
      /\ pendingWrites' = pendingWrites \ {fd}
      /\ socket' = [sk EXCEPT ![fd] = ClosedSocket]
  BY DEF CloseConnection, MustDefer, Unregister
<1>3. /\ connections'[fd] = NoConn /\ socket'[fd] = ClosedSocket
      /\ \A g \in Fds \ {fd} : connections'[g] = connections[g] /\ socket'[g] = sk[g]
  BY <1>1, <1>2 DEF Inv, TypeOK, OnlySocket
<1>4. \A d \in Conns \ {c} : conn'[d] = conn[d]
  BY <1>1, <1>2 DEF OnlyObject
<1>5. fd \notin Registered'
  BY <1>3 DEF Registered
<1>6. Flow(fd)'
  BY <1>1, <1>3, <1>5, ClosedIsAccepted
<1>7. \A g \in Fds \ {fd} : g \in Registered => conn'[connections[g]] = conn[connections[g]]
  <2>1. \A g \in Registered \ {fd} : connections[g] \in Conns \ {c}
    BY RegisteredType, ObjectsDiffer
  <2>2. QED BY <1>4, <2>1
<1>8. Flows'
  <2>1. \A g \in Fds \ {fd} : /\ connections'[g] = connections[g] /\ socket'[g] = socket[g]
                              /\ g \in Registered => conn'[connections[g]] = conn[connections[g]]
                              /\ g \in pendingWrites' <=> g \in pendingWrites
    BY <1>2, <1>3, <1>7 DEF OnlySocket
  <2>2. QED BY <1>1, <1>6, <2>1, OthersFlow
<1>9. connections' # connections
  BY <1>1, <1>3, ReactorAssumption
<1>10. BusyConns' = BusyConns \ {c}
  BY <1>2, <1>4, <1>9, BusyAfter
<1>11. QED BY <1>2, <1>4, <1>5, <1>8, <1>10

LEMMA CloseExit ==
  ASSUME Inv, Flows, NEW fd \in Registered, NEW cs, NEW sk,
         OnlyObject(cs, connections[fd]), OnlySocket(sk, fd), ~cs[connections[fd]].busy,
         CloseConnection(fd, cs, sk), Elsewhere(fd)
  PROVE  /\ Flows' /\ BusyConns' = BusyConns \ {connections[fd]}
         /\ \A d \in Conns \ {connections[fd]} : conn'[d] = conn[d]
         /\ pendingWrites' = pendingWrites \ {fd}
         /\ fd \notin Registered'
<1>1. Apart(fd) /\ Events(fd)' = {}
  BY DEF Elsewhere
<1>2. QED BY <1>1, CloseApart

\* The connection stays, with the object and the socket that the handler made.
LEMMA StayExit ==
  ASSUME Inv, Flows, NEW fd \in Registered, Apart(fd),
         OnlyObject(conn', connections[fd]), OnlySocket(socket', fd), UNCHANGED connections,
         pendingWrites' \in {pendingWrites, pendingWrites \cup {fd}, pendingWrites \ {fd}},
         Flow(fd)'
  PROVE  /\ Flows' /\ BusyConns' = (BusyConns \ {connections[fd]}) \cup
              (IF conn'[connections[fd]].busy THEN {connections[fd]} ELSE {})
         /\ \A d \in Conns \ {connections[fd]} : conn'[d] = conn[d]
<1>1. fd \in Fds
  BY RegisteredType
<1>2. Flows'
  BY <1>1, OthersStay, OthersFlow
<1>3. BusyConns' = (BusyConns \ {connections[fd]}) \cup
              (IF conn'[connections[fd]].busy THEN {connections[fd]} ELSE {})
  <2> DEFINE c == connections[fd]
  <2>1. /\ BusyConns' \ {c} = BusyConns \ {c}
        /\ c \in BusyConns' <=> conn'[c].busy
    BY BusyAfter
  <2> HIDE DEF c
  <2>2. BusyConns' = (BusyConns \ {c}) \cup (IF conn'[c].busy THEN {c} ELSE {})
    BY <2>1
  <2>3. QED BY <2>2 DEF c
<1>4. QED BY <1>2, <1>3 DEF OnlyObject

\* An entered stream that stays.
LEMMA DisturbedApart ==
  ASSUME Inv, Flows, NEW fd \in Registered, Apart(fd),
         OnlyObject(conn', connections[fd]), OnlySocket(socket', fd), UNCHANGED connections,
         pendingWrites' \in {pendingWrites, pendingWrites \cup {fd}, pendingWrites \ {fd}},
         NEW q, q = conn'[connections[fd]], Silent(q, socket'[fd]),
         \/ Events(fd)' = {}
         \/ /\ Events(fd)' = Events(fd) /\ Disturbed(fd, conn[connections[fd]])
            /\ socket'[fd].peer = socket[fd].peer,
         q.busy \/ socket'[fd].armed # "off"
  PROVE  /\ Flows' /\ BusyConns' = (BusyConns \ {connections[fd]}) \cup
              (IF q.busy THEN {connections[fd]} ELSE {})
         /\ \A d \in Conns \ {connections[fd]} : conn'[d] = conn[d]
<1> DEFINE c == connections[fd]
<1>1. c \in Conns /\ fd \in Fds /\ c \in InMap /\ connections'[fd] = c
  BY RegisteredType
<1>2. Registered' = Registered
  BY DEF Registered
<1>3. Disturbed(fd, conn[connections[fd]])'
  <2>1. (conn[connections[fd]])' = q /\ (socket[fd])' = socket'[fd]
    BY <1>1
  <2>2. Silent(conn[connections[fd]], socket[fd])'
    BY <2>1 DEF Silent, Streams
  <2>3. \A e \in Events(fd)' :
          Events(fd)' = {e} /\ (e.ev = "in" => socket'[fd].peer = "fin")
    BY DEF Disturbed
  <2>4. QED BY <2>1, <2>2, <2>3 DEF Disturbed
<1>4. Flow(fd)'
  BY <1>2, <1>3 DEF Flow
<1>5. QED BY <1>4, StayExit

LEMMA DisturbedExit ==
  ASSUME Inv, Flows, NEW fd \in Registered, Elsewhere(fd),
         OnlyObject(conn', connections[fd]), OnlySocket(socket', fd), UNCHANGED connections,
         pendingWrites' \in {pendingWrites, pendingWrites \cup {fd}, pendingWrites \ {fd}},
         NEW q, q = conn'[connections[fd]], Silent(q, socket'[fd]),
         q.busy = conn[connections[fd]].busy,
         q.busy \/ socket'[fd].armed # "off"
  PROVE  /\ Flows' /\ BusyConns' = BusyConns
         /\ \A d \in Conns \ {connections[fd]} : conn'[d] = conn[d]
<1> DEFINE c == connections[fd]
<1>1. c \in Conns /\ c \in InMap /\ Apart(fd) /\ Events(fd)' = {}
  BY RegisteredType DEF Elsewhere
<1>2. /\ Flows' /\ BusyConns' = (BusyConns \ {c}) \cup (IF q.busy THEN {c} ELSE {})
      /\ \A d \in Conns \ {c} : conn'[d] = conn[d]
  BY <1>1, DisturbedApart
<1>3. BusyConns' = BusyConns
  BY <1>1, <1>2 DEF BusyConns
<1>4. QED BY <1>2, <1>3

\* A close that waits for the worker.
LEMMA MarkExit ==
  ASSUME Inv, Flows, NEW fd \in Registered, Close(fd), conn[connections[fd]].busy,
         Elsewhere(fd), UNCHANGED batch
  PROVE  /\ Flows' /\ BusyConns' = BusyConns
         /\ \A d \in Conns \ {connections[fd]} : conn'[d] = conn[d]
         /\ conn'[connections[fd]] = [conn[connections[fd]] EXCEPT !.timedOut = TRUE]
         /\ UNCHANGED <<jobs, pendingWrites>>
<1> DEFINE c == connections[fd]
<1>1. c \in Conns /\ fd \in Fds /\ c \in InMap /\ conn[c] \in ConnRecord
  BY RegisteredType
<1>2. /\ conn' = [conn EXCEPT ![c].timedOut = TRUE]
      /\ socket' = socket /\ UNCHANGED <<connections, pendingWrites, jobs>>
  BY DEF Close, CloseConnection, MustDefer
<1>3. /\ conn'[c] = [conn[c] EXCEPT !.timedOut = TRUE]
      /\ \A d \in Conns \ {c} : conn'[d] = conn[d]
  BY <1>1, <1>2 DEF Inv, TypeOK
<1>4. /\ conn'[c].busy /\ conn'[c].buf = conn[c].buf /\ conn'[c].unsent = conn[c].unsent
      /\ conn'[c].parsed = conn[c].parsed /\ conn'[c].stream = conn[c].stream
      /\ conn'[c].entered = conn[c].entered
  BY <1>1, <1>3 DEF ConnRecord
<1>0. CASE Disturbed(fd, conn[c])
  <2>1. OnlyObject(conn', c) /\ OnlySocket(socket', fd)
    <3>0. \A d \in Conns : Len(conn[d].buf) <= ReadBufferSize
      BY DEF Inv, TypeOK
    <3>1. conn'[c] \in ConnRecord /\ conn'[c].fd = conn[c].fd
      <4>1. /\ [conn[c] EXCEPT !.timedOut = TRUE] \in ConnRecord
            /\ [conn[c] EXCEPT !.timedOut = TRUE].fd = conn[c].fd
        BY <1>1 DEF ConnRecord
      <4>2. QED BY <1>3, <4>1
    <3>2. conn' \in [Conns -> ConnRecord] /\ \A d \in Conns : Len(conn'[d].buf) <= ReadBufferSize
      <4>1. conn'[c].buf = conn[c].buf /\ Len(conn[c].buf) <= ReadBufferSize
        BY <1>1, <1>4, <3>0
      <4>3. ASSUME NEW d \in Conns PROVE Len(conn'[d].buf) <= ReadBufferSize
        <5>1. CASE d = c
          BY <4>1, <5>1
        <5>2. CASE d # c
          BY <1>3, <3>0, <5>2
        <5>3. QED BY <5>1, <5>2
      <4>2. QED BY <1>2, <3>1, <4>3 DEF Inv, TypeOK
    <3>3. OnlyObject(conn', c)
      BY <1>3, <3>1, <3>2 DEF OnlyObject
    <3>4. QED BY <1>2, <3>3, RegisteredType DEF OnlySocket, Inv, TypeOK
  <2>2. Silent(conn'[c], socket'[fd])
    BY <1>0, <1>2, <1>4 DEF Disturbed, Silent
  <2>3. Flows' /\ BusyConns' = BusyConns
    BY <1>2, <1>4, <2>1, <2>2, DisturbedExit
  <2>4. QED BY <1>2, <1>3, <2>3
<1> SUFFICES ASSUME ~Disturbed(fd, conn[c])
             PROVE  Flows' /\ BusyConns' = BusyConns
  BY <1>0, <1>2, <1>3
<1>5. ~conn[c].entered /\ Dialogue(conn[c], socket[fd]) /\ Working(fd, conn[c])
  BY <1>1 DEF Flows, Flow, Listening, Sending, Ended
<1>6. Dialogue(conn'[c], socket'[fd])
  BY <1>2, <1>4, <1>5 DEF Dialogue, Unanswered, Answered, Composing, Asked, Arrived, Replied,
     Streams
<1>7. Working(fd, conn[c])'
  BY <1>2, <1>4, <1>5 DEF Working, Elsewhere
<1>8. Registered' = Registered
  BY <1>2 DEF Registered
<1>9. Dialogue(conn[c], socket[fd])'
  <2>1. connections'[fd] = connections[fd]
    BY <1>2
  <2>2. QED BY <1>6, <2>1
<1>10. Flow(fd)'
  <2>1. (conn[connections[fd]])' = conn'[c]
    BY <1>2
  <2>2. ~(conn[connections[fd]].entered)'
    BY <1>4, <1>5, <2>1
  <2>3. QED BY <1>7, <1>8, <1>9, <2>2 DEF Flow
<1>11. Flows'
  <2>1. \A g \in Fds \ {fd} : g \in Registered => conn'[connections[g]] = conn[connections[g]]
    <3>1. \A g \in Registered \ {fd} : connections[g] \in Conns \ {c}
      BY RegisteredType, ObjectsDiffer
    <3>2. QED BY <1>3, <3>1
  <2>2. QED BY <1>1, <1>2, <1>10, <2>1, OthersFlow DEF Elsewhere
<1>12. BusyConns' = BusyConns
  <2>1. c \in BusyConns
    BY <1>1 DEF BusyConns
  <2>2. /\ BusyConns' \ {c} = BusyConns \ {c}
        /\ c \in BusyConns' <=> conn'[c].busy
    BY <1>2, <1>3, BusyAfter
  <2> HIDE DEF c
  <2>3. QED BY <1>4, <2>1, <2>2
<1>13. QED BY <1>11, <1>12

\* An idle connection, as a handler leaves it to epoll and the sweeps.
Resting(fd, r, s, pending) ==
  /\ ~r.busy /\ ~r.entered /\ Dialogue(r, s)
  /\ \/ /\ r.unsent = 0 /\ r.stream # "done" /\ (r.stream = "off" => Parts(r.buf))
        /\ s.armed = "in" /\ fd \notin pending
     \/ /\ r.unsent > 0 /\ r.stream # "done" /\ s.armed = "out" /\ fd \in pending
     \/ /\ r.unsent = 0 /\ r.stream = "done" /\ s.armed = "out" /\ fd \in pending
        /\ phase = "resume"

LEMMA KeepOpenExit ==
  ASSUME Inv, Flows, NEW fd \in Registered, NEW cs, NEW sk,
         OnlyObject(cs, connections[fd]), OnlySocket(sk, fd),
         NEW pending, pending \in {pendingWrites, pendingWrites \cup {fd}, pendingWrites \ {fd}},
         KeepOpen(fd, cs, sk, pending), Elsewhere(fd),
         Resting(fd, cs[connections[fd]], sk[fd], pending)
  PROVE  /\ Flows' /\ BusyConns' = BusyConns \ {connections[fd]}
         /\ \A d \in Conns \ {connections[fd]} : conn'[d] = conn[d]
         /\ UNCHANGED jobs
         /\ pendingWrites' = pending
<1>0. PICK r, s : r = cs[connections[fd]] /\ s = sk[fd] /\ Resting(fd, r, s, pending)
  OBVIOUS
<1>1. /\ conn' = cs /\ socket' = sk /\ pendingWrites' = pending
      /\ UNCHANGED <<connections, jobs>>
  BY DEF KeepOpen
<1>2. (conn[connections[fd]])' = r /\ (socket[fd])' = s
  BY <1>0, <1>1
<1>3. fd \in Registered' /\ fd \in Fds
  BY <1>1 DEF Registered
<1>4. Dialogue(conn[connections[fd]], socket[fd])'
  BY <1>0, <1>2 DEF Resting
<1>5. \/ Listening(fd, conn[connections[fd]])'
      \/ Sending(fd, conn[connections[fd]])'
      \/ Ended(fd, conn[connections[fd]])'
  <2>1. Events(fd)' = {} /\ (phase = "resume" => phase' = "resume")
    BY DEF Elsewhere, Apart
  <2>2. \A dir, reports : s.armed = dir => Watched(fd, dir, reports)'
    BY <1>2, <2>1 DEF Watched
  <2>3. QED BY <1>0, <1>1, <1>2, <2>1, <2>2 DEF Resting, Listening, Sending, Ended, Parts
<1>6. Flow(fd)'
  BY <1>0, <1>2, <1>3, <1>4, <1>5 DEF Flow, Resting
<1>7. ~(conn'[connections[fd]]).busy
  BY <1>0, <1>1 DEF Resting
<1>8. QED BY <1>1, <1>6, <1>7, StayExit DEF Elsewhere

LEMMA DispatchExit ==
  ASSUME Inv, Flows, NEW fd \in Registered, NEW cs, NEW sk, NEW pending,
         OnlyObject(cs, connections[fd]), OnlySocket(sk, fd),
         pending \in {pendingWrites, pendingWrites \ {fd}}, fd \notin pending,
         Dispatch(fd, cs, sk, pending), Elsewhere(fd),
         NEW r, r = cs[connections[fd]], NEW s, s = sk[fd],
         Unanswered(r), Dialogue(r, s), s.armed = "off"
  PROVE  /\ Flows'
         /\ \/ /\ jobs' = Append(jobs, connections[fd]) /\ Unanswered(conn'[connections[fd]])
               /\ BusyConns' = BusyConns \cup {connections[fd]}
            \/ UNCHANGED jobs /\ BusyConns' = BusyConns \ {connections[fd]}
         /\ \A d \in Conns \ {connections[fd]} : conn'[d] = conn[d]
         /\ pendingWrites' = pendingWrites \ {fd}
<1> DEFINE c == connections[fd]
           with(b) == [cs EXCEPT ![c] = [r EXCEPT !.busy = b]]
<1>1. c \in Conns /\ fd \in Fds /\ r \in ConnRecord /\ cs \in [Conns -> ConnRecord]
  BY RegisteredType DEF OnlyObject
<1>2. ASSUME NEW b \in BOOLEAN
      PROVE  OnlyObject(with(b), c) /\ with(b)[c] = [r EXCEPT !.busy = b]
  <2>1. /\ [r EXCEPT !.busy = b] \in ConnRecord /\ [r EXCEPT !.busy = b].fd = r.fd
        /\ [r EXCEPT !.busy = b].buf = r.buf
    BY <1>1 DEF ConnRecord
  <2>2. QED BY <1>1, <2>1 DEF OnlyObject
<1>3. ASSUME NEW b \in BOOLEAN
      PROVE  /\ with(b)[c].busy = b
             /\ Unanswered(with(b)[c]) /\ Dialogue(with(b)[c], s)
  <2> DEFINE q == [r EXCEPT !.busy = b]
  <2>1. /\ q.busy = b /\ q.buf = r.buf /\ q.unsent = r.unsent /\ q.parsed = r.parsed
        /\ q.stream = r.stream /\ q.entered = r.entered
    BY <1>1 DEF ConnRecord
  <2> HIDE DEF q
  <2>2. Unanswered(q) /\ Dialogue(q, s)
    BY <2>1 DEF Dialogue, Unanswered, Answered, Composing, Asked, Arrived, Replied
  <2>3. QED BY <1>2, <2>1, <2>2 DEF q
<1>4. CASE Len(jobs) < MaxRequests
  <2>1. /\ conn' = with(TRUE) /\ socket' = sk /\ pendingWrites' = pending
        /\ jobs' = Append(jobs, c) /\ UNCHANGED connections
    BY <1>4 DEF Dispatch
  <2> HIDE DEF with
  <2>2. fd \in Registered'
    BY <2>1 DEF Registered
  <2>3. Dialogue(conn[connections[fd]], socket[fd])'
    <3>1. Dialogue(with(TRUE)[c], s)
      BY <1>3
    <3>2. /\ conn'[c] = with(TRUE)[c] /\ socket'[fd] = s
          /\ connections'[fd] = c
      BY <2>1
    <3> HIDE DEF c
    <3>3. Dialogue(conn'[c], socket'[fd])
      BY <3>1, <3>2
    <3>4. QED BY <3>2, <3>3
  <2>4. Working(fd, conn[connections[fd]])'
    BY <1>3, <2>1 DEF Working, Elsewhere
  <2>6. OnlyObject(conn', c) /\ OnlySocket(socket', fd) /\ conn'[c].busy /\ Unanswered(conn'[c])
    BY <1>2, <1>3, <2>1
  <2>5. Flow(fd)'
    <3>1. (conn[connections[fd]])' = conn'[c]
      BY <2>1
    <3>2. ~(conn[connections[fd]].entered)'
      BY <2>6, <3>1 DEF Unanswered
    <3>3. QED BY <2>2, <2>3, <2>4, <3>2 DEF Flow
  <2>7. /\ Flows' /\ BusyConns' = (BusyConns \ {c}) \cup (IF conn'[c].busy THEN {c} ELSE {})
        /\ \A d \in Conns \ {c} : conn'[d] = conn[d]
    BY <2>1, <2>5, <2>6, StayExit DEF Elsewhere
  <2>8. BusyConns' = BusyConns \cup {c}
    BY <2>6, <2>7
  <2>9. QED BY <2>1, <2>6, <2>7, <2>8
<1>5. CASE ~(Len(jobs) < MaxRequests)
  <2>1. CloseConnection(fd, with(FALSE), sk) /\ UNCHANGED jobs
    BY <1>5 DEF Dispatch
  <2>2. OnlyObject(with(FALSE), c) /\ ~with(FALSE)[c].busy
    BY <1>2, <1>3
  <2> HIDE DEF with
  <2>3. QED BY <2>1, <2>2, CloseExit
<1>6. QED BY <1>4, <1>5

-----------------------------------------------------------------------------
(* What a step does to the users of the objects.                           *)

\* The parts of an object that its users speak of are as they were, or it is a
\* stream that has been entered.
Same(r, q) ==
  /\ q.fd = r.fd /\ q.gen = r.gen
  /\ \/ /\ q.buf = r.buf /\ q.unsent = r.unsent /\ q.parsed = r.parsed
        /\ q.stream = r.stream /\ q.entered = r.entered
     \/ (q.entered /\ ~Unanswered(r))

LEMMA SameJudged ==
  ASSUME NEW r, NEW q, Same(r, q)
  PROVE  /\ Unanswered(r) => Unanswered(q)
         /\ \A result : Judged(r, result) => Judged(q, result)
         /\ Opening(r) => Opening(q)
<1>1. Unanswered(r) => Unanswered(q)
  BY DEF Same, Unanswered
<1>2. CASE q.entered
  BY <1>1, <1>2 DEF Judged, Opening
<1>3. CASE ~q.entered
  <2>1. /\ q.buf = r.buf /\ q.unsent = r.unsent /\ q.parsed = r.parsed
        /\ q.stream = r.stream /\ ~r.entered
    BY <1>3 DEF Same
  <2>2. QED BY <1>1, <1>3, <2>1 DEF Judged, Opening, Parts
<1>4. QED BY <1>2, <1>3

LEMMA UsersAreBusy ==
  ASSUME OnePlace
  PROVE  /\ \A i \in 1..Len(jobs) : jobs[i] \in BusyConns
         /\ \A w \in Workers : worker[w].at \notin Handless => worker[w].conn \in BusyConns
         /\ \A i \in 1..Len(completed) : completed[i].conn \in BusyConns
         /\ \A i \in 1..Len(finishing) : finishing[i].conn \in BusyConns
BY DEF OnePlace, Queued, Held, Reported

\* No queue moves and nothing that matters to the users changes.
LEMMA UsersFrame ==
  ASSUME Users, UNCHANGED <<jobs, worker, completed, finishing>>, BusyConns' = BusyConns,
         \A d \in BusyConns : Same(conn[d], conn'[d])
  PROVE  Users'
<1>1. /\ Queued' = Queued /\ Held' = Held /\ Reported(completed)' = Reported(completed)
      /\ Reported(finishing)' = Reported(finishing)
  BY DEF Queued, Held, Reported
<1>2. OnePlace' /\ Once'
  BY <1>1 DEF Users, OnePlace, Once
<1>3. /\ \A c \in Queued : c \in BusyConns
      /\ \A w \in Workers : worker[w].at \notin Handless => worker[w].conn \in BusyConns
      /\ \A i \in 1..Len(completed) : completed[i].conn \in BusyConns
      /\ \A i \in 1..Len(finishing) : finishing[i].conn \in BusyConns
  BY UsersAreBusy DEF Users, Queued
<1>4. \A d \in BusyConns :
        /\ Unanswered(conn[d]) => Unanswered(conn'[d])
        /\ \A result : Judged(conn[d], result) => Judged(conn'[d], result)
        /\ Opening(conn[d]) => Opening(conn'[d])
        /\ conn'[d].fd = conn[d].fd /\ conn'[d].gen = conn[d].gen
  BY SameJudged DEF Same
<1>5. /\ \A c \in Queued' : Unanswered(conn'[c])
      /\ \A w \in Workers :
           /\ worker[w].at = "working" => Unanswered(conn'[worker[w].conn])
           /\ worker[w].at = "opening" => Opening(conn'[worker[w].conn])
           /\ worker[w].at = "notifying" => Judged(conn'[worker[w].conn], worker[w].result)
  BY <1>1, <1>3, <1>4 DEF Users, Progress, Handless
<1>6. \A e : e.conn \in BusyConns /\ Current(e) =>
        /\ e.fd = conn'[e.conn].fd /\ e.gen = conn'[e.conn].gen /\ Judged(conn'[e.conn], e.result)
  BY <1>4 DEF Current
<1>7. /\ \A i \in 1..Len(completed) :
           /\ completed[i].fd = conn'[completed[i].conn].fd
           /\ completed[i].gen = conn'[completed[i].conn].gen
           /\ Judged(conn'[completed[i].conn], completed[i].result)
      /\ \A i \in 1..Len(finishing) :
           /\ finishing[i].fd = conn'[finishing[i].conn].fd
           /\ finishing[i].gen = conn'[finishing[i].conn].gen
           /\ Judged(conn'[finishing[i].conn], finishing[i].result)
  BY <1>3, <1>6 DEF Users, Progress
<1>8. Progress'
  BY <1>5, <1>7 DEF Progress, Current
<1>9. QED BY <1>2, <1>8 DEF Users

\* Where the objects are the same, their users are still right.
LEMMA StillRight ==
  ASSUME NEW d \in Conns, Same(conn[d], conn'[d])
  PROVE  /\ Unanswered(conn[d]) => Unanswered(conn'[d])
         /\ \A result : Judged(conn[d], result) => Judged(conn'[d], result)
         /\ Opening(conn[d]) => Opening(conn'[d])
         /\ \A e : e.conn = d /\ Current(e) => Current(e)'
<1>1. /\ Unanswered(conn[d]) => Unanswered(conn'[d])
      /\ \A result : Judged(conn[d], result) => Judged(conn'[d], result)
      /\ Opening(conn[d]) => Opening(conn'[d])
  BY SameJudged
<1>2. \A e : e.conn = d /\ Current(e) => Current(e)'
  BY <1>1 DEF Current, Same
<1>3. QED BY <1>1, <1>2

\* A new job.
LEMMA UsersDispatch ==
  ASSUME Inv, Users, NEW c \in Conns \ BusyConns, jobs' = Append(jobs, c),
         UNCHANGED <<worker, completed, finishing>>, BusyConns' = BusyConns \cup {c},
         \A d \in BusyConns : conn'[d] = conn[d], Unanswered(conn'[c])
  PROVE  Users'
<1>1. jobs \in Seq(Conns)
  BY DEF Inv, TypeOK
<1>2. /\ Len(jobs') = Len(jobs) + 1 /\ Len(jobs) \in Nat /\ jobs'[Len(jobs) + 1] = c
      /\ \A i \in 1..Len(jobs) : jobs'[i] = jobs[i]
  BY <1>1, AppendProperties
<1>3. 1..Len(jobs') = 1..Len(jobs) \cup {Len(jobs) + 1}
  BY <1>2
<1>4. Queued' = Queued \cup {c}
  BY <1>2, <1>3 DEF Queued
<1>5. Held' = Held /\ Reported(completed)' = Reported(completed)
      /\ Reported(finishing)' = Reported(finishing)
  BY DEF Held, Reported
<1>6. OnePlace'
  BY <1>4, <1>5 DEF Users, OnePlace
<1>7. Once'
  <2>1. \A i \in 1..Len(jobs) : jobs[i] \in BusyConns
    BY UsersAreBusy DEF Users
  <2>2. \A i, j \in 1..Len(jobs') : jobs'[i] = jobs'[j] => i = j
    BY <1>2, <1>3, <2>1 DEF Users, Once
  <2>3. QED BY <2>2 DEF Users, Once
<1>8. Progress'
  <2>1. BusyConns \subseteq Conns
    BY DEF Inv, TypeOK, BusyConns, InMap, Registered
  <2>2. \A d \in BusyConns : Same(conn[d], conn'[d])
    BY DEF Same
  <2>3. \A d \in Queued' : Unanswered(conn'[d])
    <3>1. \A d \in Queued : d \in BusyConns /\ d \in Conns
      BY <2>1, UsersAreBusy DEF Queued, Users
    <3>2. QED BY <1>4, <2>2, <3>1, StillRight DEF Users, Progress
  <2>4. \A w \in Workers :
          /\ worker[w].at = "working" => Unanswered(conn'[worker[w].conn])
          /\ worker[w].at = "opening" => Opening(conn'[worker[w].conn])
          /\ worker[w].at = "notifying" => Judged(conn'[worker[w].conn], worker[w].result)
    BY <2>1, <2>2, UsersAreBusy, StillRight DEF Users, Progress, Handless
  <2>5. ASSUME NEW i \in 1..Len(completed), NEW e, e = completed[i] PROVE Current(e)'
    BY <2>1, <2>2, <2>5, UsersAreBusy, StillRight DEF Users, Progress
  <2>6. ASSUME NEW i \in 1..Len(finishing), NEW e, e = finishing[i] PROVE Current(e)'
    BY <2>1, <2>2, <2>6, UsersAreBusy, StillRight DEF Users, Progress
  <2>7. (\A i \in 1..Len(completed) : Current(completed[i]))'
    BY <2>5 DEF Current
  <2>8. (\A i \in 1..Len(finishing) : Current(finishing[i]))'
    BY <2>6 DEF Current
  <2>9. QED BY <2>3, <2>4, <2>7, <2>8 DEF Progress
<1>9. QED BY <1>6, <1>7, <1>8 DEF Users

\* The reactor has applied the first completion.
LEMMA UsersFinish ==
  ASSUME Inv, Users, finishing # <<>>, finishing' = Tail(finishing),
         UNCHANGED <<jobs, worker, completed>>,
         NEW c, c = Head(finishing).conn, BusyConns' = BusyConns \ {c},
         \A d \in BusyConns \ {c} : conn'[d] = conn[d]
  PROVE  Users'
<1>1. finishing \in Seq(Completion)
  BY DEF Inv, TypeOK
<1>2. /\ Len(finishing) \in Nat \ {0} /\ Len(finishing') = Len(finishing) - 1
      /\ \A i \in 1..Len(finishing') : finishing'[i] = finishing[i + 1]
      /\ c = finishing[1].conn
  BY <1>1, HeadTailProperties, EmptySeq
<1>3. \A i \in 1..Len(finishing') : i + 1 \in 1..Len(finishing) /\ i + 1 # 1
  BY <1>2
<1>4. Once'
  <2>1. \A i, j \in 1..Len(finishing') : finishing'[i].conn = finishing'[j].conn => i = j
    BY <1>2, <1>3 DEF Users, Once
  <2>2. QED BY <2>1 DEF Users, Once
<1>5. Reported(finishing)' = Reported(finishing) \ {c}
  <2>1. \A i \in 1..Len(finishing') : finishing'[i].conn \in Reported(finishing) \ {c}
    BY <1>2, <1>3 DEF Reported, Users, Once
  <2>2. ASSUME NEW i \in 1..Len(finishing), finishing[i].conn # c
        PROVE  i - 1 \in 1..Len(finishing') /\ finishing'[i - 1].conn = finishing[i].conn
    BY <1>2, <2>2
  <2>3. ASSUME NEW x \in Reported(finishing) \ {c} PROVE x \in Reported(finishing)'
    <3>1. PICK i \in 1..Len(finishing) : x = finishing[i].conn
      BY DEF Reported
    <3>2. i - 1 \in 1..Len(finishing') /\ finishing'[i - 1].conn = x
      BY <2>2, <3>1
    <3>3. QED BY <3>2 DEF Reported
  <2>4. \A x \in Reported(finishing)' : x \in Reported(finishing) \ {c}
    BY <2>1 DEF Reported
  <2>5. QED BY <2>3, <2>4
<1>6. Queued' = Queued /\ Held' = Held /\ Reported(completed)' = Reported(completed)
  BY DEF Queued, Held, Reported
<1>7. c \in Reported(finishing)
  BY <1>2 DEF Reported
<1>8. OnePlace'
  BY <1>5, <1>6, <1>7 DEF Users, OnePlace
<1>9. /\ \A i \in 1..Len(jobs) : jobs[i] \in BusyConns \ {c}
      /\ \A w \in Workers : worker[w].at \notin Handless => worker[w].conn \in BusyConns \ {c}
      /\ \A i \in 1..Len(completed) : completed[i].conn \in BusyConns \ {c}
      /\ \A i \in 1..Len(finishing') : finishing'[i].conn \in BusyConns \ {c}
  <2>1. OnePlace' /\ UNCHANGED <<jobs, worker, completed>>
    BY <1>8
  <2>2. QED BY <2>1, ZenonT(60) DEF OnePlace, Queued, Held, Reported
<1>10. Progress'
  <2>1. BusyConns \subseteq Conns
    BY DEF Inv, TypeOK, BusyConns, InMap, Registered
  <2>2. \A d \in BusyConns \ {c} : Same(conn[d], conn'[d])
    BY DEF Same
  <2>3. \A d \in Queued' : Unanswered(conn'[d])
    <3>1. \A d \in Queued : d \in BusyConns \ {c} /\ d \in Conns
      BY <2>1, <1>9 DEF Queued
    <3>2. QED BY <1>6, <2>2, <3>1, StillRight DEF Users, Progress
  <2>4. \A w \in Workers :
          /\ worker[w].at = "working" => Unanswered(conn'[worker[w].conn])
          /\ worker[w].at = "opening" => Opening(conn'[worker[w].conn])
          /\ worker[w].at = "notifying" => Judged(conn'[worker[w].conn], worker[w].result)
    BY <2>1, <2>2, <1>9, StillRight DEF Users, Progress, Handless
  <2>5. ASSUME NEW i \in 1..Len(completed), NEW e, e = completed[i] PROVE Current(e)'
    BY <2>1, <2>2, <2>5, <1>9, StillRight DEF Users, Progress
  <2>6. ASSUME NEW i \in 1..Len(finishing'), NEW e, e = finishing'[i] PROVE Current(e)'
    <3>1. Current(e)
      BY <1>2, <1>3, <2>6 DEF Users, Progress
    <3>2. QED BY <2>1, <2>2, <2>6, <3>1, <1>9, StillRight
  <2>7. (\A i \in 1..Len(completed) : Current(completed[i]))'
    BY <2>5 DEF Current
  <2>8. (\A i \in 1..Len(finishing) : Current(finishing[i]))'
    BY <2>6 DEF Current
  <2>9. QED BY <2>3, <2>4, <2>7, <2>8 DEF Progress
<1>11. QED BY <1>4, <1>8, <1>10 DEF Users

\* The reactor swaps the completions into its own empty queue.
LEMMA UsersSwap ==
  ASSUME Users, finishing = <<>>, finishing' = completed, completed' = <<>>,
         UNCHANGED <<jobs, worker, connections, conn>>
  PROVE  Users'
<1>1. BusyConns' = BusyConns
  BY DEF BusyConns, InMap, Registered
<1>2. /\ Queued' = Queued /\ Held' = Held /\ Reported(finishing)' = Reported(completed)
      /\ Reported(completed)' = {} /\ Reported(finishing) = {}
  BY EmptySeq DEF Queued, Held, Reported
<1>3. OnePlace'
  BY <1>1, <1>2 DEF Users, OnePlace
<1>4. Once'
  BY EmptySeq DEF Users, Once
<1>5. Progress'
  BY <1>2, EmptySeq DEF Users, Progress, Current
<1>6. QED BY <1>3, <1>4, <1>5 DEF Users

\* A worker takes the first job.
LEMMA UsersTake ==
  ASSUME Inv, Users, NEW w \in Workers, Take(w)
  PROVE  Users'
<1> DEFINE c == Head(jobs)
<1>1. /\ worker[w].at = "idle" /\ jobs # <<>> /\ jobs' = Tail(jobs)
      /\ worker' = [worker EXCEPT ![w].at = "working", ![w].conn = c]
      /\ UNCHANGED <<completed, finishing, connections, conn>>
  BY DEF Take, queueVars, loopVars, mapVars
<1>2. jobs \in Seq(Conns) /\ worker[w].conn = NoConn
  BY <1>1 DEF Inv, TypeOK, Users, Once, Handless
<1>3. /\ Len(jobs) \in Nat \ {0} /\ Len(jobs') = Len(jobs) - 1 /\ c = jobs[1]
      /\ \A i \in 1..Len(jobs') : jobs'[i] = jobs[i + 1]
  BY <1>1, <1>2, HeadTailProperties, EmptySeq
<1>4. \A i \in 1..Len(jobs') : i + 1 \in 1..Len(jobs) /\ i + 1 # 1
  BY <1>3
<1>5. /\ worker'[w].at = "working" /\ worker'[w].conn = c
      /\ \A v \in Workers \ {w} : worker'[v] = worker[v]
  BY <1>1 DEF Inv, TypeOK
<1> HIDE DEF c
<1>6. Queued' = Queued \ {c} /\ c \in Queued
  <2>1. \A i \in 1..Len(jobs') : jobs'[i] \in Queued \ {c}
    BY <1>3, <1>4 DEF Queued, Users, Once
  <2>2. ASSUME NEW i \in 1..Len(jobs), jobs[i] # c
        PROVE  i - 1 \in 1..Len(jobs') /\ jobs'[i - 1] = jobs[i]
    BY <1>3, <2>2
  <2>3. ASSUME NEW d \in Queued \ {c} PROVE d \in Queued'
    <3>1. PICK i \in 1..Len(jobs) : jobs[i] = d
      BY DEF Queued
    <3>2. QED BY <2>2, <3>1 DEF Queued
  <2>4. c \in Queued
    BY <1>3 DEF Queued
  <2>5. Queued' \subseteq Queued \ {c}
    BY <2>1 DEF Queued
  <2>6. QED BY <2>3, <2>4, <2>5
<1>7. Held' = Held \cup {c}
  <2>1. \A x : x \in Held' <=> \E v \in Workers : worker'[v].at \notin Handless /\ x = worker'[v].conn
    BY DEF Held
  <2>2. \A x : x \in Held <=> \E v \in Workers : worker[v].at \notin Handless /\ x = worker[v].conn
    BY DEF Held
  <2>3. ASSUME NEW x \in Held' PROVE x \in Held \cup {c}
    <3>1. PICK v \in Workers : worker'[v].at \notin Handless /\ x = worker'[v].conn
      BY <2>1, <2>3
    <3>2. CASE v = w
      BY <1>5, <3>1, <3>2
    <3>3. CASE v # w
      BY <1>5, <2>2, <3>1, <3>3
    <3>4. QED BY <3>2, <3>3
  <2>4. ASSUME NEW x \in Held PROVE x \in Held'
    <3>1. PICK v \in Workers : worker[v].at \notin Handless /\ x = worker[v].conn
      BY <2>2, <2>4
    <3>2. v # w
      BY <1>1, <3>1 DEF Handless
    <3>3. QED BY <1>5, <2>1, <3>1, <3>2
  <2>5. c \in Held'
    BY <1>5, <2>1 DEF Handless
  <2>6. QED BY <2>3, <2>4, <2>5
<1>8. /\ BusyConns' = BusyConns /\ Reported(completed)' = Reported(completed)
      /\ Reported(finishing)' = Reported(finishing)
  BY <1>1 DEF BusyConns, InMap, Registered, Reported
<1>9. OnePlace'
  BY <1>6, <1>7, <1>8 DEF Users, OnePlace
<1>10. Once'
  <2>1. \A i, j \in 1..Len(jobs') : jobs'[i] = jobs'[j] => i = j
    BY <1>3, <1>4 DEF Users, Once
  <2>2. \A v \in Workers : worker[v].at \notin Handless => worker[v].conn # c
    BY <1>6 DEF Users, OnePlace, Held
  <2>3. \A u, v \in Workers :
          worker'[u].at \notin Handless /\ worker'[v].at \notin Handless
            /\ worker'[u].conn = worker'[v].conn => u = v
    BY <1>5, <2>2 DEF Users, Once
  <2>4. \A v \in Workers : worker'[v].at \in Handless => worker'[v].conn = NoConn
    BY <1>5 DEF Users, Once, Handless
  <2>5. QED BY <1>1, <2>1, <2>3, <2>4 DEF Users, Once
<1>11. Progress'
  <2>1. \A d \in Queued' : Unanswered(conn'[d])
    BY <1>1, <1>6 DEF Users, Progress
  <2>2. \A v \in Workers :
          /\ worker'[v].at = "working" => Unanswered(conn'[worker'[v].conn])
          /\ worker'[v].at = "opening" => Opening(conn'[worker'[v].conn])
          /\ worker'[v].at = "notifying" => Judged(conn'[worker'[v].conn], worker'[v].result)
    BY <1>1, <1>5, <1>6 DEF Users, Progress
  <2>4. (\A i \in 1..Len(completed) : Current(completed[i]))'
        /\ (\A i \in 1..Len(finishing) : Current(finishing[i]))'
    BY <1>1 DEF Users, Progress, Current
  <2>5. QED BY <1>1, <2>1, <2>2, <2>4 DEF Progress
<1>12. QED BY <1>9, <1>10, <1>11 DEF Users

\* A worker has gone on with the request of its object.
LEMMA UsersWork ==
  ASSUME Inv, Users, NEW w \in Workers, worker[w].at \in {"working", "opening"},
         worker'[w].at \in {"opening", "notifying"}, worker'[w].conn = worker[w].conn,
         \A v \in Workers \ {w} : worker'[v] = worker[v],
         UNCHANGED <<jobs, completed, finishing>>, BusyConns' = BusyConns,
         \A d \in Conns \ {worker[w].conn} : conn'[d] = conn[d],
         worker'[w].at = "opening" => Opening(conn'[worker[w].conn]),
         worker'[w].at = "notifying" => Judged(conn'[worker[w].conn], worker'[w].result)
  PROVE  Users'
<1> DEFINE c == worker[w].conn
<1>1. worker'[w].conn = c /\ \A v \in Workers \ {w} : worker'[v] = worker[v]
  OBVIOUS
<1>2. \A v \in Workers : /\ worker'[v].at \notin Handless <=> worker[v].at \notin Handless
                         /\ worker'[v].conn = worker[v].conn
  BY <1>1 DEF Handless
<1>3. /\ Held' = Held /\ Queued' = Queued /\ Reported(completed)' = Reported(completed)
      /\ Reported(finishing)' = Reported(finishing)
  <2>1. ASSUME NEW x \in Held' PROVE x \in Held
    <3>1. PICK v \in Workers : worker'[v].at \notin Handless /\ x = worker'[v].conn
      BY DEF Held
    <3>2. QED BY <1>2, <3>1 DEF Held
  <2>2. ASSUME NEW x \in Held PROVE x \in Held'
    <3>1. PICK v \in Workers : worker[v].at \notin Handless /\ x = worker[v].conn
      BY DEF Held
    <3>2. QED BY <1>2, <3>1 DEF Held
  <2>3. QED BY <2>1, <2>2 DEF Queued, Reported
<1>4. OnePlace'
  BY <1>3 DEF Users, OnePlace
<1>5. Once'
  <2>1. \A u, v \in Workers :
          worker'[u].at \notin Handless /\ worker'[v].at \notin Handless
            /\ worker'[u].conn = worker'[v].conn => u = v
    BY <1>2 DEF Users, Once
  <2>2. \A v \in Workers : worker'[v].at \in Handless => worker'[v].conn = NoConn
    BY <1>2 DEF Users, Once
  <2>3. QED BY <2>1, <2>2 DEF Users, Once
<1>6. c \in Held
  BY DEF Held, Handless
<1>7. /\ \A d \in Queued : d \in Conns \ {c}
      /\ \A v \in Workers \ {w} : worker[v].at \notin Handless => worker[v].conn \in Conns \ {c}
      /\ \A i \in 1..Len(completed) : completed[i].conn \in Conns \ {c}
      /\ \A i \in 1..Len(finishing) : finishing[i].conn \in Conns \ {c}
  <2>1. BusyConns \subseteq Conns
    BY DEF Inv, TypeOK, BusyConns, InMap, Registered
  <2>2. /\ c \notin Queued /\ c \notin Reported(completed) /\ c \notin Reported(finishing)
    BY <1>6 DEF Users, OnePlace
  <2>3. Queued \subseteq Conns
    BY <2>1 DEF Users, OnePlace
  <2>4. \A v \in Workers \ {w} : worker[v].at \notin Handless => worker[v].conn # c
    BY DEF Users, Once, Handless
  <2>5. QED BY <2>1, <2>2, <2>3, <2>4, UsersAreBusy DEF Users, Reported
<1>8. \A d \in Conns \ {c} : Same(conn[d], conn'[d])
  BY DEF Same
<1>9. Progress'
  <2>1. \A d \in Queued' : Unanswered(conn'[d])
    BY <1>3, <1>7, <1>8, StillRight DEF Users, Progress
  <2>2. \A v \in Workers \ {w} :
          /\ worker'[v].at = "working" => Unanswered(conn'[worker'[v].conn])
          /\ worker'[v].at = "opening" => Opening(conn'[worker'[v].conn])
          /\ worker'[v].at = "notifying" => Judged(conn'[worker'[v].conn], worker'[v].result)
    BY <1>1, <1>7, <1>8, StillRight DEF Users, Progress, Handless
  <2>3. \A v \in Workers :
          /\ worker'[v].at = "working" => Unanswered(conn'[worker'[v].conn])
          /\ worker'[v].at = "opening" => Opening(conn'[worker'[v].conn])
          /\ worker'[v].at = "notifying" => Judged(conn'[worker'[v].conn], worker'[v].result)
    BY <1>1, <2>2
  <2>5. ASSUME NEW i \in 1..Len(completed), NEW e, e = completed[i] PROVE Current(e)'
    BY <2>5, <1>7, <1>8, StillRight DEF Users, Progress
  <2>6. ASSUME NEW i \in 1..Len(finishing), NEW e, e = finishing[i] PROVE Current(e)'
    BY <2>6, <1>7, <1>8, StillRight DEF Users, Progress
  <2>7. (\A i \in 1..Len(completed) : Current(completed[i]))'
    BY <2>5 DEF Current
  <2>8. (\A i \in 1..Len(finishing) : Current(finishing[i]))'
    BY <2>6 DEF Current
  <2>9. QED BY <2>1, <2>3, <2>7, <2>8 DEF Progress
<1>10. QED BY <1>4, <1>5, <1>9 DEF Users

\* A worker reports its object and forgets it.
LEMMA UsersNotify ==
  ASSUME Inv, Users, NEW w \in Workers, Notify(w)
  PROVE  Users'
<1> DEFINE c == worker[w].conn
           e == [conn |-> c, fd |-> conn[c].fd, gen |-> conn[c].gen,
                 result |-> worker[w].result]
<1>1. /\ worker[w].at = "notifying" /\ completed' = Append(completed, e)
      /\ worker' = [worker EXCEPT ![w] = [IdleWorker EXCEPT !.at = "waking"]]
      /\ UNCHANGED <<connections, conn, jobs, finishing>>
  BY DEF Notify, loopVars, mapVars
<1>2. /\ e.conn = c /\ Current(e)
  BY <1>1 DEF Current, Users, Progress
<1>3. completed \in Seq(Completion)
  BY DEF Inv, TypeOK
<1>4. c \in Conns /\ c # NoConn
  BY <1>1, ReactorAssumption DEF Inv, BusyHasObject
<1>5. /\ worker'[w].at = "waking" /\ worker'[w].conn = NoConn
      /\ \A v \in Workers \ {w} : worker'[v] = worker[v]
  BY <1>1 DEF Inv, TypeOK, IdleWorker
<1>6. e \in Completion
  BY <1>4 DEF Inv, TypeOK, ConnRecord, Completion
<1> HIDE DEF e
<1>7. /\ Len(completed') = Len(completed) + 1 /\ Len(completed) \in Nat
      /\ completed'[Len(completed) + 1] = e
      /\ \A i \in 1..Len(completed) : completed'[i] = completed[i]
  BY <1>1, <1>3, <1>6, AppendProperties
<1>8. 1..Len(completed') = 1..Len(completed) \cup {Len(completed) + 1}
  BY <1>7
<1>9. Reported(completed)' = Reported(completed) \cup {c}
  BY <1>2, <1>7, <1>8 DEF Reported
<1>10. c \in Held
  BY <1>1 DEF Held, Handless
<1>11. Held' = Held \ {c}
  <2>1. ASSUME NEW x \in Held' PROVE x \in Held \ {c}
    <3>1. PICK v \in Workers : worker'[v].at \notin Handless /\ x = worker'[v].conn
      BY DEF Held
    <3>2. v # w /\ worker'[v] = worker[v]
      BY <1>5, <3>1 DEF Handless
    <3>3. x # c
      BY <1>1, <3>1, <3>2 DEF Users, Once, Handless
    <3>4. QED BY <3>1, <3>2, <3>3 DEF Held
  <2>2. ASSUME NEW x \in Held \ {c} PROVE x \in Held'
    <3>1. PICK v \in Workers : worker[v].at \notin Handless /\ x = worker[v].conn
      BY DEF Held
    <3>2. v # w /\ worker'[v] = worker[v]
      BY <1>5, <3>1 DEF Handless
    <3>3. QED BY <3>1, <3>2 DEF Held
  <2>3. QED BY <2>1, <2>2
<1>12. /\ BusyConns' = BusyConns /\ Queued' = Queued
       /\ Reported(finishing)' = Reported(finishing)
  BY <1>1 DEF BusyConns, InMap, Registered, Queued, Reported
<1>13. OnePlace'
  BY <1>9, <1>10, <1>11, <1>12 DEF Users, OnePlace
<1>14. Once'
  <2>1. \A i \in 1..Len(completed) : completed[i].conn # c
    BY <1>10 DEF Users, OnePlace, Reported
  <2>2. \A i, j \in 1..Len(completed') : completed'[i].conn = completed'[j].conn => i = j
    BY <1>2, <1>7, <1>8, <2>1 DEF Users, Once
  <2>3. \A u, v \in Workers :
          worker'[u].at \notin Handless /\ worker'[v].at \notin Handless
            /\ worker'[u].conn = worker'[v].conn => u = v
    BY <1>5 DEF Users, Once, Handless
  <2>4. \A v \in Workers : worker'[v].at \in Handless => worker'[v].conn = NoConn
    BY <1>5 DEF Users, Once, Handless
  <2>5. QED BY <1>1, <2>2, <2>3, <2>4 DEF Users, Once
<1>15. Progress'
  <2>1. \A v \in Workers :
          /\ worker'[v].at = "working" => Unanswered(conn[worker'[v].conn])
          /\ worker'[v].at = "opening" => Opening(conn[worker'[v].conn])
          /\ worker'[v].at = "notifying" => Judged(conn[worker'[v].conn], worker'[v].result)
    BY <1>5 DEF Users, Progress
  <2>2. \A i \in 1..Len(completed') : Current(completed'[i])
    BY <1>2, <1>7, <1>8 DEF Users, Progress
  <2>3. (\A i \in 1..Len(completed) : Current(completed[i]))'
    BY <1>1, <2>2 DEF Current
  <2>4. (\A i \in 1..Len(finishing) : Current(finishing[i]))'
    BY <1>1 DEF Users, Progress, Current
  <2>5. \A d \in Queued' : Unanswered(conn[d])
    BY <1>12 DEF Users, Progress
  <2>6. (\A v \in Workers :
           /\ worker[v].at = "working" => Unanswered(conn[worker[v].conn])
           /\ worker[v].at = "opening" => Opening(conn[worker[v].conn])
           /\ worker[v].at = "notifying" => Judged(conn[worker[v].conn], worker[v].result))'
    BY <1>1, <2>1
  <2>7. (\A d \in Queued : Unanswered(conn[d]))'
    BY <1>1, <2>5, SMTT(30) DEF Unanswered
  <2>8. QED BY <2>3, <2>4, <2>6, <2>7 DEF Progress
<1>16. QED BY <1>13, <1>14, <1>15 DEF Users

\* A worker wakes the reactor.
LEMMA UsersWake ==
  ASSUME Inv, Users, NEW w \in Workers, WakeReactor(w)
  PROVE  Users'
<1>1. /\ worker[w].at = "waking" /\ worker[w].conn = NoConn
      /\ worker'[w].at = "idle" /\ worker'[w].conn = NoConn
      /\ \A v \in Workers \ {w} : worker'[v] = worker[v]
  BY DEF WakeReactor, Users, Once, Handless, Inv, TypeOK, IdleWorker
<1>2. UNCHANGED <<jobs, completed, finishing, connections, conn>>
  BY DEF WakeReactor, loopVars, mapVars
<1>3. BusyConns' = BusyConns
  BY <1>2 DEF BusyConns, InMap, Registered
<1>4. /\ \A v \in Workers : worker'[v].at \notin Handless <=> worker[v].at \notin Handless
      /\ \A v \in Workers : worker'[v].conn = worker[v].conn
  BY <1>1 DEF Handless
<1>5. Held' = Held
  <2>1. ASSUME NEW x \in Held' PROVE x \in Held
    <3>1. PICK v \in Workers : worker'[v].at \notin Handless /\ x = worker'[v].conn
      BY DEF Held
    <3>2. QED BY <1>4, <3>1 DEF Held
  <2>2. ASSUME NEW x \in Held PROVE x \in Held'
    <3>1. PICK v \in Workers : worker[v].at \notin Handless /\ x = worker[v].conn
      BY DEF Held
    <3>2. QED BY <1>4, <3>1 DEF Held
  <2>3. QED BY <2>1, <2>2
<1>6. OnePlace'
  <2>1. /\ Queued' = Queued /\ Reported(completed)' = Reported(completed)
        /\ Reported(finishing)' = Reported(finishing)
    BY <1>2 DEF Queued, Reported
  <2>2. QED BY <1>3, <1>5, <2>1 DEF Users, OnePlace
<1>7. Once'
  BY <1>2, <1>4 DEF Users, Once
<1>8. Progress'
  <2>1. \A v \in Workers :
          /\ worker'[v].at = "working" => Unanswered(conn[worker'[v].conn])
          /\ worker'[v].at = "opening" => Opening(conn[worker'[v].conn])
          /\ worker'[v].at = "notifying" => Judged(conn[worker'[v].conn], worker'[v].result)
    BY <1>1 DEF Users, Progress
  <2>2. (\A v \in Workers :
           /\ worker[v].at = "working" => Unanswered(conn[worker[v].conn])
           /\ worker[v].at = "opening" => Opening(conn[worker[v].conn])
           /\ worker[v].at = "notifying" => Judged(conn[worker[v].conn], worker[v].result))'
    BY <1>2, <2>1
  <2>3. (\A i \in 1..Len(completed) : Current(completed[i]))'
        /\ (\A i \in 1..Len(finishing) : Current(finishing[i]))'
    BY <1>2 DEF Users, Progress, Current
  <2>4. (\A d \in Queued : Unanswered(conn[d]))'
    BY <1>2, SMTT(30) DEF Users, Progress, Queued, Unanswered
  <2>5. QED BY <2>2, <2>3, <2>4 DEF Progress
<1>9. QED BY <1>6, <1>7, <1>8 DEF Users

-----------------------------------------------------------------------------
(* Reading.                                                                *)

\* What read_once takes is a beginning of what has arrived, and goes behind
\* what it has read before.
Moves(buf, line, n, b, rest) ==
  /\ buf \in Seq(Units) /\ line \in Seq(Units) /\ n \in Nat /\ n <= Len(line)
  /\ b = buf \o SubSeq(line, 1, n) /\ rest = SubSeq(line, n + 1, Len(line))

LEMMA Moved ==
  ASSUME NEW buf, NEW line, NEW n, NEW b, NEW rest, Moves(buf, line, n, b, rest)
  PROVE  \E k, m \in Nat :
           /\ k = Len(buf) /\ m = Len(line) /\ n <= m
           /\ b \in Seq(Units) /\ Len(b) = k + n
           /\ \A i \in 1..k : b[i] = buf[i]
           /\ \A i \in (k + 1)..(k + n) : b[i] = line[i - k]
           /\ rest \in Seq(Units) /\ Len(rest) = m - n
           /\ \A i \in 1..(m - n) : rest[i] = line[n + i]
<1> USE DEF Moves
<1>0. PICK k, m \in Nat : k = Len(buf) /\ m = Len(line) /\ n <= m
  BY LenProperties
<1>1. \A i \in 1..m : line[i] \in Units
  BY <1>0, ElementOfSeq
<1>2. PICK got : got = SubSeq(line, 1, n)
  OBVIOUS
<1>3. got \in Seq(Units) /\ Len(got) = n /\ \A i \in 1..n : got[i] = line[i]
  <2>1. \A i \in 1..n : line[i] \in Units
    BY <1>0, <1>1
  <2>2. /\ got \in Seq(Units) /\ Len(got) = IF 1 <= n THEN n - 1 + 1 ELSE 0
        /\ \A i \in 1..(n - 1 + 1) : got[i] = line[1 + i - 1]
    BY <1>2, <2>1, SubSeqProperties
  <2>3. \A i \in 1..n : i \in 1..(n - 1 + 1) /\ 1 + i - 1 = i
    BY <1>0
  <2>4. QED BY <1>0, <2>2, <2>3
<1>4. /\ rest \in Seq(Units) /\ Len(rest) = m - n
      /\ \A i \in 1..(m - n) : rest[i] = line[n + i]
  <2>1. \A i \in (n + 1)..m : line[i] \in Units
    BY <1>0, <1>1
  <2>2. /\ rest \in Seq(Units) /\ Len(rest) = IF n + 1 <= m THEN m - (n + 1) + 1 ELSE 0
        /\ \A i \in 1..(m - (n + 1) + 1) : rest[i] = line[(n + 1) + i - 1]
    BY <1>0, <2>1, SubSeqProperties
  <2>3. \A i \in 1..(m - n) : i \in 1..(m - (n + 1) + 1) /\ (n + 1) + i - 1 = n + i
    BY <1>0
  <2>4. QED BY <1>0, <2>2, <2>3, SMTT(30)
<1>5. /\ b \in Seq(Units) /\ Len(b) = k + n
      /\ \A i \in 1..(k + n) : b[i] = IF i <= k THEN buf[i] ELSE got[i - k]
  <2>1. b = buf \o got
    BY <1>2
  <2>2. Len(got) = n /\ Len(buf) = k /\ got \in Seq(Units)
    BY <1>0, <1>3
  <2>3. /\ buf \o got \in Seq(Units) /\ Len(buf \o got) = Len(buf) + Len(got)
        /\ \A i \in 1..(Len(buf) + Len(got)) : (buf \o got)[i] =
              IF i <= Len(buf) THEN buf[i] ELSE got[i - Len(buf)]
    BY <2>2, ConcatProperties
  <2>4. QED BY <2>1, <2>2, <2>3
<1>6. \A i \in 1..k : b[i] = buf[i]
  BY <1>0, <1>5
<1>7. \A i \in (k + 1)..(k + n) : i - k \in 1..n /\ i \in 1..(k + n) /\ ~(i <= k)
  BY <1>0
<1>8. \A i \in (k + 1)..(k + n) : b[i] = line[i - k]
  BY <1>3, <1>5, <1>7
<1>9. QED BY <1>0, <1>4, <1>5, <1>6, <1>8

LEMMA MovedRequest ==
  ASSUME NEW buf, NEW line, NEW n, NEW b, NEW rest, Moves(buf, line, n, b, rest), Parts(buf)
  PROVE  /\ Parts(line) => Parts(b) /\ Parts(rest)
         /\ Whole(line) => (Parts(b) /\ Whole(rest)) \/ (Whole(b) /\ rest = <<>>)
         /\ line = <<>> /\ buf = <<>> => b = <<>> /\ rest = <<>>
<1>0. n \in Nat /\ line \in Seq(Units)
  BY DEF Moves
<1>1. PICK k, m \in Nat :
        /\ k = Len(buf) /\ m = Len(line) /\ n <= m
        /\ b \in Seq(Units) /\ Len(b) = k + n
        /\ \A i \in 1..k : b[i] = buf[i]
        /\ \A i \in (k + 1)..(k + n) : b[i] = line[i - k]
        /\ rest \in Seq(Units) /\ Len(rest) = m - n
        /\ \A i \in 1..(m - n) : rest[i] = line[n + i]
  BY Moved
<1>2. /\ b \in Seq(Units) /\ Len(b) = k + n
      /\ \A i \in 1..k : b[i] = buf[i]
      /\ \A i \in (k + 1)..(k + n) : b[i] = line[i - k]
      /\ rest \in Seq(Units) /\ Len(rest) = m - n
      /\ \A i \in 1..(m - n) : rest[i] = line[n + i]
  BY <1>0, <1>1
<1>3. n <= m /\ \A i \in 1..(k + n) : i \in 1..k \/ i \in (k + 1)..(k + n)
  BY <1>0, <1>1
<1>4. \A i \in 1..k : b[i] = "part"
  BY <1>0, <1>1, <1>2 DEF Parts
<1>5. \A i \in (k + 1)..(k + n) : i - k \in 1..m
  BY <1>0, <1>3
<1>6. \A i \in 1..(m - n) : n + i \in 1..m
  BY <1>0, <1>3
<1>7. ASSUME Parts(line) PROVE Parts(b) /\ Parts(rest)
  <2>1. \A i \in 1..m : line[i] = "part"
    BY <1>0, <1>1, <1>7 DEF Parts
  <2>2. \A i \in 1..(k + n) : b[i] = "part"
    BY <1>0, <1>2, <1>3, <1>4, <1>5, <2>1
  <2>3. \A i \in 1..(m - n) : rest[i] = "part"
    BY <1>0, <1>2, <1>6, <2>1
  <2>4. QED BY <1>0, <1>2, <2>2, <2>3 DEF Parts
<1>8. ASSUME Whole(line) PROVE (Parts(b) /\ Whole(rest)) \/ (Whole(b) /\ rest = <<>>)
  <2>1. /\ line[m] = "end" /\ \A i \in 1..(m - 1) : line[i] = "part"
        /\ m > 0
    BY <1>0, <1>1, <1>8, EmptySeq DEF Whole
  <2>2. CASE n < m
    <3>1. \A i \in (k + 1)..(k + n) : i - k \in 1..(m - 1)
      BY <1>0, <2>2
    <3>2. \A i \in 1..(k + n) : b[i] = "part"
      BY <1>0, <1>2, <1>3, <1>4, <2>1, <3>1
    <3>3. m - n \in 1..(m - n) /\ n + (m - n) = m
      BY <1>0, <2>2
    <3>4. rest # <<>> /\ rest[Len(rest)] = "end"
      <4>1. Len(rest) # 0 /\ rest[m - n] = line[m]
        BY <1>0, <1>2, <2>2, <3>3
      <4>2. QED BY <1>0, <1>2, <2>1, <4>1, EmptySeq
    <3>5. \A i \in 1..((m - n) - 1) : i \in 1..(m - n) /\ n + i \in 1..(m - 1)
      BY <1>0, <2>2
    <3>6. \A i \in 1..(Len(rest) - 1) : rest[i] = "part"
      BY <1>0, <1>2, <2>1, <3>5
    <3>7. Parts(b)
      BY <1>0, <1>2, <3>2 DEF Parts
    <3>8. Whole(rest)
      BY <1>0, <3>4, <3>6 DEF Whole
    <3>9. QED BY <1>0, <3>7, <3>8
  <2>3. CASE n = m
    <3>1. rest = <<>>
      BY <1>0, <1>2, <2>3, EmptySeq
    <3>2. k + n \in (k + 1)..(k + n) /\ (k + n) - k = m
      BY <1>0, <2>1, <2>3
    <3>3. b # <<>> /\ b[Len(b)] = "end"
      <4>1. Len(b) # 0 /\ b[k + n] = line[m]
        BY <1>0, <1>2, <2>1, <2>3, <3>2
      <4>2. QED BY <1>0, <1>2, <2>1, <4>1, EmptySeq
    <3>4. \A i \in 1..((k + n) - 1) :
            i \in 1..k \/ (i \in (k + 1)..(k + n) /\ i - k \in 1..(m - 1))
      BY <1>0, <2>3
    <3>5. \A i \in 1..(Len(b) - 1) : b[i] = "part"
      BY <1>0, <1>2, <1>4, <2>1, <3>4
    <3>6. QED BY <1>0, <3>1, <3>3, <3>5 DEF Whole
  <2>4. QED BY <1>0, <1>3, <2>2, <2>3
<1>9. ASSUME line = <<>>, buf = <<>> PROVE b = <<>> /\ rest = <<>>
  <2>1. k = 0 /\ m = 0 /\ n = 0
    BY <1>0, <1>1, <1>3, <1>9, EmptySeq
  <2>2. QED BY <1>0, <1>2, <2>1, EmptySeq
<1>10. QED BY <1>0, <1>7, <1>8, <1>9

\* A request is not at the same time on its way and read.
LEMMA WholeIsNotParts ==
  ASSUME NEW q \in Seq(Units), Whole(q)
  PROVE  ~Parts(q)
<1>1. Len(q) \in 1..Len(q)
  BY EmptySeq DEF Whole
<1>2. QED BY <1>1 DEF Whole, Parts

\* Reading moves the request of the client along.
LEMMA ReceivedDialogue ==
  ASSUME NEW r \in ConnRecord, Len(r.buf) <= ReadBufferSize, NEW s \in SocketRecord,
         Unanswered(r), Parts(r.buf), Dialogue(r, s),
         NEW q, q = [r EXCEPT !.buf = Received(r, s).buf],
         NEW t, t = [s EXCEPT !.inbox = Received(r, s).rest]
  PROVE  Unanswered(q) /\ Dialogue(q, t) /\ q.busy = r.busy /\ t.armed = s.armed
<1> DEFINE b == Received(r, s).buf
           rest == Received(r, s).rest
           room == RoomToRead(r)
           n == IF Len(s.inbox) < room THEN Len(s.inbox) ELSE room
<1>1. r.buf \in Seq(Units) /\ s.inbox \in Seq(Units)
  BY DEF ConnRecord, SocketRecord
<1>2. n \in Nat /\ n <= Len(s.inbox)
  <2>1. Len(r.buf) \in Nat /\ Len(s.inbox) \in Nat /\ ReadBufferSize \in Nat
    BY <1>1, LenProperties, ReactorAssumption
  <2>2. room \in Nat
    BY <2>1 DEF RoomToRead
  <2> HIDE DEF room
  <2>3. QED BY <2>1, <2>2
<1>3. b = r.buf \o SubSeq(s.inbox, 1, n) /\ rest = SubSeq(s.inbox, n + 1, Len(s.inbox))
  BY DEF Received
<1> HIDE DEF b, rest, n
<1>4. /\ Parts(s.inbox) => Parts(b) /\ Parts(rest)
      /\ Whole(s.inbox) => (Parts(b) /\ Whole(rest)) \/ (Whole(b) /\ rest = <<>>)
      /\ s.inbox = <<>> /\ r.buf = <<>> => b = <<>> /\ rest = <<>>
  <2>1. Moves(r.buf, s.inbox, n, b, rest)
    BY <1>1, <1>2, <1>3 DEF Moves
  <2>2. QED BY <2>1, MovedRequest
<1>5. /\ q.buf = b /\ q.busy = r.busy /\ q.unsent = r.unsent /\ q.parsed = r.parsed
      /\ q.stream = r.stream /\ q.entered = r.entered
      /\ t.inbox = rest /\ t.outbox = s.outbox /\ t.waiting = s.waiting /\ t.armed = s.armed
  BY DEF ConnRecord, SocketRecord, b, rest
<1>6. Unanswered(q)
  BY <1>5 DEF Unanswered
<1>7. ResponseLength # 0
  BY ReactorAssumption
<1>8. Composing(r, s) \/ Asked(r, s) \/ Replied(r, s)
  BY <1>1, <1>7, WholeIsNotParts DEF Dialogue, Unanswered, Answered, Arrived
<1>9. Composing(q, t) \/ Asked(q, t) \/ Arrived(q, t) \/ Replied(q, t)
  BY <1>4, <1>5, <1>8 DEF Composing, Asked, Arrived, Replied
<1>10. QED BY <1>5, <1>6, <1>9 DEF Dialogue

-----------------------------------------------------------------------------
(* The handlers.                                                           *)

\* The handler of an idle connection has no users to disturb.
LEMMA UsersStay ==
  ASSUME Inv, Users, NEW c \in Conns, c \notin BusyConns,
         UNCHANGED <<jobs, worker, completed, finishing>>, BusyConns' = BusyConns \ {c},
         \A d \in Conns \ {c} : conn'[d] = conn[d]
  PROVE  Users'
<1>1. BusyConns \subseteq Conns
  BY DEF Inv, TypeOK, BusyConns, InMap, Registered
<1>2. BusyConns' = BusyConns /\ \A d \in BusyConns : Same(conn[d], conn'[d])
  BY <1>1 DEF Same
<1>3. QED BY <1>2, UsersFrame

\* What is known of a connection that no worker has.
LEMMA IdleConnection ==
  ASSUME Inv, Flows, NEW fd \in Registered, ~conn[connections[fd]].busy,
         ~conn[connections[fd]].entered
  PROVE  /\ connections[fd] \in Conns \ BusyConns
         /\ Dialogue(conn[connections[fd]], socket[fd])
         /\ \/ Listening(fd, conn[connections[fd]]) \/ Sending(fd, conn[connections[fd]])
            \/ Ended(fd, conn[connections[fd]])
<1>1. fd \in Fds /\ connections[fd] \in Conns
  BY RegisteredType
<1>2. QED BY <1>1 DEF Flows, Flow, Working, Disturbed, Silent, BusyConns

LEMMA CloseStep ==
  ASSUME Inv, Flows, Users, NEW fd \in Registered, ~conn[connections[fd]].busy,
         Close(fd), Elsewhere(fd), UNCHANGED <<worker, completed, finishing>>
  PROVE  Flows' /\ Users' /\ pendingWrites' = pendingWrites \ {fd}
<1>1. OnlyObject(conn, connections[fd]) /\ OnlySocket(socket, fd)
  BY InvParts, Untouched
<1>2. CloseConnection(fd, conn, socket) /\ UNCHANGED jobs
  BY DEF Close
<1>3. /\ Flows' /\ BusyConns' = BusyConns \ {connections[fd]}
      /\ \A d \in Conns \ {connections[fd]} : conn'[d] = conn[d]
      /\ pendingWrites' = pendingWrites \ {fd}
  BY <1>1, <1>2, CloseExit
<1>4. Users'
  <2>1. connections[fd] \in Conns \ BusyConns
    BY RegisteredType DEF BusyConns
  <2>2. QED BY <1>2, <1>3, <2>1, UsersStay
<1>5. QED BY <1>3, <1>4

\* handle_read: the request goes on its way, or the connection is closed.  An
\* open stream is not read: its client says nothing before it leaves.
LEMMA ReadStep ==
  ASSUME Inv, Flows, Users, NEW fd \in Registered, NEW e, Events(fd) = {e}, e.ev = "in",
         phase = "events", HandleRead(fd), Elsewhere(fd), UNCHANGED <<worker, completed, finishing>>,
         ~conn[connections[fd]].entered
  PROVE  Flows' /\ Users'
<1> DEFINE c == connections[fd]
           r == conn[c]
           s == socket[fd]
           got == Received(r, s)
           q == [r EXCEPT !.buf = got.buf]
           t == [s EXCEPT !.inbox = got.rest]
           cs == [conn EXCEPT ![c] = q]
           sk == [socket EXCEPT ![fd] = t]
<1>1. /\ fd \in Fds /\ c \in Conns /\ r \in ConnRecord /\ Len(r.buf) <= ReadBufferSize
      /\ s \in SocketRecord /\ s.open
  BY RegisteredType DEF Inv, TypeOK
<1>2. ~r.busy
  BY <1>1 DEF Flows, Flow, Working, Listening, Sending, Ended, Disturbed, Silent
<1>3. /\ Dialogue(r, s) /\ Listening(fd, r) /\ c \notin BusyConns
  BY <1>2, IdleConnection DEF Sending, Ended, Watched
<1>4. /\ s.armed = "off" /\ fd \notin pendingWrites /\ r.unsent = 0 /\ r.stream # "done"
      /\ s.inbox # <<>> \/ s.peer = "fin"
      /\ r.stream = "off" => Parts(r.buf)
  BY <1>3 DEF Listening, Watched
<1>5. PoolInv
  BY InvParts
<1>6. /\ q \in ConnRecord /\ Len(q.buf) <= ReadBufferSize /\ q.fd = r.fd /\ ~q.busy
      /\ t \in SocketRecord /\ t.open
  <2>1. got.buf \in Seq(Units) /\ Len(got.buf) <= ReadBufferSize /\ got.rest \in Seq(Units)
    BY <1>1, ReceivedType
  <2> HIDE DEF got
  <2>2. QED BY <1>1, <1>2, <2>1 DEF ConnRecord, SocketRecord
<1>7. OnlyObject(cs, c) /\ OnlySocket(sk, fd) /\ cs[c] = q /\ sk[fd] = t
  <2> HIDE DEF q, t
  <2>1. OnlyObject(cs, c) /\ OnlySocket(sk, fd)
    BY <1>5, <1>6, HandlerObject, HandlerSocket
  <2>2. QED BY <1>1, <2>1 DEF OnlyObject, OnlySocket, Inv, TypeOK
<1>8. CASE got.ok
  <2>1. Dispatch(fd, cs, sk, pendingWrites)
    BY <1>8 DEF HandleRead
  <2>2. r.stream = "off"
    <3>1. SUFFICES ASSUME r.stream = "on" PROVE FALSE
      BY <1>1, <1>4 DEF ConnRecord
    <3>2. s.inbox = <<>> /\ s.peer = "fin"
      BY <1>3, <1>4, <3>1 DEF Dialogue, Unanswered, Answered, Streams
    <3>3. Len(s.inbox) = 0
      BY <3>2, EmptySeq
    <3>4. RoomToRead(r) \in Int
      BY <1>1, LenProperties, ReactorAssumption, SMTT(30) DEF RoomToRead, ConnRecord
    <3>5. /\ RoomToRead(r) > 0
          /\ \/ (IF Len(s.inbox) < RoomToRead(r) THEN Len(s.inbox)
                 ELSE RoomToRead(r)) = RoomToRead(r)
             \/ s.peer = "up"
      BY <1>8 DEF Received
    <3>6. QED BY <3>2, <3>3, <3>4, <3>5
  <2>3. Unanswered(r) /\ Parts(r.buf)
    BY <1>3, <1>4, <2>2, ReactorAssumption DEF Dialogue, Answered
  <2>4. Unanswered(q) /\ Dialogue(q, t) /\ t.armed = "off"
    BY <1>1, <1>3, <1>4, <2>3, ReceivedDialogue
  <2> HIDE DEF q, t, cs, sk
  <2>5. /\ Flows'
        /\ \/ /\ jobs' = Append(jobs, c) /\ Unanswered(conn'[c])
              /\ BusyConns' = BusyConns \cup {c}
           \/ UNCHANGED jobs /\ BusyConns' = BusyConns \ {c}
        /\ \A d \in Conns \ {c} : conn'[d] = conn[d]
    BY <1>4, <1>7, <2>1, <2>4, DispatchExit
  <2>6. CASE UNCHANGED jobs /\ BusyConns' = BusyConns \ {c}
    BY <1>1, <1>3, <2>5, <2>6, UsersStay
  <2>7. CASE /\ jobs' = Append(jobs, c) /\ Unanswered(conn'[c])
             /\ BusyConns' = BusyConns \cup {c}
    <3>1. \A d \in BusyConns : conn'[d] = conn[d]
      BY <1>3, <2>5 DEF BusyConns, InMap, Registered, Inv, TypeOK
    <3>2. QED BY <1>1, <1>3, <2>5, <2>7, <3>1, UsersDispatch
  <2>8. QED BY <2>5, <2>6, <2>7
<1>9. CASE ~got.ok
  <2>1. CloseConnection(fd, cs, sk) /\ UNCHANGED jobs
    BY <1>9 DEF HandleRead
  <2>2. ~cs[c].busy
    BY <1>6, <1>7
  <2> HIDE DEF q, t, cs, sk
  <2>3. /\ Flows' /\ BusyConns' = BusyConns \ {c}
        /\ \A d \in Conns \ {c} : conn'[d] = conn[d]
    BY <1>7, <2>1, <2>2, CloseExit
  <2>4. QED BY <1>1, <1>3, <2>1, <2>3, UsersStay
<1>10. QED BY <1>8, <1>9

\* The pieces of a response: all but the last one of an ordinary response are
\* followed by more.
LEMMA PiecesElements ==
  ASSUME NEW r, NEW n \in Int
  PROVE  /\ Pieces(r, n) \in Seq({"more", "last"})
         /\ r.stream # "off" \/ r.entered
              => \A i \in 1..Len(Pieces(r, n)) : Pieces(r, n)[i] = "more"
         /\ r.stream = "off" /\ ~r.entered /\ n = r.unsent /\ n > 0 => Ending(Pieces(r, n))
<1> DEFINE piece(i) == IF i = r.unsent /\ r.stream = "off" /\ ~r.entered THEN "last" ELSE "more"
           p == Pieces(r, n)
<1>1. PICK m \in Nat : 1..n = 1..m /\ (n > 0 => n = m)
  <2>1. CASE n \in Nat
    BY <2>1
  <2>2. CASE n \notin Nat
    <3>1. 1..n = 1..0 /\ ~(n > 0)
      BY <2>2
    <3>2. QED BY <3>1
  <2>3. QED BY <2>1, <2>2
<1>2. p = [i \in 1..m |-> piece(i)]
  BY <1>1 DEF Pieces
<1>3. p \in Seq({"more", "last"})
  <2>1. \A i \in 1..m : piece(i) \in {"more", "last"}
    OBVIOUS
  <2> HIDE DEF piece
  <2>2. [i \in 1..m |-> piece(i)] \in Seq({"more", "last"})
    BY <2>1, IsASeq
  <2>3. QED BY <1>2, <2>2
<1>4. Len(p) = m /\ \A i \in 1..m : p[i] = piece(i)
  BY <1>2, <1>3, LenProperties
<1> HIDE DEF p
<1>5. r.stream # "off" \/ r.entered => \A i \in 1..Len(p) : p[i] = "more"
  BY <1>4
<1>6. ASSUME r.stream = "off", ~r.entered, n = r.unsent, n > 0 PROVE Ending(p)
  <2>1. m = n /\ p # <<>>
    BY <1>1, <1>4, <1>6, EmptySeq
  <2>2. p[Len(p)] = "last"
    BY <1>1, <1>4, <1>6, <2>1
  <2>3. \A i \in 1..(Len(p) - 1) : p[i] = "more"
    BY <1>1, <1>4, <1>6, <2>1
  <2>4. QED BY <2>1, <2>2, <2>3 DEF Ending
<1>7. QED BY <1>3, <1>5, <1>6 DEF p

LEMMA SentSocket ==
  ASSUME Inv, NEW fd \in Registered, NEW r \in ConnRecord, NEW n \in Int,
         NEW s, s = socket[fd],
         NEW sk, NEW t, t = sk[fd], NEW ev \in {"off", "in", "out"},
         \/ sk = Sent(fd, r, n) /\ ev = s.armed
         \/ sk = Arm(Sent(fd, r, n), fd, ev)
  PROVE  /\ OnlySocket(sk, fd)
         /\ t.armed = ev /\ t.waiting = s.waiting /\ t.inbox = s.inbox
         /\ t.outbox = s.outbox \o Pieces(r, n)
         /\ Streams(s) /\ (r.stream # "off" \/ r.entered) => Streams(t)
         /\ s.outbox = <<>> => t.outbox = Pieces(r, n)
<1> DEFINE out == s.outbox \o Pieces(r, n)
<1>1. /\ fd \in Fds /\ s \in SocketRecord /\ s.outbox \in Seq({"more", "last"})
      /\ socket \in [Fds -> SocketRecord] /\ PoolInv
  BY RegisteredType, InvParts DEF SocketRecord, Inv, TypeOK
<1>2. OnlySocket(Sent(fd, r, n), fd)
  BY <1>1, SentType
<1>3. OnlySocket(sk, fd)
  BY <1>1, <1>2, ArmType
<1>4. Sent(fd, r, n) = [socket EXCEPT ![fd] = [s EXCEPT !.outbox = out]]
  BY DEF Sent
<1> HIDE DEF out
<1>5. Sent(fd, r, n)[fd] = [s EXCEPT !.outbox = out]
  BY <1>1, <1>4
<1>6. \/ t = [s EXCEPT !.outbox = out] /\ ev = s.armed
      \/ t = [[s EXCEPT !.outbox = out] EXCEPT !.armed = ev]
  BY <1>1, <1>2, <1>5 DEF Arm, OnlySocket
<1>7. /\ t.armed = ev /\ t.waiting = s.waiting /\ t.inbox = s.inbox /\ t.outbox = out
  BY <1>1, <1>6 DEF SocketRecord
<1>8. PICK p : p = Pieces(r, n)
  OBVIOUS
<1>9. /\ p \in Seq({"more", "last"}) /\ out = s.outbox \o p
      /\ r.stream # "off" \/ r.entered => \A i \in 1..Len(p) : p[i] = "more"
  BY <1>8, PiecesElements DEF out
<1>10. ASSUME Streams(s), r.stream # "off" \/ r.entered PROVE Streams(t)
  <2>1. PICK k, m \in Nat : k = Len(s.outbox) /\ m = Len(p)
    BY <1>1, <1>9, LenProperties
  <2>2. /\ Len(out) = k + m
        /\ \A i \in 1..(k + m) : out[i] = IF i <= k THEN s.outbox[i] ELSE p[i - k]
    BY <1>1, <1>9, <2>1, ConcatProperties
  <2>3. /\ \A i \in 1..k : s.outbox[i] = "more"
        /\ \A i \in 1..m : p[i] = "more"
    BY <1>9, <1>10, <2>1 DEF Streams
  <2>4. \A i \in 1..(k + m) : i \in 1..k \/ (~(i <= k) /\ i - k \in 1..m)
    BY <2>1
  <2>5. ASSUME NEW i \in 1..(k + m) PROVE out[i] = "more"
    <3>1. CASE i <= k
      <4>1. i \in 1..k
        BY <2>1, <3>1
      <4>2. QED BY <2>2, <2>3, <3>1, <4>1, ZenonT(60)
    <3>2. CASE ~(i <= k)
      <4>1. i - k \in 1..m
        BY <2>4, <3>2
      <4>2. QED BY <2>2, <2>3, <3>2, <4>1, ZenonT(60)
    <3>3. QED BY <3>1, <3>2
  <2>6. QED BY <1>7, <1>10, <2>2, <2>5 DEF Streams
<1>11. s.outbox = <<>> => t.outbox = Pieces(r, n)
  BY <1>7, <1>8, <1>9, ConcatEmptySeq
<1>12. QED BY <1>3, <1>7, <1>10, <1>11 DEF out

\* A keep-alive connection begins its next request with an empty buffer when the
\* answered request was all that had been read.
LEMMA NextRequestIsNew ==
  ASSUME NEW r \in ConnRecord, r.parsed = Len(r.buf)
  PROVE  /\ ~r.entered => Unanswered(NextRequest(r))
         /\ NextRequest(r).buf = <<>> /\ NextRequest(r).busy = r.busy
         /\ ~HasBufferedRequest(NextRequest(r))
         /\ r.entered => NextRequest(r).entered /\ NextRequest(r).parsed = 0
<1>1. Len(r.buf) \in Nat
  BY LenProperties DEF ConnRecord
<1>2. PICK rest : rest = SubSeq(r.buf, r.parsed + 1, Len(r.buf))
  OBVIOUS
<1>3. rest = <<>>
  BY <1>1, <1>2, SubSeqEmpty
<1>4. NextRequest(r) = [Cleared(r) EXCEPT !.buf = rest]
  BY <1>2 DEF NextRequest
<1>5. /\ NextRequest(r).unsent = 0 /\ NextRequest(r).parsed = 0 /\ NextRequest(r).stream = "off"
      /\ NextRequest(r).busy = r.busy /\ NextRequest(r).buf = rest
      /\ NextRequest(r).entered = r.entered
  BY <1>4 DEF Cleared, ConnRecord
<1>6. QED BY <1>3, <1>5 DEF Unanswered, HasBufferedRequest

\* write(): an ordinary response fits the empty send buffer and is complete; a
\* chunk of a stream goes out in as many steps as it needs.
LEMMA WriteStep ==
  ASSUME Polite, Inv, Flows, Users, NEW fd \in Registered,
         Sending(fd, conn[connections[fd]]), HandleWrite(fd), Elsewhere(fd),
         UNCHANGED <<worker, completed, finishing>>, ~conn[connections[fd]].entered
  PROVE  Flows' /\ Users' /\ \A g \in pendingWrites \ {fd} : g \in pendingWrites'
<1> DEFINE c == connections[fd]
           r == conn[c]
           s == socket[fd]
<1>1. /\ fd \in Fds /\ c \in Conns /\ r \in ConnRecord /\ Len(r.buf) <= ReadBufferSize
      /\ s \in SocketRecord /\ s.open /\ conn \in [Conns -> ConnRecord]
  BY RegisteredType DEF Inv, TypeOK
<1>2. ~r.busy /\ r.unsent > 0 /\ r.unsent \in Nat /\ r.stream # "done" /\ fd \in pendingWrites
  BY <1>1 DEF Sending, ConnRecord
<1>3. Dialogue(r, s) /\ c \notin BusyConns
  BY <1>2, IdleConnection
<1>4. /\ r.parsed = Len(r.buf)
      /\ \/ r.stream = "off" /\ Answered(r) /\ Arrived(r, s)
         \/ r.stream = "on" /\ Streams(s)
  BY <1>1, <1>2, <1>3 DEF Dialogue, Unanswered, Answered, ConnRecord
<1>5. RoomToSend(fd) \in Int /\ (s.outbox = <<>> => RoomToSend(fd) = SendBuffer)
      /\ SendBuffer \in Nat
  <2>1. s.outbox \in Seq({"more", "last"})
    BY <1>1 DEF SocketRecord
  <2>2. Len(s.outbox) \in Nat /\ SendBuffer \in Nat /\ (s.outbox = <<>> => Len(s.outbox) = 0)
    BY <2>1, LenProperties, EmptySeq, ReactorAssumption
  <2>3. QED BY <2>2 DEF RoomToSend
<1>6. PoolInv
  BY InvParts
<1>7. ASSUME NEW n \in Nat
      PROVE  /\ OnlyObject([conn EXCEPT ![c].unsent = n], c)
             /\ [conn EXCEPT ![c].unsent = n][c] = [r EXCEPT !.unsent = n]
             /\ [r EXCEPT !.unsent = n].unsent = n /\ ~[r EXCEPT !.unsent = n].busy
             /\ [r EXCEPT !.unsent = n].stream = r.stream
             /\ ~[r EXCEPT !.unsent = n].entered
             /\ [r EXCEPT !.unsent = n].buf = r.buf /\ [r EXCEPT !.unsent = n].parsed = r.parsed
  <2>1. /\ [r EXCEPT !.unsent = n] \in ConnRecord
        /\ [r EXCEPT !.unsent = n].buf = r.buf /\ [r EXCEPT !.unsent = n].fd = r.fd
        /\ [r EXCEPT !.unsent = n].unsent = n /\ ~[r EXCEPT !.unsent = n].busy
        /\ [r EXCEPT !.unsent = n].stream = r.stream
        /\ [r EXCEPT !.unsent = n].parsed = r.parsed /\ ~[r EXCEPT !.unsent = n].entered
    BY <1>1, <1>2 DEF ConnRecord
  <2>2. QED BY <1>1, <1>6, <2>1, HandlerObject
<1>8. ASSUME NEW n \in Int
      PROVE  OnlySocket(Sent(fd, r, n), fd)
  BY <1>1, <1>6, SentType
<1>9. CASE WriteNothing(fd, c)
  BY <1>2, <1>9 DEF WriteNothing
<1>10. CASE WriteFails(fd, c)
  <2>1. Close(fd)
    BY <1>10 DEF WriteFails, Close
  <2>2. QED BY <1>2, <2>1, CloseStep
<1>11. CASE WriteBlocks(fd, c)
  <2> DEFINE room == RoomToSend(fd)
             left == r.unsent - room
             cs == [conn EXCEPT ![c].unsent = left]
             q == [r EXCEPT !.unsent = left]
             sk == Arm(Sent(fd, r, room), fd, "out")
             t == sk[fd]
  <2>1. left \in Nat /\ left > 0
    BY <1>2, <1>5, <1>11 DEF WriteBlocks
  <2>2. r.stream = "on" /\ Streams(s)
    BY <1>2, <1>4, <1>5, <1>11 DEF WriteBlocks, Answered, Arrived, Polite
  <2>3. KeepOpen(fd, cs, sk, pendingWrites \cup {fd})
    BY <1>11, <2>2 DEF WriteBlocks, HasBufferedRequest
  <2>4. OnlySocket(sk, fd) /\ t.armed = "out" /\ Streams(t)
    BY <1>1, <1>5, <2>2, SentSocket
  <2> HIDE DEF left
  <2>5. /\ OnlyObject(cs, c) /\ cs[c] = q /\ q.unsent > 0 /\ ~q.busy /\ q.stream = "on"
        /\ q.parsed = Len(q.buf) /\ ~q.entered
    BY <1>4, <1>7, <2>1, <2>2
  <2> HIDE DEF cs, sk, q
  <2>6. Dialogue(q, t)
    BY <2>4, <2>5 DEF Dialogue
  <2>7. PICK pending \in {pendingWrites, pendingWrites \cup {fd}, pendingWrites \ {fd}} :
          pending = pendingWrites \cup {fd}
    OBVIOUS
  <2>8. /\ Flows' /\ BusyConns' = BusyConns \ {c} /\ UNCHANGED jobs
        /\ \A d \in Conns \ {c} : conn'[d] = conn[d]
        /\ pendingWrites' = pending
    <3>1. Resting(fd, q, t, pending)
      BY <2>4, <2>5, <2>6, <2>7 DEF Resting
    <3> HIDE DEF t
    <3>2. QED BY <2>3, <2>4, <2>5, <2>7, <3>1, KeepOpenExit DEF t
  <2>9. QED BY <1>1, <1>3, <2>7, <2>8, UsersStay
<1>12. CASE WriteCompletes(fd, c)
  <2> DEFINE after == NextRequest(r)
             cs == [conn EXCEPT ![c] = after]
             none == [conn EXCEPT ![c].unsent = 0]
             sk == Sent(fd, r, r.unsent)
             sa == Arm(sk, fd, "in")
             t == sa[fd]
             left == pendingWrites \ {fd}
  <2>1. Answered(r) /\ Arrived(r, s) /\ r.stream = "off"
    BY <1>4, <1>12 DEF WriteCompletes
  <2>2. /\ Unanswered(after) /\ after.buf = <<>> /\ ~after.busy /\ ~HasBufferedRequest(after)
        /\ after \in ConnRecord /\ after.fd = r.fd /\ Len(after.buf) <= ReadBufferSize
    BY <1>1, <1>2, <2>1, NextRequestIsNew, NextRequestType DEF Answered
  <2>3. \/ CloseConnection(fd, none, sk) /\ UNCHANGED jobs
        \/ KeepOpen(fd, cs, sa, left)
    BY <1>12, <2>2 DEF WriteCompletes
  <2>4. /\ OnlySocket(sa, fd) /\ t.armed = "in" /\ t.waiting = s.waiting /\ t.inbox = s.inbox
        /\ t.outbox = Pieces(r, r.unsent)
    <3>1. r.unsent \in Int /\ s.outbox = <<>>
      BY <1>2, <2>1 DEF Arrived
    <3>2. PICK n \in Int : n = r.unsent
      BY <3>1
    <3>3. sa = Arm(Sent(fd, r, n), fd, "in")
      BY <3>2
    <3>4. PICK u : u = t
      OBVIOUS
    <3> HIDE DEF sa
    <3>5. /\ OnlySocket(sa, fd) /\ u.armed = "in" /\ u.waiting = s.waiting /\ u.inbox = s.inbox
          /\ u.outbox = Pieces(r, n)
      BY <1>1, <3>1, <3>3, <3>4, SentSocket
    <3>6. QED BY <3>2, <3>4, <3>5
  <2>5. OnlySocket(sk, fd) /\ OnlyObject(none, c) /\ ~none[c].busy
    <3>1. PICK n \in Nat : n = 0
      OBVIOUS
    <3>2. none = [conn EXCEPT ![c].unsent = n]
      BY <3>1
    <3>3. OnlyObject(none, c) /\ ~none[c].busy
      <4> HIDE DEF none
      <4>1. QED BY <1>7, <3>2
    <3>4. QED BY <1>2, <1>8, <3>3
  <2> HIDE DEF after, none, sk, sa
  <2>6. OnlyObject(cs, c) /\ cs[c] = after
    BY <1>1, <1>6, <2>2, HandlerObject
  <2> HIDE DEF cs
  <2>7. CASE CloseConnection(fd, none, sk) /\ UNCHANGED jobs
    <3>1. /\ Flows' /\ BusyConns' = BusyConns \ {c} /\ pendingWrites' = left
          /\ \A d \in Conns \ {c} : conn'[d] = conn[d]
      BY <2>5, <2>7, CloseExit
    <3>2. QED BY <1>1, <1>3, <2>7, <3>1, UsersStay
  <2>8. CASE KeepOpen(fd, cs, sa, left)
    <3>1. Ending(t.outbox)
      BY <1>2, <2>1, <2>4, PiecesElements
    <3>2. Dialogue(after, t)
      BY <2>1, <2>2, <2>4, <3>1 DEF Dialogue, Replied, Arrived
    <3>3. Parts(after.buf)
      BY <2>2, EmptySeq DEF Parts
    <3>4. PICK pending \in {pendingWrites, pendingWrites \cup {fd}, pendingWrites \ {fd}} :
            pending = left
      OBVIOUS
    <3>5. fd \notin pending /\ KeepOpen(fd, cs, sa, pending)
      BY <2>8, <3>4
    <3>6. after.unsent = 0 /\ after.stream = "off"
      BY <2>2 DEF Unanswered
    <3> HIDE DEF left
    <3>7. /\ Flows' /\ BusyConns' = BusyConns \ {c} /\ UNCHANGED jobs
          /\ \A d \in Conns \ {c} : conn'[d] = conn[d]
          /\ pendingWrites' = pending
      <4>1. Resting(fd, after, t, pending)
        BY <2>2, <2>4, <3>2, <3>3, <3>5, <3>6 DEF Resting, Unanswered
      <4>2. /\ OnlySocket(sa, fd) /\ KeepOpen(fd, cs, sa, pending)
            /\ pending \in {pendingWrites, pendingWrites \cup {fd}, pendingWrites \ {fd}}
        BY <2>4, <3>4, <3>5
      <4> HIDE DEF t
      <4>3. QED BY <2>6, <4>1, <4>2, KeepOpenExit DEF t
    <3>8. QED BY <1>1, <1>3, <3>4, <3>7, UsersStay DEF left
  <2>9. QED BY <2>3, <2>7, <2>8
<1>13. CASE WriteChunk(fd, c)
  <2> DEFINE cs == [conn EXCEPT ![c].unsent = 0]
             q == [r EXCEPT !.unsent = 0]
             done == [cs EXCEPT ![c].stream = "done"]
             sk == Sent(fd, r, r.unsent)
             sa == Arm(sk, fd, "in")
             t == sa[fd]
             left == pendingWrites \ {fd}
             last == [q EXCEPT !.stream = "done"]
  <2>1. r.stream = "on" /\ Streams(s)
    BY <1>4, <1>13 DEF WriteChunk
  <2>2. \/ CloseConnection(fd, done, sk) /\ UNCHANGED jobs
        \/ KeepOpen(fd, cs, sa, left)
    BY <1>13 DEF WriteChunk
  <2>3. OnlySocket(sa, fd) /\ t.armed = "in" /\ Streams(t)
    BY <1>1, <1>2, <2>1, SentSocket
  <2>4. /\ OnlySocket(sk, fd) /\ OnlyObject(cs, c) /\ cs[c] = q /\ q.unsent = 0 /\ ~q.busy
        /\ q.stream = "on" /\ q.parsed = Len(q.buf) /\ ~q.entered
    <3>1. q.buf = r.buf /\ q.parsed = r.parsed
      BY <1>1 DEF ConnRecord
    <3>2. q.parsed = Len(q.buf)
      BY <1>4, <3>1
    <3> HIDE DEF q
    <3>3. /\ OnlySocket(sk, fd) /\ OnlyObject(cs, c) /\ cs[c] = q /\ q.unsent = 0 /\ ~q.busy
          /\ q.stream = "on" /\ ~q.entered
      BY <1>2, <1>7, <1>8, <2>1 DEF q
    <3>4. QED BY <3>2, <3>3
  <2> HIDE DEF cs, sk, sa, q
  <2>5. CASE CloseConnection(fd, done, sk) /\ UNCHANGED jobs
    <3>1. q \in ConnRecord /\ Len(q.buf) <= ReadBufferSize /\ q.fd = r.fd
      BY <1>1, <2>4 DEF OnlyObject
    <3>2. /\ last \in ConnRecord /\ last.buf = q.buf /\ last.fd = q.fd /\ last.busy = q.busy
      BY <3>1 DEF ConnRecord
    <3>3. done = [cs EXCEPT ![c] = last]
      BY <2>4
    <3> HIDE DEF last, done
    <3>4. OnlyObject(done, c) /\ ~done[c].busy
      BY <1>1, <2>4, <3>1, <3>2, <3>3 DEF OnlyObject
    <3>5. /\ Flows' /\ BusyConns' = BusyConns \ {c} /\ pendingWrites' = left
          /\ \A d \in Conns \ {c} : conn'[d] = conn[d]
      BY <2>4, <2>5, <3>4, CloseExit
    <3>6. QED BY <1>1, <1>3, <2>5, <3>5, UsersStay
  <2>6. CASE KeepOpen(fd, cs, sa, left)
    <3>1. Dialogue(q, t)
      BY <2>3, <2>4 DEF Dialogue
    <3>2. PICK pending \in {pendingWrites, pendingWrites \cup {fd}, pendingWrites \ {fd}} :
            pending = left
      OBVIOUS
    <3>3. fd \notin pending /\ KeepOpen(fd, cs, sa, pending)
      BY <2>6, <3>2
    <3> HIDE DEF left
    <3>4. /\ Flows' /\ BusyConns' = BusyConns \ {c} /\ UNCHANGED jobs
          /\ \A d \in Conns \ {c} : conn'[d] = conn[d]
          /\ pendingWrites' = pending
      <4>1. Resting(fd, q, t, pending)
        BY <2>3, <2>4, <3>1, <3>3 DEF Resting
      <4>2. /\ OnlySocket(sa, fd) /\ KeepOpen(fd, cs, sa, pending)
            /\ OnlyObject(cs, c) /\ cs[c] = q
            /\ pending \in {pendingWrites, pendingWrites \cup {fd}, pendingWrites \ {fd}}
        BY <2>3, <2>4, <3>2, <3>3
      <4> HIDE DEF t
      <4>3. QED BY <4>1, <4>2, KeepOpenExit DEF t
    <3>5. QED BY <1>1, <1>3, <3>2, <3>4, UsersStay DEF left
  <2>7. QED BY <2>2, <2>5, <2>6
<1>14. QED BY <1>9, <1>10, <1>11, <1>12, <1>13 DEF HandleWrite

-----------------------------------------------------------------------------
(* The handlers of a stream that has been entered: it is not dispatched.   *)

LEMMA EnteredUsers ==
  ASSUME Inv, Users, NEW c \in Conns, UNCHANGED <<jobs, worker, completed, finishing>>,
         BusyConns' = BusyConns, \A d \in Conns \ {c} : conn'[d] = conn[d],
         ~Unanswered(conn[c]), conn'[c].entered,
         conn'[c].fd = conn[c].fd, conn'[c].gen = conn[c].gen
  PROVE  Users'
<1>1. BusyConns \subseteq Conns
  BY DEF Inv, TypeOK, BusyConns, InMap, Registered
<1>2. \A d \in BusyConns : Same(conn[d], conn'[d])
  BY <1>1 DEF Same
<1>3. QED BY <1>2, UsersFrame

\* It is closed, or marked for its worker's completion.
LEMMA EnteredClose ==
  ASSUME Inv, Flows, Users, NEW fd \in Registered, NEW cs, NEW sk, Elsewhere(fd),
         OnlyObject(cs, connections[fd]), OnlySocket(sk, fd), conn[connections[fd]].entered,
         NEW q \in ConnRecord, q = cs[connections[fd]], Silent(q, sk[fd]),
         q.busy = conn[connections[fd]].busy, q.gen = conn[connections[fd]].gen,
         CloseConnection(fd, cs, sk), UNCHANGED <<jobs, worker, completed, finishing>>
  PROVE  Flows' /\ Users' /\ \A g \in pendingWrites \ {fd} : g \in pendingWrites'
<1> DEFINE c == connections[fd]
<1>1. c \in Conns /\ fd \in Fds
  BY RegisteredType
<1>2. CASE ~q.busy
  <2>1. /\ Flows' /\ BusyConns' = BusyConns \ {c} /\ pendingWrites' = pendingWrites \ {fd}
        /\ \A d \in Conns \ {c} : conn'[d] = conn[d]
    BY <1>2, CloseExit
  <2>2. c \notin BusyConns
    BY <1>2 DEF BusyConns
  <2>3. QED BY <1>1, <2>1, <2>2, UsersStay
<1>3. CASE q.busy
  <2> DEFINE m == [q EXCEPT !.timedOut = TRUE]
  <2>1. /\ conn' = [cs EXCEPT ![c] = m] /\ socket' = sk
        /\ UNCHANGED <<connections, pendingWrites>>
    BY <1>3 DEF CloseConnection, MustDefer
  <2>2. /\ m \in ConnRecord /\ m.fd = q.fd /\ m.gen = q.gen /\ m.busy /\ m.buf = q.buf
        /\ m.parsed = q.parsed /\ m.stream = q.stream /\ m.entered = q.entered
    BY <1>3 DEF ConnRecord
  <2> HIDE DEF m
  <2>3. conn'[c] = m /\ \A d \in Conns \ {c} : conn'[d] = cs[d]
    BY <1>1, <2>1 DEF OnlyObject
  <2>4. OnlyObject(conn', c)
    <3>1. \A d \in Conns : Len(conn'[d].buf) <= ReadBufferSize
      <4>1. \A d \in Conns : Len(cs[d].buf) <= ReadBufferSize
        BY DEF OnlyObject
      <4>2. Len(m.buf) <= ReadBufferSize
        BY <1>1, <2>2, <4>1
      <4>3. ASSUME NEW d \in Conns PROVE Len(conn'[d].buf) <= ReadBufferSize
        <5>1. CASE d = c
          BY <2>3, <4>2, <5>1
        <5>2. CASE d # c
          BY <2>3, <4>1, <5>2
        <5>3. QED BY <5>1, <5>2
      <4>4. QED BY <4>3
    <3>2. conn' \in [Conns -> ConnRecord]
      BY <2>1, <2>2 DEF OnlyObject
    <3>3. QED BY <2>2, <2>3, <3>1, <3>2 DEF OnlyObject
  <2>5. OnlySocket(socket', fd)
    BY <2>1
  <2>6. Silent(m, socket'[fd])
    BY <2>1, <2>2 DEF Silent
  <2>7. /\ Flows' /\ BusyConns' = BusyConns /\ \A d \in Conns \ {c} : conn'[d] = conn[d]
    BY <1>3, <2>1, <2>2, <2>3, <2>4, <2>5, <2>6, DisturbedExit
  <2>8. m.entered /\ m.fd = conn[c].fd /\ m.gen = conn[c].gen /\ ~Unanswered(conn[c])
    BY <2>2 DEF Silent, OnlyObject, Unanswered
  <2>9. Users'
    BY <1>1, <2>3, <2>7, <2>8, EnteredUsers
  <2>10. QED BY <2>1, <2>7, <2>9
<1>4. QED BY <1>2, <1>3

\* It stays, armed; or a stream is entered now.
LEMMA EnteredKeep ==
  ASSUME Inv, Flows, Users, NEW fd \in Registered, NEW cs, NEW sk, Elsewhere(fd),
         OnlyObject(cs, connections[fd]), OnlySocket(sk, fd), ~Unanswered(conn[connections[fd]]),
         NEW q \in ConnRecord, q = cs[connections[fd]], Silent(q, sk[fd]),
         q.busy = conn[connections[fd]].busy, q.gen = conn[connections[fd]].gen,
         NEW pending, pending \in {pendingWrites, pendingWrites \cup {fd}, pendingWrites \ {fd}},
         KeepOpen(fd, cs, sk, pending), sk[fd].armed # "off",
         UNCHANGED <<worker, completed, finishing>>
  PROVE  Flows' /\ Users' /\ \A g \in pendingWrites \ {fd} : g \in pendingWrites'
<1> DEFINE c == connections[fd]
<1>1. c \in Conns /\ fd \in Fds
  BY RegisteredType
<1>2. /\ conn' = cs /\ socket' = sk /\ pendingWrites' = pending
      /\ UNCHANGED <<connections, jobs>>
  BY DEF KeepOpen
<1>3. /\ Flows' /\ BusyConns' = BusyConns /\ \A d \in Conns \ {c} : conn'[d] = conn[d]
  BY <1>2, DisturbedExit
<1>4. q.entered /\ q.fd = conn[c].fd
  BY DEF Silent, OnlyObject
<1>5. Users'
  BY <1>1, <1>2, <1>3, <1>4, EnteredUsers
<1>6. QED BY <1>2, <1>3, <1>5

\* handle_read: its client has only left.
LEMMA EnteredRead ==
  ASSUME Inv, Flows, Users, NEW fd \in Registered, Elsewhere(fd), HandleRead(fd),
         Disturbed(fd, conn[connections[fd]]), socket[fd].peer = "fin",
         UNCHANGED <<worker, completed, finishing>>
  PROVE  Flows' /\ Users'
<1> DEFINE c == connections[fd]
           r == conn[c]
           s == socket[fd]
           room == RoomToRead(r)
           got == Received(r, s)
           cs == [conn EXCEPT ![c].buf = got.buf]
           sk == [socket EXCEPT ![fd].inbox = got.rest]
<1>1. /\ fd \in Fds /\ c \in Conns /\ r \in ConnRecord /\ s \in SocketRecord
      /\ conn \in [Conns -> ConnRecord] /\ socket \in [Fds -> SocketRecord]
  BY RegisteredType DEF Inv, TypeOK
<1>2. Silent(r, s) /\ s.inbox = <<>> /\ r.entered
  BY DEF Disturbed, Silent, Streams
<1>3. Len(s.inbox) = 0 /\ Len(r.buf) \in Nat /\ r.buf \in Seq(Units)
  BY <1>1, <1>2, LenProperties, EmptySeq DEF ConnRecord
<1>4. room \in Int
  <2>1. ReadBufferSize \in Nat
    BY ReactorAssumption
  <2>2. QED BY <1>3, <2>1 DEF RoomToRead
<1> HIDE DEF room
<1>5. ~got.ok
  <2>1. SUFFICES ASSUME got.ok PROVE FALSE
    OBVIOUS
  <2>2. room > 0 /\ ((IF Len(s.inbox) < room THEN Len(s.inbox) ELSE room) = room \/ s.peer = "up")
    BY <2>1 DEF Received, room
  <2>3. QED BY <1>3, <1>4, <2>2
<1>6. CloseConnection(fd, cs, sk) /\ UNCHANGED jobs
  BY <1>5 DEF HandleRead
<1>7. got.buf = r.buf /\ got.rest = s.inbox
  <2>1. PICK n \in Int : n <= 0 /\ n = (IF 0 < room THEN 0 ELSE room)
    BY <1>4
  <2>2. got.buf = r.buf \o SubSeq(s.inbox, 1, n) /\ got.rest = SubSeq(s.inbox, n + 1, 0)
    BY <1>3, <2>1 DEF Received, room
  <2>3. SubSeq(s.inbox, 1, n) = <<>> /\ SubSeq(s.inbox, n + 1, 0) = <<>>
    <3>1. n = 0 \/ room <= 0
      BY <1>4, <2>1
    <3>2. room >= 0
      BY <1>1, <1>3, ReactorAssumption DEF room, RoomToRead, Inv, TypeOK
    <3>3. n = 0
      BY <1>4, <2>1, <3>1, <3>2
    <3>4. QED BY <2>1, <3>3, SubSeqEmpty
  <2>4. QED BY <1>2, <1>3, <2>2, <2>3, ConcatEmptySeq
<1> HIDE DEF got
<1>8. cs = conn /\ sk = socket
  BY <1>1, <1>7 DEF ConnRecord, SocketRecord
<1>9. OnlyObject(conn, c) /\ OnlySocket(socket, fd)
  BY InvParts, Untouched
<1>10. CloseConnection(fd, conn, socket)
  BY <1>6, <1>8
<1>11. QED BY <1>1, <1>2, <1>6, <1>9, <1>10, EnteredClose

\* write(): what there is goes out, and the connection stays armed or is closed.
LEMMA EnteredWrite ==
  ASSUME Inv, Flows, Users, NEW fd \in Registered, Elsewhere(fd), HandleWrite(fd),
         Disturbed(fd, conn[connections[fd]]),
         UNCHANGED <<worker, completed, finishing>>
  PROVE  Flows' /\ Users' /\ \A g \in pendingWrites \ {fd} : g \in pendingWrites'
<1> DEFINE c == connections[fd]
           r == conn[c]
           s == socket[fd]
           room == RoomToSend(fd)
           With(n, st) == [r EXCEPT !.unsent = n, !.stream = st]
<1>1. /\ fd \in Fds /\ c \in Conns /\ r \in ConnRecord /\ Len(r.buf) <= ReadBufferSize
      /\ s \in SocketRecord /\ s.open /\ conn \in [Conns -> ConnRecord]
      /\ socket \in [Fds -> SocketRecord] /\ PoolInv
  BY RegisteredType, InvParts DEF Inv, TypeOK
<1>2. /\ r.entered /\ Streams(s) /\ r.parsed = Len(r.buf) /\ (r.stream = "off" => r.buf = <<>>)
      /\ Silent(r, s) /\ ~Unanswered(r)
  BY DEF Disturbed, Silent, Unanswered
<1>3. room \in Int /\ r.unsent \in Nat
  <2>1. s.outbox \in Seq({"more", "last"}) /\ r.unsent \in Nat
    BY <1>1 DEF SocketRecord, ConnRecord
  <2>2. Len(s.outbox) \in Nat /\ SendBuffer \in Nat
    BY <2>1, LenProperties, ReactorAssumption
  <2>3. QED BY <2>1, <2>2 DEF RoomToSend
<1>4. ASSUME NEW n \in Int
      PROVE  /\ OnlySocket(Sent(fd, r, n), fd) /\ Streams(Sent(fd, r, n)[fd])
             /\ \A ev \in {"in", "out"} :
                  LET sk == Arm(Sent(fd, r, n), fd, ev) IN
                  OnlySocket(sk, fd) /\ Streams(sk[fd]) /\ sk[fd].armed = ev
  <2>1. OnlySocket(Sent(fd, r, n), fd) /\ Streams(Sent(fd, r, n)[fd])
    <3>1. s.armed \in {"off", "in", "out"}
      BY <1>1 DEF SocketRecord
    <3>2. QED BY <1>1, <1>2, <3>1, SentSocket
  <2>2. ASSUME NEW ev \in {"in", "out"}, NEW sk, sk = Arm(Sent(fd, r, n), fd, ev)
        PROVE  OnlySocket(sk, fd) /\ Streams(sk[fd]) /\ sk[fd].armed = ev
    BY <1>1, <1>2, <2>2, SentSocket
  <2>3. QED BY <2>1, <2>2
<1>5. ASSUME NEW n \in Nat, NEW st \in {r.stream, "done"}, NEW q, q = With(n, st)
      PROVE  /\ q \in ConnRecord /\ q.busy = r.busy /\ q.gen = r.gen /\ q.unsent = n
             /\ q.entered /\ q.parsed = Len(q.buf) /\ (q.stream = "off" => q.buf = <<>>)
             /\ OnlyObject([conn EXCEPT ![c] = q], c) /\ [conn EXCEPT ![c] = q][c] = q
  <2>1. /\ q \in ConnRecord /\ q.busy = r.busy /\ q.gen = r.gen /\ q.fd = r.fd /\ q.unsent = n
        /\ q.entered = r.entered /\ q.parsed = r.parsed /\ q.buf = r.buf /\ q.stream = st
    BY <1>1, <1>5 DEF ConnRecord
  <2>2. QED BY <1>1, <1>2, <2>1, HandlerObject
<1> HIDE DEF With
<1>6. CASE WriteNothing(fd, c)
  <2> DEFINE q == Cleared(r)
             sk == Arm(socket, fd, "in")
             left == pendingWrites \ {fd}
  <2>1. KeepOpen(fd, [conn EXCEPT ![c] = q], sk, left)
    BY <1>6 DEF WriteNothing
  <2>2. /\ q \in ConnRecord /\ q.fd = r.fd /\ Len(q.buf) <= ReadBufferSize
        /\ q.busy = r.busy /\ q.gen = r.gen /\ q.entered /\ q.parsed = 0 /\ q.buf = <<>>
    BY <1>1, <1>2, NextRequestType DEF Cleared, ConnRecord
  <2>3. OnlySocket(sk, fd) /\ Streams(sk[fd]) /\ sk[fd].armed = "in"
    <3>1. OnlySocket(socket, fd)
      BY <1>1, Untouched
    <3>2. OnlySocket(sk, fd)
      BY <1>1, <3>1, ArmType
    <3>3. sk[fd] = [s EXCEPT !.armed = "in"]
      BY <1>1 DEF Arm
    <3>4. /\ sk[fd].armed = "in" /\ sk[fd].waiting = s.waiting
          /\ sk[fd].inbox = s.inbox /\ sk[fd].outbox = s.outbox
      BY <1>1, <3>3 DEF SocketRecord
    <3> HIDE DEF sk
    <3>5. QED BY <1>2, <3>2, <3>4 DEF Streams
  <2> HIDE DEF q, sk
  <2>4. OnlyObject([conn EXCEPT ![c] = q], c) /\ [conn EXCEPT ![c] = q][c] = q
    BY <1>1, <2>2, HandlerObject
  <2>5. Silent(q, sk[fd])
    BY <2>2, <2>3, EmptySeq DEF Silent
  <2>6. QED BY <1>2, <2>1, <2>2, <2>3, <2>4, <2>5, EnteredKeep
<1>7. CASE WriteBlocks(fd, c)
  <2> DEFINE n == r.unsent - room
             q == With(n, r.stream)
             cs == [conn EXCEPT ![c].unsent = n]
             sk == Arm(Sent(fd, r, room), fd, "out")
             more == pendingWrites \cup {fd}
  <2>1. n \in Nat /\ KeepOpen(fd, cs, sk, more)
    <3>1. r.stream # "done" /\ r.unsent > room
      BY <1>7 DEF WriteBlocks
    <3>2. ~HasBufferedRequest(r)
      BY <1>1, <1>2, <3>1 DEF HasBufferedRequest, ConnRecord
    <3>3. KeepOpen(fd, cs, sk, more)
      BY <1>7, <3>2 DEF WriteBlocks
    <3>4. QED BY <1>3, <3>1, <3>3
  <2>2. cs = [conn EXCEPT ![c] = q]
    BY <1>1 DEF ConnRecord, With
  <2>3. OnlySocket(sk, fd) /\ Streams(sk[fd]) /\ sk[fd].armed = "out"
    BY <1>3, <1>4
  <2> HIDE DEF n, sk, cs, room
  <2>4. /\ q \in ConnRecord /\ q.busy = r.busy /\ q.gen = r.gen
        /\ q.entered /\ q.parsed = Len(q.buf) /\ (q.stream = "off" => q.buf = <<>>)
        /\ OnlyObject([conn EXCEPT ![c] = q], c) /\ [conn EXCEPT ![c] = q][c] = q
    BY <1>5, <2>1
  <2> HIDE DEF q
  <2>5. Silent(q, sk[fd])
    BY <2>3, <2>4 DEF Silent
  <2>6. QED BY <1>2, <2>1, <2>2, <2>3, <2>4, <2>5, EnteredKeep
<1>8. CASE WriteFails(fd, c)
  <2>1. CloseConnection(fd, conn, socket) /\ UNCHANGED jobs
    BY <1>8 DEF WriteFails
  <2>2. OnlyObject(conn, c) /\ OnlySocket(socket, fd)
    BY <1>1, Untouched
  <2>3. QED BY <1>1, <1>2, <2>1, <2>2, EnteredClose
<1>9. ASSUME NEW st \in {r.stream, "done"},
             CloseConnection(fd, [conn EXCEPT ![c].unsent = 0, ![c].stream = st],
                             Sent(fd, r, r.unsent)), UNCHANGED jobs
      PROVE  Flows' /\ Users' /\ \A g \in pendingWrites \ {fd} : g \in pendingWrites'
  <2> DEFINE q == With(0, st)
             sk == Sent(fd, r, r.unsent)
  <2>1. CloseConnection(fd, [conn EXCEPT ![c] = q], sk)
    BY <1>9 DEF With
  <2>2. OnlySocket(sk, fd) /\ Streams(sk[fd])
    BY <1>3, <1>4
  <2>3. /\ q \in ConnRecord /\ q.busy = r.busy /\ q.gen = r.gen
        /\ q.entered /\ q.parsed = Len(q.buf) /\ (q.stream = "off" => q.buf = <<>>)
        /\ OnlyObject([conn EXCEPT ![c] = q], c) /\ [conn EXCEPT ![c] = q][c] = q
    BY <1>5
  <2> HIDE DEF q, sk
  <2>4. Silent(q, sk[fd])
    BY <2>2, <2>3 DEF Silent
  <2>5. QED BY <1>2, <1>9, <2>1, <2>2, <2>3, <2>4, EnteredClose
<1>10. CASE WriteCompletes(fd, c)
  <2> DEFINE after == NextRequest(r)
             cs == [conn EXCEPT ![c] = after]
             sk == Sent(fd, r, r.unsent)
             sa == Arm(sk, fd, "in")
             left == pendingWrites \ {fd}
  <2>1. /\ after \in ConnRecord /\ after.fd = r.fd /\ Len(after.buf) <= ReadBufferSize
        /\ after.buf = <<>> /\ after.busy = r.busy /\ after.parsed = 0 /\ after.entered
        /\ ~HasBufferedRequest(after)
    BY <1>1, <1>2, NextRequestType, NextRequestIsNew
  <2>2. after.gen = r.gen
    BY <1>1 DEF NextRequest, Cleared, ConnRecord
  <2>3. \/ CloseConnection(fd, [conn EXCEPT ![c].unsent = 0], sk) /\ UNCHANGED jobs
        \/ KeepOpen(fd, cs, sa, left)
    BY <1>10, <2>1 DEF WriteCompletes
  <2>4. CASE CloseConnection(fd, [conn EXCEPT ![c].unsent = 0], sk) /\ UNCHANGED jobs
    <3>1. [conn EXCEPT ![c].unsent = 0] = [conn EXCEPT ![c].unsent = 0, ![c].stream = r.stream]
      BY <1>1 DEF ConnRecord
    <3>2. QED BY <1>9, <2>4, <3>1
  <2>5. CASE KeepOpen(fd, cs, sa, left)
    <3>1. OnlySocket(sa, fd) /\ Streams(sa[fd]) /\ sa[fd].armed = "in"
      BY <1>3, <1>4
    <3> HIDE DEF after, sa
    <3>2. OnlyObject(cs, c) /\ cs[c] = after
      BY <1>1, <2>1, HandlerObject
    <3>3. Silent(after, sa[fd])
      BY <2>1, <3>1, EmptySeq DEF Silent
    <3>4. QED BY <1>2, <2>1, <2>2, <2>5, <3>1, <3>2, <3>3, EnteredKeep
  <2>6. QED BY <2>3, <2>4, <2>5
<1>11. CASE WriteChunk(fd, c)
  <2> DEFINE q == With(0, r.stream)
             cs == [conn EXCEPT ![c].unsent = 0]
             sk == Sent(fd, r, r.unsent)
             sa == Arm(sk, fd, "in")
             left == pendingWrites \ {fd}
  <2>1. \/ CloseConnection(fd, [cs EXCEPT ![c].stream = "done"], sk) /\ UNCHANGED jobs
        \/ KeepOpen(fd, cs, sa, left)
    BY <1>11 DEF WriteChunk
  <2>2. CASE CloseConnection(fd, [cs EXCEPT ![c].stream = "done"], sk) /\ UNCHANGED jobs
    BY <1>9, <2>2
  <2>3. CASE KeepOpen(fd, cs, sa, left)
    <3>1. OnlySocket(sa, fd) /\ Streams(sa[fd]) /\ sa[fd].armed = "in"
      BY <1>3, <1>4
    <3>2. cs = [conn EXCEPT ![c] = q]
      BY <1>1 DEF ConnRecord, With
    <3>3. /\ q \in ConnRecord /\ q.busy = r.busy /\ q.gen = r.gen
          /\ q.entered /\ q.parsed = Len(q.buf) /\ (q.stream = "off" => q.buf = <<>>)
          /\ OnlyObject([conn EXCEPT ![c] = q], c) /\ [conn EXCEPT ![c] = q][c] = q
      BY <1>5
    <3> HIDE DEF q, cs, sa
    <3>4. Silent(q, sa[fd])
      BY <3>1, <3>3 DEF Silent
    <3>5. QED BY <1>2, <2>3, <3>1, <3>2, <3>3, <3>4, EnteredKeep
  <2>4. QED BY <2>1, <2>2, <2>3
<1>12. QED BY <1>6, <1>7, <1>8, <1>10, <1>11 DEF HandleWrite

\* The parts of a socket that the dialogue with its client is about.
SameLine(s, t) == t.inbox = s.inbox /\ t.outbox = s.outbox /\ t.waiting = s.waiting

LEMMA SameDialogue ==
  ASSUME NEW r, NEW q, NEW s, NEW t, Same(r, q), ~q.entered, SameLine(s, t), Dialogue(r, s)
  PROVE  Dialogue(q, t)
BY DEF Same, SameLine, Dialogue, Unanswered, Answered, Composing, Asked, Arrived, Replied, Streams

LEMMA ArmedSocket ==
  ASSUME Inv, NEW fd \in Registered, NEW ev \in {"in", "out"}, NEW sk, sk = Arm(socket, fd, ev)
  PROVE  /\ OnlySocket(sk, fd) /\ sk[fd].armed = ev /\ sk[fd].peer = socket[fd].peer
         /\ SameLine(socket[fd], sk[fd])
<1>1. fd \in Fds /\ socket[fd] \in SocketRecord /\ socket \in [Fds -> SocketRecord]
  BY RegisteredType DEF Inv, TypeOK
<1>2. OnlySocket(sk, fd)
  BY <1>1, InvParts, Untouched, ArmType
<1>3. sk[fd] = [socket[fd] EXCEPT !.armed = ev]
  BY <1>1 DEF Arm
<1>4. QED BY <1>1, <1>2, <1>3 DEF SocketRecord, SameLine

\* A completion finds the connection of its object, which has waited for it.
LEMMA CompletionStep ==
  ASSUME Inv, Flows, Users, LoopOK, Finish
  PROVE  Flows' /\ Users'
<1>1. PICK e : e = Head(finishing)
  OBVIOUS
<1>2. /\ finishing # <<>> /\ finishing' = Tail(finishing)
      /\ IF IsCurrent(e) THEN ApplyCompletion(e)
         ELSE UNCHANGED <<freeConns, mapVars, conn, socket, jobs>>
      /\ UNCHANGED <<completed, phase, batch, adopting, todo, worker>>
      /\ phase = "notify" /\ adopting = {}
  BY <1>1 DEF Finish, queueVars
<1>3. finishing \in Seq(Completion)
  BY DEF Inv, TypeOK
<1>4. 1 \in 1..Len(finishing) /\ e = finishing[1] /\ e \in Completion
  BY <1>1, <1>2, <1>3, HeadTailProperties, EmptySeq
<1>5. e.conn \in BusyConns /\ Current(e) /\ e.result \in Results
  BY <1>4, UsersAreBusy DEF Users, Progress, Completion
<1>6. PICK fd \in Registered : connections[fd] = e.conn
  BY <1>5 DEF BusyConns, InMap
<1> DEFINE c == connections[fd]
           r == conn[c]
           s == socket[fd]
           q == [r EXCEPT !.busy = FALSE, !.timedOut = FALSE]
           idle == [conn EXCEPT ![c].busy = FALSE, ![c].timedOut = FALSE]
<1>7. /\ fd \in Fds /\ c \in Conns /\ r \in ConnRecord /\ r.fd = fd
      /\ Len(r.buf) <= ReadBufferSize /\ conn \in [Conns -> ConnRecord]
  BY RegisteredType DEF Inv, TypeOK
<1>8. e.fd = fd /\ IsCurrent(e) /\ r.busy /\ Judged(r, e.result)
  BY <1>5, <1>6, <1>7 DEF Current, IsCurrent, BusyConns
<1>11. q \in ConnRecord /\ q.fd = r.fd /\ q.buf = r.buf /\ ~q.busy /\ Same(r, q)
  BY <1>7 DEF ConnRecord, Same
<1>12. OnlyObject(idle, c) /\ idle[c] = q
  <2>1. idle = [conn EXCEPT ![c] = q]
    BY <1>7
  <2> HIDE DEF idle, q
  <2>2. QED BY <1>7, <1>11, <2>1, InvParts, HandlerObject
<1>13. ASSUME BusyConns' = BusyConns \ {c}, UNCHANGED jobs,
              \A d \in Conns \ {c} : conn'[d] = conn[d]
       PROVE  Users'
  <2>1. c = Head(finishing).conn /\ BusyConns \subseteq Conns
    BY <1>1, <1>6 DEF Inv, TypeOK, BusyConns, InMap, Registered
  <2> HIDE DEF c
  <2>2. QED BY <1>2, <1>13, <2>1, UsersFinish
<1>14. ApplyCompletion(e)
  BY <1>2, <1>8
<1> DEFINE in == Arm(socket, fd, "in")
           out == Arm(socket, fd, "out")
           more == pendingWrites \cup {fd}
<1>15. \/ CloseConnection(fd, idle, socket) /\ UNCHANGED jobs
       \/ e.result = "needRead" /\ KeepOpen(fd, idle, in, pendingWrites)
       \/ e.result = "readyWrite" /\ KeepOpen(fd, idle, out, more)
  BY <1>6, <1>8, <1>14 DEF ApplyCompletion
<1>16. /\ OnlySocket(in, fd) /\ in[fd].armed = "in" /\ SameLine(s, in[fd])
       /\ OnlySocket(out, fd) /\ out[fd].armed = "out" /\ SameLine(s, out[fd])
       /\ OnlySocket(socket, fd) /\ in[fd].peer = s.peer /\ out[fd].peer = s.peer
  BY ArmedSocket, InvParts, Untouched
<1> HIDE DEF idle, in, out, more, q
<1>22. Apart(fd) /\ Events(fd)' = Events(fd) /\ Settled'
  BY <1>2 DEF Apart, Events, Settled, LoopOK
<1>23. CASE r.entered
  <2>1. Disturbed(fd, r) /\ Silent(r, s)
    BY <1>7, <1>23 DEF Flows, Flow, Disturbed
  <2>2. CASE CloseConnection(fd, idle, socket) /\ UNCHANGED jobs
    <3>1. ~idle[c].busy
      BY <1>11, <1>12
    <3>2. /\ Flows' /\ BusyConns' = BusyConns \ {c}
          /\ \A d \in Conns \ {c} : conn'[d] = conn[d]
      BY <1>12, <1>16, <1>22, <2>2, <3>1, CloseApart
    <3>3. QED BY <1>13, <2>2, <3>2
  <2>3. ASSUME NEW ev \in {"in", "out"}, NEW sk, sk = Arm(socket, fd, ev),
               NEW pending \in {pendingWrites, pendingWrites \cup {fd}, pendingWrites \ {fd}},
               KeepOpen(fd, idle, sk, pending)
        PROVE  Flows' /\ Users'
    <3>1. /\ conn' = idle /\ socket' = sk /\ pendingWrites' = pending
          /\ UNCHANGED <<connections, jobs>>
      BY <2>3 DEF KeepOpen
    <3>2. /\ OnlySocket(sk, fd) /\ sk[fd].armed = ev /\ SameLine(s, sk[fd])
          /\ sk[fd].peer = s.peer
      BY <2>3, ArmedSocket
    <3>3. /\ q.entered = r.entered /\ q.parsed = r.parsed /\ q.stream = r.stream
          /\ q.buf = r.buf /\ ~q.busy
      BY <1>7 DEF q, ConnRecord
    <3>4. Silent(q, sk[fd])
      BY <2>1, <3>2, <3>3 DEF Silent, Streams, SameLine
    <3>5. /\ q = conn'[c] /\ Silent(q, socket'[fd]) /\ socket'[fd].armed # "off"
          /\ socket'[fd].peer = s.peer /\ OnlyObject(conn', c) /\ OnlySocket(socket', fd)
      BY <1>12, <2>3, <3>1, <3>2, <3>4
    <3>6. /\ Flows' /\ BusyConns' = (BusyConns \ {c}) \cup (IF q.busy THEN {c} ELSE {})
          /\ \A d \in Conns \ {c} : conn'[d] = conn[d]
      BY <1>22, <2>1, <3>1, <3>5, DisturbedApart
    <3>7. QED BY <1>13, <3>1, <3>3, <3>6
  <2>4. CASE KeepOpen(fd, idle, in, pendingWrites)
    BY <2>3, <2>4 DEF in
  <2>5. CASE KeepOpen(fd, idle, out, more)
    BY <2>3, <2>5 DEF out, more
  <2>6. QED BY <1>15, <2>2, <2>4, <2>5
<1> SUFFICES ASSUME ~r.entered PROVE Flows' /\ Users'
  BY <1>23
<1>9. Dialogue(r, s) /\ Working(fd, r)
  BY <1>7, <1>8 DEF Flows, Flow, Listening, Sending, Ended, Disturbed, Silent
<1>10. Elsewhere(fd)
  BY <1>9, <1>22 DEF Elsewhere, Working
<1>24. ~q.entered
  BY <1>7 DEF q, ConnRecord
<1>17. Dialogue(q, in[fd]) /\ Dialogue(q, out[fd])
  BY <1>9, <1>11, <1>16, <1>24, SameDialogue
<1>18. CASE CloseConnection(fd, idle, socket) /\ UNCHANGED jobs
  BY <1>10, <1>11, <1>12, <1>13, <1>16, <1>18, CloseExit
<1>19. CASE e.result = "needRead" /\ KeepOpen(fd, idle, in, pendingWrites)
  <2>1. Unanswered(q) /\ Parts(q.buf)
    <3>1. Unanswered(r) /\ Parts(r.buf)
      BY <1>8, <1>19 DEF Judged
    <3>2. QED BY <1>11, <1>24, <3>1 DEF Same, Unanswered, Parts
  <2>2. Resting(fd, idle[c], in[fd], pendingWrites)
    BY <1>9, <1>11, <1>12, <1>16, <1>17, <1>24, <2>1 DEF Resting, Working, Unanswered
  <2>3. /\ Flows' /\ BusyConns' = BusyConns \ {c} /\ UNCHANGED jobs
        /\ \A d \in Conns \ {c} : conn'[d] = conn[d]
    BY <1>10, <1>12, <1>16, <1>19, <2>2, KeepOpenExit
  <2>4. QED BY <1>13, <2>3
<1>20. CASE e.result = "readyWrite" /\ KeepOpen(fd, idle, out, more)
  <2>1. q.unsent > 0 /\ q.stream # "done"
    BY <1>8, <1>11, <1>20, <1>24, ReactorAssumption DEF Judged, Same, Unanswered
  <2>2. Resting(fd, idle[c], out[fd], more)
    BY <1>11, <1>12, <1>16, <1>17, <1>24, <2>1 DEF Resting, more
  <2>3. more \in {pendingWrites, pendingWrites \cup {fd}, pendingWrites \ {fd}}
    BY DEF more
  <2>4. /\ Flows' /\ BusyConns' = BusyConns \ {c} /\ UNCHANGED jobs
        /\ \A d \in Conns \ {c} : conn'[d] = conn[d]
    BY <1>10, <1>12, <1>16, <1>20, <2>2, <2>3, KeepOpenExit
  <2>5. QED BY <1>13, <2>4
<1>21. QED BY <1>15, <1>18, <1>19, <1>20

-----------------------------------------------------------------------------
(* The sweeps.                                                             *)

\* A visit handles no event: the batch is done.
LEMMA VisitElsewhere ==
  ASSUME LoopOK, NEW in \in {"resume", "reap", "retry", "expire"}, NEW fd \in Registered, Visit(in, fd)
  PROVE  /\ Elsewhere(fd) /\ UNCHANGED <<worker, completed, finishing, batch, phase>>
         /\ phase = in /\ todo' = todo \ {fd} /\ batch = {} /\ fd \in todo
<1>1. /\ phase = in /\ fd \in todo /\ todo' = todo \ {fd}
      /\ UNCHANGED <<worker, completed, finishing, batch, phase>>
  BY DEF Visit, queueVars
<1>2. batch = {}
  BY <1>1 DEF LoopOK
<1>3. QED BY <1>1, <1>2 DEF Elsewhere, Apart, Settled, Events

\* resume_sse_if_due: a stream that is due is listening, and goes on to write; or
\* its worker has it, and it is entered.
LEMMA ResumeStep ==
  ASSUME Inv, Flows, Users, LoopOK, NEW fd \in Registered, Visit("resume", fd), ResumeStream(fd)
  PROVE  Flows' /\ Users'
<1> DEFINE c == connections[fd]
           r == conn[c]
           s == socket[fd]
           r0 == [r EXCEPT !.entered = @ \/ r.busy]
           chunk == [r0 EXCEPT !.unsent = 1]
           done(n) == [r0 EXCEPT !.stream = "done", !.unsent = n]
           out == Arm(socket, fd, "out")
           more == pendingWrites \cup {fd}
<1>1. /\ Elsewhere(fd) /\ UNCHANGED <<worker, completed, finishing, batch, phase>>
      /\ phase = "resume" /\ batch = {}
  BY VisitElsewhere
<1>2. \/ UNCHANGED <<freeConns, mapVars, conn, socket, jobs>>
      \/ /\ r.stream = "on" /\ r.unsent = 0
         /\ \/ KeepOpen(fd, [conn EXCEPT ![c] = chunk], out, more)
            \/ \E n \in IF r0.entered THEN {0, 1} ELSE {0} :
                  KeepOpen(fd, [conn EXCEPT ![c] = done(n)], out, more)
  BY DEF ResumeStream
<1>3. CASE UNCHANGED <<freeConns, mapVars, conn, socket, jobs>>
  <2>1. UNCHANGED <<connections, pendingWrites, conn, socket, jobs>>
    BY <1>3 DEF mapVars
  <2>2. \A g \in Fds : Flow(g)'
    <3> TAKE g \in Fds
    <3>1. Events(g)' = Events(g) /\ Events(g) = {}
      BY <1>1 DEF Events
    <3>2. Flow(g) /\ (phase = "resume" => phase' = "resume") /\ phase # "reap"
      BY <1>1 DEF Flows
    <3>3. QED BY <2>1, <3>1, <3>2, FlowFrame
  <2>3. BusyConns' = BusyConns /\ \A d \in BusyConns : Same(conn[d], conn'[d])
    BY <2>1 DEF BusyConns, InMap, Registered, Same
  <2>4. QED BY <1>1, <2>1, <2>2, <2>3, UsersFrame DEF Flows
<1>4. ASSUME r.stream = "on", r.unsent = 0, NEW q \in ConnRecord,
             q.buf = r.buf, q.parsed = r.parsed, q.fd = r.fd, q.gen = r.gen, q.busy = r.busy,
             q.entered <=> r.entered \/ r.busy,
             \/ q.unsent = 1 /\ q.stream = "on"
             \/ q.stream = "done" /\ (~q.entered => q.unsent = 0),
             KeepOpen(fd, [conn EXCEPT ![c] = q], out, more)
      PROVE  Flows' /\ Users'
  <2>1. /\ fd \in Fds /\ c \in Conns /\ r \in ConnRecord /\ Len(r.buf) <= ReadBufferSize
        /\ c \in InMap
    BY RegisteredType DEF Inv, TypeOK
  <2>2. Streams(s) /\ r.parsed = Len(r.buf) /\ ~Unanswered(r)
    BY <1>4, <2>1, ReactorAssumption DEF Flows, Flow, Dialogue, Unanswered, Answered, Disturbed,
       Silent
  <2>3. OnlyObject([conn EXCEPT ![c] = q], c) /\ [conn EXCEPT ![c] = q][c] = q
    <3>1. conn \in [Conns -> ConnRecord]
      BY DEF Inv, TypeOK
    <3> HIDE DEF r
    <3>2. OnlyObject([conn EXCEPT ![c] = q], c)
      BY <1>4, <2>1, InvParts, HandlerObject DEF r
    <3>3. QED BY <2>1, <3>1, <3>2
  <2>4. OnlySocket(out, fd) /\ out[fd].armed = "out" /\ SameLine(s, out[fd])
    BY ArmedSocket
  <2>5. PICK cs : cs = [conn EXCEPT ![c] = q]
    OBVIOUS
  <2> HIDE DEF out, more
  <2>6. /\ more \in {pendingWrites, pendingWrites \cup {fd}, pendingWrites \ {fd}}
        /\ KeepOpen(fd, cs, out, more) /\ OnlyObject(cs, c) /\ cs[c] = q
    BY <1>4, <2>3, <2>5 DEF more
  <2>7. Streams(out[fd]) /\ q.parsed = Len(q.buf) /\ q.stream # "off"
    BY <1>4, <2>2, <2>4 DEF Streams, SameLine
  <2>8. CASE q.entered
    <3>1. Silent(q, out[fd])
      BY <2>7, <2>8 DEF Silent
    <3>2. QED BY <1>1, <1>4, <2>2, <2>4, <2>6, <3>1, EnteredKeep
  <2>9. CASE ~q.entered
    <3>1. ~r.busy /\ ~r.entered
      BY <1>4, <2>9
    <3>2. c \in Conns \ BusyConns
      BY <3>1, IdleConnection
    <3>3. Dialogue(q, out[fd])
      BY <2>7 DEF Dialogue
    <3>4. Resting(fd, cs[c], out[fd], more)
      BY <1>1, <1>4, <2>4, <2>6, <2>9, <3>1, <3>3 DEF Resting, more
    <3>5. /\ Flows' /\ BusyConns' = BusyConns \ {c} /\ UNCHANGED jobs
          /\ \A d \in Conns \ {c} : conn'[d] = conn[d]
      BY <1>1, <2>4, <2>6, <3>4, KeepOpenExit
    <3>6. QED BY <1>1, <3>2, <3>5, UsersStay
  <2>10. QED BY <2>8, <2>9
<1>5. r \in ConnRecord
  BY RegisteredType
<1>6. /\ chunk \in ConnRecord /\ chunk.buf = r.buf /\ chunk.parsed = r.parsed /\ chunk.fd = r.fd
      /\ chunk.gen = r.gen /\ chunk.busy = r.busy /\ (chunk.entered <=> r.entered \/ r.busy)
      /\ chunk.unsent = 1 /\ chunk.stream = r.stream
  BY <1>5 DEF ConnRecord
<1>7. ASSUME NEW n \in IF r0.entered THEN {0, 1} ELSE {0}
      PROVE  /\ done(n) \in ConnRecord /\ done(n).buf = r.buf /\ done(n).parsed = r.parsed
             /\ done(n).fd = r.fd /\ done(n).gen = r.gen /\ done(n).busy = r.busy
             /\ (done(n).entered <=> r.entered \/ r.busy)
             /\ done(n).stream = "done" /\ (~done(n).entered => done(n).unsent = 0)
  <2>1. n \in Nat
    OBVIOUS
  <2>2. r0.entered <=> r.entered \/ r.busy
    BY <1>5 DEF ConnRecord
  <2>3. /\ done(n) \in ConnRecord /\ done(n).buf = r.buf /\ done(n).parsed = r.parsed
        /\ done(n).fd = r.fd /\ done(n).gen = r.gen /\ done(n).busy = r.busy
        /\ (done(n).entered <=> r.entered \/ r.busy) /\ done(n).stream = "done"
        /\ done(n).unsent = n
    BY <1>5, <2>1 DEF ConnRecord
  <2>4. QED BY <2>2, <2>3
<1> HIDE DEF chunk, done
<1>8. QED BY <1>2, <1>3, <1>4, <1>6, <1>7

\* Closing a connection now, or when its worker is done with it.
LEMMA SweepCloseStep ==
  ASSUME Inv, Flows, Users, NEW fd \in Registered, Close(fd), Elsewhere(fd),
         UNCHANGED <<worker, completed, finishing, batch>>
  PROVE  Flows' /\ Users'
<1>1. CASE ~conn[connections[fd]].busy
  BY <1>1, CloseStep
<1>2. CASE conn[connections[fd]].busy
  <2> DEFINE c == connections[fd]
             q == [conn[c] EXCEPT !.timedOut = TRUE]
  <2>1. /\ Flows' /\ BusyConns' = BusyConns /\ UNCHANGED <<jobs>> /\ conn'[c] = q
        /\ \A d \in Conns \ {c} : conn'[d] = conn[d]
    BY <1>2, MarkExit
  <2>2. conn[c] \in ConnRecord /\ BusyConns \subseteq Conns
    BY RegisteredType DEF BusyConns, InMap, Registered, Inv, TypeOK
  <2>3. Same(conn[c], q)
    BY <2>2 DEF ConnRecord, Same
  <2> HIDE DEF q
  <2>4. \A d \in BusyConns : Same(conn[d], conn'[d])
    BY <2>1, <2>2, <2>3 DEF Same
  <2>5. QED BY <2>1, <2>4, UsersFrame
<1>3. QED BY <1>1, <1>2

\* retry_pending_writes: what is visited has something to send.
LEMMA RetriedConnection ==
  ASSUME Flows, LoopOK, NEW fd \in Registered, Visit("retry", fd)
  PROVE  /\ ~conn[connections[fd]].entered => Sending(fd, conn[connections[fd]])
         /\ conn[connections[fd]].entered => Disturbed(fd, conn[connections[fd]])
<1>1. phase = "retry" /\ fd \in todo /\ fd \in Fds
  BY DEF Visit, Registered
<1>2. fd \in pendingWrites
  BY <1>1 DEF LoopOK
<1>3. QED BY <1>1, <1>2 DEF Flows, Flow, Working, Listening, Ended, Disturbed, Silent

LEMMA RetryStep ==
  ASSUME Polite, Inv, Flows, Users, LoopOK, NEW fd \in Registered, Visit("retry", fd),
         HandleWrite(fd)
  PROVE  Flows' /\ Users' /\ LoopOK'
<1>1. /\ Elsewhere(fd) /\ UNCHANGED <<worker, completed, finishing, batch, phase>>
      /\ phase = "retry" /\ todo' = todo \ {fd} /\ batch = {} /\ fd \in todo
  BY VisitElsewhere
<1>2. fd \in Fds /\ fd \in pendingWrites /\ todo \subseteq pendingWrites
  BY <1>1, RegisteredType DEF LoopOK
<1>4. Flows' /\ Users' /\ \A g \in pendingWrites \ {fd} : g \in pendingWrites'
  <2>1. CASE ~conn[connections[fd]].entered
    BY <1>1, <2>1, RetriedConnection, WriteStep
  <2>2. CASE conn[connections[fd]].entered
    BY <1>1, <2>2, RetriedConnection, EnteredWrite
  <2>3. QED BY <2>1, <2>2
<1>5. QED BY <1>1, <1>2, <1>4 DEF LoopOK

-----------------------------------------------------------------------------
(* The events.                                                             *)

\* Nobody has gone on with a connection that has an event in the batch, unless its
\* stream has been entered.
LEMMA ReportedConnection ==
  ASSUME Flows, phase = "events", NEW fd \in Registered, NEW e \in Events(fd)
  PROVE  /\ Events(fd) = {e}
         /\ conn[connections[fd]].entered => Disturbed(fd, conn[connections[fd]])
         /\ ~conn[connections[fd]].entered =>
              /\ ~conn[connections[fd]].busy
              /\ e.ev = "out" => Sending(fd, conn[connections[fd]])
<1> DEFINE r == conn[connections[fd]]
<1>0. fd \in Fds
  BY DEF Registered
<1>1. CASE Disturbed(fd, r)
  BY <1>1 DEF Disturbed, Silent
<1>2. CASE ~Disturbed(fd, r)
  <2>1. ~r.entered /\ (Working(fd, r) \/ Listening(fd, r) \/ Sending(fd, r) \/ Ended(fd, r))
    BY <1>0, <1>2 DEF Flows, Flow
  <2>2. ~Working(fd, r) /\ ~Ended(fd, r)
    BY DEF Working, Ended
  <2>3. CASE Listening(fd, r)
    BY <2>1, <2>3 DEF Listening, Watched
  <2>4. CASE Sending(fd, r)
    BY <2>1, <2>4 DEF Sending, Watched
  <2>5. QED BY <2>1, <2>2, <2>3, <2>4
<1>3. QED BY <1>1, <1>2

\* An event of the batch finds the connection it was reported for, and nobody
\* else has gone on with it; or the connection has been closed since.
LEMMA EventStep ==
  ASSUME Polite, Inv, Flows, Users, HandleEvent
  PROVE  Flows' /\ Users'
<1>1. PICK e \in batch \ {NotifyEvent} :
        /\ phase = "events" /\ batch' = batch \ {e}
        /\ \/ e.fd \notin Registered /\ UNCHANGED <<freeConns, mapVars, conn, socket, jobs>>
           \/ /\ e.fd \in Registered
              /\ \/ e.ev \in {"hup", "rdhup"} /\ CloseConnection(e.fd, conn, socket) /\ UNCHANGED jobs
                 \/ e.ev = "in" /\ HandleRead(e.fd)
                 \/ e.ev = "out" /\ HandleWrite(e.fd)
        /\ UNCHANGED <<phase, adopting, todo, worker, completed, finishing>>
  BY DEF HandleEvent, queueVars
<1>2. PICK fd : fd = e.fd
  OBVIOUS
<1>3. e \in Event /\ fd \in Fds
  BY <1>2 DEF Inv, TypeOK, Event
<1>4. e \in Events(fd)
  BY <1>1, <1>2 DEF Events
<1> DEFINE r == conn[connections[fd]]
<1>5. Apart(fd) /\ Events(fd)' = Events(fd) \ {e}
  <2>1. Events(fd)' = Events(fd) \ {e}
    BY <1>1 DEF Events
  <2>2. \A g \in Fds \ {fd} : Events(g)' = Events(g)
    BY <1>1, <1>2 DEF Events
  <2>3. QED BY <1>1, <2>1, <2>2 DEF Apart, Settled
<1>6. CASE fd \notin Registered
  <2>1. UNCHANGED <<connections, pendingWrites, conn, socket, jobs>>
    BY <1>1, <1>2, <1>6 DEF mapVars
  <2>2. Flow(fd)'
    <3>1. Accepted(fd) /\ fd \notin Registered'
      BY <1>3, <1>6, <2>1 DEF Flows, Flow, Registered
    <3>2. Events(fd)' = {} \/ Settled'
      BY <1>4, <1>5, <3>1 DEF Accepted, Apart
    <3>3. Accepted(fd)'
      BY <2>1, <3>1, <3>2 DEF Accepted, Parts, Whole
    <3>4. QED BY <3>1, <3>3 DEF Flow
  <2>3. Flows'
    BY <1>3, <1>5, <2>1, <2>2, OthersFlow
  <2>4. BusyConns' = BusyConns /\ \A d \in BusyConns : Same(conn[d], conn'[d])
    BY <2>1 DEF BusyConns, InMap, Registered, Same
  <2>5. QED BY <1>1, <2>1, <2>3, <2>4, UsersFrame
<1>7. CASE fd \in Registered
  <2>1. /\ Events(fd) = {e}
        /\ r.entered => Disturbed(fd, r)
        /\ ~r.entered => ~r.busy /\ (e.ev = "out" => Sending(fd, r))
    BY <1>1, <1>4, <1>7, ReportedConnection
  <2>2. Elsewhere(fd)
    BY <1>5, <2>1 DEF Elsewhere
  <2>3. CASE Close(fd)
    <3>1. CASE r.entered
      <4>1. OnlyObject(conn, connections[fd]) /\ OnlySocket(socket, fd) /\ r \in ConnRecord
        BY <1>7, InvParts, Untouched, RegisteredType
      <4>2. Silent(r, socket[fd])
        BY <2>1, <3>1 DEF Disturbed
      <4>3. QED BY <1>1, <1>7, <2>2, <2>3, <3>1, <4>1, <4>2, EnteredClose DEF Close
    <3>2. CASE ~r.entered
      BY <1>1, <1>7, <2>1, <2>2, <2>3, <3>2, CloseStep
    <3>3. QED BY <3>1, <3>2
  <2>4. CASE e.ev = "in" /\ HandleRead(fd)
    <3>1. CASE r.entered
      <4>1. socket[fd].peer = "fin" /\ Disturbed(fd, r)
        BY <1>4, <2>1, <2>4, <3>1 DEF Disturbed
      <4>2. QED BY <1>1, <1>7, <2>2, <2>4, <4>1, EnteredRead
    <3>2. CASE ~r.entered
      BY <1>1, <1>7, <2>1, <2>2, <2>4, <3>2, ReadStep
    <3>3. QED BY <3>1, <3>2
  <2>5. CASE e.ev = "out" /\ HandleWrite(fd)
    <3>1. CASE r.entered
      BY <1>1, <1>7, <2>1, <2>2, <2>5, <3>1, EnteredWrite
    <3>2. CASE ~r.entered
      BY <1>1, <1>7, <2>1, <2>2, <2>5, <3>2, WriteStep
    <3>3. QED BY <3>1, <3>2
  <2>6. QED BY <1>1, <1>2, <1>7, <2>3, <2>4, <2>5 DEF Close
<1>8. QED BY <1>6, <1>7

\* epoll_wait: what it reports and disarms was armed, and has one event.
LEMMA PollStep ==
  ASSUME Inv, Flows, Users, LoopOK, EpollWait
  PROVE  Flows' /\ Users'
<1> DEFINE ready == UNION {Ready(fd) : fd \in Fds}
<1>1. /\ phase = "wait" /\ batch = {}
      /\ batch' = ready \cup (IF notified THEN {NotifyEvent} ELSE {})
      /\ socket' = [fd \in Fds |-> IF \E e \in ready : e.fd = fd
                                   THEN [socket[fd] EXCEPT !.armed = "off"]
                                   ELSE socket[fd]]
      /\ UNCHANGED <<connections, pendingWrites, conn, jobs, worker, completed, finishing>>
  BY DEF EpollWait, LoopOK, queueVars, mapVars, poolVars
<1>2. \A fd \in Fds : \A e \in Ready(fd) : e.fd = fd
  BY DEF Ready
<1>3. \A e \in ready : \E fd \in Fds : e \in Ready(fd)
  OBVIOUS
<1>4. \A fd \in Fds : Ready(fd) \subseteq ready
  OBVIOUS
<1> HIDE DEF ready
<1>5. Users'
  <2>1. BusyConns' = BusyConns /\ \A d \in BusyConns : Same(conn[d], conn'[d])
    BY <1>1 DEF BusyConns, InMap, Registered, Same
  <2>2. QED BY <1>1, <2>1, UsersFrame
<1>6. ASSUME NEW g \in Fds PROVE Flow(g)'
  <2> DEFINE r == conn[connections[g]]
             s == socket[g]
  <2>1. Events(g) = {} /\ Events(g)' = Ready(g)
    <3>1. NotifyEvent.fd # g
      BY ReactorAssumption DEF NotifyEvent
    <3>2. ASSUME NEW e \in batch', e.fd = g PROVE e \in Ready(g)
      <4>1. e \in ready
        BY <1>1, <3>1, <3>2
      <4>2. QED BY <1>2, <1>3, <3>2, <4>1
    <3>3. \A e \in Ready(g) : e \in batch' /\ e.fd = g
      BY <1>1, <1>2, <1>4
    <3>4. QED BY <1>1, <3>2, <3>3 DEF Events
  <2>2. s \in SocketRecord
    BY DEF Inv, TypeOK
  <2>3. CASE Ready(g) = {}
    <3>1. socket'[g] = socket[g]
      BY <1>1, <1>2, <1>3, <2>3
    <3>2. Flow(g)
      BY DEF Flows
    <3>3. QED BY <1>1, <2>1, <2>3, <3>1, <3>2, FlowFrame
  <2>4. CASE Ready(g) # {}
    <3>1. PICK e \in Ready(g) : Ready(g) = {e}
      BY <2>4 DEF Ready
    <3>2. /\ s.armed # "off" /\ e.fd = g
          /\ s.armed = "in" => /\ e.ev \in {"in", "hup"}
                               /\ (e.ev = "in") => (s.inbox # <<>> \/ s.peer = "fin")
          /\ s.armed = "out" => e.ev \in {"out", "hup", "rdhup"}
      BY <1>2, <2>2, <3>1 DEF Ready, SocketRecord
    <3>3. PICK t : t = socket'[g]
      OBVIOUS
    <3>4. t = [s EXCEPT !.armed = "off"]
      BY <1>1, <1>4, <3>1, <3>2, <3>3
    <3>5. /\ t.armed = "off" /\ SameLine(s, t) /\ t.peer = s.peer
      BY <2>2, <3>4 DEF SocketRecord, SameLine
    <3>6. g \in Registered
      BY <3>2 DEF Flows, Flow, Accepted
    <3>15. CASE Disturbed(g, r)
      <4>1. Silent(r, s) /\ s.inbox = <<>>
        BY <3>15 DEF Disturbed, Silent, Streams
      <4>2. /\ g \in Registered' /\ r' = r /\ (socket[g])' = t
            /\ Events(g)' = {e}
        BY <1>1, <2>1, <3>1, <3>3, <3>6 DEF Registered
      <4>3. e.ev = "in" => s.peer = "fin"
        BY <2>2, <3>2, <4>1 DEF SocketRecord
      <4>4. Silent(r, t)
        BY <3>5, <4>1 DEF Silent, Streams, SameLine
      <4>5. \A x \in Events(g)' : Events(g)' = {x} /\ (x.ev = "in" => t.peer = "fin")
        BY <3>5, <4>2, <4>3
      <4>6. Events(g)' # {}
        BY <4>2
      <4> HIDE DEF r
      <4>7. Silent(r, socket[g])'
        BY <4>2, <4>4 DEF Silent, Streams
      <4>8. Disturbed(g, r)'
        BY <4>2, <4>5, <4>6, <4>7 DEF Disturbed
      <4>9. QED BY <4>2, <4>8 DEF Flow, r
    <3> SUFFICES ASSUME ~Disturbed(g, r) PROVE Flow(g)'
      BY <3>15
    <3>7. ~r.entered /\ Dialogue(r, s) /\ (Listening(g, r) \/ Sending(g, r))
      BY <1>1, <3>2, <3>6 DEF Flows, Flow, Working, Ended
    <3>8. Dialogue(r, t)
      <4>1. Same(r, r)
        BY DEF Same
      <4>2. QED BY <3>5, <3>7, <4>1, SameDialogue
    <3>9. g \in Registered' /\ r' = r /\ (socket[g])' = t
      BY <1>1, <3>3, <3>6 DEF Registered
    <3> HIDE DEF r
    <3>10. Dialogue(r, socket[g])' /\ ~r'.entered
      BY <3>7, <3>8, <3>9
    <3>11. ASSUME NEW dir \in {"in", "out"}, NEW reports, Watched(g, dir, reports), e.ev \in reports,
                  dir = "in" => s.armed = "in"
           PROVE  Watched(g, dir, reports)'
      <4>1. (e.ev = "in") => t.inbox # <<>> \/ t.peer = "fin"
        BY <2>2, <3>2, <3>5, <3>11 DEF SocketRecord, SameLine
      <4>2. Events(g)' = {e}
        BY <2>1, <3>1
      <4>3. QED BY <3>5, <3>9, <3>11, <4>1, <4>2 DEF Watched
    <3>12. CASE Listening(g, r)
      <4>1. s.armed = "in"
        BY <2>1, <3>12 DEF Listening, Watched
      <4>2. Watched(g, "in", {"in", "hup"})'
        BY <3>2, <3>11, <3>12, <4>1 DEF Listening
      <4>3. Listening(g, r)'
        BY <1>1, <3>9, <3>12, <4>2 DEF Listening, Parts
      <4>4. QED BY <3>9, <3>10, <4>3 DEF Flow, r
    <3>13. CASE Sending(g, r)
      <4>1. s.armed = "out"
        BY <2>1, <3>13 DEF Sending, Watched
      <4>2. Watched(g, "out", {"out", "hup", "rdhup"})'
        BY <3>2, <3>11, <3>13, <4>1 DEF Sending
      <4>3. Sending(g, r)'
        BY <1>1, <3>9, <3>13, <4>2 DEF Sending
      <4>4. QED BY <3>9, <3>10, <4>3 DEF Flow, r
    <3>14. QED BY <3>7, <3>12, <3>13 DEF r
  <2>5. QED BY <2>3, <2>4
<1>7. QED BY <1>5, <1>6 DEF Flows

-----------------------------------------------------------------------------
(* The notifications, and the steps between the phases.                    *)

\* The events of the descriptors and all they are about stay as they are.
LEMMA LoopStep ==
  ASSUME Flows, Users,
         UNCHANGED <<connections, pendingWrites, conn, socket, jobs, worker, completed, finishing>>,
         \A g \in Fds : Events(g)' = Events(g),
         \A g \in Registered :
           conn[connections[g]].stream = "done"
             => (phase = "resume" \/ (phase = "reap" /\ g \in todo)
                   => phase' = "resume" \/ (phase' = "reap" /\ g \in todo')),
         batch # {} /\ Settled => Settled'
  PROVE  Flows' /\ Users'
<1>1. BusyConns' = BusyConns /\ \A d \in BusyConns : Same(conn[d], conn'[d])
  BY DEF BusyConns, InMap, Registered, Same
<1>2. Users'
  BY <1>1, UsersFrame
<1>3. ASSUME NEW g \in Fds PROVE Flow(g)'
  <2>1. Flow(g) /\ (Events(g) # {} => batch # {})
    BY DEF Flows, Events
  <2>2. QED BY <2>1, FlowFrame
<1>4. QED BY <1>2, <1>3 DEF Flows

\* The eventfd is drained, and then the queues are taken.  Until then a socket
\* that is still to be adopted has no event.
LEMMA DrainStep ==
  ASSUME Flows, Users, DrainNotifications
  PROVE  Flows' /\ Users'
<1>1. /\ phase = "events" /\ phase' = "drained" /\ NotifyEvent \in batch
      /\ batch' = batch \ {NotifyEvent}
      /\ UNCHANGED <<connections, pendingWrites, conn, socket, jobs, worker, todo, completed,
                     finishing>>
  BY DEF DrainNotifications, DrainOrSwap, NotificationOrder, mapVars, poolVars
<1>2. \A g \in Fds : Events(g)' = Events(g)
  BY <1>1, ReactorAssumption DEF Events, NotifyEvent
<1>3. ~Settled
  BY <1>1 DEF Settled
<1>4. QED BY <1>1, <1>2, <1>3, LoopStep

LEMMA SwapStep ==
  ASSUME Flows, Users, LoopOK, TakeNotifications
  PROVE  Flows' /\ Users'
<1>1. /\ phase = "drained" /\ batch' = batch
      /\ finishing' = completed /\ completed' = <<>> /\ finishing = <<>>
      /\ UNCHANGED <<connections, pendingWrites, conn, socket, jobs, worker, todo>>
  BY DEF TakeNotifications, DrainOrSwap, NotificationOrder, LoopOK, mapVars, poolVars
<1>2. Users'
  BY <1>1, UsersSwap
<1>3. ASSUME NEW g \in Fds PROVE Flow(g)'
  <2>1. Events(g)' = Events(g) /\ Flow(g) /\ ~Settled
    BY <1>1 DEF Events, Flows, Settled
  <2>2. QED BY <1>1, <2>1, FlowFrame
<1>4. QED BY <1>2, <1>3 DEF Flows

\* A new connection listens for what its client has already begun to send.
LEMMA AdoptStep ==
  ASSUME Inv, Flows, Users, Adopt
  PROVE  Flows' /\ Users'
<1>1. PICK item \in adopting :
        /\ phase = "notify"
        /\ conn' = [conn EXCEPT ![item.conn] = Adopted(@, item.fd)]
        /\ connections' = [connections EXCEPT ![item.fd] = item.conn]
        /\ socket' = Arm(socket, item.fd, "in")
        /\ UNCHANGED <<phase, batch, todo, pendingWrites, jobs, worker, completed, finishing>>
  BY DEF Adopt, queueVars, poolVars
<1>2. PICK c, fd : c = item.conn /\ fd = item.fd
  OBVIOUS
<1>3. /\ c \in Conns /\ fd \in Fds /\ fd \notin Registered
      /\ conn[c] \in ConnRecord /\ socket[fd] \in SocketRecord
      /\ conn \in [Conns -> ConnRecord] /\ socket \in [Fds -> SocketRecord]
      /\ connections \in [Fds -> Conns \cup {NoConn}]
  BY <1>1, <1>2 DEF Inv, TypeOK, OpenOnce, Handoff
<1>4. c \notin InMap /\ fd \notin pendingWrites
  <2>1. c \in Handed
    BY <1>1, <1>2 DEF Handed
  <2>2. QED BY <1>3, <2>1 DEF Inv, PoolConserved, EveryConnectionExpires
<1> DEFINE q == Adopted(conn[c], fd)
           t == [socket[fd] EXCEPT !.armed = "in"]
<1>5. /\ ~q.entered /\ q.busy = FALSE /\ q.buf = <<>> /\ q.unsent = 0 /\ q.parsed = 0 /\ q.stream = "off"
      /\ t.armed = "in" /\ SameLine(socket[fd], t) /\ t.inbox \in Seq(Units)
  BY <1>3 DEF Adopted, Cleared, ConnRecord, SocketRecord, SameLine
<1>6. /\ conn'[c] = q /\ \A d \in Conns \ {c} : conn'[d] = conn[d]
      /\ socket'[fd] = t /\ \A g \in Fds \ {fd} : socket'[g] = socket[g]
      /\ connections'[fd] = c /\ \A g \in Fds \ {fd} : connections'[g] = connections[g]
  BY <1>1, <1>2, <1>3 DEF Arm
<1> HIDE DEF q, t
<1>7. \A g \in Registered : g # fd /\ connections[g] # c /\ connections[g] \in Conns
  BY <1>3, <1>4, RegisteredType DEF InMap
<1>8. Accepted(fd) /\ ~Settled
  BY <1>1, <1>3 DEF Flows, Flow, Settled
<1>9. fd \in Registered' /\ (conn[connections[fd]])' = q /\ (socket[fd])' = t
  BY <1>3, <1>6, ReactorAssumption DEF Registered
<1>10. Dialogue(q, t)
  <2>1. Parts(q.buf)
    BY <1>5, EmptySeq DEF Parts
  <2>2. t.waiting = socket[fd].waiting /\ t.inbox = socket[fd].inbox /\ t.outbox = <<>>
    BY <1>5, <1>8 DEF Accepted, SameLine
  <2>3. t.waiting \in BOOLEAN
    BY <1>3, <2>2 DEF SocketRecord
  <2>4. Composing(q, t) \/ Asked(q, t)
    BY <1>8, <2>1, <2>2, <2>3 DEF Accepted, Composing, Asked
  <2>5. QED BY <1>5, <2>4 DEF Dialogue, Unanswered
<1>11. Dialogue(conn[connections[fd]], socket[fd])' /\ ~(conn[connections[fd]].entered)'
  BY <1>5, <1>9, <1>10
<1>12. Events(fd)' = {}
  BY <1>1, <1>8 DEF Accepted, Events
<1>13. Listening(fd, conn[connections[fd]])'
  <2>1. Watched(fd, "in", {"in", "hup"})'
    BY <1>5, <1>9, <1>12 DEF Watched
  <2>2. QED BY <1>1, <1>4, <1>5, <1>9, <2>1, EmptySeq DEF Listening, Parts
<1>14. Flow(fd)'
  BY <1>9, <1>11, <1>13 DEF Flow
<1>15. ASSUME NEW g \in Fds \ {fd} PROVE Flow(g)'
  <2>1. Events(g)' = Events(g) /\ Flow(g)
    BY <1>1 DEF Events, Flows
  <2>2. g \in Registered => conn'[connections[g]] = conn[connections[g]]
    BY <1>6, <1>7
  <2>3. QED BY <1>1, <1>6, <1>8, <2>1, <2>2, FlowFrame
<1>16. BusyConns' = BusyConns
  <2>1. Registered' = Registered \cup {fd}
    BY <1>3, <1>6, <1>9 DEF Registered
  <2>2. InMap' = InMap \cup {c}
    <3>1. \A x : x \in InMap' <=> \E g \in Registered' : x = connections'[g]
      BY DEF InMap
    <3>2. \A x : x \in InMap <=> \E g \in Registered : x = connections[g]
      BY DEF InMap
    <3>3. \A g \in Registered : connections'[g] = connections[g]
      BY <1>6, <1>7 DEF Registered
    <3>4. QED BY <1>6, <2>1, <3>1, <3>2, <3>3
  <2>3. InMap \subseteq Conns \ {c}
    BY <1>7 DEF InMap
  <2>4. QED BY <1>5, <1>6, <2>2, <2>3 DEF BusyConns
<1>17. \A d \in BusyConns : Same(conn[d], conn'[d])
  BY <1>4, <1>6, <1>7 DEF BusyConns, InMap, Same
<1>18. Users'
  BY <1>1, <1>16, <1>17, UsersFrame
<1>19. QED BY <1>14, <1>15, <1>18 DEF Flows

\* When the next sweep begins the last one has closed the streams that ended.
LEMMA SweepStep ==
  ASSUME Flows, Users, NextSweep
  PROVE  Flows' /\ Users'
<1>1. /\ UNCHANGED <<connections, pendingWrites, conn, socket, jobs, worker, completed, finishing, batch>>
      /\ todo = {} /\ batch = {}
      /\ phase # "resume" \/ (phase' = "reap" /\
           todo' = {fd \in Registered : conn[connections[fd]].stream = "done"})
  BY DEF NextSweep, Sweep, queueVars, mapVars, poolVars
<1>2. \A g \in Fds : Events(g)' = Events(g)
  BY <1>1 DEF Events
<1>3. QED BY <1>1, <1>2, LoopStep

\* An accepted socket has no history.
LEMMA AcceptStep ==
  ASSUME Inv, Flows, Users, Accept
  PROVE  Flows' /\ Users'
<1>1. PICK fd \in Fds :
        /\ ~socket[fd].open
        /\ socket' = [socket EXCEPT ![fd] = [ClosedSocket EXCEPT !.open = TRUE]]
        /\ UNCHANGED <<connections, pendingWrites, conn, jobs, worker, completed, finishing, batch,
                       phase, todo, adopting>>
  BY DEF Accept, loopVars, mapVars, poolVars
<1>2. PICK t : t = socket'[fd]
  OBVIOUS
<1>3. /\ t.armed = "off" /\ t.outbox = <<>> /\ t.inbox = <<>> /\ ~t.waiting
      /\ \A g \in Fds \ {fd} : socket'[g] = socket[g]
  BY <1>1, <1>2 DEF ClosedSocket, Inv, TypeOK
<1>4. fd \notin Registered /\ fd \notin Registered'
  BY <1>1, RegisteredType DEF Registered
<1>5. (Events(fd)' = {} \/ Settled') /\ Settled' = Settled
  BY <1>1, <1>4 DEF Flows, Flow, Accepted, Events, Settled
<1>6. Flow(fd)'
  <2>1. Parts(<<>>)
    BY EmptySeq DEF Parts
  <2>2. Accepted(fd)'
    BY <1>2, <1>3, <1>5, <2>1 DEF Accepted, Parts, Whole
  <2>3. QED BY <1>4, <2>2 DEF Flow
<1>7. ASSUME NEW g \in Fds \ {fd} PROVE Flow(g)'
  <2>1. Events(g)' = Events(g) /\ Flow(g)
    BY <1>1 DEF Events, Flows
  <2>2. QED BY <1>1, <1>3, <1>5, <2>1, FlowFrame
<1>8. BusyConns' = BusyConns /\ \A d \in BusyConns : Same(conn[d], conn'[d])
  BY <1>1 DEF BusyConns, InMap, Registered, Same
<1>9. Users'
  BY <1>1, <1>8, UsersFrame
<1>10. QED BY <1>6, <1>7, <1>9 DEF Flows

-----------------------------------------------------------------------------
(* The workers.                                                            *)

LEMMA FlowsStay ==
  ASSUME Flows, UNCHANGED <<connections, pendingWrites, conn, socket, batch, phase, todo, adopting>>
  PROVE  Flows'
<1> SUFFICES ASSUME NEW g \in Fds PROVE Flow(g)'
  BY DEF Flows
<1>1. Events(g)' = Events(g) /\ Flow(g) /\ Settled' = Settled
  BY DEF Events, Flows, Settled
<1>2. QED BY <1>1, FlowFrame

\* A parser that finds the end of a request has read the whole of it, and no
\* line that it would reject.
LEMMA ParsedRequest ==
  ASSUME NEW q \in Seq(Units), Parts(q) \/ Whole(q)
  PROVE  /\ Parts(q) => NextEnd(q, 0) = {}
         /\ Whole(q) => NextEnd(q, 0) = {Len(q)}
         /\ RejectedLine(q) = {}
<1>1. PICK n \in Nat : n = Len(q)
  BY LenProperties
<1>2. n = 0 <=> q = <<>>
  BY <1>1, EmptySeq
<1>3. ASSUME Parts(q) PROVE NextEnd(q, 0) = {} /\ RejectedLine(q) = {}
  <2>1. \A i \in 1..n : q[i] = "part"
    BY <1>1, <1>3 DEF Parts
  <2>2. NextEnd(q, 0) = {}
    BY <1>1, <2>1 DEF NextEnd
  <2>3. ~(q # <<>> /\ q[1] = "junk")
    BY <1>1, <1>2, <2>1
  <2>4. \A i \in 1..Len(q) : q[i] # "bad"
    BY <1>1, <2>1
  <2>5. QED BY <2>2, <2>3, <2>4 DEF RejectedLine
<1>4. ASSUME Whole(q) PROVE NextEnd(q, 0) = {Len(q)} /\ RejectedLine(q) = {}
  <2>1. n > 0 /\ q[n] = "end" /\ \A i \in 1..(n - 1) : q[i] = "part"
    BY <1>1, <1>2, <1>4 DEF Whole
  <2>2. \A i \in 1..n : i = n \/ i \in 1..(n - 1)
    BY <1>1
  <2>3. \A i \in 1..n : q[i] \in {"end", "part"} /\ (q[i] = "end" => i = n)
    BY <2>1, <2>2
  <2>4. {i \in (0 + 1)..n : q[i] = "end"} = {n}
    BY <1>1, <2>1, <2>3
  <2>5. NextEnd(q, 0) = {n}
    BY <1>1, <2>4 DEF NextEnd
  <2>6. ~(q # <<>> /\ q[1] = "junk")
    BY <1>1, <2>1, <2>3
  <2>7. \A i \in 1..Len(q) : q[i] # "bad"
    BY <1>1, <2>3
  <2>8. RejectedLine(q) = {}
    BY <2>6, <2>7 DEF RejectedLine
  <2>9. QED BY <1>1, <2>5, <2>8
<1>5. QED BY <1>3, <1>4

\* What a worker finds in its object: some parts of a request, or the whole of it.
LEMMA WorkedConnection ==
  ASSUME Inv, Flows, Users, NEW w \in Workers, worker[w].at = "working"
  PROVE  LET c == worker[w].conn
             r == conn[c]
         IN  /\ c \in Conns /\ c \in BusyConns /\ Unanswered(r) /\ RejectedLine(r.buf) = {}
             /\ r.parsed = 0 /\ ~Reject(c)
             /\ Parts(r.buf) \/ Whole(r.buf)
             /\ \E fd \in Registered :
                  /\ connections[fd] = c /\ Working(fd, r)
                  /\ \/ Parts(r.buf) /\ NextEnd(r.buf, 0) = {}
                     \/ Arrived(r, socket[fd]) /\ Whole(r.buf) /\ NextEnd(r.buf, 0) = {Len(r.buf)}
<1> DEFINE c == worker[w].conn
           r == conn[c]
<1>1. c \in BusyConns /\ Unanswered(r)
  BY UsersAreBusy DEF Users, Progress, Handless
<1>2. PICK fd \in Registered : connections[fd] = c
  BY <1>1 DEF BusyConns, InMap
<1>3. /\ c \in Conns /\ r \in ConnRecord /\ r.busy /\ fd \in Fds /\ r.buf \in Seq(Units)
  BY <1>1, <1>2, RegisteredType DEF BusyConns, Inv, TypeOK, ConnRecord
<1>4. Dialogue(r, socket[fd]) /\ Working(fd, r)
  BY <1>1, <1>2, <1>3 DEF Flows, Flow, Listening, Sending, Ended, Unanswered, Disturbed, Silent
<1>5. Unanswered(r) /\ ~Answered(r) /\ Parts(<<>>)
  BY <1>1, ReactorAssumption, EmptySeq DEF Unanswered, Answered, Parts
<1>6. Parts(r.buf) \/ (Arrived(r, socket[fd]) /\ Whole(r.buf))
  BY <1>4, <1>5 DEF Dialogue, Unanswered, Composing, Asked, Arrived, Replied
<1>7. /\ \/ Parts(r.buf) /\ NextEnd(r.buf, 0) = {}
         \/ Arrived(r, socket[fd]) /\ Whole(r.buf) /\ NextEnd(r.buf, 0) = {Len(r.buf)}
      /\ RejectedLine(r.buf) = {}
  BY <1>3, <1>6, ParsedRequest
<1>8. r.parsed = 0 /\ ~Reject(c)
  BY <1>1, <1>7 DEF Unanswered, Reject
<1>9. QED BY <1>1, <1>2, <1>3, <1>4, <1>7, <1>8

\* A worker goes on with an object that stays busy, and with a dialogue that its
\* connection can be in; or with a stream that was entered.
LEMMA WorkedFlow ==
  ASSUME Inv, Flows, NEW fd \in Registered, NEW c, c = connections[fd], conn[c].busy,
         NEW q, conn'[c] = q, q.busy, \A d \in Conns \ {c} : conn'[d] = conn[d],
         UNCHANGED <<connections, pendingWrites, socket, batch, phase, todo, adopting>>,
         \/ Working(fd, conn[c]) /\ ~q.entered /\ Dialogue(q, socket[fd])
         \/ Disturbed(fd, conn[c]) /\ Silent(q, socket[fd])
  PROVE  Flows' /\ BusyConns' = BusyConns
<1>1. /\ fd \in Registered' /\ (conn[connections[fd]])' = q /\ (socket[fd])' = socket[fd]
      /\ \A g \in Fds : Events(g)' = Events(g)
      /\ Settled' = Settled
  BY DEF Registered, Events, Settled
<1>2. Flow(fd)'
  <2>1. CASE Working(fd, conn[c]) /\ ~q.entered /\ Dialogue(q, socket[fd])
    <3>1. Dialogue(conn[connections[fd]], socket[fd])'
      BY <1>1, <2>1
    <3>2. Working(fd, conn[connections[fd]])'
      BY <1>1, <2>1, RegisteredType DEF Working
    <3>3. QED BY <1>1, <2>1, <3>1, <3>2 DEF Flow
  <2>2. CASE Disturbed(fd, conn[c]) /\ Silent(q, socket[fd])
    <3>1. Silent(conn[connections[fd]], socket[fd])'
      BY <1>1, <2>2
    <3>2. Disturbed(fd, conn[connections[fd]])'
      BY <1>1, <2>2, <3>1, RegisteredType DEF Disturbed
    <3>3. QED BY <1>1, <3>2 DEF Flow
  <2>3. QED BY <2>1, <2>2
<1>3. ASSUME NEW g \in Fds \ {fd} PROVE Flow(g)'
  <2>1. Flow(g) /\ Events(g)' = Events(g)
    BY <1>1 DEF Flows
  <2>2. g \in Registered => conn'[connections[g]] = conn[connections[g]]
    BY RegisteredType, ObjectsDiffer
  <2>3. QED BY <1>1, <2>1, <2>2, FlowFrame
<1>4. Flows'
  BY <1>2, <1>3 DEF Flows
<1>5. InMap' = InMap /\ InMap \subseteq Conns
  BY DEF InMap, Registered, Inv, TypeOK
<1>6. QED BY <1>4, <1>5 DEF BusyConns

\* process_async: the worker judges the one request of the connection.
LEMMA ProcessStep ==
  ASSUME Inv, Flows, Users, NEW w \in Workers, Process(w)
  PROVE  Flows' /\ Users'
<1> DEFINE c == worker[w].conn
           r == conn[c]
<1>1. PICK result \in Results :
        /\ \/ result = "needRead" /\ Incomplete(c)
           \/ result = "readyWrite" /\ (Answer(c) \/ Reject(c))
           \/ result = "close" /\ UNCHANGED conn
        /\ worker' = [worker EXCEPT ![w].at = "notifying", ![w].result = result]
  BY DEF Process
<1>2. /\ worker[w].at = "working"
      /\ UNCHANGED <<completed, finishing, batch, phase, todo, adopting, connections,
                     pendingWrites, socket, jobs>>
  BY DEF Process, queueVars, loopVars, mapVars
<1>3. /\ c \in BusyConns /\ Unanswered(r) /\ r.parsed = 0 /\ ~Reject(c)
  BY <1>2, WorkedConnection
<1>4. PICK fd \in Registered :
        /\ connections[fd] = c /\ Working(fd, r)
        /\ \/ Parts(r.buf) /\ NextEnd(r.buf, 0) = {}
           \/ Arrived(r, socket[fd]) /\ Whole(r.buf) /\ NextEnd(r.buf, 0) = {Len(r.buf)}
  BY <1>2, WorkedConnection
<1>5. /\ c \in Conns /\ r \in ConnRecord /\ r.busy /\ fd \in Fds /\ conn \in [Conns -> ConnRecord]
  BY <1>3, <1>4, RegisteredType DEF BusyConns, Inv, TypeOK
<1>6. Working(fd, r)
  BY <1>4
<1>7. \/ Parts(r.buf) /\ NextEnd(r.buf, 0) = {}
      \/ Arrived(r, socket[fd]) /\ Whole(r.buf) /\ NextEnd(r.buf, 0) = {Len(r.buf)}
  BY <1>4
<1>8. r.parsed = 0 /\ ~Reject(c)
  BY <1>3
<1>12. /\ worker'[w].at = "notifying" /\ worker'[w].conn = c /\ worker'[w].result = result
       /\ \A v \in Workers \ {w} : worker'[v] = worker[v]
  BY <1>1 DEF Inv, TypeOK
<1>9. CASE UNCHANGED conn
  <2>1. Flows'
    BY <1>2, <1>9, FlowsStay
  <2>2. BusyConns' = BusyConns
    BY <1>2, <1>9 DEF BusyConns, InMap, Registered
  <2>3. result \in {"needRead", "close"} => Judged(conn'[c], result)
    <3>1. CASE result = "needRead"
      <4>1. NextEnd(r.buf, r.parsed) = {}
        BY <1>1, <3>1 DEF Incomplete
      <4>2. QED BY <1>3, <1>7, <1>9, <3>1, <4>1 DEF Judged
    <3>2. CASE result = "close"
      BY <1>3, <1>9, <3>2 DEF Judged
    <3>3. QED BY <3>1, <3>2
  <2>4. result # "readyWrite"
    <3>1. SUFFICES ASSUME Answer(c) PROVE FALSE
      BY <1>1, <1>8
    <3>2. PICK e : conn' = [conn EXCEPT ![c].unsent = ResponseLength, ![c].parsed = e]
      BY <1>3, <3>1 DEF Answer, Built, Unanswered
    <3>3. conn'[c].unsent = ResponseLength
      BY <1>5, <3>2 DEF ConnRecord
    <3>4. QED BY <1>3, <1>9, <3>3, ReactorAssumption DEF Unanswered
  <2>5. Judged(conn'[c], result)
    BY <2>3, <2>4 DEF Results
  <2>6. \A d \in Conns \ {c} : conn'[d] = conn[d]
    BY <1>9
  <2> HIDE DEF c
  <2>7. QED BY <1>2, <1>12, <2>1, <2>2, <2>5, <2>6, UsersWork DEF c
<1>10. CASE result = "readyWrite" /\ Answer(c)
  <2>1. PICK e \in NextEnd(r.buf, r.parsed) \cup ({r.parsed} \ {0}) :
          conn' = [conn EXCEPT ![c].unsent = ResponseLength, ![c].parsed = e]
    BY <1>3, <1>10 DEF Answer, Answerable, Built, Unanswered
  <2>2. e = Len(r.buf) /\ Arrived(r, socket[fd])
    BY <1>7, <1>8, <2>1
  <2>3. PICK q : q = [r EXCEPT !.unsent = ResponseLength, !.parsed = e]
    OBVIOUS
  <2>4. /\ conn'[c] = q /\ \A d \in Conns \ {c} : conn'[d] = conn[d]
    BY <1>5, <2>1, <2>3
  <2>5. /\ q.unsent = ResponseLength /\ q.parsed = Len(q.buf) /\ q.stream = "off"
        /\ q.busy /\ q.buf = r.buf /\ ~q.entered
    BY <1>3, <1>5, <2>2, <2>3 DEF ConnRecord, Unanswered
  <2>6. Dialogue(q, socket[fd])
    BY <2>2, <2>5 DEF Dialogue, Answered, Arrived
  <2>7. Judged(conn'[c], result)
    BY <1>10, <2>4, <2>5 DEF Judged
  <2>8. c = connections[fd] /\ conn[c].busy /\ conn'[c] = q /\ Working(fd, conn[c])
    BY <1>4, <1>5, <2>4
  <2> HIDE DEF c
  <2>9. Flows' /\ BusyConns' = BusyConns
    BY <1>2, <2>4, <2>5, <2>6, <2>8, WorkedFlow
  <2>10. QED BY <1>2, <1>12, <2>4, <2>7, <2>9, UsersWork DEF c
<1>11. QED BY <1>1, <1>8, <1>9, <1>10 DEF Incomplete

\* prepare_api_response publishes the stream of the one request.
LEMMA PublishStep ==
  ASSUME Inv, Flows, Users, NEW w \in Workers, PublishStream(w)
  PROVE  Flows' /\ Users'
<1> DEFINE c == worker[w].conn
           r == conn[c]
<1>1. /\ worker[w].at = "working" /\ worker' = [worker EXCEPT ![w].at = "opening"]
      /\ UNCHANGED <<completed, finishing, batch, phase, todo, adopting, connections,
                     pendingWrites, socket, jobs>>
  BY DEF PublishStream, queueVars, loopVars, mapVars
<1>2. PICK e \in NextEnd(r.buf, r.parsed) \cup ({r.parsed} \ {0}) :
        conn' = [conn EXCEPT ![c].parsed = e, ![c].stream = "on"]
  BY DEF PublishStream, Answerable
<1>3. /\ c \in BusyConns /\ Unanswered(r) /\ r.parsed = 0
  BY <1>1, WorkedConnection
<1>4. PICK fd \in Registered :
        /\ connections[fd] = c /\ Working(fd, r)
        /\ \/ Parts(r.buf) /\ NextEnd(r.buf, 0) = {}
           \/ Arrived(r, socket[fd]) /\ Whole(r.buf) /\ NextEnd(r.buf, 0) = {Len(r.buf)}
  BY <1>1, WorkedConnection
<1>5. /\ c \in Conns /\ r \in ConnRecord /\ r.busy /\ conn \in [Conns -> ConnRecord]
  BY <1>3, <1>4, RegisteredType DEF BusyConns, Inv, TypeOK
<1>6. e = Len(r.buf) /\ Arrived(r, socket[fd])
  BY <1>2, <1>3, <1>4
<1>7. PICK q : q = [r EXCEPT !.parsed = e, !.stream = "on"]
  OBVIOUS
<1>8. conn'[c] = q /\ \A d \in Conns \ {c} : conn'[d] = conn[d]
  BY <1>2, <1>5, <1>7
<1>9. /\ q.unsent = 0 /\ q.parsed = Len(q.buf) /\ q.stream = "on" /\ q.busy /\ ~q.entered
  BY <1>3, <1>5, <1>6, <1>7 DEF ConnRecord, Unanswered
<1>10. Dialogue(q, socket[fd])
  BY <1>6, <1>9, EmptySeq DEF Dialogue, Streams, Arrived
<1>11. /\ c = connections[fd] /\ conn[c].busy /\ Working(fd, conn[c]) /\ Opening(conn'[c])
  BY <1>4, <1>5, <1>8, <1>9 DEF Opening
<1>12. worker'[w].at = "opening" /\ worker'[w].conn = c
       /\ \A v \in Workers \ {w} : worker'[v] = worker[v]
  BY <1>1 DEF Inv, TypeOK
<1> HIDE DEF c
<1>13. Flows' /\ BusyConns' = BusyConns
  BY <1>1, <1>8, <1>9, <1>10, <1>11, WorkedFlow
<1>14. QED BY <1>1, <1>8, <1>11, <1>12, <1>13, UsersWork DEF c

\* The worker builds the response in the stream it has published, or in one that
\* was entered since.
LEMMA BuildStep ==
  ASSUME Inv, Flows, Users, NEW w \in Workers, BuildStream(w)
  PROVE  Flows' /\ Users'
<1> DEFINE c == worker[w].conn
           r == conn[c]
<1>1. /\ worker[w].at = "opening"
      /\ \/ /\ \E n \in Built(r) : conn' = [conn EXCEPT ![c].unsent = n]
            /\ worker' = [worker EXCEPT ![w].at = "notifying", ![w].result = "readyWrite"]
         \/ /\ worker' = [worker EXCEPT ![w].at = "notifying", ![w].result = "close"]
            /\ UNCHANGED conn
      /\ UNCHANGED <<completed, finishing, batch, phase, todo, adopting, connections,
                     pendingWrites, socket, jobs>>
  BY DEF BuildStream, queueVars, loopVars, mapVars
<1>2. /\ worker'[w].at = "notifying" /\ worker'[w].conn = c
      /\ worker'[w].result \in {"readyWrite", "close"}
      /\ \A v \in Workers \ {w} : worker'[v] = worker[v]
  BY <1>1 DEF Inv, TypeOK
<1>3. c \in BusyConns /\ Opening(r)
  BY <1>1, UsersAreBusy DEF Users, Progress, Handless
<1>4. PICK fd \in Registered : connections[fd] = c
  BY <1>3 DEF BusyConns, InMap
<1>5. /\ c \in Conns /\ r \in ConnRecord /\ r.busy /\ fd \in Fds /\ conn \in [Conns -> ConnRecord]
  BY <1>3, <1>4, RegisteredType DEF BusyConns, Inv, TypeOK
<1>6. \/ r.entered /\ Disturbed(fd, r)
      \/ ~r.entered /\ r.stream = "on" /\ Working(fd, r) /\ Dialogue(r, socket[fd])
  BY <1>3, <1>4, <1>5 DEF Flows, Flow, Listening, Sending, Ended, Disturbed, Silent, Opening
<1>7. CASE UNCHANGED conn /\ worker'[w].result = "close"
  <2>1. Flows' /\ BusyConns' = BusyConns
    BY <1>1, <1>7, FlowsStay DEF BusyConns, InMap, Registered
  <2>2. Judged(conn'[c], worker'[w].result)
    BY <1>3, <1>7 DEF Judged, Opening
  <2> HIDE DEF c
  <2>3. \A d \in Conns \ {c} : conn'[d] = conn[d]
    BY <1>7
  <2>4. QED BY <1>1, <1>2, <2>1, <2>2, <2>3, UsersWork DEF c
<1>8. ASSUME NEW n \in Built(r), conn' = [conn EXCEPT ![c].unsent = n],
             worker'[w].result = "readyWrite"
      PROVE  Flows' /\ Users'
  <2>1. PICK q : q = [r EXCEPT !.unsent = n]
    OBVIOUS
  <2>2. conn'[c] = q /\ \A d \in Conns \ {c} : conn'[d] = conn[d]
    BY <1>5, <1>8, <2>1
  <2>3. /\ q.parsed = r.parsed /\ q.buf = r.buf /\ q.busy /\ q.entered = r.entered
        /\ q.stream = r.stream /\ q.unsent = n
    BY <1>5, <2>1 DEF ConnRecord
  <2>4. /\ Disturbed(fd, r) => Silent(q, socket[fd])
        /\ r.stream = "on" /\ Dialogue(r, socket[fd]) => Dialogue(q, socket[fd])
    BY <2>3 DEF Disturbed, Silent, Streams, Dialogue, Unanswered, Answered
  <2>5. Judged(conn'[c], worker'[w].result)
    BY <1>6, <1>8, <2>2, <2>3 DEF Judged, Built
  <2>6. /\ c = connections[fd] /\ conn[c].busy /\ conn'[c] = q
        /\ \/ Working(fd, conn[c]) /\ ~q.entered /\ Dialogue(q, socket[fd])
           \/ Disturbed(fd, conn[c]) /\ Silent(q, socket[fd])
    BY <1>4, <1>5, <1>6, <2>2, <2>3, <2>4
  <2> HIDE DEF c
  <2>7. Flows' /\ BusyConns' = BusyConns
    BY <1>1, <2>2, <2>3, <2>6, WorkedFlow
  <2>8. QED BY <1>1, <1>2, <2>2, <2>5, <2>7, UsersWork DEF c
<1>9. CASE \E n \in Built(r) : /\ conn' = [conn EXCEPT ![c].unsent = n]
                             /\ worker' = [worker EXCEPT ![w].at = "notifying",
                                                        ![w].result = "readyWrite"]
  <2>1. worker'[w].result = "readyWrite"
    BY <1>9 DEF Inv, TypeOK
  <2>2. QED BY <1>8, <1>9, <2>1
<1>10. CASE /\ worker' = [worker EXCEPT ![w].at = "notifying", ![w].result = "close"]
            /\ UNCHANGED conn
  <2>1. worker'[w].result = "close"
    BY <1>10 DEF Inv, TypeOK
  <2>2. QED BY <1>7, <1>10, <2>1
<1>11. QED BY <1>1, <1>9, <1>10

LEMMA WorkerStep ==
  ASSUME Inv, Flows, Users, NEW w \in Workers, WorkerNext(w)
  PROVE  Flows' /\ Users'
<1>1. CASE Take(w) \/ Notify(w) \/ WakeReactor(w)
  <2>1. UNCHANGED <<connections, pendingWrites, conn, socket, batch, phase, todo, adopting>>
    BY <1>1 DEF Take, Notify, WakeReactor, loopVars, mapVars
  <2>2. QED BY <1>1, <2>1, FlowsStay, UsersTake, UsersNotify, UsersWake
<1>2. QED BY <1>1, ProcessStep, PublishStep, BuildStep DEF WorkerNext

-----------------------------------------------------------------------------
(* The clients.                                                            *)

LEMMA SentLine ==
  ASSUME NEW q \in Seq(Units), Parts(q), NEW u \in Units
  PROVE  /\ Append(q, u) # <<>>
         /\ u = "part" => Parts(Append(q, u))
         /\ u = "end" => Whole(Append(q, u))
<1>1. PICK n \in Nat : n = Len(q)
  BY LenProperties
<1>2. PICK a : a = Append(q, u)
  OBVIOUS
<1>3. /\ a \in Seq(Units) /\ Len(a) = n + 1 /\ a[n + 1] = u /\ \A i \in 1..n : a[i] = q[i]
  BY <1>1, <1>2, AppendProperties
<1>4. \A i \in 1..n : a[i] = "part"
  BY <1>1, <1>3 DEF Parts
<1>5. a # <<>>
  BY <1>3, EmptySeq
<1>6. \A i \in 1..(n + 1) : i = n + 1 \/ i \in 1..n
  OBVIOUS
<1>7. u = "part" => Parts(a)
  BY <1>3, <1>4, <1>6 DEF Parts
<1>8. u = "end" => Whole(a)
  BY <1>3, <1>4, <1>5 DEF Whole
<1>9. QED BY <1>2, <1>5, <1>7, <1>8

LEMMA ReceivedPiece ==
  ASSUME NEW q \in Seq({"more", "last"}), q # <<>>, NEW p, p = Tail(q)
  PROVE  /\ Ending(q) => (Head(q) = "last" /\ p = <<>>) \/ (Head(q) # "last" /\ Ending(p))
         /\ (\A i \in 1..Len(q) : q[i] = "more")
              => Head(q) # "last" /\ \A i \in 1..Len(p) : p[i] = "more"
<1>1. PICK n \in Nat : n = Len(q)
  BY LenProperties
<1>2. /\ n > 0 /\ Head(q) = q[1] /\ p \in Seq({"more", "last"}) /\ Len(p) = n - 1
      /\ \A i \in 1..(n - 1) : p[i] = q[i + 1]
  BY <1>1, HeadTailProperties, EmptySeq
<1>3. ASSUME Ending(q)
      PROVE  (Head(q) = "last" /\ p = <<>>) \/ (Head(q) # "last" /\ Ending(p))
  <2>1. q[n] = "last" /\ \A i \in 1..(n - 1) : q[i] = "more"
    BY <1>1, <1>3 DEF Ending
  <2>2. CASE n = 1
    BY <1>2, <2>1, <2>2, EmptySeq
  <2>3. CASE n > 1
    <3>1. 1 \in 1..(n - 1) /\ Head(q) # "last"
      BY <1>2, <2>1, <2>3
    <3>2. p # <<>>
      <4>1. Len(p) # 0
        BY <1>2, <2>3
      <4>2. QED BY <4>1, EmptySeq
    <3>3. n - 1 \in 1..(n - 1) /\ (n - 1) + 1 = n
      BY <2>3
    <3>4. p[Len(p)] = "last"
      BY <1>2, <2>1, <3>3
    <3>5. \A i \in 1..((n - 1) - 1) : i \in 1..(n - 1) /\ i + 1 \in 1..(n - 1)
      BY <2>3
    <3>6. \A i \in 1..(Len(p) - 1) : p[i] = "more"
      BY <1>2, <2>1, <3>5
    <3>7. QED BY <3>1, <3>2, <3>4, <3>6 DEF Ending
  <2>4. QED BY <1>2, <2>2, <2>3
<1>4. ASSUME \A i \in 1..Len(q) : q[i] = "more"
      PROVE  Head(q) # "last" /\ \A i \in 1..Len(p) : p[i] = "more"
  <2>1. \A i \in 1..n : q[i] = "more"
    BY <1>1, <1>4
  <2>2. 1 \in 1..n /\ \A i \in 1..(n - 1) : i + 1 \in 1..n
    BY <1>2
  <2>3. QED BY <1>2, <2>1, <2>2
<1>5. QED BY <1>3, <1>4

\* What a client does to its side of a connection keeps the dialogue going.
Spoken(s, t) ==
  /\ t.armed = s.armed /\ (s.peer = "fin" => t.peer = "fin")
  /\ (s.inbox # <<>> \/ s.peer = "fin") => (t.inbox # <<>> \/ t.peer = "fin")
  /\ \A r : ~r.entered /\ Dialogue(r, s) => Dialogue(r, t)
  /\ \A r : Silent(r, s) => Silent(r, t)
  /\ s.outbox = <<>> /\ (IF s.waiting THEN Whole(s.inbox) ELSE Parts(s.inbox))
       => t.outbox = <<>> /\ (IF t.waiting THEN Whole(t.inbox) ELSE Parts(t.inbox))

LEMMA ClientSpeaks ==
  ASSUME Polite, Inv, NEW fd \in Fds, Flow(fd),
         ClientSend(fd) \/ ClientReceive(fd) \/ ClientLeave(fd)
  PROVE  Spoken(socket[fd], socket'[fd])
<1> DEFINE s == socket[fd]
<1>1. PICK t : t = socket'[fd]
  OBVIOUS
<1>2. /\ s \in SocketRecord /\ socket \in [Fds -> SocketRecord]
      /\ s.inbox \in Seq(Units) /\ s.outbox \in Seq({"more", "last"})
      /\ s.waiting \in BOOLEAN
  BY DEF Inv, TypeOK, SocketRecord
<1>3. CASE ClientSend(fd)
  <2>1. PICK u \in {"part", "end"} :
          socket' = [socket EXCEPT ![fd].inbox = Append(@, u), ![fd].waiting = u # "part"]
    BY <1>3 DEF ClientSend, Sendable, Polite
  <2>2. ~s.waiting
    BY <1>3 DEF ClientSend
  <2>3. /\ t.inbox = Append(s.inbox, u) /\ t.waiting = (u # "part") /\ t.armed = s.armed
        /\ t.outbox = s.outbox /\ t.peer = s.peer
    BY <1>1, <1>2, <2>1 DEF SocketRecord
  <2>4. PICK a : a = Append(s.inbox, u)
    OBVIOUS
  <2>5. Parts(s.inbox) => /\ a # <<>>
                          /\ u = "part" => Parts(a)
                          /\ u = "end" => Whole(a)
    BY <1>2, <2>4, SentLine DEF Units
  <2>6. s.inbox # <<>> => a # <<>>
    <3>1. Len(a) = Len(s.inbox) + 1 /\ Len(s.inbox) \in Nat /\ u \in Units
      BY <1>2, <2>4, AppendProperties, LenProperties DEF Units
    <3>2. Len(a) # 0
      BY <3>1
    <3>3. QED BY <3>2, EmptySeq
  <2>7. ASSUME NEW r, Dialogue(r, s) PROVE Dialogue(r, t)
    <3>1. Unanswered(r) /\ Composing(r, s)
      BY <2>2, <2>7 DEF Dialogue, Asked, Arrived, Replied, Streams
    <3>2. Composing(r, t) \/ Asked(r, t)
      BY <2>3, <2>4, <2>5, <3>1 DEF Composing, Asked
    <3>3. QED BY <3>1, <3>2 DEF Dialogue
  <2>8. \A r : ~Silent(r, s)
    BY <2>2 DEF Silent, Streams
  <2>9. QED BY <1>1, <2>2, <2>3, <2>4, <2>5, <2>6, <2>7, <2>8 DEF Spoken
<1>4. CASE ClientReceive(fd)
  <2>1. PICK p : p = Tail(s.outbox)
    OBVIOUS
  <2>2. /\ s.outbox # <<>>
        /\ t.outbox = p /\ t.waiting = (s.waiting /\ Head(s.outbox) # "last")
        /\ t.inbox = s.inbox /\ t.armed = s.armed /\ t.peer = s.peer
    BY <1>1, <1>2, <1>4, <2>1 DEF ClientReceive, SocketRecord
  <2>3. /\ Ending(s.outbox) => \/ Head(s.outbox) = "last" /\ p = <<>>
                               \/ Head(s.outbox) # "last" /\ Ending(p)
        /\ (\A i \in 1..Len(s.outbox) : s.outbox[i] = "more")
              => Head(s.outbox) # "last" /\ \A i \in 1..Len(p) : p[i] = "more"
    BY <1>2, <2>1, <2>2, ReceivedPiece
  <2>4. ASSUME NEW r, Dialogue(r, s) PROVE Dialogue(r, t)
    <3>1. \/ Unanswered(r) /\ Replied(r, s)
          \/ r.stream # "off" /\ r.parsed = Len(r.buf) /\ Streams(s)
      BY <2>2, <2>4 DEF Dialogue, Composing, Asked, Arrived
    <3>2. CASE Unanswered(r) /\ Replied(r, s)
      <4>1. Parts(<<>>)
        BY EmptySeq DEF Parts
      <4>2. Composing(r, t) \/ Replied(r, t)
        BY <2>2, <2>3, <3>2, <4>1 DEF Replied, Composing
      <4>3. QED BY <3>2, <4>2 DEF Dialogue
    <3>3. CASE r.stream # "off" /\ r.parsed = Len(r.buf) /\ Streams(s)
      BY <2>2, <2>3, <3>3 DEF Dialogue, Streams
    <3>4. QED BY <3>1, <3>2, <3>3
  <2>5. Streams(s) => Streams(t)
    BY <2>2, <2>3 DEF Streams
  <2>6. QED BY <1>1, <2>2, <2>4, <2>5 DEF Spoken, Silent
<1>5. CASE ClientLeave(fd)
  <2>1. /\ t.outbox = s.outbox /\ t.waiting = s.waiting /\ t.inbox = s.inbox
        /\ t.armed = s.armed /\ s.peer = "up"
    BY <1>1, <1>2, <1>5 DEF ClientLeave, SocketRecord
  <2>2. ASSUME NEW r, ~r.entered, Dialogue(r, s) PROVE Dialogue(r, t)
    BY <2>1, <2>2, SameDialogue DEF Same, SameLine
  <2>3. Streams(s) => Streams(t)
    BY <2>1 DEF Streams
  <2>4. QED BY <1>1, <2>1, <2>2, <2>3 DEF Spoken, Silent
<1>6. QED BY <1>3, <1>4, <1>5

LEMMA ClientStep ==
  ASSUME Polite, Inv, Flows, Users, ClientNext
  PROVE  Flows' /\ Users'
<1>1. PICK fd \in Fds : ClientSend(fd) \/ ClientReceive(fd) \/ ClientLeave(fd)
  BY DEF ClientNext
<1>2. /\ UNCHANGED <<completed, finishing, batch, phase, todo, adopting, connections,
                     pendingWrites, conn, jobs, worker>>
      /\ \A g \in Fds \ {fd} : socket'[g] = socket[g]
  BY <1>1 DEF ClientSend, ClientReceive, ClientLeave, queueVars, loopVars, mapVars, poolVars, Inv, TypeOK
<1>3. PICK s, t : s = socket[fd] /\ t = socket'[fd]
  OBVIOUS
<1>4. Flow(fd) /\ Spoken(s, t)
  BY <1>1, <1>3, ClientSpeaks DEF Flows
<1>5. /\ Registered' = Registered /\ \A g \in Fds : Events(g)' = Events(g)
      /\ BusyConns' = BusyConns /\ \A d \in BusyConns : Same(conn[d], conn'[d])
      /\ Settled' = Settled
  BY <1>2 DEF Registered, Events, BusyConns, InMap, Same, Settled
<1>6. Users'
  BY <1>2, <1>5, UsersFrame
<1>7. ASSUME fd \in Registered PROVE Flow(fd)'
  <2> DEFINE r == conn[connections[fd]]
  <2>1. r' = r /\ (socket[fd])' = t
    BY <1>2, <1>3
  <2>8. CASE Disturbed(fd, r)
    <3>1. Silent(r, t) /\ t.armed = s.armed /\ (s.peer = "fin" => t.peer = "fin")
      BY <1>3, <1>4, <2>8 DEF Disturbed, Spoken
    <3>2. Silent(r, socket[fd])'
      BY <2>1, <3>1 DEF Silent, Streams
    <3>3. Disturbed(fd, r)'
      BY <1>2, <1>3, <1>5, <2>1, <2>8, <3>1, <3>2 DEF Disturbed
    <3>4. QED BY <1>5, <1>7, <3>3 DEF Flow
  <2> SUFFICES ASSUME ~Disturbed(fd, r) PROVE Flow(fd)'
    BY <2>8
  <2>2. ~r.entered /\ Dialogue(r, t)
    BY <1>3, <1>4, <1>7 DEF Flow, Spoken
  <2>3. Dialogue(r, socket[fd])' /\ ~r'.entered
    BY <2>1, <2>2
  <2>4. \A dir, reports : Watched(fd, dir, reports) => Watched(fd, dir, reports)'
    BY <1>3, <1>4, <1>5, <2>1 DEF Watched, Spoken
  <2>5. t.armed = s.armed
    BY <1>4 DEF Spoken
  <2>6. \/ Working(fd, r)' \/ Listening(fd, r)' \/ Sending(fd, r)' \/ Ended(fd, r)'
    <3>1. CASE Working(fd, r)
      BY <1>2, <1>3, <1>5, <2>1, <2>5, <3>1 DEF Working
    <3>2. CASE Listening(fd, r)
      BY <1>2, <2>1, <2>4, <3>2 DEF Listening, Parts
    <3>3. CASE Sending(fd, r)
      BY <1>2, <2>1, <2>4, <3>3 DEF Sending
    <3>4. CASE Ended(fd, r)
      BY <1>2, <1>3, <2>1, <2>5, <3>4 DEF Ended
    <3>5. Working(fd, r) \/ Listening(fd, r) \/ Sending(fd, r) \/ Ended(fd, r)
      BY <1>4, <1>7 DEF Flow
    <3>6. QED BY <3>1, <3>2, <3>3, <3>4, <3>5
  <2>7. QED BY <1>5, <1>7, <2>3, <2>6 DEF Flow
<1>8. ASSUME fd \notin Registered PROVE Flow(fd)'
  <2>1. Accepted(fd)
    BY <1>4, <1>8 DEF Flow
  <2>2. /\ t.armed = "off" /\ t.outbox = <<>>
        /\ IF t.waiting THEN Whole(t.inbox) ELSE Parts(t.inbox)
    BY <1>3, <1>4, <2>1 DEF Accepted, Spoken
  <2>3. (socket[fd])' = t /\ (Events(fd)' = {} \/ Settled')
    BY <1>3, <1>5, <2>1 DEF Accepted
  <2>4. Accepted(fd)'
    <3>1. CASE t.waiting
      BY <2>2, <2>3, <3>1 DEF Accepted, Whole
    <3>2. CASE ~t.waiting
      BY <2>2, <2>3, <3>2 DEF Accepted, Parts
    <3>3. QED BY <3>1, <3>2
  <2>5. QED BY <1>5, <1>8, <2>4 DEF Flow
<1>9. ASSUME NEW g \in Fds \ {fd} PROVE Flow(g)'
  <2>1. Flow(g)
    BY DEF Flows
  <2>2. QED BY <1>2, <1>5, <2>1, FlowFrame
<1>10. Flow(fd)'
  BY <1>7, <1>8
<1>11. QED BY <1>6, <1>9, <1>10 DEF Flows

-----------------------------------------------------------------------------
(* The invariant of polite clients.                                        *)

LEMMA InitFlow == Init => FlowInv
<1> SUFFICES ASSUME Init PROVE FlowInv
  OBVIOUS
<1> USE DEF Init
<1>1. Parts(<<>>) /\ Registered = {} /\ InMap = {}
  BY EmptySeq DEF Parts, Registered, InMap
<1>2. ASSUME NEW fd \in Fds PROVE Flow(fd)
  BY <1>1 DEF Flow, Accepted, Events, ClosedSocket
<1>3. /\ BusyConns = {} /\ Queued = {} /\ Held = {} /\ Reported(completed) = {}
      /\ Reported(finishing) = {}
  BY <1>1, EmptySeq DEF BusyConns, Queued, Held, Reported, IdleWorker, Handless
<1>4. Users
  BY <1>3, EmptySeq DEF Users, OnePlace, Once, Progress, IdleWorker, Handless
<1>5. LoopOK
  BY DEF LoopOK
<1>6. QED BY <1>2, <1>4, <1>5 DEF FlowInv, Flows

\* Outside the reactor thread nothing moves its loop.
LEMMA LoopStays ==
  ASSUME LoopOK, UNCHANGED <<phase, batch, finishing, todo, pendingWrites>>
  PROVE  LoopOK'
BY DEF LoopOK

LEMMA ReactorKeepsFlow ==
  ASSUME Polite, Inv, FlowInv, ReactorNext
  PROVE  FlowInv'
<1>1. LoopOK /\ Flows /\ Users
  BY DEF FlowInv
<1>2. phase \in {"wait", "events", "drained", "notify", "resume", "reap", "retry", "expire"}
  BY DEF Inv, TypeOK
<1>3. CASE EpollWait
  <2>1. LoopOK'
    BY <1>1, <1>3 DEF EpollWait, LoopOK
  <2>2. QED BY <1>1, <1>3, <2>1, PollStep DEF FlowInv
<1>4. CASE HandleEvent
  <2>1. phase' = "events" /\ phase = "events" /\ finishing' = finishing
    BY <1>4 DEF HandleEvent
  <2>2. LoopOK'
    BY <1>1, <2>1 DEF LoopOK
  <2>3. QED BY <1>1, <1>4, <2>2, EventStep DEF FlowInv
<1>5. CASE TakeNotifications
  <2>1. LoopOK'
    BY <1>1, <1>5 DEF TakeNotifications, LoopOK
  <2>2. QED BY <1>1, <1>5, <2>1, SwapStep DEF FlowInv
<1>15. CASE DrainNotifications
  <2>1. LoopOK'
    BY <1>1, <1>15 DEF DrainNotifications, DrainOrSwap, NotificationOrder, LoopOK
  <2>2. QED BY <1>1, <1>15, <2>1, DrainStep DEF FlowInv
<1>6. CASE Adopt
  <2>1. LoopOK'
    BY <1>1, <1>6 DEF Adopt, LoopOK
  <2>2. QED BY <1>1, <1>6, <2>1, AdoptStep DEF FlowInv
<1>7. CASE Finish
  <2>1. LoopOK'
    BY <1>1, <1>7 DEF Finish, LoopOK
  <2>2. QED BY <1>1, <1>7, <2>1, CompletionStep DEF FlowInv
<1>8. CASE EndNotifications
  <2>1. LoopOK'
    BY <1>8 DEF EndNotifications, LoopOK
  <2>2. /\ UNCHANGED <<connections, pendingWrites, conn, socket, jobs, worker, completed, finishing,
                       batch>>
        /\ phase = "notify" /\ (Settled => Settled')
    BY <1>8 DEF EndNotifications, queueVars, mapVars, poolVars, Settled
  <2>3. \A g \in Fds : Events(g)' = Events(g)
    BY <2>2 DEF Events
  <2>4. Flows' /\ Users'
    BY <1>1, <2>2, <2>3, LoopStep
  <2>5. QED BY <2>1, <2>4 DEF FlowInv
<1>9. CASE NextSweep
  <2>1. /\ batch = {} /\ batch' = batch /\ phase # "notify" /\ finishing' = finishing
        /\ phase' \in {"wait", "resume", "reap", "retry", "expire"}
        /\ phase' = "retry" => todo' = pendingWrites /\ pendingWrites' = pendingWrites
    BY <1>9 DEF NextSweep, Sweep, mapVars
  <2>2. LoopOK'
    BY <1>1, <2>1 DEF LoopOK
  <2>3. QED BY <1>1, <1>9, <2>2, SweepStep DEF FlowInv
<1>10. CASE Resume
  <2>1. PICK fd \in Registered : Visit("resume", fd) /\ ResumeStream(fd)
    BY <1>10 DEF Resume
  <2>2. Flows' /\ Users'
    BY <1>1, <2>1, ResumeStep
  <2>3. LoopOK'
    BY <1>1, <2>1, VisitElsewhere DEF LoopOK
  <2>4. QED BY <2>2, <2>3 DEF FlowInv
<1>11. ASSUME NEW in \in {"reap", "expire"}, NEW fd \in Registered, Visit(in, fd), Close(fd)
       PROVE  FlowInv'
  <2>1. /\ Elsewhere(fd) /\ UNCHANGED <<worker, completed, finishing, batch, phase>>
        /\ phase = in
    BY <1>1, <1>11, VisitElsewhere
  <2>2. Flows' /\ Users'
    BY <1>1, <1>11, <2>1, SweepCloseStep
  <2>3. LoopOK'
    BY <1>1, <2>1 DEF LoopOK
  <2>4. QED BY <2>2, <2>3 DEF FlowInv
<1>12. CASE Reap \/ Expire
  BY <1>11, <1>12 DEF Reap, Expire
<1>13. CASE Retry
  <2>1. PICK fd \in Registered : Visit("retry", fd) /\ HandleWrite(fd)
    BY <1>13 DEF Retry
  <2>2. QED BY <1>1, <2>1, RetryStep DEF FlowInv
<1>14. QED
  BY <1>3, <1>4, <1>5, <1>6, <1>7, <1>8, <1>9, <1>10, <1>12, <1>13,
     <1>15 DEF ReactorNext

LEMMA NextKeepsFlow == Polite /\ Inv /\ FlowInv /\ [Next]_vars => FlowInv'
<1> SUFFICES ASSUME Polite, Inv, FlowInv, [Next]_vars PROVE FlowInv'
  OBVIOUS
<1>1. LoopOK /\ Flows /\ Users
  BY DEF FlowInv
<1>2. CASE ReactorNext
  BY <1>2, ReactorKeepsFlow
<1>3. CASE Accept
  <2>1. LoopOK'
    BY <1>1, <1>3, LoopStays DEF Accept, loopVars, mapVars
  <2>2. QED BY <1>1, <1>3, <2>1, AcceptStep DEF FlowInv
<1>4. CASE \E w \in Workers : WorkerNext(w)
  <2>1. PICK w \in Workers : WorkerNext(w)
    BY <1>4
  <2>2. UNCHANGED <<phase, batch, finishing, todo, pendingWrites>>
    BY <2>1 DEF WorkerNext, Take, Process, PublishStream, BuildStream, Notify, WakeReactor,
       loopVars, mapVars
  <2>3. QED BY <1>1, <2>1, <2>2, LoopStays, WorkerStep DEF FlowInv
<1>5. CASE ClientNext
  <2>1. UNCHANGED <<phase, batch, finishing, todo, pendingWrites>>
    BY <1>5 DEF ClientNext, ClientSend, ClientReceive, ClientLeave, loopVars, mapVars
  <2>2. QED BY <1>1, <1>5, <2>1, LoopStays, ClientStep DEF FlowInv
<1>6. CASE UNCHANGED vars \/ WakeAfterAccept
  <2>1. UNCHANGED <<connections, pendingWrites, conn, socket, jobs, worker, completed, finishing,
                    batch, phase, todo, adopting>>
    BY <1>6 DEF vars, WakeAfterAccept, queueVars, loopVars, mapVars, poolVars
  <2>2. \A g \in Fds : Events(g)' = Events(g)
    BY <2>1 DEF Events
  <2>3. Flows' /\ Users'
    BY <1>1, <2>1, <2>2, LoopStep DEF Settled
  <2>4. QED BY <1>1, <2>1, <2>3, LoopStays DEF FlowInv
<1>7. QED BY <1>2, <1>3, <1>4, <1>5, <1>6 DEF Next

LEMMA FlowInvariance == ASSUME Polite PROVE Spec => []FlowInv
<1>1. Inv /\ FlowInv /\ [Next]_vars => FlowInv'
  BY NextKeepsFlow
<1>2. QED BY <1>1, InitFlow, Invariance, PTL DEF Spec

\* The only user of a busy object is where OnePlace says it is.
LEMMA OneUse ==
  ASSUME Inv, OnePlace, Once, NEW c \in Conns
  PROVE  IF c \in InMap /\ conn[c].busy THEN Uses(c) = 1 ELSE Uses(c) = 0
<1> DEFINE J == {i \in 1..Len(jobs) : jobs[i] = c}
           W == {w \in Workers : worker[w].conn = c}
           C == {i \in 1..Len(completed) : completed[i].conn = c}
           F == {i \in 1..Len(finishing) : finishing[i].conn = c}
<1>1. /\ c \notin Queued => J = {}
      /\ c \notin Held => W = {}
      /\ c \notin Reported(completed) => C = {}
      /\ c \notin Reported(finishing) => F = {}
  <2>1. c # NoConn
    BY ReactorAssumption
  <2>2. \A w \in Workers : worker[w].conn = c => worker[w].at \notin Handless
    BY <2>1 DEF Once
  <2>3. QED BY <2>2 DEF Queued, Held, Reported
<1>2. /\ c \in Queued => \E i : J = {i}
      /\ c \in Held => \E w : W = {w}
      /\ c \in Reported(completed) => \E i : C = {i}
      /\ c \in Reported(finishing) => \E i : F = {i}
  <2>1. ASSUME c \in Queued PROVE \E i : J = {i}
    <3>1. PICK i \in 1..Len(jobs) : jobs[i] = c
      BY <2>1 DEF Queued
    <3>2. J = {i}
      BY <3>1 DEF Once
    <3>3. QED BY <3>2
  <2>2. ASSUME c \in Held PROVE \E w : W = {w}
    <3>1. PICK w \in Workers : worker[w].at \notin Handless /\ worker[w].conn = c
      BY <2>2 DEF Held
    <3>2. \A v \in Workers : worker[v].conn = c => worker[v].at \notin Handless
      BY ReactorAssumption DEF Once
    <3>3. \A v \in Workers : worker[v].conn = c => v = w
      BY <3>1, <3>2 DEF Once
    <3>4. W = {w}
      BY <3>1, <3>3
    <3>5. QED BY <3>4
  <2>3. ASSUME c \in Reported(completed) PROVE \E i : C = {i}
    <3>1. PICK i \in 1..Len(completed) : completed[i].conn = c
      BY <2>3 DEF Reported
    <3>2. C = {i}
      BY <3>1 DEF Once
    <3>3. QED BY <3>2
  <2>4. ASSUME c \in Reported(finishing) PROVE \E i : F = {i}
    <3>1. PICK i \in 1..Len(finishing) : finishing[i].conn = c
      BY <2>4 DEF Reported
    <3>2. F = {i}
      BY <3>1 DEF Once
    <3>3. QED BY <3>2
  <2>5. QED BY <2>1, <2>2, <2>3, <2>4
<1> HIDE DEF J, W, C, F
<1>3. /\ c \notin Queued => Cardinality(J) = 0
      /\ c \notin Held => Cardinality(W) = 0
      /\ c \notin Reported(completed) => Cardinality(C) = 0
      /\ c \notin Reported(finishing) => Cardinality(F) = 0
  BY <1>1, FS_EmptySet
<1>4. /\ c \in Queued => Cardinality(J) = 1
      /\ c \in Held => Cardinality(W) = 1
      /\ c \in Reported(completed) => Cardinality(C) = 1
      /\ c \in Reported(finishing) => Cardinality(F) = 1
  BY <1>2, FS_Singleton
<1>5. Uses(c) = Cardinality(J) + Cardinality(W) + Cardinality(C) + Cardinality(F)
  BY DEF Uses, J, W, C, F
<1>6. CASE c \in BusyConns
  <2>1. Uses(c) = 1
    BY <1>3, <1>4, <1>5, <1>6 DEF OnePlace
  <2>2. QED BY <1>6, <2>1 DEF BusyConns
<1>7. CASE c \notin BusyConns
  <2>1. Uses(c) = 0
    BY <1>3, <1>5, <1>7 DEF OnePlace
  <2>2. QED BY <1>7, <2>1 DEF BusyConns
<1>8. QED BY <1>6, <1>7

\* While clients wait for each response and responses fit the send buffer,
\* dispatch, processing and completion keep a pooled http_conn with one thread:
\* the sub reactor neither recycles it nor dispatches it a second time under a
\* worker, and has no event, retry or armed interest with which to go on with it,
\* unless its sweep has entered the stream while the response was built.
THEOREM OneUser == ASSUME Polite PROVE Spec => []OneUserPerConnection
<1>1. Inv /\ FlowInv => OneUserPerConnection
  <2> SUFFICES ASSUME Inv, FlowInv PROVE OneUserPerConnection
    OBVIOUS
  <2>1. ASSUME NEW fd \in Registered, conn[connections[fd]].busy, ~conn[connections[fd]].entered
        PROVE  ~Claimed(fd)
    <3>1. Working(fd, conn[connections[fd]])
      BY <2>1, RegisteredType DEF FlowInv, Flows, Flow, Listening, Sending, Ended, Disturbed, Silent
    <3>2. QED BY <3>1 DEF Working, Claimed, Events
  <2>2. QED BY <2>1, OneUse DEF FlowInv, Users, OneUserPerConnection
<1>2. QED BY <1>1, Invariance, FlowInvariance, PTL

\* With the same clients no one-shot descriptor is left disarmed with nobody to
\* go on with it: an event of the batch, a worker or the sweep of
\* m_pending_writes does.
THEOREM NobodyForgotten == ASSUME Polite PROVE Spec => []NoForgottenConnection
<1>1. FlowInv => NoForgottenConnection
  <2> SUFFICES ASSUME FlowInv, NEW fd \in Registered, socket[fd].armed = "off",
                      ~conn[connections[fd]].busy
               PROVE  \/ \E e \in batch : e.fd = fd
                      \/ fd \in pendingWrites /\ conn[connections[fd]].unsent > 0
    BY DEF NoForgottenConnection
  <2>1. fd \in Fds
    BY DEF Registered
  <2>2. CASE Disturbed(fd, conn[connections[fd]])
    BY <2>2 DEF Disturbed, Events
  <2>3. CASE ~Disturbed(fd, conn[connections[fd]])
    BY <2>1, <2>3 DEF FlowInv, Flows, Flow, Working, Listening, Sending, Ended, Watched, Events
  <2>4. QED BY <2>2, <2>3
<1>2. QED BY <1>1, FlowInvariance, PTL

\* With the same clients no worker makes a response in an object that still has
\* to send the last one, except into a stream that the sweep has entered.
THEOREM ResponsesNotReplaced == ASSUME Polite PROVE Spec => []ResponseNotReplaced
<1>1. FlowInv => ResponseNotReplaced
  BY DEF FlowInv, Users, Progress, Unanswered, Opening, ResponseNotReplaced
<1>2. QED BY <1>1, FlowInvariance, PTL

-----------------------------------------------------------------------------
(* Buffered requests.                                                      *)

\* What a step may make of an object: its buffer and what is parsed of it stay,
\* it is taken by another client, all of it was answered, or more of it is.
KeepsRequest(r, q) ==
  \/ q.buf = r.buf /\ q.parsed = r.parsed
  \/ q.gen # r.gen \/ q.fd # r.fd
  \/ NextEnd(r.buf, r.parsed) = {}
  \/ q.parsed > r.parsed

\* No end of a request is left where all is parsed, or only parts have come.
LEMMA NothingLeft ==
  ASSUME NEW r \in ConnRecord,
         r.parsed = Len(r.buf) \/ (r.parsed = 0 /\ Parts(r.buf))
  PROVE  NextEnd(r.buf, r.parsed) = {}
<1>1. r.buf \in Seq(Units)
  BY DEF ConnRecord
<1>2. PICK n \in Nat : n = Len(r.buf)
  BY <1>1, LenProperties
<1>3. CASE r.parsed = Len(r.buf)
  <2>1. (n + 1)..n = {}
    OBVIOUS
  <2>2. QED BY <1>2, <1>3, <2>1 DEF NextEnd
<1>4. CASE r.parsed = 0 /\ Parts(r.buf)
  BY <1>1, <1>4, ParsedRequest
<1>5. QED BY <1>3, <1>4

\* Closing a connection leaves the buffer of its object alone.
LEMMA CloseKeepsRequests ==
  ASSUME Inv, NEW fd \in Registered, NEW cs, OnlyObject(cs, connections[fd]), NEW sk,
         CloseConnection(fd, cs, sk),
         cs[connections[fd]].buf = conn[connections[fd]].buf,
         cs[connections[fd]].parsed = conn[connections[fd]].parsed
  PROVE  \A d \in Conns : KeepsRequest(conn[d], conn'[d])
<1> DEFINE c == connections[fd]
           q == cs[c]
<1>1. c \in Conns /\ cs \in [Conns -> ConnRecord] /\ q \in ConnRecord
      /\ \A d \in Conns \ {c} : cs[d] = conn[d]
  BY RegisteredType DEF OnlyObject
<1>2. \/ conn' = [cs EXCEPT ![c].timedOut = TRUE]
      \/ conn' = [cs EXCEPT ![c].fd = NoFd, ![c].stream = "off"]
  BY DEF CloseConnection
<1>3. /\ \A d \in Conns \ {c} : conn'[d] = conn[d]
      /\ \/ conn'[c] = [q EXCEPT !.timedOut = TRUE]
         \/ conn'[c] = [q EXCEPT !.fd = NoFd, !.stream = "off"]
  BY <1>1, <1>2
<1>4. conn'[c].buf = q.buf /\ conn'[c].parsed = q.parsed
  BY <1>1, <1>3 DEF ConnRecord
<1>5. QED BY <1>3, <1>4 DEF KeepsRequest

\* Everything in the buffer of the only object a handler changes is answered.
LEMMA OthersKeepRequests ==
  ASSUME NEW c \in Conns, \A d \in Conns \ {c} : conn'[d] = conn[d],
         NextEnd(conn[c].buf, conn[c].parsed) = {}
  PROVE  \A d \in Conns : KeepsRequest(conn[d], conn'[d])
BY DEF KeepsRequest

LEMMA ReadKeepsRequests ==
  ASSUME Inv, Flows, NEW fd \in Registered, NEW e, Events(fd) = {e}, e.ev = "in",
         phase = "events", HandleRead(fd)
  PROVE  \A d \in Conns : KeepsRequest(conn[d], conn'[d])
<1> DEFINE c == connections[fd]
           r == conn[c]
<1>1. c \in Conns /\ fd \in Fds /\ r \in ConnRecord /\ conn \in [Conns -> ConnRecord]
  BY RegisteredType DEF Inv, TypeOK
<1>2. (Dialogue(r, socket[fd]) /\ Listening(fd, r)) \/ Disturbed(fd, r)
  BY <1>1 DEF Flows, Flow, Working, Sending, Ended, Watched
<1>3. NextEnd(r.buf, r.parsed) = {}
  <2>1. r.parsed = Len(r.buf) \/ (r.parsed = 0 /\ Parts(r.buf))
    BY <1>2, ReactorAssumption DEF Dialogue, Unanswered, Answered, Listening, Disturbed, Silent
  <2>2. QED BY <1>1, <2>1, NothingLeft
<1>4. \A d \in Conns \ {c} : conn'[d] = conn[d]
  BY <1>1 DEF HandleRead, Dispatch, CloseConnection
<1>5. QED BY <1>1, <1>3, <1>4, OthersKeepRequests

LEMMA WriteKeepsRequests ==
  ASSUME Polite, Inv, Flows, NEW fd \in Registered, HandleWrite(fd),
         \/ Disturbed(fd, conn[connections[fd]])
         \/ ~conn[connections[fd]].entered /\ Sending(fd, conn[connections[fd]])
  PROVE  \A d \in Conns : KeepsRequest(conn[d], conn'[d])
<1> DEFINE c == connections[fd]
           r == conn[c]
<1>1. c \in Conns /\ fd \in Fds /\ r \in ConnRecord /\ conn \in [Conns -> ConnRecord]
  BY RegisteredType DEF Inv, TypeOK
<1>2. (Dialogue(r, socket[fd]) /\ r.unsent > 0) \/ Disturbed(fd, r)
  BY <1>1 DEF Flows, Flow, Sending
<1>3. NextEnd(r.buf, r.parsed) = {}
  <2>1. r.parsed = Len(r.buf)
    BY <1>2 DEF Dialogue, Unanswered, Answered, Disturbed, Silent
  <2>2. QED BY <1>1, <2>1, NothingLeft
<1>4. \A d \in Conns \ {c} : conn'[d] = conn[d]
  <2> DEFINE Only(cs) == DOMAIN cs = Conns /\ \A d \in Conns \ {c} : cs[d] = conn[d]
  <2>1. ASSUME NEW cs, NEW x, Only(cs)
        PROVE  Only([cs EXCEPT ![c] = x])
    BY <2>1
  <2>2. ASSUME NEW cs, Only(cs), NEW sk, NEW pending,
               \/ CloseConnection(fd, cs, sk) \/ Dispatch(fd, cs, sk, pending)
               \/ KeepOpen(fd, cs, sk, pending)
        PROVE  Only(conn')
    <3>1. \/ conn' = cs
          \/ \E x : conn' = [cs EXCEPT ![c] = x]
          \/ \E x, y : conn' = [[cs EXCEPT ![c] = x] EXCEPT ![c] = y]
      BY <2>2 DEF CloseConnection, Dispatch, KeepOpen
    <3> HIDE DEF Only
    <3>2. QED BY <2>1, <2>2, <3>1
  <2>3. Only(conn) /\ \A x : Only([conn EXCEPT ![c] = x])
    BY <1>1
  <2>4. \E cs, sk, pending :
          /\ cs = conn \/ \E x : cs = [conn EXCEPT ![c] = x]
          /\ \/ CloseConnection(fd, cs, sk) \/ Dispatch(fd, cs, sk, pending)
             \/ KeepOpen(fd, cs, sk, pending)
    BY DEF HandleWrite, WriteNothing, WriteBlocks, WriteFails, WriteCompletes, WriteChunk
  <2> HIDE DEF Only
  <2>5. Only(conn')
    BY <2>2, <2>3, <2>4
  <2>6. QED BY <2>5 DEF Only
<1>5. QED BY <1>1, <1>3, <1>4, OthersKeepRequests

\* A completion clears flags of its object, and may close its connection.
LEMMA FinishKeepsRequests ==
  ASSUME Inv, Finish
  PROVE  \A d \in Conns : KeepsRequest(conn[d], conn'[d])
<1>1. PICK e : e = Head(finishing)
  OBVIOUS
<1>2. \/ UNCHANGED conn
      \/ IsCurrent(e) /\ ApplyCompletion(e)
  BY <1>1 DEF Finish
<1>3. CASE UNCHANGED conn
  BY <1>3 DEF KeepsRequest
<1>4. CASE IsCurrent(e) /\ ApplyCompletion(e)
  <2> DEFINE fd == e.fd
             c == connections[fd]
             q == [conn[c] EXCEPT !.busy = FALSE, !.timedOut = FALSE]
             idle == [conn EXCEPT ![c].busy = FALSE, ![c].timedOut = FALSE]
  <2>1. fd \in Registered /\ c = e.conn
    BY <1>4 DEF IsCurrent
  <2>2. /\ c \in Conns /\ conn \in [Conns -> ConnRecord] /\ conn[c] \in ConnRecord
        /\ Len(conn[c].buf) <= ReadBufferSize
    BY <2>1, RegisteredType DEF Inv, TypeOK
  <2>3. /\ q \in ConnRecord /\ q.buf = conn[c].buf /\ q.parsed = conn[c].parsed
        /\ q.fd = conn[c].fd
    BY <2>2 DEF ConnRecord
  <2>4. idle = [conn EXCEPT ![c] = q]
    BY <2>2
  <2>5. CloseConnection(fd, idle, socket) \/ conn' = idle
    BY <1>4, <2>1 DEF ApplyCompletion, KeepOpen
  <2> HIDE DEF q, idle, fd
  <2>6. OnlyObject(idle, c) /\ idle[c] = q /\ \A d \in Conns \ {c} : idle[d] = conn[d]
    BY <2>1, <2>2, <2>3, <2>4, InvParts, HandlerObject
  <2>7. CASE CloseConnection(fd, idle, socket)
    BY <2>1, <2>3, <2>6, <2>7, CloseKeepsRequests
  <2>8. CASE conn' = idle
    <3>1. \A d \in Conns : d = c \/ d \in Conns \ {c}
      OBVIOUS
    <3>2. QED BY <2>3, <2>6, <2>8, <3>1 DEF KeepsRequest
  <2>9. QED BY <2>5, <2>7, <2>8
<1>5. QED BY <1>2, <1>3, <1>4

LEMMA ReactorKeepsRequests ==
  ASSUME Polite, Inv, FlowInv, ReactorNext
  PROVE  \A d \in Conns : KeepsRequest(conn[d], conn'[d])
<1>1. LoopOK /\ Flows /\ Users /\ conn \in [Conns -> ConnRecord]
  BY DEF FlowInv, Inv, TypeOK
<1>2. CASE UNCHANGED conn
  BY <1>2 DEF KeepsRequest
<1>3. ASSUME NEW fd \in Registered, CloseConnection(fd, conn, socket)
      PROVE  \A d \in Conns : KeepsRequest(conn[d], conn'[d])
  BY <1>3, InvParts, Untouched, CloseKeepsRequests
<1>4. CASE HandleEvent
  <2>1. PICK e \in batch \ {NotifyEvent} :
          /\ phase = "events"
          /\ \/ UNCHANGED conn
             \/ /\ e.fd \in Registered
                /\ \/ CloseConnection(e.fd, conn, socket)
                   \/ e.ev = "in" /\ HandleRead(e.fd)
                   \/ e.ev = "out" /\ HandleWrite(e.fd)
    BY <1>4 DEF HandleEvent
  <2>2. e \in Events(e.fd)
    BY <2>1 DEF Events
  <2>3. PICK fd : fd = e.fd
    OBVIOUS
  <2>4. fd \in Registered =>
          /\ Events(fd) = {e}
          /\ e.ev = "out" =>
                \/ Disturbed(fd, conn[connections[fd]])
                \/ ~conn[connections[fd]].entered /\ Sending(fd, conn[connections[fd]])
    <3>1. fd \in Registered => fd \in Fds /\ e \in Events(fd)
      BY <2>2, <2>3 DEF Registered
    <3>2. QED BY <1>1, <2>1, <3>1, ReportedConnection
  <2>5. QED
    BY <1>1, <1>2, <1>3, <2>1, <2>3, <2>4, ReadKeepsRequests, WriteKeepsRequests
<1>5. CASE Adopt
  <2>1. PICK item \in adopting : conn' = [conn EXCEPT ![item.conn] = Adopted(@, item.fd)]
    BY <1>5 DEF Adopt
  <2>2. PICK c \in Conns : c = item.conn
    BY <2>1 DEF Inv, TypeOK, Handoff
  <2>3. conn'[c].gen = conn[c].gen + 1 /\ conn[c].gen \in Nat
    BY <1>1, <2>1, <2>2 DEF Adopted, Cleared, ConnRecord
  <2>4. \A d \in Conns \ {c} : conn'[d] = conn[d]
    BY <1>1, <2>1, <2>2
  <2>5. conn'[c].gen # conn[c].gen
    BY <2>3
  <2>6. QED BY <2>4, <2>5 DEF KeepsRequest
<1>6. CASE Finish
  BY <1>6, FinishKeepsRequests
<1>7. CASE Resume
  <2>1. PICK fd \in Registered : Visit("resume", fd) /\ ResumeStream(fd)
    BY <1>7 DEF Resume
  <2> DEFINE c == connections[fd]
             r == conn[c]
  <2>2. c \in Conns /\ r \in ConnRecord
    BY RegisteredType
  <2> DEFINE r0 == [r EXCEPT !.entered = @ \/ r.busy]
             done(n) == [r0 EXCEPT !.stream = "done", !.unsent = n]
  <2>3. PICK q : /\ q = r \/ q = [r0 EXCEPT !.unsent = 1] \/ \E n \in {0, 1} : q = done(n)
                 /\ conn' = [conn EXCEPT ![c] = q]
    BY <1>1, <2>1, <2>2 DEF ResumeStream, KeepOpen
  <2>4. q.buf = r.buf /\ q.parsed = r.parsed
    BY <2>2, <2>3 DEF ConnRecord
  <2> HIDE DEF r
  <2>5. conn'[c] = q /\ \A d \in Conns \ {c} : conn'[d] = conn[d]
    BY <1>1, <2>2, <2>3
  <2>6. QED BY <2>4, <2>5 DEF KeepsRequest, r
<1>8. CASE Reap \/ Expire
  <2>1. \E fd \in Registered : CloseConnection(fd, conn, socket)
    BY <1>8 DEF Reap, Expire, Close
  <2>2. QED BY <1>3, <2>1
<1>9. CASE Retry
  <2>1. PICK fd \in Registered : Visit("retry", fd) /\ HandleWrite(fd)
    BY <1>9 DEF Retry
  <2>2. \/ Disturbed(fd, conn[connections[fd]])
        \/ ~conn[connections[fd]].entered /\ Sending(fd, conn[connections[fd]])
    BY <1>1, <2>1, RetriedConnection
  <2>3. QED BY <1>1, <2>1, <2>2, WriteKeepsRequests
<1>10. CASE \/ EpollWait \/ DrainNotifications \/ TakeNotifications \/ EndNotifications
            \/ NextSweep
  BY <1>2, <1>10 DEF EpollWait, DrainNotifications, TakeNotifications, EndNotifications, NextSweep,
     Sweep
<1>11. QED
  BY <1>4, <1>5, <1>6, <1>7, <1>8, <1>9, <1>10 DEF ReactorNext

\* A worker that answers a request goes behind its end.
LEMMA WorkerKeepsRequests ==
  ASSUME Inv, FlowInv, NEW w \in Workers, WorkerNext(w)
  PROVE  \A d \in Conns : KeepsRequest(conn[d], conn'[d])
<1> DEFINE c == worker[w].conn
           r == conn[c]
<1>1. CASE UNCHANGED conn
  BY <1>1 DEF KeepsRequest
<1>2. ASSUME worker[w].at = "working"
      PROVE  /\ ~Reject(c) /\ r.parsed = 0 /\ c \in Conns /\ conn \in [Conns -> ConnRecord]
             /\ Parts(r.buf) \/ Whole(r.buf)
  <2>1. Flows /\ Users /\ conn \in [Conns -> ConnRecord]
    BY DEF FlowInv, Inv, TypeOK
  <2>2. QED BY <1>2, <2>1, WorkedConnection
<1>3. ASSUME worker[w].at = "working", NEW e \in Answerable(r),
             NEW q \in ConnRecord, q.parsed = e, conn' = [conn EXCEPT ![c] = q]
      PROVE  \A d \in Conns : KeepsRequest(conn[d], conn'[d])
  <2>6. conn'[c].parsed = e /\ \A d \in Conns \ {c} : conn'[d] = conn[d]
    BY <1>2, <1>3
  <2>1. r.parsed = 0 /\ r \in ConnRecord /\ Len(r.buf) \in Nat
    <3>1. r \in ConnRecord /\ r.parsed = 0
      BY <1>2, <1>3
    <3>2. QED BY <3>1, LenProperties DEF ConnRecord
  <2>2. e \in NextEnd(r.buf, 0)
    BY <1>3, <2>1 DEF Answerable
  <2>3. e \in (0 + 1)..Len(r.buf)
    BY <2>2 DEF NextEnd
  <2>4. conn'[c].parsed > conn[c].parsed
    BY <2>1, <2>3, <2>6
  <2> HIDE DEF c
  <2>5. QED BY <2>4, <2>6 DEF KeepsRequest
<1>8. ASSUME worker[w].at = "working" PROVE Answerable(r) \subseteq Nat
  <2>1. r.parsed = 0 /\ r \in ConnRecord /\ Len(r.buf) \in Nat
    <3>1. r \in ConnRecord /\ r.parsed = 0
      BY <1>2, <1>8
    <3>2. QED BY <3>1, LenProperties DEF ConnRecord
  <2>2. NextEnd(r.buf, 0) \subseteq Nat
    BY <2>1 DEF NextEnd
  <2>3. QED BY <2>1, <2>2 DEF Answerable
<1>4. CASE Process(w)
  <2>1. worker[w].at = "working" /\ (UNCHANGED conn \/ Answer(c) \/ Reject(c))
    BY <1>4 DEF Process, Incomplete
  <2>2. CASE Answer(c)
    <3>1. PICK e \in Answerable(r), n \in Nat :
            conn' = [conn EXCEPT ![c].unsent = n, ![c].parsed = e]
      <4>1. Built(r) \subseteq Nat
        BY ReactorAssumption DEF Built
      <4>2. QED BY <2>2, <4>1 DEF Answer
    <3>2. PICK q : q = [r EXCEPT !.unsent = n, !.parsed = e]
      OBVIOUS
    <3>3. conn' = [conn EXCEPT ![c] = q]
      BY <1>2, <2>1, <3>1, <3>2
    <3>4. q \in ConnRecord /\ q.parsed = e
      <4>1. r \in ConnRecord /\ e \in Nat
        BY <1>2, <1>8, <2>1
      <4> HIDE DEF r
      <4>2. QED BY <3>2, <4>1 DEF ConnRecord
    <3>5. QED BY <1>3, <2>1, <3>3, <3>4
  <2>3. QED BY <1>1, <1>2, <2>1, <2>2
<1>5. CASE PublishStream(w)
  <2>1. worker[w].at = "working"
    BY <1>5 DEF PublishStream
  <2>2. PICK e \in Answerable(r) :
          conn' = [conn EXCEPT ![c].parsed = e, ![c].stream = "on"]
    BY <1>5 DEF PublishStream
  <2>3. PICK q : q = [r EXCEPT !.parsed = e, !.stream = "on"]
    OBVIOUS
  <2>4. conn' = [conn EXCEPT ![c] = q]
    BY <1>2, <2>1, <2>2, <2>3
  <2>5. q \in ConnRecord /\ q.parsed = e
    <3>1. r \in ConnRecord /\ e \in Nat
      BY <1>2, <1>8, <2>1
    <3> HIDE DEF r
    <3>2. QED BY <2>3, <3>1 DEF ConnRecord
  <2>6. QED BY <1>3, <2>1, <2>4, <2>5
<1>6. ASSUME NEW n, conn' = [conn EXCEPT ![c].unsent = n]
      PROVE  \A d \in Conns : KeepsRequest(conn[d], conn'[d])
  <2>1. conn \in [Conns -> ConnRecord]
    BY DEF Inv, TypeOK
  <2> HIDE DEF c
  <2>2. \A d \in Conns : conn'[d].buf = conn[d].buf /\ conn'[d].parsed = conn[d].parsed
    BY <1>6, <2>1 DEF ConnRecord
  <2>3. QED BY <2>2 DEF KeepsRequest
<1>7. QED BY <1>1, <1>4, <1>5, <1>6 DEF WorkerNext, Take, BuildStream, Notify, WakeReactor

\* While clients wait for each response, a complete request that was read stays
\* in the buffer of its http_conn, whatever is read, written, timed out or closed
\* meanwhile, until a worker has answered it or the connection is closed.
THEOREM RequestsKept == ASSUME Polite PROVE Spec => RequestKept
<1>1. Inv /\ FlowInv /\ [Next]_vars => \A d \in Conns : KeepsRequest(conn[d], conn'[d])
  <2> SUFFICES ASSUME Inv, FlowInv, [Next]_vars
               PROVE  \A d \in Conns : KeepsRequest(conn[d], conn'[d])
    OBVIOUS
  <2>1. CASE UNCHANGED conn
    BY <2>1 DEF KeepsRequest
  <2>2. \/ UNCHANGED conn \/ ReactorNext \/ \E w \in Workers : WorkerNext(w)
    BY DEF Next, Accept, WakeAfterAccept, ClientNext, ClientSend, ClientReceive, ClientLeave, vars
  <2>3. QED BY <2>1, <2>2, ReactorKeepsRequests, WorkerKeepsRequests
<1>2. Inv /\ FlowInv /\ [Next]_vars =>
        [\A c \in Conns :
           LET r == conn[c] IN
           (NextEnd(r.buf, r.parsed) # {} /\ conn'[c].gen = r.gen /\ conn'[c].fd = r.fd)
             => NextEnd(conn'[c].buf, conn'[c].parsed) # {} \/ conn'[c].parsed > r.parsed]_vars
  BY <1>1 DEF KeepsRequest
<1>3. QED BY <1>2, Invariance, FlowInvariance, PTL DEF Spec, RequestKept

===============================================================================
