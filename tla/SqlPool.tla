------------------------------- MODULE SqlPool -------------------------------
(***************************************************************************)
(* The shared MySQL connection pool (CGImysql/sql_connection_pool.cpp) and *)
(* the worker code that uses it: uploading a post, the legacy community    *)
(* page, registering a user, and the community API.  A leased connection   *)
(* is held across two other locks, community_page_init_lock and m_lock, in *)
(* an order that differs between an upload and the legacy page.            *)
(*                                                                         *)
(* A worker's step ends where it takes or releases a lock or a permit, or  *)
(* at a database call whose effect others see.  Posts and users are        *)
(* identities; SQL text and the page's HTML are left out.                  *)
(***************************************************************************)
EXTENDS Naturals, FiniteSets

CONSTANTS
  Workers,      \* the threads of the pool
  Connections,  \* bound: the MYSQL handles that init() may open
  None,         \* NULL, no owner
  Posts,        \* bound: the posts that are ever uploaded
  Users,        \* bound: the names that are ever registered
  Faults        \* database failures: "sql" (a statement), "handle" (mysql_stmt_init)

ASSUME SqlPoolAssumption ==
  /\ IsFiniteSet(Workers) /\ IsFiniteSet(Connections)
  /\ None \notin Workers \cup Connections \cup Posts \cup Users
  /\ Faults \subseteq {"sql", "handle"}

VARIABLES
  opened,      \* the MYSQL handles that init() has opened, MaxConn of them
  connList,    \* connList: the connections in the pool
  permits,     \* the semaphore reserve
  at,          \* where each worker is
  task,        \* what it does with its connection
  held,        \* its connection, None for NULL
  pageLock,    \* the owner of community_page_init_lock
  pageReady,   \* community_page_initialized
  userLock,    \* the owner of m_lock
  page,        \* the posts shown by community-legacy.html
  view,        \* the posts a worker has read for the page
  stored,      \* the posts committed in the database
  mine,        \* the post a worker uploads, or the user it registers
  shown,       \* the posts whose upload has rebuilt the page
  users,       \* the map users
  rows,        \* the users committed in the database
  session,     \* per connection: autocommit, and the rows it has not committed
  leftOff,     \* history: the connections given back with autocommit off
  via          \* history: the connection over which a user was last registered

poolVars == <<opened, connList, permits>>
pageVars == <<pageLock, pageReady, page, view, shown>>
dataVars == <<stored, users, rows, session, leftOff, via>>
workerVars == <<at, task, held, mine>>
vars == <<poolVars, pageVars, dataVars, workerVars, userLock>>

Tasks == {"upload", "legacy", "register", "community"}
Places == {"idle", "get", "wait", "pop", "use", "lockPage", "checkPage", "select", "write",
           "unlockPage", "lockUsers", "insert", "unlockUsers", "push", "post"}

CleanSession == [autocommit |-> TRUE, dirty |-> {}]

TypeOK ==
  /\ opened \subseteq Connections /\ connList \subseteq opened /\ permits \in Nat
  /\ at \in [Workers -> Places] /\ task \in [Workers -> Tasks]
  /\ held \in [Workers -> Connections \cup {None}]
  /\ pageLock \in Workers \cup {None} /\ userLock \in Workers \cup {None}
  /\ pageReady \in BOOLEAN
  /\ page \subseteq Posts /\ view \in [Workers -> SUBSET Posts]
  /\ stored \subseteq Posts /\ shown \subseteq Posts
  /\ mine \in [Workers -> Posts \cup Users \cup {None}]
  /\ users \subseteq Users /\ rows \subseteq Users
  /\ session \in [Connections -> [autocommit : BOOLEAN, dirty : SUBSET (Posts \cup Users)]]
  /\ leftOff \subseteq Connections
  /\ via \in [Users -> Connections \cup {None}]

Init ==
  /\ opened \in SUBSET Connections \ {{}}
  /\ connList = opened /\ permits = Cardinality(opened)
  /\ at = [w \in Workers |-> "idle"] /\ task = [w \in Workers |-> "community"]
  /\ held = [w \in Workers |-> None]
  /\ pageLock = None /\ userLock = None
  /\ pageReady = FALSE /\ page = {} /\ view = [w \in Workers |-> {}]
  /\ stored = {} /\ shown = {} /\ mine = [w \in Workers |-> None]
  /\ users = {} /\ rows = {}
  /\ session = [c \in Connections |-> CleanSession]
  /\ leftOff = {} /\ via = [u \in Users |-> None]

Goto(w, place) == at' = [at EXCEPT ![w] = place]

\* What a worker does when it has a connection (or NULL), and once it is back.
Use(w) == CASE task[w] = "register" -> "lockUsers"
            [] task[w] = "legacy" -> "select"
            [] OTHER -> "use"
AfterPost(w) == IF task[w] = "legacy" THEN "unlockPage" ELSE "idle"

-----------------------------------------------------------------------------
(* A request that needs the database reaches a worker.                     *)
Start(w, t, x) ==
  /\ at[w] = "idle"
  /\ task' = [task EXCEPT ![w] = t] /\ mine' = [mine EXCEPT ![w] = x]
  /\ Goto(w, IF t = "legacy" THEN "lockPage" ELSE "get")
  /\ UNCHANGED <<poolVars, pageVars, dataVars, held, userLock>>

\* A post is a new row: it has another identity than any stored, pending or on
\* its way.
StartUpload(w) ==
  \E p \in Posts \ (stored \cup {mine[v] : v \in Workers}
                          \cup UNION {session[c].dirty : c \in Connections}) :
    Start(w, "upload", p)

\* The name is looked up, without m_lock, before the connection is leased; a
\* lookup that races with an insert may miss a name that is there.
StartRegister(w) ==
  \E u \in Users :
    /\ u \notin users \/ \E v \in Workers : at[v] = "insert"
    /\ Start(w, "register", u)

StartOther(w) == \E t \in {"legacy", "community"} : Start(w, t, None)

-----------------------------------------------------------------------------
(* GetConnection and RealeaseConnection.                                   *)

\* The list is looked at without the lock; an empty one means NULL at once.
Get(w) ==
  /\ at[w] = "get"
  /\ Goto(w, IF connList = {} THEN (IF task[w] = "register" THEN "lockUsers" ELSE AfterPost(w))
                              ELSE "wait")
  /\ UNCHANGED <<poolVars, pageVars, dataVars, held, task, mine, userLock>>

\* Mutant: a thread goes on without a permit.
WaitForNothing(w) == at[w] = "wait" /\ UNCHANGED permits
TakePermit(w) == at[w] = "wait" /\ permits > 0 /\ permits' = permits - 1

Wait(w) ==
  /\ TakePermit(w)
  /\ Goto(w, "pop")
  /\ UNCHANGED <<opened, connList, pageVars, dataVars, held, task, mine, userLock>>

\* Mutant: the connection stays in the list.
LeaveInList(c) == connList
RemoveFromList(c) == connList \ {c}

Pop(w) ==
  \E c \in connList :
    /\ at[w] = "pop"
    /\ connList' = RemoveFromList(c)
    /\ held' = [held EXCEPT ![w] = c]
    /\ Goto(w, Use(w))
    /\ UNCHANGED <<opened, permits, pageVars, dataVars, task, mine, userLock>>

\* A NULL connection is not given back.
Returned(w) == {held[w]} \ {None}

Push(w) ==
  /\ at[w] = "push"
  /\ connList' = connList \cup Returned(w)
  /\ held' = [held EXCEPT ![w] = None]
  /\ Goto(w, IF held[w] = None THEN AfterPost(w) ELSE "post")
  /\ UNCHANGED <<opened, permits, pageVars, dataVars, task, mine, userLock>>

\* Mutant: the permit is forgotten.
KeepPermit == UNCHANGED permits
GivePermit == permits' = permits + 1

PostPermit(w) ==
  /\ at[w] = "post"
  /\ GivePermit
  /\ Goto(w, AfterPost(w))
  /\ UNCHANGED <<opened, connList, pageVars, dataVars, held, task, mine, userLock>>

-----------------------------------------------------------------------------
(* save_post_to_db.                                                        *)

Commits(pending) ==
  /\ stored' = stored \cup (pending \cap Posts)
  /\ rows' = rows \cup (pending \cap Users)

\* mysql_autocommit(mysql, 1) commits what is pending; its result is ignored, and
\* when it has failed the connection is given back inside a transaction.
\* Mutant: the call is missing.
NoRestore(c, committed, pending) ==
  /\ Commits(committed)
  /\ session' = [session EXCEPT ![c] = [autocommit |-> FALSE, dirty |-> pending]]
  /\ UNCHANGED leftOff
RestoreAutocommit(c, committed, pending) ==
  \/ /\ Commits(committed \cup pending)
     /\ session' = [session EXCEPT ![c] = CleanSession]
     /\ UNCHANGED leftOff
  \/ /\ "sql" \in Faults
     /\ Commits(committed)
     /\ session' = [session EXCEPT ![c] = [autocommit |-> FALSE, dirty |-> pending]]
     /\ leftOff' = leftOff \cup {c}

\* autocommit off, two inserts, commit, autocommit on: whatever the session had
\* not committed is committed with the post.
SavePost(w) ==
  LET c == held[w] IN
  /\ at[w] = "use" /\ task[w] = "upload"
  /\ RestoreAutocommit(c, session[c].dirty \cup {mine[w]}, {})
  /\ Goto(w, "lockPage")
  /\ UNCHANGED <<poolVars, pageVars, users, via, held, task, mine, userLock>>

\* What may be pending when a statement has failed and mysql_rollback, whose
\* result is ignored too, has been called.
AfterRollback(w) ==
  {{}, session[held[w]].dirty, session[held[w]].dirty \cup {mine[w]}}

\* autocommit cannot be turned off, and nothing has happened; or a statement
\* fails; or the commit's answer is lost.
SaveFails(w) ==
  LET c == held[w] IN
  /\ "sql" \in Faults
  /\ at[w] = "use" /\ task[w] = "upload"
  /\ \/ UNCHANGED <<stored, rows, session, leftOff>>
     \/ \E pending \in AfterRollback(w) : RestoreAutocommit(c, {}, pending)
     \/ RestoreAutocommit(c, session[c].dirty \cup {mine[w]}, {})
  /\ Goto(w, "push")
  /\ UNCHANGED <<poolVars, pageVars, users, via, held, task, mine, userLock>>

\* mysql_stmt_init returns NULL: an early return with autocommit off.
LeaveAutocommitOff(w) ==
  /\ "handle" \in Faults
  /\ at[w] = "use" /\ task[w] = "upload"
  /\ session' = [session EXCEPT ![held[w]].autocommit = FALSE]
  /\ leftOff' = leftOff \cup {held[w]}
  /\ Goto(w, "push")
  /\ UNCHANGED <<poolVars, pageVars, stored, users, rows, via, held, task, mine, userLock>>

\* A community API request: START TRANSACTION commits what the session had open;
\* a request that only reads starts none.
Community(w) ==
  LET c == held[w] IN
  /\ at[w] = "use" /\ task[w] = "community"
  /\ \/ Commits(session[c].dirty) /\ session' = [session EXCEPT ![c].dirty = {}]
     \/ UNCHANGED <<stored, rows, session>>
  /\ Goto(w, "push")
  /\ UNCHANGED <<poolVars, pageVars, users, leftOff, via, held, task, mine, userLock>>

-----------------------------------------------------------------------------
(* The legacy page: both its readers and the uploads rebuild it under      *)
(* community_page_init_lock.                                               *)

\* Mutant: the page is rebuilt without the lock.
NoPageLock(w) == UNCHANGED pageLock
TakePageLock(w) == pageLock = None /\ pageLock' = w

LockPage(w) ==
  /\ at[w] = "lockPage"
  /\ TakePageLock(w)
  /\ Goto(w, IF task[w] = "legacy" THEN "checkPage" ELSE "select")
  /\ UNCHANGED <<poolVars, pageReady, page, view, shown, dataVars, held, task, mine, userLock>>

CheckPage(w) ==
  /\ at[w] = "checkPage"
  /\ Goto(w, IF pageReady THEN "unlockPage" ELSE "get")
  /\ UNCHANGED <<poolVars, pageVars, dataVars, held, task, mine, userLock>>

\* What the SELECT of rebuild_community_page sees: the committed posts, as it is
\* the first read of its transaction after an upload's own commit too; a session
\* left inside a transaction sees any earlier ones, and its own.
Seen(w) ==
  LET s == session[held[w]] IN
  IF s.autocommit \/ task[w] = "upload" THEN {stored}
  ELSE {earlier \cup (s.dirty \cap Posts) : earlier \in SUBSET stored}

Select(w) ==
  /\ at[w] = "select"
  /\ \E seen \in Seen(w) : view' = [view EXCEPT ![w] = seen]
  /\ Goto(w, "write")
  /\ UNCHANGED <<poolVars, pageLock, pageReady, page, shown, dataVars, held, task, mine,
                 userLock>>

\* The SELECT fails, or the file cannot be opened: the page stays as it is.
LeavePage(w) ==
  IF task[w] = "legacy" THEN Goto(w, "push") ELSE Goto(w, "unlockPage")

RebuildFails(w) ==
  /\ "sql" \in Faults /\ at[w] = "select"
  /\ LeavePage(w)
  /\ UNCHANGED <<poolVars, pageVars, dataVars, held, task, mine, userLock>>

Write(w) ==
  /\ at[w] = "write"
  /\ page' = view[w] /\ pageReady' = TRUE
  /\ shown' = shown \cup ({mine[w]} \cap Posts)
  /\ view' = [view EXCEPT ![w] = {}]
  /\ LeavePage(w)
  /\ UNCHANGED <<poolVars, pageLock, dataVars, held, task, mine, userLock>>

\* An upload unlocks and then releases its connection; the legacy page releases
\* first.
UnlockPage(w) ==
  /\ at[w] = "unlockPage"
  /\ pageLock' = None
  /\ Goto(w, IF task[w] = "legacy" THEN "idle" ELSE "push")
  /\ UNCHANGED <<poolVars, pageReady, page, view, shown, dataVars, held, task, mine, userLock>>

-----------------------------------------------------------------------------
(* Registering a user: m_lock is taken while the connection is held.       *)
LockUsers(w) ==
  /\ at[w] = "lockUsers" /\ userLock = None
  /\ userLock' = w
  /\ Goto(w, "insert")
  /\ UNCHANGED <<poolVars, pageVars, dataVars, held, task, mine>>

\* insert_user_by_stmt; the name was not looked up again under the lock.
Insert(w) ==
  LET c == held[w] IN
  /\ at[w] = "insert"
  /\ \/ /\ c # None
        /\ users' = users \cup {mine[w]} /\ via' = [via EXCEPT ![mine[w]] = c]
        /\ IF session[c].autocommit
           THEN rows' = rows \cup {mine[w]} /\ UNCHANGED session
           ELSE session' = [session EXCEPT ![c].dirty = @ \cup {mine[w]}] /\ UNCHANGED rows
     \/ /\ c = None \/ "sql" \in Faults \/ mine[w] \in rows
        /\ UNCHANGED <<users, rows, session, via>>
  /\ Goto(w, "unlockUsers")
  /\ UNCHANGED <<poolVars, pageVars, stored, leftOff, held, task, mine, userLock>>

UnlockUsers(w) ==
  /\ at[w] = "unlockUsers"
  /\ userLock' = None
  /\ Goto(w, "push")
  /\ UNCHANGED <<poolVars, pageVars, dataVars, held, task, mine>>

-----------------------------------------------------------------------------
Working(w) ==
  \/ Get(w) \/ Wait(w) \/ Pop(w) \/ Push(w) \/ PostPermit(w)
  \/ SavePost(w) \/ SaveFails(w) \/ LeaveAutocommitOff(w) \/ Community(w)
  \/ LockPage(w) \/ CheckPage(w) \/ Select(w) \/ RebuildFails(w) \/ Write(w) \/ UnlockPage(w)
  \/ LockUsers(w) \/ Insert(w) \/ UnlockUsers(w)

Next == \E w \in Workers :
          StartUpload(w) \/ StartRegister(w) \/ StartOther(w) \/ Working(w)

Spec == Init /\ [][Next]_vars

\* A worker that has begun goes on; nobody has to send a request.
FairSpec == Spec /\ \A w \in Workers : WF_vars(Working(w))

\* More than the code can rely on: the semaphore and the locks starve nobody.
StarvationFreeSpec ==
  FairSpec /\ \A w \in Workers : SF_vars(Wait(w)) /\ SF_vars(LockPage(w)) /\ SF_vars(LockUsers(w))

-----------------------------------------------------------------------------
(* Properties.                                                             *)

Holders == {w \in Workers : held[w] # None}

\* Each MYSQL handle is in the list or leased to exactly one worker.
Conserved ==
  /\ connList \cup {held[w] : w \in Holders} = opened
  /\ \A w \in Holders : held[w] \notin connList
  /\ \A v, w \in Holders : held[v] = held[w] => v = w

\* Who has waited for the semaphore finds a connection: front() and pop_front()
\* are never called on an empty list.
PopFindsAConnection == (\E w \in Workers : at[w] = "pop") => connList # {}

\* With at least as many connections as workers, nobody ever blocks in sem_wait.
NobodyBlocks ==
  Cardinality(opened) >= Cardinality(Workers) =>
    \A w \in Workers : at[w] = "wait" => permits > 0

\* The legacy page shows every post whose upload has rebuilt it: a rebuild never
\* puts back an older page.
PageKeepsPosts == shown \subseteq page

\* Every user that can log in is in the database, so that it can after a restart;
\* the exception is a user registered over a connection that an upload has given
\* back with autocommit off, as the calls whose results are ignored allow.
UsersAreStored == \A u \in users \ rows : via[u] \in leftOff

\* With at least as many connections as workers the page lock is not held for ever.
PageLockReleased ==
  Cardinality(opened) >= Cardinality(Workers) =>
    \A w \in Workers : pageLock = w ~> pageLock # w

\* A thread that is blocked on the semaphore goes on in the end.
WaiterServed == \A w \in Workers : at[w] = "wait" ~> at[w] # "wait"
=============================================================================
