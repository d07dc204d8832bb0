---------------------------- MODULE SqlPoolProofs ----------------------------
(***************************************************************************)
(* The connection pool for every number of workers and connections, with   *)
(* or without database failures: leases are exclusive, pop_front always    *)
(* finds a connection, and with at least as many connections as workers no *)
(* worker ever blocks on the semaphore.  The argument counts: each permit  *)
(* that is not in the semaphore belongs to a worker between its wait and   *)
(* its pop or between its push and its post, and each connection that is   *)
(* not in the list has a holder.                                           *)
(*                                                                         *)
(* Then the work done with a connection: a rebuild of the legacy page never*)
(* takes away a post, and whoever can log in is in the database.  Both     *)
(* need that a leased connection, and so its session, is one worker's own. *)
(***************************************************************************)
EXTENDS SqlPool, FiniteSetTheorems, TLAPS

Poppers == {w \in Workers : at[w] = "pop"}    \* have a permit, no connection yet
Posters == {w \in Workers : at[w] = "post"}   \* have pushed, not yet posted

LeaseType ==
  /\ opened \subseteq Connections /\ connList \subseteq opened /\ permits \in Nat
  /\ at \in [Workers -> Places]
  /\ held \in [Workers -> opened \cup {None}]

\* Where a worker with a connection can be.
HolderPlaces == {"use", "lockPage", "select", "write", "unlockPage", "lockUsers", "insert",
                 "unlockUsers", "push"}
MayHold(place, t) == place \in HolderPlaces /\ (t = "legacy" => place \notin {"lockPage", "unlockPage"})
HoldersWork == \A w \in Workers : held[w] # None => MayHold(at[w], task[w])

Counted ==
  /\ Cardinality(connList) + Cardinality(Holders) = Cardinality(opened)
  /\ Cardinality(connList) = permits + Cardinality(Poppers) + Cardinality(Posters)

LeaseInv == LeaseType /\ Conserved /\ HoldersWork /\ Counted

\* Sets of workers and of connections are finite and have a size.
LEMMA Sizes ==
  ASSUME LeaseInv
  PROVE  /\ IsFiniteSet(connList) /\ Cardinality(connList) \in Nat
         /\ IsFiniteSet(Holders) /\ Cardinality(Holders) \in Nat
         /\ IsFiniteSet(Poppers) /\ Cardinality(Poppers) \in Nat
         /\ IsFiniteSet(Posters) /\ Cardinality(Posters) \in Nat
         /\ Cardinality(opened) \in Nat /\ Cardinality(Workers) \in Nat
<1>1. IsFiniteSet(Workers) /\ IsFiniteSet(Connections)
  BY SqlPoolAssumption
<1>2. /\ connList \in SUBSET Connections /\ opened \in SUBSET Connections /\ Holders \in SUBSET Workers
      /\ Poppers \in SUBSET Workers /\ Posters \in SUBSET Workers
  BY DEF LeaseInv, LeaseType, Holders, Poppers, Posters
<1>3. /\ IsFiniteSet(connList) /\ IsFiniteSet(opened) /\ IsFiniteSet(Holders)
      /\ IsFiniteSet(Poppers) /\ IsFiniteSet(Posters)
  BY <1>1, <1>2, FS_Subset
<1>4. QED BY <1>1, <1>3, FS_CardinalityType

LEMMA InitLease == Init => LeaseInv
<1> SUFFICES ASSUME Init PROVE LeaseInv
  OBVIOUS
<1> USE DEF Init
<1>1. Holders = {} /\ Poppers = {} /\ Posters = {}
  BY DEF Holders, Poppers, Posters
<1>2. Cardinality({}) = 0 /\ Cardinality(opened) \in Nat
  BY SqlPoolAssumption, FS_EmptySet, FS_CardinalityType, FS_Subset
<1>3. LeaseType /\ HoldersWork
  BY <1>2 DEF LeaseType, HoldersWork, Places
<1>4. Conserved
  BY <1>1 DEF Conserved
<1>5. Counted
  BY <1>1, <1>2 DEF Counted
<1>6. QED BY <1>3, <1>4, <1>5 DEF LeaseInv

\* A step of one worker that neither waits, pops, pushes nor posts.
LEMMA QuietStep ==
  ASSUME LeaseInv, NEW w \in Workers, NEW place \in Places \ {"pop", "post"},
         at[w] \notin {"pop", "post"}, held[w] # None => MayHold(place, task'[w]),
         \A v \in Workers \ {w} : task'[v] = task[v],
         Goto(w, place), UNCHANGED <<opened, connList, permits, held>>
  PROVE  LeaseInv'
<1>1. at' = [at EXCEPT ![w] = place] /\ at \in [Workers -> Places]
  BY DEF Goto, LeaseInv, LeaseType
<1>2. Poppers' = Poppers /\ Posters' = Posters /\ Holders' = Holders
  BY <1>1 DEF Poppers, Posters, Holders
<1>3. LeaseType' /\ HoldersWork'
  BY <1>1 DEF LeaseInv, LeaseType, HoldersWork
<1>4. Conserved' /\ Counted'
  BY <1>2 DEF LeaseInv, Conserved, Counted
<1>5. QED BY <1>3, <1>4 DEF LeaseInv

LEMMA WaitKeepsLease ==
  ASSUME LeaseInv, NEW w \in Workers, Wait(w)
  PROVE  LeaseInv'
<1>1. /\ at[w] = "wait" /\ permits > 0 /\ permits' = permits - 1
      /\ at' = [at EXCEPT ![w] = "pop"] /\ UNCHANGED <<opened, connList, held, task>>
  BY DEF Wait, TakePermit, Goto
<1>2. at \in [Workers -> Places] /\ permits \in Nat
  BY DEF LeaseInv, LeaseType
<1>3. Poppers' = Poppers \cup {w} /\ w \notin Poppers /\ Posters' = Posters /\ Holders' = Holders
  BY <1>1, <1>2 DEF Poppers, Posters, Holders
<1>4. Cardinality(Poppers') = Cardinality(Poppers) + 1
  BY <1>3, Sizes, FS_AddElement
<1>5. LeaseType' /\ HoldersWork'
  BY <1>1, <1>2 DEF LeaseInv, LeaseType, HoldersWork, MayHold, HolderPlaces, Places
<1>6. Conserved'
  BY <1>1, <1>3 DEF LeaseInv, Conserved
<1>7. Counted'
  BY <1>1, <1>2, <1>3, <1>4, Sizes DEF LeaseInv, Counted
<1>8. QED BY <1>5, <1>6, <1>7 DEF LeaseInv

LEMMA PopKeepsLease ==
  ASSUME LeaseInv, NEW w \in Workers, Pop(w)
  PROVE  LeaseInv'
<1>1. PICK c \in connList :
        /\ at[w] = "pop" /\ connList' = connList \ {c}
        /\ held' = [held EXCEPT ![w] = c]
        /\ at' = [at EXCEPT ![w] = Use(w)] /\ UNCHANGED <<opened, permits, task>>
  BY DEF Pop, RemoveFromList, Goto
<1>2. Use(w) \in {"use", "select", "lockUsers"}
  BY DEF Use
<1>3. /\ at \in [Workers -> Places] /\ held \in [Workers -> opened \cup {None}]
      /\ permits \in Nat /\ c \in opened /\ c # None /\ opened \subseteq Connections
  BY SqlPoolAssumption DEF LeaseInv, LeaseType
<1>4. held[w] = None
  BY <1>1 DEF LeaseInv, HoldersWork, MayHold, HolderPlaces
<1>5. /\ Holders' = Holders \cup {w} /\ w \notin Holders
      /\ Poppers' = Poppers \ {w} /\ w \in Poppers /\ Posters' = Posters
  BY <1>1, <1>2, <1>3, <1>4 DEF Holders, Poppers, Posters
<1>6. /\ Cardinality(Holders') = Cardinality(Holders) + 1
      /\ Cardinality(Poppers') = Cardinality(Poppers) - 1
      /\ Cardinality(connList') = Cardinality(connList) - 1
  BY <1>1, <1>5, Sizes, FS_AddElement, FS_RemoveElement
<1>7. LeaseType' /\ HoldersWork'
  BY <1>1, <1>2, <1>3 DEF LeaseInv, LeaseType, HoldersWork, MayHold, HolderPlaces, Places
<1>8. Conserved'
  BY <1>1, <1>3, <1>5 DEF LeaseInv, Conserved, Holders
<1>9. Counted'
  BY <1>1, <1>3, <1>5, <1>6, Sizes DEF LeaseInv, Counted
<1>10. QED BY <1>7, <1>8, <1>9 DEF LeaseInv

LEMMA PushKeepsLease ==
  ASSUME LeaseInv, NEW w \in Workers, Push(w)
  PROVE  LeaseInv'
<1>1. /\ at[w] = "push" /\ connList' = connList \cup ({held[w]} \ {None})
      /\ held' = [held EXCEPT ![w] = None] /\ UNCHANGED <<opened, permits, task>>
      /\ Goto(w, IF held[w] = None THEN AfterPost(w) ELSE "post")
  BY DEF Push, Returned
<1>2. /\ at \in [Workers -> Places] /\ held \in [Workers -> opened \cup {None}]
      /\ permits \in Nat
  BY DEF LeaseInv, LeaseType
<1>3. CASE held[w] = None
  <2>1. connList' = connList /\ held' = held
    BY <1>1, <1>2, <1>3
  <2>2. AfterPost(w) \in Places \ {"pop", "post"}
    BY DEF AfterPost, Places
  <2>3. QED BY <1>1, <1>3, <2>1, <2>2, QuietStep
<1>4. CASE held[w] # None
  <2> DEFINE c == held[w]
  <2>1. /\ c \in opened /\ c \notin connList
        /\ connList' = connList \cup {c} /\ at' = [at EXCEPT ![w] = "post"]
    BY <1>1, <1>2, <1>4 DEF LeaseInv, Conserved, Holders, Goto
  <2>2. /\ Holders' = Holders \ {w} /\ w \in Holders
        /\ Posters' = Posters \cup {w} /\ w \notin Posters /\ Poppers' = Poppers
    BY <1>1, <1>2, <1>4, <2>1 DEF Holders, Poppers, Posters
  <2>3. /\ Cardinality(Holders') = Cardinality(Holders) - 1
        /\ Cardinality(Posters') = Cardinality(Posters) + 1
        /\ Cardinality(connList') = Cardinality(connList) + 1
    BY <2>1, <2>2, Sizes, FS_AddElement, FS_RemoveElement
  <2>4. LeaseType' /\ HoldersWork'
    BY <1>1, <1>2, <2>1 DEF LeaseInv, LeaseType, HoldersWork, MayHold, HolderPlaces, Places
  <2>5. Conserved'
    <3>1. \A v \in Holders' : held'[v] = held[v] /\ held[v] # c
      BY <1>1, <1>2, <2>2 DEF LeaseInv, Conserved, Holders
    <3>2. {held'[v] : v \in Holders'} = {held[v] : v \in Holders} \ {c}
      BY <2>2, <3>1
    <3>3. QED BY <1>1, <2>1, <2>2, <3>1, <3>2 DEF LeaseInv, Conserved
  <2>6. Counted'
    BY <1>1, <1>2, <2>2, <2>3, Sizes DEF LeaseInv, Counted
  <2>7. QED BY <2>4, <2>5, <2>6 DEF LeaseInv
<1>5. QED BY <1>3, <1>4

LEMMA PostKeepsLease ==
  ASSUME LeaseInv, NEW w \in Workers, PostPermit(w)
  PROVE  LeaseInv'
<1>1. /\ at[w] = "post" /\ permits' = permits + 1
      /\ at' = [at EXCEPT ![w] = AfterPost(w)] /\ UNCHANGED <<opened, connList, held, task>>
  BY DEF PostPermit, GivePermit, Goto
<1>2. AfterPost(w) \in {"unlockPage", "idle"} /\ held[w] = None
  BY <1>1 DEF AfterPost, LeaseInv, HoldersWork, MayHold, HolderPlaces
<1>3. at \in [Workers -> Places] /\ permits \in Nat
  BY DEF LeaseInv, LeaseType
<1>4. Posters' = Posters \ {w} /\ w \in Posters /\ Poppers' = Poppers /\ Holders' = Holders
  BY <1>1, <1>2, <1>3 DEF Poppers, Posters, Holders
<1>5. Cardinality(Posters') = Cardinality(Posters) - 1
  BY <1>4, Sizes, FS_RemoveElement
<1>6. LeaseType' /\ HoldersWork'
  BY <1>1, <1>2, <1>3 DEF LeaseInv, LeaseType, HoldersWork, MayHold, Places
<1>7. Conserved'
  BY <1>1, <1>4 DEF LeaseInv, Conserved
<1>8. Counted'
  BY <1>1, <1>3, <1>4, <1>5, Sizes DEF LeaseInv, Counted
<1>9. QED BY <1>6, <1>7, <1>8 DEF LeaseInv

LEMMA NextKeepsLease == LeaseInv /\ [Next]_vars => LeaseInv'
<1> SUFFICES ASSUME LeaseInv, [Next]_vars PROVE LeaseInv'
  OBVIOUS
<1> USE DEF Places, MayHold, HolderPlaces
<1>1. ASSUME NEW w \in Workers, NEW t \in Tasks, NEW x, Start(w, t, x)
      PROVE  LeaseInv'
  <2> DEFINE place == IF t = "legacy" THEN "lockPage" ELSE "get"
  <2>1. at[w] = "idle" /\ held[w] = None
    BY <1>1 DEF Start, LeaseInv, HoldersWork
  <2>2. Goto(w, place) /\ task' = [task EXCEPT ![w] = t] /\ UNCHANGED <<opened, connList, permits, held>>
    BY <1>1 DEF Start, poolVars
  <2>3. \A v \in Workers \ {w} : task'[v] = task[v]
    BY <2>2
  <2>4. QED BY <2>1, <2>2, <2>3, QuietStep
<1>2. ASSUME NEW w \in Workers, Get(w) PROVE LeaseInv'
  <2> DEFINE none == IF task[w] = "register" THEN "lockUsers" ELSE AfterPost(w)
             place == IF connList = {} THEN none ELSE "wait"
  <2>1. at[w] = "get" /\ held[w] = None
    BY <1>2 DEF Get, LeaseInv, HoldersWork
  <2>2. Goto(w, place) /\ UNCHANGED <<opened, connList, permits, held, task>>
    BY <1>2 DEF Get, poolVars
  <2>3. place \in Places \ {"pop", "post"}
    BY DEF AfterPost
  <2> HIDE DEF place
  <2>4. QED BY <2>1, <2>2, <2>3, QuietStep
<1>3. ASSUME NEW w \in Workers,
             SavePost(w) \/ SaveFails(w) \/ LeaveAutocommitOff(w) \/ Community(w)
      PROVE  LeaseInv'
  <2>1. /\ at[w] = "use" /\ UNCHANGED <<opened, connList, permits, held, task>>
        /\ Goto(w, "push") \/ (Goto(w, "lockPage") /\ task[w] = "upload")
    BY <1>3 DEF SavePost, SaveFails, LeaveAutocommitOff, Community, poolVars
  <2>2. QED BY <2>1, QuietStep
<1>4. ASSUME NEW w \in Workers, LockPage(w) \/ CheckPage(w) PROVE LeaseInv'
  <2>1. /\ at[w] \in {"lockPage", "checkPage"} /\ UNCHANGED <<opened, connList, permits, held, task>>
        /\ \/ Goto(w, "select") /\ at[w] = "lockPage" /\ task[w] # "legacy"
           \/ /\ Goto(w, "checkPage") \/ Goto(w, "unlockPage") \/ Goto(w, "get")
              /\ at[w] = "checkPage" \/ task[w] = "legacy"
    BY <1>4 DEF LockPage, CheckPage, poolVars
  <2>2. at[w] = "checkPage" \/ task[w] = "legacy" => held[w] = None
    BY <2>1 DEF LeaseInv, HoldersWork
  <2>3. QED BY <2>1, <2>2, QuietStep
<1>5. ASSUME NEW w \in Workers, Select(w) \/ RebuildFails(w) \/ Write(w) \/ UnlockPage(w)
      PROVE  LeaseInv'
  <2>1. /\ at[w] \in {"select", "write", "unlockPage"}
        /\ UNCHANGED <<opened, connList, permits, held, task>>
        /\ \/ Goto(w, "write") \/ Goto(w, "push")
           \/ Goto(w, "unlockPage") /\ task[w] # "legacy"
           \/ Goto(w, "idle") /\ task[w] = "legacy" /\ at[w] = "unlockPage"
    BY <1>5 DEF Select, RebuildFails, Write, UnlockPage, LeavePage, poolVars
  <2>2. task[w] = "legacy" /\ at[w] = "unlockPage" => held[w] = None
    BY <2>1 DEF LeaseInv, HoldersWork
  <2>3. QED BY <2>1, <2>2, QuietStep
<1>6. ASSUME NEW w \in Workers, LockUsers(w) \/ Insert(w) \/ UnlockUsers(w)
      PROVE  LeaseInv'
  <2>1. /\ at[w] \in {"lockUsers", "insert", "unlockUsers"}
        /\ UNCHANGED <<opened, connList, permits, held, task>>
        /\ Goto(w, "insert") \/ Goto(w, "unlockUsers") \/ Goto(w, "push")
    BY <1>6 DEF LockUsers, Insert, UnlockUsers, poolVars
  <2>2. QED BY <2>1, QuietStep
<1>7. CASE UNCHANGED vars
  <2>1. UNCHANGED <<opened, connList, permits, at, held, task>>
    BY <1>7 DEF vars, poolVars, workerVars
  <2>2. UNCHANGED <<Holders, Poppers, Posters>>
    BY <2>1 DEF Holders, Poppers, Posters
  <2>3. QED BY <2>1, <2>2 DEF LeaseInv, LeaseType, Conserved, HoldersWork, Counted
<1>8. ASSUME NEW w \in Workers,
             StartUpload(w) \/ StartRegister(w) \/ StartOther(w) \/ Working(w)
      PROVE  LeaseInv'
  <2>1. CASE StartUpload(w) \/ StartRegister(w) \/ StartOther(w)
    <3>1. \E t \in Tasks, x \in Posts \cup Users \cup {None} : Start(w, t, x)
      BY <2>1 DEF StartUpload, StartRegister, StartOther, Tasks
    <3>2. QED BY <1>1, <3>1
  <2>2. CASE Working(w)
    BY <1>2, <1>3, <1>4, <1>5, <1>6, <2>2,
       WaitKeepsLease, PopKeepsLease, PushKeepsLease, PostKeepsLease DEF Working
  <2>3. QED BY <1>8, <2>1, <2>2
<1>9. QED BY <1>7, <1>8 DEF Next

LEMMA LeaseInvariance == Spec => []LeaseInv
BY InitLease, NextKeepsLease, PTL DEF Spec

\* Each MYSQL handle is in connList or leased to exactly one worker.
THEOREM ConnectionsConserved == Spec => []Conserved
<1>1. LeaseInv => Conserved
  BY DEF LeaseInv
<1>2. QED BY <1>1, LeaseInvariance, PTL

\* A worker that has a permit finds a connection: front() and pop_front() in
\* GetConnection are never called on an empty list.
THEOREM PopSafe == Spec => []PopFindsAConnection
<1>1. LeaseInv => PopFindsAConnection
  <2> SUFFICES ASSUME LeaseInv, NEW w \in Workers, at[w] = "pop" PROVE connList # {}
    BY DEF PopFindsAConnection
  <2>1. Cardinality(Poppers) # 0
    BY Sizes, FS_EmptySet DEF Poppers
  <2>2. Cardinality(connList) # 0
    BY <2>1, Sizes DEF LeaseInv, LeaseType, Counted
  <2>3. QED BY <2>2, FS_EmptySet
<1>2. QED BY <1>1, LeaseInvariance, PTL

\* With at least as many connections as workers nobody blocks in sem_wait, so the
\* order in which an upload and the legacy page take the connection and the page
\* lock cannot close a cycle.
THEOREM NoBlocking == Spec => []NobodyBlocks
<1>1. LeaseInv => NobodyBlocks
  <2> SUFFICES ASSUME LeaseInv, Cardinality(opened) >= Cardinality(Workers),
                      NEW w \in Workers, at[w] = "wait"
               PROVE  permits > 0
    BY DEF NobodyBlocks
  <2> DEFINE busy == (Holders \cup Poppers) \cup Posters
  <2>1. w \notin busy /\ busy \subseteq Workers
    BY DEF LeaseInv, HoldersWork, MayHold, HolderPlaces, Holders, Poppers, Posters
  <2>2. Holders \cap Poppers = {} /\ (Holders \cup Poppers) \cap Posters = {}
    BY DEF LeaseInv, HoldersWork, MayHold, HolderPlaces, Holders, Poppers, Posters
  <2>3. /\ IsFiniteSet(busy)
        /\ Cardinality(busy) = Cardinality(Holders) + Cardinality(Poppers) + Cardinality(Posters)
    <3> DEFINE both == Holders \cup Poppers
    <3>1. /\ IsFiniteSet(both)
          /\ Cardinality(both)
               = Cardinality(Holders) + Cardinality(Poppers) - Cardinality(Holders \cap Poppers)
      BY Sizes, FS_Union
    <3>2. Cardinality(Holders \cap Poppers) = 0
      BY <2>2, FS_EmptySet
    <3>3. Cardinality(both) = Cardinality(Holders) + Cardinality(Poppers)
      <4> HIDE DEF both
      <4> QED BY <3>1, <3>2, Sizes
    <3> HIDE DEF both
    <3>4. /\ IsFiniteSet(both \cup Posters)
          /\ Cardinality(both \cup Posters)
               = Cardinality(both) + Cardinality(Posters) - Cardinality(both \cap Posters)
      BY <3>1, Sizes, FS_Union
    <3>5. Cardinality(both \cap Posters) = 0
      BY <2>2, FS_EmptySet DEF both
    <3>6. Cardinality(both \cup Posters) = Cardinality(both) + Cardinality(Posters)
      BY <3>1, <3>3, <3>4, <3>5, Sizes
    <3>7. busy = both \cup Posters
      BY DEF both
    <3> QED BY <3>3, <3>4, <3>6, <3>7
  <2>4. Cardinality(busy \cup {w}) = Cardinality(busy) + 1
    BY <2>1, <2>3, FS_AddElement
  <2>5. Cardinality(busy \cup {w}) <= Cardinality(Workers)
    <3>1. busy \cup {w} \in SUBSET Workers
      BY <2>1
    <3>2. QED BY <3>1, SqlPoolAssumption, FS_Subset
  <2> HIDE DEF busy
  <2>6. QED BY <2>3, <2>4, <2>5, Sizes DEF LeaseInv, LeaseType, Counted
<1>2. QED BY <1>1, LeaseInvariance, PTL
-----------------------------------------------------------------------------
(* The legacy page.                                                        *)

\* A request for the page has the page lock all the time it has the connection;
\* an upload takes it when its post is stored.
Inside(place, t) ==
  \/ place \in {"checkPage", "select", "write", "unlockPage"}
  \/ t = "legacy" /\ place \in {"get", "wait", "pop", "push", "post"}

Sessions == [autocommit : BOOLEAN, dirty : SUBSET (Posts \cup Users)]

PageType ==
  /\ at \in [Workers -> Places] /\ task \in [Workers -> Tasks]
  /\ mine \in [Workers -> Posts \cup Users \cup {None}]
  /\ view \in [Workers -> SUBSET Posts]
  /\ session \in [Connections -> Sessions]
  /\ stored \subseteq Posts

\* What a worker that is about to write the page will not take away from it.
PageWork(w) ==
  /\ Inside(at[w], task[w]) <=> pageLock = w
  /\ at[w] \in {"lockPage", "select", "write"} => task[w] \in {"upload", "legacy"}
  /\ at[w] = "checkPage" => task[w] = "legacy"
  /\ at[w] = "use" => held[w] # None
  /\ at[w] \in {"lockUsers", "insert", "unlockUsers"} => task[w] = "register"
  /\ task[w] = "legacy" =>
       /\ mine[w] = None
       /\ at[w] \in {"get", "wait", "pop", "select", "write"} => ~pageReady
  /\ task[w] = "register" => mine[w] \in Users
  /\ task[w] = "upload" =>
       /\ mine[w] \in Posts
       /\ at[w] \in {"lockPage", "select", "write"} => mine[w] \in stored
       /\ at[w] = "write" => shown \cup {mine[w]} \subseteq view[w]

PageInv ==
  /\ PageType
  /\ shown \subseteq stored /\ shown \subseteq page
  /\ ~pageReady => shown = {}
  /\ \A w \in Workers : PageWork(w)

\* What a step of one worker leaves to another.
LEMMA OthersPageWork ==
  ASSUME PageInv, NEW w \in Workers, NEW v \in Workers \ {w},
         at'[v] = at[v], task'[v] = task[v], mine'[v] = mine[v], held'[v] = held[v],
         view'[v] = view[v], stored \subseteq stored',
         pageLock' = pageLock \/ pageLock' = w \/ (pageLock' = None /\ pageLock = w),
         pageLock' = w => pageLock \in {w, None},
         pageLock = w \/ UNCHANGED <<pageReady, shown>>
  PROVE  PageWork(v)'
<1>1. PageWork(v) /\ None # v
  BY SqlPoolAssumption DEF PageInv
<1>2. pageLock' = v <=> pageLock = v
  BY <1>1
<1>3. Inside(at[v], task[v]) => UNCHANGED <<pageReady, shown>>
  BY <1>1 DEF PageWork
<1>5. at[v] \in {"select", "write"} => Inside(at[v], task[v])
  BY DEF Inside
<1>6. at[v] \in {"get", "wait", "pop"} /\ task[v] = "legacy" => Inside(at[v], task[v])
  BY DEF Inside
<1>7. Inside(at[v], task[v])' <=> Inside(at[v], task[v])
  OBVIOUS
<1>8. QED BY <1>1, <1>2, <1>3, <1>5, <1>6, <1>7 DEF PageWork

\* A step of one worker keeps the invariant if it does what it has to for its own
\* work and leaves the others alone.
Alone(w) ==
  \A v \in Workers \ {w} :
    /\ at'[v] = at[v] /\ task'[v] = task[v] /\ mine'[v] = mine[v] /\ view'[v] = view[v]
    /\ held'[v] = held[v]

LEMMA PageStep ==
  ASSUME PageInv, NEW w \in Workers, Alone(w), PageType', PageWork(w)',
         (shown \subseteq stored)', (shown \subseteq page)', (~pageReady => shown = {})',
         stored \subseteq stored',
         pageLock' = pageLock \/ pageLock' = w \/ (pageLock' = None /\ pageLock = w),
         pageLock' = w => pageLock \in {w, None},
         pageLock = w \/ UNCHANGED <<pageReady, shown>>
  PROVE  PageInv'
<1>1. ASSUME NEW v \in Workers \ {w} PROVE PageWork(v)'
  BY OthersPageWork DEF Alone
<1>2. \A v \in Workers : PageWork(v)'
  BY <1>1
<1>3. QED BY <1>2 DEF PageInv

\* A step that changes neither the page nor what is stored.
LEMMA PageUntouched ==
  ASSUME PageInv, NEW w \in Workers, NEW place \in Places, Goto(w, place),
         \A v \in Workers \ {w} : task'[v] = task[v] /\ mine'[v] = mine[v] /\ held'[v] = held[v],
         task' \in [Workers -> Tasks], mine' \in [Workers -> Posts \cup Users \cup {None}],
         UNCHANGED <<pageVars, stored, session>>, PageWork(w)'
  PROVE  PageInv'
<1>1. /\ at \in [Workers -> Places] /\ at' = [at EXCEPT ![w] = place]
      /\ UNCHANGED <<pageLock, pageReady, page, view, shown>>
  BY DEF PageInv, PageType, Goto, pageVars
<1>2. PageType' /\ Alone(w)
  BY <1>1 DEF PageInv, PageType, Alone
<1>3. (shown \subseteq stored)' /\ (shown \subseteq page)' /\ (~pageReady => shown = {})'
  BY <1>1 DEF PageInv
<1>4. QED BY <1>1, <1>2, <1>3, PageStep

\* Starting, leasing and giving back a connection, and the work on users.
LEMMA LeasingKeepsPage ==
  ASSUME PageInv, LeaseInv, NEW w \in Workers,
         \/ StartUpload(w) \/ StartRegister(w) \/ StartOther(w)
         \/ Get(w) \/ Wait(w) \/ Pop(w) \/ Push(w) \/ PostPermit(w)
         \/ CheckPage(w) \/ RebuildFails(w) \/ LockUsers(w) \/ UnlockUsers(w)
  PROVE  PageInv'
<1> USE DEF Places, dataVars, pageVars, poolVars
<1>1. /\ PageType /\ PageWork(w) /\ at \in [Workers -> Places] /\ task \in [Workers -> Tasks]
      /\ held \in [Workers -> opened \cup {None}] /\ mine \in [Workers -> Posts \cup Users \cup {None}]
  BY DEF PageInv, PageType, LeaseInv, LeaseType
<1>2. ASSUME NEW t \in Tasks, NEW x \in Posts \cup Users \cup {None}, Start(w, t, x),
             t = "upload" => x \in Posts, t = "register" => x \in Users, t = "legacy" => x = None
      PROVE  PageInv'
  <2> DEFINE place == IF t = "legacy" THEN "lockPage" ELSE "get"
  <2>1. /\ at[w] = "idle" /\ Goto(w, place) /\ task' = [task EXCEPT ![w] = t]
        /\ mine' = [mine EXCEPT ![w] = x] /\ UNCHANGED <<pageVars, dataVars, held>>
    BY <1>2 DEF Start
  <2>2. PageWork(w)'
    BY <1>1, <1>2, <2>1 DEF PageWork, Inside, Goto, PageType
  <2>3. QED BY <1>1, <2>1, <2>2, PageUntouched
<1>3. CASE StartUpload(w) \/ StartRegister(w) \/ StartOther(w)
  <2>1. \E t \in Tasks, x \in Posts \cup Users \cup {None} :
          /\ Start(w, t, x)
          /\ (t = "upload" => x \in Posts) /\ (t = "register" => x \in Users) /\ (t = "legacy" => x = None)
    BY <1>3 DEF StartUpload, StartRegister, StartOther, Tasks
  <2>2. QED BY <1>2, <2>1
<1>4. ASSUME NEW place \in Places, Goto(w, place), UNCHANGED <<pageVars, dataVars, task, mine>>,
             \A v \in Workers \ {w} : held'[v] = held[v],
             PageWork(w)'
      PROVE  PageInv'
  BY <1>1, <1>4, PageUntouched
<1>5. CASE Get(w)
  <2> DEFINE place == IF connList = {} THEN IF task[w] = "register" THEN "lockUsers" ELSE AfterPost(w)
                      ELSE "wait"
  <2>1. /\ at[w] = "get" /\ Goto(w, place) /\ place \in Places
        /\ UNCHANGED <<pageVars, dataVars, task, mine, held>>
    BY <1>5 DEF Get, AfterPost
  <2>2. PageWork(w)'
    BY <1>1, <2>1 DEF PageWork, Inside, Goto, AfterPost, PageType
  <2>3. QED BY <1>4, <2>1, <2>2
<1>6. CASE Wait(w) \/ LockUsers(w) \/ UnlockUsers(w)
  <2> DEFINE place == IF at[w] = "wait" THEN "pop" ELSE IF at[w] = "lockUsers" THEN "insert" ELSE "push"
  <2>1. /\ at[w] \in {"wait", "lockUsers", "unlockUsers"} /\ Goto(w, place)
        /\ UNCHANGED <<pageVars, dataVars, task, mine, held>>
    BY <1>6 DEF Wait, TakePermit, LockUsers, UnlockUsers
  <2>2. PageWork(w)'
    BY <1>1, <2>1 DEF PageWork, Inside, Goto, PageType
  <2>3. QED BY <1>4, <2>1, <2>2
<1>7. CASE Pop(w)
  <2>1. /\ at[w] = "pop" /\ Goto(w, Use(w)) /\ UNCHANGED <<pageVars, dataVars, task, mine>>
        /\ \A v \in Workers \ {w} : held'[v] = held[v]
        /\ held'[w] # None
    BY <1>1, <1>7, SqlPoolAssumption DEF Pop, LeaseInv, LeaseType
  <2>2. Use(w) \in {"use", "select", "lockUsers"}
    BY DEF Use
  <2>3. PageWork(w)'
    BY <1>1, <2>1 DEF PageWork, Inside, Goto, Use, PageType, Tasks
  <2>4. QED BY <1>4, <2>1, <2>2, <2>3
<1>8. CASE Push(w) \/ PostPermit(w)
  <2> DEFINE place == IF at[w] = "post" \/ held[w] = None THEN AfterPost(w) ELSE "post"
  <2>1. /\ at[w] \in {"push", "post"} /\ Goto(w, place) /\ place \in Places
        /\ UNCHANGED <<pageVars, dataVars, task, mine>>
        /\ \A v \in Workers \ {w} : held'[v] = held[v]
    BY <1>1, <1>8 DEF Push, PostPermit, AfterPost
  <2>2. PageWork(w)'
    BY <1>1, <2>1 DEF PageWork, Inside, Goto, AfterPost, PageType
  <2>3. QED BY <1>4, <2>1, <2>2
<1>9. CASE CheckPage(w)
  <2> DEFINE place == IF pageReady THEN "unlockPage" ELSE "get"
  <2>1. /\ at[w] = "checkPage" /\ Goto(w, place) /\ UNCHANGED <<pageVars, dataVars, task, mine, held>>
    BY <1>9 DEF CheckPage
  <2>2. PageWork(w)'
    BY <1>1, <2>1 DEF PageWork, Inside, Goto, PageType
  <2>3. QED BY <1>4, <2>1, <2>2
<1>10. CASE RebuildFails(w)
  <2> DEFINE place == IF task[w] = "legacy" THEN "push" ELSE "unlockPage"
  <2>1. /\ at[w] = "select" /\ Goto(w, place) /\ UNCHANGED <<pageVars, dataVars, task, mine, held>>
    BY <1>10 DEF RebuildFails, LeavePage
  <2>2. PageWork(w)'
    BY <1>1, <2>1 DEF PageWork, Inside, Goto, PageType
  <2>3. QED BY <1>4, <2>1, <2>2
<1>11. QED BY <1>3, <1>5, <1>6, <1>7, <1>8, <1>9, <1>10

\* mysql_autocommit(mysql, 1), whatever becomes of it.
LEMMA RestoreTypes ==
  ASSUME PageType, NEW c \in Connections, NEW committed, NEW pending \in SUBSET (Posts \cup Users),
         RestoreAutocommit(c, committed, pending)
  PROVE  /\ stored \cup (committed \cap Posts) \subseteq stored' /\ stored' \subseteq Posts
         /\ session' \in [Connections -> Sessions]
<1>1. session \in [Connections -> Sessions] /\ stored \subseteq Posts
  BY DEF PageType
<1>2. /\ CleanSession \in Sessions
      /\ [autocommit |-> FALSE, dirty |-> pending] \in Sessions
  BY DEF CleanSession, Sessions
<1>3. QED BY <1>1, <1>2 DEF RestoreAutocommit, Commits

\* What requests write into the database, and into their own session.
LEMMA StoringKeepsPage ==
  ASSUME PageInv, LeaseInv, NEW w \in Workers,
         SavePost(w) \/ SaveFails(w) \/ LeaveAutocommitOff(w) \/ Community(w) \/ Insert(w)
  PROVE  PageInv'
<1> USE DEF Places, pageVars, poolVars
<1>1. /\ PageType /\ PageWork(w) /\ at \in [Workers -> Places] /\ task \in [Workers -> Tasks]
      /\ held \in [Workers -> opened \cup {None}] /\ mine \in [Workers -> Posts \cup Users \cup {None}]
      /\ opened \subseteq Connections /\ None \notin Connections
      /\ session \in [Connections -> Sessions] /\ stored \subseteq Posts
  BY SqlPoolAssumption DEF PageInv, PageType, LeaseInv, LeaseType
<1>2. at[w] \in {"use", "insert"} /\ UNCHANGED <<pageLock, pageReady, page, view, shown, task, mine, held>>
  BY DEF SavePost, SaveFails, LeaveAutocommitOff, Community, Insert
<1>3. ASSUME NEW place \in Places, Goto(w, place), PageWork(w)',
             session' \in [Connections -> Sessions],
             stored \subseteq stored', stored' \subseteq Posts
      PROVE  PageInv'
  <2>1. at' = [at EXCEPT ![w] = place]
    BY <1>3 DEF Goto
  <2>2. Alone(w)
    BY <1>1, <1>2, <2>1 DEF Alone
  <2>3. PageType'
    BY <1>1, <1>2, <1>3, <2>1 DEF PageType
  <2>4. (shown \subseteq stored)' /\ (shown \subseteq page)' /\ (~pageReady => shown = {})'
    BY <1>2, <1>3 DEF PageInv
  <2>5. QED BY <1>2, <1>3, <2>2, <2>3, <2>4, PageStep
<1>4. at[w] = "use" => held[w] \in Connections /\ session[held[w]] \in Sessions
  BY <1>1 DEF PageWork
<1>5. CASE SavePost(w)
  <2> DEFINE committed == session[held[w]].dirty \cup {mine[w]}
  <2>1. /\ at[w] = "use" /\ Goto(w, "lockPage") /\ task[w] = "upload" /\ mine[w] \in Posts
        /\ RestoreAutocommit(held[w], committed, {})
    BY <1>1, <1>5 DEF SavePost, PageWork
  <2>2. /\ stored \cup {mine[w]} \subseteq stored' /\ stored' \subseteq Posts
        /\ session' \in [Connections -> Sessions]
    BY <1>1, <1>4, <2>1, RestoreTypes
  <2>3. PageWork(w)'
    BY <1>1, <1>2, <2>1, <2>2 DEF PageWork, Inside, Goto
  <2>4. QED BY <1>3, <2>1, <2>2, <2>3
<1>6. CASE SaveFails(w)
  <2>1. /\ at[w] = "use" /\ Goto(w, "push") /\ task[w] = "upload" /\ mine[w] \in Posts
        /\ session[held[w]].dirty \subseteq Posts \cup Users
    BY <1>1, <1>4, <1>6 DEF SaveFails, PageWork, Sessions
  <2>2. /\ stored \subseteq stored' /\ stored' \subseteq Posts
        /\ session' \in [Connections -> Sessions]
    <3>1. CASE UNCHANGED <<stored, rows, session, leftOff>>
      BY <1>1, <3>1
    <3>2. ASSUME NEW pending \in AfterRollback(w), RestoreAutocommit(held[w], {}, pending)
          PROVE  /\ stored \subseteq stored' /\ stored' \subseteq Posts
                 /\ session' \in [Connections -> Sessions]
      <4>1. pending \in SUBSET (Posts \cup Users)
        BY <2>1 DEF AfterRollback
      <4>2. QED BY <1>1, <1>4, <2>1, <3>2, <4>1, RestoreTypes
    <3>3. CASE RestoreAutocommit(held[w], session[held[w]].dirty \cup {mine[w]}, {})
      BY <1>1, <1>4, <2>1, <3>3, RestoreTypes
    <3>4. QED BY <1>6, <3>1, <3>2, <3>3 DEF SaveFails
  <2>3. PageWork(w)'
    BY <1>1, <1>2, <2>1 DEF PageWork, Inside, Goto
  <2>4. QED BY <1>3, <2>1, <2>2, <2>3
<1>7. CASE LeaveAutocommitOff(w) \/ Community(w)
  <2>1. /\ at[w] = "use" /\ Goto(w, "push") /\ task[w] # "legacy"
    BY <1>1, <1>7 DEF LeaveAutocommitOff, Community, PageWork
  <2> DEFINE before == session[held[w]]
  <2>2. /\ [before EXCEPT !.autocommit = FALSE] \in Sessions
        /\ [before EXCEPT !.dirty = {}] \in Sessions
    BY <1>4, <2>1 DEF Sessions
  <2>3. session' \in [Connections -> Sessions]
    BY <1>1, <1>7, <2>2 DEF LeaveAutocommitOff, Community
  <2>4. stored \subseteq stored' /\ stored' \subseteq Posts
    BY <1>1, <1>7 DEF LeaveAutocommitOff, Community, Commits
  <2>5. PageWork(w)'
    BY <1>1, <1>2, <1>7, <2>1 DEF PageWork, Inside, Goto, LeaveAutocommitOff, Community
  <2>6. QED BY <1>3, <2>1, <2>3, <2>4, <2>5
<1>8. CASE Insert(w)
  <2>1. /\ at[w] = "insert" /\ Goto(w, "unlockUsers") /\ task[w] = "register" /\ stored' = stored
    BY <1>1, <1>8 DEF Insert, PageWork
  <2>2. \/ session' = session
        \/ /\ held[w] \in Connections /\ mine[w] \in Users
           /\ session' = [session EXCEPT ![held[w]].dirty = @ \cup {mine[w]}]
    BY <1>1, <1>8, <2>1 DEF Insert, PageWork
  <2>3. session' \in [Connections -> Sessions]
    BY <1>1, <2>2 DEF Sessions
  <2>4. PageWork(w)'
    BY <1>1, <1>2, <2>1 DEF PageWork, Inside, Goto
  <2>5. QED BY <1>1, <1>3, <2>1, <2>3, <2>4
<1>9. QED BY <1>5, <1>6, <1>7, <1>8

\* The page itself is read and written under its lock.
LEMMA RebuildingKeepsPage ==
  ASSUME PageInv, LeaseInv, NEW w \in Workers,
         LockPage(w) \/ Select(w) \/ Write(w) \/ UnlockPage(w)
  PROVE  PageInv'
<1> USE DEF Places, dataVars, pageVars, poolVars
<1>1. /\ PageType /\ PageWork(w) /\ at \in [Workers -> Places] /\ task \in [Workers -> Tasks]
      /\ mine \in [Workers -> Posts \cup Users \cup {None}] /\ view \in [Workers -> SUBSET Posts]
      /\ stored \subseteq Posts /\ shown \subseteq stored /\ shown \subseteq page
      /\ ~pageReady => shown = {}
      /\ None \notin Workers /\ None \notin Posts
  BY SqlPoolAssumption DEF PageInv, PageType
<1>2. UNCHANGED <<task, mine, held, session, stored>>
  BY DEF LockPage, Select, Write, UnlockPage
<1>3. ASSUME NEW place \in Places, Goto(w, place), PageWork(w)',
             view' \in [Workers -> SUBSET Posts], \A v \in Workers \ {w} : view'[v] = view[v],
             (shown \subseteq stored)', (shown \subseteq page)', (~pageReady => shown = {})',
             pageLock' = pageLock \/ pageLock' = w \/ (pageLock' = None /\ pageLock = w),
             pageLock' = w => pageLock \in {w, None},
             pageLock = w \/ UNCHANGED <<pageReady, shown>>
      PROVE  PageInv'
  <2>1. at' = [at EXCEPT ![w] = place]
    BY <1>3 DEF Goto
  <2>2. Alone(w) /\ PageType'
    BY <1>1, <1>2, <1>3, <2>1 DEF Alone, PageType
  <2>3. QED BY <1>2, <1>3, <2>2, PageStep
<1>4. CASE LockPage(w)
  <2> DEFINE place == IF task[w] = "legacy" THEN "checkPage" ELSE "select"
  <2>1. /\ at[w] = "lockPage" /\ Goto(w, place) /\ pageLock = None /\ pageLock' = w
        /\ UNCHANGED <<pageReady, page, view, shown>>
    BY <1>4 DEF LockPage, TakePageLock
  <2>2. PageWork(w)'
    BY <1>1, <1>2, <2>1 DEF PageWork, Inside, Goto
  <2>3. QED BY <1>1, <1>2, <1>3, <2>1, <2>2
<1>5. CASE Select(w)
  <2>1. PICK seen \in Seen(w) : view' = [view EXCEPT ![w] = seen]
    BY <1>5 DEF Select
  <2>6. seen \subseteq Posts /\ (task[w] = "upload" => seen = stored)
    BY <1>1, <2>1 DEF Seen
  <2>2. /\ at[w] = "select" /\ Goto(w, "write") /\ pageLock = w
        /\ UNCHANGED <<pageLock, pageReady, page, shown>>
    BY <1>1, <1>5 DEF Select, PageWork, Inside
  <2>3. PageWork(w)'
    <3>1. task[w] = "upload" => mine[w] \in stored /\ seen = stored
      BY <1>1, <2>6, <2>2 DEF PageWork
    <3>2. view'[w] = seen
      BY <1>1, <2>1
    <3>3. QED BY <1>1, <1>2, <2>2, <3>1, <3>2 DEF PageWork, Inside, Goto
  <2>4. /\ view' \in [Workers -> SUBSET Posts] /\ \A v \in Workers \ {w} : view'[v] = view[v]
    BY <1>1, <2>1, <2>6
  <2>5. QED BY <1>1, <1>2, <1>3, <2>2, <2>3, <2>4
<1>6. CASE Write(w)
  <2> DEFINE place == IF task[w] = "legacy" THEN "push" ELSE "unlockPage"
  <2>1. /\ at[w] = "write" /\ Goto(w, place) /\ pageLock = w /\ UNCHANGED pageLock
        /\ page' = view[w] /\ pageReady' = TRUE /\ shown' = shown \cup ({mine[w]} \cap Posts)
        /\ view' = [view EXCEPT ![w] = {}]
    BY <1>1, <1>6 DEF Write, LeavePage, PageWork, Inside
  <2>2. CASE task[w] = "legacy"
    <3>1. shown = {} /\ shown' = {}
      BY <1>1, <2>1, <2>2 DEF PageWork
    <3>2. PageWork(w)'
      BY <1>1, <1>2, <2>1, <2>2 DEF PageWork, Inside, Goto
    <3>3. QED BY <1>1, <1>2, <1>3, <2>1, <3>1, <3>2
  <2>3. CASE task[w] = "upload"
    <3>1. shown' = shown \cup {mine[w]} /\ shown' \subseteq page' /\ shown' \subseteq stored'
      BY <1>1, <1>2, <2>1, <2>3 DEF PageWork
    <3>2. PageWork(w)'
      BY <1>1, <1>2, <2>1, <2>3 DEF PageWork, Inside, Goto
    <3>3. QED BY <1>1, <1>2, <1>3, <2>1, <3>1, <3>2
  <2>4. QED BY <1>1, <2>1, <2>2, <2>3 DEF PageWork
<1>7. CASE UnlockPage(w)
  <2> DEFINE place == IF task[w] = "legacy" THEN "idle" ELSE "push"
  <2>1. /\ at[w] = "unlockPage" /\ Goto(w, place) /\ pageLock = w /\ pageLock' = None
        /\ UNCHANGED <<pageReady, page, view, shown>>
    BY <1>1, <1>7 DEF UnlockPage, PageWork, Inside
  <2>2. PageWork(w)'
    BY <1>1, <1>2, <2>1 DEF PageWork, Inside, Goto
  <2>3. QED BY <1>1, <1>2, <1>3, <2>1, <2>2
<1>8. QED BY <1>4, <1>5, <1>6, <1>7

LEMMA InitPage == Init => PageInv
<1> SUFFICES ASSUME Init PROVE PageInv
  OBVIOUS
<1>1. PageType
  BY DEF Init, PageType, Places, Tasks, CleanSession, Sessions
<1>2. ASSUME NEW w \in Workers PROVE PageWork(w)
  BY SqlPoolAssumption DEF Init, PageWork, Inside
<1>3. QED BY <1>1, <1>2 DEF Init, PageInv

LEMMA NextKeepsPage == LeaseInv /\ PageInv /\ [Next]_vars => PageInv'
<1> SUFFICES ASSUME LeaseInv, PageInv, [Next]_vars PROVE PageInv'
  OBVIOUS
<1>1. CASE UNCHANGED vars
  <2>1. UNCHANGED <<pageLock, pageReady, page, view, shown, stored, session, at, task, held, mine>>
    BY <1>1 DEF vars, pageVars, dataVars, workerVars
  <2>2. PageType' /\ \A w \in Workers : PageWork(w)'
    BY <2>1 DEF PageInv, PageType, PageWork, Inside
  <2>3. QED BY <2>1, <2>2 DEF PageInv
<1>2. ASSUME NEW w \in Workers,
             StartUpload(w) \/ StartRegister(w) \/ StartOther(w) \/ Working(w)
      PROVE  PageInv'
  BY <1>2, LeasingKeepsPage, StoringKeepsPage, RebuildingKeepsPage DEF Working
<1>3. QED BY <1>1, <1>2 DEF Next

\* http_conn.cpp:1400-1412, 1617-1624: no rebuild of community-legacy.html puts back
\* an older page, although uploads commit while another worker is between its SELECT
\* and its write, and although the session of a pooled connection may have been left
\* inside a transaction.
THEOREM PageNeverLosesPosts == Spec => []PageKeepsPosts
<1>1. PageInv => PageKeepsPosts
  BY DEF PageInv, PageKeepsPosts
<1>2. QED BY <1>1, LeaseInvariance, InitPage, NextKeepsPage, PTL DEF Spec

-----------------------------------------------------------------------------
(* Users.                                                                  *)

\* A session does not commit by itself only on a connection that was given back
\* so; on all others a name is added to users only together with its row.
UserInv ==
  /\ session \in [Connections -> Sessions]
  /\ users \subseteq Users /\ via \in [Users -> Connections \cup {None}]
  /\ \A c \in Connections : session[c].autocommit \/ c \in leftOff
  /\ UsersAreStored

\* What one request does to its own session and to the rows.
LEMMA SessionStep ==
  ASSUME UserInv, session' \in [Connections -> Sessions],
         UNCHANGED <<users, via>>, rows \subseteq rows', leftOff \subseteq leftOff',
         NEW c \in Connections, NEW s \in Sessions, session' = [session EXCEPT ![c] = s],
         s.autocommit \/ c \in leftOff'
  PROVE  UserInv'
<1>1. ASSUME NEW d \in Connections PROVE session'[d].autocommit \/ d \in leftOff'
  BY DEF UserInv
<1>2. UsersAreStored'
  BY DEF UserInv, UsersAreStored
<1>3. QED BY <1>1, <1>2 DEF UserInv

LEMMA NextKeepsUsers == LeaseInv /\ PageInv /\ UserInv /\ [Next]_vars => UserInv'
<1> SUFFICES ASSUME LeaseInv, PageInv, UserInv, [Next]_vars PROVE UserInv'
  OBVIOUS
<1>1. /\ session \in [Connections -> Sessions] /\ session' \in [Connections -> Sessions]
      /\ held \in [Workers -> opened \cup {None}] /\ opened \subseteq Connections
      /\ \A w \in Workers : PageWork(w)
  BY NextKeepsPage DEF PageInv, PageType, LeaseInv, LeaseType
<1>2. CASE UNCHANGED <<leftOff, users, rows, session, via>>
  BY <1>2 DEF UserInv, UsersAreStored
<1>3. ASSUME NEW w \in Workers, at[w] = "use"
      PROVE  held[w] \in Connections /\ session[held[w]] \in Sessions
  BY <1>1, <1>3 DEF PageWork
<1>4. ASSUME NEW w \in Workers, at[w] = "use", UNCHANGED <<users, via>>,
             NEW committed, NEW pending \in SUBSET (Posts \cup Users),
             RestoreAutocommit(held[w], committed, pending)
      PROVE  UserInv'
  <2> DEFINE off == [autocommit |-> FALSE, dirty |-> pending]
  <2>1. held[w] \in Connections
    BY <1>3, <1>4
  <2>2. CleanSession \in Sessions /\ CleanSession.autocommit /\ off \in Sessions
    BY DEF CleanSession, Sessions
  <2>3. CASE /\ Commits(committed \cup pending) /\ UNCHANGED leftOff
             /\ session' = [session EXCEPT ![held[w]] = CleanSession]
    <3>1. rows \subseteq rows' /\ leftOff \subseteq leftOff'
      BY <2>3 DEF Commits
    <3>2. QED BY <1>1, <1>4, <2>1, <2>2, <2>3, <3>1, SessionStep
  <2>4. CASE /\ Commits(committed) /\ leftOff' = leftOff \cup {held[w]}
             /\ session' = [session EXCEPT ![held[w]] = off]
    <3>1. rows \subseteq rows' /\ leftOff \subseteq leftOff' /\ held[w] \in leftOff'
      BY <2>4 DEF Commits
    <3>2. QED BY <1>1, <1>4, <2>1, <2>2, <2>4, <3>1, SessionStep
  <2>5. QED BY <1>4, <2>3, <2>4 DEF RestoreAutocommit
<1>5. ASSUME NEW w \in Workers, SavePost(w) \/ SaveFails(w) PROVE UserInv'
  <2>1. at[w] = "use" /\ UNCHANGED <<users, via>> /\ mine[w] \in Posts
    BY <1>1, <1>5 DEF SavePost, SaveFails, PageWork
  <2>2. session[held[w]].dirty \subseteq Posts \cup Users
    BY <1>3, <2>1 DEF Sessions
  <2>3. CASE UNCHANGED <<stored, rows, session, leftOff>>
    BY <1>2, <2>1, <2>3
  <2>4. CASE RestoreAutocommit(held[w], session[held[w]].dirty \cup {mine[w]}, {})
    BY <1>4, <2>1, <2>4
  <2>5. ASSUME NEW pending \in AfterRollback(w), RestoreAutocommit(held[w], {}, pending)
        PROVE  UserInv'
    <3>1. pending \in SUBSET (Posts \cup Users)
      BY <2>1, <2>2 DEF AfterRollback
    <3>2. QED BY <1>4, <2>1, <2>5, <3>1
  <2>6. QED BY <1>5, <2>3, <2>4, <2>5 DEF SavePost, SaveFails
<1>6. ASSUME NEW w \in Workers, LeaveAutocommitOff(w) \/ Community(w) PROVE UserInv'
  <2> DEFINE before == session[held[w]]
             off == [before EXCEPT !.autocommit = FALSE]
             clean == [before EXCEPT !.dirty = {}]
  <2>1. /\ at[w] = "use" /\ UNCHANGED <<users, via>>
    BY <1>6 DEF LeaveAutocommitOff, Community
  <2>2. /\ held[w] \in Connections /\ off \in Sessions /\ clean \in Sessions
        /\ clean.autocommit = before.autocommit
    BY <1>3, <2>1 DEF Sessions
  <2>3. CASE UNCHANGED <<stored, rows, session>> /\ UNCHANGED leftOff
    BY <1>2, <2>1, <2>3
  <2>4. CASE LeaveAutocommitOff(w)
    <3>1. /\ session' = [session EXCEPT ![held[w]] = off] /\ rows' = rows
          /\ leftOff' = leftOff \cup {held[w]}
      BY <2>4 DEF LeaveAutocommitOff
    <3>2. QED BY <1>1, <2>1, <2>2, <3>1, SessionStep
  <2>5. CASE Commits(session[held[w]].dirty) /\ UNCHANGED leftOff
             /\ session' = [session EXCEPT ![held[w]].dirty = {}]
    <3>1. session' = [session EXCEPT ![held[w]] = clean] /\ rows \subseteq rows'
      BY <2>5 DEF Commits
    <3>2. clean.autocommit \/ held[w] \in leftOff'
      BY <2>2, <2>5 DEF UserInv
    <3>3. QED BY <1>1, <2>1, <2>2, <2>5, <3>1, <3>2, SessionStep
  <2>6. QED BY <1>6, <2>3, <2>4, <2>5 DEF Community
<1>7. ASSUME NEW w \in Workers, Insert(w) PROVE UserInv'
  <2>1. at[w] = "insert" /\ UNCHANGED leftOff /\ mine[w] \in Users
    BY <1>1, <1>7 DEF Insert, PageWork
  <2>2. CASE UNCHANGED <<users, rows, session, via>>
    BY <1>2, <2>1, <2>2
  <2>3. CASE held[w] # None /\ users' = users \cup {mine[w]} /\ via' = [via EXCEPT ![mine[w]] = held[w]]
    <3>1. /\ held[w] \in Connections /\ users \subseteq Users
          /\ via \in [Users -> Connections \cup {None}]
      BY <1>1, <2>3 DEF UserInv
    <3>2. /\ users' \subseteq Users /\ via' \in [Users -> Connections \cup {None}]
          /\ via'[mine[w]] = held[w] /\ \A u \in Users \ {mine[w]} : via'[u] = via[u]
      BY <2>1, <2>3, <3>1
    <3>3. CASE session[held[w]].autocommit /\ rows' = rows \cup {mine[w]} /\ UNCHANGED session
      <4>1. UsersAreStored'
        BY <2>1, <2>3, <3>1, <3>2, <3>3 DEF UserInv, UsersAreStored
      <4>2. QED BY <2>1, <3>2, <3>3, <4>1 DEF UserInv
    <3>4. CASE /\ ~session[held[w]].autocommit /\ UNCHANGED rows
               /\ session' = [session EXCEPT ![held[w]].dirty = @ \cup {mine[w]}]
      <4>1. held[w] \in leftOff
        BY <3>1, <3>4 DEF UserInv
      <4>2. UsersAreStored'
        BY <2>1, <2>3, <3>1, <3>2, <3>4, <4>1 DEF UserInv, UsersAreStored
      <4>3. \A c \in Connections : session'[c].autocommit = session[c].autocommit
        BY <1>1, <3>1, <3>4 DEF Sessions
      <4>4. QED BY <1>1, <2>1, <3>2, <4>2, <4>3 DEF UserInv
    <3>5. QED BY <1>7, <2>3, <3>3, <3>4, <2>2 DEF Insert
  <2>4. QED BY <1>7, <2>2, <2>3 DEF Insert
<1>8. ASSUME NEW w \in Workers,
             StartUpload(w) \/ StartRegister(w) \/ StartOther(w) \/ Working(w)
      PROVE  UserInv'
  <2>1. CASE \/ StartUpload(w) \/ StartRegister(w) \/ StartOther(w)
             \/ Get(w) \/ Wait(w) \/ Pop(w) \/ Push(w) \/ PostPermit(w)
             \/ CheckPage(w) \/ RebuildFails(w) \/ LockUsers(w) \/ UnlockUsers(w)
             \/ LockPage(w) \/ Select(w) \/ Write(w) \/ UnlockPage(w)
    BY <1>2, <2>1 DEF StartUpload, StartRegister, StartOther, Start, Get, Wait, Pop, Push, PostPermit,
         CheckPage, RebuildFails, LockUsers, UnlockUsers, LockPage, Select, Write, UnlockPage, dataVars
  <2>2. QED BY <1>5, <1>6, <1>7, <1>8, <2>1 DEF Working
<1>9. CASE UNCHANGED vars
  BY <1>2, <1>9 DEF vars, dataVars
<1>10. QED BY <1>8, <1>9 DEF Next

\* http_conn.cpp:1511-1531, registration: a name in users, with which a client can
\* log in, has its row in the database, whatever fails, unless it was registered over
\* a connection that save_post_to_db has given back with autocommit off (its early
\* return at 1028, or the ignored results at 1136-1137).
THEOREM UsersHaveRows == Spec => []UsersAreStored
<1>1. Init => UserInv
  BY DEF Init, UserInv, UsersAreStored, CleanSession, Sessions
<1>2. UserInv => UsersAreStored
  BY DEF UserInv
<1>3. QED BY <1>1, <1>2, LeaseInvariance, InitPage, NextKeepsPage, NextKeepsUsers, PTL DEF Spec

=============================================================================
