---------------------------- MODULE CommunityProofs ----------------------------
(***************************************************************************)
(* The transactions of the community store, for any numbers of requests,   *)
(* users, posts and events: which of them exclude each other, what a       *)
(* transaction has written and nobody else can have touched, and so that   *)
(* the counters agree with the log and with the reactions.  Then the       *)
(* functions of Ranking: what they compute, by induction over their loops. *)
(***************************************************************************)
EXTENDS Community, FiniteSetTheorems, SequenceTheorems, TLAPS

Counters == [Plain \cup Flags -> Nat]
Rows == [Flags -> BOOLEAN]
LogRecords == [user : Users, post : Posts, type : Types]
Drafts == [stats : Counters \cup {None}, state : Rows \cup {None}]

Sharing == {"state", "read", "update", "commit"}
Acting == {"insert", "stats"} \cup Sharing

\* The counters and the flags that a row stands for, when there is none too.
CountersOf(p) == IF stats[p] = None THEN NoCounts ELSE stats[p]
RowOf(u, p) == IF state[<<u, p>>] = None THEN NoFlags ELSE state[<<u, p>>]

Typed ==
  /\ log \in [Events -> LogRecords \cup {None}]
  /\ stats \in [Posts -> Counters \cup {None}]
  /\ state \in [Users \X Posts -> Rows \cup {None}]
  /\ pc \in [Requests -> Places] /\ DOMAIN job = Requests
  /\ draft \in [Requests -> Drafts]
  /\ \A t \in Requests : pc[t] \in Acting \cup {"invalidate"} => job[t] \in Actions

\* The locks.
Apart(t, r) ==
  LET j == job[r] IN
  /\ ~(HasEvent(t, j.event) /\ HasEvent(r, j.event))
  /\ ~(OwnsStats(t, j.post) /\ SharesStats(r, j.post))
  /\ ~(OwnsState(t, j.user, j.post) /\ SharesState(r, j.user, j.post))

Excluded == \A t, r \in Requests : t # r => Apart(t, r)

\* The event of a transaction is not in the log.
EventIsNew(t) == pc[t] \in {"stats"} \cup Sharing => log[job[t].event] = None

\* Before it counts, a transaction has written nothing or the first row.
Untouched(t) ==
  \/ draft[t].stats = None /\ stats[job[t].post] # None
  \/ draft[t].stats = NoCounts /\ stats[job[t].post] = None

StatsDraft(t) ==
  LET p == job[t].post
      type == job[t].type
  IN
  /\ pc[t] \in {"state", "read", "update"} => Untouched(t)
  /\ pc[t] = "commit" =>
       IF Counts(type, RowOf(job[t].user, p)) THEN draft[t].stats = Counted(type, CountersOf(p))
       ELSE Untouched(t)

StateDraft(t) ==
  LET row == RowOf(job[t].user, job[t].post) IN
  /\ pc[t] = "read" =>
       \/ draft[t].state = None /\ state[<<job[t].user, job[t].post>>] # None
       \/ draft[t].state = NoFlags /\ state[<<job[t].user, job[t].post>>] = None
  /\ pc[t] = "update" => draft[t].state = row
  /\ pc[t] = "commit" => draft[t].state = Flagged(job[t].type, row)

DraftsRight == \A t \in Requests : EventIsNew(t) /\ StatsDraft(t) /\ StateDraft(t)

TxInv == Typed /\ Excluded /\ DraftsRight

-----------------------------------------------------------------------------
(* What an action does to counters and flags.                              *)

LEMMA ActionTypes ==
  ASSUME NEW a \in Actions
  PROVE  /\ a.user \in Users /\ a.post \in Posts /\ a.event \in Events /\ a.type \in Types
         /\ a.type \notin Plain => Flag(a.type) \in Flags
         /\ Sets(a.type) \in BOOLEAN
BY CommunityAssumption DEF Actions, Flag, Flags, Sets, Plain

LEMMA NothingYet == NoCounts \in Counters /\ NoFlags \in Rows /\ NoCounts # None /\ NoFlags # None
<1>1. NoCounts \in Counters /\ NoFlags \in Rows
  BY DEF NoCounts, NoFlags, Counters, Rows
<1> QED
  BY <1>1, CommunityAssumption DEF Counters, Rows

LEMMA WritesTyped ==
  ASSUME NEW a \in Actions, NEW c \in Counters, NEW row \in Rows
  PROVE  /\ Counted(a.type, c) \in Counters /\ Counted(a.type, c) # None
         /\ Flagged(a.type, row) \in Rows /\ Flagged(a.type, row) # None
<1>1. Counted(a.type, c) \in Counters
  BY ActionTypes DEF Counted, Counters
<1>2. Flagged(a.type, row) \in Rows
  BY ActionTypes DEF Flagged, Rows
<1> QED
  BY <1>1, <1>2, CommunityAssumption DEF Counters, Rows

LEMMA RowsTyped ==
  ASSUME TxInv, NEW a \in Actions
  PROVE  /\ CountersOf(a.post) \in Counters /\ RowOf(a.user, a.post) \in Rows
         /\ stats[a.post] \in Counters \cup {None} /\ state[<<a.user, a.post>>] \in Rows \cup {None}
         /\ <<a.user, a.post>> \in Users \X Posts
BY NothingYet, ActionTypes DEF TxInv, Typed, CountersOf, RowOf

-----------------------------------------------------------------------------
(* The steps of a request.  Each leaves the other requests alone, and the  *)
(* database too unless it commits.                                         *)

LEMMA StepIsLocal ==
  ASSUME Typed, NEW t \in Requests, Step(t)
  PROVE  /\ pc' \in [Requests -> Places] /\ DOMAIN job' = Requests
         /\ draft' = [r \in Requests |-> draft'[r]]
         /\ \A r \in Others(t) : pc'[r] = pc[r] /\ job'[r] = job[r] /\ draft'[r] = draft[r]
         /\ UNCHANGED database \/ (At(t, "commit") /\ Committed(t))
<1> USE DEF Typed, Others, Goto, Places
<1>1. CASE Act(t) \/ InsertAction(t) \/ EnsureStats(t) \/ EnsureState(t) \/ ReadState(t)
  BY <1>1 DEF Act, InsertAction, GoOrEnd, End, EnsureStats, EnsureState, ReadState
<1>2. CASE Update(t)
  BY <1>2 DEF Update
<1>3. CASE Commit(t) \/ CommitUnanswered(t) \/ ActionFails(t) \/ Invalidate(t)
  BY <1>3 DEF Commit, CommitUnanswered, ActionFails, RolledBack, Invalidate, GoOrEnd, End
<1>4. CASE AskFeed(t) \/ ReadCandidates(t) \/ FeedFails(t) \/ Store(t)
  BY <1>4 DEF AskFeed, ReadCandidates, FeedFails, Store, End
<1> QED
  BY <1>1, <1>2, <1>3, <1>4 DEF Step

\* Where the request itself is after its step.
Ends(t) == pc'[t] \in {"idle", "insert", "select", "store", "invalidate"}

LEMMA StepKinds ==
  ASSUME Typed, NEW t \in Requests, Step(t)
  PROVE  \/ Ends(t)
         \/ (InsertAction(t) /\ IsNew(t)) \/ EnsureStats(t) \/ EnsureState(t) \/ ReadState(t) \/ Update(t)
BY DEF Step, Ends, Typed, Act, InsertAction, GoOrEnd, End, Commit, CommitUnanswered, ActionFails,
       Invalidate, AskFeed, ReadCandidates, FeedFails, Store, Goto

LEMMA TypedNext ==
  ASSUME TxInv, NEW t \in Requests, Step(t)
  PROVE  Typed'
<1> USE DEF Typed
<1>1. /\ pc' \in [Requests -> Places] /\ DOMAIN job' = Requests
      /\ \A r \in Others(t) : pc'[r] = pc[r] /\ job'[r] = job[r]
  BY StepIsLocal DEF TxInv
<1>2. ASSUME pc'[t] \in Acting \cup {"invalidate"} PROVE job'[t] \in Actions
  BY <1>2 DEF Step, Act, InsertAction, GoOrEnd, End, EnsureStats, EnsureState, ReadState, Update, Commit,
     CommitUnanswered, ActionFails, Invalidate, AskFeed, ReadCandidates, FeedFails, Store, Goto, At,
     Acting, Sharing, TxInv
<1>3. \A r \in Requests : pc'[r] \in Acting \cup {"invalidate"} => job'[r] \in Actions
  BY <1>1, <1>2 DEF Others, TxInv
<1>4. job[t] \in Actions \/ pc[t] \notin Acting
  BY DEF TxInv
<1>5. draft[t] \in Drafts /\ NoDraft \in Drafts
  BY DEF NoDraft, Drafts, TxInv
<1>6. draft'[t] \in Drafts
  <2>1. CASE EnsureStats(t)
    BY <1>4, <1>5, <2>1, NothingYet DEF EnsureStats, Drafts, TxInv
  <2>2. CASE EnsureState(t)
    BY <1>4, <1>5, <2>2, NothingYet DEF EnsureState, Drafts, TxInv
  <2>3. CASE ReadState(t)
    <3>1. state[<<job[t].user, job[t].post>>] \in Rows \cup {None}
      BY <1>4, <2>3, RowsTyped DEF ReadState, At, Acting, Sharing
    <3> QED
      BY <1>5, <2>3, <3>1 DEF ReadState, Drafts, TxInv
  <2>4. CASE Update(t)
    <3>1. pc[t] = "update" /\ job[t] \in Actions
      BY <1>4, <2>4 DEF Update, At, Acting, Sharing
    <3>2. draft[t].state \in Rows
      BY <3>1, RowsTyped DEF TxInv, DraftsRight, StateDraft
    <3>3. (IF draft[t].stats = None THEN stats[job[t].post] ELSE draft[t].stats) \in Counters
      <4>1. Untouched(t) /\ stats[job[t].post] \in Counters \cup {None}
        BY <3>1, RowsTyped DEF TxInv, DraftsRight, StatsDraft
      <4> QED
        BY <4>1, NothingYet DEF Untouched
    <3> QED
      BY <1>5, <2>4, <3>1, <3>2, <3>3, WritesTyped DEF Update, Drafts, TxInv
  <2>5. CASE draft' = draft \/ draft' = [draft EXCEPT ![t] = NoDraft]
    BY <1>5, <2>5 DEF TxInv
  <2> QED
    BY <2>1, <2>2, <2>3, <2>4, <2>5 DEF Step, Act, InsertAction, GoOrEnd, End, Commit, CommitUnanswered,
       ActionFails, Invalidate, AskFeed, ReadCandidates, FeedFails, Store
<1>7. draft' \in [Requests -> Drafts]
  BY <1>6, StepIsLocal DEF Others, TxInv
<1>8. /\ log' \in [Events -> LogRecords \cup {None}]
      /\ stats' \in [Posts -> Counters \cup {None}]
      /\ state' \in [Users \X Posts -> Rows \cup {None}]
  <2>1. CASE UNCHANGED database
    BY <2>1 DEF database, TxInv
  <2>2. CASE At(t, "commit") /\ Committed(t)
    <3>1. job[t] \in Actions
      BY <1>4, <2>2 DEF At, Acting, Sharing
    <3>2. draft[t].state \in Rows
      BY <2>2, <3>1, RowsTyped, WritesTyped, ZenonT(60) DEF At, TxInv, DraftsRight, StateDraft
    <3>3. [user |-> job[t].user, post |-> job[t].post, type |-> job[t].type] \in LogRecords
      BY <3>1, ActionTypes DEF LogRecords
    <3> QED
      BY <1>5, <2>2, <3>1, <3>2, <3>3, ActionTypes DEF Committed, Drafts, TxInv
  <2> QED
    BY <2>1, <2>2, StepIsLocal DEF TxInv
<1> QED
  BY <1>1, <1>3, <1>7, <1>8

\* Who shares a row knows that it is there, or has written it.
LEMMA SharersKnow ==
  ASSUME TxInv, NEW r \in Requests
  PROVE  /\ pc[r] \in Sharing => draft[r].stats # None \/ stats[job[r].post] # None
         /\ pc[r] \in {"read", "update", "commit"} =>
              draft[r].state # None \/ state[<<job[r].user, job[r].post>>] # None
         /\ pc[r] \in {"update", "commit"} => draft[r].state # None
<1> DEFINE p == job[r].post
           u == job[r].user
<1>1. CASE pc[r] \in {"state", "read"}
  BY <1>1, NothingYet DEF TxInv, DraftsRight, StatsDraft, StateDraft, Untouched
<1>2. CASE pc[r] \in {"update", "commit"}
  <2>1. job[r] \in Actions
    BY <1>2 DEF TxInv, Typed, Acting, Sharing
  <2>2. CountersOf(p) \in Counters /\ RowOf(u, p) \in Rows /\ RowOf(u, p) # None
    BY <2>1, RowsTyped, CommunityAssumption DEF Rows
  <2>3. /\ Counted(job[r].type, CountersOf(p)) # None
        /\ Flagged(job[r].type, RowOf(u, p)) # None
    BY <2>1, <2>2, WritesTyped
  <2>4. StatsDraft(r) /\ StateDraft(r)
    BY DEF TxInv, DraftsRight
  <2>5. draft[r].state # None
    BY <1>2, <2>2, <2>3, <2>4 DEF StateDraft
  <2>6. draft[r].stats # None \/ stats[p] # None
    <3>1. CASE pc[r] = "update"
      BY <2>4, <3>1, NothingYet DEF StatsDraft, Untouched
    <3>2. CASE pc[r] = "commit"
      BY <2>3, <2>4, <3>2, NothingYet DEF StatsDraft, Untouched
    <3> QED
      BY <1>2, <3>1, <3>2
  <2> QED
    BY <1>2, <2>5, <2>6
<1> QED
  BY <1>1, <1>2 DEF Sharing

\* A statement waits for the locks that it needs.
LEMMA ExcludedNext ==
  ASSUME TxInv, NEW t \in Requests, Step(t)
  PROVE  Excluded'
<1>1. \A r \in Others(t) : pc'[r] = pc[r] /\ job'[r] = job[r] /\ draft'[r] = draft[r]
  BY StepIsLocal DEF TxInv
<1> USE DEF Apart, HasEvent, OwnsStats, SharesStats, OwnsState, SharesState
<1>2. ASSUME NEW r \in Others(t)
      PROVE  Apart(t, r)' /\ Apart(r, t)'
  <2>0. /\ pc \in [Requests -> Places] /\ draft \in [Requests -> Drafts] /\ r \in Requests /\ r # t
        /\ Apart(t, r) /\ Apart(r, t)
        /\ pc'[r] = pc[r] /\ job'[r] = job[r] /\ draft'[r] = draft[r]
    BY <1>1 DEF TxInv, Typed, Others, Excluded
  <2>1. CASE Ends(t)
    BY <2>1 DEF Ends
  <2>2. CASE InsertAction(t) /\ IsNew(t)
    BY <2>0, <2>2 DEF InsertAction, GoOrEnd, Goto, At
  <2>3. CASE EnsureStats(t)
    <3>1. /\ pc[t] = "stats" /\ pc'[t] = "state" /\ job'[t] = job[t]
          /\ ~OwnsStats(r, job[t].post)
          /\ draft'[t].stats # None => stats[job[t].post] = None
      BY <2>0, <2>3 DEF EnsureStats, Goto, At
    <3>2. SharesStats(r, job[t].post) => stats[job[t].post] # None
      BY <2>0, <3>1, SharersKnow DEF Sharing
    <3> QED
      BY <2>0, <3>1, <3>2
  <2>4. CASE EnsureState(t)
    <3>1. /\ pc[t] = "state" /\ pc'[t] = "read" /\ job'[t] = job[t]
          /\ ~OwnsState(r, job[t].user, job[t].post)
          /\ draft'[t].state # None => state[<<job[t].user, job[t].post>>] = None
          /\ draft'[t].stats = draft[t].stats
      BY <2>0, <2>4 DEF EnsureState, Goto, At
    <3>2. SharesState(r, job[t].user, job[t].post) => state[<<job[t].user, job[t].post>>] # None
      BY <2>0, <3>1, SharersKnow
    <3> QED
      BY <2>0, <3>1, <3>2
  <2>5. CASE ReadState(t)
    <3>1. /\ pc[t] = "read" /\ pc'[t] = "update" /\ job'[t] = job[t]
          /\ ~SharesState(r, job[t].user, job[t].post)
          /\ draft'[t].stats = draft[t].stats
      BY <2>0, <2>5 DEF ReadState, Goto, At
    <3> QED
      BY <2>0, <3>1
  <2>6. CASE Update(t)
    <3>1. /\ pc[t] = "update" /\ pc'[t] = "commit" /\ job'[t] = job[t]
          /\ ~SharesStats(r, job[t].post) \/ draft'[t].stats = draft[t].stats
      BY <2>0, <2>6 DEF Update, Goto, At
    <3>2. draft[t].state # None
      BY <3>1, SharersKnow
    <3> QED
      BY <2>0, <3>1, <3>2
  <2> QED
    BY <2>1, <2>2, <2>3, <2>4, <2>5, <2>6, StepKinds DEF TxInv
<1>3. ASSUME NEW a \in Others(t), NEW b \in Others(t), a # b PROVE Apart(a, b)'
  <2>1. /\ pc'[a] = pc[a] /\ job'[a] = job[a] /\ draft'[a] = draft[a]
        /\ pc'[b] = pc[b] /\ job'[b] = job[b] /\ draft'[b] = draft[b] /\ Apart(a, b)
    BY <1>1, <1>3 DEF TxInv, Excluded, Others
  <2> QED
    BY <2>1
<1> QED
  BY <1>2, <1>3 DEF Excluded, Others

\* A commit changes no row that another transaction has drafted.
LEMMA OthersDrafts ==
  ASSUME TxInv, NEW t \in Requests, Step(t), NEW r \in Others(t)
  PROVE  (EventIsNew(r) /\ StatsDraft(r) /\ StateDraft(r))'
<1> USE DEF HasEvent, OwnsStats, SharesStats, OwnsState, SharesState
<1> DEFINE p == job[r].post
           u == job[r].user
<1>1. /\ pc'[r] = pc[r] /\ job'[r] = job[r] /\ draft'[r] = draft[r]
      /\ UNCHANGED database \/ (At(t, "commit") /\ Committed(t))
  BY StepIsLocal DEF TxInv
<1>2. r \in Requests /\ r # t /\ EventIsNew(r) /\ StatsDraft(r) /\ StateDraft(r) /\ Apart(r, t)
  BY DEF TxInv, DraftsRight, Others, Excluded
<1>3. CASE UNCHANGED database
  BY <1>1, <1>2, <1>3 DEF database, EventIsNew, StatsDraft, StateDraft, Untouched, CountersOf, RowOf
<1>4. CASE At(t, "commit") /\ Committed(t) /\ pc[r] \in {"stats"} \cup Sharing
  <2>1. job[t] \in Actions /\ job[r] \in Actions /\ pc[t] = "commit"
    BY <1>2, <1>4 DEF TxInv, Typed, At, Acting, Sharing
  <2>2. draft[t].state # None
    BY <2>1, SharersKnow
  <2>3. log'[job[r].event] = log[job[r].event]
    BY <1>2, <1>4, <2>1, ActionTypes DEF Committed, TxInv, Typed, Apart, Sharing
  <2>4. /\ stats[p] # None => stats'[p] # None
        /\ job[t].post # p => stats'[p] = stats[p]
    BY <1>4, <2>1, ActionTypes DEF Committed, TxInv, Typed
  <2>5. /\ state[<<u, p>>] # None => state'[<<u, p>>] # None
        /\ job[t].post # p \/ job[t].user # u => state'[<<u, p>>] = state[<<u, p>>]
    BY <1>4, <2>1, <2>2, ActionTypes DEF Committed, TxInv, Typed
  <2>6. pc[r] \in Sharing /\ draft[r].stats # None => stats'[p] = stats[p]
    BY <1>2, <2>1, <2>4 DEF Apart, Sharing
  <2>7. pc[r] \in {"read", "update", "commit"} /\ draft[r].state # None
        => state'[<<u, p>>] = state[<<u, p>>]
    BY <1>2, <2>1, <2>5 DEF Apart
  <2>8. EventIsNew(r)'
    BY <1>1, <1>2, <2>3 DEF EventIsNew
  <2>9. StateDraft(r)'
    <3>1. CASE pc[r] = "read"
      BY <1>1, <1>2, <2>5, <2>7, <3>1, NothingYet DEF StateDraft
    <3>2. CASE pc[r] \in {"update", "commit"}
      <4>1. RowOf(u, p)' = RowOf(u, p)
        BY <1>1, <1>2, <2>7, <3>2, SharersKnow DEF RowOf
      <4> QED
        BY <1>1, <1>2, <3>2, <4>1 DEF StateDraft
    <3> QED
      BY <1>1, <3>1, <3>2 DEF StateDraft
  <2>10. pc[r] \in Sharing /\ Untouched(r) => Untouched(r)'
    BY <1>1, <2>4, <2>6, NothingYet DEF Untouched
  <2>11. ASSUME pc[r] = "commit" PROVE StatsDraft(r)'
    <3>1. state'[<<u, p>>] = state[<<u, p>>] /\ pc'[r] = "commit"
      BY <1>1, <1>2, <2>7, <2>11, SharersKnow
    <3>2. CASE Counts(job[r].type, RowOf(u, p))
      <4>1. draft[r].stats = Counted(job[r].type, CountersOf(p)) /\ draft[r].stats # None
        BY <1>2, <2>1, <2>11, <3>2, RowsTyped, WritesTyped DEF StatsDraft
      <4>2. stats'[p] = stats[p]
        BY <2>6, <2>11, <4>1 DEF Sharing
      <4> QED
        BY <1>1, <3>1, <3>2, <4>1, <4>2 DEF StatsDraft, RowOf, CountersOf
    <3>3. CASE ~Counts(job[r].type, RowOf(u, p))
      <4>1. Untouched(r)'
        BY <1>2, <2>10, <2>11, <3>3 DEF StatsDraft, Sharing
      <4> QED
        BY <1>1, <3>1, <3>3, <4>1 DEF StatsDraft, RowOf
    <3> QED
      BY <3>2, <3>3
  <2>12. ASSUME pc[r] # "commit" PROVE StatsDraft(r)'
    <3>1. pc'[r] # "commit"
      BY <1>1, <2>12
    <3>2. pc'[r] \in {"state", "read", "update"} => Untouched(r)'
      BY <1>1, <1>2, <2>10 DEF StatsDraft, Sharing
    <3> QED
      BY <3>1, <3>2 DEF StatsDraft
  <2> QED
    BY <2>8, <2>9, <2>11, <2>12
<1>5. CASE pc[r] \notin {"stats"} \cup Sharing
  BY <1>1, <1>5 DEF EventIsNew, StatsDraft, StateDraft, Sharing
<1> QED
  BY <1>1, <1>3, <1>4, <1>5

\* What a transaction has written is right before it commits.
LEMMA OwnDraft ==
  ASSUME TxInv, NEW t \in Requests, Step(t)
  PROVE  (EventIsNew(t) /\ StatsDraft(t) /\ StateDraft(t))'
<1> DEFINE p == job[t].post
           u == job[t].user
<1>0. /\ pc \in [Requests -> Places] /\ draft \in [Requests -> Drafts]
      /\ EventIsNew(t) /\ StatsDraft(t) /\ StateDraft(t)
      /\ pc[t] \in Acting => job[t] \in Actions
  BY DEF TxInv, Typed, DraftsRight
<1> USE DEF At, Goto, Sharing, Acting
<1>1. CASE Ends(t)
  BY <1>1 DEF Ends, EventIsNew, StatsDraft, StateDraft
<1>2. CASE InsertAction(t) /\ IsNew(t)
  BY <1>0, <1>2 DEF InsertAction, IsNew, GoOrEnd, database, EventIsNew, StatsDraft, StateDraft
<1>3. CASE EnsureStats(t)
  <2>1. /\ pc[t] = "stats" /\ pc'[t] = "state" /\ job'[t] = job[t] /\ UNCHANGED database
        /\ draft'[t].stats = IF stats[p] = None THEN NoCounts ELSE None
    BY <1>0, <1>3 DEF EnsureStats
  <2> QED
    BY <1>0, <2>1, NothingYet DEF EventIsNew, StatsDraft, StateDraft, Untouched, database
<1>4. CASE EnsureState(t)
  <2>1. /\ pc[t] = "state" /\ pc'[t] = "read" /\ job'[t] = job[t] /\ UNCHANGED database
        /\ draft'[t].stats = draft[t].stats
        /\ draft'[t].state = IF state[<<u, p>>] = None THEN NoFlags ELSE None
    BY <1>0, <1>4 DEF EnsureState
  <2> QED
    BY <1>0, <2>1, NothingYet DEF EventIsNew, StatsDraft, StateDraft, Untouched, database
<1>5. CASE ReadState(t)
  <2>1. /\ pc[t] = "read" /\ pc'[t] = "update" /\ job'[t] = job[t] /\ UNCHANGED database
        /\ draft'[t].stats = draft[t].stats
        /\ draft'[t].state = IF draft[t].state = None THEN state[<<u, p>>] ELSE draft[t].state
    BY <1>0, <1>5 DEF ReadState
  <2>2. draft'[t].state = RowOf(u, p)
    BY <1>0, <2>1, NothingYet DEF StateDraft, RowOf
  <2> QED
    BY <1>0, <2>1, <2>2, NothingYet DEF EventIsNew, StatsDraft, StateDraft, Untouched, database, RowOf
<1>6. CASE Update(t)
  <2>1. /\ pc[t] = "update" /\ pc'[t] = "commit" /\ job'[t] = job[t] /\ UNCHANGED database
        /\ draft[t].state = RowOf(u, p) /\ Untouched(t)
    BY <1>0, <1>6 DEF Update, StatsDraft, StateDraft
  <2>2. CountersOf(p) = IF draft[t].stats = None THEN stats[p] ELSE draft[t].stats
    BY <2>1, NothingYet DEF CountersOf, Untouched
  <2>3. /\ draft'[t].state = Flagged(job[t].type, RowOf(u, p))
        /\ draft'[t].stats = IF Counts(job[t].type, RowOf(u, p))
                             THEN Counted(job[t].type, CountersOf(p)) ELSE draft[t].stats
    BY <1>0, <1>6, <2>1, <2>2 DEF Update
  <2>4. RowOf(u, p)' = RowOf(u, p) /\ CountersOf(p)' = CountersOf(p)
    BY <2>1 DEF RowOf, CountersOf, database
  <2>5. EventIsNew(t)'
    BY <1>0, <2>1 DEF EventIsNew, database
  <2>6. StateDraft(t)'
    BY <2>1, <2>3, <2>4 DEF StateDraft
  <2>7. StatsDraft(t)'
    BY <2>1, <2>3, <2>4 DEF StatsDraft, Untouched, database
  <2> QED
    BY <2>5, <2>6, <2>7
<1> QED
  BY <1>1, <1>2, <1>3, <1>4, <1>5, <1>6, StepKinds DEF TxInv

LEMMA TxNext == TxInv /\ [Next]_vars => TxInv'
<1> SUFFICES ASSUME TxInv, [Next]_vars PROVE TxInv'
  OBVIOUS
<1>1. ASSUME NEW t \in Requests, Step(t) PROVE TxInv'
  <2>1. DraftsRight'
    <3>1. ASSUME NEW r \in Requests PROVE (EventIsNew(r) /\ StatsDraft(r) /\ StateDraft(r))'
      BY <1>1, OthersDrafts, OwnDraft DEF Others
    <3> QED
      BY <3>1 DEF DraftsRight
  <2> QED
    BY <1>1, <2>1, TypedNext, ExcludedNext DEF TxInv
<1>2. CASE UNCHANGED <<database, request>>
  BY <1>2 DEF database, request, TxInv, Typed, Excluded, Apart, HasEvent, OwnsStats, SharesStats,
              OwnsState, SharesState, DraftsRight, EventIsNew, StatsDraft, StateDraft, Untouched,
              CountersOf, RowOf
<1> QED
  BY <1>1, <1>2 DEF Next, Tick, vars

LEMMA TxStarts == Init => TxInv
<1> SUFFICES ASSUME Init PROVE TxInv
  OBVIOUS
<1>1. pc = [t \in Requests |-> "idle"]
  BY DEF Init
<1>2. NoDraft \in Drafts
  BY DEF NoDraft, Drafts
<1>3. Typed
  BY <1>1, <1>2 DEF Init, Typed, Places, Acting, Sharing
<1>4. Excluded
  BY <1>1 DEF Excluded, Apart, HasEvent, OwnsStats, SharesStats, OwnsState, SharesState
<1>5. DraftsRight
  BY <1>1 DEF DraftsRight, EventIsNew, StatsDraft, StateDraft, Sharing
<1> QED
  BY <1>3, <1>4, <1>5 DEF TxInv

-----------------------------------------------------------------------------
(* The counters.                                                           *)

LEMMA CountsAreRows ==
  ASSUME TxInv, NEW p \in Posts
  PROVE  /\ CountersOf(p) \in Counters
         /\ \A c \in Plain \cup Flags : Count(p, c) = CountersOf(p)[c]
         /\ \A u \in Users : /\ RowOf(u, p) \in Rows
                             /\ \A f \in Flags : HasFlag(u, p, f) <=> RowOf(u, p)[f]
<1>1. /\ stats[p] \in Counters \cup {None}
      /\ \A u \in Users : state[<<u, p>>] \in Rows \cup {None}
  BY DEF TxInv, Typed
<1>2. \A c \in Plain \cup Flags : NoCounts[c] = 0
  BY DEF NoCounts
<1>3. \A f \in Flags : NoFlags[f] = FALSE
  BY DEF NoFlags
<1> QED
  BY <1>1, <1>2, <1>3, NothingYet DEF CountersOf, Count, RowOf, HasFlag

\* What a commit makes of the rows: the action is applied to what they are now.
LEMMA CommitApplies ==
  ASSUME TxInv, NEW t \in Requests, At(t, "commit"), Committed(t), NEW p \in Posts
  PROVE  /\ job[t] \in Actions
         /\ CountersOf(p)' = IF p = job[t].post /\ Counts(job[t].type, RowOf(job[t].user, p))
                             THEN Counted(job[t].type, CountersOf(p)) ELSE CountersOf(p)
         /\ \A u \in Users :
              RowOf(u, p)' = IF u = job[t].user /\ p = job[t].post
                             THEN Flagged(job[t].type, RowOf(u, p)) ELSE RowOf(u, p)
<1>1. job[t] \in Actions /\ pc[t] = "commit"
  BY DEF TxInv, Typed, At, Acting, Sharing
<1>2. stats'[p] = IF p = job[t].post /\ draft[t].stats # None THEN draft[t].stats ELSE stats[p]
  BY <1>1, ActionTypes DEF Committed, TxInv, Typed
<1>3. \A u \in Users : state'[<<u, p>>] = IF u = job[t].user /\ p = job[t].post THEN draft[t].state
                                         ELSE state[<<u, p>>]
  BY <1>1, ActionTypes DEF Committed, TxInv, Typed
<1>4. StatsDraft(t) /\ StateDraft(t)
  BY DEF TxInv, DraftsRight
<1>5. p = job[t].post => /\ draft[t].state = Flagged(job[t].type, RowOf(job[t].user, p))
                         /\ draft[t].state # None
  BY <1>1, <1>4, RowsTyped, WritesTyped DEF StateDraft
<1>6. CASE p = job[t].post /\ Counts(job[t].type, RowOf(job[t].user, p))
  <2>1. draft[t].stats = Counted(job[t].type, CountersOf(p)) /\ draft[t].stats # None
    BY <1>1, <1>4, <1>6, RowsTyped, WritesTyped DEF StatsDraft
  <2>2. CountersOf(p)' = Counted(job[t].type, CountersOf(p))
    BY <1>2, <1>6, <2>1 DEF CountersOf
  <2> QED
    BY <1>1, <1>3, <1>5, <1>6, <2>2 DEF RowOf
<1>7. CASE ~(p = job[t].post /\ Counts(job[t].type, RowOf(job[t].user, p)))
  <2>1. p = job[t].post => Untouched(t)
    BY <1>1, <1>4, <1>7 DEF StatsDraft
  <2>2. CountersOf(p)' = CountersOf(p)
    BY <1>2, <2>1, NothingYet DEF CountersOf, Untouched
  <2> QED
    BY <1>1, <1>3, <1>5, <1>7, <2>2 DEF RowOf
<1> QED
  BY <1>6, <1>7

LEMMA CountedEvents ==
  TxInv /\ EventsCountedOnce /\ [Next]_vars => EventsCountedOnce'
<1> SUFFICES ASSUME TxInv, EventsCountedOnce, [Next]_vars PROVE EventsCountedOnce'
  OBVIOUS
<1>0. TxInv'
  BY TxNext
<1>1. CASE UNCHANGED database
  BY <1>1 DEF database, EventsCountedOnce, Count
<1>2. ASSUME NEW t \in Requests, At(t, "commit"), Committed(t) PROVE EventsCountedOnce'
  <2> SUFFICES ASSUME NEW p \in Posts, NEW type \in Plain
               PROVE  Count(p, type)' =
                        Cardinality({e \in Events : /\ log'[e] # None /\ log'[e].post = p
                                                    /\ log'[e].type = type})
    BY DEF EventsCountedOnce
  <2> DEFINE j == job[t]
             old == {e \in Events : log[e] # None /\ log[e].post = p /\ log[e].type = type}
             new == {e \in Events : log'[e] # None /\ log'[e].post = p /\ log'[e].type = type}
             entry == [user |-> j.user, post |-> j.post, type |-> j.type]
  <2>1. /\ j \in Actions /\ j.event \in Events /\ log[j.event] = None
        /\ log' = [log EXCEPT ![j.event] = entry] /\ entry # None
    <3>1. j \in Actions /\ log' = [log EXCEPT ![j.event] = entry]
      BY <1>2, CommitApplies DEF Committed
    <3>2. log[j.event] = None
      BY <1>2 DEF TxInv, DraftsRight, EventIsNew, At, Sharing
    <3>3. entry \in [user : Users, post : Posts, type : Types]
      BY <3>1, ActionTypes
    <3> QED
      BY <3>1, <3>2, <3>3, ActionTypes, CommunityAssumption
  <2>2. new = IF j.post = p /\ j.type = type THEN old \cup {j.event} ELSE old
    BY <2>1 DEF TxInv, Typed
  <2>3. IsFiniteSet(old) /\ j.event \notin old
    BY <2>1, FS_Subset, CommunityAssumption
  <2>4. Cardinality(new) = Cardinality(old) + IF j.post = p /\ j.type = type THEN 1 ELSE 0
    <3> HIDE DEF old, new
    <3>1. Cardinality(old) \in Nat /\ Cardinality(old \cup {j.event}) = Cardinality(old) + 1
      BY <2>3, FS_AddElement, FS_CardinalityType
    <3> QED
      BY <2>2, <3>1
  <2>5. CountersOf(p)[type] = Cardinality(old) /\ CountersOf(p) \in Counters
    BY CountsAreRows DEF EventsCountedOnce
  <2>6. Count(p, type)' = CountersOf(p)'[type]
    BY <1>0, NothingYet DEF Count, CountersOf, NoCounts
  <2>7. CountersOf(p)' = IF p = j.post /\ Counts(j.type, RowOf(j.user, p))
                        THEN Counted(j.type, CountersOf(p)) ELSE CountersOf(p)
    BY <1>2, CommitApplies
  <2>8. CountersOf(p)'[type] = CountersOf(p)[type] + IF j.post = p /\ j.type = type THEN 1 ELSE 0
    <3>1. j.type \in Plain => Counts(j.type, RowOf(j.user, p))
      BY DEF Counts
    <3>2. Counted(j.type, CountersOf(p))[type]
            = CountersOf(p)[type] + IF j.type = type THEN 1 ELSE 0
      <4>1. CASE j.type \in Plain
        BY <2>5, <4>1 DEF Counted, Counters
      <4>2. CASE j.type \notin Plain
        <5>1. Flag(j.type) # type
          BY <2>1, <4>2, ActionTypes DEF Plain, Flags
        <5> QED
          BY <2>5, <4>2, <5>1 DEF Counted, Counters
      <4> QED
        BY <4>1, <4>2
    <3> QED
      BY <2>5, <2>7, <3>1, <3>2 DEF Counters
  <2> QED
    BY <2>4, <2>5, <2>6, <2>8
<1>3. ASSUME NEW t \in Requests, Step(t)
      PROVE  UNCHANGED database \/ (At(t, "commit") /\ Committed(t))
  BY <1>3, StepIsLocal DEF TxInv
<1> QED
  BY <1>1, <1>2, <1>3 DEF Next, Tick, vars

LEMMA CountedReactions ==
  TxInv /\ ReactionsAddUp /\ [Next]_vars => ReactionsAddUp'
<1> SUFFICES ASSUME TxInv, ReactionsAddUp, [Next]_vars PROVE ReactionsAddUp'
  OBVIOUS
<1>0. TxInv'
  BY TxNext
<1>1. CASE UNCHANGED database
  BY <1>1 DEF database, ReactionsAddUp, Count, HasFlag
<1>2. ASSUME NEW t \in Requests, At(t, "commit"), Committed(t) PROVE ReactionsAddUp'
  <2> SUFFICES ASSUME NEW p \in Posts, NEW flag \in Flags
               PROVE  Count(p, flag)' = Cardinality({u \in Users : HasFlag(u, p, flag)'})
    BY DEF ReactionsAddUp
  <2>0. PICK me \in Users : me = job[t].user
    BY <1>2, CommitApplies, ActionTypes
  <2> DEFINE j == job[t]
             row == RowOf(me, p)
             old == {u \in Users : HasFlag(u, p, flag)}
             new == {u \in Users : HasFlag(u, p, flag)'}
  <2>1. /\ j \in Actions /\ Sets(j.type) \in BOOLEAN
        /\ CountersOf(p) \in Counters /\ row \in Rows
        /\ CountersOf(p)' = IF p = j.post /\ Counts(j.type, row)
                            THEN Counted(j.type, CountersOf(p)) ELSE CountersOf(p)
        /\ \A u \in Users : RowOf(u, p)' = IF u = me /\ p = j.post
                                          THEN Flagged(j.type, RowOf(u, p)) ELSE RowOf(u, p)
    BY <1>2, <2>0, CommitApplies, CountsAreRows, ActionTypes
  <2>2. /\ CountersOf(p)[flag] = Cardinality(old)
        /\ \A u \in Users : u \in old <=> RowOf(u, p)[flag]
    BY CountsAreRows DEF ReactionsAddUp
  <2>3. /\ Count(p, flag)' = CountersOf(p)'[flag]
        /\ \A u \in Users : u \in new <=> RowOf(u, p)'[flag]
    BY <1>0, NothingYet DEF Count, CountersOf, HasFlag, RowOf, NoCounts, NoFlags
  <2>4. /\ IsFiniteSet(old) /\ Cardinality(old) \in Nat
        /\ me \notin old => Cardinality(old \cup {me}) = Cardinality(old) + 1
        /\ me \in old => Cardinality(old \ {me}) = Cardinality(old) - 1
        /\ me \in old => Cardinality(old) > 0
    <3>1. IsFiniteSet(old)
      BY FS_Subset, CommunityAssumption
    <3> HIDE DEF old
    <3>2. Cardinality(old) \in Nat /\ Cardinality(old \ {me}) \in Nat
      BY <3>1, FS_CardinalityType, FS_Subset
    <3>3. Cardinality(old \cup {me}) = IF me \in old THEN Cardinality(old) ELSE Cardinality(old) + 1
      BY <3>1, FS_AddElement
    <3>4. Cardinality(old \ {me}) = IF me \in old THEN Cardinality(old) - 1 ELSE Cardinality(old)
      BY <3>1, FS_RemoveElement
    <3> QED
      BY <3>1, <3>2, <3>3, <3>4
  <2>5. CASE p = j.post /\ j.type \notin Plain /\ flag = Flag(j.type) /\ row[flag] # Sets(j.type)
    <3>1. /\ CountersOf(p)' = Counted(j.type, CountersOf(p)) /\ row[flag] = ~Sets(j.type)
          /\ RowOf(me, p)' = [row EXCEPT ![flag] = Sets(j.type)]
      <4>1. row[flag] \in BOOLEAN
        BY <2>1 DEF Rows
      <4>2. Counts(j.type, row)
        BY <2>5 DEF Counts
      <4>3. Flagged(j.type, row) = [row EXCEPT ![flag] = Sets(j.type)]
        BY <2>5 DEF Flagged
      <4> QED
        BY <2>1, <2>5, <4>1, <4>2, <4>3
    <3>2. /\ new = IF Sets(j.type) THEN old \cup {me} ELSE old \ {me}
          /\ me \in old <=> ~Sets(j.type)
      <4> HIDE DEF old, new
      <4>1. me \in old <=> ~Sets(j.type)
        BY <2>1, <2>2, <3>1
      <4>2. me \in new <=> Sets(j.type)
        <5>1. RowOf(me, p)'[flag] = Sets(j.type)
          BY <2>1, <3>1 DEF Rows
        <5> QED
          BY <2>3, <5>1
      <4>3. \A u \in Users \ {me} : u \in new <=> u \in old
        BY <2>1, <2>2, <2>3
      <4>4. old \subseteq Users /\ new \subseteq Users
        BY DEF old, new
      <4> QED
        BY <2>1, <4>1, <4>2, <4>3, <4>4
    <3>3. CountersOf(p)'[flag] = IF Sets(j.type) THEN CountersOf(p)[flag] + 1
                                ELSE IF CountersOf(p)[flag] > 0 THEN CountersOf(p)[flag] - 1 ELSE 0
      BY <2>1, <2>5, <3>1 DEF Counted, Counters
    <3> HIDE DEF old, new
    <3>4. CountersOf(p)'[flag] = Cardinality(new)
      BY <2>2, <2>4, <3>2, <3>3
    <3> QED
      BY <2>3, <3>4 DEF new
  <2>6. CASE ~(p = j.post /\ j.type \notin Plain /\ flag = Flag(j.type) /\ row[flag] # Sets(j.type))
    <3>1. \A u \in Users : RowOf(u, p)'[flag] = RowOf(u, p)[flag]
      BY <2>1, <2>6 DEF Flagged, Rows
    <3>2. new = old
      <4> HIDE DEF old, new
      <4>1. \A u \in Users : u \in new <=> u \in old
        BY <2>2, <2>3, <3>1
      <4>2. old \subseteq Users /\ new \subseteq Users
        BY DEF old, new
      <4> QED
        BY <4>1, <4>2
    <3>3. CountersOf(p)'[flag] = CountersOf(p)[flag]
      <4>1. CASE p = j.post /\ Counts(j.type, row) /\ j.type \in Plain
        <5>1. flag # j.type
          BY <4>1 DEF Plain, Flags
        <5> QED
          BY <2>1, <4>1, <5>1 DEF Counted, Counters
      <4>2. CASE p = j.post /\ Counts(j.type, row) /\ j.type \notin Plain
        <5>1. flag # Flag(j.type)
          BY <2>6, <4>2 DEF Counts
        <5> QED
          BY <2>1, <4>2, <5>1 DEF Counted, Counters
      <4> QED
        BY <2>1, <4>1, <4>2
    <3> QED
      BY <2>2, <2>3, <3>2, <3>3
  <2> QED
    BY <2>5, <2>6
<1>3. ASSUME NEW t \in Requests, Step(t)
      PROVE  UNCHANGED database \/ (At(t, "commit") /\ Committed(t))
  BY <1>3, StepIsLocal DEF TxInv
<1> QED
  BY <1>1, <1>2, <1>3 DEF Next, Tick, vars

LEMMA CountsStart == Init => EventsCountedOnce /\ ReactionsAddUp
<1> SUFFICES ASSUME Init PROVE EventsCountedOnce /\ ReactionsAddUp
  OBVIOUS
<1>1. /\ log = [e \in Events |-> None] /\ stats = [p \in Posts |-> None]
      /\ state = [k \in Users \X Posts |-> None]
  BY DEF Init
<1>2. \A p \in Posts, type \in Plain :
        {e \in Events : log[e] # None /\ log[e].post = p /\ log[e].type = type} = {}
  BY <1>1
<1>3. \A p \in Posts, flag \in Flags : {u \in Users : HasFlag(u, p, flag)} = {}
  BY <1>1 DEF HasFlag
<1> QED
  BY <1>1, <1>2, <1>3, FS_EmptySet DEF EventsCountedOnce, ReactionsAddUp, Count

\* A repeated event is not counted again.
THEOREM EventsAreCountedOnce == Spec => []EventsCountedOnce
BY TxStarts, TxNext, CountsStart, CountedEvents, PTL DEF Spec

\* The counters of reactions are the numbers of users that have them.
THEOREM CountersMatchReactions == Spec => []ReactionsAddUp
BY TxStarts, TxNext, CountsStart, CountedReactions, PTL DEF Spec

-----------------------------------------------------------------------------
(* The pages of the feed.                                                  *)

Pages == [knows : SUBSET Events, late : SUBSET Events, left : 1..Ttl]

\* Whoever is about to drop pages does so for the user of its event.
PagesInv ==
  /\ snapshots \in [Users \X Offsets -> Pages \cup {None}]
  /\ found \in [Requests -> SUBSET Events]
  /\ \A t \in Requests : pc[t] = "invalidate" =>
       log[job[t].event] # None /\ log[job[t].event].user = job[t].user
  /\ PagesFollowReactions

\* A step that changes neither reactions nor pages.
LEMMA PagesStay ==
  ASSUME PagesInv, UNCHANGED <<log, snapshots, unanswered>>, found' \in [Requests -> SUBSET Events],
         \A t \in Requests : /\ pc[t] = "invalidate" => pc'[t] = "invalidate" /\ job'[t] = job[t]
                             /\ pc'[t] = "invalidate" => pc[t] = "invalidate"
  PROVE  PagesInv'
<1>1. ASSUME NEW u \in Users, NEW o \in Offsets, FreshPage(u, o)',
             NEW e \in Reactions(u)' \ snapshots'[<<u, o>>].knows
      PROVE  \/ e \in snapshots'[<<u, o>>].late \cup unanswered'
             \/ \E r \in Requests : pc'[r] = "invalidate" /\ job'[r].event = e
  <2>1. FreshPage(u, o) /\ e \in Reactions(u) \ snapshots[<<u, o>>].knows
    BY <1>1 DEF FreshPage, Reactions
  <2>2. \/ e \in snapshots[<<u, o>>].late \cup unanswered
        \/ \E r \in Requests : pc[r] = "invalidate" /\ job[r].event = e
    BY <2>1 DEF PagesInv, PagesFollowReactions, At
  <2>3. \A r \in Requests : pc[r] = "invalidate" => pc'[r] = "invalidate" /\ job'[r].event = job[r].event
    OBVIOUS
  <2>4. snapshots'[<<u, o>>].late = snapshots[<<u, o>>].late /\ unanswered' = unanswered
    OBVIOUS
  <2> QED
    BY <2>2, <2>3, <2>4
<1>2. PagesFollowReactions'
  BY <1>1 DEF PagesFollowReactions, At
<1>3. ASSUME NEW r \in Requests, pc'[r] = "invalidate"
      PROVE  log'[job'[r].event] # None /\ log'[job'[r].event].user = job'[r].user
  <2>1. pc[r] = "invalidate" /\ job'[r] = job[r] /\ log' = log
    BY <1>3
  <2> QED
    BY <2>1 DEF PagesInv
<1> QED
  BY <1>2, <1>3 DEF PagesInv

LEMMA PagesNext == TxInv /\ PagesInv /\ [Next]_vars => PagesInv'
<1> SUFFICES ASSUME TxInv, PagesInv, [Next]_vars PROVE PagesInv'
  OBVIOUS
<1>1. CASE UNCHANGED vars
  BY <1>1, PagesStay DEF vars, database, request, PagesInv
<1>2. ASSUME NEW t \in Requests,
             \/ Act(t) \/ InsertAction(t) \/ EnsureStats(t) \/ EnsureState(t) \/ ReadState(t) \/ Update(t)
             \/ ActionFails(t) \/ AskFeed(t) \/ ReadCandidates(t) \/ FeedFails(t)
      PROVE  PagesInv'
  <2>1. UNCHANGED <<log, snapshots, unanswered>> /\ pc[t] # "invalidate" /\ pc'[t] # "invalidate"
    BY <1>2 DEF Act, InsertAction, EnsureStats, EnsureState, ReadState, Update, ActionFails, AskFeed,
       ReadCandidates, FeedFails, RolledBack, database, GoOrEnd, End, Goto, At, TxInv, Typed
  <2>2. \A r \in Others(t) : pc'[r] = pc[r] /\ job'[r] = job[r]
    BY <1>2, StepIsLocal DEF Step, TxInv
  <2>3. found' = found \/ found' = [found EXCEPT ![t] = Reactions(job[t].user)]
        \/ found' = [found EXCEPT ![t] = {}]
    BY <1>2 DEF Act, InsertAction, EnsureStats, EnsureState, ReadState, Update, ActionFails, AskFeed,
       ReadCandidates, FeedFails, GoOrEnd, End
  <2>4. found' \in [Requests -> SUBSET Events]
    BY <2>3 DEF PagesInv, Reactions
  <2> QED
    BY <2>1, <2>2, <2>4, PagesStay DEF Others
<1>3. ASSUME NEW t \in Requests, Commit(t) \/ CommitUnanswered(t) PROVE PagesInv'
  <2> DEFINE j == job[t]
             entry == [user |-> j.user, post |-> j.post, type |-> j.type]
  <2>1. /\ At(t, "commit") /\ Committed(t) /\ pc[t] = "commit" /\ j \in Actions /\ j.event \in Events
        /\ log[j.event] = None /\ UNCHANGED snapshots
    BY <1>3, ActionTypes DEF Commit, CommitUnanswered, At, TxInv, Typed, Acting, Sharing, DraftsRight,
       EventIsNew
  <2>2. log' = [log EXCEPT ![j.event] = entry]
    BY <2>1 DEF Committed
  <2>3. entry # None /\ entry.user = j.user /\ entry.type = j.type
    BY <2>1, ActionTypes, CommunityAssumption
  <2>4. \A r \in Others(t) : pc'[r] = pc[r] /\ job'[r] = job[r]
    BY <1>3, StepIsLocal DEF Step, TxInv
  <2>5. /\ pc'[t] = "invalidate" => job'[t] = job[t]
        /\ Reacts(j.type) => pc'[t] = "invalidate" \/ j.event \in unanswered'
        /\ unanswered \subseteq unanswered'
    BY <1>3 DEF Commit, CommitUnanswered, GoOrEnd, End, Goto, Invalidates, TxInv, Typed
  <2>6. found' = found \/ found' = [found EXCEPT ![t] = {}]
    BY <1>3 DEF Commit, CommitUnanswered, GoOrEnd, End
  <2>7. ASSUME NEW r \in Requests, pc'[r] = "invalidate"
        PROVE  log'[job'[r].event] # None /\ log'[job'[r].event].user = job'[r].user
    <3>1. CASE r = t
      BY <2>1, <2>2, <2>3, <2>5, <2>7, <3>1 DEF TxInv, Typed
    <3>2. CASE r # t
      <4>1. pc[r] = "invalidate" /\ job'[r] = job[r] /\ log[job[r].event] # None
            /\ log[job[r].event].user = job[r].user
        BY <2>4, <2>7, <3>2 DEF Others, PagesInv
      <4> QED
        BY <2>1, <2>2, <4>1 DEF TxInv, Typed
    <3> QED
      BY <3>1, <3>2
  <2>8. ASSUME NEW u \in Users, NEW o \in Offsets, FreshPage(u, o)',
               NEW e \in Reactions(u)' \ snapshots'[<<u, o>>].knows
        PROVE  \/ e \in snapshots'[<<u, o>>].late \cup unanswered'
               \/ \E r \in Requests : pc'[r] = "invalidate" /\ job'[r].event = e
    <3>1. CASE e = j.event
      <4>1. Reacts(j.type)
        BY <2>1, <2>2, <2>3, <2>8, <3>1 DEF Reactions, TxInv, Typed
      <4> QED
        BY <2>5, <3>1, <4>1
    <3>2. CASE e # j.event
      <4>1. FreshPage(u, o) /\ e \in Reactions(u) \ snapshots[<<u, o>>].knows
        BY <2>1, <2>2, <2>8, <3>2 DEF Reactions, FreshPage, TxInv, Typed
      <4>2. \/ e \in snapshots[<<u, o>>].late \cup unanswered
            \/ \E r \in Requests : pc[r] = "invalidate" /\ job[r].event = e
        BY <4>1 DEF PagesInv, PagesFollowReactions, At
      <4> QED
        BY <2>1, <2>4, <2>5, <4>2 DEF Others
    <3> QED
      BY <3>1, <3>2
  <2>9. PagesFollowReactions'
    BY <2>8 DEF PagesFollowReactions, At
  <2> QED
    BY <2>1, <2>6, <2>7, <2>9 DEF PagesInv
<1>4. ASSUME NEW t \in Requests, Invalidate(t) PROVE PagesInv'
  <2>1. /\ UNCHANGED <<log, unanswered>> /\ pc[t] = "invalidate" /\ pc'[t] = "idle"
        /\ snapshots' = [k \in Users \X Offsets |-> IF k[1] = job[t].user THEN None ELSE snapshots[k]]
        /\ found' = [found EXCEPT ![t] = {}]
    BY <1>4 DEF Invalidate, database, End, Goto, At, TxInv, Typed
  <2>2. \A r \in Others(t) : pc'[r] = pc[r] /\ job'[r] = job[r]
    BY <1>4, StepIsLocal DEF Step, TxInv
  <2>3. ASSUME NEW u \in Users, NEW o \in Offsets, FreshPage(u, o)',
               NEW e \in Reactions(u)' \ snapshots'[<<u, o>>].knows
        PROVE  \/ e \in snapshots'[<<u, o>>].late \cup unanswered'
               \/ \E r \in Requests : pc'[r] = "invalidate" /\ job'[r].event = e
    <3>1. u # job[t].user /\ snapshots'[<<u, o>>] = snapshots[<<u, o>>]
      BY <2>1, <2>3 DEF FreshPage
    <3>2. FreshPage(u, o) /\ e \in Reactions(u) \ snapshots[<<u, o>>].knows
      BY <2>1, <2>3, <3>1 DEF Reactions, FreshPage
    <3>3. \/ e \in snapshots[<<u, o>>].late \cup unanswered
          \/ \E r \in Requests : pc[r] = "invalidate" /\ job[r].event = e
      BY <3>2 DEF PagesInv, PagesFollowReactions, At
    <3>4. job[t].event # e
      BY <2>1, <3>1, <3>2 DEF PagesInv, Reactions
    <3> QED
      BY <2>1, <2>2, <3>1, <3>3, <3>4 DEF Others
  <2>4. PagesFollowReactions'
    BY <2>3 DEF PagesFollowReactions, At
  <2>5. snapshots' \in [Users \X Offsets -> Pages \cup {None}]
    BY <2>1 DEF PagesInv
  <2> QED
    BY <2>1, <2>2, <2>4, <2>5 DEF PagesInv, Others
<1>5. ASSUME NEW t \in Requests, Store(t) PROVE PagesInv'
  <2> DEFINE j == job[t]
             page == [knows |-> found[t], late |-> Reactions(j.user) \ found[t], left |-> Ttl]
  <2>1. /\ UNCHANGED <<log, unanswered>> /\ pc[t] # "invalidate" /\ pc'[t] = "idle"
        /\ snapshots' = [snapshots EXCEPT ![<<j.user, j.offset>>] = page]
        /\ found' = [found EXCEPT ![t] = {}]
    BY <1>5 DEF Store, database, End, Goto, At, TxInv, Typed
  <2>2. \A r \in Others(t) : pc'[r] = pc[r] /\ job'[r] = job[r]
    BY <1>5, StepIsLocal DEF Step, TxInv
  <2>3. page \in Pages
    BY CommunityAssumption DEF Pages, PagesInv, Reactions
  <2>4. ASSUME NEW u \in Users, NEW o \in Offsets, FreshPage(u, o)',
               NEW e \in Reactions(u)' \ snapshots'[<<u, o>>].knows
        PROVE  \/ e \in snapshots'[<<u, o>>].late \cup unanswered'
               \/ \E r \in Requests : pc'[r] = "invalidate" /\ job'[r].event = e
    <3>0. e \in Reactions(u)
      BY <2>1, <2>4 DEF Reactions
    <3>1. CASE u = j.user /\ o = j.offset
      <4>1. snapshots'[<<u, o>>] = page
        BY <2>1, <3>1 DEF PagesInv
      <4> QED
        BY <2>4, <3>0, <3>1, <4>1
    <3>2. CASE ~(u = j.user /\ o = j.offset)
      <4>1. snapshots'[<<u, o>>] = snapshots[<<u, o>>]
        BY <2>1, <3>2 DEF PagesInv
      <4>2. \/ e \in snapshots[<<u, o>>].late \cup unanswered
            \/ \E r \in Requests : pc[r] = "invalidate" /\ job[r].event = e
        BY <2>4, <3>0, <4>1 DEF PagesInv, PagesFollowReactions, At, FreshPage
      <4> QED
        BY <2>1, <2>2, <4>1, <4>2 DEF Others
    <3> QED
      BY <3>1, <3>2
  <2>5. PagesFollowReactions'
    BY <2>4 DEF PagesFollowReactions, At
  <2>6. snapshots' \in [Users \X Offsets -> Pages \cup {None}]
    BY <2>1, <2>3 DEF PagesInv
  <2> QED
    BY <2>1, <2>2, <2>5, <2>6 DEF PagesInv, Others
<1>6. CASE Tick
  <2>1. /\ UNCHANGED <<log, pc, job, found, unanswered>>
        /\ snapshots' = [k \in Users \X Offsets |->
             IF FreshPage(k[1], k[2]) /\ snapshots[k].left > 1
             THEN [snapshots[k] EXCEPT !.left = @ - 1] ELSE None]
    BY <1>6 DEF Tick, database, request
  <2>2. ASSUME NEW u \in Users, NEW o \in Offsets
        PROVE  /\ snapshots'[<<u, o>>] \in Pages \cup {None}
               /\ FreshPage(u, o)' => /\ FreshPage(u, o)
                                      /\ snapshots'[<<u, o>>].knows = snapshots[<<u, o>>].knows
                                      /\ snapshots'[<<u, o>>].late = snapshots[<<u, o>>].late
    <3>1. snapshots'[<<u, o>>] = IF FreshPage(u, o) /\ snapshots[<<u, o>>].left > 1
                                THEN [snapshots[<<u, o>>] EXCEPT !.left = @ - 1] ELSE None
      BY <2>1
    <3>2. FreshPage(u, o) => snapshots[<<u, o>>] \in Pages
      BY DEF PagesInv, FreshPage
    <3>3. CASE FreshPage(u, o) /\ snapshots[<<u, o>>].left > 1
      BY <3>1, <3>2, <3>3, CommunityAssumption DEF Pages
    <3>4. CASE ~(FreshPage(u, o) /\ snapshots[<<u, o>>].left > 1)
      BY <3>1, <3>4 DEF FreshPage
    <3> QED
      BY <3>3, <3>4
  <2>3. PagesFollowReactions'
    <3>1. ASSUME NEW u \in Users, NEW o \in Offsets, FreshPage(u, o)',
                 NEW e \in Reactions(u)' \ snapshots'[<<u, o>>].knows
          PROVE  \/ e \in snapshots'[<<u, o>>].late \cup unanswered'
                 \/ \E r \in Requests : pc'[r] = "invalidate" /\ job'[r].event = e
      <4>1. FreshPage(u, o) /\ e \in Reactions(u) \ snapshots[<<u, o>>].knows
        BY <2>1, <2>2, <3>1 DEF Reactions
      <4>2. \/ e \in snapshots[<<u, o>>].late \cup unanswered
            \/ \E r \in Requests : pc[r] = "invalidate" /\ job[r].event = e
        BY <4>1 DEF PagesInv, PagesFollowReactions, At
      <4> QED
        BY <2>1, <2>2, <3>1, <4>2
    <3> QED
      BY <3>1 DEF PagesFollowReactions, At
  <2>4. snapshots' \in [Users \X Offsets -> Pages \cup {None}]
    <3>1. \A k \in Users \X Offsets : snapshots'[k] \in Pages \cup {None}
      BY <2>2
    <3> QED
      BY <2>1, <3>1
  <2> QED
    BY <2>1, <2>3, <2>4 DEF PagesInv
<1> QED
  BY <1>1, <1>2, <1>3, <1>4, <1>5, <1>6 DEF Next, Step

LEMMA PagesStart == Init => PagesInv
BY DEF Init, PagesInv, PagesFollowReactions, FreshPage

\* A page lacks only reactions that it may lack.
THEOREM PagesFollow == Spec => []PagesFollowReactions
<1>1. PagesInv => PagesFollowReactions
  BY DEF PagesInv
<1> QED
  BY <1>1, TxStarts, TxNext, PagesStart, PagesNext, PTL DEF Spec

-----------------------------------------------------------------------------
(* Induction over the natural numbers, for sets of them.                   *)

\* A set of natural numbers has a least element.
LEMMA Least ==
  ASSUME NEW T \in SUBSET Nat, T # {}
  PROVE  \E n \in T : \A m \in T : n <= m
<1> DEFINE R == {p \in Nat \X Nat : p[1] < p[2]}
<1>1. IsWellFoundedOn(R, Nat)
  BY NatLessThanWellFounded, Zenon DEF OpToRel
<1>2. PICK n \in T : \A m \in T : <<m, n>> \notin R
  <2> HIDE DEF R
  <2> QED BY <1>1, WFMin
<1>3. ASSUME NEW m \in T PROVE n <= m
  <2>1. <<m, n>> \in Nat \X Nat /\ ~(m < n)
    BY <1>2
  <2> QED BY <2>1
<1> QED BY <1>3

LEMMA Induction ==
  ASSUME NEW T \in SUBSET Nat, 0 \in T, \A n \in T : n + 1 \in T
  PROVE  T = Nat
<1> SUFFICES ASSUME Nat \ T # {} PROVE FALSE
  OBVIOUS
<1>1. PICK n \in Nat \ T : \A m \in Nat \ T : n <= m
  BY Least
<1>2. n # 0 /\ n - 1 \in T
  BY <1>1
<1> QED BY <1>1, <1>2

\* What is made step by step exists.
Steps(A, last, step) == last \in Nat /\ step \in [1..last -> [A -> A]]
Makes(A, a, last, step, f) ==
  f \in [0..last -> A] /\ f[0] = a /\ \A n \in 1..last : f[n] = step[n][f[n - 1]]

LEMMA Iteration ==
  ASSUME NEW A, NEW last, NEW step, Steps(A, last, step), NEW a \in A
  PROVE  \E f : Makes(A, a, last, step, f)
<1> USE DEF Steps
<1> DEFINE Until(k, f) == Makes(A, a, k, step, f)
           T == {k \in Nat : k <= last => \E f : Until(k, f)}
<1>1. 0 \in T
  <2>1. Until(0, [n \in 0..0 |-> a])
    BY DEF Makes
  <2> QED BY <2>1
<1>2. ASSUME NEW k \in T PROVE k + 1 \in T
  <2> SUFFICES ASSUME k + 1 <= last PROVE \E g : Until(k + 1, g)
    OBVIOUS
  <2>1. PICK f : Until(k, f)
    BY <1>2
  <2> DEFINE g == [n \in 0..k + 1 |-> IF n = k + 1 THEN step[k + 1][f[k]] ELSE f[n]]
  <2>2. k + 1 \in 1..last /\ f[k] \in A
    BY <1>2, <2>1 DEF Makes
  <2>3. step[k + 1][f[k]] \in A
    BY <2>2
  <2>4. g \in [0..k + 1 -> A] /\ g[0] = a
    BY <1>2, <2>1, <2>3 DEF Makes
  <2>5. ASSUME NEW n \in 1..k + 1 PROVE g[n] = step[n][g[n - 1]]
    <3>1. CASE n = k + 1
      <4>1. g[n] = step[k + 1][f[k]] /\ g[k] = f[k] /\ n - 1 = k
        BY <1>2, <3>1
      <4> HIDE DEF g
      <4> QED BY <3>1, <4>1
    <3>2. CASE n # k + 1
      <4>1. n \in 1..k /\ g[n] = f[n] /\ g[n - 1] = f[n - 1]
        BY <1>2, <3>2
      <4> HIDE DEF g
      <4> QED BY <2>1, <4>1 DEF Makes
    <3> QED BY <3>1, <3>2
  <2>6. Until(k + 1, g)
    <3> HIDE DEF g
    <3> QED BY <2>4, <2>5 DEF Makes
  <2> HIDE DEF g, Until
  <2> QED BY <2>4, <2>6
<1>3. last \in T
  <2> HIDE DEF T
  <2>1. T \in SUBSET Nat
    BY DEF T
  <2> QED BY <1>1, <1>2, <2>1, Induction
<1> QED BY <1>3

-----------------------------------------------------------------------------
(* The order.                                                              *)

Scored(S, score) == \A p \in S : score[p] \in Nat

\* As many posts are before the one at a place as there are places, and every post
\* has one place.
Sorts(s, S, score) ==
  /\ s \in [1..Cardinality(S) -> S]
  /\ \A i \in 1..Cardinality(S) : Cardinality(Better(S, score, s[i])) = i - 1
  /\ \A p \in S : \E i \in 1..Cardinality(S) : s[i] = p

\* Of two posts one is before the other, and what is before the one is before the
\* other as well.
LEMMA BetterCounts ==
  ASSUME NEW S \in SUBSET Posts, NEW score, Scored(S, score), NEW p \in S
  PROVE  /\ IsFiniteSet(S) /\ Cardinality(S) \in Nat
         /\ Cardinality(Better(S, score, p)) \in 0..Cardinality(S) - 1
         /\ \A q \in S \ {p} : p \in Better(S, score, q) \/ q \in Better(S, score, p)
         /\ \A q \in Better(S, score, p) :
              Cardinality(Better(S, score, q)) < Cardinality(Better(S, score, p))
<1> DEFINE B(q) == Better(S, score, q)
<1>1. IsFiniteSet(S) /\ Cardinality(S) \in Nat
  BY RankingAssumption, FS_Subset, FS_CardinalityType
<1>2. \A q \in S : B(q) \subseteq S \ {q}
  BY RankingAssumption DEF Better, Scored
<1>3. \A q \in S : IsFiniteSet(B(q)) /\ Cardinality(B(q)) \in Nat
  BY <1>1, <1>2, FS_Subset, FS_CardinalityType
<1>4. Cardinality(B(p)) <= Cardinality(S) - 1
  <2>1. IsFiniteSet(S \ {p}) /\ Cardinality(S \ {p}) = Cardinality(S) - 1
    BY <1>1, FS_RemoveElement
  <2>2. B(p) \subseteq S \ {p}
    BY <1>2
  <2> HIDE DEF B
  <2> QED BY <2>1, <2>2, FS_Subset
<1>5. \A q \in S \ {p} : p \in B(q) \/ q \in B(p)
  BY RankingAssumption DEF Better, Scored
<1>6. ASSUME NEW q \in B(p) PROVE Cardinality(B(q)) < Cardinality(B(p))
  <2>1. q \in S /\ B(q) \subseteq B(p)
    <3>1. q \in S /\ (score[q] > score[p] \/ (score[q] = score[p] /\ q > p))
      BY <1>6 DEF Better
    <3>2. ASSUME NEW x \in B(q) PROVE x \in B(p)
      <4>1. x \in S /\ (score[x] > score[q] \/ (score[x] = score[q] /\ x > q))
        BY <3>2 DEF Better
      <4>2. /\ x \in Nat /\ q \in Nat /\ p \in Nat
            /\ score[x] \in Nat /\ score[q] \in Nat /\ score[p] \in Nat
        BY <3>1, <4>1, RankingAssumption DEF Scored
      <4>3. score[x] > score[p] \/ (score[x] = score[p] /\ x > p)
        BY <3>1, <4>1, <4>2
      <4> QED BY <4>1, <4>3 DEF Better
    <3> QED BY <3>1, <3>2
  <2>2. B(q) \subseteq B(p) \ {q}
    BY <1>2, <2>1
  <2>3. IsFiniteSet(B(p) \ {q}) /\ Cardinality(B(p) \ {q}) = Cardinality(B(p)) - 1
    BY <1>3, <1>6, FS_RemoveElement
  <2>4. Cardinality(B(q)) <= Cardinality(B(p) \ {q})
    BY <2>2, <2>3, FS_Subset
  <2> HIDE DEF B
  <2> QED BY <1>3, <2>1, <2>3, <2>4
<1> QED
  BY <1>1, <1>3, <1>4, <1>5, <1>6

LEMMA ByScoreSorts ==
  ASSUME NEW S \in SUBSET Posts, NEW score, Scored(S, score)
  PROVE  /\ IsFiniteSet(S) /\ Cardinality(S) \in Nat
         /\ Sorts(ByScore(S, score), S, score)
<1> DEFINE n == Cardinality(S)
           C(p) == Cardinality(Better(S, score, p))
           s == ByScore(S, score)
<1>1. IsFiniteSet(S) /\ n \in Nat
  BY RankingAssumption, FS_Subset, FS_CardinalityType
<1>2. \A p \in S : C(p) \in 0..n - 1
  BY BetterCounts
<1>3. ASSUME NEW p \in S, NEW q \in S, C(p) = C(q) PROVE p = q
  <2> HIDE DEF C, n
  <2>1. C(p) \in Nat /\ C(q) \in Nat
    BY <1>1, <1>2
  <2>2. p # q => C(p) < C(q) \/ C(q) < C(p)
    BY BetterCounts DEF C
  <2> QED BY <1>3, <2>1, <2>2
<1> DEFINE place == [p \in S |-> C(p) + 1]
<1>4. place \in Injection(S, 1..n)
  <2> HIDE DEF C, n
  <2>1. \A p \in S : place[p] = C(p) + 1 /\ C(p) \in Nat /\ place[p] \in 1..n
    BY <1>1, <1>2
  <2>2. place \in [S -> 1..n]
    BY <2>1
  <2>3. \A p, q \in S : place[p] = place[q] => p = q
    BY <1>3, <2>1
  <2> HIDE DEF place
  <2> QED BY <2>2, <2>3 DEF Injection, IsInjective
<1>5. place \in Surjection(S, 1..n)
  <2> HIDE DEF place
  <2>1. IsFiniteSet(1..n) /\ Cardinality(1..n) = n
    BY <1>1, FS_Interval
  <2> QED BY <1>4, <2>1, FS_Injection
<1>6. ASSUME NEW i \in 1..n PROVE \E p \in S : C(p) = i - 1
  <2> HIDE DEF C, n
  <2>1. PICK p \in S : place[p] = i
    BY <1>5 DEF Surjection
  <2> QED BY <1>1, <1>2, <2>1
<1>7. ASSUME NEW i \in 1..n PROVE s[i] \in S /\ C(s[i]) = i - 1
  <2>1. s[i] = CHOOSE p \in S : C(p) = i - 1
    BY DEF ByScore
  <2> HIDE DEF s, C, n
  <2> QED BY <1>6, <2>1
<1>8. s \in [1..n -> S]
  <2>1. s = [i \in 1..n |-> s[i]]
    BY DEF ByScore
  <2> HIDE DEF s, n
  <2> QED BY <1>7, <2>1
<1>9. ASSUME NEW p \in S PROVE \E i \in 1..n : s[i] = p
  <2> HIDE DEF s, C, n
  <2>1. C(p) \in Nat /\ C(p) + 1 \in 1..n
    BY <1>1, <1>2
  <2>2. PICK i \in 1..n : i = C(p) + 1
    BY <2>1
  <2>3. s[i] \in S /\ C(s[i]) = i - 1
    BY <1>7
  <2>4. C(s[i]) = C(p)
    BY <2>1, <2>2, <2>3
  <2> QED BY <1>3, <2>3, <2>4
<1> HIDE DEF s, n
<1> QED
  BY <1>1, <1>7, <1>8, <1>9 DEF Sorts, n, s

\* Each post is before those at later places.
LEMMA SortedInOrder ==
  ASSUME NEW S \in SUBSET Posts, NEW score, Scored(S, score), NEW s, Sorts(s, S, score),
         NEW i \in 1..Cardinality(S), NEW j \in 1..Cardinality(S), i < j
  PROVE  s[i] \in Better(S, score, s[j])
<1>1. /\ s[i] \in S /\ s[j] \in S
      /\ Cardinality(Better(S, score, s[i])) = i - 1 /\ Cardinality(Better(S, score, s[j])) = j - 1
  BY DEF Sorts
<1>2. i \in Int /\ j \in Int
  BY <1>1, BetterCounts
<1>3. s[i] # s[j]
  BY <1>1, <1>2
<1>4. s[j] \notin Better(S, score, s[i])
  BY <1>1, <1>2, BetterCounts
<1> QED
  BY <1>1, <1>3, <1>4, BetterCounts

-----------------------------------------------------------------------------
(* Each content once.                                                      *)

ContentsOnce(s) == \A i, j \in 1..Len(s) : i # j => Content[s[i]] # Content[s[j]]
HasContent(s, p) == \E i \in 1..Len(s) : Content[s[i]] = Content[p]

LEMMA KeepFirstKeeps ==
  ASSUME NEW S, NEW s \in Seq(S), NEW p \in S
  PROVE  /\ KeepFirst(s, p) \in Seq(S)
         /\ ContentsOnce(s) => ContentsOnce(KeepFirst(s, p))
         /\ HasContent(KeepFirst(s, p), p)
         /\ \A q : HasContent(s, q) => HasContent(KeepFirst(s, p), q)
<1>1. CASE HasContent(s, p)
  <2>1. KeepFirst(s, p) = s
    BY <1>1 DEF KeepFirst, HasContent
  <2> QED BY <1>1, <2>1
<1>2. CASE ~HasContent(s, p)
  <2> DEFINE t == Append(s, p)
  <2>1. KeepFirst(s, p) = t
    BY <1>2 DEF KeepFirst, HasContent
  <2>2. /\ t \in Seq(S) /\ Len(s) \in Nat /\ Len(t) = Len(s) + 1
        /\ t[Len(s) + 1] = p /\ \A i \in 1..Len(s) : t[i] = s[i]
    BY AppendProperties, LenProperties
  <2>3. HasContent(t, p)
    <3> HIDE DEF t
    <3>1. Len(s) + 1 \in 1..Len(t)
      BY <2>2
    <3> QED BY <2>2, <3>1 DEF HasContent
  <2>4. ASSUME NEW q, HasContent(s, q) PROVE HasContent(t, q)
    <3> HIDE DEF t
    <3>1. PICK i \in 1..Len(s) : Content[s[i]] = Content[q]
      BY <2>4 DEF HasContent
    <3>2. i \in 1..Len(t) /\ t[i] = s[i]
      BY <2>2
    <3> QED BY <3>1, <3>2 DEF HasContent
  <2>5. ASSUME ContentsOnce(s) PROVE ContentsOnce(t)
    <3> HIDE DEF t
    <3> SUFFICES ASSUME NEW i \in 1..Len(t), NEW j \in 1..Len(t), i # j
                 PROVE  Content[t[i]] # Content[t[j]]
      BY DEF ContentsOnce
    <3>1. /\ i = Len(s) + 1 \/ (i \in 1..Len(s) /\ t[i] = s[i])
          /\ j = Len(s) + 1 \/ (j \in 1..Len(s) /\ t[j] = s[j])
      BY <2>2
    <3>2. CASE i = Len(s) + 1
      BY <1>2, <2>2, <3>1, <3>2 DEF HasContent
    <3>3. CASE j = Len(s) + 1
      BY <1>2, <2>2, <3>1, <3>3 DEF HasContent
    <3>4. CASE i \in 1..Len(s) /\ j \in 1..Len(s)
      BY <2>2, <2>5, <3>4 DEF ContentsOnce
    <3> QED BY <3>1, <3>2, <3>3, <3>4
  <2> HIDE DEF t
  <2> QED BY <2>1, <2>2, <2>3, <2>4, <2>5
<1> QED
  BY <1>1, <1>2

LEMMA DeduplicatedKeeps ==
  ASSUME NEW S, NEW r \in Seq(S)
  PROVE  /\ Deduplicated(r) \in Seq(S) /\ ContentsOnce(Deduplicated(r))
         /\ \A i \in 1..Len(r) : HasContent(Deduplicated(r), r[i])
<1> DEFINE last == Len(r)
           A == Seq(S)
           a == <<>>
           step == [n \in 1..last |-> [s \in A |-> KeepFirst(s, r[n])]]
           Keeps(g) == g = [n \in 0..last |-> IF n = 0 THEN a ELSE KeepFirst(g[n - 1], r[n])]
           kept == CHOOSE g : Keeps(g)
<1>1. last \in Nat /\ a \in A /\ \A n \in 1..last : r[n] \in S
  OBVIOUS
<1>2. Steps(A, last, step)
  <2>1. \A n \in 1..last, s \in A : KeepFirst(s, r[n]) \in A
    BY <1>1, KeepFirstKeeps
  <2> HIDE DEF last, A, a
  <2> QED BY <1>1, <2>1 DEF Steps
<1>3. PICK f : Makes(A, a, last, step, f)
  <2> HIDE DEF last, A, a, step
  <2> QED BY <1>1, <1>2, Iteration DEF Steps
<1>4. Keeps(f)
  <2>1. \A n \in 0..last : n # 0 => n \in 1..last /\ n - 1 \in 0..last
    BY <1>1
  <2>2. \A n \in 1..last : f[n - 1] \in A => f[n] = KeepFirst(f[n - 1], r[n])
    <3> HIDE DEF last, A, a
    <3> QED BY <1>3 DEF Makes
  <2> HIDE DEF last, A, a, step
  <2> QED BY <1>3, <2>1, <2>2 DEF Makes
<1>5. Keeps(kept)
  <2> HIDE DEF Keeps
  <2> QED BY <1>4
<1>6. Deduplicated(r) = kept[last]
  BY DEF Deduplicated
<1>7. \A n \in 0..last : kept[n] = IF n = 0 THEN a ELSE KeepFirst(kept[n - 1], r[n])
  <2> HIDE DEF last, kept, a
  <2> QED BY <1>5
<1> HIDE DEF kept, Keeps
<1> DEFINE Right(n) == /\ kept[n] \in Seq(S) /\ ContentsOnce(kept[n])
                       /\ \A i \in 1..n : HasContent(kept[n], r[i])
           T == {n \in Nat : n <= last => Right(n)}
<1>8. 0 \in T
  <2>1. 0 \in 0..last
    BY <1>1
  <2>2. kept[0] = a
    BY <1>7, <2>1
  <2>3. ContentsOnce(a) /\ a \in Seq(S)
    BY DEF ContentsOnce
  <2>4. Right(0)
    <3> HIDE DEF a
    <3> QED BY <2>2, <2>3
  <2> HIDE DEF Right
  <2> QED BY <2>4
<1>9. ASSUME NEW n \in T PROVE n + 1 \in T
  <2> SUFFICES ASSUME n + 1 <= last PROVE Right(n + 1)
    OBVIOUS
  <2>1. n \in Nat /\ n + 1 \in 1..last /\ n + 1 \in 0..last /\ n + 1 - 1 = n /\ n + 1 # 0 /\ Right(n)
    BY <1>1, <1>9
  <2>2. kept[n + 1] = KeepFirst(kept[n], r[n + 1]) /\ r[n + 1] \in S
    <3> HIDE DEF last, Right
    <3> QED BY <1>1, <1>7, <2>1
  <2>3. /\ kept[n + 1] \in Seq(S) /\ ContentsOnce(kept[n + 1])
        /\ HasContent(kept[n + 1], r[n + 1])
        /\ \A q : HasContent(kept[n], q) => HasContent(kept[n + 1], q)
    <3>1. kept[n] \in Seq(S) /\ ContentsOnce(kept[n])
      BY <2>1
    <3> HIDE DEF last, Right
    <3> DEFINE s == kept[n]
               p == r[n + 1]
    <3>2. s \in Seq(S) /\ p \in S /\ kept[n + 1] = KeepFirst(s, p) /\ ContentsOnce(s)
      BY <2>2, <3>1
    <3> HIDE DEF s, p
    <3>3. /\ kept[n + 1] \in Seq(S) /\ ContentsOnce(kept[n + 1]) /\ HasContent(kept[n + 1], p)
          /\ \A q : HasContent(s, q) => HasContent(kept[n + 1], q)
      BY <3>2, KeepFirstKeeps
    <3> QED BY <3>3 DEF s, p
  <2>4. \A i \in 1..n + 1 : i = n + 1 \/ i \in 1..n
    BY <2>1
  <2> HIDE DEF last
  <2> QED BY <2>1, <2>3, <2>4
<1>10. last \in T
  <2> HIDE DEF T
  <2>1. T \in SUBSET Nat
    BY DEF T
  <2> QED BY <1>1, <1>8, <1>9, <2>1, Induction
<1> QED
  BY <1>1, <1>6, <1>10

-----------------------------------------------------------------------------
(* Authors apart.                                                          *)

\* As many posts, of as many contents.
Keeps(s, t, S) ==
  /\ t \in Seq(S) /\ Len(t) = Len(s)
  /\ ContentsOnce(s) => ContentsOnce(t)
  /\ \A q : HasContent(s, q) => HasContent(t, q)

\* Up to place n an author follows himself only when nobody else is left.
Separate(s, n) ==
  \A i \in 2..n, j \in 1..Len(s) :
    j > i /\ Author[s[i]] = Author[s[i - 1]] => Author[s[j]] = Author[s[i]]

LEMMA SwappedKeeps ==
  ASSUME NEW S, NEW s \in Seq(S), NEW i \in 1..Len(s), NEW j \in 1..Len(s), i # j
  PROVE  /\ Keeps(s, Swapped(s, i, j), S)
         /\ Swapped(s, i, j)[i] = s[j] /\ Swapped(s, i, j)[j] = s[i]
         /\ \A k \in 1..Len(s) \ {i, j} : Swapped(s, i, j)[k] = s[k]
<1> DEFINE N == Len(s)
           t == Swapped(s, i, j)
<1>1. s \in [1..N -> S] /\ N \in Nat
  BY LenProperties
<1>2. /\ t \in [1..N -> S] /\ t[i] = s[j] /\ t[j] = s[i]
      /\ \A k \in 1..N \ {i, j} : t[k] = s[k]
  <2>1. s[i] \in S /\ s[j] \in S
    BY <1>1
  <2> HIDE DEF N
  <2> QED BY <1>1, <2>1 DEF Swapped, N
<1>3. t \in Seq(S) /\ Len(t) = N
  <2> HIDE DEF t, N
  <2>1. t \in Seq(S)
    BY <1>1, <1>2 DEF Seq
  <2> QED BY <1>1, <1>2, <2>1, LenProperties
<1> DEFINE from(k) == IF k = i THEN j ELSE IF k = j THEN i ELSE k
<1>4. \A k \in 1..N : from(k) \in 1..N /\ t[k] = s[from(k)] /\ from(from(k)) = k
  <2> HIDE DEF t
  <2> QED BY <1>2
<1>5. ASSUME ContentsOnce(s) PROVE ContentsOnce(t)
  <2> HIDE DEF t, from
  <2> SUFFICES ASSUME NEW k \in 1..N, NEW l \in 1..N, k # l PROVE Content[t[k]] # Content[t[l]]
    BY <1>3 DEF ContentsOnce
  <2>1. from(k) # from(l)
    BY <1>4
  <2> QED BY <1>4, <1>5, <2>1, SMTT(30) DEF ContentsOnce
<1>6. ASSUME NEW q, HasContent(s, q) PROVE HasContent(t, q)
  <2> HIDE DEF t, from
  <2>1. PICK k \in 1..N : Content[s[k]] = Content[q]
    BY <1>6 DEF HasContent
  <2>2. from(k) \in 1..N /\ t[from(k)] = s[k]
    BY <1>4
  <2> QED BY <1>3, <2>1, <2>2 DEF HasContent
<1> HIDE DEF t
<1> QED
  BY <1>2, <1>3, <1>5, <1>6 DEF Keeps, t

LEMMA SpreadAtSeparates ==
  ASSUME NEW S, NEW s \in Seq(S), NEW i \in 2..Len(s)
  PROVE  /\ Keeps(s, SpreadAt(s, i), S)
         /\ Separate(s, i - 1) => Separate(SpreadAt(s, i), i)
<1> DEFINE others == {j \in i + 1..Len(s) : Author[s[j]] # Author[s[i - 1]]}
           t == SpreadAt(s, i)
<1>0. Len(s) \in Nat /\ i \in Nat
  BY LenProperties
<1>1. CASE Author[s[i]] # Author[s[i - 1]] \/ others = {}
  <2>1. t = s
    BY <1>1 DEF SpreadAt
  <2>2. ASSUME Separate(s, i - 1) PROVE Separate(s, i)
    <3> SUFFICES ASSUME NEW h \in 2..i, NEW j \in 1..Len(s), j > h, Author[s[h]] = Author[s[h - 1]]
                 PROVE  Author[s[j]] = Author[s[h]]
      BY DEF Separate
    <3>1. CASE h = i
      BY <1>0, <1>1, <3>1
    <3>2. CASE h # i
      <4>1. h \in 2..i - 1
        BY <1>0, <3>2
      <4> QED BY <2>2, <4>1 DEF Separate
    <3> QED BY <3>1, <3>2
  <2> QED BY <2>1, <2>2 DEF Keeps
<1>2. CASE Author[s[i]] = Author[s[i - 1]] /\ others # {}
  <2> DEFINE m == CHOOSE j \in others : \A k \in others : j <= k
  <2>1. m \in others
    <3>1. others \in SUBSET Nat
      BY <1>0
    <3> HIDE DEF others
    <3> QED BY <1>2, <3>1, Least
  <2>2. t = Swapped(s, i, m)
    BY <1>2 DEF SpreadAt
  <2> HIDE DEF m
  <2>3. m \in i + 1..Len(s) /\ Author[s[m]] # Author[s[i - 1]]
    BY <2>1
  <2>4. i \in 1..Len(s) /\ m \in 1..Len(s) /\ i # m /\ i < m
    BY <1>0, <2>3
  <2>5. /\ Keeps(s, t, S) /\ t[i] = s[m] /\ t[m] = s[i]
        /\ \A k \in 1..Len(s) \ {i, m} : t[k] = s[k]
    BY <2>2, <2>4, SwappedKeeps
  <2> HIDE DEF t, others
  <2>6. ASSUME Separate(s, i - 1) PROVE Separate(t, i)
    <3> SUFFICES ASSUME NEW h \in 2..i, NEW j \in 1..Len(t), j > h, Author[t[h]] = Author[t[h - 1]]
                 PROVE  Author[t[j]] = Author[t[h]]
      BY DEF Separate
    <3>1. Len(t) = Len(s) /\ h - 1 \in 1..Len(s) \ {i, m} /\ t[h - 1] = s[h - 1]
      BY <1>0, <2>4, <2>5, SMTT(30) DEF Keeps
    <3>2. h # i
      BY <2>3, <2>5, <3>1
    <3>3. h \in 2..i - 1 /\ t[h] = s[h]
      BY <1>0, <2>4, <2>5, <3>1, <3>2
    <3>4. PICK k \in 1..Len(s) : k > h /\ t[j] = s[k]
      BY <1>0, <2>4, <2>5, <3>1, <3>3
    <3> QED BY <2>6, <3>1, <3>3, <3>4 DEF Separate
  <2> QED BY <2>5, <2>6 DEF t
<1> QED
  BY <1>1, <1>2

LEMMA SpreadSeparates ==
  ASSUME NEW S, NEW s \in Seq(S)
  PROVE  Keeps(s, Spread(s), S) /\ Separate(Spread(s), Len(s))
<1> DEFINE last == Len(s)
           A == {t \in Seq(S) : Len(t) = last}
           Next1(t, n) == IF n <= 1 THEN s ELSE SpreadAt(t, n)
           step == [n \in 1..last |-> [t \in A |-> Next1(t, n)]]
           Spreads(g) == g = [n \in 0..last |-> Next1(g[n - 1], n)]
           done == CHOOSE g : Spreads(g)
<1>1. last \in Nat /\ s \in A
  BY LenProperties
<1>2. Steps(A, last, step)
  <2>1. ASSUME NEW n \in 1..last, NEW t \in A PROVE Next1(t, n) \in A
    <3>1. CASE n <= 1
      BY <1>1, <3>1
    <3>2. CASE ~(n <= 1)
      <4>1. n \in 2..Len(t)
        BY <1>1, <3>2
      <4> QED BY <3>2, <4>1, SpreadAtSeparates DEF Keeps
    <3> QED BY <3>1, <3>2
  <2> HIDE DEF last, A, Next1
  <2> QED BY <1>1, <2>1 DEF Steps
<1>3. PICK f : Makes(A, s, last, step, f)
  <2> HIDE DEF last, A, step
  <2> QED BY <1>1, <1>2, Iteration DEF Steps
<1>4. Spreads(f)
  <2>1. f \in [0..last -> A] /\ f[0] = s
    <3> HIDE DEF last, A, step
    <3> QED BY <1>3 DEF Makes
  <2>2. ASSUME NEW n \in 0..last PROVE f[n] = Next1(f[n - 1], n)
    <3>1. CASE n = 0
      BY <2>1, <3>1
    <3>2. CASE n # 0
      <4>1. n \in 1..last /\ n - 1 \in 0..last
        BY <1>1, <3>2
      <4>2. f[n] = step[n][f[n - 1]]
        <5> HIDE DEF last, A, step
        <5> QED BY <1>3, <4>1 DEF Makes
      <4>3. f[n - 1] \in A
        <5> HIDE DEF last, A
        <5> QED BY <2>1, <4>1
      <4> HIDE DEF last, A, Next1
      <4> QED BY <4>1, <4>2, <4>3
    <3> QED BY <3>1, <3>2
  <2> HIDE DEF last, A, Next1
  <2> QED BY <2>1, <2>2
<1>5. Spreads(done)
  <2> HIDE DEF Spreads
  <2> QED BY <1>4
<1>6. Spread(s) = done[last]
  BY DEF Spread
<1>7. \A n \in 0..last : done[n] = Next1(done[n - 1], n)
  <2> HIDE DEF last, done, Next1
  <2> QED BY <1>5
<1> HIDE DEF done, Spreads
<1> DEFINE Right(n) == Keeps(s, done[n], S) /\ Separate(done[n], n)
           T == {n \in Nat : n <= last => Right(n)}
<1>8. 0 \in T
  <2>1. 0 \in 0..last
    BY <1>1
  <2>2. done[0] = s
    BY <1>7, <2>1
  <2>3. Keeps(s, s, S) /\ Separate(s, 0)
    BY DEF Keeps, Separate
  <2> QED BY <2>2, <2>3
<1>9. ASSUME NEW n \in T PROVE n + 1 \in T
  <2> SUFFICES ASSUME n + 1 <= last PROVE Right(n + 1)
    OBVIOUS
  <2>1. n \in Nat /\ n + 1 \in 0..last /\ n + 1 - 1 = n /\ Right(n)
    BY <1>1, <1>9
  <2>2. done[n + 1] = Next1(done[n], n + 1)
    <3> HIDE DEF last, Right, Next1
    <3> QED BY <1>7, <2>1
  <2>3. CASE n = 0
    <3>1. done[n + 1] = s
      BY <2>2, <2>3
    <3>2. Keeps(s, s, S) /\ Separate(s, n + 1)
      BY <2>3 DEF Keeps, Separate
    <3> QED BY <3>1, <3>2
  <2>4. CASE n # 0
    <3> DEFINE t == done[n]
               i == n + 1
    <3>1. done[i] = SpreadAt(t, i)
      BY <2>1, <2>2, <2>4
    <3>2. /\ t \in Seq(S) /\ Len(t) = last /\ (ContentsOnce(s) => ContentsOnce(t))
          /\ \A q : HasContent(s, q) => HasContent(t, q)
      BY <2>1 DEF Keeps
    <3>3. i \in 2..Len(t) /\ i - 1 = n /\ Separate(t, n)
      BY <2>1, <2>4, <3>2
    <3> HIDE DEF t, i, Right
    <3>4. Keeps(t, done[i], S) /\ Separate(done[i], i)
      BY <3>1, <3>2, <3>3, SpreadAtSeparates
    <3>5. Keeps(s, done[i], S)
      BY <3>2, <3>4 DEF Keeps
    <3> QED BY <3>4, <3>5 DEF i, Right
  <2> QED BY <2>3, <2>4
<1>10. last \in T
  <2> HIDE DEF T
  <2>1. T \in SUBSET Nat
    BY DEF T
  <2> QED BY <1>1, <1>8, <1>9, <2>1, Induction
<1> QED
  BY <1>1, <1>6, <1>10

\* Every ranking is clean.
LEMMA RankedIsClean == RankingsAreClean
<1> SUFFICES ASSUME NEW disliked \in SUBSET Posts, NEW score \in [Posts -> 0..MaxScore]
             PROVE  CleanRanking(Ranked(disliked, score), Posts \ disliked)
  BY DEF RankingsAreClean
<1> DEFINE S == Posts \ disliked
           first == ByScore(S, score)
           once == Deduplicated(first)
           all == Spread(once)
<1>1. S \in SUBSET Posts /\ Scored(S, score)
  BY RankingAssumption DEF Scored
<1>2. Cardinality(S) \in Nat /\ Sorts(first, S, score)
  <2> HIDE DEF S
  <2> QED BY <1>1, ByScoreSorts
<1>3. /\ first \in Seq(S) /\ Len(first) = Cardinality(S)
      /\ \A p \in S : \E i \in 1..Len(first) : first[i] = p
  <2> HIDE DEF S, first
  <2>1. first \in [1..Cardinality(S) -> S]
    BY <1>2 DEF Sorts
  <2>2. first \in Seq(S)
    BY <1>2, <2>1 DEF Seq
  <2>3. Len(first) = Cardinality(S)
    BY <1>2, <2>1, <2>2, LenProperties
  <2> QED BY <1>2, <2>2, <2>3 DEF Sorts
<1>4. /\ once \in Seq(S) /\ ContentsOnce(once)
      /\ \A p \in S : HasContent(once, p)
  <2> HIDE DEF S, first
  <2>1. \A i \in 1..Len(first) : HasContent(once, first[i])
    BY <1>3, DeduplicatedKeeps
  <2> HIDE DEF once
  <2>2. \A p \in S : HasContent(once, p)
    BY <1>3, <2>1
  <2> QED BY <1>3, <2>2, DeduplicatedKeeps DEF once
<1>5. /\ all \in Seq(S) /\ ContentsOnce(all)
      /\ \A p \in S : HasContent(all, p)
      /\ Separate(all, Len(all))
  <2> HIDE DEF S, once
  <2>1. Keeps(once, all, S) /\ Separate(all, Len(once))
    BY <1>4, SpreadSeparates
  <2> QED BY <1>4, <2>1 DEF Keeps
<1>6. Ranked(disliked, score) = all
  BY DEF Ranked
<1> HIDE DEF all, S
<1>7. DOMAIN all = 1..Len(all) /\ Len(all) \in Nat /\ \A i \in 1..Len(all) : all[i] \in S
  BY <1>5, LenProperties
<1>8. {Content[all[i]] : i \in DOMAIN all} = {Content[p] : p \in S}
  BY <1>5, <1>7 DEF HasContent
<1>9. ASSUME NEW i \in DOMAIN all, NEW j \in DOMAIN all, i > 1, j > i,
             Author[all[i]] = Author[all[i - 1]]
      PROVE  Author[all[j]] = Author[all[i]]
  <2>1. i \in 2..Len(all) /\ j \in 1..Len(all)
    BY <1>7, <1>9
  <2> QED BY <1>5, <1>9, <2>1 DEF Separate
<1>10. CleanRanking(all, S)
  BY <1>5, <1>7, <1>8, <1>9 DEF CleanRanking, ContentsOnce
<1> QED
  BY <1>6, <1>10 DEF S

-----------------------------------------------------------------------------
(* The pages.                                                              *)

Above(S, p) == {q \in S : q > p}

\* Newest first is by falling ids.
LEMMA NewestFalls ==
  ASSUME NEW S \in SUBSET Posts
  PROVE  /\ IsFiniteSet(S) /\ Cardinality(S) \in Nat
         /\ NewestFirst(S) \in Seq(S) /\ Len(NewestFirst(S)) = Cardinality(S)
         /\ \A i \in 1..Cardinality(S) : Cardinality(Above(S, NewestFirst(S)[i])) = i - 1
         /\ \A i, j \in 1..Cardinality(S) : i < j => NewestFirst(S)[i] > NewestFirst(S)[j]
         /\ \A p \in S : \E i \in 1..Cardinality(S) : NewestFirst(S)[i] = p
<1> DEFINE zero == [p \in S |-> 0]
           s == ByScore(S, zero)
           n == Cardinality(S)
<1>1. Scored(S, zero) /\ s = NewestFirst(S)
  BY DEF Scored, NewestFirst
<1>2. \A p \in S : Better(S, zero, p) = Above(S, p)
  BY DEF Better, Above
<1>3. IsFiniteSet(S) /\ n \in Nat /\ Sorts(s, S, zero)
  <2> HIDE DEF zero
  <2> QED BY <1>1, ByScoreSorts
<1>4. s \in [1..n -> S]
  <2> HIDE DEF s, n
  <2> QED BY <1>3 DEF Sorts, n
<1>5. s \in Seq(S) /\ Len(s) = n
  <2> HIDE DEF s, n
  <2>1. s \in Seq(S)
    BY <1>3, <1>4 DEF Seq
  <2> QED BY <1>3, <1>4, <2>1, LenProperties
<1>6. \A i, j \in 1..n : i < j => s[i] > s[j]
  <2> SUFFICES ASSUME NEW i \in 1..n, NEW j \in 1..n, i < j PROVE s[i] > s[j]
    OBVIOUS
  <2>1. s[i] \in Better(S, zero, s[j])
    <3> HIDE DEF s, zero
    <3> QED BY <1>1, <1>3, SortedInOrder
  <2>2. s[j] \in S
    <3> HIDE DEF s, n
    <3> QED BY <1>4
  <2> HIDE DEF s, zero
  <2> QED BY <1>2, <2>1, <2>2 DEF Above
<1>7. \A i \in 1..n : s[i] \in S /\ Cardinality(Above(S, s[i])) = i - 1
  <2> HIDE DEF s, zero
  <2> QED BY <1>2, <1>3, <1>4 DEF Sorts
<1>8. \A p \in S : \E i \in 1..n : s[i] = p
  <2> HIDE DEF s, zero
  <2> QED BY <1>3 DEF Sorts
<1> HIDE DEF s, n
<1> QED
  BY <1>1, <1>3, <1>5, <1>6, <1>7, <1>8 DEF n

\* The posts older than the one at a place are those at the places after it.
LEMMA OlderRows ==
  ASSUME NEW all, all = NewestFirst(Posts), NEW m \in 1..Len(all),
         NEW S, S = {p \in Posts : p < all[m]}, NEW rows, rows = NewestFirst(S)
  PROVE  /\ Len(all) \in Nat /\ rows \in Seq(Posts) /\ Len(rows) = Len(all) - m
         /\ \A i \in 1..Len(all) - m : rows[i] = all[m + i]
<1> DEFINE N == Len(all)
           V == Posts \ S
<1>1. /\ N = Cardinality(Posts) /\ N \in Nat /\ all \in Seq(Posts)
      /\ \A i \in 1..N : Cardinality(Above(Posts, all[i])) = i - 1
      /\ \A i, j \in 1..N : i < j => all[i] > all[j]
  BY NewestFalls
<1>2. \A i \in 1..N : all[i] \in Posts /\ all[i] \in Nat
  <2>1. \A i \in 1..N : all[i] \in Posts
    BY <1>1, ElementOfSeq
  <2> HIDE DEF N
  <2> QED BY <2>1, RankingAssumption
<1>3. V = Above(Posts, all[m]) \cup {all[m]} /\ all[m] \notin Above(Posts, all[m])
  BY <1>2, RankingAssumption DEF Above
<1>4. IsFiniteSet(V) /\ Cardinality(V) = m
  <2>1. IsFiniteSet(Above(Posts, all[m]))
    BY RankingAssumption, FS_Subset DEF Above
  <2> DEFINE W == Above(Posts, all[m])
  <2>2. Cardinality(W) = m - 1
    BY <1>1
  <2> HIDE DEF V, W
  <2>3. IsFiniteSet(W) /\ V = W \cup {all[m]} /\ all[m] \notin W
    BY <1>3, <2>1 DEF W
  <2>4. IsFiniteSet(V) /\ Cardinality(V) = Cardinality(W) + 1
    BY <2>3, FS_AddElement
  <2> QED BY <1>1, <2>2, <2>4
<1>5. /\ S \in SUBSET Posts /\ IsFiniteSet(S) /\ Cardinality(S) \in Nat
      /\ rows \in Seq(S) /\ Len(rows) = Cardinality(S)
      /\ \A i \in 1..Cardinality(S) : Cardinality(Above(S, rows[i])) = i - 1
      /\ \A p \in S : \E i \in 1..Cardinality(S) : rows[i] = p
  BY NewestFalls
<1>6. Cardinality(S) = N - m
  <2>1. S = Posts \ V /\ Posts \cap V = V
    BY <1>5
  <2>2. Cardinality(Posts \ V) = Cardinality(Posts) - Cardinality(Posts \cap V)
    BY RankingAssumption, FS_Difference
  <2> HIDE DEF V, N
  <2> QED BY <1>1, <1>4, <2>1, <2>2
<1>7. ASSUME NEW i \in 1..N - m PROVE rows[i] = all[m + i]
  <2> DEFINE p == all[m + i]
  <2>1. m + i \in 1..N /\ m < m + i
    BY <1>1
  <2>2. p \in Posts /\ p \in Nat /\ p < all[m] /\ p \in S
    BY <1>1, <1>2, <2>1
  <2>3. Cardinality(Above(Posts, p)) = m + i - 1
    BY <1>1, <2>1
  <2> HIDE DEF p
  <2>4. Above(Posts, p) = Above(S, p) \cup V /\ Above(S, p) \cap V = {}
    <3>1. S = {q \in Posts : q < all[m]} /\ V = {q \in Posts : ~(q < all[m])}
      OBVIOUS
    <3>2. Posts \subseteq Nat /\ all[m] \in Nat
      BY <1>2, RankingAssumption
    <3> DEFINE x == all[m]
    <3>3. \A q \in Posts : q \in V <=> ~(q < x)
      BY <3>1
    <3>4. \A q \in V : q \in Posts /\ q \notin S
      OBVIOUS
    <3>5. x \in Nat /\ p \in Nat /\ p < x
      BY <2>2, <3>2
    <3> HIDE DEF V, N, x
    <3>6. \A q \in Posts : q \in V => q > p
      BY <3>2, <3>3, <3>5
    <3>7. \A q \in Posts : q \in S \/ q \in V
      BY DEF V
    <3> QED BY <1>5, <3>4, <3>6, <3>7 DEF Above
  <2>5. IsFiniteSet(Above(S, p)) /\ Cardinality(Above(S, p)) \in Nat
    BY <1>5, FS_Subset, FS_CardinalityType DEF Above
  <2>6. Cardinality(Above(Posts, p)) = Cardinality(Above(S, p)) + m
    <3>1. Cardinality({}) = 0
      BY FS_EmptySet
    <3> DEFINE W == Above(S, p)
    <3> HIDE DEF V, W
    <3>2. IsFiniteSet(W) /\ IsFiniteSet(V) /\ W \cap V = {} /\ Cardinality(V) = m
      BY <1>4, <2>4, <2>5 DEF W
    <3>3. Cardinality(W \cup V) = Cardinality(W) + m - 0
      BY <3>1, <3>2, FS_Union
    <3> QED BY <2>4, <2>5, <3>3 DEF W
  <2>7. PICK k \in 1..Cardinality(S) : rows[k] = p
    BY <1>5, <2>2
  <2>8. Cardinality(Above(S, p)) = k - 1
    BY <1>5, <2>7
  <2>9. k = i
    BY <1>1, <1>5, <2>3, <2>5, <2>6, <2>8
  <2> QED BY <2>7, <2>9 DEF p
<1>8. rows \in Seq(Posts)
  BY <1>5
<1> QED
  BY <1>1, <1>5, <1>6, <1>7, <1>8

\* The page that follows the first m posts, when their cursor is cur[m].
PageAfter(all, cur, m, limit) ==
  IF m + limit < Len(all)
  THEN [posts |-> SubSeq(all, m + 1, m + limit), next |-> cur[m + limit]]
  ELSE [posts |-> SubSeq(all, m + 1, Len(all)), next |-> 0]

Stops(all) == {m \in 0..Len(all) : m < Len(all) \/ m = 0}

IdOf(all) == [m \in 0..Len(all) |-> IF m = 0 THEN 0 ELSE all[m]]

LEMMA LatestPages ==
  ASSUME NEW all, all = NewestFirst(Posts), NEW m \in Stops(all), NEW limit \in Nat \ {0}
  PROVE  LatestPage(IdOf(all)[m], limit) = PageAfter(all, IdOf(all), m, limit)
<1> DEFINE N == Len(all)
           c == IdOf(all)[m]
           S == {p \in Posts : c = 0 \/ p < c}
           rows == NewestFirst(S)
<1>1. all \in Seq(Posts) /\ N \in Nat /\ m \in 0..N /\ \A i \in 1..N : all[i] \in Posts
  BY NewestFalls, ElementOfSeq DEF Stops
<1>2. /\ rows \in Seq(Posts) /\ Len(rows) = N - m
      /\ \A i \in 1..N - m : rows[i] = all[m + i]
  <2>1. CASE m = 0
    <3>1. S = Posts
      BY <1>1, <2>1 DEF IdOf
    <3> HIDE DEF S
    <3> QED BY <1>1, <2>1, <3>1
  <2>2. CASE m # 0
    <3>1. m \in 1..N /\ c = all[m] /\ all[m] \in Posts
      BY <1>1, <2>2 DEF IdOf
    <3>2. S = {p \in Posts : p < all[m]}
      BY <3>1, RankingAssumption
    <3> HIDE DEF S, c
    <3> QED BY <3>1, <3>2, OlderRows
  <2> QED BY <2>1, <2>2
<1> HIDE DEF S, c
<1>3. LatestPage(c, limit) = IF Len(rows) > limit
                             THEN [posts |-> SubSeq(rows, 1, limit), next |-> rows[limit]]
                             ELSE [posts |-> rows, next |-> 0]
  BY DEF LatestPage, Cursor, S
<1> HIDE DEF rows
<1>4. CASE m + limit < N
  <2>1. /\ limit \in 1..N - m /\ 1 \in Int /\ limit \in Int /\ m + 1 \in Int /\ m + limit \in Int
        /\ Len(rows) > limit /\ m + limit \in 0..N /\ m + limit # 0
    BY <1>1, <1>2, <1>4
  <2>2. rows[limit] = all[m + limit] /\ IdOf(all)[m + limit] = all[m + limit]
    BY <1>2, <2>1 DEF IdOf
  <2>3. SubSeq(rows, 1, limit) = SubSeq(all, m + 1, m + limit)
    <3> DEFINE s == SubSeq(rows, 1, limit)
               t == SubSeq(all, m + 1, m + limit)
    <3>1. \A i \in 1..limit : rows[i] = all[m + i] /\ rows[i] \in Posts
      BY <1>1, <1>2, <2>1
    <3>2. \A i \in m + 1..m + limit : all[i] \in Posts
      BY <1>1, <2>1
    <3>3. /\ s \in Seq(Posts) /\ Len(s) = limit
          /\ \A i \in 1..limit : s[i] = rows[i]
      BY <2>1, <3>1, SubSeqProperties
    <3>4. /\ t \in Seq(Posts) /\ Len(t) = limit
          /\ \A i \in 1..limit : t[i] = all[m + i]
      <4>1. m + limit - (m + 1) + 1 = limit /\ m + 1 <= m + limit
        BY <1>1, <2>1
      <4>2. \A i \in 1..limit : m + 1 + i - 1 = m + i
        BY <1>1, <2>1
      <4> QED BY <2>1, <3>2, <4>1, <4>2, SubSeqProperties, SMTT(30)
    <3> HIDE DEF s, t
    <3> QED BY <3>1, <3>3, <3>4, SeqEqual DEF s, t
  <2> QED BY <1>3, <1>4, <2>1, <2>2, <2>3 DEF PageAfter, c
<1>5. CASE ~(m + limit < N)
  <2>1. ~(Len(rows) > limit) /\ m + 1 \in Int /\ N \in Int
    BY <1>1, <1>2, <1>5
  <2>2. rows = SubSeq(all, m + 1, N)
    <3> DEFINE t == SubSeq(all, m + 1, N)
    <3>1. \A i \in m + 1..N : all[i] \in Posts
      BY <1>1
    <3>2. /\ t \in Seq(Posts) /\ Len(t) = IF m + 1 <= N THEN N - (m + 1) + 1 ELSE 0
          /\ \A i \in 1..N - (m + 1) + 1 : t[i] = all[m + 1 + i - 1]
      <4> HIDE DEF N
      <4> QED BY <2>1, <3>1, SubSeqProperties
    <3>3. Len(t) = N - m /\ \A i \in 1..N - m : t[i] = all[m + i]
      <4> HIDE DEF t, N
      <4>1. N - (m + 1) + 1 = N - m /\ (~(m + 1 <= N) => N - m = 0)
        BY <1>1
      <4>2. \A i \in 1..N - m : m + 1 + i - 1 = m + i
        BY <1>1
      <4> QED BY <3>2, <4>1, <4>2
    <3>4. rows = t
      <4> HIDE DEF t, N
      <4> QED BY <1>2, <3>2, <3>3, SeqEqual
    <3> QED BY <3>4
  <2> QED BY <1>3, <1>5, <2>1, <2>2 DEF PageAfter, c
<1> QED
  BY <1>4, <1>5

LEMMA PersonalPages ==
  ASSUME NEW all \in Seq(Posts), NEW m \in Stops(all), NEW limit \in Nat \ {0}
  PROVE  PersonalPage(all, m, limit) = PageAfter(all, [k \in 0..Len(all) |-> k], m, limit)
<1>1. m \in Nat /\ Len(all) \in Nat
  BY LenProperties DEF Stops
<1> DEFINE N == Len(all)
<1>2. CASE m + limit < N
  <2>1. m + limit \in 0..N
    BY <1>1, <1>2
  <2> QED BY <1>2, <2>1 DEF PersonalPage, PageAfter
<1>3. CASE ~(m + limit < N)
  <2>1. ~(N < N)
    BY <1>1
  <2> QED BY <1>3, <2>1 DEF PersonalPage, PageAfter
<1> QED
  BY <1>2, <1>3

\* How far a client has come, when it has seen the first m posts; m is beyond the end
\* when there is no next page.
WalkAt(all, cur, m) ==
  IF m > Len(all) THEN [seen |-> all, cursor |-> 0, over |-> TRUE]
  ELSE [seen |-> SubSeq(all, 1, m), cursor |-> cur[m], over |-> FALSE]

After(all, m, limit) ==
  IF m > Len(all) THEN m ELSE IF m + limit < Len(all) THEN m + limit ELSE Len(all) + 1

Cursors(all, cur) == cur[0] = 0 /\ \A m \in 1..Len(all) : cur[m] # 0
TurnsFollow(all, cur, page, limit) ==
  \A m \in Stops(all) : page[cur[m]] = PageAfter(all, cur, m, limit)

LEMMA TurnMoves ==
  ASSUME NEW all \in Seq(Posts), NEW cur, Cursors(all, cur), NEW limit \in Nat \ {0},
         NEW page, TurnsFollow(all, cur, page, limit), NEW m \in Stops(all) \cup {Len(all) + 1}
  PROVE  /\ TurnPage(WalkAt(all, cur, m), page) = WalkAt(all, cur, After(all, m, limit))
         /\ After(all, m, limit) \in Stops(all) \cup {Len(all) + 1}
         /\ After(all, m, limit) = Len(all) + 1 \/ After(all, m, limit) >= m + 1
<1> DEFINE N == Len(all)
           w == WalkAt(all, cur, m)
<1>1. N \in Nat /\ m \in Nat /\ m <= N + 1 /\ limit \in Nat /\ limit > 0
  BY LenProperties DEF Stops
<1>2. CASE m > N
  <2>1. After(all, m, limit) = m /\ m = N + 1 /\ w.over
    BY <1>1, <1>2 DEF After, WalkAt
  <2> QED BY <1>2, <2>1 DEF TurnPage
<1>3. CASE ~(m > N) /\ m + limit < N
  <2>1. After(all, m, limit) = m + limit /\ m + limit \in 1..N /\ ~(m + limit > N)
    BY <1>1, <1>3 DEF After
  <2>2. m \in Stops(all) /\ m + limit \in Stops(all)
    BY <1>1, <1>3 DEF Stops
  <2>3. w = [seen |-> SubSeq(all, 1, m), cursor |-> cur[m], over |-> FALSE]
    BY <1>3 DEF WalkAt
  <2>4. page[cur[m]] = [posts |-> SubSeq(all, m + 1, m + limit), next |-> cur[m + limit]]
    BY <1>3, <2>2 DEF TurnsFollow, PageAfter
  <2>5. cur[m + limit] # 0
    BY <2>1 DEF Cursors
  <2>6. SubSeq(all, 1, m) \o SubSeq(all, m + 1, m + limit) = SubSeq(all, 1, m + limit)
    <3>1. 1 \in 1..N + 1 /\ m \in 0..N /\ m + limit \in m..N
      BY <1>1, <1>3
    <3> QED BY <3>1, ConcatAdjacentSubSeq
  <2>7. TurnPage(w, page) = [seen |-> SubSeq(all, 1, m + limit), cursor |-> cur[m + limit], over |-> FALSE]
    <3> HIDE DEF w
    <3>1. w.over = FALSE /\ w.seen = SubSeq(all, 1, m) /\ w.cursor = cur[m]
      BY <2>3
    <3> DEFINE shown == page[w.cursor]
    <3>2. TurnPage(w, page) = [seen |-> w.seen \o shown.posts, cursor |-> shown.next,
                               over |-> shown.next = 0]
      BY <3>1 DEF TurnPage
    <3>3. shown.posts = SubSeq(all, m + 1, m + limit) /\ shown.next = cur[m + limit]
      BY <2>4, <3>1
    <3> HIDE DEF shown
    <3>4. (shown.next = 0) = FALSE /\ w.seen \o shown.posts = SubSeq(all, 1, m + limit)
      BY <2>5, <2>6, <3>1, <3>3
    <3> QED BY <3>2, <3>3, <3>4
  <2>8. WalkAt(all, cur, m + limit) =
          [seen |-> SubSeq(all, 1, m + limit), cursor |-> cur[m + limit], over |-> FALSE]
    BY <2>1 DEF WalkAt
  <2>9. m + limit >= m + 1
    BY <1>1
  <2> HIDE DEF w
  <2> QED BY <2>1, <2>2, <2>7, <2>8, <2>9 DEF w
<1>4. CASE ~(m > N) /\ ~(m + limit < N)
  <2>1. After(all, m, limit) = N + 1 /\ N + 1 > N
    BY <1>1, <1>4 DEF After
  <2>2. m \in Stops(all)
    BY <1>1, <1>4 DEF Stops
  <2>3. w = [seen |-> SubSeq(all, 1, m), cursor |-> cur[m], over |-> FALSE]
    BY <1>4 DEF WalkAt
  <2>4. page[cur[m]] = [posts |-> SubSeq(all, m + 1, N), next |-> 0]
    BY <1>4, <2>2 DEF TurnsFollow, PageAfter
  <2>5. SubSeq(all, 1, m) \o SubSeq(all, m + 1, N) = all
    <3>1. 1 \in 1..Len(all) + 1 /\ m \in 1 - 1..Len(all) /\ Len(all) \in m..Len(all)
      BY <1>1, <1>4
    <3>2. SubSeq(all, 1, m) \o SubSeq(all, m + 1, N) = SubSeq(all, 1, N)
      BY <3>1, ConcatAdjacentSubSeq
    <3> QED BY <3>2, SubSeqFull
  <2>6. TurnPage(w, page) = [seen |-> all, cursor |-> 0, over |-> TRUE]
    <3> HIDE DEF w
    <3>1. w.over = FALSE /\ w.seen = SubSeq(all, 1, m) /\ w.cursor = cur[m]
      BY <2>3
    <3> DEFINE shown == page[w.cursor]
    <3>2. TurnPage(w, page) = [seen |-> w.seen \o shown.posts, cursor |-> shown.next,
                               over |-> shown.next = 0]
      BY <3>1 DEF TurnPage
    <3>3. shown.posts = SubSeq(all, m + 1, N) /\ shown.next = 0
      BY <2>4, <3>1
    <3> HIDE DEF shown
    <3>4. (shown.next = 0) = TRUE /\ w.seen \o shown.posts = all
      BY <2>5, <3>1, <3>3
    <3> QED BY <3>2, <3>3, <3>4
  <2>7. WalkAt(all, cur, N + 1) = [seen |-> all, cursor |-> 0, over |-> TRUE]
    BY <2>1 DEF WalkAt
  <2> QED BY <2>1, <2>6, <2>7
<1> QED
  BY <1>2, <1>3, <1>4

\* Who turns as many pages as there are posts, and one more, has seen all of them.
LEMMA ShownIsAll ==
  ASSUME NEW all \in Seq(Posts), NEW cur, Cursors(all, cur), NEW limit \in Nat \ {0},
         NEW page, TurnsFollow(all, cur, page, limit)
  PROVE  Shown(page, Len(all) + 1) = all
<1> DEFINE last == Len(all) + 1
           A == Stops(all) \cup {last}
           step == [n \in 1..last |-> [m \in A |-> After(all, m, limit)]]
           start == [seen |-> <<>>, cursor |-> 0, over |-> FALSE]
           Walks(g) == g = [n \in 0..last |-> IF n = 0 THEN start ELSE TurnPage(g[n - 1], page)]
           walk == CHOOSE g : Walks(g)
<1>1. Len(all) \in Nat /\ last \in Nat /\ 0 \in A
  BY LenProperties DEF Stops
<1>2. \A m \in A :
        /\ TurnPage(WalkAt(all, cur, m), page) = WalkAt(all, cur, After(all, m, limit))
        /\ After(all, m, limit) \in A
        /\ After(all, m, limit) = last \/ After(all, m, limit) >= m + 1
  BY TurnMoves
<1>3. start = WalkAt(all, cur, 0)
  <2>1. ~(0 > Len(all)) /\ cur[0] = 0 /\ SubSeq(all, 1, 0) = <<>>
    BY <1>1, SubSeqEmpty DEF Cursors
  <2> QED BY <2>1 DEF WalkAt
<1>4. Steps(A, last, step)
  <2> HIDE DEF last, A
  <2> QED BY <1>1, <1>2 DEF Steps
<1>5. PICK f : Makes(A, 0, last, step, f)
  <2> HIDE DEF last, A, step
  <2> QED BY <1>1, <1>4, Iteration DEF Steps
<1>6. /\ f \in [0..last -> A] /\ f[0] = 0
      /\ \A n \in 1..last : f[n - 1] \in A /\ f[n] = After(all, f[n - 1], limit)
  <2>1. f \in [0..last -> A] /\ f[0] = 0 /\ \A n \in 1..last : f[n] = step[n][f[n - 1]]
    <3> HIDE DEF last, A, step
    <3> QED BY <1>5 DEF Makes
  <2>2. \A n \in 1..last : n - 1 \in 0..last
    BY <1>1
  <2> HIDE DEF last, A
  <2> QED BY <2>1, <2>2
<1> DEFINE g == [n \in 0..last |-> WalkAt(all, cur, f[n])]
<1>7. Walks(g)
  <2>1. ASSUME NEW n \in 0..last PROVE g[n] = IF n = 0 THEN start ELSE TurnPage(g[n - 1], page)
    <3>1. CASE n = 0
      <4> HIDE DEF last, start
      <4> QED BY <1>3, <1>6, <3>1
    <3>2. CASE n # 0
      <4>1. n \in 1..last /\ n - 1 \in 0..last
        BY <1>1, <3>2
      <4>2. g[n - 1] = WalkAt(all, cur, f[n - 1]) /\ g[n] = WalkAt(all, cur, f[n])
        BY <4>1
      <4> HIDE DEF last, A, g
      <4> QED BY <1>2, <1>6, <3>2, <4>1, <4>2
    <3> QED BY <3>1, <3>2
  <2>2. g = [n \in 0..last |-> g[n]]
    BY DEF g
  <2> HIDE DEF g, last, start
  <2> QED BY <2>1, <2>2
<1>8. Walks(walk)
  <2> HIDE DEF Walks
  <2> QED BY <1>7
<1>9. Shown(page, last) = walk[last].seen
  BY DEF Shown
<1>10. /\ walk[0] = start
       /\ \A n \in 1..last : walk[n] = TurnPage(walk[n - 1], page)
  <2>1. \A n \in 0..last : walk[n] = IF n = 0 THEN start ELSE TurnPage(walk[n - 1], page)
    <3> HIDE DEF last, walk, start
    <3> QED BY <1>8
  <2>2. 0 \in 0..last /\ \A n \in 1..last : n \in 0..last /\ n # 0
    BY <1>1
  <2> HIDE DEF last, walk, start
  <2> QED BY <2>1, <2>2
<1> HIDE DEF walk, Walks, g
<1> DEFINE Right(n) == walk[n] = WalkAt(all, cur, f[n]) /\ (f[n] = last \/ f[n] >= n)
           T == {n \in Nat : n <= last => Right(n)}
<1>11. 0 \in T
  <2> HIDE DEF last, start
  <2> QED BY <1>1, <1>3, <1>6, <1>10
<1>12. ASSUME NEW n \in T PROVE n + 1 \in T
  <2> SUFFICES ASSUME n + 1 <= last PROVE Right(n + 1)
    OBVIOUS
  <2>1. n \in Nat /\ n + 1 \in 1..last /\ n + 1 - 1 = n /\ Right(n)
    BY <1>1, <1>12
  <2>2. f[n] \in A /\ f[n + 1] = After(all, f[n], limit) /\ walk[n + 1] = TurnPage(walk[n], page)
    <3> HIDE DEF last, A
    <3> QED BY <1>6, <1>10, <2>1
  <2>3. walk[n + 1] = WalkAt(all, cur, f[n + 1]) /\ (f[n + 1] = last \/ f[n + 1] >= f[n] + 1)
    <3> HIDE DEF last, A
    <3> QED BY <1>2, <2>1, <2>2
  <2>4. f[n] = last => f[n + 1] = last
    BY <1>1, <2>2 DEF After
  <2>5. f[n] \in Int /\ f[n + 1] \in Int
    <3>1. A \subseteq Int
      BY <1>1 DEF Stops
    <3>2. n + 1 \in 0..last
      BY <1>1, <2>1
    <3> HIDE DEF last, A
    <3> QED BY <1>6, <2>2, <3>1, <3>2
  <2> HIDE DEF last, A
  <2> QED BY <2>1, <2>3, <2>4, <2>5
<1>13. last \in T
  <2> HIDE DEF T
  <2>1. T \in SUBSET Nat
    BY DEF T
  <2> HIDE DEF last
  <2> QED BY <1>1, <1>11, <1>12, <2>1, Induction
<1>14. f[last] = last
  <2>1. last \in 0..last /\ f[last] \in A /\ Right(last)
    <3>1. last \in 0..last
      BY <1>1
    <3> HIDE DEF last, A
    <3> QED BY <1>1, <1>6, <1>13, <3>1
  <2>2. \A m \in A : m \in Nat /\ m <= last
    BY <1>1 DEF Stops
  <2> HIDE DEF last, A
  <2> QED BY <1>1, <2>1, <2>2
<1>15. WalkAt(all, cur, last).seen = all
  BY <1>1 DEF WalkAt
<1>16. walk[last] = WalkAt(all, cur, last)
  <2> HIDE DEF last
  <2> QED BY <1>1, <1>13, <1>14
<1> QED
  BY <1>9, <1>15, <1>16

LEMMA FeedIsCovered == PagesCoverFeed
<1> DEFINE all == NewestFirst(Posts)
<1>1. all \in Seq(Posts) /\ Len(all) \in Nat
  BY NewestFalls
<1>2. ASSUME NEW limit \in Limits
      PROVE  Shown([c \in Posts \cup {0} |-> LatestPage(c, limit)], Len(all) + 1) = all
  <2> DEFINE page == [c \in Posts \cup {0} |-> LatestPage(c, limit)]
             cur == IdOf(all)
  <2>1. limit \in Nat \ {0}
    BY RankingAssumption
  <2>2. /\ cur[0] = 0
        /\ \A m \in 1..Len(all) : cur[m] \in Posts
    <3> HIDE DEF all
    <3> QED BY <1>1, ElementOfSeq DEF IdOf
  <2>3. Cursors(all, cur)
    <3> HIDE DEF all, cur
    <3> QED BY <2>2, RankingAssumption DEF Cursors
  <2>4. ASSUME NEW m \in Stops(all) PROVE page[cur[m]] = PageAfter(all, cur, m, limit)
    <3>1. cur[m] \in Posts \cup {0}
      <4>1. m = 0 \/ m \in 1..Len(all)
        BY <1>1, <2>4 DEF Stops
      <4> HIDE DEF all, cur
      <4> QED BY <2>2, <4>1
    <3>2. page[cur[m]] = LatestPage(cur[m], limit)
      BY <3>1
    <3> HIDE DEF page
    <3> QED BY <2>1, <3>2, LatestPages
  <2> HIDE DEF page, cur, all
  <2>5. TurnsFollow(all, cur, page, limit)
    BY <2>4 DEF TurnsFollow
  <2>6. Shown(page, Len(all) + 1) = all
    BY <1>1, <2>1, <2>3, <2>5, ShownIsAll
  <2> QED BY <2>6 DEF page
<1>3. ASSUME NEW limit \in Limits
      PROVE  Shown([c \in 0..Len(all) |-> PersonalPage(all, c, limit)], Len(all) + 1) = all
  <2> DEFINE page == [c \in 0..Len(all) |-> PersonalPage(all, c, limit)]
             cur == [m \in 0..Len(all) |-> m]
  <2> HIDE DEF all
  <2>1. limit \in Nat \ {0}
    BY RankingAssumption
  <2>2. Cursors(all, cur)
    BY <1>1 DEF Cursors
  <2>3. ASSUME NEW m \in Stops(all) PROVE page[cur[m]] = PageAfter(all, cur, m, limit)
    <3>1. m \in 0..Len(all)
      BY <2>3 DEF Stops
    <3>2. page[cur[m]] = PersonalPage(all, m, limit)
      BY <3>1
    <3> HIDE DEF page
    <3> QED BY <1>1, <2>1, <3>2, PersonalPages
  <2> HIDE DEF page, cur
  <2>4. TurnsFollow(all, cur, page, limit)
    BY <2>3 DEF TurnsFollow
  <2>5. Shown(page, Len(all) + 1) = all
    BY <1>1, <2>1, <2>2, <2>4, ShownIsAll
  <2> QED BY <2>5 DEF page
<1> QED
  BY <1>2, <1>3 DEF PagesCoverFeed

\* Every feed that is stored is clean, whatever the posts, their authors and contents,
\* the scores and the viewer's dislikes; its pages show every post once.
THEOREM FeedsAreClean == Spec => []FeedIsClean
<1>1. FeedIsClean
  BY RankedIsClean, FeedIsCovered DEF FeedIsClean
<1> QED
  BY <1>1, PTL
=============================================================================
