------------------------------ MODULE Community ------------------------------
(***************************************************************************)
(* The community store (community/mysql_community_store.cpp): the          *)
(* transaction that records an action of a user on a post, which keeps a   *)
(* log, a row of counters per post and a row of reactions per user and     *)
(* post in step, and the personalised feed, whose pages are kept for a     *)
(* while.  Both run on many threads at once.                               *)
(*                                                                         *)
(* A transaction is cut at its SQL statements.  InnoDB's row locks follow  *)
(* from how far a transaction has come and from what it has written        *)
(* (draft); a statement that needs a lock waits.  Any statement may fail,  *)
(* among other reasons as the victim of a deadlock.                        *)
(***************************************************************************)
EXTENDS Ranking, FiniteSets

CONSTANTS
  Requests,   \* bound: requests at the same time
  Users,
  Viewers,    \* bound: the users that open the feed
  Targets,    \* bound: the posts that are acted on
  Events,     \* bound: the event ids that clients use
  Types,      \* of actions
  Offsets,    \* of the pages of a feed that are asked for
  Ttl,        \* COMMUNITY_FEED_SNAPSHOT_SECONDS, in ticks
  None

Plain == {"impression", "open", "dwell", "skip"}
Flags == {"liked", "collected", "disliked"}

ASSUME CommunityAssumption ==
  /\ Types \subseteq Plain \cup {"like", "unlike", "collect", "uncollect", "dislike"}
  /\ Ttl \in Nat \ {0} /\ Targets \subseteq Posts /\ Viewers \subseteq Users
  /\ IsFiniteSet(Users) /\ IsFiniteSet(Events)
  /\ None \notin [Plain \cup Flags -> Nat] /\ None \notin [Flags -> BOOLEAN]
  /\ None \notin [user : Users, post : Posts, type : Types]

VARIABLES
  log,        \* community_actions: event -> what it recorded
  stats,      \* community_post_stats: post -> its counters, None without a row
  state,      \* community_user_post_state: user and post -> flags, None without a row
  pc, job,    \* where each request is, and what it does
  draft,      \* what its transaction has written
  found,      \* the viewer's reactions that its feed has read
  snapshots,  \* feed_snapshots: user and offset -> page
  unanswered  \* history: committed actions whose commit was reported as failed

database == <<log, stats, state>>
request == <<pc, job, draft, found>>
vars == <<database, request, snapshots, unanswered>>

Places == {"idle", "insert", "stats", "state", "read", "update", "commit",
           "invalidate", "select", "store"}

-----------------------------------------------------------------------------
(* What an action does to the two rows.                                    *)

Flag(type) == CASE type \in {"like", "unlike"} -> "liked"
                [] type \in {"collect", "uncollect"} -> "collected"
                [] type = "dislike" -> "disliked"
Sets(type) == type \in {"like", "collect", "dislike"}

NoCounts == [c \in Plain \cup Flags |-> 0]
NoFlags == [f \in Flags |-> FALSE]

\* Mutant: a reaction is counted again when it is repeated.
CountsAlways(type, row) == TRUE
Counts(type, row) == type \in Plain \/ row[Flag(type)] # Sets(type)

Counted(type, counters) ==
  IF type \in Plain THEN [counters EXCEPT ![type] = @ + 1]
  ELSE [counters EXCEPT ![Flag(type)] =
          IF Sets(type) THEN @ + 1 ELSE IF @ > 0 THEN @ - 1 ELSE 0]

Flagged(type, row) == IF type \in Plain THEN row ELSE [row EXCEPT ![Flag(type)] = Sets(type)]

-----------------------------------------------------------------------------
NoJob == [user |-> None, post |-> None, event |-> None, type |-> None, offset |-> None]
NoDraft == [stats |-> None, state |-> None]

Init ==
  /\ log = [e \in Events |-> None]
  /\ stats = [p \in Posts |-> None] /\ state = [k \in Users \X Posts |-> None]
  /\ pc = [t \in Requests |-> "idle"] /\ job = [t \in Requests |-> NoJob]
  /\ draft = [t \in Requests |-> NoDraft]
  /\ found = [t \in Requests |-> {}]
  /\ snapshots = [k \in Users \X Offsets |-> None]
  /\ unanswered = {}

At(t, place) == pc[t] = place
Goto(t, place) == pc' = [pc EXCEPT ![t] = place]

\* A request ends, and its variables with it.
End(t) ==
  /\ Goto(t, "idle")
  /\ job' = [job EXCEPT ![t] = NoJob] /\ draft' = [draft EXCEPT ![t] = NoDraft]
  /\ found' = [found EXCEPT ![t] = {}]

\* The answer needs no more work, or the request goes on.
GoOrEnd(t, goesOn, place) ==
  IF goesOn THEN Goto(t, place) /\ UNCHANGED <<job, draft, found>> ELSE End(t)

\* Rows that the transactions of other requests have locked: shared by an INSERT
\* IGNORE that finds the row, exclusively by whoever has written it.
SharesStats(t, p) == job[t].post = p /\ pc[t] \in {"state", "read", "update", "commit"}
SharesState(t, u, p) ==
  job[t].user = u /\ job[t].post = p /\ pc[t] \in {"read", "update", "commit"}
HasEvent(t, e) ==
  job[t].event = e /\ pc[t] \in {"stats", "state", "read", "update", "commit"}
OwnsStats(t, p) == SharesStats(t, p) /\ draft[t].stats # None
OwnsState(t, u, p) == SharesState(t, u, p) /\ draft[t].state # None

Others(t) == Requests \ {t}

\* What the API lets through: known types, an event id, a post; a page of the
\* feed.
Actions == [user : Users, post : Targets, event : Events, type : Types, offset : {None}]
Queries == [user : Viewers, post : {None}, event : {None}, type : {None}, offset : Offsets]

-----------------------------------------------------------------------------
(* record_action.                                                          *)
\* START TRANSACTION and SELECT ... FOR SHARE.  Without the post the transaction is
\* rolled back, and nothing has happened.
Act(t) ==
  /\ At(t, "idle")
  /\ \E action \in Actions : job' = [job EXCEPT ![t] = action]
  /\ Goto(t, "insert")
  /\ UNCHANGED <<database, draft, found, snapshots, unanswered>>

\* Mutant: an event that is in the log already is taken for a new one.
AsIfNew(t) == TRUE
IsNew(t) == log[job[t].event] = None

\* INSERT IGNORE waits for another transaction with the same event.
InsertAction(t) ==
  /\ At(t, "insert") /\ \A r \in Others(t) : ~HasEvent(r, job[t].event)
  /\ GoOrEnd(t, IsNew(t), "stats")
  /\ UNCHANGED <<database, snapshots, unanswered>>

EnsureStats(t) ==
  LET p == job[t].post IN
  /\ At(t, "stats") /\ \A r \in Others(t) : ~OwnsStats(r, p)
  /\ draft' = [draft EXCEPT
       ![t] = [stats |-> IF stats[p] = None THEN NoCounts ELSE None, state |-> @.state]]
  /\ Goto(t, "state")
  /\ UNCHANGED <<database, job, found, snapshots, unanswered>>

EnsureState(t) ==
  LET p == job[t].post
      u == job[t].user
  IN
  /\ At(t, "state") /\ \A r \in Others(t) : ~OwnsState(r, u, p)
  /\ draft' = [draft EXCEPT
       ![t] = [stats |-> @.stats, state |-> IF state[<<u, p>>] = None THEN NoFlags ELSE None]]
  /\ Goto(t, "read")
  /\ UNCHANGED <<database, job, found, snapshots, unanswered>>

\* SELECT ... FOR UPDATE
ReadState(t) ==
  LET p == job[t].post
      u == job[t].user
  IN
  /\ At(t, "read") /\ \A r \in Others(t) : ~SharesState(r, u, p)
  /\ draft' = [draft EXCEPT
       ![t] = [stats |-> @.stats, state |-> IF @.state = None THEN state[<<u, p>>] ELSE @.state]]
  /\ Goto(t, "update")
  /\ UNCHANGED <<database, job, found, snapshots, unanswered>>

\* The two UPDATEs: of the counters, if the action counts, and of the flags.
Update(t) ==
  LET p == job[t].post
      type == job[t].type
      row == draft[t].state
      counters == IF draft[t].stats = None THEN stats[p] ELSE draft[t].stats
  IN
  /\ At(t, "update")
  /\ Counts(type, row) => \A r \in Others(t) : ~SharesStats(r, p)
  /\ draft' = [draft EXCEPT
       ![t] = [stats |-> IF Counts(type, row) THEN Counted(type, counters) ELSE @.stats,
               state |-> Flagged(type, row)]]
  /\ Goto(t, "commit")
  /\ UNCHANGED <<database, job, found, snapshots, unanswered>>

Committed(t) ==
  LET j == job[t] IN
  /\ log' = [log EXCEPT ![j.event] = [user |-> j.user, post |-> j.post, type |-> j.type]]
  /\ stats' = [stats EXCEPT ![j.post] = IF draft[t].stats = None THEN @ ELSE draft[t].stats]
  /\ state' = [state EXCEPT ![<<j.user, j.post>>] = draft[t].state]

Reacts(type) == type \notin Plain

\* Mutant: the pages are kept when a reaction is taken back.
Announces(type) == type \in {"like", "collect", "dislike"}
Invalidates(type) == Reacts(type)

Commit(t) ==
  /\ At(t, "commit") /\ Committed(t)
  /\ GoOrEnd(t, Invalidates(job[t].type), "invalidate")
  /\ UNCHANGED <<snapshots, unanswered>>

\* The answer to COMMIT is lost: mysql_commit reports a failure.
CommitUnanswered(t) ==
  /\ At(t, "commit") /\ Committed(t)
  /\ unanswered' = unanswered \cup {job[t].event}
  /\ End(t)
  /\ UNCHANGED snapshots

RolledBack(t) == UNCHANGED database

\* Any statement fails, and what the transaction has written is rolled back.
ActionFails(t) ==
  /\ pc[t] \in {"insert", "stats", "state", "read", "update", "commit"}
  /\ RolledBack(t) /\ End(t)
  /\ UNCHANGED <<snapshots, unanswered>>

\* invalidate_snapshot: all the pages of the user.
Invalidate(t) ==
  /\ At(t, "invalidate")
  /\ snapshots' = [k \in Users \X Offsets |->
                     IF k[1] = job[t].user THEN None ELSE snapshots[k]]
  /\ End(t)
  /\ UNCHANGED <<database, unanswered>>

-----------------------------------------------------------------------------
(* fetch_feed, personalised.                                               *)

\* The reactions of a user that the database has.
Reactions(u) == {e \in Events : log[e] # None /\ log[e].user = u /\ Reacts(log[e].type)}

FreshPage(u, o) == snapshots[<<u, o>>] # None /\ snapshots[<<u, o>>].left > 0

\* A page that has not expired is the answer; else the feed is put together.
AskFeed(t) ==
  /\ At(t, "idle")
  /\ \E q \in Queries : ~FreshPage(q.user, q.offset) /\ job' = [job EXCEPT ![t] = q]
  /\ Goto(t, "select")
  /\ UNCHANGED <<database, draft, found, snapshots, unanswered>>

\* The posts with their counters and the viewer's reactions, in one statement.
ReadCandidates(t) ==
  /\ At(t, "select")
  /\ found' = [found EXCEPT ![t] = Reactions(job[t].user)]
  /\ Goto(t, "store")
  /\ UNCHANGED <<database, job, draft, snapshots, unanswered>>

\* One of the three statements fails: the candidates, the signals, the profile.
FeedFails(t) ==
  /\ pc[t] \in {"select", "store"}
  /\ End(t)
  /\ UNCHANGED <<database, snapshots, unanswered>>

\* late is history: the reactions that the page is behind already.
Store(t) ==
  LET j == job[t] IN
  /\ At(t, "store")
  /\ snapshots' = [snapshots EXCEPT ![<<j.user, j.offset>>] =
       [knows |-> found[t], late |-> Reactions(j.user) \ found[t], left |-> Ttl]]
  /\ End(t)
  /\ UNCHANGED <<database, unanswered>>

\* A page whose time is over is as good as none.
Tick ==
  /\ snapshots' = [k \in Users \X Offsets |->
       IF FreshPage(k[1], k[2]) /\ snapshots[k].left > 1
       THEN [snapshots[k] EXCEPT !.left = @ - 1] ELSE None]
  /\ UNCHANGED <<database, request, unanswered>>

-----------------------------------------------------------------------------
Step(t) ==
  \/ Act(t) \/ InsertAction(t) \/ EnsureStats(t) \/ EnsureState(t)
  \/ ReadState(t) \/ Update(t) \/ Commit(t) \/ CommitUnanswered(t) \/ ActionFails(t)
  \/ Invalidate(t)
  \/ AskFeed(t) \/ ReadCandidates(t) \/ FeedFails(t) \/ Store(t)

Next == (\E t \in Requests : Step(t)) \/ Tick

Spec == Init /\ [][Next]_vars

-----------------------------------------------------------------------------
(* Properties.                                                             *)

Count(p, counter) == IF stats[p] = None THEN 0 ELSE stats[p][counter]
HasFlag(u, p, flag) == state[<<u, p>>] # None /\ state[<<u, p>>][flag]

\* A post has as many likes, collects and dislikes as there are users whose
\* reaction that is, whatever fails, is repeated or comes at the same time.
ReactionsAddUp ==
  \A p \in Posts, flag \in Flags :
    Count(p, flag) = Cardinality({u \in Users : HasFlag(u, p, flag)})

\* An impression, an opening or a skip is counted once for each event in the log,
\* although clients repeat events whose answer they have not got.
EventsCountedOnce ==
  \A p \in Posts, type \in Plain :
    Count(p, type) =
      Cardinality({e \in Events : log[e] # None /\ log[e].post = p /\ log[e].type = type})

\* A page that is kept lacks a reaction of its viewer only if it was read before the
\* reaction and stored after it, or if the reaction was not confirmed (yet).
PagesFollowReactions ==
  \A u \in Users, o \in Offsets :
    FreshPage(u, o) =>
      \A e \in Reactions(u) \ snapshots[<<u, o>>].knows :
        \/ e \in snapshots[<<u, o>>].late \cup unanswered
        \/ \E t \in Requests : At(t, "invalidate") /\ job[t].event = e

\* The feeds that are put together: whatever the scores and the viewer's dislikes, a
\* ranking shows each content once, nothing disliked, and an author twice in a row
\* only when nobody else is left; the pages show every post once and in order.
FeedIsClean == \A t \in Requests : At(t, "store") => RankingsAreClean /\ PagesCoverFeed
=============================================================================
