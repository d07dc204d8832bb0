------------------------------- MODULE Ranking -------------------------------
(***************************************************************************)
(* What a feed shows: the order of the personalised one                    *)
(* (community/recommendation_ranker.cpp, rank) and the pages and cursors   *)
(* of both feeds (mysql_community_store.cpp, fetch_feed).  How a score is  *)
(* made of likes, age and similarity is left out: any score may come out,  *)
(* equal ones too.                                                         *)
(***************************************************************************)
EXTENDS Integers, Sequences, FiniteSets

CONSTANTS
  Posts,            \* the ids of the posts in the database
  Author, Content,  \* of each
  MaxScore,         \* bound: scores are told apart up to this
  Limits            \* bound: the page lengths that are asked for

ASSUME RankingAssumption ==
  /\ Posts \subseteq Nat \ {0} /\ IsFiniteSet(Posts)
  /\ DOMAIN Author = Posts /\ DOMAIN Content = Posts
  /\ Limits \subseteq Nat \ {0} /\ MaxScore \in Nat

-----------------------------------------------------------------------------
(* The order.                                                              *)

\* The better score first, the newer post among equals: i - 1 posts are before the one
\* at place i.
Better(posts, score, p) ==
  {q \in posts : score[q] > score[p] \/ (score[q] = score[p] /\ q > p)}
ByScore(posts, score) ==
  [i \in 1..Cardinality(posts) |->
     CHOOSE p \in posts : Cardinality(Better(posts, score, p)) = i - 1]

\* Of the posts with the same content, the first stays.
KeepFirst(s, p) == IF \E i \in DOMAIN s : Content[s[i]] = Content[p] THEN s ELSE Append(s, p)

Deduplicated(ranked) ==
  LET kept[n \in 0..Len(ranked)] == IF n = 0 THEN <<>> ELSE KeepFirst(kept[n - 1], ranked[n])
  IN  kept[Len(ranked)]

Swapped(s, i, j) == [s EXCEPT ![i] = s[j], ![j] = s[i]]

\* Where an author follows himself, the next post by somebody else comes first.
\* Mutant: only the next post is looked at.
SpreadNext(s, i) ==
  IF i < Len(s) /\ Author[s[i]] = Author[s[i - 1]] /\ Author[s[i + 1]] # Author[s[i - 1]]
  THEN Swapped(s, i, i + 1) ELSE s
SpreadAt(s, i) ==
  LET others == {j \in i + 1..Len(s) : Author[s[j]] # Author[s[i - 1]]}
  IN  IF Author[s[i]] # Author[s[i - 1]] \/ others = {} THEN s
      ELSE Swapped(s, i, CHOOSE j \in others : \A k \in others : j <= k)

Spread(s) ==
  LET done[n \in 0..Len(s)] == IF n <= 1 THEN s ELSE SpreadAt(done[n - 1], n)
  IN  done[Len(s)]

Ranked(disliked, score) == Spread(Deduplicated(ByScore(Posts \ disliked, score)))

-----------------------------------------------------------------------------
(* The pages.  A cursor is the offset of the next page in the ranking, or  *)
(* the id of the last post shown; 0 when there is no next page.            *)

PersonalPage(ranked, offset, limit) ==
  LET end == IF offset + limit < Len(ranked) THEN offset + limit ELSE Len(ranked)
  IN  [posts |-> SubSeq(ranked, offset + 1, end), next |-> IF end < Len(ranked) THEN end ELSE 0]

NewestFirst(posts) == ByScore(posts, [p \in posts |-> 0])

\* ORDER BY id DESC LIMIT limit + 1; the first page has no before_id.
Cursor(rows, limit) == rows[limit]

LatestPage(before, limit) ==
  LET rows == NewestFirst({p \in Posts : before = 0 \/ p < before})
  IN  IF Len(rows) > limit
      THEN [posts |-> SubSeq(rows, 1, limit), next |-> Cursor(rows, limit)]
      ELSE [posts |-> rows, next |-> 0]

\* What a client has seen that follows the cursors.
TurnPage(walk, page) ==
  IF walk.over THEN walk
  ELSE LET shown == page[walk.cursor]
       IN  [seen |-> walk.seen \o shown.posts, cursor |-> shown.next, over |-> shown.next = 0]

Shown(page, pages) ==
  LET walk[n \in 0..pages] ==
        IF n = 0 THEN [seen |-> <<>>, cursor |-> 0, over |-> FALSE] ELSE TurnPage(walk[n - 1], page)
  IN  walk[pages].seen

-----------------------------------------------------------------------------
(* What Community's FeedIsClean asks for.                                  *)

\* Each content once, nothing that the viewer dislikes, and an author twice in a
\* row only when nobody else is left.
CleanRanking(s, eligible) ==
  /\ \A i \in DOMAIN s : s[i] \in eligible
  /\ {Content[s[i]] : i \in DOMAIN s} = {Content[p] : p \in eligible}
  /\ \A i, j \in DOMAIN s : i # j => Content[s[i]] # Content[s[j]]
  /\ \A i, j \in DOMAIN s :
       i > 1 /\ j > i /\ Author[s[i]] = Author[s[i - 1]] => Author[s[j]] = Author[s[i]]

RankingsAreClean ==
  \A disliked \in SUBSET Posts, score \in [Posts -> 0..MaxScore] :
    CleanRanking(Ranked(disliked, score), Posts \ disliked)

\* Whoever follows the cursors sees every post once and in order, whatever the
\* length of the pages.
PagesCoverFeed ==
  LET all == NewestFirst(Posts) IN
  \A limit \in Limits :
    /\ Shown([c \in Posts \cup {0} |-> LatestPage(c, limit)], Len(all) + 1) = all
    /\ Shown([c \in 0..Len(all) |-> PersonalPage(all, c, limit)], Len(all) + 1) = all
=============================================================================
