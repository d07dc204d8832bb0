SPECIFICATION Spec
CONSTANTS
  u1 = u1
  u2 = u2
  Users = {u1, u2}
  Targets <- MCTargets
  Requests = {t1, t2}
  Events = {e1, e2, e3}
  Types = {"like", "unlike", "skip"}
  Viewers = {u1}
  Offsets = {0}
  Ttl = 1
  None = None
  Posts <- MCPosts
  Author <- MCAuthor
  Content <- MCContent
  MaxScore = 2
  Limits <- MCLimits
SYMMETRY Symmetry
INVARIANTS
  ReactionsAddUp
  EventsCountedOnce
  PagesFollowReactions
  FeedIsClean
