SPECIFICATION FairSpec
CONSTANTS
  Workers = {w1, w2}
  Connections = {c1, c2}
  None = None
  Posts = {p1}
  Users = {u1}
  Faults = {"sql", "handle"}
\* With one connection the workers may block each other.
CHECK_DEADLOCK FALSE
INVARIANTS
  Conserved
  PopFindsAConnection
  UsersAreStored
  NobodyBlocks
  PageKeepsPosts
PROPERTIES
  PageLockReleased
