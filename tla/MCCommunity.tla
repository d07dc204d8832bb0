----------------------------- MODULE MCCommunity -----------------------------
(* Community on a small instance, with actions on one of five posts, which    *)
(* three authors have written, the first and the last with the same content.  *)
EXTENDS Community, TLC

CONSTANTS u1, u2
MCPosts == {3, 5, 6, 8, 9}
MCAuthor == [p \in MCPosts |-> CASE p \in {3, 5, 6} -> "a" [] p = 8 -> "b" [] p = 9 -> "c"]
MCContent == [p \in MCPosts |-> IF p \in {3, 9} THEN 3 ELSE p]
MCTargets == {3}
MCLimits == 1..6
Symmetry == Permutations(Requests) \cup Permutations(Events)
=============================================================================
