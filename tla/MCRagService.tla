---------------------------- MODULE MCRagService ----------------------------
(* RagService on a small instance: two questions that are not close enough   *)
(* to share an answer, and a breaker, a cool-down and a cache of two.         *)
EXTENDS RagService, TLC

CONSTANTS q1, q2
MCQuestions == {q1, q2}
MCSimilarity == [p \in MCQuestions \X MCQuestions |-> IF p[1] = p[2] THEN 100 ELSE 90]
Symmetry == Permutations(Requests)
=============================================================================
