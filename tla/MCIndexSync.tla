----------------------------- MODULE MCIndexSync -----------------------------
(* IndexSync on a small instance.                                            *)
EXTENDS IndexSync, TLC

Symmetry == Permutations(Posts)
=============================================================================
