----------------------------- MODULE MCSqlPool -----------------------------
(* SqlPool on small instances. *)
EXTENDS SqlPool, TLC

Symmetry == Permutations(Workers) \cup Permutations(Connections)
            \cup Permutations(Posts) \cup Permutations(Users)
=============================================================================
