------------------------------ MODULE MCReactor ------------------------------
(***************************************************************************)
(* Instances of Reactor for TLC.                                           *)
(***************************************************************************)
EXTENDS Reactor, TLC

\* Descriptors, objects and workers are interchangeable.
Symmetry == Permutations(Conns) \cup Permutations(Fds) \cup Permutations(Workers)
=============================================================================
