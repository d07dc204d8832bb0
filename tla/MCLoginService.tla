--------------------------- MODULE MCLoginService ---------------------------
(* One address, one name and two workers; one job and two lines in the queues. *)
EXTENDS LoginService, TLC

Symmetric == Permutations(Workers)
=============================================================================
