---------------------------- MODULE MCModelStream ----------------------------
(* ModelStream on a small instance. *)
EXTENDS ModelStream
=============================================================================
