----------------------------- MODULE MCSseStream -----------------------------
(* SseStream on a small instance: chunks smaller than the limit, as large as *)
(* it, and larger.                                                           *)
EXTENDS SseStream, TLC

CONSTANTS a, b, c, d
MCChunks == {a, b, c, d}
MCSize == (a :> 1) @@ (b :> 1) @@ (c :> 2) @@ (d :> 3)
=============================================================================
