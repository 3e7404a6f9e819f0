------------------------- MODULE MCHeartbeatSession -------------------------
(* HeartbeatSession with concrete sets for TLC. *)
EXTENDS HeartbeatSession, TLC

CONSTANTS c1, c2, f1, f2

\* Tool calls and interval callbacks are interchangeable.
MCSymmetry == Permutations(Clients) \union Permutations(Fires)
=============================================================================
