----------------------------- MODULE MCPresence -----------------------------
(* Instances of Presence for TLC. *)
EXTENDS Presence, TLC

Symmetry == Permutations(Calls) \cup Permutations(Sockets)

(* Without the history of the limiters, which no guard reads when MaxReturns   *)
(* is None, and no property but those of the limiters.                         *)
View == <<socketUser, tracking, hits, now, tables, cached, call, pins, failed>>

============================================================================
