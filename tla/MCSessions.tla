----------------------------- MODULE MCSessions -----------------------------
(* Instances of Sessions for TLC. *)
EXTENDS Sessions, TLC

Symmetry ==
  Permutations(Calls) \cup Permutations(Tokens) \cup Permutations(Resets)
    \cup Permutations(Passwords)

(* What no step and no property looks at is left out: the history of a token   *)
(* that is dead, and the time of a code that is used.                          *)
View ==
  <<password, owner, revoked, expired, codeOwner, used, lapsed \ used, call, overlapped,
    family, [t \in {s \in Tokens : Live(s)} |-> <<opened[t], t \in late>>],
    forked, crossed, spent>>

============================================================================
