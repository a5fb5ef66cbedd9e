----------------------------- MODULE MCRatings -----------------------------
(* Ratings for TLC: requests and calls are interchangeable. *)
EXTENDS Ratings, TLC

Symmetry == Permutations(Requests) \cup Permutations(Calls)

============================================================================
