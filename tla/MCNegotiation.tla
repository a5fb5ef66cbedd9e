--------------------------- MODULE MCNegotiation ---------------------------
(* Instances of Negotiation for TLC. *)
EXTENDS Negotiation, TLC

CallSymmetry == Permutations(Calls)
Symmetry == Permutations(Calls) \cup Permutations(Drivers) \cup Permutations(Fares)

============================================================================
