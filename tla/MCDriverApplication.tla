------------------------ MODULE MCDriverApplication ------------------------
(* Instances of DriverApplication for TLC. *)
EXTENDS DriverApplication, TLC

Symmetry == Permutations(Calls) \cup Permutations(Keys) \cup Permutations(Applicants)

============================================================================
