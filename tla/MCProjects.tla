------------------------------ MODULE MCProjects ------------------------------
(* Instances of Projects for TLC. *)
EXTENDS Projects, TLC

CONSTANTS a, b, s1, s2

\* What is joined may be opened twice at a time.
MCInstances == a :> 1 @@ b :> 2

MCSymmetry == Permutations(Slots)
=============================================================================
