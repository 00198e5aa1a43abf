--------------------------- MODULE MCQuorumAwait ----------------------------
(* Symmetric persons, calls and sources for the runs of QuorumAwait. *)
EXTENDS QuorumAwait, TLC

Symmetry == Permutations(Person) \cup Permutations(Call) \cup Permutations(Source)
=============================================================================
