------------------------ MODULE MCConductorTriggers -------------------------
(* Symmetric calls and replicas for the runs of ConductorTriggers. *)
EXTENDS ConductorTriggers, TLC

Symmetry == Permutations(Call) \cup Permutations(Worker)
=============================================================================
