------------------------- MODULE MCBackgroundTasks -------------------------
(* Symmetric drivers for the runs of BackgroundTasks. *)
EXTENDS BackgroundTasks, TLC

Symmetry == Permutations(Runner) \cup Permutations(Driver)
=============================================================================
