------------------------ MODULE MCEphemeralWorkflow ------------------------
(* Model values for the runs of EphemeralWorkflow. *)
EXTENDS EphemeralWorkflow, TLC

Symmetry == Permutations(Workflow) \cup Permutations(Call) \cup Permutations(Disposer)
=============================================================================
