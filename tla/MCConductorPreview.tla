------------------------- MODULE MCConductorPreview -------------------------
(* Every graph over the steps of Step in which an ordered pair of steps is  *)
(* joined by no edge, a guarded or an unguarded one, a step may point at a  *)
(* step that does not exist, and names any edge, an edge that does not      *)
(* exist, or none as its fallback.                                          *)
EXTENDS ConductorPreview

CONSTANTS Step, Start, Missing, Ghost

Edge(p, guarded) == [source |-> p[1], target |-> p[2], guarded |-> guarded]

Pairs == Step \X Step \cup {<<Start, Missing>>}

MCWorkflows ==
    [steps : {Step}, entry : {Start}, kind : [Step -> {"agent", "timer"}],
     post : {{}, {Start}}, quorum : {[s \in Step |-> "any"]},
     deadline : {[s \in Step |-> "valid"]},
     fallback : [Step -> Pairs \cup {NoTransition, Ghost}],
     transitions : {[p \in DOMAIN f |-> Edge(p, f[p])] :
                        f \in UNION {[ps -> BOOLEAN] : ps \in SUBSET Pairs}}]

=============================================================================
