----------------------- MODULE MCUnguardedCycleSearch -----------------------
(* Every graph over three steps in which an ordered pair of steps is joined *)
(* by no edge, by a guarded one or by an unguarded one, with and without a  *)
(* transition to a step that does not exist (validate reports it, and still *)
(* runs the search).                                                        *)
EXTENDS UnguardedCycleSearch

CONSTANTS Step, Missing

Pairs == Step \X Step

Edge(p, guarded) == [source |-> p[1], target |-> p[2], guarded |-> guarded]

Joined == UNION {[ps -> BOOLEAN] : ps \in SUBSET Pairs}

Dangling == {{}, {<<CHOOSE s \in Step : TRUE, Missing>>}}

MCGraphs ==
    {[steps       |-> Step,
      transitions |-> [p \in DOMAIN f \cup d |->
                          Edge(p, IF p \in d THEN FALSE ELSE f[p])]]
        : f \in Joined, d \in Dangling}

=============================================================================
