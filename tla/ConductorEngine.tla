-------------------------- MODULE ConductorEngine --------------------------
(***************************************************************************)
(* The pure core of the Conductor: the shape of a workflow graph, the       *)
(* checks a graph passes before it is published (conductor-core            *)
(* validate.ts), and the deterministic choice of the next step (engine.ts). *)
(*                                                                         *)
(* A graph is a record                                                     *)
(*   steps        the step ids                                             *)
(*   entry        the entry step id                                        *)
(*   kind         step -> "agent" | "action" | "human" | "timer"           *)
(*   post         the steps that declare an exit postcondition             *)
(*   quorum       step -> "any" | "all"         (human steps)              *)
(*   deadline     step -> "none" | "valid" | "malformed"                   *)
(*                an ISO-8601 duration that is absent, that                *)
(*                parseIsoDurationMs reads, or that it answers null to;    *)
(*                for a timer step it is the timer's duration              *)
(*   fallback     step -> a transition id, or NoTransition                 *)
(*   transitions  transition id -> [source, target, guarded]               *)
(*                                                                         *)
(* A predicate is opaque: what evaluatePredicate answers for a             *)
(* postcondition or a guard is an argument of NextStep.  Ids are unique by *)
(* construction, which stands for the two duplicate-id checks; agent,      *)
(* action and role references, `say` and the warnings are left out.        *)
(*                                                                         *)
(* A definition whose name starts with Bug is a seeded defect: a run is     *)
(* known to fail with it in the place of the definition that follows it.    *)
(***************************************************************************)
EXTENDS Naturals, FiniteSets

CONSTANT NoTransition       \* `fallbackTransitionId: undefined`

StepKinds == {"agent", "action", "human", "timer"}

IsGraph(g) ==
    /\ g.kind \in [g.steps -> StepKinds]
    /\ g.post \subseteq g.steps
    /\ g.quorum \in [g.steps -> {"any", "all"}]
    /\ g.deadline \in [g.steps -> {"none", "valid", "malformed"}]
    /\ NoTransition \notin DOMAIN g.transitions

Outgoing(g, s) == {t \in DOMAIN g.transitions : g.transitions[t].source = s}

HasFallback(g, s) == g.fallback[s] # NoTransition

-----------------------------------------------------------------------------
(* engine.ts                                                               *)

Advance(g, t) == [kind |-> "advance", target |-> g.transitions[t].target, via |-> t]
Complete      == [kind |-> "complete"]
Stuck(code)   == [kind |-> "stuck", code |-> code]

\* The happy-path transitions whose guard holds; `holds` are the guarded
\* transitions of the graph whose predicate evaluates to true.
Matched(g, s, holds) ==
    {t \in Outgoing(g, s) \ {g.fallback[s]} :
        g.transitions[t].guarded => t \in holds}

\* nextStep: the decision taken after step s settled.  `met` is the outcome
\* of its postcondition, read only when it declares one.
NextStep(g, s, met, holds) ==
    LET fallback == g.fallback[s]
        matched  == Matched(g, s, holds)
    IN  CASE s \notin g.steps -> Stuck("unknown_step")
          [] /\ s \in g.steps
             /\ HasFallback(g, s) /\ fallback \notin DOMAIN g.transitions ->
                Stuck("fallback_transition_missing")
          [] OTHER ->
                IF s \in g.post /\ ~met
                THEN IF HasFallback(g, s) THEN Advance(g, fallback)
                     ELSE Stuck("postcondition_unmet_no_fallback")
                ELSE IF Cardinality(matched) = 1
                THEN Advance(g, CHOOSE t \in matched : TRUE)
                ELSE IF Cardinality(matched) > 1 THEN Stuck("ambiguous_guards")
                ELSE IF HasFallback(g, s) THEN Advance(g, fallback)
                ELSE IF Outgoing(g, s) = {} THEN Complete
                ELSE Stuck("no_transition_no_fallback")

\* Every decision the engine may take after s, whatever its predicates say.
Decisions(g, s) ==
    {NextStep(g, s, met, holds) : met \in BOOLEAN, holds \in SUBSET Outgoing(g, s)}

-----------------------------------------------------------------------------
(* validate.ts                                                             *)

BugTargetsUnchecked(g) ==
    \A t \in DOMAIN g.transitions : g.transitions[t].source \in g.steps

EndpointsResolve(g) ==
    \A t \in DOMAIN g.transitions :
        g.transitions[t].source \in g.steps /\ g.transitions[t].target \in g.steps

FallbacksResolve(g) ==
    \A s \in g.steps : HasFallback(g, s) =>
        /\ g.fallback[s] \in DOMAIN g.transitions
        /\ g.transitions[g.fallback[s]].source = s

\* A timer needs a duration that parses and its on-expiry edge.
TimersResolve(g) ==
    \A s \in g.steps : g.kind[s] = "timer" =>
        g.deadline[s] = "valid" /\ HasFallback(g, s)

\* A human deadline is only tested for presence (`deadline != null`).
HumanDeadlinesHaveFallback(g) ==
    \A s \in g.steps : g.kind[s] = "human" =>
        /\ g.deadline[s] # "none" => HasFallback(g, s)
        /\ g.quorum[s] = "all" => g.deadline[s] # "none" /\ HasFallback(g, s)

\* The steps that `edges` reach from the steps in `from`: breadth-first over
\* at most n rounds, as a recursive function.
ReachFrom(from, edges, n) ==
    LET round[i \in 0..n] ==
            IF i = 0 THEN from
            ELSE LET before == round[i-1]
                 IN  before \cup {e[2] : e \in {x \in edges : x[1] \in before}}
    IN  round[n]

Edges(g, ts) == {<<g.transitions[t].source, g.transitions[t].target>> : t \in ts}

\* computeReachable
ComputeReachable(g) ==
    ReachFrom({g.entry}, Edges(g, DOMAIN g.transitions), Cardinality(g.steps))

BugSelfLoopsOnly(g) ==
    \E t \in DOMAIN g.transitions : /\ ~g.transitions[t].guarded
                                   /\ g.transitions[t].source = g.transitions[t].target

\* adjacency: the unguarded edges whose ends both exist.
UnguardedEdges(g) ==
    Edges(g, {t \in DOMAIN g.transitions : ~g.transitions[t].guarded})
        \cap (g.steps \X g.steps)

\* findUnguardedCycle: an unguarded edge that closes a cycle of unguarded
\* edges.  (The code finds it depth-first; UnguardedCycleSearch is that
\* search, step by step.)
HasUnguardedCycle(g) ==
    \E e \in UnguardedEdges(g) :
        e[1] \in ReachFrom({e[2]}, UnguardedEdges(g), Cardinality(g.steps))

\* validate: `ok` of its result.
Validate(g) ==
    /\ g.entry \in g.steps
    /\ EndpointsResolve(g)
    /\ FallbacksResolve(g)
    /\ TimersResolve(g)
    /\ HumanDeadlinesHaveFallback(g)
    /\ g.steps \subseteq ComputeReachable(g)
    /\ ~HasUnguardedCycle(g)
=============================================================================
