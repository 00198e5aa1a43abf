-------------------------- MODULE ConductorPreview --------------------------
(***************************************************************************)
(* previewRun of runExecutor.ts: the dry walk through a published graph     *)
(* that an operator reads before activating a workflow.  One behaviour per  *)
(* graph of Workflows that validate accepts and per outcome of its          *)
(* predicates; a step of the walk is one iteration of the loop.  It is also *)
(* the shortest account of what a run may do, since nothing is persisted    *)
(* and nobody interferes: what validate promises the engine is checked here.*)
(*                                                                         *)
(* No name is also one of UnguardedCycleSearch, so that ConductorGraphProofs *)
(* can speak of both.                                                       *)
(***************************************************************************)
EXTENDS ConductorEngine

CONSTANTS
    Workflows,  \* graphs the designer draws
    MaxSteps    \* MAX_STEPS

ASSUME WorkflowsAssumption == \A g \in Workflows : IsFiniteSet(g.steps)

ASSUME MaxStepsAssumption == MaxSteps \in Nat \ {0}

VARIABLES
    workflow,   \* version.graph
    current,    \* {currentStepId}, {} for null
    left,       \* guard
    status,     \* "completed" | "failed"
    last,       \* the engine's last decision
    bare,       \* history: the steps entered since a guard last chose the way
    looped      \* history: one of them was entered again

previewVars == <<workflow, current, left, status, last, bare, looped>>

PreviewInit ==
    /\ workflow \in Workflows /\ Validate(workflow)
    /\ current = {workflow.entry}
    /\ left = MaxSteps
    /\ status = "completed"
    /\ last = [kind |-> "none"]
    /\ bare = {workflow.entry}
    /\ looped = FALSE

\* The walk moves on over t; `guarded`: t's guard was evaluated, and held.
MoveOn(t, guarded) ==
    LET s == workflow.transitions[t].target IN
    /\ current' = {s}
    /\ bare' = IF guarded THEN {s} ELSE bare \cup {s}
    /\ looped' = (looped \/ (~guarded /\ s \in bare))
    /\ UNCHANGED status

Halt(outcome) ==
    /\ current' = {}
    /\ status' = outcome
    /\ UNCHANGED <<bare, looped>>

\* A timer is simulated as an instant: its on-expiry edge is followed.
Timer(s) ==
    /\ workflow.kind[s] = "timer"
    /\ IF HasFallback(workflow, s) /\ workflow.fallback[s] \in DOMAIN workflow.transitions
       THEN MoveOn(workflow.fallback[s], FALSE) ELSE Halt("failed")
    /\ UNCHANGED last

Evaluated(s, t) == workflow.transitions[t].guarded /\ t # workflow.fallback[s]

\* Any other step yields a result (an agent turn, a stub, an inline answer),
\* and the engine decides.
Execute(s) ==
    /\ workflow.kind[s] # "timer"
    /\ last' \in Decisions(workflow, s)
    /\ CASE last'.kind = "advance"  -> MoveOn(last'.via, Evaluated(s, last'.via))
         [] last'.kind = "complete" -> Halt("completed")
         [] last'.kind = "stuck"    -> Halt("failed")

\* One iteration; a step that the graph does not have fails the preview.
PreviewNext ==
    /\ current # {} /\ left > 0
    /\ left' = left - 1
    /\ IF current \subseteq workflow.steps
       THEN \E s \in current : Timer(s) \/ Execute(s)
       ELSE Halt("failed") /\ last' = Stuck("unknown_step")
    /\ UNCHANGED workflow

PreviewSpec == PreviewInit /\ [][PreviewNext]_previewVars

PreviewReturned == current = {} \/ left = 0

-----------------------------------------------------------------------------
(* Properties                                                              *)

\* validate earns the engine its assumptions: on a published graph the walk
\* never meets a step, a fallback or a timer edge that is missing.
PublishedIsComplete ==
    /\ last \notin {Stuck("unknown_step"), Stuck("fallback_transition_missing")}
    /\ current \subseteq workflow.steps
    /\ status = "failed" => last.kind = "stuck"

\* Nothing comes back to a step without a guard that was evaluated and held.
LoopsAreGuarded == ~looped

\* This is so on every published graph whose fallback edges carry no guard of
\* their own (the engine never evaluates the guard of a fallback edge).
PlainLoopsAreGuarded ==
    (\A s \in workflow.steps : HasFallback(workflow, s) =>
        ~workflow.transitions[workflow.fallback[s]].guarded) => ~looped

\* "completed" means that the walk reached an end of the workflow.
CompletedIsComplete == PreviewReturned /\ status = "completed" => last = Complete
=============================================================================
