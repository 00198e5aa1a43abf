-------------------------- MODULE MCConductorRuns ---------------------------
(***************************************************************************)
(* The graphs the runs of ConductorRuns are checked on.                    *)
(***************************************************************************)
EXTENDS ConductorRuns, TLC

CONSTANTS draft, approve, publish,              \* steps
          t1, t2, t3                            \* transitions

Edge(s, t, g) == [source |-> s, target |-> t, guarded |-> g]

AnyOf(steps)  == [s \in steps |-> "any"]
None(steps) == [s \in steps |-> "none"]

\* approve (human) -> publish (action), with the deadline on approve.
Gate ==
    [steps |-> {approve, publish}, entry |-> approve,
     kind |-> approve :> "human" @@ publish :> "action",
     post |-> {}, quorum |-> AnyOf({approve, publish}),
     deadline |-> approve :> "valid" @@ publish :> "none",
     fallback |-> approve :> t3 @@ publish :> NoTransition,
     transitions |-> t3 :> Edge(approve, publish, FALSE)]

\* Gate with a deadline that validate accepts and parseIsoDurationMs does not
\* read ("2 days").
Misread == [Gate EXCEPT !.deadline = approve :> "malformed" @@ publish :> "none"]

\* approve (human, with a deadline) -> publish (here a human's sign-off, without
\* deadline or fallback).
Escalate ==
    [Gate EXCEPT !.kind = [s \in {approve, publish} |-> "human"]]

\* approve (human, with a deadline) -> draft (here a human's consent, without
\* one) -> publish (action).
Consent ==
    [steps |-> {approve, draft, publish}, entry |-> approve,
     kind |-> approve :> "human" @@ draft :> "human" @@ publish :> "action",
     post |-> {}, quorum |-> AnyOf({approve, draft, publish}),
     deadline |-> approve :> "valid" @@ draft :> "none" @@ publish :> "none",
     fallback |-> approve :> t1 @@ draft :> NoTransition @@ publish :> NoTransition,
     transitions |-> t1 :> Edge(approve, draft, FALSE)
                  @@ t2 :> Edge(draft, publish, FALSE)]

\* draft (agent) may repeat itself while its guard holds, then publish (action).
Redraft ==
    [steps |-> {draft, publish}, entry |-> draft,
     kind |-> draft :> "agent" @@ publish :> "action",
     post |-> {draft}, quorum |-> AnyOf({draft, publish}),
     deadline |-> None({draft, publish}),
     fallback |-> draft :> t2 @@ publish :> NoTransition,
     transitions |-> t1 :> Edge(draft, draft, TRUE)
                  @@ t2 :> Edge(draft, publish, FALSE)]

\* draft (agent) -> approve (human, with a deadline that leads to publish);
\* publish (here a timer) leads back to draft, whose guard bounds the loop.
Revise ==
    [steps |-> {draft, approve, publish}, entry |-> draft,
     kind |-> draft :> "agent" @@ approve :> "human" @@ publish :> "timer",
     post |-> {}, quorum |-> AnyOf({draft, approve, publish}),
     deadline |-> draft :> "none" @@ approve :> "valid" @@ publish :> "valid",
     fallback |-> draft :> NoTransition @@ approve :> t3 @@ publish :> t2,
     transitions |-> t1 :> Edge(draft, approve, TRUE)
                  @@ t2 :> Edge(publish, draft, FALSE)
                  @@ t3 :> Edge(approve, publish, FALSE)]

Symmetry == Permutations(Proc)

=============================================================================
