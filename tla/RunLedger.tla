----------------------------- MODULE RunLedger ------------------------------
(***************************************************************************)
(* What the Conductor promises of a run, without its calls, leases and      *)
(* awaits: a run is one walk through its graph.  It starts at the entry     *)
(* step; each recorded step is the one the run was at and is followed by    *)
(* one of its successors; it may park at a step and wake again there; it    *)
(* ends once, and nothing is recorded afterwards (FR-004, FR-018 of         *)
(* specs/005-omadia-conductor).                                            *)
(***************************************************************************)
EXTENDS Sequences

CONSTANTS Steps, Entry, NoStep, Successors     \* Successors: step -> set of steps

VARIABLES
    phase,      \* "none" | "running" | "waiting" | "ended"
    at,         \* the step the run is at
    trail       \* the steps recorded so far

vars == <<phase, at, trail>>

Init == phase = "none" /\ at = NoStep /\ trail = <<>>

Start ==
    /\ phase = "none"
    /\ phase' = "running" /\ at' = Entry
    /\ UNCHANGED trail

Live == phase \in {"running", "waiting"}

\* The step is recorded, and the run goes on at one of its successors.
Advance ==
    /\ Live
    /\ at' \in Successors[at]
    /\ phase' = "running"
    /\ trail' = Append(trail, at)

Park ==
    /\ phase = "running"
    /\ phase' = "waiting"
    /\ UNCHANGED <<at, trail>>

\* The last step is recorded: completed, failed or cancelled.
End ==
    /\ Live
    /\ phase' = "ended" /\ at' = NoStep
    /\ trail' = Append(trail, at)

Next == Start \/ Advance \/ Park \/ End

Spec == Init /\ [][Next]_vars
=============================================================================
