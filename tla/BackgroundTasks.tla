--------------------------- MODULE BackgroundTasks ---------------------------
(***************************************************************************)
(* Long-running tasks of harness-orchestrator/src/tasks: the task store    *)
(* with its leases (as the durable store has it, several replicas sharing  *)
(* one table), the detached runner and the resume driver that claim a task *)
(* and drive its executor (claimAndRun), the human gate, and the reaper.   *)
(*                                                                         *)
(* A task's executor asks a sub-agent, and may first park at a gate: the   *)
(* answer to gate g is what the next execution sees as its input, 0 being  *)
(* the input the task was started with.  An action is the code between two *)
(* awaits with the one statement it waits for.  A process has one claim at *)
(* a time, so its name stands for the lease it drew.  The progress labels, *)
(* the events and the owner of a task are left out.                        *)
(*                                                                         *)
(* A definition whose name starts with Bug is a seeded defect: a run is    *)
(* known to fail with it in the place of the definition that follows it.   *)
(***************************************************************************)
EXTENDS Naturals

CONSTANTS
    Runner,     \* detached runners, one per _start in progress
    Driver,     \* resume sweeps, one per replica
    NoProc,     \* claimed_by is null
    MaxTasks, MaxGates,
    MaxFaults,  \* bound on the processes that die
    Events      \* \subseteq {"slow", "busy", "late"}

ASSUME ProcAssumption == NoProc \notin Runner \cup Driver /\ Runner \cap Driver = {}
ASSUME BoundsAssumption == MaxTasks \in Nat /\ MaxGates \in Nat /\ MaxFaults \in Nat

VARIABLES
    tasks,      \* rows, by order of creation; drives: claims on the current input
    exec,       \* what each process does
    faults

vars == <<tasks, exec, faults>>

Task     == 1..MaxTasks
Proc     == Runner \cup Driver
Terminal == {"completed", "failed"}

NoTask == [status |-> "none", lease |-> NoProc, silent |-> FALSE, input |-> 0,
           gate |-> 0, drives |-> 0]
Idle   == [pc |-> "idle", task |-> 0, seen |-> 0, parked |-> FALSE,
           answered |-> FALSE, outcome |-> "none"]

Init ==
    /\ tasks = [t \in Task |-> NoTask]
    /\ exec = [p \in Proc |-> Idle]
    /\ faults = 0

At(p, pc)     == exec[p].pc = pc
Executing(p)  == exec[p].pc \in {"run", "asked", "finish"}
Row(p)        == tasks[exec[p].task]
SetRow(p, row) == tasks' = [tasks EXCEPT ![exec[p].task] = row]
Goto(p, e)    == exec' = [exec EXCEPT ![p] = e]

-----------------------------------------------------------------------------
(* The store's guards                                                      *)

BugClaimable(t) == tasks[t].status = "working"

Claimable(t) == tasks[t].status = "working" /\ tasks[t].lease = NoProc

BugFenced(p) == Row(p).lease = p

\* The row exists, is not terminal, and holds this lease.
Fenced(p) == Row(p).status \in {"working", "input_required"} /\ Row(p).lease = p

BugParked(row, g) == [row EXCEPT !.status = "input_required", !.gate = g]

Parked(row, g) == [row EXCEPT !.status = "input_required", !.lease = NoProc, !.gate = g]

BugAnswerable(t) == tasks[t].status \in {"input_required", "working"}

Answerable(t) == tasks[t].status = "input_required"

BugResumed(row, g) == [row EXCEPT !.status = "working", !.input = g, !.drives = 0]

Resumed(row, g) ==
    [row EXCEPT !.status = "working", !.input = g, !.silent = FALSE, !.drives = 0]

BugStale(t) == tasks[t].status = "working" /\ tasks[t].silent /\ tasks[t].lease = NoProc

\* No sign of life within the window.  A parked task has no window.
Stale(t) == tasks[t].status = "working" /\ tasks[t].silent

BugAbandoned(row) == [row EXCEPT !.lease = NoProc, !.silent = FALSE]

\* The lease stays on the row.
Abandoned(row) == [row EXCEPT !.status = "failed"]

-----------------------------------------------------------------------------
(* Starting, claiming, executing                                           *)

\* handleStart: create, then startRunner, which is not awaited.
Start(t, r) ==
    /\ At(r, "idle") /\ tasks[t].status = "none"
    /\ \A u \in 1..(t - 1) : tasks[u].status # "none"
    /\ tasks' = [tasks EXCEPT ![t].status = "working"]
    /\ Goto(r, [Idle EXCEPT !.pc = "claim", !.task = t])
    /\ UNCHANGED faults

\* claimNextPending: a runner's hint narrows it to its task, a driver gets the
\* oldest.
Pending(p) ==
    {t \in Task : Claimable(t) /\ (p \in Runner => t = exec[p].task)}

Claim(p) ==
    /\ At(p, IF p \in Runner THEN "claim" ELSE "idle")
    /\ IF Pending(p) = {}
       THEN Goto(p, Idle) /\ UNCHANGED tasks
       ELSE \E t \in Pending(p) :
            /\ \A u \in Pending(p) : t <= u
            /\ Goto(p, [Idle EXCEPT !.pc = "run", !.task = t, !.seen = tasks[t].input])
            /\ tasks' = [tasks EXCEPT ![t].lease = p, ![t].silent = FALSE,
                                      ![t].drives = IF @ = 2 THEN 2 ELSE @ + 1]
    /\ UNCHANGED faults

\* The executor throws, of itself or for a fenced write that found no row.
Throws(p) == Goto(p, [exec[p] EXCEPT !.pc = "finish", !.outcome = "failed"])

\* heartbeat, appendEvents
Touch(p) ==
    /\ At(p, "run")
    /\ \/ Fenced(p) /\ SetRow(p, [Row(p) EXCEPT !.silent = FALSE]) /\ UNCHANGED exec
       \/ ~Fenced(p) /\ Throws(p) /\ UNCHANGED tasks
    /\ UNCHANGED faults

\* requireInput: the lease is released, and the executor is still to return.
Park(p) ==
    /\ At(p, "run") /\ exec[p].seen < MaxGates
    /\ \/ /\ Fenced(p)
          /\ SetRow(p, Parked(Row(p), exec[p].seen + 1))
          /\ Goto(p, [exec[p] EXCEPT !.parked = TRUE])
       \/ ~Fenced(p) /\ Throws(p) /\ UNCHANGED tasks
    /\ UNCHANGED faults

\* agent.ask returns, or throws.
Ask(p) ==
    /\ At(p, "run")
    /\ Goto(p, [exec[p] EXCEPT !.pc = "asked", !.answered = TRUE]) \/ Throws(p)
    /\ UNCHANGED <<tasks, faults>>

\* setPhase('answered'), then the executor returns what it was answered.
Answered(p) ==
    /\ At(p, "asked")
    /\ \/ Fenced(p) /\ Goto(p, [exec[p] EXCEPT !.pc = "finish", !.outcome = "completed"])
       \/ ~Fenced(p) /\ Throws(p)
    /\ UNCHANGED <<tasks, faults>>

\* A parked task is left alone; else finishOrReportLoss.
Finish(p) ==
    /\ At(p, "finish")
    /\ IF ~exec[p].parked /\ Fenced(p)
       THEN SetRow(p, [Row(p) EXCEPT !.status = exec[p].outcome, !.lease = NoProc])
       ELSE UNCHANGED tasks
    /\ Goto(p, Idle)
    /\ UNCHANGED faults

\* The process dies, or a statement of the claim throws.
Die(p) ==
    /\ ~At(p, "idle") /\ faults < MaxFaults
    /\ faults' = faults + 1
    /\ Goto(p, Idle)
    /\ UNCHANGED tasks

-----------------------------------------------------------------------------
(* Humans, time and the reaper                                             *)

\* provideInput, by a turn that saw the task parked at gate g; a late turn saw
\* an earlier gate.
ProvideInput(t, g) ==
    /\ Answerable(t)
    /\ IF "late" \in Events THEN g \in 1..tasks[t].gate ELSE g = tasks[t].gate
    /\ tasks' = [tasks EXCEPT ![t] = Resumed(@, g)]
    /\ UNCHANGED <<exec, faults>>

LiveOwner(t) == \E p \in Proc : Executing(p) /\ exec[p].task = t /\ Fenced(p)

\* A window of silence passes: over a parked task or a dead owner in any case,
\* over an executor that lives when it is slow, over a task that waits to be
\* claimed when the drivers are busy.
Silence(t) ==
    /\ tasks[t].status \in {"working", "input_required"}
    /\ LiveOwner(t) => "slow" \in Events
    /\ Claimable(t) => "busy" \in Events
    /\ tasks' = [tasks EXCEPT ![t].silent = TRUE]
    /\ UNCHANGED <<exec, faults>>

\* reapOrphans, which fails the abandoned and deletes the terminal.
Reap(t) ==
    /\ \/ Stale(t) /\ tasks' = [tasks EXCEPT ![t] = Abandoned(@)]
       \/ tasks[t].status \in Terminal /\ tasks' = [tasks EXCEPT ![t] = [NoTask EXCEPT !.status = "gone"]]
    /\ UNCHANGED <<exec, faults>>

Continue(p) == Claim(p) \/ Park(p) \/ Ask(p) \/ Answered(p) \/ Finish(p)

Next ==
    \/ \E p \in Proc : Continue(p) \/ Touch(p) \/ Die(p)
    \/ \E t \in Task :
          \/ \E r \in Runner : Start(t, r)
          \/ \E g \in 1..MaxGates : ProvideInput(t, g)
          \/ Silence(t) \/ Reap(t)

Spec == Init /\ [][Next]_vars

\* Executors return, sweeps come round, time passes and the reaper ticks.
FairSpec ==
    /\ Spec
    /\ \A p \in Proc : WF_vars(Continue(p))
    /\ \A t \in Task : WF_vars(Silence(t)) /\ WF_vars(Reap(t))

-----------------------------------------------------------------------------
(* Properties                                                              *)

\* Rows and locals hold what the code puts there; a lease is on a row that is
\* working or that the reaper failed, and a parked row holds none.
TypeOK ==
    /\ \A t \in Task :
          LET row == tasks[t] IN
          /\ row.status \in Terminal \cup {"none", "working", "input_required", "gone"}
          /\ row.lease \in Proc \cup {NoProc}
          /\ row.lease # NoProc => row.status \in {"working", "failed"}
          /\ row.silent \in BOOLEAN
          /\ row.input \in 0..MaxGates /\ row.gate \in 0..MaxGates /\ row.drives \in 0..2
    /\ \A p \in Proc :
          /\ exec[p].task \in Task \cup {0} /\ exec[p].seen \in 0..MaxGates
          /\ Executing(p) => exec[p].task \in Task
    /\ faults \in 0..MaxFaults

\* Runners, drivers and zombies together: of the executors of one task that
\* have not parked, there is at most one.
ExecutedAlone ==
    \A p, q \in Proc :
        Executing(p) /\ Executing(q) /\ ~exec[p].parked /\ ~exec[q].parked
            /\ exec[p].task = exec[q].task => p = q

\* An executor that may have done half its work is never run again on the same
\* input, though its process died or fell silent.
NeverReDriven == \A t \in Task : tasks[t].drives <= 1

\* The execution that may end a task was started on the task's last answer,
\* which a second answer does not replace under it.
LastAnswerSeen ==
    \A p \in Proc : Executing(p) /\ Fenced(p)
        => exec[p].seen = Row(p).input /\ Row(p).drives = 1

\* What was recorded as a task's outcome is all that is ever read of it.
OutcomeIsFinal ==
    [][\A t \in Task : tasks[t].status \in Terminal
          => tasks'[t].status \in {tasks[t].status, "gone"}]_vars

\* A task that was started, or that a human answered however late, is driven.
Driven ==
    \A t \in Task : (tasks[t].status = "working" /\ tasks[t].drives = 0) ~> tasks[t].drives = 1

\* No task is working for ever: it ends, or waits for a human.
EndsOrParks ==
    \A t \in Task : tasks[t].status = "working" ~> tasks[t].status # "working"

\* The answer of a sub-agent is recorded or reported as what it is, a result,
\* also when the lease was lost meanwhile.
AnswerSurvives ==
    \A p \in Proc : At(p, "finish") /\ exec[p].answered /\ ~exec[p].parked
        => exec[p].outcome = "completed"

\* An answer is given to the gate it was asked for.
AnswersItsGate ==
    \A t \in Task : Claimable(t) => tasks[t].input = tasks[t].gate
=============================================================================
