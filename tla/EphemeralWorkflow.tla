-------------------------- MODULE EphemeralWorkflow --------------------------
(***************************************************************************)
(* The life of the workflows an agent generates for one run: their         *)
(* creation under a quota and its undoing (ephemeralRunService.ts), their  *)
(* disposal by the terminal hook (index.ts) and by the reaper              *)
(* (ephemeralReaper.ts), and the working state a plugin saves for its run  *)
(* (ephemeralRunStateStore.ts, ephemeralStore.ts).                         *)
(*                                                                         *)
(* A workflow has at most one run, which is seen here at its step          *)
(* boundaries, as a facilitation that goes round and round until it is     *)
(* cancelled; ConductorRuns has what happens between them.  A process is a *)
(* createEphemeralRun call or the disposal of one workflow, on any         *)
(* replica.  An action is the code between two awaits with the statement   *)
(* it waits for; markReaped and saveRunState, which conflict under their   *)
(* locks, take two.  One agent; the hourly rate is the number of workflows.*)
(*                                                                         *)
(* A definition whose name starts with Bug is a seeded defect: a run is    *)
(* known to fail with it in the place of the definition that follows it.   *)
(***************************************************************************)
EXTENDS Naturals, FiniteSets

CONSTANTS
    Workflow,
    Call, Disposer,
    MaxActive,      \* maxActivePerAgent
    MaxFaults,      \* bound on the processes that die and the statements that fail
    Events          \* \subseteq {"tight", "open", "orphan"}

ASSUME BoundsAssumption == MaxActive \in Nat \ {0} /\ MaxFaults \in Nat
ASSUME ProcAssumption ==
    /\ IsFiniteSet(Workflow) /\ IsFiniteSet(Call)
    /\ Call \cap Disposer = {}

VARIABLES
    wf,         \* [phase, expired, state, saving] of each workflow
    run,        \* [status, cancel] of its run
    proc,       \* what each process does
    faults

vars == <<wf, run, proc, faults>>

Proc == Call \cup Disposer
None == "none"

NoWorkflow == [phase |-> "none", expired |-> FALSE, state |-> FALSE, saving |-> FALSE]
NoRun      == [status |-> "none", cancel |-> FALSE]
Idle       == [pc |-> "idle", w |-> None, snapshot |-> FALSE]

Init ==
    /\ wf = [w \in Workflow |-> NoWorkflow]
    /\ run = [w \in Workflow |-> NoRun]
    /\ proc = [p \in Proc |-> Idle]
    /\ faults = 0

At(p, pc)   == proc[p].pc = pc
Goto(p, pc) == proc' = [proc EXCEPT ![p].pc = pc]
Stop(p)     == proc' = [proc EXCEPT ![p] = Idle]
Active(w)   == run[w].status \in {"running", "waiting"}
Live(w)     == wf[w].phase = "live"
Starting(w) == \E c \in Call : proc[c].pc \in {"read", "insert"} /\ proc[c].w = w

Fault == faults < MaxFaults /\ faults' = faults + 1

-----------------------------------------------------------------------------
(* createEphemeralRun                                                      *)

ActiveRuns == Cardinality({w \in Workflow : Active(w)})

BugQuotaLeft == ActiveRuns <= MaxActive

QuotaLeft == ActiveRuns < MaxActive

Count(c) ==
    /\ At(c, "idle") /\ QuotaLeft
    /\ \E w \in Workflow : wf[w].phase = "none"
    /\ Goto(c, "publish")
    /\ UNCHANGED <<wf, run, faults>>

\* createOrPublish of a new slug
Publish(c, w) ==
    /\ At(c, "publish") /\ wf[w].phase = "none"
    /\ wf' = [wf EXCEPT ![w].phase = "live"]
    /\ proc' = [proc EXCEPT ![c].pc = "read", ![c].w = w]
    /\ UNCHANGED <<run, faults>>

\* startRun: getBySlug and getVersion; a disabled or a deleted workflow throws.
Read(c) ==
    /\ At(c, "read")
    /\ Goto(c, IF Live(proc[c].w) THEN "insert" ELSE "cancel")
    /\ UNCHANGED <<wf, run, faults>>

Inserted(w) == run' = [run EXCEPT ![w].status = "running"]

\* runStore.create; the version it references may be gone by now.
Insert(c) ==
    /\ At(c, "insert")
    /\ LET w == proc[c].w IN
         IF wf[w].phase = "gone"
         THEN Goto(c, "cancel") /\ UNCHANGED run
         ELSE Inserted(w) /\ Stop(c)
    /\ UNCHANGED <<wf, faults>>

\* A statement of startRun fails, or fails to answer once it is committed: the
\* catch undoes the start.
StartFails(c) ==
    /\ Fault
    /\ \/ At(c, "read") /\ UNCHANGED run
       \/ At(c, "insert") /\ wf[proc[c].w].phase # "gone" /\ Inserted(proc[c].w)
    /\ Goto(c, "cancel")
    /\ UNCHANGED wf

-----------------------------------------------------------------------------
(* Disposal: by the catch of a call, by the hook, or by the reaper         *)

BugReapable(w) == Live(w) /\ (wf[w].expired \/ ~Active(w))

BugReapableRun(w) == Live(w) /\ run[w].status # "none" /\ (wf[w].expired \/ ~Active(w))

\* listReapable: expired, or with a run and none that is active.
Reapable(w) == Live(w) /\ (wf[w].expired \/ run[w].status = "ended")

Reap(d, w) ==
    /\ At(d, "idle") /\ Reapable(w)
    /\ proc' = [proc EXCEPT ![d].pc = IF wf[w].expired THEN "cancel" ELSE "purge", ![d].w = w]
    /\ UNCHANGED <<wf, run, faults>>

\* disposeEphemeralWorkflow, by notifyRunEnded; it may never come to it.
Hook(d, w) ==
    /\ At(d, "idle") /\ Live(w) /\ run[w].status = "ended"
    /\ proc' = [proc EXCEPT ![d].pc = "purge", ![d].w = w]
    /\ UNCHANGED <<wf, run, faults>>

BugCancelled(w) == IF run[w].status = "running" THEN [run[w] EXCEPT !.cancel = TRUE] ELSE run[w]

Cancelled(w) == IF Active(w) THEN [run[w] EXCEPT !.cancel = TRUE] ELSE run[w]

\* requestCancelActiveRuns: the request, and no more than that.
Cancel(p) ==
    /\ At(p, "cancel")
    /\ run' = [run EXCEPT ![proc[p].w] = Cancelled(proc[p].w)]
    /\ Goto(p, "purge")
    /\ UNCHANGED <<wf, faults>>

\* The catch swallows a request that failed, which orphans a run that exists.
CancelFails(c) ==
    /\ At(c, "cancel") /\ Fault
    /\ Active(proc[c].w) => "orphan" \in Events
    /\ Goto(c, "purge")
    /\ UNCHANGED <<wf, run>>

\* markReaped takes its snapshot of the state rows ...
Purge(p) ==
    /\ At(p, "purge")
    /\ proc' = [proc EXCEPT ![p].pc = "mark", ![p].snapshot = wf[proc[p].w].state]
    /\ UNCHANGED <<wf, run, faults>>

\* ... and commits when no saveRunState holds the workflow row.
Mark(p) ==
    /\ At(p, "mark") /\ ~wf[proc[p].w].saving
    /\ LET w == proc[p].w
       IN  wf' = [wf EXCEPT ![w].phase = IF @ = "live" THEN "reaped" ELSE @,
                            ![w].state = @ /\ ~proc[p].snapshot]
    /\ Goto(p, "delete")
    /\ UNCHANGED <<run, faults>>

BugUnreferenced(w) == wf[w].phase = "reaped"

Unreferenced(w) == run[w].status = "none"

\* hardDeleteUnreferenced: no run references a version of the workflow.
Delete(p) ==
    /\ At(p, "delete")
    /\ wf' = IF Unreferenced(proc[p].w)
             THEN [wf EXCEPT ![proc[p].w] = [NoWorkflow EXCEPT !.phase = "gone"]]
             ELSE wf
    /\ Stop(p)
    /\ UNCHANGED <<run, faults>>

BugSwept(w) == wf[w].state

Swept(w) == wf[w].state /\ wf[w].phase # "reaped"

\* purgeReapedRunState
Sweep ==
    /\ \E w \in Workflow : wf[w].state # Swept(w)
    /\ wf' = [w \in Workflow |-> [wf[w] EXCEPT !.state = Swept(w)]]
    /\ UNCHANGED <<run, proc, faults>>

\* The process dies, or the statement it is at fails.
Die(p) ==
    /\ ~At(p, "idle") /\ Fault
    /\ Stop(p)
    /\ UNCHANGED <<wf, run>>

-----------------------------------------------------------------------------
(* The run, its plugin and the clock                                       *)

SetRun(w, status) == run' = [run EXCEPT ![w].status = status]

\* A step boundary: the run ends, parks, or goes on.  A requested cancel is looked
\* at before the step and again after the park, and ends it.
Boundary(w) ==
    /\ run[w].status = "running"
    /\ \/ SetRun(w, "ended")
       \/ ~run[w].cancel /\ SetRun(w, "waiting")
    /\ UNCHANGED <<wf, proc, faults>>

\* The await is answered or expires, and the run is driven on.
Wake(w) ==
    /\ "open" \notin Events /\ run[w].status = "waiting"
    /\ SetRun(w, IF run[w].cancel THEN "ended" ELSE "running")
    /\ UNCHANGED <<wf, proc, faults>>

\* cancelOwnRun
CancelOwn(w) ==
    /\ Active(w)
    /\ IF run[w].status = "waiting" THEN SetRun(w, "ended")
       ELSE run' = [run EXCEPT ![w].cancel = TRUE]
    /\ UNCHANGED <<wf, proc, faults>>

\* upsertOwned finds its row and share-locks the workflow ...
SaveRunState(w) ==
    /\ Live(w) /\ ~wf[w].expired /\ ~wf[w].saving
    /\ Active(w) /\ ~run[w].cancel
    /\ wf' = [wf EXCEPT ![w].saving = TRUE]
    /\ UNCHANGED <<run, proc, faults>>

\* ... and commits.
Saved(w) ==
    /\ wf[w].saving
    /\ wf' = [wf EXCEPT ![w].saving = FALSE, ![w].state = TRUE]
    /\ UNCHANGED <<run, proc, faults>>

\* The TTL outlasts the start of the run unless it is tight.
Expire(w) ==
    /\ Live(w) /\ ~wf[w].expired
    /\ Starting(w) => "tight" \in Events
    /\ wf' = [wf EXCEPT ![w].expired = TRUE]
    /\ UNCHANGED <<run, proc, faults>>

Continue(p) ==
    \/ p \in Call /\ (Read(p) \/ Insert(p) \/ \E w \in Workflow : Publish(p, w))
    \/ Cancel(p) \/ Purge(p) \/ Mark(p) \/ Delete(p)

Next ==
    \/ \E p \in Proc : Continue(p) \/ Die(p)
    \/ \E c \in Call : Count(c) \/ StartFails(c) \/ CancelFails(c)
    \/ \E w \in Workflow :
          \/ \E d \in Disposer : Reap(d, w) \/ Hook(d, w)
          \/ Boundary(w) \/ Wake(w) \/ CancelOwn(w)
          \/ SaveRunState(w) \/ Saved(w) \/ Expire(w)
    \/ Sweep

Spec == Init /\ [][Next]_vars

\* Processes go on, drivers and awaits too, statements commit, the TTL passes,
\* and the reaper ticks.
FairSpec ==
    /\ Spec /\ WF_vars(Sweep)
    /\ \A p \in Proc : WF_vars(Continue(p))
    /\ \A w \in Workflow :
          /\ WF_vars(Boundary(w)) /\ WF_vars(Wake(w)) /\ WF_vars(Saved(w)) /\ WF_vars(Expire(w))
          /\ WF_vars(\E d \in Disposer : Reap(d, w))

-----------------------------------------------------------------------------
(* Properties                                                              *)

\* Rows and locals hold what the code puts there; a workflow that was deleted
\* had no run.
TypeOK ==
    /\ \A w \in Workflow :
          /\ wf[w].phase \in {"none", "live", "reaped", "gone"}
          /\ wf[w].expired \in BOOLEAN /\ wf[w].state \in BOOLEAN /\ wf[w].saving \in BOOLEAN
          /\ run[w].status \in {"none", "running", "waiting", "ended"}
          /\ run[w].cancel \in BOOLEAN
          /\ wf[w].phase \in {"none", "gone"} => run[w] = NoRun
    /\ \A p \in Proc : proc[p].w \in Workflow \cup {None}
    /\ faults \in 0..MaxFaults

\* A workflow whose run is being started or is active is not taken away from
\* under it before its TTL, unless its cancel was requested.
LeftAlone ==
    \A w \in Workflow :
        (Starting(w) \/ (Active(w) /\ ~run[w].cancel)) => (Live(w) \/ wf[w].expired)

\* The quota is read before the run exists: creates that race exceed it, by no
\* more than their number less one.
QuotaWithinBurst == ActiveRuns <= MaxActive + Cardinality(Call) - 1

\* Every generated workflow is disposed of, whichever start, hook or disposal
\* was lost.
Disposed == \A w \in Workflow : Live(w) ~> ~Live(w)

\* State that a plugin saved while its workflow was being reaped does not stay.
StateIsSwept ==
    \A w \in Workflow : (wf[w].phase = "reaped" /\ wf[w].state) ~> ~wf[w].state

\* A run ends once its workflow has expired, though it would go on for ever.
ExpiredEnds == \A w \in Workflow : wf[w].expired ~> ~Active(w)

\* One agent never has more active runs than its quota.
QuotaHolds == ActiveRuns <= MaxActive
=============================================================================
