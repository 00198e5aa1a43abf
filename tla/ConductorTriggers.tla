------------------------- MODULE ConductorTriggers --------------------------
(***************************************************************************)
(* What starts a run of one workflow slug, and what may happen to the      *)
(* workflow meanwhile: the operator routes that publish, enable, disable   *)
(* and delete it (routes.ts, workflowStore.ts), its cron schedule          *)
(* (scheduleStore.ts, scheduleWorker.ts), events (eventRouter.ts), and     *)
(* startRun up to the conductor_runs row.                                  *)
(*                                                                         *)
(* A member of Worker is the schedule worker of one replica.  A member of  *)
(* Call is a request, an event or a cron fire in flight.  An action is the *)
(* code between two awaits; the transaction of a publish is the statement  *)
(* that locks the workflow row, and the commit.  The database clock is the *)
(* number of the current minute.  A graph is reduced to its triggers: the  *)
(* one cron expression, which matches the minutes of Due, and the one      *)
(* event.  Ephemeral workflows have a module of their own.                 *)
(*                                                                         *)
(* A definition whose name starts with Bug is a seeded defect: a run is    *)
(* known to fail with it in the place of the definition that follows it.   *)
(***************************************************************************)
EXTENDS Naturals, Sequences, FiniteSets, FiniteSetsExt

CONSTANTS
    Worker,         \* replicas
    Call,           \* calls in flight
    Due,            \* minutes the cron expression matches
    MaxMinutes,     \* bound on the clock
    MaxRequests,    \* bound on the requests of operators and events
    MaxRuns,        \* bound on the runs
    Events          \* \subseteq {"emit", "manual", "status", "delete", "crash"}

ASSUME BoundsAssumption ==
    /\ MaxMinutes \in Nat \ {0} /\ MaxRequests \in Nat /\ MaxRuns \in Nat
    /\ Due \subseteq 1..MaxMinutes

VARIABLES
    minute,     \* the database clock
    wf,         \* the conductor_workflows row of the slug
    versions,   \* conductor_workflow_versions
    schedules,  \* conductor_schedules
    publishes,  \* publishes committed so far; also numbers the workflow rows
    requests,   \* requests made so far, counted up to MaxRequests
    lock,       \* the publishes that hold the lock of the workflow row
    runs,       \* conductor_runs
    tick,       \* the tick of each schedule worker
    call

vars == <<minute, wf, versions, schedules, publishes, lock, requests, runs, tick, call>>
store == <<wf, versions, schedules, publishes, lock>>

NoWorkflow == [id |-> 0, status |-> "disabled", reaped |-> FALSE, active |-> 0]

\* A version, and the schedule row inserted with it, are named by the workflow
\* row and the version number.
NoVersion == [wf |-> 0, n |-> 0]
Id(v)     == [wf |-> v.wf, n |-> v.n]
Active    == [wf |-> wf.id, n |-> wf.active]

Idle == [pc |-> "idle", kind |-> "none", by |-> "none", version |-> NoVersion,
         graph |-> {}, schedule |-> NoVersion, now |-> 0, at |-> 0, seen |-> {}]
NoTick == [pc |-> "idle", now |-> 0, todo |-> {}]

At(c, pc)   == call[c].pc = pc
Goto(c, pc) == call' = [call EXCEPT ![c].pc = pc]
Stop(c)     == call' = [call EXCEPT ![c] = Idle]
Begin(c, r) == At(c, "idle") /\ call' = [call EXCEPT ![c] = r]
Request     == requests < MaxRequests /\ requests' = requests + 1

Init ==
    /\ minute = 1
    /\ wf = NoWorkflow /\ versions = {} /\ schedules = {}
    /\ publishes = 0 /\ lock = {} /\ requests = 0
    /\ runs = <<>>
    /\ tick = [w \in Worker |-> NoTick]
    /\ call = [c \in Call |-> Idle]

-----------------------------------------------------------------------------
(* Publish (POST /), in one transaction                                    *)

RequestPublish(c) ==
    /\ Request
    /\ \E graph \in SUBSET {"cron", "event"} :
          Begin(c, [Idle EXCEPT !.pc = "upsert", !.graph = graph])
    /\ UNCHANGED <<minute, store, runs, tick>>

BugUnlocked == TRUE

Unlocked == lock = {}

BugLastVersion(id) == Max({0} \cup {v.n + 1 : v \in {u \in versions : u.wf = id}})

LastVersion(id) == Max({0} \cup {v.n : v \in {u \in versions : u.wf = id}})

\* The upsert locks the row of the slug, a deleted workflow refuses it, and the
\* next version number is read under the lock.
Upsert(c) ==
    /\ At(c, "upsert") /\ Unlocked
    /\ IF wf.reaped
       THEN Stop(c) /\ UNCHANGED store
       ELSE LET id == IF wf.id = 0 THEN publishes + 1 ELSE wf.id
            IN  /\ lock' = lock \cup {c}
                /\ call' = [call EXCEPT ![c].pc = "commit",
                               ![c].version = [wf |-> id, n |-> LastVersion(id) + 1]]
                /\ UNCHANGED <<wf, versions, schedules, publishes>>
    /\ UNCHANGED <<requests, minute, runs, tick>>

BugReconciled(v, graph) ==
    IF "cron" \in graph
    THEN {[wf |-> v.wf, n |-> v.n, enabled |-> TRUE, last |-> 0]}
    ELSE schedules

\* reconcileOnClient: every row of the workflow is dropped, and one is inserted
\* per cron trigger of the graph, never run so far.
Reconciled(v, graph) ==
    {s \in schedules : s.wf # v.wf} \cup
    IF "cron" \in graph
    THEN {[wf |-> v.wf, n |-> v.n, enabled |-> TRUE, last |-> 0]} ELSE {}

\* The status is set by the publish that creates the row only.
Commit(c) ==
    /\ At(c, "commit")
    /\ LET v == call[c].version
           graph == call[c].graph
       IN  /\ \E status \in {"enabled", "disabled"} :
                 wf' = IF wf.id = 0
                       THEN [id |-> v.wf, status |-> status, reaped |-> FALSE, active |-> v.n]
                       ELSE [wf EXCEPT !.active = v.n]
           /\ versions' = versions \cup {[wf |-> v.wf, n |-> v.n, triggers |-> graph]}
           /\ schedules' = Reconciled(v, graph)
    /\ publishes' = publishes + 1
    /\ lock' = lock \ {c}
    /\ Stop(c)
    /\ UNCHANGED <<requests, minute, runs, tick>>

-----------------------------------------------------------------------------
(* Status and deletion                                                     *)

BugAdmitsStatus == wf.id # 0

AdmitsStatus == wf.id # 0 /\ ~wf.reaped

\* setStatus
SetStatus(status) ==
    /\ "status" \in Events /\ Request
    /\ Unlocked /\ AdmitsStatus /\ wf.status # status
    /\ wf' = [wf EXCEPT !.status = status]
    /\ UNCHANGED <<minute, versions, schedules, publishes, lock, runs, tick, call>>

RequestDelete(c) ==
    /\ "delete" \in Events /\ Request
    /\ Begin(c, [Idle EXCEPT !.pc = "find"])
    /\ UNCHANGED <<minute, store, runs, tick>>

Find(c) ==
    /\ At(c, "find")
    /\ IF wf.id = 0 \/ wf.reaped
       THEN Stop(c)
       ELSE call' = [call EXCEPT ![c].pc = "hasActive", ![c].version = Active]
    /\ UNCHANGED <<requests, minute, store, runs, tick>>

RunsOf(id) == {i \in DOMAIN runs : runs[i].version.wf = id}

HasActiveRuns(c) ==
    /\ At(c, "hasActive")
    /\ IF \E i \in RunsOf(call[c].version.wf) : runs[i].active
       THEN Stop(c) ELSE Goto(c, "hardDelete")
    /\ UNCHANGED <<requests, minute, store, runs, tick>>

BugUnreferenced(id) == \A i \in RunsOf(id) : ~runs[i].active

Unreferenced(id) == RunsOf(id) = {}

\* hardDeleteUnreferenced: versions and schedules go with the row.  A run that
\* appears before the commit raises a foreign key error, and the route goes on
\* with the logical removal as it does when runs were there from the start.
HardDelete(c) ==
    /\ At(c, "hardDelete") /\ Unlocked
    /\ LET id == call[c].version.wf
       IN  IF wf.id = id /\ Unreferenced(id)
           THEN /\ wf' = NoWorkflow
                /\ versions' = {v \in versions : v.wf # id}
                /\ schedules' = {s \in schedules : s.wf # id}
                /\ Stop(c)
           ELSE Goto(c, "snapshot") /\ UNCHANGED <<wf, versions, schedules>>
    /\ UNCHANGED <<requests, minute, publishes, lock, runs, tick>>

\* removeLogical is one statement: it sees the schedule rows of its start ...
Snapshot(c) ==
    /\ At(c, "snapshot")
    /\ call' = [call EXCEPT ![c].pc = "remove",
                   ![c].seen = {Id(s) : s \in {t \in schedules : t.wf = call[c].version.wf}}]
    /\ UNCHANGED <<requests, minute, store, runs, tick>>

\* ... and waits for the lock of the workflow row.
Remove(c) ==
    /\ At(c, "remove") /\ Unlocked
    /\ IF wf.id = call[c].version.wf /\ ~wf.reaped
       THEN /\ wf' = [wf EXCEPT !.status = "disabled", !.reaped = TRUE]
            /\ schedules' = {IF Id(s) \in call[c].seen THEN [s EXCEPT !.enabled = FALSE] ELSE s
                               : s \in schedules}
       ELSE UNCHANGED <<wf, schedules>>
    /\ Stop(c)
    /\ UNCHANGED <<requests, minute, versions, publishes, lock, runs, tick>>

-----------------------------------------------------------------------------
(* The schedule worker                                                     *)

\* The minute the cron expressions are matched with is read before the list.
StartTick(w) ==
    /\ tick[w].pc = "idle"
    /\ tick' = [tick EXCEPT ![w] = [NoTick EXCEPT !.pc = "list", !.now = minute]]
    /\ UNCHANGED <<requests, minute, store, runs, call>>

\* listEnabled: enabled schedules; those of a disabled workflow are passed over.
ListEnabled(w) ==
    /\ tick[w].pc = "list"
    /\ LET todo == {Id(s) : s \in {t \in schedules : t.enabled /\ wf.status = "enabled"}}
       IN  tick' = [tick EXCEPT ![w] = IF todo = {} THEN NoTick
                                       ELSE [@ EXCEPT !.pc = "claim", !.todo = todo]]
    /\ UNCHANGED <<requests, minute, store, runs, call>>

InFlight(w, s) == \E c \in Call : call[c].by = w /\ call[c].schedule = s

BugClaimable(s) == {t \in schedules : Id(t) = s /\ t.last <= minute}

\* claimRun: the row, unless this minute was claimed before.
Claimable(s) == {t \in schedules : Id(t) = s /\ t.last < minute}

Done(w, s) ==
    tick' = [tick EXCEPT ![w] = IF tick[w].todo = {s} THEN NoTick
                                ELSE [tick[w] EXCEPT !.todo = tick[w].todo \ {s}]]

Skip(w, s) ==
    /\ \/ InFlight(w, s)
       \/ tick[w].now \notin Due
       \/ Claimable(s) = {}
    /\ Done(w, s)
    /\ UNCHANGED <<requests, minute, store, runs, call>>

\* The claim, and the fire it starts without awaiting it.
Claim(w, s, c) ==
    /\ ~InFlight(w, s) /\ tick[w].now \in Due
    /\ \E t \in Claimable(s) :
          schedules' = (schedules \ {t}) \cup {[t EXCEPT !.last = minute]}
    /\ Begin(c, [Idle EXCEPT !.pc = "getWorkflow", !.kind = "cron", !.by = w,
                             !.schedule = s, !.now = tick[w].now, !.at = minute])
    /\ Done(w, s)
    /\ UNCHANGED <<requests, minute, wf, versions, publishes, lock, runs>>

-----------------------------------------------------------------------------
(* Events, manual runs, and startRun                                       *)

RequestRun(c) ==
    /\ "manual" \in Events /\ Request
    /\ Begin(c, [Idle EXCEPT !.pc = "getWorkflow", !.kind = "manual"])
    /\ UNCHANGED <<minute, store, runs, tick>>

RequestEmit(c) ==
    /\ "emit" \in Events /\ Request
    /\ Begin(c, [Idle EXCEPT !.pc = "list", !.kind = "event"])
    /\ UNCHANGED <<minute, store, runs, tick>>

\* emit: the workflows are listed, and the version of each is read.
List(c) ==
    /\ At(c, "list")
    /\ IF wf.id # 0 /\ ~wf.reaped /\ wf.status = "enabled"
       THEN call' = [call EXCEPT ![c].pc = "match", ![c].version = Active]
       ELSE Stop(c)
    /\ UNCHANGED <<requests, minute, store, runs, tick>>

Match(c) ==
    /\ At(c, "match")
    /\ IF \E v \in versions : Id(v) = call[c].version /\ "event" \in v.triggers
       THEN Goto(c, "getWorkflow") ELSE Stop(c)
    /\ UNCHANGED <<requests, minute, store, runs, tick>>

\* startRun is given the slug, and reads the workflow again.
GetWorkflow(c) ==
    /\ At(c, "getWorkflow")
    /\ IF wf.id # 0 /\ wf.status = "enabled"
       THEN call' = [call EXCEPT ![c].pc = "create", ![c].version = Active]
       ELSE Stop(c)
    /\ UNCHANGED <<requests, minute, store, runs, tick>>

\* getVersion and runStore.create; a version deleted meanwhile fails either.
CreateRun(c) ==
    /\ At(c, "create") /\ Len(runs) < MaxRuns
    /\ runs' = IF \E v \in versions : Id(v) = call[c].version
               THEN Append(runs, [version |-> call[c].version, kind |-> call[c].kind,
                                  schedule |-> call[c].schedule, now |-> call[c].now,
                                  at |-> call[c].at, active |-> TRUE])
               ELSE runs
    /\ Stop(c)
    /\ UNCHANGED <<requests, minute, store, tick>>

EndRun(i) ==
    /\ runs[i].active
    /\ runs' = [runs EXCEPT ![i].active = FALSE]
    /\ UNCHANGED <<requests, minute, store, tick, call>>

-----------------------------------------------------------------------------

\* A call dies: a transaction is rolled back, a fire is lost.
Die(c) ==
    /\ "crash" \in Events /\ ~At(c, "idle")
    /\ lock' = lock \ {c}
    /\ Stop(c)
    /\ UNCHANGED <<requests, minute, wf, versions, schedules, publishes, runs, tick>>

NextMinute ==
    /\ minute < MaxMinutes
    /\ minute' = minute + 1
    /\ UNCHANGED <<requests, store, runs, tick, call>>

Next ==
    \/ \E c \in Call :
          \/ RequestPublish(c) \/ Upsert(c) \/ Commit(c)
          \/ RequestDelete(c) \/ Find(c) \/ HasActiveRuns(c) \/ HardDelete(c)
          \/ Snapshot(c) \/ Remove(c)
          \/ RequestRun(c) \/ RequestEmit(c) \/ List(c) \/ Match(c)
          \/ GetWorkflow(c) \/ CreateRun(c) \/ Die(c)
    \/ \E w \in Worker :
          \/ StartTick(w) \/ ListEnabled(w)
          \/ \E s \in tick[w].todo : Skip(w, s) \/ \E c \in Call : Claim(w, s, c)
    \/ \E status \in {"enabled", "disabled"} : SetStatus(status)
    \/ \E i \in DOMAIN runs : EndRun(i)
    \/ NextMinute

Spec == Init /\ [][Next]_vars

-----------------------------------------------------------------------------
(* Properties                                                              *)

VersionIds == [wf : 0..MaxRequests, n : 0..MaxRequests]

\* Every row and every local has the type the code gives it.
TypeOK ==
    /\ minute \in 1..MaxMinutes
    /\ wf \in [id : 0..MaxRequests, status : {"enabled", "disabled"},
               reaped : BOOLEAN, active : 0..MaxRequests]
    /\ versions \subseteq [wf : 1..MaxRequests, n : 1..MaxRequests,
                           triggers : SUBSET {"cron", "event"}]
    /\ schedules \subseteq [wf : 1..MaxRequests, n : 1..MaxRequests,
                            enabled : BOOLEAN, last : 0..MaxMinutes]
    /\ publishes \in 0..MaxRequests /\ requests \in 0..MaxRequests /\ lock \subseteq Call
    /\ Len(runs) <= MaxRuns
    /\ \A i \in DOMAIN runs :
          runs[i] \in [version : VersionIds, kind : {"cron", "event", "manual"},
                       schedule : VersionIds, now : 0..MaxMinutes,
                       at : 0..MaxMinutes, active : BOOLEAN]
    /\ \A w \in Worker :
          tick[w] \in [pc : {"idle", "list", "claim"}, now : 0..MaxMinutes,
                       todo : SUBSET VersionIds]
    /\ \A c \in Call :
          /\ call[c].version \in VersionIds /\ call[c].schedule \in VersionIds
          /\ call[c].seen \subseteq VersionIds
          /\ call[c].graph \subseteq {"cron", "event"}

\* A schedule row wins a minute once, whichever replicas tick in it and however
\* often they restart: no two runs come from the same row and minute.
MinuteIsWonOnce ==
    \A i, j \in DOMAIN runs :
        /\ runs[i].kind = "cron" /\ runs[j].kind = "cron"
        /\ runs[i].schedule = runs[j].schedule
        /\ runs[i].at = runs[j].at
        => i = j

\* While a workflow is not removed its schedule is that of its active version:
\* a cron trigger that was published away leaves no row behind, one that was
\* published is there, and a deleted workflow leaves none.
SchedulesFollowTheGraph ==
    ~wf.reaped =>
        {Id(s) : s \in {t \in schedules : t.enabled}} =
        {Id(v) : v \in {u \in versions : Id(u) = Active /\ "cron" \in u.triggers}}

\* Concurrent publishes number the versions without a gap or a repetition, and
\* the workflow points at the last one.
VersionsAreALine ==
    /\ \A v, u \in versions : Id(v) = Id(u) => v = u
    /\ {v.n : v \in versions} = 1..wf.active

\* A run keeps the version it runs: deleting a workflow never takes its history
\* away, even when the run is started while it is deleted.
HistoryIsKept ==
    \A i \in DOMAIN runs : \E v \in versions : Id(v) = runs[i].version

\* A removed workflow is final: no publish, status change or second delete that
\* was on its way brings it back or gives it a version.
RemovedIsFinal == [][wf.reaped => wf' = wf]_vars

\* However old the list of a tick is, an occurrence is won only by the schedule
\* of the version that is active at that moment.
OnlyTheCurrentScheduleFires ==
    [][\A c \in Call : call[c].kind # "cron" /\ call'[c].kind = "cron"
                         => call'[c].schedule = Active]_vars

\* A removed workflow has no enabled schedule.
RemovedIsUnscheduled == wf.reaped => \A s \in schedules : ~s.enabled

\* The cron of a workflow starts one run in each minute it matches.
OccurrenceFiresOnce ==
    \A i, j \in DOMAIN runs :
        /\ runs[i].kind = "cron" /\ runs[j].kind = "cron"
        /\ runs[i].now = runs[j].now
        => i = j

\* A run started by the cron trigger runs a version that has one.
CronRunsACronVersion ==
    \A i \in DOMAIN runs : runs[i].kind = "cron" =>
        \E v \in versions : Id(v) = runs[i].version /\ "cron" \in v.triggers

\* A removed workflow has no run in flight.
RemovedIsQuiet == wf.reaped => \A i \in RunsOf(wf.id) : ~runs[i].active
=============================================================================
