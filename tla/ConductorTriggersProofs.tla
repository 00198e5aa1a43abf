----------------------- MODULE ConductorTriggersProofs -----------------------
(***************************************************************************)
(* What holds of a workflow, its versions, its schedule and its runs for   *)
(* any number of replicas and calls, any cron expression, any clock, and   *)
(* any Events.                                                             *)
(*                                                                         *)
(* The induction is on IInv.  Whoever is between the upsert and the commit *)
(* of a publish is alone there, and carries the number after the last; so  *)
(* the versions are a line, and a schedule row is never inserted under an  *)
(* identity that has already fired.  A row that is there has been claimed  *)
(* in every minute it fired for, hence the next claim is of a later one.   *)
(***************************************************************************)
EXTENDS ConductorTriggers, TLAPS

Ids   == [wf : Nat, n : Nat]
Calls == [pc : {"idle", "upsert", "commit", "find", "hasActive", "hardDelete", "snapshot",
                "remove", "list", "match", "getWorkflow", "create"},
          kind : {"none", "cron", "event", "manual"}, by : Worker \cup {"none"},
          version : Ids, graph : SUBSET {"cron", "event"}, schedule : Ids,
          now : Nat, at : Nat, seen : SUBSET Ids]
Ticks == [pc : {"idle", "list", "claim"}, now : Nat, todo : SUBSET Ids]
Runs  == [version : Ids, kind : {"none", "cron", "event", "manual"}, schedule : Ids,
          now : Nat, at : Nat, active : BOOLEAN]

VarsOK ==
    /\ minute \in Nat /\ publishes \in Nat
    /\ wf \in [id : Nat, status : {"enabled", "disabled"}, reaped : BOOLEAN, active : Nat]
    /\ versions \subseteq [wf : Nat, n : Nat, triggers : SUBSET {"cron", "event"}]
    /\ schedules \subseteq [wf : Nat, n : Nat, enabled : BOOLEAN, last : Nat]
    /\ lock \subseteq Call
    /\ runs \in Seq(Runs)
    /\ tick \in [Worker -> Ticks]
    /\ call \in [Call -> Calls]

\* The rows are those of the one workflow there is, and its identity is of a
\* publish that was made.
RowsOK ==
    /\ wf.id <= publishes
    /\ wf.id = 0 => wf.active = 0 /\ ~wf.reaped
    /\ \A v \in versions : v.wf = wf.id /\ wf.id # 0
    /\ \A t \in schedules : Id(t) = Active /\ wf.id # 0 /\ t.last <= minute
    /\ \A t \in schedules : ~wf.reaped => t.enabled
    /\ \A t, u \in schedules : t = u

\* A publish that holds the lock is alone, and numbers the next version.
LockOK ==
    /\ lock = {c \in Call : call[c].pc = "commit"}
    /\ \A c, d \in lock : c = d
    /\ \A c \in lock :
          /\ ~wf.reaped
          /\ call[c].version.wf = IF wf.id = 0 THEN publishes + 1 ELSE wf.id
          /\ call[c].version.n = wf.active + 1

\* A deletion is about a workflow that was there; when it goes on to the logical
\* removal, a run keeps the row, or the row is gone for good.
Removing(e) ==
    /\ e.pc \in {"hasActive", "hardDelete", "snapshot", "remove"} =>
           e.version.wf # 0 /\ e.version.wf <= publishes
    /\ e.pc \in {"snapshot", "remove"} =>
           e.version.wf # wf.id \/ RunsOf(e.version.wf) # {}

DeletionsOK ==
    /\ \A c \in Call : Removing(call[c])
    /\ wf.reaped => RunsOf(wf.id) # {}

\* The row s has fired for the minute `at`: s is not the identity of a row to
\* come, and if it is still there it has been claimed in that minute or later.
Fired(s, at) ==
    /\ s.wf # 0 /\ s.wf <= publishes
    /\ s.wf = wf.id => s.n <= wf.active
    /\ \A t \in schedules : Id(t) = s => at <= t.last

FiresOK ==
    /\ \A c \in Call : call[c].kind = "cron" => Fired(call[c].schedule, call[c].at)
    /\ \A i \in DOMAIN runs : runs[i].kind = "cron" => Fired(runs[i].schedule, runs[i].at)

SameFire(x, y) ==
    x.kind = "cron" /\ y.kind = "cron" /\ x.schedule = y.schedule /\ x.at = y.at

FiresDiffer ==
    /\ \A c, d \in Call : SameFire(call[c], call[d]) => c = d
    /\ \A c \in Call, i \in DOMAIN runs : ~SameFire(call[c], runs[i])

IInv ==
    /\ VarsOK /\ RowsOK /\ LockOK /\ DeletionsOK
    /\ VersionsAreALine /\ SchedulesFollowTheGraph /\ HistoryIsKept
    /\ FiresOK /\ FiresDiffer /\ MinuteIsWonOnce

-----------------------------------------------------------------------------
(* Identities, and the fires they made                                     *)

\* The blank records are what the types allow.
LEMMA Blanks ==
    /\ NoVersion \in Ids /\ NoTick \in Ticks
    /\ Idle \in Calls /\ Idle.pc = "idle" /\ Idle.kind = "none"
    /\ NoWorkflow \in [id : Nat, status : {"enabled", "disabled"}, reaped : BOOLEAN, active : Nat]
BY DEF NoVersion, NoTick, Idle, NoWorkflow, Ids, Ticks, Calls

LEMMA IdsAreTyped ==
    ASSUME VarsOK
    PROVE  /\ Active \in Ids
           /\ \A t \in schedules : Id(t) \in Ids
           /\ \A v \in versions : Id(v) \in Ids
BY DEF VarsOK, Active, Id, Ids

\* The last version of a line is its length.
LEMMA LastOfALine ==
    ASSUME NEW n \in Nat PROVE Max({0} \cup 1..n) = n
<1> DEFINE S == {0} \cup 1..n
           m == CHOOSE x \in S : \A y \in S : x >= y
<1>1. n \in S /\ \A y \in S : n >= y
  OBVIOUS
<1>2. m \in S /\ \A y \in S : m >= y
  BY <1>1
<1>3. m = n
  BY <1>1, <1>2
<1> QED
  BY <1>3 DEF Max

\* Who fired keeps having fired while the rows stay what they are.
LEMMA FiredStays ==
    ASSUME NEW s, NEW at, UNCHANGED <<wf, publishes, schedules>>
    PROVE  Fired(s, at)' <=> Fired(s, at)
BY DEF Fired

\* A step that makes no new fire keeps them distinct.
LEMMA FiresKeep ==
    ASSUME IInv,
           \A c \in Call : call'[c].kind = "cron" =>
               call[c].kind = "cron" /\ call'[c].schedule = call[c].schedule
               /\ call'[c].at = call[c].at,
           \A i \in DOMAIN runs' :
               /\ i \in DOMAIN runs
               /\ runs'[i].kind = runs[i].kind /\ runs'[i].schedule = runs[i].schedule
               /\ runs'[i].at = runs[i].at,
           \A s \in Ids, at \in Nat : Fired(s, at) => Fired(s, at)'
    PROVE  FiresOK' /\ FiresDiffer' /\ MinuteIsWonOnce'
<1>1. FiresOK /\ FiresDiffer /\ MinuteIsWonOnce
  BY DEF IInv
<1>2. ASSUME NEW c \in Call, call'[c].kind = "cron"
      PROVE  Fired(call[c].schedule, call[c].at)'
  <2>1. PICK s \in Ids, at \in Nat : call[c].schedule = s /\ call[c].at = at
    BY DEF IInv, VarsOK, Calls
  <2>2. Fired(s, at)'
    BY <1>1, <1>2, <2>1 DEF FiresOK
  <2>3. call'[c].schedule = s /\ call'[c].at = at
    BY <1>2, <2>1
  <2> QED BY <2>2, <2>3 DEF Fired
<1>3. ASSUME NEW i \in DOMAIN runs', runs'[i].kind = "cron"
      PROVE  Fired(runs[i].schedule, runs[i].at)'
  <2>1. PICK s \in Ids, at \in Nat : runs[i].schedule = s /\ runs[i].at = at
    <3>1. runs[i] \in Runs
      BY <1>3 DEF IInv, VarsOK
    <3> QED BY <3>1 DEF Runs
  <2>2. Fired(s, at)'
    BY <1>1, <1>3, <2>1 DEF FiresOK
  <2>3. runs'[i].schedule = s /\ runs'[i].at = at
    BY <1>3, <2>1
  <2> QED BY <2>2, <2>3 DEF Fired
<1> QED
  BY <1>1, <1>2, <1>3 DEF FiresOK, FiresDiffer, SameFire, MinuteIsWonOnce

-----------------------------------------------------------------------------
(* Steps of one call                                                       *)

LEMMA OneCall ==
    ASSUME VarsOK, NEW c \in Call, NEW e \in Calls, call' = [call EXCEPT ![c] = e]
    PROVE  /\ call'[c] = e /\ \A d \in Call \ {c} : call'[d] = call[d]
           /\ call' \in [Call -> Calls]
BY DEF VarsOK

\* A call that reads, or stops, moves no row; it fires nothing that it did not
\* fire before, and gives up the lock when it leaves the commit.
LEMMA LocalStep ==
    ASSUME IInv, NEW c \in Call, NEW e \in Calls, call' = [call EXCEPT ![c] = e],
           UNCHANGED <<minute, wf, versions, schedules, publishes, runs, tick>>,
           lock' = lock \ {c}, e.pc # "commit", Removing(e),
           e.kind = "cron" => /\ call[c].kind = "cron" /\ e.schedule = call[c].schedule
                              /\ e.at = call[c].at
    PROVE  IInv'
<1>1. /\ call'[c] = e /\ \A d \in Call \ {c} : call'[d] = call[d]
      /\ call' \in [Call -> Calls]
  BY OneCall DEF IInv
<1>2. VarsOK' /\ RowsOK'
  BY <1>1 DEF IInv, VarsOK, RowsOK, Active
<1>3. LockOK'
  BY <1>1 DEF IInv, LockOK
<1>4. DeletionsOK'
  BY <1>1 DEF IInv, DeletionsOK, Removing, RunsOf
<1>5. VersionsAreALine' /\ SchedulesFollowTheGraph' /\ HistoryIsKept'
  BY DEF IInv, VersionsAreALine, SchedulesFollowTheGraph, HistoryIsKept, Active
<1>6. \A x \in Ids, at \in Nat : Fired(x, at) => Fired(x, at)'
  BY FiredStays
<1>7. FiresOK' /\ FiresDiffer' /\ MinuteIsWonOnce'
  BY <1>1, <1>6, FiresKeep
<1> QED
  BY <1>2, <1>3, <1>4, <1>5, <1>7 DEF IInv

\* Most of them hold no lock.
LEMMA MoveKeeps ==
    ASSUME IInv, NEW c \in Call, NEW e \in Calls, call' = [call EXCEPT ![c] = e],
           UNCHANGED <<minute, store, runs, tick>>,
           call[c].pc # "commit", e.pc # "commit", Removing(e),
           e.kind = "cron" => /\ call[c].kind = "cron" /\ e.schedule = call[c].schedule
                              /\ e.at = call[c].at
    PROVE  IInv'
<1>1. UNCHANGED <<minute, wf, versions, schedules, publishes, lock, runs, tick>>
  BY DEF store
<1>2. lock \ {c} = lock
  BY DEF IInv, LockOK
<1> QED
  BY <1>1, <1>2, LocalStep

\* A request begins with nothing read.
LEMMA BeginKeeps ==
    ASSUME IInv, NEW c \in Call, NEW e \in Calls, Begin(c, e),
           e.pc \in {"upsert", "find", "list", "getWorkflow"}, e.kind # "cron",
           UNCHANGED <<minute, store, runs, tick>>
    PROVE  IInv'
<1>1. call' = [call EXCEPT ![c] = e] /\ call[c].pc # "commit"
  BY DEF Begin, At
<1>2. Removing(e)
  BY DEF Removing
<1> QED
  BY <1>1, <1>2, MoveKeeps

\* A call that stops has nothing more to say.
LEMMA StopKeeps ==
    ASSUME IInv, NEW c \in Call, Stop(c), UNCHANGED <<minute, store, runs, tick>>,
           call[c].pc # "commit"
    PROVE  IInv'
<1>1. Removing(Idle)
  BY Blanks DEF Removing
<1> QED
  BY <1>1, Blanks, MoveKeeps DEF Stop

\* A call that goes on may have read a version.
LEMMA ReadKeeps ==
    ASSUME IInv, NEW c \in Call, UNCHANGED <<minute, store, runs, tick>>,
           call[c].pc # "commit",
           NEW pc \in {"hasActive", "hardDelete", "snapshot", "match", "getWorkflow", "create"},
           NEW version \in Ids,
           call' = [call EXCEPT ![c] = [call[c] EXCEPT !.pc = pc, !.version = version]],
           pc \in {"hasActive", "hardDelete", "snapshot"} =>
               version.wf # 0 /\ version.wf <= publishes,
           pc = "snapshot" => version.wf # wf.id \/ RunsOf(version.wf) # {}
    PROVE  IInv'
<1> DEFINE e == [call[c] EXCEPT !.pc = pc, !.version = version]
<1>1. call[c] \in Calls
  BY DEF IInv, VarsOK
<1>2. /\ e \in Calls /\ e.pc = pc /\ e.version = version
      /\ e.kind = call[c].kind /\ e.schedule = call[c].schedule /\ e.at = call[c].at
  BY <1>1 DEF Calls
<1> HIDE DEF e
<1>3. Removing(e)
  BY <1>2 DEF Removing
<1>4. call' = [call EXCEPT ![c] = e]
  BY DEF e
<1> QED
  BY <1>2, <1>3, <1>4, MoveKeeps

\* What a call that goes on has read before stays.
LEMMA GotoKeeps ==
    ASSUME IInv, NEW c \in Call, UNCHANGED <<minute, store, runs, tick>>,
           call[c].pc # "commit",
           NEW pc \in {"hardDelete", "snapshot", "getWorkflow"}, Goto(c, pc),
           pc \in {"hardDelete", "snapshot"} =>
               call[c].version.wf # 0 /\ call[c].version.wf <= publishes,
           pc = "snapshot" =>
               call[c].version.wf # wf.id \/ RunsOf(call[c].version.wf) # {}
    PROVE  IInv'
<1>1. call[c] \in Calls /\ call[c].version \in Ids
  BY DEF IInv, VarsOK, Calls
<1>2. call' = [call EXCEPT ![c] = [call[c] EXCEPT !.pc = pc, !.version = call[c].version]]
  BY <1>1 DEF Goto, Calls
<1> QED
  BY <1>1, <1>2, ReadKeeps

-----------------------------------------------------------------------------
(* Each action keeps the invariant                                         *)

\* The invariant holds at the start.
LEMMA InitIInv == Init => IInv
<1> SUFFICES ASSUME Init PROVE IInv
  OBVIOUS
<1>1. VarsOK
  BY Blanks DEF Init, VarsOK
<1>2. /\ \A c \in Call : call[c].pc = "idle" /\ call[c].kind = "none"
      /\ DOMAIN runs = {}
  BY Blanks DEF Init
<1>3. RowsOK
  BY DEF Init, RowsOK, NoWorkflow
<1>4. LockOK /\ DeletionsOK
  BY <1>2 DEF Init, LockOK, DeletionsOK, Removing, NoWorkflow
<1>5. VersionsAreALine /\ SchedulesFollowTheGraph
  BY DEF Init, VersionsAreALine, SchedulesFollowTheGraph, NoWorkflow
<1>6. FiresOK /\ FiresDiffer /\ MinuteIsWonOnce /\ HistoryIsKept
  BY <1>2 DEF FiresOK, FiresDiffer, MinuteIsWonOnce, HistoryIsKept, SameFire
<1> QED
  BY <1>1, <1>3, <1>4, <1>5, <1>6 DEF IInv

\* Requests of operators and events.
LEMMA RequestKeeps ==
    ASSUME IInv, NEW c \in Call,
           RequestPublish(c) \/ RequestDelete(c) \/ RequestRun(c) \/ RequestEmit(c)
    PROVE  IInv'
<1>1. PICK e : /\ Begin(c, e)
               /\ \/ \E graph \in SUBSET {"cron", "event"} :
                        e = [Idle EXCEPT !.pc = "upsert", !.graph = graph]
                  \/ e = [Idle EXCEPT !.pc = "find"]
                  \/ e = [Idle EXCEPT !.pc = "getWorkflow", !.kind = "manual"]
                  \/ e = [Idle EXCEPT !.pc = "list", !.kind = "event"]
  BY DEF RequestPublish, RequestDelete, RequestRun, RequestEmit
<1>2. e \in Calls /\ e.pc \in {"upsert", "find", "list", "getWorkflow"} /\ e.kind # "cron"
  BY <1>1, Blanks DEF Calls
<1>3. UNCHANGED <<minute, store, runs, tick>>
  BY DEF RequestPublish, RequestDelete, RequestRun, RequestEmit
<1> QED
  BY <1>1, <1>2, <1>3, BeginKeeps

\* What a deletion, an event or a run reads of the workflow.
LEMMA ReadersKeep ==
    ASSUME IInv, NEW c \in Call,
           Find(c) \/ HasActiveRuns(c) \/ List(c) \/ Match(c) \/ GetWorkflow(c)
    PROVE  IInv'
<1>1. UNCHANGED <<minute, store, runs, tick>> /\ call[c].pc # "commit" /\ call[c] \in Calls
  BY DEF Find, HasActiveRuns, List, Match, GetWorkflow, At, IInv, VarsOK
<1>2. CASE Stop(c)
  BY <1>1, <1>2, StopKeeps
<1>3. ASSUME NEW pc \in {"hasActive", "match", "create"}, wf.id # 0,
             call' = [call EXCEPT ![c].pc = pc, ![c].version = Active]
      PROVE  IInv'
  <2>1. call' = [call EXCEPT ![c] = [call[c] EXCEPT !.pc = pc, !.version = Active]]
    BY <1>3 DEF IInv, VarsOK
  <2>2. Active \in Ids /\ Active.wf = wf.id
    BY IdsAreTyped DEF IInv, Active
  <2>3. Active.wf # 0 /\ Active.wf <= publishes
    BY <1>3, <2>2 DEF IInv, RowsOK
  <2> QED BY <1>1, <2>1, <2>2, <2>3, ReadKeeps
<1>4. CASE Find(c)
  BY <1>2, <1>3, <1>4 DEF Find
<1>5. CASE List(c)
  BY <1>2, <1>3, <1>5 DEF List
<1>6. CASE GetWorkflow(c)
  BY <1>2, <1>3, <1>6 DEF GetWorkflow
<1>7. CASE HasActiveRuns(c)
  <2>1. call[c].version.wf # 0 /\ call[c].version.wf <= publishes
    BY <1>7 DEF HasActiveRuns, At, IInv, DeletionsOK, Removing
  <2> QED BY <1>1, <1>2, <1>7, <2>1, GotoKeeps DEF HasActiveRuns
<1>8. CASE Match(c)
  BY <1>1, <1>2, <1>8, GotoKeeps DEF Match
<1> QED
  BY <1>4, <1>5, <1>6, <1>7, <1>8

\* The logical removal remembers the schedule rows of its start.
LEMMA SnapshotKeeps == ASSUME IInv, NEW c \in Call, Snapshot(c) PROVE IInv'
<1> DEFINE seen == {Id(t) : t \in {t \in schedules : t.wf = call[c].version.wf}}
           e == [call[c] EXCEPT !.pc = "remove", !.seen = seen]
<1>1. /\ call[c].pc = "snapshot" /\ call[c] \in Calls /\ UNCHANGED <<minute, store, runs, tick>>
      /\ call' = [call EXCEPT ![c].pc = "remove", ![c].seen = seen]
  BY DEF Snapshot, At, IInv, VarsOK
<1>2. seen \in SUBSET Ids
  BY IdsAreTyped DEF IInv
<1> HIDE DEF seen
<1>3. /\ e \in Calls /\ e.pc = "remove" /\ e.version = call[c].version
      /\ e.kind = call[c].kind /\ e.schedule = call[c].schedule /\ e.at = call[c].at
  BY <1>1, <1>2 DEF Calls
<1>4. call' = [call EXCEPT ![c] = e]
  BY <1>1 DEF IInv, VarsOK
<1> HIDE DEF e
<1>5. Removing(e)
  BY <1>1, <1>3 DEF IInv, DeletionsOK, Removing
<1> QED
  BY <1>1, <1>3, <1>4, <1>5, MoveKeeps

\* A call that dies gives up the lock, if it held it.
LEMMA DieKeeps == ASSUME IInv, NEW c \in Call, Die(c) PROVE IInv'
<1>1. /\ lock' = lock \ {c} /\ call' = [call EXCEPT ![c] = Idle]
      /\ UNCHANGED <<minute, wf, versions, schedules, publishes, runs, tick>>
  BY DEF Die, Stop
<1>2. Removing(Idle)
  BY Blanks DEF Removing
<1> QED
  BY <1>1, <1>2, Blanks, LocalStep

\* The next version is numbered after the last, by one call at a time.
LEMMA UpsertKeeps == ASSUME IInv, NEW c \in Call, Upsert(c) PROVE IInv'
<1>1. /\ call[c].pc = "upsert" /\ lock = {} /\ UNCHANGED <<minute, runs, tick>>
      /\ call[c] \in Calls
  BY DEF Upsert, At, Unlocked, IInv, VarsOK
<1>2. CASE wf.reaped
  BY <1>1, <1>2, StopKeeps DEF Upsert
<1>3. CASE ~wf.reaped
  <2> DEFINE id == IF wf.id = 0 THEN publishes + 1 ELSE wf.id
             v == [wf |-> id, n |-> wf.active + 1]
             e == [call[c] EXCEPT !.pc = "commit", !.version = v]
  <2>1. LastVersion(id) = wf.active
    <3>1. wf.active \in Nat /\ wf.id \in Nat /\ publishes \in Nat
      BY DEF IInv, VarsOK
    <3>2. {x.n : x \in versions} = 1..wf.active
      BY DEF IInv, VersionsAreALine
    <3>3. \A x \in versions : x.wf = id
      BY DEF IInv, RowsOK
    <3>4. {x.n : x \in {u \in versions : u.wf = id}} = 1..wf.active
      BY <3>2, <3>3
    <3> QED BY <3>1, <3>4, LastOfALine DEF LastVersion
  <2>2. /\ lock' = {c} /\ UNCHANGED <<wf, versions, schedules, publishes>>
        /\ call' = [call EXCEPT ![c].pc = "commit", ![c].version = v]
    BY <1>1, <1>3, <2>1 DEF Upsert
  <2>3. v \in Ids /\ v.wf = id /\ v.n = wf.active + 1
    BY DEF IInv, VarsOK, Ids
  <2> HIDE DEF v
  <2>4. /\ e \in Calls /\ e.pc = "commit" /\ e.version = v
        /\ e.kind = call[c].kind /\ e.schedule = call[c].schedule /\ e.at = call[c].at
    BY <1>1, <2>3 DEF Calls
  <2>5. call' = [call EXCEPT ![c] = e]
    BY <2>2 DEF IInv, VarsOK
  <2> HIDE DEF e
  <2>6. /\ call'[c] = e /\ \A d \in Call \ {c} : call'[d] = call[d]
        /\ call' \in [Call -> Calls]
    BY <2>4, <2>5, OneCall DEF IInv
  <2>7. VarsOK' /\ RowsOK'
    BY <1>1, <2>2, <2>6 DEF IInv, VarsOK, RowsOK, Active
  <2>8. LockOK'
    <3>1. lock' = {d \in Call : call'[d].pc = "commit"}
      BY <1>1, <2>2, <2>4, <2>6 DEF IInv, LockOK
    <3> QED BY <1>3, <2>2, <2>3, <2>4, <2>6, <3>1 DEF LockOK
  <2>9. DeletionsOK'
    BY <1>1, <2>2, <2>4, <2>6 DEF IInv, DeletionsOK, Removing, RunsOf
  <2>10. VersionsAreALine' /\ SchedulesFollowTheGraph' /\ HistoryIsKept'
    BY <1>1, <2>2 DEF IInv, VersionsAreALine, SchedulesFollowTheGraph, HistoryIsKept, Active
  <2>11. \A x \in Ids, at \in Nat : Fired(x, at) => Fired(x, at)'
    BY <2>2, FiredStays
  <2>12. FiresOK' /\ FiresDiffer' /\ MinuteIsWonOnce'
    BY <1>1, <2>4, <2>6, <2>11, FiresKeep
  <2> QED BY <2>7, <2>8, <2>9, <2>10, <2>12 DEF IInv
<1> QED
  BY <1>2, <1>3

\* The commit puts the schedule of the new version in the place of the old one,
\* under an identity that has not fired.
LEMMA CommitKeeps == ASSUME IInv, NEW c \in Call, Commit(c) PROVE IInv'
<1> DEFINE v == call[c].version
           g == call[c].graph
           new == [wf |-> v.wf, n |-> v.n, triggers |-> g]
           row == [wf |-> v.wf, n |-> v.n, enabled |-> TRUE, last |-> 0]
<1>1. /\ call[c].pc = "commit" /\ call' = [call EXCEPT ![c] = Idle]
      /\ versions' = versions \cup {new} /\ schedules' = Reconciled(v, g)
      /\ publishes' = publishes + 1 /\ lock' = lock \ {c}
      /\ UNCHANGED <<minute, runs, tick>>
  BY DEF Commit, At, Stop
<1>2. PICK status \in {"enabled", "disabled"} :
         wf' = IF wf.id = 0
               THEN [id |-> v.wf, status |-> status, reaped |-> FALSE, active |-> v.n]
               ELSE [wf EXCEPT !.active = v.n]
  BY DEF Commit
<1>3. /\ lock = {c} /\ ~wf.reaped
      /\ v.wf = IF wf.id = 0 THEN publishes + 1 ELSE wf.id
      /\ v.n = wf.active + 1
  BY <1>1 DEF IInv, LockOK
<1>4. /\ wf.id \in Nat /\ wf.active \in Nat /\ publishes \in Nat /\ minute \in Nat
      /\ v \in Ids /\ v.wf \in Nat /\ v.n \in Nat /\ g \in SUBSET {"cron", "event"}
      /\ wf.id <= publishes
  BY DEF IInv, VarsOK, RowsOK, Calls, Ids
<1>5. /\ wf'.id = v.wf /\ wf'.active = v.n /\ wf'.reaped = FALSE
      /\ wf' \in [id : Nat, status : {"enabled", "disabled"}, reaped : BOOLEAN, active : Nat]
  BY <1>2, <1>3, <1>4 DEF IInv, VarsOK
<1>6. v.wf # 0 /\ v.wf <= publishes'
  BY <1>1, <1>3, <1>4
<1>7. schedules' = IF "cron" \in g THEN {row} ELSE {}
  <2>1. {t \in schedules : t.wf # v.wf} = {}
    BY <1>3 DEF IInv, RowsOK, Id, Active
  <2> QED BY <1>1, <2>1 DEF Reconciled
<1>8. /\ new.wf = v.wf /\ new.n = v.n /\ new.triggers = g
      /\ row.wf = v.wf /\ row.n = v.n /\ row.enabled = TRUE /\ row.last = 0
      /\ new \in [wf : Nat, n : Nat, triggers : SUBSET {"cron", "event"}]
      /\ row \in [wf : Nat, n : Nat, enabled : BOOLEAN, last : Nat]
  BY <1>4
<1> HIDE DEF new, row
<1>9. /\ call'[c] = Idle /\ \A d \in Call \ {c} : call'[d] = call[d]
      /\ call' \in [Call -> Calls]
  BY <1>1, Blanks, OneCall DEF IInv
<1>10. VarsOK'
  BY <1>1, <1>3, <1>4, <1>5, <1>7, <1>8, <1>9 DEF IInv, VarsOK
<1>11. RowsOK'
  <2>1. \A x \in versions' : x.wf = wf'.id
    BY <1>1, <1>3, <1>5, <1>8 DEF IInv, RowsOK
  <2>2. \A t \in schedules' : t = row
    BY <1>7
  <2> QED BY <1>1, <1>4, <1>5, <1>6, <1>8, <2>1, <2>2 DEF RowsOK, Id, Active
<1>12. LockOK'
  BY <1>1, <1>3, <1>9, Blanks DEF IInv, LockOK
<1>13. DeletionsOK'
  <2>1. ASSUME NEW d \in Call PROVE Removing(call[d])'
    <3>1. CASE d = c
      BY <1>9, <3>1, Blanks DEF Removing
    <3>2. CASE d # c
      <4>1. Removing(call[d]) /\ call'[d] = call[d] /\ call[d].version.wf \in Nat
        BY <1>9, <3>2 DEF IInv, VarsOK, DeletionsOK, Calls, Ids
      <4> QED BY <1>1, <1>3, <1>4, <1>5, <4>1 DEF Removing, RunsOf
    <3> QED BY <3>1, <3>2
  <2> QED BY <1>5, <2>1 DEF DeletionsOK
<1>14. VersionsAreALine'
  <2>1. \A x \in versions : x.n \in 1..wf.active
    BY DEF IInv, VersionsAreALine
  <2>2. \A x, u \in versions' : Id(x) = Id(u) => x = u
    BY <1>1, <1>3, <1>4, <1>8, <2>1 DEF IInv, VersionsAreALine, Id
  <2>3. {x.n : x \in versions'} = {x.n : x \in versions} \cup {v.n}
    BY <1>1, <1>8
  <2>4. {x.n : x \in versions} = 1..wf.active
    BY DEF IInv, VersionsAreALine
  <2>5. (1..wf.active) \cup {wf.active + 1} = 1..(wf.active + 1)
    BY <1>4
  <2>6. {x.n : x \in versions'} = 1..v.n
    BY <1>3, <2>3, <2>4, <2>5
  <2> QED BY <1>5, <2>2, <2>6 DEF VersionsAreALine
<1>15. SchedulesFollowTheGraph'
  <2>1. \A x \in versions : Id(x) # Id(new)
    <3>1. {x.n : x \in versions} = 1..wf.active
      BY DEF IInv, VersionsAreALine
    <3>2. ASSUME NEW x \in versions PROVE x.n # new.n
      <4>1. x.n \in 1..wf.active
        BY <3>1
      <4> QED BY <1>3, <1>4, <1>8, <4>1
    <3> QED BY <3>2 DEF Id
  <2>2. Active' = Id(new) /\ Id(row) = Id(new)
    BY <1>5, <1>8 DEF Active, Id
  <2>3. {u \in versions' : Id(u) = Active' /\ "cron" \in u.triggers}
        = IF "cron" \in g THEN {new} ELSE {}
    BY <1>1, <1>8, <2>1, <2>2
  <2>4. {t \in schedules' : t.enabled} = IF "cron" \in g THEN {row} ELSE {}
    BY <1>7, <1>8
  <2> QED BY <2>2, <2>3, <2>4 DEF SchedulesFollowTheGraph
<1>16. HistoryIsKept'
  BY <1>1 DEF IInv, HistoryIsKept
<1>17. ASSUME NEW x \in Ids, NEW at \in Nat, Fired(x, at) PROVE Fired(x, at)'
  <2>1. x.wf # 0 /\ x.wf <= publishes' /\ (x.wf = wf'.id => x.n <= wf.active)
    BY <1>1, <1>3, <1>4, <1>5, <1>17 DEF Fired, Ids
  <2>2. Id(row) # x
    BY <1>3, <1>4, <1>5, <1>8, <2>1 DEF Id, Ids
  <2>3. x.wf \in Nat /\ x.n \in Nat /\ \A t \in schedules' : t = row
    BY <1>7 DEF Ids
  <2>4. x.wf = wf'.id => x.n <= wf'.active
    BY <1>3, <1>4, <1>5, <2>1, <2>3
  <2> QED BY <2>1, <2>2, <2>3, <2>4 DEF Fired
<1>18. FiresOK' /\ FiresDiffer' /\ MinuteIsWonOnce'
  BY <1>1, <1>9, <1>17, Blanks, FiresKeep
<1> QED
  BY <1>10, <1>11, <1>12, <1>13, <1>14, <1>15, <1>16, <1>18 DEF IInv

\* Enabling and disabling change neither rows nor versions.
LEMMA SetStatusKeeps ==
    ASSUME IInv, NEW status \in {"enabled", "disabled"}, SetStatus(status)
    PROVE  IInv'
<1>1. /\ wf' = [wf EXCEPT !.status = status]
      /\ UNCHANGED <<minute, versions, schedules, publishes, lock, runs, tick, call>>
  BY DEF SetStatus
<1>2. /\ wf'.id = wf.id /\ wf'.active = wf.active /\ wf'.reaped = wf.reaped
      /\ wf' \in [id : Nat, status : {"enabled", "disabled"}, reaped : BOOLEAN, active : Nat]
  BY <1>1 DEF IInv, VarsOK
<1>3. VarsOK' /\ RowsOK' /\ LockOK' /\ DeletionsOK'
  BY <1>1, <1>2 DEF IInv, VarsOK, RowsOK, LockOK, DeletionsOK, Removing, RunsOf, Active
<1>4. VersionsAreALine' /\ SchedulesFollowTheGraph' /\ HistoryIsKept'
  BY <1>1, <1>2 DEF IInv, VersionsAreALine, SchedulesFollowTheGraph, HistoryIsKept, Active
<1>5. \A x \in Ids, at \in Nat : Fired(x, at) => Fired(x, at)'
  BY <1>1, <1>2 DEF Fired
<1>6. FiresOK' /\ FiresDiffer' /\ MinuteIsWonOnce'
  BY <1>1, <1>5, FiresKeep
<1> QED
  BY <1>3, <1>4, <1>6 DEF IInv

\* A workflow is deleted for good only when no run has ever been made of it.
LEMMA HardDeleteKeeps == ASSUME IInv, NEW c \in Call, HardDelete(c) PROVE IInv'
<1> DEFINE id == call[c].version.wf
<1>1. /\ call[c].pc = "hardDelete" /\ lock = {}
      /\ UNCHANGED <<minute, publishes, lock, runs, tick>>
      /\ id # 0 /\ id <= publishes
  BY DEF HardDelete, At, Unlocked, IInv, DeletionsOK, Removing
<1>2. CASE ~(wf.id = id /\ Unreferenced(id))
  <2>1. Goto(c, "snapshot") /\ UNCHANGED <<minute, store, runs, tick>>
    BY <1>1, <1>2 DEF HardDelete, store
  <2>2. id # wf.id \/ RunsOf(id) # {}
    BY <1>2 DEF Unreferenced
  <2> QED BY <1>1, <2>1, <2>2, GotoKeeps
<1>3. CASE wf.id = id /\ Unreferenced(id)
  <2>1. /\ wf' = NoWorkflow /\ versions' = {v \in versions : v.wf # id}
        /\ schedules' = {t \in schedules : t.wf # id} /\ call' = [call EXCEPT ![c] = Idle]
    BY <1>3 DEF HardDelete, Stop
  <2>2. versions' = {} /\ schedules' = {} /\ wf'.id = 0 /\ wf'.active = 0 /\ wf'.reaped = FALSE
    BY <1>3, <2>1 DEF IInv, RowsOK, Id, Active, NoWorkflow
  <2>3. DOMAIN runs = {}
    <3>1. ASSUME NEW i \in DOMAIN runs PROVE runs[i].version.wf = wf.id
      <4>1. PICK v \in versions : Id(v) = runs[i].version
        BY DEF IInv, HistoryIsKept
      <4>2. Id(v).wf = v.wf /\ v.wf = wf.id
        BY DEF IInv, RowsOK, Id
      <4> QED BY <4>1, <4>2
    <3> QED BY <1>3, <3>1 DEF Unreferenced, RunsOf
  <2>4. /\ call'[c] = Idle /\ \A d \in Call \ {c} : call'[d] = call[d]
        /\ call' \in [Call -> Calls]
    BY <2>1, Blanks, OneCall DEF IInv
  <2>5. VarsOK' /\ RowsOK'
    BY <1>1, <2>1, <2>2, <2>4, Blanks DEF IInv, VarsOK, RowsOK
  <2>6. LockOK'
    BY <1>1, <1>3, <2>4, Blanks DEF IInv, LockOK
  <2>7. DeletionsOK'
    BY <1>1, <2>2, <2>4, Blanks DEF IInv, DeletionsOK, Removing
  <2>8. VersionsAreALine'
    BY <2>2 DEF VersionsAreALine
  <2>9. SchedulesFollowTheGraph' /\ HistoryIsKept'
    BY <1>1, <2>2, <2>3 DEF SchedulesFollowTheGraph, HistoryIsKept
  <2>10. \A x \in Ids, at \in Nat : Fired(x, at) => Fired(x, at)'
    BY <1>1, <2>2 DEF Fired
  <2>11. FiresOK' /\ FiresDiffer' /\ MinuteIsWonOnce'
    BY <1>1, <2>4, <2>10, Blanks, FiresKeep
  <2> QED BY <2>5, <2>6, <2>7, <2>8, <2>9, <2>11 DEF IInv
<1> QED
  BY <1>2, <1>3

\* The logical removal disables rows, and takes none.
LEMMA RemoveKeeps == ASSUME IInv, NEW c \in Call, Remove(c) PROVE IInv'
<1>1. /\ call[c].pc = "remove" /\ lock = {} /\ Stop(c)
      /\ UNCHANGED <<minute, versions, publishes, lock, runs, tick>>
  BY DEF Remove, At, Unlocked
<1>2. CASE ~(wf.id = call[c].version.wf /\ ~wf.reaped)
  <2>1. UNCHANGED <<minute, store, runs, tick>>
    BY <1>1, <1>2 DEF Remove, store
  <2> QED BY <1>1, <2>1, StopKeeps
<1>3. CASE wf.id = call[c].version.wf /\ ~wf.reaped
  <2> DEFINE Left(t) == IF Id(t) \in call[c].seen THEN [t EXCEPT !.enabled = FALSE] ELSE t
  <2>1. /\ wf' = [wf EXCEPT !.status = "disabled", !.reaped = TRUE]
        /\ schedules' = {Left(t) : t \in schedules} /\ call' = [call EXCEPT ![c] = Idle]
    BY <1>1, <1>3 DEF Remove, Stop
  <2>2. /\ wf'.id = wf.id /\ wf'.active = wf.active /\ wf'.reaped = TRUE
        /\ wf' \in [id : Nat, status : {"enabled", "disabled"}, reaped : BOOLEAN, active : Nat]
    BY <2>1 DEF IInv, VarsOK
  <2>3. \A t \in schedules :
            /\ Left(t).wf = t.wf /\ Left(t).n = t.n /\ Left(t).last = t.last
            /\ Left(t) \in [wf : Nat, n : Nat, enabled : BOOLEAN, last : Nat]
    BY DEF IInv, VarsOK
  <2> HIDE DEF Left
  <2>4. \A t \in schedules : Id(Left(t)) = Id(t)
    BY <2>3 DEF Id
  <2>5. /\ call'[c] = Idle /\ \A d \in Call \ {c} : call'[d] = call[d]
        /\ call' \in [Call -> Calls]
    BY <2>1, Blanks, OneCall DEF IInv
  <2>6. VarsOK'
    BY <1>1, <2>1, <2>2, <2>3, <2>5 DEF IInv, VarsOK
  <2>7. RowsOK'
    <3>1. \A u \in schedules' : \E t \in schedules :
              u = Left(t) /\ Id(u) = Id(t) /\ u.last = t.last
      BY <2>1, <2>3, <2>4
    <3>2. \A u \in schedules' : Id(u) = Active' /\ wf'.id # 0 /\ u.last <= minute'
      BY <1>1, <2>2, <3>1 DEF IInv, RowsOK, Active
    <3>3. \A t, u \in schedules' : t = u
      BY <3>1 DEF IInv, RowsOK
    <3>4. /\ wf'.id <= publishes' /\ wf'.id # 0
          /\ \A v \in versions' : v.wf = wf'.id
      BY <1>1, <1>3, <2>2 DEF IInv, RowsOK, DeletionsOK, Removing
    <3> QED BY <2>2, <3>2, <3>3, <3>4 DEF RowsOK
  <2>8. LockOK'
    BY <1>1, <2>5, Blanks DEF IInv, LockOK
  <2>9. DeletionsOK'
    <3>1. RunsOf(wf.id) # {}
      BY <1>1, <1>3 DEF IInv, DeletionsOK, Removing
    <3> QED BY <1>1, <2>2, <2>5, <3>1, Blanks DEF IInv, DeletionsOK, Removing, RunsOf
  <2>10. VersionsAreALine' /\ SchedulesFollowTheGraph' /\ HistoryIsKept'
    BY <1>1, <2>2 DEF IInv, VersionsAreALine, SchedulesFollowTheGraph, HistoryIsKept
  <2>11. \A x \in Ids, at \in Nat : Fired(x, at) => Fired(x, at)'
    BY <1>1, <2>1, <2>2, <2>3, <2>4 DEF Fired
  <2>12. FiresOK' /\ FiresDiffer' /\ MinuteIsWonOnce'
    BY <1>1, <2>5, <2>11, Blanks, FiresKeep
  <2> QED BY <2>6, <2>7, <2>8, <2>9, <2>10, <2>12 DEF IInv
<1> QED
  BY <1>2, <1>3

\* What is left of a tick when one schedule is dealt with.
LEMMA DoneKeepsTicks ==
    ASSUME VarsOK, NEW w \in Worker, NEW s, Done(w, s)
    PROVE  tick' \in [Worker -> Ticks]
<1>1. tick[w] \in Ticks /\ tick \in [Worker -> Ticks]
  BY DEF VarsOK
<1> DEFINE left == [tick[w] EXCEPT !.todo = tick[w].todo \ {s}]
<1>2. left \in Ticks
  BY <1>1 DEF Ticks
<1>3. tick' = [tick EXCEPT ![w] = IF tick[w].todo = {s} THEN NoTick ELSE left]
  BY DEF Done
<1> HIDE DEF left
<1> QED
  BY <1>1, <1>2, <1>3, Blanks

\* A tick only reads.
LEMMA TickKeeps ==
    ASSUME IInv, NEW w \in Worker,
           StartTick(w) \/ ListEnabled(w) \/ \E s \in tick[w].todo : Skip(w, s)
    PROVE  IInv'
<1>1. UNCHANGED <<minute, wf, versions, schedules, publishes, lock, runs, call>>
  BY DEF StartTick, ListEnabled, Skip, store
<1>2. tick[w] \in Ticks /\ minute \in Nat
  BY DEF IInv, VarsOK
<1>3. ASSUME StartTick(w) \/ ListEnabled(w) PROVE tick' \in [Worker -> Ticks]
  <2>1. PICK e \in Ticks : tick' = [tick EXCEPT ![w] = e]
    <3>1. CASE StartTick(w)
      <4>1. [NoTick EXCEPT !.pc = "list", !.now = minute] \in Ticks
        BY <1>2, Blanks DEF Ticks
      <4> QED BY <3>1, <4>1 DEF StartTick
    <3>2. CASE ListEnabled(w)
      <4> DEFINE todo == {Id(t) : t \in {t \in schedules : t.enabled /\ wf.status = "enabled"}}
      <4>1. todo \in SUBSET Ids
        BY IdsAreTyped DEF IInv
      <4>2. tick' = [tick EXCEPT ![w] = IF todo = {} THEN NoTick
                                        ELSE [tick[w] EXCEPT !.pc = "claim", !.todo = todo]]
        BY <1>2, <3>2 DEF ListEnabled, IInv, VarsOK
      <4> HIDE DEF todo
      <4>3. [tick[w] EXCEPT !.pc = "claim", !.todo = todo] \in Ticks
        BY <1>2, <4>1 DEF Ticks
      <4> QED BY <4>2, <4>3, Blanks
    <3> QED BY <1>3, <3>1, <3>2
  <2> QED BY <2>1 DEF IInv, VarsOK
<1>4. tick' \in [Worker -> Ticks]
  BY <1>3, DoneKeepsTicks DEF Skip, IInv
<1>5. VarsOK' /\ RowsOK' /\ LockOK' /\ DeletionsOK'
  BY <1>1, <1>4 DEF IInv, VarsOK, RowsOK, LockOK, DeletionsOK, Removing, RunsOf, Active
<1>6. VersionsAreALine' /\ SchedulesFollowTheGraph' /\ HistoryIsKept'
  BY <1>1 DEF IInv, VersionsAreALine, SchedulesFollowTheGraph, HistoryIsKept, Active
<1>7. \A x \in Ids, at \in Nat : Fired(x, at) => Fired(x, at)'
  BY <1>1, FiredStays
<1>8. FiresOK' /\ FiresDiffer' /\ MinuteIsWonOnce'
  BY <1>1, <1>7, FiresKeep
<1> QED
  BY <1>5, <1>6, <1>8 DEF IInv

\* The claim takes the row in a minute in which nobody took it, and the row is
\* that of the active version.
LEMMA ClaimKeeps ==
    ASSUME IInv, NEW w \in Worker, NEW s \in tick[w].todo, NEW c \in Call, Claim(w, s, c)
    PROVE  IInv' /\ s = Active
<1>1. PICK t \in Claimable(s) : schedules' = (schedules \ {t}) \cup {[t EXCEPT !.last = minute]}
  BY DEF Claim
<1> DEFINE e == [Idle EXCEPT !.pc = "getWorkflow", !.kind = "cron", !.by = w,
                             !.schedule = s, !.now = tick[w].now, !.at = minute]
           u == [t EXCEPT !.last = minute]
<1>2. /\ call[c].pc = "idle" /\ call' = [call EXCEPT ![c] = e] /\ Done(w, s)
      /\ UNCHANGED <<requests, minute, wf, versions, publishes, lock, runs>>
  BY DEF Claim, Begin, At
<1>3. /\ t \in schedules /\ Id(t) = s /\ t.last < minute
      /\ s = Active /\ wf.id # 0 /\ \A x \in schedules : x = t
  BY DEF Claimable, IInv, RowsOK
<1>4. /\ minute \in Nat /\ publishes \in Nat /\ wf.id \in Nat /\ wf.active \in Nat
      /\ wf.id <= publishes /\ s \in Ids /\ tick[w] \in Ticks /\ tick[w].now \in Nat
      /\ t \in [wf : Nat, n : Nat, enabled : BOOLEAN, last : Nat]
      /\ s.wf = wf.id /\ s.n = wf.active
  BY <1>3, IdsAreTyped DEF IInv, VarsOK, RowsOK, Ticks, Active
<1>5. /\ u \in [wf : Nat, n : Nat, enabled : BOOLEAN, last : Nat]
      /\ u.wf = t.wf /\ u.n = t.n /\ u.last = minute /\ u.enabled = t.enabled
  BY <1>4
<1>6. schedules' = {u}
  BY <1>1, <1>3
<1> HIDE DEF u
<1>7. Id(u) = s
  BY <1>3, <1>5 DEF Id
<1>8. e \in Calls /\ e.pc = "getWorkflow" /\ e.kind = "cron" /\ e.schedule = s /\ e.at = minute
  BY <1>4, Blanks DEF Calls
<1> HIDE DEF e
<1>9. /\ call'[c] = e /\ \A d \in Call \ {c} : call'[d] = call[d]
      /\ call' \in [Call -> Calls]
  BY <1>2, <1>8, OneCall DEF IInv
<1>10. tick' \in [Worker -> Ticks]
  BY <1>2, DoneKeepsTicks DEF IInv
<1>11. VarsOK'
  BY <1>2, <1>5, <1>6, <1>9, <1>10 DEF IInv, VarsOK
<1>12. RowsOK'
  <2>1. Active' = Active
    BY <1>2 DEF Active
  <2>2. \A x \in schedules' : Id(x) = Active' /\ x.last <= minute' /\ (~wf'.reaped => x.enabled)
    BY <1>2, <1>3, <1>4, <1>5, <1>6, <1>7, <2>1 DEF IInv, RowsOK
  <2> QED BY <1>2, <1>3, <1>6, <2>2 DEF IInv, RowsOK
<1>13. LockOK' /\ DeletionsOK'
  BY <1>2, <1>8, <1>9 DEF IInv, LockOK, DeletionsOK, Removing, RunsOf
<1>14. VersionsAreALine' /\ HistoryIsKept'
  BY <1>2 DEF IInv, VersionsAreALine, HistoryIsKept
<1>15. SchedulesFollowTheGraph'
  <2>1. Active' = Active
    BY <1>2 DEF Active
  <2>2. {x \in schedules : x.enabled} = IF t.enabled THEN {t} ELSE {}
    BY <1>3
  <2>3. {x \in schedules' : x.enabled} = IF t.enabled THEN {u} ELSE {}
    BY <1>5, <1>6
  <2>4. {Id(x) : x \in {y \in schedules' : y.enabled}} = {Id(x) : x \in {y \in schedules : y.enabled}}
    BY <1>3, <1>7, <2>2, <2>3
  <2> QED BY <1>2, <2>1, <2>4 DEF IInv, SchedulesFollowTheGraph
<1>16. ASSUME NEW x \in Ids, NEW at \in Nat, Fired(x, at)
       PROVE  Fired(x, at)' /\ ~(x = s /\ at = minute)
  <2>1. t.last \in Nat /\ (Id(t) = x => at <= t.last)
    BY <1>3, <1>4, <1>16 DEF Fired
  <2>2. Id(u) = x => at <= u.last
    BY <1>3, <1>4, <1>5, <1>7, <2>1
  <2>3. ~(x = s /\ at = minute)
    BY <1>3, <1>4, <2>1
  <2> QED BY <1>2, <1>6, <1>16, <2>2, <2>3 DEF Fired
<1>17. Fired(s, minute)'
  <2>1. Id(u) = s => minute <= u.last
    BY <1>4, <1>5
  <2> QED BY <1>2, <1>3, <1>4, <1>6, <2>1 DEF Fired
<1>18. ASSUME NEW d \in Call \ {c}, call[d].kind = "cron"
       PROVE  /\ ~(call[d].schedule = s /\ call[d].at = minute)
              /\ Fired(call[d].schedule, call[d].at)'
  <2>1. PICK x \in Ids, at \in Nat : call[d].schedule = x /\ call[d].at = at
    BY DEF IInv, VarsOK, Calls
  <2>2. Fired(x, at)
    BY <1>18, <2>1 DEF IInv, FiresOK
  <2>3. Fired(x, at)' /\ ~(x = s /\ at = minute)
    BY <1>16, <2>2
  <2>4. call'[d].schedule = x /\ call'[d].at = at
    BY <1>9, <2>1
  <2> QED BY <2>1, <2>3, <2>4 DEF Fired
<1>19. ASSUME NEW i \in DOMAIN runs, runs[i].kind = "cron"
       PROVE  /\ ~(runs[i].schedule = s /\ runs[i].at = minute)
              /\ Fired(runs[i].schedule, runs[i].at)'
  <2>1. PICK x \in Ids, at \in Nat : runs[i].schedule = x /\ runs[i].at = at
    <3>1. runs[i] \in Runs
      BY DEF IInv, VarsOK
    <3> QED BY <3>1 DEF Runs
  <2>2. Fired(x, at)
    BY <1>19, <2>1 DEF IInv, FiresOK
  <2>3. Fired(x, at)' /\ ~(x = s /\ at = minute)
    BY <1>16, <2>2
  <2>4. runs'[i].schedule = x /\ runs'[i].at = at
    BY <1>2, <2>1
  <2> QED BY <2>1, <2>3, <2>4 DEF Fired
<1>20. FiresOK'
  <2>1. Fired(call[c].schedule, call[c].at)'
    <3>1. PICK at : at = minute
      OBVIOUS
    <3>2. Fired(s, at)'
      BY <1>2, <1>17, <3>1 DEF Fired
    <3>3. call'[c].schedule = s /\ call'[c].at = at
      BY <1>8, <1>9, <3>1
    <3> QED BY <3>2, <3>3 DEF Fired
  <2>2. ASSUME NEW d \in Call, call'[d].kind = "cron" PROVE Fired(call[d].schedule, call[d].at)'
    BY <1>9, <1>18, <2>1, <2>2
  <2> QED BY <1>2, <1>19, <2>2 DEF FiresOK
<1>21. FiresDiffer' /\ MinuteIsWonOnce'
  BY <1>2, <1>8, <1>9, <1>18, <1>19 DEF IInv, FiresDiffer, MinuteIsWonOnce, SameFire
<1> QED
  BY <1>3, <1>11, <1>12, <1>13, <1>14, <1>15, <1>20, <1>21 DEF IInv

\* The fire becomes a run, once; the version it runs is there.
LEMMA CreateRunKeeps == ASSUME IInv, NEW c \in Call, CreateRun(c) PROVE IInv'
<1> DEFINE r == [version |-> call[c].version, kind |-> call[c].kind,
                 schedule |-> call[c].schedule, now |-> call[c].now,
                 at |-> call[c].at, active |-> TRUE]
<1>1. /\ call[c].pc = "create" /\ Stop(c) /\ UNCHANGED <<minute, store, tick>>
      /\ call[c] \in Calls
  BY DEF CreateRun, At, IInv, VarsOK
<1>2. CASE runs' = runs
  BY <1>1, <1>2, StopKeeps
<1>3. CASE (\E v \in versions : Id(v) = call[c].version) /\ runs' = Append(runs, r)
  <2>1. /\ r \in Runs /\ r.version = call[c].version /\ r.kind = call[c].kind
        /\ r.schedule = call[c].schedule /\ r.at = call[c].at
    BY <1>1 DEF Calls, Runs
  <2> HIDE DEF r
  <2> DEFINE k == Len(runs) + 1
  <2>2. /\ runs' \in Seq(Runs) /\ DOMAIN runs' = DOMAIN runs \cup {k}
        /\ runs'[k] = r /\ \A i \in DOMAIN runs : runs'[i] = runs[i] /\ i # k
    BY <1>3, <2>1 DEF IInv, VarsOK
  <2> HIDE DEF k
  <2>3. UNCHANGED <<minute, wf, versions, schedules, publishes, lock, tick>>
    BY <1>1 DEF store
  <2>4. /\ call'[c] = Idle /\ \A d \in Call \ {c} : call'[d] = call[d]
        /\ call' \in [Call -> Calls]
    BY <1>1, Blanks, OneCall DEF IInv, Stop
  <2>5. VarsOK' /\ RowsOK'
    BY <2>2, <2>3, <2>4 DEF IInv, VarsOK, RowsOK, Active
  <2>6. LockOK'
    BY <1>1, <2>3, <2>4, Blanks DEF IInv, LockOK
  <2>7. DeletionsOK'
    <3>1. \A id : RunsOf(id) # {} => RunsOf(id)' # {}
      BY <2>2 DEF RunsOf
    <3>2. ASSUME NEW d \in Call PROVE Removing(call[d])'
      <4>1. PICK x \in Calls : x = call'[d] /\ (x = Idle \/ Removing(x))
        BY <2>4, Blanks DEF IInv, DeletionsOK
      <4>2. RunsOf(x.version.wf) # {} => RunsOf(x.version.wf)' # {}
        BY <3>1
      <4> QED BY <2>3, <4>1, <4>2, Blanks DEF Removing, RunsOf
    <3>3. wf'.reaped => RunsOf(wf.id)' # {}
      BY <2>2, <2>3 DEF IInv, DeletionsOK, RunsOf
    <3> QED BY <3>2, <3>3 DEF DeletionsOK
  <2>8. VersionsAreALine' /\ SchedulesFollowTheGraph'
    BY <2>3 DEF IInv, VersionsAreALine, SchedulesFollowTheGraph, Active
  <2>9. HistoryIsKept'
    BY <1>3, <2>1, <2>2, <2>3 DEF IInv, HistoryIsKept
  <2>10. ASSUME NEW d \in Call, call'[d].kind = "cron"
         PROVE  Fired(call[d].schedule, call[d].at)'
    BY <2>3, <2>4, <2>10, Blanks DEF IInv, FiresOK, Fired
  <2>11. ASSUME NEW i \in DOMAIN runs', runs'[i].kind = "cron"
         PROVE  Fired(runs[i].schedule, runs[i].at)'
    <3>1. CASE i = k
      BY <2>1, <2>2, <2>3, <2>11, <3>1 DEF IInv, FiresOK, Fired
    <3>2. CASE i # k
      BY <2>2, <2>3, <2>11, <3>2 DEF IInv, FiresOK, Fired
    <3> QED BY <3>1, <3>2
  <2>12. FiresOK'
    BY <2>10, <2>11 DEF FiresOK
  <2>13. FiresDiffer' /\ MinuteIsWonOnce'
    BY <2>1, <2>2, <2>4, Blanks DEF IInv, FiresDiffer, MinuteIsWonOnce, SameFire
  <2> QED BY <2>5, <2>6, <2>7, <2>8, <2>9, <2>12, <2>13 DEF IInv
<1> QED
  BY <1>2, <1>3 DEF CreateRun

\* A run that ends stays in the history.
LEMMA EndRunKeeps == ASSUME IInv, NEW i \in DOMAIN runs, EndRun(i) PROVE IInv'
<1>1. /\ runs' = [runs EXCEPT ![i].active = FALSE]
      /\ UNCHANGED <<minute, wf, versions, schedules, publishes, lock, tick, call>>
  BY DEF EndRun, store
<1>2. /\ runs' \in Seq(Runs) /\ DOMAIN runs' = DOMAIN runs
      /\ \A j \in DOMAIN runs :
            /\ runs'[j].version = runs[j].version /\ runs'[j].kind = runs[j].kind
            /\ runs'[j].schedule = runs[j].schedule /\ runs'[j].at = runs[j].at
  <2>1. runs \in [1..Len(runs) -> Runs] /\ Len(runs) \in Nat /\ DOMAIN runs = 1..Len(runs)
    BY DEF IInv, VarsOK
  <2> DEFINE x == [runs[i] EXCEPT !.active = FALSE]
  <2>2. /\ x \in Runs /\ x.version = runs[i].version /\ x.kind = runs[i].kind
        /\ x.schedule = runs[i].schedule /\ x.at = runs[i].at
    BY <2>1 DEF Runs
  <2>3. runs' = [runs EXCEPT ![i] = x]
    BY <1>1, <2>1
  <2> HIDE DEF x
  <2>4. runs' \in [1..Len(runs) -> Runs]
    BY <2>1, <2>2, <2>3
  <2>5. runs' \in Seq(Runs)
    BY <2>1, <2>4
  <2> QED BY <2>1, <2>2, <2>3, <2>5
<1>3. VarsOK' /\ RowsOK' /\ LockOK'
  BY <1>1, <1>2 DEF IInv, VarsOK, RowsOK, LockOK, Active
<1>4. \A id : RunsOf(id)' = RunsOf(id)
  BY <1>2 DEF RunsOf
<1>5. DeletionsOK'
  <2>1. ASSUME NEW d \in Call PROVE Removing(call[d])'
    <3>1. PICK id : id = call[d].version.wf
      OBVIOUS
    <3>2. RunsOf(id)' = RunsOf(id)
      BY <1>4
    <3> QED BY <1>1, <3>1, <3>2 DEF IInv, DeletionsOK, Removing, RunsOf
  <2>2. wf'.reaped => RunsOf(wf.id)' # {}
    BY <1>1, <1>2 DEF IInv, DeletionsOK, RunsOf
  <2> QED BY <2>1, <2>2 DEF DeletionsOK
<1>6. VersionsAreALine' /\ SchedulesFollowTheGraph' /\ HistoryIsKept'
  <2>1. VersionsAreALine' /\ SchedulesFollowTheGraph'
    BY <1>1 DEF IInv, VersionsAreALine, SchedulesFollowTheGraph, Active
  <2>2. HistoryIsKept'
    BY <1>1, <1>2 DEF IInv, HistoryIsKept
  <2> QED BY <2>1, <2>2
<1>7. \A x \in Ids, at \in Nat : Fired(x, at) => Fired(x, at)'
  BY <1>1, FiredStays
<1>8. FiresOK' /\ FiresDiffer' /\ MinuteIsWonOnce'
  BY <1>1, <1>2, <1>7, FiresKeep
<1> QED
  BY <1>3, <1>5, <1>6, <1>8 DEF IInv

\* Time passes.
LEMMA NextMinuteKeeps == ASSUME IInv, NextMinute PROVE IInv'
<1>1. /\ minute' = minute + 1
      /\ UNCHANGED <<wf, versions, schedules, publishes, lock, runs, tick, call>>
  BY DEF NextMinute, store
<1>2. VarsOK' /\ LockOK' /\ DeletionsOK'
  BY <1>1 DEF IInv, VarsOK, LockOK, DeletionsOK, Removing, RunsOf
<1>3. RowsOK'
  BY <1>1 DEF IInv, VarsOK, RowsOK, Active
<1>4. VersionsAreALine' /\ SchedulesFollowTheGraph' /\ HistoryIsKept'
  BY <1>1 DEF IInv, VersionsAreALine, SchedulesFollowTheGraph, HistoryIsKept, Active
<1>5. \A x \in Ids, at \in Nat : Fired(x, at) => Fired(x, at)'
  BY <1>1, FiredStays
<1>6. FiresOK' /\ FiresDiffer' /\ MinuteIsWonOnce'
  BY <1>1, <1>5, FiresKeep
<1> QED
  BY <1>2, <1>3, <1>4, <1>6 DEF IInv

\* Every step keeps the invariant.
LEMMA NextKeeps == IInv /\ [Next]_vars => IInv'
<1> SUFFICES ASSUME IInv, [Next]_vars PROVE IInv'
  OBVIOUS
<1>1. CASE UNCHANGED vars
  <2>1. UNCHANGED <<minute, wf, versions, schedules, publishes, lock, runs, tick, call>>
    BY <1>1 DEF vars
  <2>2. VarsOK' /\ RowsOK' /\ LockOK' /\ DeletionsOK'
    BY <2>1 DEF IInv, VarsOK, RowsOK, LockOK, DeletionsOK, Removing, RunsOf, Active
  <2>3. VersionsAreALine' /\ SchedulesFollowTheGraph' /\ HistoryIsKept'
    BY <2>1 DEF IInv, VersionsAreALine, SchedulesFollowTheGraph, HistoryIsKept, Active
  <2>4. \A x \in Ids, at \in Nat : Fired(x, at) => Fired(x, at)'
    BY <2>1, FiredStays
  <2>5. FiresOK' /\ FiresDiffer' /\ MinuteIsWonOnce'
    BY <2>1, <2>4, FiresKeep
  <2> QED BY <2>2, <2>3, <2>5 DEF IInv
<1>2. ASSUME NEW c \in Call,
             \/ RequestPublish(c) \/ Upsert(c) \/ Commit(c)
             \/ RequestDelete(c) \/ Find(c) \/ HasActiveRuns(c) \/ HardDelete(c)
             \/ Snapshot(c) \/ Remove(c)
             \/ RequestRun(c) \/ RequestEmit(c) \/ List(c) \/ Match(c)
             \/ GetWorkflow(c) \/ CreateRun(c) \/ Die(c)
      PROVE  IInv'
  BY <1>2, RequestKeeps, UpsertKeeps, CommitKeeps, ReadersKeep, HardDeleteKeeps, SnapshotKeeps,
     RemoveKeeps, CreateRunKeeps, DieKeeps
<1>3. ASSUME NEW w \in Worker,
             \/ StartTick(w) \/ ListEnabled(w)
             \/ \E s \in tick[w].todo : Skip(w, s) \/ \E c \in Call : Claim(w, s, c)
      PROVE  IInv'
  BY <1>3, TickKeeps, ClaimKeeps
<1> QED
  BY <1>1, <1>2, <1>3, SetStatusKeeps, EndRunKeeps, NextMinuteKeeps DEF Next

\* The inductive invariant holds of every reachable state.
LEMMA Invariant == Spec => []IInv
BY InitIInv, NextKeeps, PTL DEF Spec

-----------------------------------------------------------------------------
(* Where fires come from                                                   *)

\* A step of a call never makes it a fire; only a claim does.
LEMMA OnlyClaimsFire ==
    ASSUME IInv, NEW c \in Call, NEW d \in Call,
           \/ RequestPublish(c) \/ Upsert(c) \/ Commit(c)
           \/ RequestDelete(c) \/ Find(c) \/ HasActiveRuns(c) \/ HardDelete(c)
           \/ Snapshot(c) \/ Remove(c)
           \/ RequestRun(c) \/ RequestEmit(c) \/ List(c) \/ Match(c)
           \/ GetWorkflow(c) \/ CreateRun(c) \/ Die(c),
           call'[d].kind = "cron"
    PROVE  call[d].kind = "cron"
<1>1. call \in [Call -> Calls] /\ call[c] \in Calls
  BY DEF IInv, VarsOK
<1>2. CASE RequestPublish(c) \/ RequestDelete(c) \/ RequestRun(c) \/ RequestEmit(c)
  <2>1. PICK e : call' = [call EXCEPT ![c] = e] /\ e.kind # "cron"
    <3>1. CASE RequestPublish(c)
      <4>1. PICK graph : call' = [call EXCEPT ![c] = [Idle EXCEPT !.pc = "upsert", !.graph = graph]]
        BY <3>1 DEF RequestPublish, Begin
      <4>2. [Idle EXCEPT !.pc = "upsert", !.graph = graph].kind = "none"
        BY DEF Idle
      <4> QED BY <4>1, <4>2
    <3>2. CASE RequestDelete(c)
      <4>1. [Idle EXCEPT !.pc = "find"].kind = "none"
        BY DEF Idle
      <4> QED BY <3>2, <4>1 DEF RequestDelete, Begin
    <3>3. CASE RequestRun(c)
      <4>1. [Idle EXCEPT !.pc = "getWorkflow", !.kind = "manual"].kind = "manual"
        BY DEF Idle
      <4> QED BY <3>3, <4>1 DEF RequestRun, Begin
    <3>4. CASE RequestEmit(c)
      <4>1. [Idle EXCEPT !.pc = "list", !.kind = "event"].kind = "event"
        BY DEF Idle
      <4> QED BY <3>4, <4>1 DEF RequestEmit, Begin
    <3> QED BY <1>2, <3>1, <3>2, <3>3, <3>4
  <2> QED BY <1>1, <2>1
<1>3. CASE Upsert(c)
  BY <1>1, <1>3, Blanks DEF Upsert, Stop, Calls
<1>4. CASE Commit(c) \/ Remove(c) \/ Die(c)
  BY <1>1, <1>4, Blanks DEF Commit, Remove, Die, Stop
<1>5. CASE Find(c) \/ List(c) \/ GetWorkflow(c)
  BY <1>1, <1>5, Blanks DEF Find, List, GetWorkflow, Stop, Calls
<1>6. CASE HasActiveRuns(c) \/ HardDelete(c) \/ Match(c) \/ CreateRun(c)
  <2>1. Stop(c) \/ \E pc : Goto(c, pc)
    BY <1>6 DEF HasActiveRuns, HardDelete, Match, CreateRun
  <2> QED BY <1>1, <2>1, Blanks DEF Stop, Goto, Calls
<1>7. CASE Snapshot(c)
  BY <1>1, <1>7 DEF Snapshot, Calls
<1> QED
  BY <1>2, <1>3, <1>4, <1>5, <1>6, <1>7

-----------------------------------------------------------------------------
(* What the workflow, its schedule and its runs promise                    *)

\* claimRun: any number of replicas tick in a minute, restart, and take their
\* time; a schedule row starts one run in it.
THEOREM MinuteIsWonByOne == Spec => []MinuteIsWonOnce
<1>1. IInv => MinuteIsWonOnce
  BY DEF IInv
<1> QED
  BY <1>1, Invariant, PTL

\* reconcileOnClient and the two deletions: in every state in which the workflow
\* is not removed, the enabled schedule is that of the active version.
THEOREM ScheduleIsTheGraphs == Spec => []SchedulesFollowTheGraph
<1>1. IInv => SchedulesFollowTheGraph
  BY DEF IInv
<1> QED
  BY <1>1, Invariant, PTL

\* Publishes serialize on the row of the workflow: the versions are numbered
\* from one, without a gap, and the workflow points at the last.
THEOREM VersionsStayALine == Spec => []VersionsAreALine
<1>1. IInv => VersionsAreALine
  BY DEF IInv
<1> QED
  BY <1>1, Invariant, PTL

\* hardDeleteUnreferenced and the foreign key: the version of a run is never
\* deleted.
THEOREM RunsKeepTheirVersion == Spec => []HistoryIsKept
<1>1. IInv => HistoryIsKept
  BY DEF IInv
<1> QED
  BY <1>1, Invariant, PTL

\* However old the list of a tick, the row it claims is that of the version that
\* is active when it claims it.
THEOREM TheCurrentScheduleFires == Spec => OnlyTheCurrentScheduleFires
<1>1. ASSUME IInv, [Next]_vars, NEW d \in Call, call[d].kind # "cron", call'[d].kind = "cron"
      PROVE  call'[d].schedule = Active
  <2>1. ASSUME NEW w \in Worker, NEW s \in tick[w].todo, NEW c \in Call, Claim(w, s, c)
        PROVE  call'[d].schedule = Active
    <3>1. s = Active
      BY <1>1, <2>1, ClaimKeeps
    <3>2. /\ call \in [Call -> Calls]
          /\ call' = [call EXCEPT ![c] =
                 [Idle EXCEPT !.pc = "getWorkflow", !.kind = "cron", !.by = w,
                              !.schedule = s, !.now = tick[w].now, !.at = minute]]
      BY <1>1, <2>1 DEF IInv, VarsOK, Claim, Begin
    <3> QED BY <1>1, <3>1, <3>2 DEF Idle
  <2>2. ASSUME NEW c \in Call,
               \/ RequestPublish(c) \/ Upsert(c) \/ Commit(c)
               \/ RequestDelete(c) \/ Find(c) \/ HasActiveRuns(c) \/ HardDelete(c)
               \/ Snapshot(c) \/ Remove(c)
               \/ RequestRun(c) \/ RequestEmit(c) \/ List(c) \/ Match(c)
               \/ GetWorkflow(c) \/ CreateRun(c) \/ Die(c)
        PROVE  FALSE
    BY <1>1, <2>2, OnlyClaimsFire
  <2>3. ASSUME UNCHANGED call PROVE FALSE
    BY <1>1, <2>3
  <2>4. ASSUME NEW w \in Worker,
               StartTick(w) \/ ListEnabled(w) \/ \E s \in tick[w].todo : Skip(w, s)
        PROVE  UNCHANGED call
    BY <2>4 DEF StartTick, ListEnabled, Skip
  <2> QED
    BY <1>1, <2>1, <2>2, <2>3, <2>4 DEF Next, vars, SetStatus, EndRun, NextMinute
<1>2. IInv /\ [Next]_vars =>
      [\A c \in Call : call[c].kind # "cron" /\ call'[c].kind = "cron"
                         => call'[c].schedule = Active]_vars
  BY <1>1
<1> QED
  BY <1>2, Invariant, PTL DEF Spec, OnlyTheCurrentScheduleFires

\* removeLogical: whatever was on its way, the row of a removed workflow does
\* not change any more.
THEOREM RemovedStays == Spec => RemovedIsFinal
<1>1. ASSUME IInv, [Next]_vars, wf.reaped PROVE wf' = wf
  <2>1. ASSUME NEW c \in Call, Commit(c) PROVE FALSE
    BY <1>1, <2>1 DEF Commit, At, IInv, LockOK
  <2>2. ASSUME NEW c \in Call, HardDelete(c) PROVE wf' = wf
    BY <1>1, <2>2 DEF HardDelete, Unreferenced, IInv, DeletionsOK
  <2>3. ASSUME NEW c \in Call, Remove(c) PROVE wf' = wf
    BY <1>1, <2>3 DEF Remove
  <2>4. ASSUME NEW status, SetStatus(status) PROVE FALSE
    BY <1>1, <2>4 DEF SetStatus, AdmitsStatus
  <2>5. ASSUME NEW c \in Call,
               \/ RequestPublish(c) \/ Upsert(c) \/ RequestDelete(c) \/ Find(c)
               \/ HasActiveRuns(c) \/ Snapshot(c) \/ RequestRun(c) \/ RequestEmit(c)
               \/ List(c) \/ Match(c) \/ GetWorkflow(c) \/ CreateRun(c) \/ Die(c)
        PROVE  wf' = wf
    BY <1>1, <2>5 DEF RequestPublish, Upsert, RequestDelete, Find, HasActiveRuns, Snapshot,
                      RequestRun, RequestEmit, List, Match, GetWorkflow, CreateRun, Die, store
  <2>6. ASSUME NEW w \in Worker,
               \/ StartTick(w) \/ ListEnabled(w)
               \/ \E s \in tick[w].todo : Skip(w, s) \/ \E c \in Call : Claim(w, s, c)
        PROVE  wf' = wf
    BY <2>6 DEF StartTick, ListEnabled, Skip, Claim, store
  <2> QED
    BY <1>1, <2>1, <2>2, <2>3, <2>4, <2>5, <2>6 DEF Next, vars, EndRun, NextMinute, store
<1>2. IInv /\ [Next]_vars => [wf.reaped => wf' = wf]_vars
  BY <1>1
<1> QED
  BY <1>2, Invariant, PTL DEF Spec, RemovedIsFinal
=============================================================================
