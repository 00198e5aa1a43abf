------------------------ MODULE BackgroundTasksProofs ------------------------
(***************************************************************************)
(* What holds of the background tasks for any number of tasks, gates,      *)
(* runners and drivers, whatever dies, is slow or answers late.            *)
(*                                                                         *)
(* The induction is on IInv, which adds to the types what a claim means:   *)
(* a row that can be claimed was not driven on its input, and an execution *)
(* that has not parked is on a row that it leases, or that is over.  A row *)
(* that the reaper failed keeps its lease, so what keeps a zombie from it  *)
(* is the status in Fenced.                                                *)
(***************************************************************************)
EXTENDS BackgroundTasks, TLAPS

Statuses == Terminal \cup {"none", "working", "input_required", "gone"}

Rows == [status : Statuses, lease : Proc \cup {NoProc}, silent : BOOLEAN,
         input : 0..MaxGates, gate : 0..MaxGates, drives : 0..2]

Execs ==
    {e \in [pc : {"idle", "claim", "run", "asked", "finish"}, task : Task \cup {0},
            seen : 0..MaxGates, parked : BOOLEAN, answered : BOOLEAN,
            outcome : {"none"} \cup Terminal] :
        e.pc = "finish" => e.outcome \in Terminal}

Types ==
    /\ tasks \in [Task -> Rows]
    /\ exec \in [Proc -> Execs]
    /\ faults \in 0..MaxFaults

\* A lease is on a row that is working or that the reaper failed, and what a
\* claim can get was not driven since it was started or answered.
SoundRow(row) ==
    /\ row.lease # NoProc => row.status \in {"working", "failed"}
    /\ row.drives <= 1
    /\ row.status = "none" \/ (row.status = "working" /\ row.lease = NoProc)
         => row.drives = 0

Runs(e) == e.pc \in {"run", "asked", "finish"}

\* p executes e: the row is leased to p or over, and as long as it is leased p
\* has seen its input, which nobody claimed but p.
SoundExec(p, e, row) ==
    Runs(e) =>
        /\ ~e.parked => \/ row.status = "working" /\ row.lease = p
                        \/ row.status \in {"failed", "gone"}
        /\ row.status \in {"working", "input_required"} /\ row.lease = p
             => e.seen = row.input /\ row.drives = 1

OnATask == \A p \in Proc : exec[p].pc # "idle" => exec[p].task \in Task

IInv ==
    /\ Types
    /\ \A t \in Task : SoundRow(tasks[t])
    /\ OnATask
    /\ \A p \in Proc : SoundExec(p, exec[p], tasks[exec[p].task])
    /\ ExecutedAlone

-----------------------------------------------------------------------------
(* The initial states                                                      *)

\* Before anything was started the invariant holds.
LEMMA InitIInv == Init => IInv
BY ProcAssumption, BoundsAssumption
   DEF Init, IInv, Types, Rows, Execs, Statuses, Terminal, Task, Proc, NoTask, Idle, SoundRow,
       SoundExec, Runs, OnATask, ExecutedAlone, Executing

-----------------------------------------------------------------------------
(* What a step may do to one row and to one process                        *)

\* A statement on one row keeps the invariant when the new row is sound and
\* the executions on it are sound with it.
LEMMA RowStep ==
    ASSUME NEW t \in Task, NEW row \in Rows, IInv,
           tasks' = [tasks EXCEPT ![t] = row], UNCHANGED <<exec, faults>>,
           SoundRow(row),
           \A q \in Proc : exec[q].task = t => SoundExec(q, exec[q], row)
    PROVE  IInv'
<1>1. Types'
  BY DEF IInv, Types
<1>2. \A u \in Task : SoundRow(tasks'[u])
  BY DEF IInv, Types
<1>3. OnATask' /\ ExecutedAlone'
  BY DEF IInv, OnATask, ExecutedAlone, Executing
<1>4. \A q \in Proc : SoundExec(q, exec'[q], tasks'[exec'[q].task])
  <2> SUFFICES ASSUME NEW q \in Proc, Runs(exec[q])
               PROVE  SoundExec(q, exec[q], tasks'[exec[q].task])
    BY DEF SoundExec
  <2>1. exec[q].task \in Task /\ SoundExec(q, exec[q], tasks[exec[q].task])
    BY DEF IInv, OnATask, Runs
  <2> QED
    BY <2>1 DEF IInv, Types
<1> QED
  BY <1>1, <1>2, <1>3, <1>4 DEF IInv

\* A step of one process, on its row or on the one it claims, keeps it when
\* also the process is sound after it, and alone on its task.
LEMMA ProcessStep ==
    ASSUME NEW t \in Task, NEW row \in Rows, NEW p \in Proc, NEW e \in Execs, IInv,
           tasks' = [tasks EXCEPT ![t] = row], exec' = [exec EXCEPT ![p] = e],
           faults' \in 0..MaxFaults,
           SoundRow(row),
           \A q \in Proc \ {p} : exec[q].task = t => SoundExec(q, exec[q], row),
           e.pc # "idle" => e.task = t,
           SoundExec(p, e, row),
           Runs(e) /\ ~e.parked =>
             \A q \in Proc \ {p} : Runs(exec[q]) /\ ~exec[q].parked => exec[q].task # t
    PROVE  IInv'
<1>1. Types'
  BY DEF IInv, Types
<1>2. \A u \in Task : SoundRow(tasks'[u])
  BY DEF IInv, Types
<1>3. exec'[p] = e /\ \A q \in Proc \ {p} : exec'[q] = exec[q]
  BY DEF IInv, Types
<1>4. OnATask'
  BY <1>3 DEF IInv, OnATask
<1>5. \A q \in Proc : SoundExec(q, exec'[q], tasks'[exec'[q].task])
  <2>1. SoundExec(p, e, tasks'[e.task])
    <3>1. CASE Runs(e)
      <4>1. e.task = t /\ tasks'[t] = row
        BY <3>1 DEF Runs, IInv, Types
      <4> QED BY <4>1
    <3>2. CASE ~Runs(e)
      BY <3>2 DEF SoundExec
    <3> QED BY <3>1, <3>2
  <2>2. ASSUME NEW q \in Proc \ {p}, Runs(exec[q])
        PROVE  SoundExec(q, exec[q], tasks'[exec[q].task])
    <3>1. exec[q].task \in Task /\ SoundExec(q, exec[q], tasks[exec[q].task])
      BY <2>2 DEF IInv, OnATask, Runs
    <3> QED BY <3>1 DEF IInv, Types
  <2>3. \A q \in Proc \ {p} : SoundExec(q, exec[q], tasks'[exec[q].task])
    BY <2>2 DEF SoundExec
  <2> QED BY <1>3, <2>1, <2>3
<1>6. ExecutedAlone'
  <2> SUFFICES ASSUME NEW q \in Proc, NEW r \in Proc, Runs(exec'[q]), Runs(exec'[r]),
                      ~exec'[q].parked, ~exec'[r].parked, exec'[q].task = exec'[r].task
               PROVE  q = r
    BY DEF ExecutedAlone, Executing, Runs
  <2>1. CASE q # p /\ r # p
    BY <1>3, <2>1 DEF IInv, ExecutedAlone, Executing, Runs
  <2>2. CASE q = p \/ r = p
    BY <1>3, <2>2 DEF Runs
  <2> QED BY <2>1, <2>2
<1> QED
  BY <1>1, <1>2, <1>4, <1>5, <1>6 DEF IInv

\* The same for a step of a process that leaves the rows alone, and the process
\* on its task or idle.
LEMMA LocalStep ==
    ASSUME NEW p \in Proc, NEW e \in Execs, IInv,
           UNCHANGED tasks, exec' = [exec EXCEPT ![p] = e], faults' \in 0..MaxFaults,
           \/ e.pc = "idle"
           \/ /\ exec[p].pc \in {"run", "asked"} /\ Runs(e)
              /\ e.task = exec[p].task /\ e.seen = exec[p].seen /\ e.parked = exec[p].parked
    PROVE  IInv'
<1>1. Types'
  BY DEF IInv, Types
<1>2. exec'[p] = e /\ \A q \in Proc \ {p} : exec'[q] = exec[q]
  BY DEF IInv, Types
<1>3. OnATask'
  BY <1>2 DEF IInv, OnATask, Runs
<1>4. \A q \in Proc : SoundExec(q, exec'[q], tasks'[exec'[q].task])
  <2>1. SoundExec(p, e, tasks[e.task])
    BY DEF IInv, SoundExec, Runs
  <2> QED BY <1>2, <2>1 DEF IInv
<1>5. ExecutedAlone'
  BY <1>2 DEF IInv, ExecutedAlone, Executing, Runs
<1> QED
  BY <1>1, <1>3, <1>4, <1>5 DEF IInv

\* An idle process is one that has not parked.
LEMMA IdleIsAnExec == Idle \in Execs /\ Idle.pc = "idle" /\ ~Idle.parked
BY BoundsAssumption DEF Idle, Execs

\* A process that is not idle has a task, and its row is as it should be.
LEMMA HasARow ==
    ASSUME NEW p \in Proc, IInv, exec[p].pc # "idle"
    PROVE  /\ exec[p] \in Execs /\ exec[p].task \in Task
           /\ Row(p) \in Rows /\ SoundRow(Row(p)) /\ SoundExec(p, exec[p], Row(p))
BY DEF IInv, Types, OnATask, Row

-----------------------------------------------------------------------------
(* Each action keeps the invariant                                         *)

\* A new task is working, unclaimed and not driven; nobody executes it.
LEMMA StartKeeps ==
    ASSUME NEW t \in Task, NEW r \in Runner, IInv, Start(t, r)
    PROVE  IInv'
<1> DEFINE row == [tasks[t] EXCEPT !.status = "working"]
           e == [Idle EXCEPT !.pc = "claim", !.task = t]
<1>1. r \in Proc /\ tasks[t] \in Rows /\ tasks[t].status = "none" /\ SoundRow(tasks[t])
  BY DEF Start, IInv, Types, Proc
<1>2. row \in Rows /\ row.status = "working" /\ row.lease = tasks[t].lease
        /\ row.drives = tasks[t].drives
  BY <1>1 DEF Rows, Statuses
<1>3. e \in Execs /\ e.pc = "claim" /\ e.task = t
  BY IdleIsAnExec DEF Execs
<1>4. SoundRow(row)
  BY <1>1, <1>2 DEF SoundRow
<1>5. \A q \in Proc : exec[q].task = t => ~(Runs(exec[q]) /\ ~exec[q].parked)
  BY <1>1 DEF IInv, SoundExec
<1>6. \A q \in Proc : exec[q].task = t => SoundExec(q, exec[q], row)
  <2>1. row.lease = NoProc /\ \A q \in Proc : q # NoProc
    BY <1>1, <1>2, ProcAssumption DEF SoundRow, Proc
  <2> QED BY <1>5, <2>1 DEF SoundExec
<1>7. tasks' = [tasks EXCEPT ![t] = row] /\ exec' = [exec EXCEPT ![r] = e]
        /\ faults' \in 0..MaxFaults
  BY DEF Start, Goto, IInv, Types
<1>8. SoundExec(r, e, row) /\ ~Runs(e)
  BY <1>3 DEF SoundExec, Runs
<1> HIDE DEF row, e
<1> QED
  BY <1>1, <1>2, <1>3, <1>4, <1>6, <1>7, <1>8, ProcessStep

\* The row was leased to nobody, so nobody is on it who has not parked, and
\* it was not driven: the claim is the first on its input.
LEMMA ClaimKeeps ==
    ASSUME NEW p \in Proc, IInv, Claim(p)
    PROVE  IInv'
<1>1. CASE Pending(p) = {}
  <2>1. UNCHANGED tasks /\ exec' = [exec EXCEPT ![p] = Idle] /\ faults' \in 0..MaxFaults
    BY <1>1 DEF Claim, Goto, IInv, Types
  <2> QED BY <2>1, IdleIsAnExec, LocalStep
<1>2. CASE Pending(p) # {}
  <2>1. PICK t \in Pending(p) :
          /\ Goto(p, [Idle EXCEPT !.pc = "run", !.task = t, !.seen = tasks[t].input])
          /\ tasks' = [tasks EXCEPT ![t].lease = p, ![t].silent = FALSE,
                                    ![t].drives = IF @ = 2 THEN 2 ELSE @ + 1]
    BY <1>2 DEF Claim
  <2> DEFINE row == [tasks[t] EXCEPT !.lease = p, !.silent = FALSE, !.drives = 1]
             e == [Idle EXCEPT !.pc = "run", !.task = t, !.seen = tasks[t].input]
  <2>2. t \in Task /\ Claimable(t)
    BY DEF Pending
  <2>3. tasks[t] \in Rows /\ tasks[t].drives = 0
    BY <2>2 DEF IInv, Types, SoundRow, Claimable
  <2>4. row \in Rows /\ row.status = "working" /\ row.lease = p /\ row.drives = 1
          /\ row.input = tasks[t].input
    <3>1. row.status = "working" /\ row.lease = p /\ row.drives = 1
            /\ row.input = tasks[t].input
      BY <2>2, <2>3 DEF Rows, Claimable
    <3>2. 1 \in 0..2
      OBVIOUS
    <3>3. row \in Rows
      BY <2>3, <3>2 DEF Rows
    <3> QED BY <3>1, <3>3
  <2>5. e \in Execs /\ e.pc = "run" /\ e.task = t /\ e.seen = tasks[t].input /\ ~e.parked
    BY <2>2, <2>3, IdleIsAnExec DEF Execs, Rows
  <2>6. \A q \in Proc : exec[q].task = t => ~(Runs(exec[q]) /\ ~exec[q].parked)
    BY <2>2, ProcAssumption DEF IInv, SoundExec, Claimable, Proc
  <2>7. \A q \in Proc \ {p} : exec[q].task = t => SoundExec(q, exec[q], row)
    BY <2>4, <2>6 DEF SoundExec
  <2>8. SoundRow(row) /\ SoundExec(p, e, row)
    BY <2>4, <2>5, ProcAssumption DEF SoundRow, SoundExec, Proc
  <2>9. tasks' = [tasks EXCEPT ![t] = row] /\ exec' = [exec EXCEPT ![p] = e]
          /\ faults' \in 0..MaxFaults
    <3>1. tasks \in [Task -> Rows] /\ exec' = [exec EXCEPT ![p] = e] /\ faults' \in 0..MaxFaults
      BY <2>1 DEF Goto, IInv, Types, Claim
    <3>2. tasks'[t] = row
      BY <2>1, <2>2, <2>3, <3>1 DEF Rows
    <3>3. tasks' \in [Task -> {tasks'[u] : u \in Task}] /\ \A u \in Task \ {t} : tasks'[u] = tasks[u]
      BY <2>1, <2>2, <3>1
    <3> HIDE DEF row, e
    <3> QED BY <2>2, <3>1, <3>2, <3>3
  <2> HIDE DEF row, e
  <2> QED
    BY <2>2, <2>4, <2>5, <2>6, <2>7, <2>8, <2>9, ProcessStep
<1> QED
  BY <1>1, <1>2

\* An executor that throws stays on its row as it was.
LEMMA ThrowsKeeps ==
    ASSUME NEW p \in Proc, IInv, exec[p].pc \in {"run", "asked"}, Throws(p),
           UNCHANGED <<tasks, faults>>
    PROVE  IInv'
<1> DEFINE e == [exec[p] EXCEPT !.pc = "finish", !.outcome = "failed"]
<1>1. e \in Execs /\ Runs(e) /\ e.task = exec[p].task /\ e.seen = exec[p].seen
        /\ e.parked = exec[p].parked
  BY DEF IInv, Types, Execs, Runs, Terminal
<1>2. UNCHANGED tasks /\ exec' = [exec EXCEPT ![p] = e] /\ faults' \in 0..MaxFaults
  BY DEF Throws, Goto, IInv, Types
<1> HIDE DEF e
<1> QED
  BY <1>1, <1>2, LocalStep

\* A sign of life changes nothing that the invariant speaks of.
LEMMA TouchKeeps ==
    ASSUME NEW p \in Proc, IInv, Touch(p)
    PROVE  IInv'
<1>1. CASE ~Fenced(p)
  BY <1>1, ThrowsKeeps DEF Touch, At
<1>2. CASE Fenced(p)
  <2> DEFINE t == exec[p].task
             row == [Row(p) EXCEPT !.silent = FALSE]
  <2>1. t \in Task /\ Row(p) \in Rows /\ SoundRow(Row(p)) /\ Row(p) = tasks[t]
    BY HasARow DEF Touch, At, Row
  <2>2. /\ row \in Rows /\ row.status = tasks[t].status /\ row.lease = tasks[t].lease
        /\ row.input = tasks[t].input /\ row.drives = tasks[t].drives
    BY <2>1 DEF Rows
  <2>3. SoundRow(row) /\ \A q \in Proc : exec[q].task = t => SoundExec(q, exec[q], row)
    BY <2>1, <2>2 DEF IInv, SoundRow, SoundExec
  <2>4. tasks' = [tasks EXCEPT ![t] = row] /\ UNCHANGED <<exec, faults>>
    BY <1>2 DEF Touch, SetRow, Throws, Goto
  <2> HIDE DEF t, row
  <2> QED
    BY <2>1, <2>2, <2>3, <2>4, RowStep
<1> QED
  BY <1>1, <1>2

\* Who writes to a row under its lease is the only one on it that has not
\* parked: a write that gives up the lease is sound for the others.
LEMMA OwnerLeaves ==
    ASSUME NEW p \in Proc, IInv, exec[p].pc # "idle", Fenced(p),
           NEW row, row.lease = NoProc
    PROVE  \A q \in Proc \ {p} : exec[q].task = exec[p].task => SoundExec(q, exec[q], row)
<1> SUFFICES ASSUME NEW q \in Proc \ {p}, exec[q].task = exec[p].task
             PROVE  SoundExec(q, exec[q], row)
  OBVIOUS
<1>1. SoundExec(q, exec[q], Row(p))
  BY DEF IInv, Row
<1>2. Runs(exec[q]) => exec[q].parked
  BY <1>1 DEF SoundExec, Fenced
<1>3. row.lease # q
  BY ProcAssumption DEF Proc
<1> QED
  BY <1>2, <1>3 DEF SoundExec

\* A task parks with no lease, and its executor is on its way out.
LEMMA ParkKeeps ==
    ASSUME NEW p \in Proc, IInv, Park(p)
    PROVE  IInv'
<1>1. CASE ~Fenced(p)
  BY <1>1, ThrowsKeeps DEF Park, At
<1>2. CASE Fenced(p)
  <2> DEFINE t == exec[p].task
             g == exec[p].seen + 1
             row == Parked(Row(p), g)
             e == [exec[p] EXCEPT !.parked = TRUE]
  <2>1. /\ exec[p].pc = "run" /\ exec[p].seen < MaxGates
        /\ tasks' = [tasks EXCEPT ![t] = row] /\ exec' = [exec EXCEPT ![p] = e]
        /\ faults' \in 0..MaxFaults
    BY <1>2 DEF Park, At, SetRow, Goto, Throws, IInv, Types
  <2>2. t \in Task /\ exec[p] \in Execs /\ Row(p) \in Rows /\ SoundRow(Row(p))
    BY <2>1, HasARow
  <2>3. g \in 0..MaxGates
    BY <2>1, <2>2, BoundsAssumption DEF Execs
  <2>4. row.status = "input_required" /\ row.lease = NoProc /\ row.drives = Row(p).drives
    BY <2>2 DEF Parked, Rows
  <2>5. row \in Rows
    BY <2>2, <2>3 DEF Parked, Rows, Statuses
  <2>6. e \in Execs /\ e.task = t /\ e.parked /\ e.pc = "run"
    BY <2>1, <2>2 DEF Execs
  <2>7. SoundRow(row) /\ SoundExec(p, e, row)
    BY <2>2, <2>4, <2>6, ProcAssumption DEF SoundRow, SoundExec, Proc
  <2>8. \A q \in Proc \ {p} : exec[q].task = t => SoundExec(q, exec[q], row)
    BY <1>2, <2>1, <2>4, OwnerLeaves
  <2> HIDE DEF t, g, row, e
  <2> QED
    BY <2>1, <2>2, <2>5, <2>6, <2>7, <2>8, ProcessStep
<1> QED
  BY <1>1, <1>2

\* The sub-agent's answer is the executor's own.
LEMMA AskKeeps ==
    ASSUME NEW p \in Proc, IInv, Ask(p)
    PROVE  IInv'
<1>1. CASE Throws(p)
  BY <1>1, ThrowsKeeps DEF Ask, At
<1>2. CASE ~Throws(p)
  <2> DEFINE e == [exec[p] EXCEPT !.pc = "asked", !.answered = TRUE]
  <2>1. exec[p].pc = "run" /\ UNCHANGED tasks /\ exec' = [exec EXCEPT ![p] = e]
          /\ faults' \in 0..MaxFaults
    BY <1>2 DEF Ask, At, Goto, IInv, Types
  <2>2. e \in Execs /\ Runs(e) /\ e.task = exec[p].task /\ e.seen = exec[p].seen
          /\ e.parked = exec[p].parked
    BY <2>1 DEF IInv, Types, Execs, Runs
  <2> HIDE DEF e
  <2> QED BY <2>1, <2>2, LocalStep
<1> QED
  BY <1>1, <1>2

\* So is the outcome it returns.
LEMMA AnsweredKeeps ==
    ASSUME NEW p \in Proc, IInv, Answered(p)
    PROVE  IInv'
<1>1. CASE ~Fenced(p)
  BY <1>1, ThrowsKeeps DEF Answered, At
<1>2. CASE Fenced(p)
  <2> DEFINE e == [exec[p] EXCEPT !.pc = "finish", !.outcome = "completed"]
  <2>1. exec[p].pc = "asked" /\ UNCHANGED tasks /\ exec' = [exec EXCEPT ![p] = e]
          /\ faults' \in 0..MaxFaults
    BY <1>2 DEF Answered, At, Goto, IInv, Types
  <2>2. e \in Execs /\ Runs(e) /\ e.task = exec[p].task /\ e.seen = exec[p].seen
          /\ e.parked = exec[p].parked
    BY <2>1 DEF IInv, Types, Execs, Runs, Terminal
  <2> HIDE DEF e
  <2> QED BY <2>1, <2>2, LocalStep
<1> QED
  BY <1>1, <1>2

\* A task ends with no lease, unless it had parked or the lease was lost.
LEMMA FinishKeeps ==
    ASSUME NEW p \in Proc, IInv, Finish(p)
    PROVE  IInv'
<1>1. CASE ~(~exec[p].parked /\ Fenced(p))
  <2>1. UNCHANGED tasks /\ exec' = [exec EXCEPT ![p] = Idle] /\ faults' \in 0..MaxFaults
    BY <1>1 DEF Finish, Goto, IInv, Types
  <2> QED BY <2>1, IdleIsAnExec, LocalStep
<1>2. CASE ~exec[p].parked /\ Fenced(p)
  <2> DEFINE t == exec[p].task
             row == [Row(p) EXCEPT !.status = exec[p].outcome, !.lease = NoProc]
  <2>1. /\ exec[p].pc = "finish"
        /\ tasks' = [tasks EXCEPT ![t] = row] /\ exec' = [exec EXCEPT ![p] = Idle]
        /\ faults' \in 0..MaxFaults
    BY <1>2 DEF Finish, At, SetRow, Goto, IInv, Types
  <2>2. t \in Task /\ exec[p] \in Execs /\ Row(p) \in Rows /\ SoundRow(Row(p))
    BY <2>1, HasARow
  <2>3. row.status \in Terminal /\ row.lease = NoProc /\ row.drives = Row(p).drives
    BY <2>1, <2>2 DEF Execs, Rows
  <2>4. row \in Rows
    BY <2>1, <2>2 DEF Execs, Rows, Statuses
  <2>5. SoundRow(row) /\ SoundExec(p, Idle, row) /\ ~Runs(Idle)
    BY <2>2, <2>3, IdleIsAnExec DEF SoundRow, SoundExec, Runs, Terminal
  <2>6. \A q \in Proc \ {p} : exec[q].task = t => SoundExec(q, exec[q], row)
    BY <1>2, <2>1, <2>3, OwnerLeaves
  <2> HIDE DEF t, row
  <2> QED
    BY <2>1, <2>2, <2>4, <2>5, <2>6, IdleIsAnExec, ProcessStep
<1> QED
  BY <1>1, <1>2

\* Who dies is gone; the row keeps the lease.
LEMMA DieKeeps ==
    ASSUME NEW p \in Proc, IInv, Die(p)
    PROVE  IInv'
<1>1. UNCHANGED tasks /\ exec' = [exec EXCEPT ![p] = Idle]
  BY DEF Die, Goto
<1>2. faults' \in 0..MaxFaults
  BY BoundsAssumption DEF Die, IInv, Types
<1> QED
  BY <1>1, <1>2, IdleIsAnExec, LocalStep

\* An answer makes a parked row claimable, with nothing driven on it yet; its
\* last executor has parked, and holds no lease.
LEMMA ProvideInputKeeps ==
    ASSUME NEW t \in Task, NEW g \in 1..MaxGates, IInv, ProvideInput(t, g)
    PROVE  IInv'
<1> DEFINE row == Resumed(tasks[t], g)
<1>1. tasks[t] \in Rows /\ tasks[t].status = "input_required" /\ SoundRow(tasks[t])
  BY DEF ProvideInput, Answerable, IInv, Types
<1>2. tasks[t].lease = NoProc
  BY <1>1 DEF SoundRow
<1>3. row.status = "working" /\ row.lease = NoProc /\ row.drives = 0
  BY <1>1, <1>2 DEF Resumed, Rows
<1>4. row \in Rows
  <2>1. g \in 0..MaxGates /\ 0 \in 0..2
    BY BoundsAssumption
  <2> QED BY <1>1, <2>1 DEF Resumed, Rows, Statuses
<1>5. SoundRow(row)
  BY <1>3 DEF SoundRow
<1>6. \A q \in Proc : exec[q].task = t => SoundExec(q, exec[q], row)
  <2>1. \A q \in Proc : exec[q].task = t => ~(Runs(exec[q]) /\ ~exec[q].parked)
    BY <1>1 DEF IInv, SoundExec
  <2>2. \A q \in Proc : q # NoProc
    BY ProcAssumption DEF Proc
  <2> QED BY <1>3, <2>1, <2>2 DEF SoundExec
<1>7. tasks' = [tasks EXCEPT ![t] = row] /\ UNCHANGED <<exec, faults>>
  BY DEF ProvideInput
<1> HIDE DEF row
<1> QED
  BY <1>4, <1>5, <1>6, <1>7, RowStep

\* Nothing but the row's silence changes.
LEMMA SilenceKeeps ==
    ASSUME NEW t \in Task, IInv, Silence(t)
    PROVE  IInv'
<1> DEFINE row == [tasks[t] EXCEPT !.silent = TRUE]
<1>1. tasks[t] \in Rows
  BY DEF IInv, Types
<1>2. /\ row \in Rows /\ row.status = tasks[t].status /\ row.lease = tasks[t].lease
      /\ row.input = tasks[t].input /\ row.drives = tasks[t].drives
  BY <1>1 DEF Rows
<1>3. SoundRow(row) /\ \A q \in Proc : exec[q].task = t => SoundExec(q, exec[q], row)
  BY <1>2 DEF IInv, SoundRow, SoundExec
<1>4. tasks' = [tasks EXCEPT ![t] = row] /\ UNCHANGED <<exec, faults>>
  BY DEF Silence
<1> HIDE DEF row
<1> QED
  BY <1>1, <1>2, <1>3, <1>4, RowStep

\* The reaper ends a row for whoever is on it.
LEMMA ReapKeeps ==
    ASSUME NEW t \in Task, IInv, Reap(t)
    PROVE  IInv'
<1>1. tasks[t] \in Rows /\ SoundRow(tasks[t])
  BY DEF IInv, Types
<1>2. ASSUME NEW row \in Rows, tasks' = [tasks EXCEPT ![t] = row], SoundRow(row),
             row.status \in {"failed", "gone"}
      PROVE  IInv'
  <2>1. \A q \in Proc : SoundExec(q, exec[q], row)
    BY <1>2 DEF SoundExec
  <2>2. UNCHANGED <<exec, faults>>
    BY DEF Reap
  <2> QED BY <1>2, <2>1, <2>2, RowStep
<1>3. CASE Stale(t) /\ tasks' = [tasks EXCEPT ![t] = Abandoned(@)]
  <2> DEFINE row == Abandoned(tasks[t])
  <2>1. row \in Rows /\ row.status = "failed" /\ row.drives = tasks[t].drives
    BY <1>1 DEF Abandoned, Rows, Statuses, Terminal
  <2>2. SoundRow(row) /\ tasks' = [tasks EXCEPT ![t] = row]
    BY <1>1, <1>3, <2>1 DEF SoundRow
  <2> HIDE DEF row
  <2> QED BY <1>2, <2>1, <2>2
<1>4. CASE tasks' = [tasks EXCEPT ![t] = [NoTask EXCEPT !.status = "gone"]]
  <2> DEFINE row == [NoTask EXCEPT !.status = "gone"]
  <2>1. row.status = "gone" /\ row.lease = NoProc /\ row.drives = 0
    BY DEF NoTask
  <2>2. row \in Rows
    <3>1. NoTask \in Rows
      BY BoundsAssumption DEF NoTask, Rows, Statuses
    <3> QED BY <3>1 DEF Rows, Statuses
  <2>3. SoundRow(row)
    BY <2>1 DEF SoundRow
  <2>4. tasks' = [tasks EXCEPT ![t] = row] /\ row.status \in {"failed", "gone"}
    BY <1>4, <2>1
  <2> HIDE DEF row
  <2> QED BY <1>2, <2>2, <2>3, <2>4
<1> QED
  BY <1>3, <1>4 DEF Reap

\* Every step keeps the invariant.
LEMMA NextKeeps == IInv /\ [Next]_vars => IInv'
<1> SUFFICES ASSUME IInv, [Next]_vars PROVE IInv'
  OBVIOUS
<1>1. ASSUME NEW p \in Proc, Continue(p) \/ Touch(p) \/ Die(p)
      PROVE  IInv'
  BY <1>1, ClaimKeeps, ParkKeeps, AskKeeps, AnsweredKeeps, FinishKeeps, TouchKeeps, DieKeeps
     DEF Continue
<1>2. ASSUME NEW t \in Task, NEW r \in Runner, Start(t, r)
      PROVE  IInv'
  BY <1>2, StartKeeps
<1>3. ASSUME NEW t \in Task, NEW g \in 1..MaxGates, ProvideInput(t, g)
      PROVE  IInv'
  BY <1>3, ProvideInputKeeps
<1>4. ASSUME NEW t \in Task, Silence(t) \/ Reap(t)
      PROVE  IInv'
  BY <1>4, SilenceKeeps, ReapKeeps
<1>5. CASE UNCHANGED vars
  BY <1>5 DEF vars, IInv, Types, OnATask, ExecutedAlone, Executing
<1> QED
  BY <1>1, <1>2, <1>3, <1>4, <1>5 DEF Next

\* The inductive invariant holds of every reachable state.
LEMMA Invariant == Spec => []IInv
BY InitIInv, NextKeeps, PTL DEF Spec

-----------------------------------------------------------------------------
(* The theorems                                                            *)

\* Rows, leases and locals are what the code puts there.
THEOREM TypeCorrect == Spec => []TypeOK
<1>1. IInv => TypeOK
  BY DEF IInv, Types, Rows, Execs, Statuses, SoundRow, OnATask, TypeOK, Executing
<1> QED
  BY <1>1, Invariant, PTL

\* However many replicas sweep and whatever dies, no two executors that have not
\* parked work on one task: the lease of a failed row is never drawn again.
THEOREM ExecutedByOne == Spec => []ExecutedAlone
<1>1. IInv => ExecutedAlone
  BY DEF IInv
<1> QED
  BY <1>1, Invariant, PTL

\* No task is claimed twice on the same input, so that what its executor did
\* before it died is not done again: the reaper fails such a task, and no
\* statement of the store gives a lease back.
THEOREM ClaimedOnce == Spec => []NeverReDriven
<1>1. IInv => NeverReDriven
  BY DEF IInv, SoundRow, NeverReDriven
<1> QED
  BY <1>1, Invariant, PTL

\* Whoever may still end a task was started on its last answer.
THEOREM OwnerSawTheLastAnswer == Spec => []LastAnswerSeen
<1>1. IInv => LastAnswerSeen
  BY DEF IInv, SoundExec, Runs, LastAnswerSeen, Executing, Fenced, Row
<1> QED
  BY <1>1, Invariant, PTL

\* A recorded outcome is never replaced: every statement that moves a row is
\* guarded by a status that is not terminal, and a task is started only once.
THEOREM OutcomeStays == Spec => OutcomeIsFinal
<1>1. IInv /\ [Next]_vars =>
        [\A t \in Task : tasks[t].status \in Terminal
           => tasks'[t].status \in {tasks[t].status, "gone"}]_vars
  <2> SUFFICES ASSUME IInv, Next, NEW t \in Task, tasks[t].status \in Terminal
               PROVE  tasks'[t].status \in {tasks[t].status, "gone"}
    BY DEF vars
  <2>1. tasks \in [Task -> Rows] /\ tasks[t].status \notin {"none", "working", "input_required"}
    BY DEF IInv, Types, Terminal
  <2>2. ASSUME NEW p \in Proc, Continue(p) \/ Touch(p) \/ Die(p)
        PROVE  tasks'[t] = tasks[t]
    <3>1. CASE Claim(p)
      <4>1. \A u \in Pending(p) : u # t
        BY <2>1 DEF Pending, Claimable
      <4> QED BY <2>1, <3>1, <4>1 DEF Claim
    <3>2. CASE Park(p) \/ Touch(p) \/ Finish(p)
      <4>1. Fenced(p) => exec[p].task # t
        BY <2>1 DEF Fenced, Row
      <4> QED BY <2>1, <3>2, <4>1 DEF Park, Touch, Finish, SetRow
    <3>3. CASE Ask(p) \/ Answered(p) \/ Die(p)
      BY <3>3 DEF Ask, Answered, Die
    <3> QED BY <2>2, <3>1, <3>2, <3>3 DEF Continue
  <2>3. ASSUME NEW u \in Task, NEW r \in Runner, Start(u, r)
        PROVE  tasks'[t] = tasks[t]
    BY <2>1, <2>3 DEF Start
  <2>4. ASSUME NEW u \in Task, NEW g \in 1..MaxGates, ProvideInput(u, g)
        PROVE  tasks'[t] = tasks[t]
    BY <2>1, <2>4 DEF ProvideInput, Answerable
  <2>5. ASSUME NEW u \in Task, Silence(u)
        PROVE  tasks'[t] = tasks[t]
    BY <2>1, <2>5 DEF Silence
  <2>6. ASSUME NEW u \in Task, Reap(u)
        PROVE  tasks'[t].status \in {tasks[t].status, "gone"}
    BY <2>1, <2>6 DEF Reap, Stale, NoTask
  <2> QED
    BY <2>2, <2>3, <2>4, <2>5, <2>6 DEF Next
<1> QED
  BY <1>1, Invariant, PTL DEF Spec, OutcomeIsFinal
=============================================================================
