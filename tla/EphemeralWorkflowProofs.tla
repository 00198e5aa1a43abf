----------------------- MODULE EphemeralWorkflowProofs -----------------------
(***************************************************************************)
(* What holds of the workflows agents generate for any number of           *)
(* workflows, calls, disposals and faults.                                 *)
(*                                                                         *)
(* TypeOK and the bound on bursts hold for any Events.  LeftAlone needs    *)
(* that a start is over before the TTL is, and that a request to cancel    *)
(* reaches the run it is for (README.md says what happens otherwise).  Its *)
(* induction is on Undisturbed: whoever is starting a workflow is alone    *)
(* with it, and a disposal that is past the cancel has nothing left to     *)
(* take away.                                                              *)
(***************************************************************************)
EXTENDS EphemeralWorkflow, FiniteSetTheorems, TLAPS

Workflows == [phase : {"none", "live", "reaped", "gone"}, expired : BOOLEAN,
              state : BOOLEAN, saving : BOOLEAN]
Runs      == [status : {"none", "running", "waiting", "ended"}, cancel : BOOLEAN]
Procs     == [pc : {"idle", "publish", "read", "insert", "cancel", "purge", "mark", "delete"},
              w : Workflow \cup {None}, snapshot : BOOLEAN]

Unborn(p) == proc[p].pc \in {"idle", "publish"}

\* Whoever is past the publish is about a workflow that was published, and one
\* that was not has neither run nor TTL.
Typed ==
    /\ wf \in [Workflow -> Workflows]
    /\ run \in [Workflow -> Runs]
    /\ proc \in [Proc -> Procs]
    /\ faults \in 0..MaxFaults
    /\ \A w \in Workflow :
          /\ wf[w].phase = "none" => ~wf[w].expired
          /\ wf[w].phase \in {"none", "gone"} => run[w].status = "none"
          /\ run[w].status = "none" => ~run[w].cancel
    /\ \A p \in Proc : ~Unborn(p) => proc[p].w \in Workflow /\ wf[proc[p].w].phase # "none"
    /\ \A p \in Proc : proc[p].pc \in {"publish", "read", "insert"} => p \in Call

Undisturbed ==
    /\ \A c \in Proc : proc[c].pc \in {"read", "insert"} =>
          /\ Live(proc[c].w) /\ ~wf[proc[c].w].expired
          /\ run[proc[c].w].status = "none"
          /\ \A p \in Proc \ {c} : ~Unborn(p) => proc[p].w # proc[c].w
    /\ \A p \in Proc : proc[p].pc \in {"purge", "mark"} =>
          (Active(proc[p].w) => run[proc[p].w].cancel)
    /\ \A w \in Workflow : Active(w) /\ ~run[w].cancel => Live(w) \/ wf[w].expired

IInv == Typed /\ Undisturbed

\* Starts are over before the TTL is, and requests to cancel reach their run.
Calm == "tight" \notin Events /\ "orphan" \notin Events

\* Creates that have counted, and have not made their run yet.
InCreate(c) == proc[c].pc \in {"publish", "read", "insert"}
Creating    == {c \in Call : InCreate(c)}
ActiveOnes  == {w \in Workflow : Active(w)}

Burst == ActiveRuns + Cardinality(Creating) <= MaxActive + Cardinality(Call) - 1

-----------------------------------------------------------------------------
(* The moves of a process, and of a run                                    *)

Pcs == {"idle", "publish", "read", "insert", "cancel", "purge", "mark", "delete"}

LEMMA Going ==
    ASSUME Typed, NEW p \in Proc, NEW pc \in Pcs, Goto(p, pc)
    PROVE  /\ proc' \in [Proc -> Procs]
           /\ proc'[p].pc = pc /\ proc'[p].w = proc[p].w
           /\ \A q \in Proc \ {p} : proc'[q] = proc[q]
<1> DEFINE e == [proc[p] EXCEPT !.pc = pc]
<1>1. e \in Procs /\ e.pc = pc /\ e.w = proc[p].w
  BY DEF Typed, Procs, Pcs
<1>2. proc' = [proc EXCEPT ![p] = e]
  BY DEF Goto, Typed
<1> HIDE DEF e
<1> QED
  BY <1>1, <1>2 DEF Typed

LEMMA Stopping ==
    ASSUME Typed, NEW p \in Proc, Stop(p)
    PROVE  /\ proc' \in [Proc -> Procs]
           /\ proc'[p].pc = "idle"
           /\ \A q \in Proc \ {p} : proc'[q] = proc[q]
<1>1. Idle \in Procs /\ Idle.pc = "idle"
  BY DEF Idle, Procs
<1> QED
  BY <1>1 DEF Stop, Typed

\* A process comes to a workflow.
LEMMA Coming ==
    ASSUME Typed, NEW p \in Proc, NEW pc \in Pcs, NEW w \in Workflow,
           proc' = [proc EXCEPT ![p].pc = pc, ![p].w = w]
    PROVE  /\ proc' \in [Proc -> Procs]
           /\ proc'[p].pc = pc /\ proc'[p].w = w
           /\ \A q \in Proc \ {p} : proc'[q] = proc[q]
<1> DEFINE e == [proc[p] EXCEPT !.pc = pc, !.w = w]
<1>1. e \in Procs /\ e.pc = pc /\ e.w = w
  BY DEF Typed, Procs, Pcs
<1>2. proc' = [proc EXCEPT ![p] = e]
  BY DEF Typed
<1> HIDE DEF e
<1> QED
  BY <1>1, <1>2 DEF Typed

LEMMA Turning ==
    ASSUME Typed, NEW w \in Workflow, NEW status \in {"running", "waiting", "ended"},
           SetRun(w, status)
    PROVE  /\ run' \in [Workflow -> Runs]
           /\ run'[w].status = status /\ run'[w].cancel = run[w].cancel
           /\ \A v \in Workflow \ {w} : run'[v] = run[v]
<1> DEFINE e == [run[w] EXCEPT !.status = status]
<1>1. e \in Runs /\ e.status = status /\ e.cancel = run[w].cancel
  BY DEF Typed, Runs
<1>2. run' = [run EXCEPT ![w] = e]
  BY DEF SetRun, Typed
<1> HIDE DEF e
<1> QED
  BY <1>1, <1>2 DEF Typed

\* The request to cancel.
LEMMA Requesting ==
    ASSUME Typed, NEW w \in Workflow, run' = [run EXCEPT ![w] = Cancelled(w)]
    PROVE  /\ run' \in [Workflow -> Runs]
           /\ run'[w].status = run[w].status
           /\ Active(w) => run'[w].cancel = TRUE
           /\ ~Active(w) => run'[w].cancel = run[w].cancel
           /\ \A v \in Workflow \ {w} : run'[v] = run[v]
<1> DEFINE e == Cancelled(w)
<1>1. /\ e \in Runs /\ e.status = run[w].status
      /\ Active(w) => e.cancel = TRUE
      /\ ~Active(w) => e.cancel = run[w].cancel
  BY DEF Typed, Runs, Cancelled
<1>2. run' = [run EXCEPT ![w] = e]
  OBVIOUS
<1> HIDE DEF e
<1> QED
  BY <1>1, <1>2 DEF Typed

-----------------------------------------------------------------------------
(* The types                                                               *)

LEMMA TypedAtFirst == Init => Typed
BY BoundsAssumption DEF Init, Typed, Workflows, Runs, Procs, Unborn, NoWorkflow, NoRun, Idle, None

\* A step that moves one process and leaves the workflows alone.
LEMMA ProcessesKeepTypes ==
    ASSUME Typed, wf' = wf, run' \in [Workflow -> Runs], faults' \in 0..MaxFaults,
           NEW p \in Proc,
           proc' \in [Proc -> Procs], \A q \in Proc \ {p} : proc'[q] = proc[q],
           \A w \in Workflow :
               /\ run'[w].status = "none" => run[w].status = "none" /\ run'[w].cancel = run[w].cancel
               /\ wf[w].phase \in {"none", "gone"} => run'[w].status = run[w].status,
           \/ proc'[p].pc \in {"idle", "publish"}
           \/ proc'[p].w \in Workflow /\ wf[proc'[p].w].phase # "none",
           proc'[p].pc \in {"publish", "read", "insert"} => p \in Call
    PROVE  Typed'
BY DEF Typed, Unborn

LEMMA CreatingKeeps ==
    ASSUME Typed, NEW c \in Call,
           \/ Count(c) \/ Read(c) \/ Insert(c) \/ StartFails(c) \/ CancelFails(c)
           \/ \E w \in Workflow : Publish(c, w)
    PROVE  Typed' /\ (Calm /\ Undisturbed => Undisturbed')
<1>1. c \in Proc
  BY DEF Proc
<1>2. CASE Count(c)
  <2>1. Goto(c, "publish") /\ UNCHANGED <<wf, run, faults>>
    BY <1>2 DEF Count
  <2>2. /\ proc' \in [Proc -> Procs] /\ proc'[c].pc = "publish"
        /\ \A q \in Proc \ {c} : proc'[q] = proc[q]
    BY <1>1, <2>1, Going DEF Pcs
  <2>typed. Typed'
    BY <1>1, <2>1, <2>2, ProcessesKeepTypes DEF Typed
  <2>calm. Calm /\ Undisturbed => Undisturbed'
    BY <1>1, <2>1, <2>2 DEF Typed, Undisturbed, Unborn, Live, Active, Calm
  <2> QED BY <2>typed, <2>calm
<1>3. ASSUME NEW w \in Workflow, Publish(c, w) PROVE Typed' /\ (Calm /\ Undisturbed => Undisturbed')
  <2>1. /\ wf[w].phase = "none" /\ wf' = [wf EXCEPT ![w].phase = "live"]
        /\ proc' = [proc EXCEPT ![c].pc = "read", ![c].w = w]
        /\ UNCHANGED <<run, faults>>
    BY <1>3 DEF Publish
  <2>2. /\ proc' \in [Proc -> Procs] /\ proc'[c].pc = "read" /\ proc'[c].w = w
        /\ \A q \in Proc \ {c} : proc'[q] = proc[q]
    BY <1>1, <2>1, Coming DEF Pcs
  <2>3. /\ wf' \in [Workflow -> Workflows] /\ wf'[w].phase = "live"
        /\ wf'[w].expired = wf[w].expired
        /\ \A v \in Workflow \ {w} : wf'[v] = wf[v]
    BY <2>1 DEF Typed, Workflows
  <2>typed. Typed'
    BY <1>1, <2>1, <2>2, <2>3 DEF Typed, Unborn
  <2>calm. Calm /\ Undisturbed => Undisturbed'
    BY <1>1, <2>1, <2>2, <2>3 DEF Typed, Undisturbed, Unborn, Live, Active, Calm
  <2> QED BY <2>typed, <2>calm
<1>4. CASE Read(c)
  <2>1. /\ proc[c].pc = "read" /\ UNCHANGED <<wf, run, faults>>
        /\ Goto(c, "insert") \/ Goto(c, "cancel")
    BY <1>4 DEF Read, At
  <2>2. /\ proc' \in [Proc -> Procs] /\ proc'[c].pc \in {"insert", "cancel"}
        /\ proc'[c].w = proc[c].w
        /\ \A q \in Proc \ {c} : proc'[q] = proc[q]
    BY <1>1, <2>1, Going DEF Pcs
  <2>typed. Typed'
    BY <1>1, <2>1, <2>2, ProcessesKeepTypes DEF Typed, Unborn
  <2>calm. Calm /\ Undisturbed => Undisturbed'
    BY <1>1, <2>1, <2>2 DEF Typed, Undisturbed, Unborn, Live, Active, Calm
  <2> QED BY <2>typed, <2>calm
<1>5. CASE Insert(c)
  <2>1. /\ proc[c].pc = "insert" /\ UNCHANGED <<wf, faults>> /\ proc[c].w \in Workflow
        /\ wf[proc[c].w].phase # "none"
        /\ \/ Goto(c, "cancel") /\ run' = run
           \/ wf[proc[c].w].phase # "gone" /\ SetRun(proc[c].w, "running") /\ Stop(c)
    BY <1>1, <1>5 DEF Insert, Inserted, SetRun, At, Typed, Unborn
  <2>2. CASE Goto(c, "cancel") /\ run' = run
    <3>1. /\ proc' \in [Proc -> Procs] /\ proc'[c].pc = "cancel" /\ proc'[c].w = proc[c].w
          /\ \A q \in Proc \ {c} : proc'[q] = proc[q]
      BY <1>1, <2>2, Going DEF Pcs
    <3>typed. Typed'
      BY <1>1, <2>1, <2>2, <3>1, ProcessesKeepTypes DEF Typed
    <3>calm. Calm /\ Undisturbed => Undisturbed'
      BY <1>1, <2>1, <2>2, <3>1 DEF Typed, Undisturbed, Unborn, Live, Active, Calm
    <3> QED BY <3>typed, <3>calm
  <2>3. CASE wf[proc[c].w].phase # "gone" /\ SetRun(proc[c].w, "running") /\ Stop(c)
    <3>1. /\ proc' \in [Proc -> Procs] /\ proc'[c].pc = "idle"
          /\ \A q \in Proc \ {c} : proc'[q] = proc[q]
      BY <1>1, <2>3, Stopping
    <3>2. /\ run' \in [Workflow -> Runs] /\ run'[proc[c].w].status = "running"
          /\ \A v \in Workflow \ {proc[c].w} : run'[v] = run[v]
      BY <2>1, <2>3, Turning
    <3>typed. Typed'
      BY <1>1, <2>1, <2>3, <3>1, <3>2, ProcessesKeepTypes DEF Typed
    <3>calm. Calm /\ Undisturbed => Undisturbed'
      BY <1>1, <2>1, <2>3, <3>1, <3>2 DEF Typed, Undisturbed, Unborn, Live, Active, Calm
    <3> QED BY <3>typed, <3>calm
  <2> QED BY <2>1, <2>2, <2>3
<1>6. CASE StartFails(c)
  <2>1. /\ proc[c].pc \in {"read", "insert"} /\ UNCHANGED wf /\ proc[c].w \in Workflow
        /\ wf[proc[c].w].phase # "none" /\ Goto(c, "cancel") /\ faults' \in 0..MaxFaults
        /\ \/ run' = run
           \/ wf[proc[c].w].phase # "gone" /\ SetRun(proc[c].w, "running")
    BY <1>1, <1>6, BoundsAssumption DEF StartFails, Fault, Inserted, SetRun, At, Typed, Unborn
  <2>2. /\ proc' \in [Proc -> Procs] /\ proc'[c].pc = "cancel" /\ proc'[c].w = proc[c].w
        /\ \A q \in Proc \ {c} : proc'[q] = proc[q]
    BY <1>1, <2>1, Going DEF Pcs
  <2>3. CASE run' = run
    <3>typed. Typed'
      BY <1>1, <2>1, <2>2, <2>3, ProcessesKeepTypes DEF Typed
    <3>calm. Calm /\ Undisturbed => Undisturbed'
      BY <1>1, <2>1, <2>2, <2>3 DEF Typed, Undisturbed, Unborn, Live, Active, Calm
    <3> QED BY <3>typed, <3>calm
  <2>4. CASE wf[proc[c].w].phase # "gone" /\ SetRun(proc[c].w, "running")
    <3>1. /\ run' \in [Workflow -> Runs] /\ run'[proc[c].w].status = "running"
          /\ \A v \in Workflow \ {proc[c].w} : run'[v] = run[v]
      BY <2>1, <2>4, Turning
    <3>typed. Typed'
      BY <1>1, <2>1, <2>2, <2>4, <3>1, ProcessesKeepTypes DEF Typed
    <3>calm. Calm /\ Undisturbed => Undisturbed'
      BY <1>1, <2>1, <2>2, <2>4, <3>1 DEF Typed, Undisturbed, Unborn, Live, Active, Calm
    <3> QED BY <3>typed, <3>calm
  <2> QED BY <2>1, <2>3, <2>4
<1>7. CASE CancelFails(c)
  <2>1. /\ proc[c].pc = "cancel" /\ UNCHANGED <<wf, run>> /\ faults' \in 0..MaxFaults
        /\ Goto(c, "purge") /\ (Active(proc[c].w) => "orphan" \in Events)
    BY <1>7, BoundsAssumption DEF CancelFails, Fault, At, Typed
  <2>2. /\ proc' \in [Proc -> Procs] /\ proc'[c].pc = "purge" /\ proc'[c].w = proc[c].w
        /\ \A q \in Proc \ {c} : proc'[q] = proc[q]
    BY <1>1, <2>1, Going DEF Pcs
  <2>typed. Typed'
    BY <1>1, <2>1, <2>2, ProcessesKeepTypes DEF Typed, Unborn
  <2>calm. Calm /\ Undisturbed => Undisturbed'
    BY <1>1, <2>1, <2>2 DEF Typed, Undisturbed, Unborn, Live, Active, Calm
  <2> QED BY <2>typed, <2>calm
<1> QED
  BY <1>2, <1>3, <1>4, <1>5, <1>6, <1>7

LEMMA DisposingKeeps ==
    ASSUME Typed, NEW p \in Proc,
           \/ Cancel(p) \/ Purge(p) \/ Mark(p) \/ Delete(p) \/ Die(p)
           \/ p \in Disposer /\ \E w \in Workflow : Reap(p, w) \/ Hook(p, w)
    PROVE  Typed' /\ (Calm /\ Undisturbed => Undisturbed')
<1>1. CASE Cancel(p)
  <2>1. /\ proc[p].pc = "cancel" /\ UNCHANGED <<wf, faults>> /\ Goto(p, "purge")
        /\ run' = [run EXCEPT ![proc[p].w] = Cancelled(proc[p].w)]
        /\ proc[p].w \in Workflow /\ wf[proc[p].w].phase # "none"
    BY <1>1 DEF Cancel, At, Typed, Unborn
  <2>2. /\ proc' \in [Proc -> Procs] /\ proc'[p].pc = "purge" /\ proc'[p].w = proc[p].w
        /\ \A q \in Proc \ {p} : proc'[q] = proc[q]
    BY <2>1, Going DEF Pcs
  <2>3. /\ run' \in [Workflow -> Runs]
        /\ run'[proc[p].w].status = run[proc[p].w].status
        /\ Active(proc[p].w) => run'[proc[p].w].cancel = TRUE
        /\ ~Active(proc[p].w) => run'[proc[p].w].cancel = run[proc[p].w].cancel
        /\ \A v \in Workflow \ {proc[p].w} : run'[v] = run[v]
    BY <2>1, Requesting
  <2>typed. Typed'
    BY <2>1, <2>2, <2>3, ProcessesKeepTypes DEF Typed, Active
  <2>calm. Calm /\ Undisturbed => Undisturbed'
    BY <2>1, <2>2, <2>3 DEF Typed, Undisturbed, Unborn, Live, Active
  <2> QED BY <2>typed, <2>calm
<1>2. CASE Purge(p)
  <2> DEFINE e == [proc[p] EXCEPT !.pc = "mark", !.snapshot = wf[proc[p].w].state]
  <2>1. /\ proc[p].pc = "purge" /\ UNCHANGED <<wf, run, faults>>
        /\ proc[p].w \in Workflow /\ wf[proc[p].w].phase # "none"
        /\ proc' = [proc EXCEPT ![p] = e]
    BY <1>2 DEF Purge, At, Typed, Unborn
  <2>2. e \in Procs /\ e.pc = "mark" /\ e.w = proc[p].w
    BY <2>1 DEF Typed, Procs, Workflows
  <2> HIDE DEF e
  <2>3. /\ proc' \in [Proc -> Procs] /\ proc'[p].pc = "mark" /\ proc'[p].w = proc[p].w
        /\ \A q \in Proc \ {p} : proc'[q] = proc[q]
    BY <2>1, <2>2 DEF Typed
  <2>typed. Typed'
    BY <2>1, <2>3, ProcessesKeepTypes DEF Typed
  <2>calm. Calm /\ Undisturbed => Undisturbed'
    BY <2>1, <2>3 DEF Typed, Undisturbed, Unborn, Live, Active
  <2> QED BY <2>typed, <2>calm
<1>3. CASE Mark(p)
  <2> DEFINE w == proc[p].w
             e == [wf[w] EXCEPT !.phase = IF wf[w].phase = "live" THEN "reaped" ELSE wf[w].phase,
                                !.state = wf[w].state /\ ~proc[p].snapshot]
  <2>1. /\ proc[p].pc = "mark" /\ UNCHANGED <<run, faults>> /\ Goto(p, "delete")
        /\ w \in Workflow /\ wf[w].phase # "none" /\ wf' = [wf EXCEPT ![w] = e]
    <3>1. proc[p].pc = "mark" /\ UNCHANGED <<run, faults>> /\ Goto(p, "delete")
      BY <1>3 DEF Mark, At
    <3>2. w \in Workflow /\ wf[w].phase # "none"
      BY <3>1 DEF Typed, Unborn
    <3>3. wf' = [wf EXCEPT ![w].phase = IF wf[w].phase = "live" THEN "reaped" ELSE wf[w].phase,
                           ![w].state = wf[w].state /\ ~proc[p].snapshot]
      BY <1>3 DEF Mark
    <3>4. wf' = [wf EXCEPT ![w] = e]
      BY <3>2, <3>3 DEF Typed
    <3> QED BY <3>1, <3>2, <3>4
  <2>2. /\ e \in Workflows /\ e.expired = wf[w].expired
        /\ e.phase = IF wf[w].phase = "live" THEN "reaped" ELSE wf[w].phase
    BY <2>1 DEF Typed, Workflows
  <2> HIDE DEF e
  <2>3. /\ wf' \in [Workflow -> Workflows] /\ wf'[w] = e
        /\ \A v \in Workflow \ {w} : wf'[v] = wf[v]
    BY <2>1, <2>2 DEF Typed
  <2>4. /\ proc' \in [Proc -> Procs] /\ proc'[p].pc = "delete" /\ proc'[p].w = proc[p].w
        /\ \A q \in Proc \ {p} : proc'[q] = proc[q]
    BY <2>1, Going DEF Pcs
  <2>typed. Typed'
    BY <2>1, <2>2, <2>3, <2>4 DEF Typed, Unborn
  <2>calm. Calm /\ Undisturbed => Undisturbed'
    BY <2>1, <2>2, <2>3, <2>4 DEF Typed, Undisturbed, Unborn, Live, Active
  <2> QED BY <2>typed, <2>calm
<1>4. CASE Delete(p)
  <2> DEFINE w == proc[p].w
             e == [NoWorkflow EXCEPT !.phase = "gone"]
  <2>1. /\ proc[p].pc = "delete" /\ UNCHANGED <<run, faults>> /\ Stop(p)
        /\ w \in Workflow /\ wf[w].phase # "none"
        /\ \/ wf' = wf
           \/ run[w].status = "none" /\ wf' = [wf EXCEPT ![w] = e]
    BY <1>4 DEF Delete, Unreferenced, At, Typed, Unborn
  <2>2. e \in Workflows /\ e.phase = "gone"
    BY DEF NoWorkflow, Workflows
  <2> HIDE DEF e
  <2>3. /\ proc' \in [Proc -> Procs] /\ proc'[p].pc = "idle"
        /\ \A q \in Proc \ {p} : proc'[q] = proc[q]
    BY <2>1, Stopping
  <2>typed. Typed'
    BY <2>1, <2>2, <2>3 DEF Typed, Unborn
  <2>calm. Calm /\ Undisturbed => Undisturbed'
    BY <2>1, <2>2, <2>3 DEF Typed, Undisturbed, Unborn, Live, Active
  <2> QED BY <2>typed, <2>calm
<1>5. CASE Die(p)
  <2>1. UNCHANGED <<wf, run>> /\ Stop(p) /\ faults' \in 0..MaxFaults
    BY <1>5, BoundsAssumption DEF Die, Fault, Typed
  <2>2. /\ proc' \in [Proc -> Procs] /\ proc'[p].pc = "idle"
        /\ \A q \in Proc \ {p} : proc'[q] = proc[q]
    BY <2>1, Stopping
  <2>typed. Typed'
    BY <2>1, <2>2, ProcessesKeepTypes DEF Typed
  <2>calm. Calm /\ Undisturbed => Undisturbed'
    BY <2>1, <2>2 DEF Typed, Undisturbed, Unborn, Live, Active
  <2> QED BY <2>typed, <2>calm
<1>6. ASSUME p \in Disposer, NEW w \in Workflow, Reap(p, w) \/ Hook(p, w)
      PROVE  Typed' /\ (Calm /\ Undisturbed => Undisturbed')
  <2>1. PICK pc \in {"cancel", "purge"} :
            /\ proc' = [proc EXCEPT ![p].pc = pc, ![p].w = w]
            /\ pc = "purge" => run[w].status = "ended"
            /\ wf[w].expired \/ run[w].status = "ended"
            /\ UNCHANGED <<wf, run, faults>> /\ Live(w) /\ proc[p].pc = "idle"
    BY <1>6 DEF Reap, Hook, Reapable, At
  <2>2. /\ proc' \in [Proc -> Procs] /\ proc'[p].pc = pc /\ proc'[p].w = w
        /\ \A q \in Proc \ {p} : proc'[q] = proc[q]
    BY <2>1, Coming DEF Pcs
  <2>typed. Typed'
    BY <2>1, <2>2, ProcessesKeepTypes DEF Typed, Live
  <2>calm. Calm /\ Undisturbed => Undisturbed'
    BY <2>1, <2>2 DEF Typed, Undisturbed, Unborn, Live, Active
  <2> QED BY <2>typed, <2>calm
<1> QED
  BY <1>1, <1>2, <1>3, <1>4, <1>5, <1>6

\* The run and its plugin, the clock and the sweep.
LEMMA RunsKeep ==
    ASSUME Typed, NEW w \in Workflow, Boundary(w) \/ Wake(w) \/ CancelOwn(w)
    PROVE  Typed' /\ (Calm /\ Undisturbed => Undisturbed')
<1>1. UNCHANGED <<wf, proc, faults>> /\ Active(w)
  BY DEF Boundary, Wake, CancelOwn, Active
<1>2. CASE \E status \in {"running", "waiting", "ended"} : SetRun(w, status)
  <2>1. PICK status \in {"running", "waiting", "ended"} :
            /\ run' \in [Workflow -> Runs]
            /\ run'[w].status = status /\ run'[w].cancel = run[w].cancel
            /\ \A v \in Workflow \ {w} : run'[v] = run[v]
    BY <1>2, Turning
  <2>typed. Typed'
    BY <1>1, <2>1 DEF Typed, Unborn, Active
  <2>calm. Calm /\ Undisturbed => Undisturbed'
    BY <1>1, <2>1 DEF Typed, Undisturbed, Unborn, Live, Active
  <2> QED BY <2>typed, <2>calm
<1>3. CASE run' = [run EXCEPT ![w].cancel = TRUE]
  <2> DEFINE e == [run[w] EXCEPT !.cancel = TRUE]
  <2>1. e \in Runs /\ e.status = run[w].status /\ e.cancel
    BY DEF Typed, Runs
  <2>2. run' = [run EXCEPT ![w] = e]
    BY <1>3 DEF Typed
  <2> HIDE DEF e
  <2>3. run' \in [Workflow -> Runs] /\ run'[w] = e /\ \A v \in Workflow \ {w} : run'[v] = run[v]
    BY <2>1, <2>2 DEF Typed
  <2>typed. Typed'
    BY <1>1, <2>1, <2>3 DEF Typed, Unborn, Active
  <2>calm. Calm /\ Undisturbed => Undisturbed'
    BY <1>1, <2>1, <2>3 DEF Typed, Undisturbed, Unborn, Live, Active
  <2> QED BY <2>typed, <2>calm
<1> QED
  BY <1>2, <1>3 DEF Boundary, Wake, CancelOwn

LEMMA RowsKeep ==
    ASSUME Typed, Sweep \/ \E w \in Workflow : SaveRunState(w) \/ Saved(w) \/ Expire(w)
    PROVE  Typed' /\ (Calm /\ Undisturbed => Undisturbed')
<1>1. UNCHANGED <<run, proc, faults>>
  BY DEF Sweep, SaveRunState, Saved, Expire
<1>2. /\ wf' \in [Workflow -> Workflows]
      /\ \A v \in Workflow :
            /\ wf'[v].phase = wf[v].phase
            /\ wf[v].expired => wf'[v].expired
            /\ wf'[v].expired /\ ~wf[v].expired => Live(v) /\ (Starting(v) => "tight" \in Events)
  <2>1. CASE Sweep
    BY <2>1 DEF Sweep, Swept, Typed, Workflows
  <2>2. ASSUME NEW w \in Workflow, SaveRunState(w) \/ Saved(w) \/ Expire(w)
        PROVE  /\ wf' \in [Workflow -> Workflows]
               /\ \A v \in Workflow :
                     /\ wf'[v].phase = wf[v].phase
                     /\ wf[v].expired => wf'[v].expired
                     /\ wf'[v].expired /\ ~wf[v].expired =>
                            Live(v) /\ (Starting(v) => "tight" \in Events)
    <3>1. CASE SaveRunState(w)
      BY <3>1 DEF SaveRunState, Typed, Workflows
    <3>2. CASE Saved(w)
      BY <3>2 DEF Saved, Typed, Workflows
    <3>3. CASE Expire(w)
      <4> DEFINE e == [wf[w] EXCEPT !.expired = TRUE]
      <4>1. e \in Workflows /\ e.phase = wf[w].phase /\ e.expired
        BY DEF Typed, Workflows
      <4>2. wf' = [wf EXCEPT ![w] = e] /\ Live(w) /\ (Starting(w) => "tight" \in Events)
        BY <3>3 DEF Expire, Typed
      <4> HIDE DEF e
      <4>3. /\ wf' \in [Workflow -> Workflows] /\ wf'[w] = e
            /\ \A v \in Workflow \ {w} : wf'[v] = wf[v]
        BY <4>1, <4>2 DEF Typed
      <4> QED BY <4>1, <4>2, <4>3
    <3> QED BY <2>2, <3>1, <3>2, <3>3
  <2> QED BY <2>1, <2>2
<1>typed. Typed'
  BY <1>1, <1>2 DEF Typed, Unborn, Live
<1>calm. Calm /\ Undisturbed => Undisturbed'
  BY <1>1, <1>2 DEF Typed, Undisturbed, Unborn, Live, Active, Calm, Starting
<1> QED BY <1>typed, <1>calm

LEMMA NextKeeps ==
    ASSUME Typed, [Next]_vars
    PROVE  Typed' /\ (Calm /\ Undisturbed => Undisturbed')
<1>1. CASE UNCHANGED vars
  BY <1>1 DEF vars, Typed, Undisturbed, Unborn, Live, Active
<1>2. ASSUME NEW p \in Proc, Continue(p) \/ Die(p)
      PROVE  Typed' /\ (Calm /\ Undisturbed => Undisturbed')
  BY <1>2, CreatingKeeps, DisposingKeeps DEF Continue
<1>3. ASSUME NEW c \in Call, Count(c) \/ StartFails(c) \/ CancelFails(c)
      PROVE  Typed' /\ (Calm /\ Undisturbed => Undisturbed')
  BY <1>3, CreatingKeeps
<1>4. ASSUME NEW w \in Workflow, NEW d \in Disposer, Reap(d, w) \/ Hook(d, w)
      PROVE  Typed' /\ (Calm /\ Undisturbed => Undisturbed')
  BY <1>4, DisposingKeeps DEF Proc
<1> QED
  BY <1>1, <1>2, <1>3, <1>4, RunsKeep, RowsKeep DEF Next

LEMMA AlwaysTyped == Spec => []Typed
<1>1. Typed /\ [Next]_vars => Typed'
  BY NextKeeps
<1> QED
  BY <1>1, TypedAtFirst, PTL DEF Spec

-----------------------------------------------------------------------------
(* The promises                                                            *)

\* Every row and local keeps its type; in particular the run of a workflow that
\* was deleted never was.
THEOREM TypeCorrect == Spec => []TypeOK
<1>1. Typed => TypeOK
  BY DEF Typed, TypeOK, Workflows, Runs, Procs, NoRun
<1> QED
  BY <1>1, AlwaysTyped, PTL

\* createEphemeralRun and the disposals: a start, and a run nobody asked to
\* cancel, keep their workflow until its TTL, whichever calls, hooks and reapers
\* race, die or are retried.
THEOREM StartsAreLeftAlone ==
    ASSUME "tight" \notin Events, "orphan" \notin Events
    PROVE  Spec => []LeftAlone
<1>1. Calm
  BY DEF Calm
<1>2. Init => Undisturbed
  BY DEF Init, Undisturbed, Unborn, Active, Idle, NoRun
<1>3. Typed /\ Undisturbed /\ [Next]_vars => Undisturbed'
  BY <1>1, NextKeeps
<1>4. Typed /\ Undisturbed => LeftAlone
  BY DEF Typed, Undisturbed, LeftAlone, Starting, Active, Proc
<1> QED
  BY <1>2, <1>3, <1>4, AlwaysTyped, PTL DEF Spec

-----------------------------------------------------------------------------
(* The quota                                                               *)

\* Nothing but a count begins a create, and nothing but a create starts a run.
Calmer ==
    /\ \A c \in Call : InCreate(c)' => InCreate(c)
    /\ \A w \in Workflow : Active(w)' => Active(w)

LEMMA DisposalsCreateNothing ==
    ASSUME Typed, NEW p \in Proc,
           \/ Cancel(p) \/ Purge(p) \/ Mark(p) \/ Delete(p) \/ Die(p)
           \/ p \in Call /\ (Read(p) \/ CancelFails(p) \/ \E w \in Workflow : Publish(p, w))
           \/ \E w \in Workflow : Reap(p, w) \/ Hook(p, w)
    PROVE  Calmer
<1>1. \A w \in Workflow : Active(w)' => Active(w)
  <2>1. CASE Cancel(p)
    <3>1. /\ proc[p].w \in Workflow /\ run' = [run EXCEPT ![proc[p].w] = Cancelled(proc[p].w)]
      BY <2>1 DEF Cancel, At, Typed, Unborn
    <3>2. \A w \in Workflow : run'[w].status = run[w].status
      BY <3>1, Requesting
    <3> QED BY <3>2 DEF Active
  <2>2. CASE ~Cancel(p)
    BY <2>2 DEF Purge, Mark, Delete, Die, Read, CancelFails, Publish, Reap, Hook, Active
  <2> QED BY <2>1, <2>2
<1>2. /\ \A q \in Proc \ {p} : proc'[q] = proc[q]
      /\ InCreate(p)' => InCreate(p)
  <2>1. CASE Cancel(p) \/ Mark(p) \/ (p \in Call /\ CancelFails(p))
    <3>1. Goto(p, "purge") \/ Goto(p, "delete")
      BY <2>1 DEF Cancel, Mark, CancelFails
    <3>2. /\ proc'[p].pc \in {"purge", "delete"}
          /\ \A q \in Proc \ {p} : proc'[q] = proc[q]
      BY <3>1, Going DEF Pcs
    <3> QED BY <3>2 DEF InCreate
  <2>2. CASE Delete(p) \/ Die(p)
    BY <2>2, Stopping DEF Delete, Die, InCreate
  <2>3. CASE Purge(p)
    <3>1. proc' = [proc EXCEPT ![p].pc = "mark", ![p].snapshot = wf[proc[p].w].state]
      BY <2>3 DEF Purge
    <3>2. proc'[p].pc = "mark" /\ \A q \in Proc \ {p} : proc'[q] = proc[q]
      BY <3>1 DEF Typed, Procs
    <3> QED BY <3>2 DEF InCreate
  <2>4. CASE p \in Call /\ Read(p)
    <3>1. proc[p].pc = "read" /\ (Goto(p, "insert") \/ Goto(p, "cancel"))
      BY <2>4 DEF Read, At
    <3>2. \A q \in Proc \ {p} : proc'[q] = proc[q]
      BY <3>1, Going DEF Pcs
    <3> QED BY <3>1, <3>2 DEF InCreate
  <2>5. ASSUME NEW w \in Workflow, Publish(p, w)
        PROVE  /\ \A q \in Proc \ {p} : proc'[q] = proc[q]
               /\ InCreate(p)' => InCreate(p)
    <3>1. proc[p].pc = "publish" /\ proc' = [proc EXCEPT ![p].pc = "read", ![p].w = w]
      BY <2>5 DEF Publish, At
    <3>2. \A q \in Proc \ {p} : proc'[q] = proc[q]
      BY <3>1, Coming DEF Pcs
    <3> QED BY <3>1, <3>2 DEF InCreate
  <2>6. ASSUME NEW w \in Workflow, Reap(p, w) \/ Hook(p, w)
        PROVE  /\ \A q \in Proc \ {p} : proc'[q] = proc[q]
               /\ InCreate(p)' => InCreate(p)
    <3>1. PICK pc \in {"cancel", "purge"} : proc' = [proc EXCEPT ![p].pc = pc, ![p].w = w]
      BY <2>6 DEF Reap, Hook
    <3>2. proc'[p].pc = pc /\ \A q \in Proc \ {p} : proc'[q] = proc[q]
      BY <3>1, Coming DEF Pcs
    <3> QED BY <3>1, <3>2 DEF InCreate
  <2>7. CASE p \in Call /\ \E w \in Workflow : Publish(p, w)
    BY <2>5, <2>7
  <2>8. CASE \E w \in Workflow : Reap(p, w) \/ Hook(p, w)
    BY <2>6, <2>8
  <2> QED BY <2>1, <2>2, <2>3, <2>4, <2>7, <2>8
<1> QED
  BY <1>1, <1>2 DEF Calmer, InCreate, Proc

LEMMA RunsCreateNothing ==
    ASSUME Typed,
           \/ UNCHANGED vars \/ Sweep
           \/ \E w \in Workflow :
                 \/ Boundary(w) \/ Wake(w) \/ CancelOwn(w)
                 \/ SaveRunState(w) \/ Saved(w) \/ Expire(w)
    PROVE  Calmer
<1>1. proc' = proc
  BY DEF vars, Sweep, Boundary, Wake, CancelOwn, SaveRunState, Saved, Expire
<1>2. \A w \in Workflow : Active(w)' => Active(w)
  <2>1. CASE run' = run
    BY <2>1 DEF Active
  <2>2. ASSUME NEW w \in Workflow, Boundary(w) \/ Wake(w) \/ CancelOwn(w), NEW v \in Workflow,
               Active(v)'
        PROVE  Active(v)
    <3>1. Active(w)
      BY <2>2 DEF Boundary, Wake, CancelOwn, Active
    <3>2. v # w => run'[v] = run[v]
      BY <2>2 DEF Boundary, Wake, CancelOwn, SetRun, Typed
    <3> QED BY <2>2, <3>1, <3>2 DEF Active
  <2> QED BY <2>1, <2>2 DEF vars, Sweep, SaveRunState, Saved, Expire
<1> QED
  BY <1>1, <1>2 DEF Calmer, InCreate

\* A start that inserts its run, or may have inserted it, is over.
LEMMA AStartStartsOne ==
    ASSUME Typed, NEW c \in Call, Insert(c) \/ StartFails(c)
    PROVE  /\ InCreate(c) /\ ~InCreate(c)'
           /\ \A d \in Call \ {c} : InCreate(d)' => InCreate(d)
           /\ \A w \in Workflow : Active(w)' => Active(w) \/ w = proc[c].w
<1>1. c \in Proc /\ InCreate(c) /\ proc[c].w \in Workflow
  BY DEF Insert, StartFails, At, InCreate, Proc, Typed, Unborn
<1>2. Stop(c) \/ Goto(c, "cancel")
  BY DEF Insert, StartFails
<1>3. proc'[c].pc \in {"idle", "cancel"} /\ \A q \in Proc \ {c} : proc'[q] = proc[q]
  BY <1>1, <1>2, Stopping, Going DEF Pcs
<1>4. run' = run \/ SetRun(proc[c].w, "running")
  BY DEF Insert, StartFails, Inserted, SetRun
<1>5. \A w \in Workflow \ {proc[c].w} : run'[w] = run[w]
  BY <1>1, <1>4, Turning
<1> QED
  BY <1>1, <1>3, <1>5 DEF InCreate, Active, Proc

LEMMA CountsAreBounded ==
    ASSUME NEW P, NEW Q, P \subseteq Workflow, Q \subseteq Call
    PROVE  /\ IsFiniteSet(P) /\ IsFiniteSet(Q)
           /\ Cardinality(P) \in Nat /\ Cardinality(Q) \in Nat
           /\ Cardinality(Call) \in Nat /\ Cardinality(Q) <= Cardinality(Call)
BY ProcAssumption, FS_Subset, FS_CardinalityType

\* createEphemeralRun reads the quota before its run exists: what creates that
\* race can exceed it by is bounded by their number, also when starts fail after
\* the insert and when calls die.
THEOREM BurstsAreBounded == Spec => []QuotaWithinBurst
<1>1. Init => Burst
  <2>1. ASSUME Init PROVE ActiveOnes = {} /\ Creating = {}
    BY <2>1 DEF Init, ActiveOnes, Active, Creating, InCreate, Idle, NoRun, Proc
  <2>2. ActiveRuns = Cardinality(ActiveOnes)
    BY DEF ActiveRuns, ActiveOnes
  <2> QED BY <2>1, <2>2, FS_EmptySet, CountsAreBounded, BoundsAssumption DEF Burst
<1>2. ASSUME Typed, Burst, [Next]_vars PROVE Burst'
  <2> DEFINE A == Cardinality(ActiveOnes)
             C == Cardinality(Creating)
  <2>1. /\ ActiveOnes \subseteq Workflow /\ Creating \subseteq Call
        /\ ActiveOnes' \subseteq Workflow /\ Creating' \subseteq Call
    BY DEF ActiveOnes, Creating
  <2>2. /\ IsFiniteSet(ActiveOnes) /\ IsFiniteSet(Creating) /\ A \in Nat /\ C \in Nat
        /\ IsFiniteSet(ActiveOnes') /\ IsFiniteSet(Creating') /\ A' \in Nat /\ C' \in Nat
        /\ Cardinality(Call) \in Nat /\ C' <= Cardinality(Call)
    BY <2>1, CountsAreBounded
  <2>3. A + C <= MaxActive + Cardinality(Call) - 1
    BY <1>2 DEF Burst, ActiveRuns, ActiveOnes
  <2>4. SUFFICES A' + C' <= MaxActive + Cardinality(Call) - 1
    BY DEF Burst, ActiveRuns, ActiveOnes
  <2>5. CASE Calmer
    <3>1. ActiveOnes' \subseteq ActiveOnes /\ Creating' \subseteq Creating
      BY <2>5 DEF Calmer, ActiveOnes, Creating
    <3>2. A' <= A /\ C' <= C
      BY <2>2, <3>1, FS_Subset
    <3> HIDE DEF A, C
    <3> QED BY <2>2, <2>3, <3>2, BoundsAssumption
  <2>6. ASSUME NEW c \in Call, Count(c) PROVE A' + C' <= MaxActive + Cardinality(Call) - 1
    <3>1. ActiveOnes' = ActiveOnes /\ A < MaxActive
      BY <2>6 DEF Count, QuotaLeft, ActiveRuns, ActiveOnes, Active
    <3>2. A' = A
      BY <3>1
    <3> HIDE DEF A, C
    <3> QED BY <2>2, <3>1, <3>2, BoundsAssumption
  <2>7. ASSUME NEW c \in Call, Insert(c) \/ StartFails(c)
        PROVE  A' + C' <= MaxActive + Cardinality(Call) - 1
    <3> DEFINE more == ActiveOnes \cup {proc[c].w}
    <3>1. ActiveOnes' \subseteq more /\ c \in Creating /\ Creating' \subseteq Creating \ {c}
      BY <1>2, <2>7, AStartStartsOne DEF ActiveOnes, Creating
    <3>2. IsFiniteSet(more) /\ Cardinality(more) <= A + 1
      <4>1. PICK S, x : S = ActiveOnes /\ x = proc[c].w
        OBVIOUS
      <4>2. /\ IsFiniteSet(S \cup {x})
            /\ Cardinality(S \cup {x}) = Cardinality(S) \/ Cardinality(S \cup {x}) = Cardinality(S) + 1
        BY <2>2, <4>1, FS_AddElement, ZenonT(30)
      <4> QED BY <2>2, <4>1, <4>2
    <3>3. A' <= Cardinality(more) /\ Cardinality(more) \in Nat
      BY <3>1, <3>2, FS_Subset, FS_CardinalityType
    <3>4. Cardinality(Creating \ {c}) = C - 1 /\ IsFiniteSet(Creating \ {c})
      BY <2>2, <3>1, FS_RemoveElement
    <3>5. C' <= C - 1
      BY <3>1, <3>4, FS_Subset
    <3> HIDE DEF A, C, more
    <3> QED BY <2>2, <2>3, <3>2, <3>3, <3>5, BoundsAssumption
  <2>8. Calmer \/ \E c \in Call : Count(c) \/ Insert(c) \/ StartFails(c)
    BY <1>2, DisposalsCreateNothing, RunsCreateNothing DEF Next, Continue, Proc
  <2> QED BY <2>5, <2>6, <2>7, <2>8
<1>3. Typed /\ Burst => QuotaWithinBurst
  <2>1. ActiveRuns \in Nat /\ Cardinality(Creating) \in Nat /\ Cardinality(Call) \in Nat
    BY CountsAreBounded DEF ActiveRuns, Creating
  <2> QED BY <2>1, BoundsAssumption DEF Burst, QuotaWithinBurst
<1> QED
  BY <1>1, <1>2, <1>3, AlwaysTyped, PTL DEF Spec
=============================================================================
