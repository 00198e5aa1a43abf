--------------------------- MODULE ConductorRuns ---------------------------
(***************************************************************************)
(* One Conductor run and every call that may touch it: the executor         *)
(* (runExecutor.ts), the tables it writes through (runStore.ts,             *)
(* awaitStore.ts) and the two workers (runResumeWorker.ts, awaitWorker.ts). *)
(*                                                                         *)
(* Runs share nothing but the resume worker's slots, so one run shows all   *)
(* of their interleavings.  A member of Proc is an asynchronous call in     *)
(* flight: a drive, a human response, a deadline, an operator cancel or a   *)
(* resume.  An action is the code between two awaits of such a call, with   *)
(* the one database statement (or transaction) it issues; calls interleave  *)
(* between any two of them.  A call's lease is a fresh UUID, and every call *)
(* stamps it on the run before it writes, so the call itself stands for it. *)
(*                                                                         *)
(* Time is abstract: a deadline may be due, and a heartbeat stale, at any   *)
(* moment Events allows it.  The context keeps what the properties read:    *)
(* the steps whose result it holds and ctx.stepAttempts.  Branches that a   *)
(* published graph rules out (an unknown step, a timer without duration or  *)
(* fallback) are not modelled: Validate(Graph) is assumed, and              *)
(* RunningHasStep shows that resumeRun never meets a run without a step.    *)
(* Dry runs are left out.                                                   *)
(*                                                                         *)
(* A definition whose name starts with Bug is a seeded defect: a run is     *)
(* known to fail with it in the place of the definition that follows it.    *)
(***************************************************************************)
EXTENDS ConductorEngine, Sequences

CONSTANTS
    Graph,      \* the published workflow version the run is bound to
    Proc,       \* calls in flight
    NoProc,     \* a lease token that no call holds
    NoStep,     \* current_step_id: null
    MaxSteps,   \* MAX_STEPS
    MaxAwaits,  \* bound on the await rows of a run
    Events      \* what may happen to the run from outside

ASSUME GraphAssumption   == IsGraph(Graph) /\ Validate(Graph)
ASSUME NoStepAssumption  == NoStep \notin Graph.steps
ASSUME NoProcAssumption  == NoProc \notin Proc
ASSUME MaxStepsAssumption  == MaxSteps \in Nat \ {0}
ASSUME MaxAwaitsAssumption == MaxAwaits \in Nat
ASSUME EventsAssumption  ==
    Events \subseteq {"respond",    \* holders answer
                      "deadline",   \* a deadline passes, a timer is poked
                      "cancel",     \* the operator cancels
                      "resume",     \* the resume worker polls
                      "replicas",   \* ... in several processes
                      "noHolder",   \* a role may have no current holder
                      "stall",      \* a live call may outlast staleMs
                      "die"}        \* a statement fails or the process dies

VARIABLES
    status,     \* conductor_runs.status ("none" before startRun)
    current,    \* conductor_runs.current_step_id
    context,    \* conductor_runs.context
    claimedBy,  \* conductor_runs.claimed_by
    stale,      \* claimed_at is older than staleMs
    cancelled,  \* cancel_requested_at IS NOT NULL
    log,        \* conductor_run_steps
    awaits,     \* conductor_awaits, in order of creation
    told,       \* the outcomes notifyRunEnded has been called with
    call        \* the state of each call

table == <<status, current, context, claimedBy, stale, cancelled>>
vars  == <<table, log, awaits, told, call>>

-----------------------------------------------------------------------------
(* Types and helpers                                                       *)

Steps    == Graph.steps
Statuses == {"running", "waiting", "completed", "failed", "cancelled"}
Terminal == {"completed", "failed", "cancelled"}
Ended    == status \in Terminal

Contexts == [results : SUBSET Steps, attempts : [Steps -> Nat]]
EmptyContext == [results |-> {}, attempts |-> [s \in Steps |-> 0]]

\* A pending recordStepAndAdvance: the row it inserts, and the run columns.
\* `await` names the await whose closing it acts on, 0 if none; `then` is
\* where the call goes on when the run stays running.
Writes == [step : Steps, actor : {"drive", "noHolder", "human", "timeout", "cancel"},
           await : 0..MaxAwaits, next : Steps \cup {NoStep},
           status : Statuses, context : Contexts, then : {"head", "count"}]

Rows == [seq : Nat, step : Steps, actor : {"drive", "noHolder", "human", "timeout", "cancel"},
         await : 0..MaxAwaits, next : Steps \cup {NoStep}, status : Statuses]

Pcs == {"idle", "resume", "count", "head", "effect", "open", "park", "recheck",
        "record", "ended",
        "close", "load", "take", "settle",
        "snapshot", "sweep", "seize", "tally"}

\* A call's locals: where it is, the step and sequence number it is at, its
\* context, the await it acts on, how it came to be, and its pending write.
Calls == [pc : Pcs, kind : {"none", "drive", "resume", "respond", "expire", "cancel"},
          step : Steps \cup {NoStep}, seq : Nat, context : Contexts,
          await : 0..MaxAwaits, write : Writes]

NoWrite ==
    [step |-> Graph.entry, actor |-> "drive", await |-> 0, next |-> NoStep,
     status |-> "failed", context |-> EmptyContext, then |-> "head"]

Idle ==
    [pc |-> "idle", kind |-> "none", step |-> NoStep, seq |-> 0,
     context |-> EmptyContext, await |-> 0, write |-> NoWrite]

At(p, pc) == call[p].pc = pc

Become(p, local) == call' = [call EXCEPT ![p] = local]

Goto(p, pc) == Become(p, [call[p] EXCEPT !.pc = pc])

Stop(p) == Become(p, Idle)

BugStepsForRunFromOne == Cardinality(log) + 1

StepsForRun == Cardinality(log)         \* (await stepsForRun(runId)).length

Waiting == {a \in DOMAIN awaits : awaits[a].status = "waiting"}

CloseAwaits(as, outcome) ==
    [a \in DOMAIN awaits |->
        IF a \in as THEN [awaits[a] EXCEPT !.status = outcome] ELSE awaits[a]]

BugBumpForgets(c, s) == c

BugAccumulateReplaces(c, s) == [c EXCEPT !.results = {s}]

\* bumpStepAttempt and accumulate
Bump(c, s)       == [c EXCEPT !.attempts[s] = @ + 1]
Accumulate(c, s) == [c EXCEPT !.results = @ \cup {s}]

\* The call now owes the write w.
Owe(p, n, w) == Become(p, [call[p] EXCEPT !.pc = "record", !.seq = n, !.write = w])

\* applyDecision: what a decision of the engine persists.
Decided(d, s, c, actor, a, then) ==
    [step |-> s, actor |-> actor, await |-> a, context |-> c, then |-> then,
     next |-> CASE d.kind = "advance"  -> d.target
                [] d.kind = "complete" -> NoStep
                [] d.kind = "stuck"    -> s,
     status |-> CASE d.kind = "advance"  -> "running"
                  [] d.kind = "complete" -> "completed"
                  [] d.kind = "stuck"    -> "failed"]

BugFallbackOrRun(s, c, actor, a, then) ==
    [step |-> s, actor |-> actor, await |-> a, context |-> c, then |-> then,
     next |-> IF HasFallback(Graph, s)
              THEN Graph.transitions[Graph.fallback[s]].target ELSE NoStep,
     status |-> "running"]

\* The step's in-graph fallback, or a failed run when it declares none.
FallbackOrFail(s, c, actor, a, then) ==
    [step |-> s, actor |-> actor, await |-> a, context |-> c, then |-> then,
     next |-> IF HasFallback(Graph, s)
              THEN Graph.transitions[Graph.fallback[s]].target ELSE NoStep,
     status |-> IF HasFallback(Graph, s) THEN "running" ELSE "failed"]

FailedAt(s, c) ==
    [step |-> s, actor |-> "drive", await |-> 0, next |-> NoStep,
     status |-> "failed", context |-> c, then |-> "head"]

OperatorCancel(s, c) ==
    [step |-> s, actor |-> "cancel", await |-> 0, next |-> NoStep,
     status |-> "cancelled", context |-> c, then |-> "head"]

-----------------------------------------------------------------------------
Init ==
    /\ status = "none"
    /\ current = NoStep
    /\ context = EmptyContext
    /\ claimedBy = NoProc
    /\ stale = FALSE
    /\ cancelled = FALSE
    /\ log = {}
    /\ awaits = <<>>
    /\ told = {}
    /\ call = [p \in Proc |-> Idle]

-----------------------------------------------------------------------------
(* startRun and driveFrom                                                  *)

\* The row is created with the driver's lease on it, and the drive begins.
StartRun(p) ==
    /\ At(p, "idle") /\ status = "none"
    /\ status' = "running"
    /\ current' = Graph.entry
    /\ claimedBy' = p
    /\ Become(p, [Idle EXCEPT !.pc = "count", !.kind = "drive", !.step = Graph.entry])
    /\ UNCHANGED <<context, stale, cancelled, log, awaits, told>>

\* The loop condition `currentStepId && seq < MAX_STEPS`.
HeadOrExit(n) == IF n < MaxSteps THEN "head" ELSE "ended"

\* driveFrom reads the number of recorded steps, once.
Count(p) ==
    /\ At(p, "count")
    /\ Become(p, [call[p] EXCEPT !.pc = HeadOrExit(StepsForRun), !.seq = StepsForRun])
    /\ UNCHANGED <<table, log, awaits, told>>

\* A pending operator cancel is honoured at the step boundary.
HonourCancel(p) ==
    /\ At(p, "head") /\ cancelled
    /\ Owe(p, call[p].seq, OperatorCancel(call[p].step, call[p].context))
    /\ UNCHANGED <<table, log, awaits, told>>

\* Otherwise the step is entered: its attempt is counted, and it is run as an
\* effect, or an await is opened for it.
Enter(p) ==
    /\ At(p, "head") /\ ~cancelled
    /\ Become(p, [call[p] EXCEPT
           !.pc = IF Graph.kind[call[p].step] \in {"agent", "action"} THEN "effect" ELSE "open",
           !.context = Bump(@, call[p].step)])
    /\ UNCHANGED <<table, log, awaits, told>>

\* The effect settles with a result, and the engine decides.
EffectSettles(p) ==
    /\ At(p, "effect")
    /\ \E d \in Decisions(Graph, call[p].step) :
          Owe(p, call[p].seq,
              Decided(d, call[p].step, Accumulate(call[p].context, call[p].step), "drive", 0, "head"))
    /\ UNCHANGED <<table, log, awaits, told>>

\* The effect throws, or exceeds its time budget: the run fails.
EffectThrows(p) ==
    /\ At(p, "effect")
    /\ Owe(p, call[p].seq, FailedAt(call[p].step, call[p].context))
    /\ UNCHANGED <<table, log, awaits, told>>

\* A role with no current holder: the human step's fallback, or failure.
NoHolder(p) ==
    /\ "noHolder" \in Events
    /\ At(p, "open") /\ Graph.kind[call[p].step] = "human"
    /\ Owe(p, call[p].seq, FallbackOrFail(call[p].step, call[p].context, "noHolder", 0, "head"))
    /\ UNCHANGED <<table, log, awaits, told>>

\* awaitStore.create: a second open await for the step is never inserted.
Open(p) ==
    /\ At(p, "open")
    /\ IF \E a \in Waiting : awaits[a].step = call[p].step
       THEN UNCHANGED awaits
       ELSE /\ Len(awaits) < MaxAwaits
            /\ awaits' = Append(awaits, [step |-> call[p].step, status |-> "waiting"])
    /\ Goto(p, "park")
    /\ UNCHANGED <<table, log, told>>

BugParkUnfenced(p) ==
    /\ At(p, "park")
    /\ status' = "waiting"
    /\ current' = call[p].step
    /\ context' = call[p].context
    /\ Goto(p, "recheck")
    /\ UNCHANGED <<claimedBy, stale, cancelled, log, awaits, told>>

\* runStore.park, fenced on the lease; a superseded drive yields.
Park(p) ==
    /\ At(p, "park")
    /\ IF claimedBy = p
       THEN /\ status' = "waiting"
            /\ current' = call[p].step
            /\ context' = call[p].context
            /\ Goto(p, "recheck")
       ELSE Stop(p) /\ UNCHANGED <<status, current, context>>
    /\ UNCHANGED <<claimedBy, stale, cancelled, log, awaits, told>>

BugNoRecheck(p) ==
    /\ At(p, "recheck")
    /\ Stop(p)
    /\ UNCHANGED <<table, log, awaits, told>>

\* A cancel that landed between the loop head and the park is finalized here.
Recheck(p) ==
    /\ At(p, "recheck")
    /\ IF cancelled THEN Goto(p, "snapshot") ELSE Stop(p)
    /\ UNCHANGED <<table, log, awaits, told>>

BugRefusedWithoutFence(p) == \E r \in log : r.seq = call[p].seq

\* recordStepAndAdvance: one transaction, refused when the sequence number is
\* taken (the insert) or the lease is not the caller's (the update).
Refused(p) ==
    \/ \E r \in log : r.seq = call[p].seq
    \/ claimedBy # p

RowOf(p) ==
    [seq |-> call[p].seq, step |-> call[p].write.step, actor |-> call[p].write.actor,
     await |-> call[p].write.await, next |-> call[p].write.next,
     status |-> call[p].write.status]

Record(p) ==
    /\ At(p, "record") /\ ~Refused(p)
    /\ LET w == call[p].write IN
       /\ log' = log \cup {RowOf(p)}
       /\ status' = w.status
       /\ current' = w.next
       /\ context' = w.context
       /\ stale' = (stale /\ w.status # "running")
       /\ Become(p, [call[p] EXCEPT
              !.pc = IF w.status # "running" THEN "ended"
                     ELSE IF w.then = "count" THEN "count"
                     ELSE HeadOrExit(call[p].seq + 1),
              !.step = w.next, !.seq = @ + 1, !.context = w.context, !.write = NoWrite])
    /\ UNCHANGED <<claimedBy, cancelled, awaits, told>>

RecordRefused(p) ==
    /\ At(p, "record") /\ Refused(p)
    /\ Stop(p)
    /\ UNCHANGED <<table, log, awaits, told>>

\* finalizeIfEnded: the run is read back and a terminal one is announced.
Finalize(p) ==
    /\ At(p, "ended")
    /\ told' = IF Ended THEN told \cup {status} ELSE told
    /\ Stop(p)
    /\ UNCHANGED <<table, log, awaits>>

-----------------------------------------------------------------------------
(* resolveAwait and expireAwait                                            *)

\* A holder's response that completes the await's quorum: the run's context
\* is read (the responses and the quorum are QuorumAwait's subject).
Respond(p) ==
    /\ "respond" \in Events
    /\ At(p, "idle")
    /\ \E a \in Waiting :
          /\ Graph.kind[awaits[a].step] = "human"
          /\ Become(p, [Idle EXCEPT !.pc = "close", !.kind = "respond", !.step = awaits[a].step,
                                    !.await = a, !.context = context])
    /\ UNCHANGED <<table, log, awaits, told>>

BugCloseUnconditional(p) ==
    /\ At(p, "close")
    /\ awaits' = CloseAwaits({call[p].await}, "resolved")
    /\ Goto(p, "take")
    /\ UNCHANGED <<table, log, told>>

BugCloseTestsOnly(p) ==
    /\ At(p, "close")
    /\ IF call[p].await \in Waiting THEN Goto(p, "take") ELSE Stop(p)
    /\ UNCHANGED <<table, log, awaits, told>>

\* close('resolved'), a compare-and-set: the loser is refused.
CloseResolved(p) ==
    /\ At(p, "close")
    /\ IF call[p].await \in Waiting
       THEN /\ awaits' = CloseAwaits({call[p].await}, "resolved")
            /\ Goto(p, "take")
       ELSE Stop(p) /\ UNCHANGED awaits
    /\ UNCHANGED <<table, log, told>>

\* An await is due when its step has a deadline the executor could parse.
HasDeadline(a) == Graph.deadline[awaits[a].step] = "valid"

\* expireAwait: close('timed_out').
Expire(p) ==
    /\ "deadline" \in Events
    /\ At(p, "idle")
    /\ \E a \in Waiting :
          /\ HasDeadline(a)
          /\ awaits' = CloseAwaits({a}, "timed_out")
          /\ Become(p, [Idle EXCEPT !.pc = "load", !.kind = "expire",
                                    !.step = awaits[a].step, !.await = a])
    /\ UNCHANGED <<table, log, told>>

LoadExpired(p) ==
    /\ At(p, "load")
    /\ Become(p, [call[p] EXCEPT !.pc = "take", !.context = context])
    /\ UNCHANGED <<table, log, awaits, told>>

BugTakeWithoutLease(p) ==
    /\ At(p, "take")
    /\ Goto(p, "settle")
    /\ UNCHANGED <<table, log, awaits, told>>

\* acquireLease, unconditional.
Take(p) ==
    /\ At(p, "take")
    /\ claimedBy' = p
    /\ stale' = FALSE
    /\ Goto(p, "settle")
    /\ UNCHANGED <<status, current, context, cancelled, log, awaits, told>>

\* The engine decides on the response; the sequence number is counted.
SettleResponse(p) ==
    /\ At(p, "settle") /\ call[p].kind = "respond"
    /\ \E d \in Decisions(Graph, call[p].step) :
          Owe(p, StepsForRun,
              Decided(d, call[p].step, Accumulate(call[p].context, call[p].step),
                      "human", call[p].await, "count"))
    /\ UNCHANGED <<table, log, awaits, told>>

SettleExpiry(p) ==
    /\ At(p, "settle") /\ call[p].kind = "expire"
    /\ Owe(p, StepsForRun,
           FallbackOrFail(call[p].step, call[p].context, "timeout", call[p].await, "count"))
    /\ UNCHANGED <<table, log, awaits, told>>

-----------------------------------------------------------------------------
(* cancelRun and finalizeCancelledWaitingRun                               *)

\* requestCancel; a waiting run is finalized at once, a running one by its
\* driver.  A run that has ended is refused.
Cancel(p) ==
    /\ "cancel" \in Events
    /\ At(p, "idle") /\ status \in {"running", "waiting"}
    /\ cancelled' = TRUE
    /\ IF status = "waiting"
       THEN Become(p, [Idle EXCEPT !.pc = "snapshot", !.kind = "cancel"])
       ELSE UNCHANGED call
    /\ UNCHANGED <<status, current, context, claimedBy, stale, log, awaits, told>>

Snapshot(p) ==
    /\ At(p, "snapshot")
    /\ Become(p, [call[p] EXCEPT !.pc = "sweep", !.step = current, !.context = context])
    /\ UNCHANGED <<table, log, awaits, told>>

\* cancelForRun
Sweep(p) ==
    /\ At(p, "sweep")
    /\ awaits' = CloseAwaits(Waiting, "cancelled")
    /\ Goto(p, IF call[p].kind = "cancel" THEN "seize" ELSE "tally")
    /\ UNCHANGED <<table, log, told>>

\* acquireLease, when the caller is not the driver that parked the run.
Seize(p) ==
    /\ At(p, "seize")
    /\ claimedBy' = p
    /\ stale' = FALSE
    /\ Goto(p, "tally")
    /\ UNCHANGED <<status, current, context, cancelled, log, awaits, told>>

BugTallyWithoutStep(p) ==
    /\ At(p, "tally")
    /\ Owe(p, StepsForRun, OperatorCancel(call[p].step, call[p].context))
    /\ UNCHANGED <<table, log, awaits, told>>

\* The synthetic row names the current step, or '(cancel)' when the run has
\* none any more (here: the entry step stands for it).
Tally(p) ==
    /\ At(p, "tally")
    /\ LET s == IF call[p].step = NoStep THEN Graph.entry ELSE call[p].step
       IN  Owe(p, StepsForRun, OperatorCancel(s, call[p].context))
    /\ UNCHANGED <<table, log, awaits, told>>

-----------------------------------------------------------------------------
(* The resume worker, the passing of time, and failures                    *)

Alive(p) == call[p].pc # "idle"

\* The heartbeat goes stale: nobody who holds the lease is alive to refresh
\* it, or the one who does has stalled.
GoStale ==
    /\ status = "running" /\ ~stale
    /\ ~(claimedBy \in Proc /\ Alive(claimedBy)) \/ "stall" \in Events
    /\ stale' = TRUE
    /\ UNCHANGED <<status, current, context, claimedBy, cancelled, log, awaits, told, call>>

InFlight == \E q \in Proc : Alive(q) /\ call[q].kind = "resume"

\* The worker that claims is not at the run: nobody is, or, as inFlight is a
\* set of one process, the worker of another replica is.
Free == ~InFlight \/ "replicas" \in Events

BugClaimOnlyUnclaimed(p) ==
    /\ "resume" \in Events
    /\ At(p, "idle") /\ status = "running" /\ claimedBy = NoProc
    /\ Free
    /\ claimedBy' = p
    /\ stale' = FALSE
    /\ Become(p, [Idle EXCEPT !.pc = "resume", !.kind = "resume"])
    /\ UNCHANGED <<status, current, context, cancelled, log, awaits, told>>

\* claimResumableRuns stamps the tick's lease on the run ...
ClaimAndResume(p) ==
    /\ "resume" \in Events
    /\ At(p, "idle") /\ status = "running" /\ stale
    /\ Free
    /\ claimedBy' = p
    /\ stale' = FALSE
    /\ Become(p, [Idle EXCEPT !.pc = "resume", !.kind = "resume"])
    /\ UNCHANGED <<status, current, context, cancelled, log, awaits, told>>

\* ... also when the worker then skips it, being still at it.
ClaimAndSkip ==
    /\ "resume" \in Events
    /\ status = "running" /\ stale
    /\ InFlight
    /\ claimedBy' = NoProc
    /\ stale' = FALSE
    /\ UNCHANGED <<status, current, context, cancelled, log, awaits, told, call>>

BugResumeFromEntry(p) ==
    /\ At(p, "resume")
    /\ IF status = "running"
       THEN Become(p, [call[p] EXCEPT !.pc = "count", !.step = Graph.entry, !.context = context])
       ELSE Stop(p)
    /\ UNCHANGED <<table, log, awaits, told>>

\* resumeRun
Resume(p) ==
    /\ At(p, "resume")
    /\ IF status = "running"
       THEN Become(p, [call[p] EXCEPT !.pc = "count", !.step = current, !.context = context])
       ELSE Stop(p)
    /\ UNCHANGED <<table, log, awaits, told>>

\* A statement of the call fails, or its process dies.
Die(p) ==
    /\ "die" \in Events
    /\ Alive(p)
    /\ Stop(p)
    /\ UNCHANGED <<table, log, awaits, told>>

-----------------------------------------------------------------------------
Drive(p) ==
    \/ Count(p) \/ HonourCancel(p) \/ Enter(p)
    \/ EffectSettles(p) \/ EffectThrows(p)
    \/ NoHolder(p) \/ Open(p) \/ Park(p) \/ Recheck(p)
    \/ Record(p) \/ RecordRefused(p) \/ Finalize(p)

Wake(p) ==
    \/ CloseResolved(p) \/ LoadExpired(p) \/ Take(p)
    \/ SettleResponse(p) \/ SettleExpiry(p)

FinalizeCancel(p) == Snapshot(p) \/ Sweep(p) \/ Seize(p) \/ Tally(p)

\* What a call in flight does next.
Continue(p) == Drive(p) \/ Wake(p) \/ FinalizeCancel(p) \/ Resume(p)

Next ==
    \/ \E p \in Proc :
          \/ StartRun(p) \/ Continue(p)
          \/ Respond(p) \/ Expire(p) \/ Cancel(p) \/ ClaimAndResume(p) \/ Die(p)
    \/ GoStale \/ ClaimAndSkip

Spec == Init /\ [][Next]_vars

\* The event loop runs every call that can go on, the workers poll, and time
\* passes.  Nobody has to answer, and nobody has to cancel.
Fairness ==
    /\ \A p \in Proc : WF_vars(Continue(p))
    /\ WF_vars(\E p \in Proc : Expire(p))
    /\ WF_vars(\E p \in Proc : ClaimAndResume(p))
    /\ WF_vars(GoStale)

FairSpec == Spec /\ Fairness

-----------------------------------------------------------------------------
(* Properties that hold whatever happens to the run                        *)

\* The columns and the locals of the calls hold what the code can put there.
\* In particular every cancel row names a step, also when the run has none.
TypeOK ==
    /\ status \in Statuses \cup {"none"}
    /\ current \in Steps \cup {NoStep}
    /\ context \in Contexts
    /\ claimedBy \in Proc \cup {NoProc}
    /\ stale \in BOOLEAN /\ cancelled \in BOOLEAN
    /\ log \subseteq Rows
    /\ awaits \in Seq([step : Steps,
                       status : {"waiting", "resolved", "timed_out", "cancelled"}])
    /\ told \subseteq Terminal
    /\ call \in [Proc -> Calls]

\* A run that is running points at the step to run next.  The resume worker
\* reads that pointer in a later process: were it null, resumeRun would take
\* its emergency branch and fail a healthy run.
RunningHasStep == status = "running" => current \in Steps

\* The audit trace is numbered 0, 1, 2, ... without a gap, although drives,
\* responses, expiries and cancels each number their row from a count they
\* read before somebody else may have written one.
LogIsGapless == {r.seq : r \in log} = 0..(Cardinality(log) - 1)

Driving(p) == call[p].pc \in {"head", "effect", "open", "park"}

\* The call that holds the lease drives the run from exactly where its record
\* ends: at the step the run points at, with the next free sequence number.
\* A resumed drive thus never re-runs a step that was recorded, and a write
\* by the owner never collides.
OwnerAtFrontier ==
    \A p \in Proc : claimedBy = p /\ Driving(p) =>
        /\ status = "running"
        /\ call[p].step = current
        /\ call[p].seq = StepsForRun

\* The call won await a and has not yet recorded what follows from it.
Applying(p, a) ==
    /\ call[p].pc \in {"load", "take", "settle", "record"}
    /\ call[p].await = a
    /\ call[p].pc = "record" => call[p].write.await = a

\* Of all responses and deadlines that race for one await, at most one ever
\* gets to act on the run.
NoAwaitAppliedTwice ==
    \A a \in DOMAIN awaits :
        /\ \A q, r \in log : q.await = a /\ r.await = a => q = r
        /\ \A p, q \in Proc : Applying(p, a) /\ Applying(q, a) => p = q
        /\ \A p \in Proc, r \in log : ~(Applying(p, a) /\ r.await = a)

-----------------------------------------------------------------------------
(* Properties that some race or crash breaks; README.md says which         *)

\* Subscribers hear one outcome of a run.
OneOutcome == Cardinality(told) <= 1

\* Two calls never execute effects of the run at the same time.
NeverDoubleDriven ==
    \A p, q \in Proc : At(p, "effect") /\ At(q, "effect") => p = q

\* An open await belongs to the step the run is at.  One that outlives its
\* step can still be answered, and then moves the run a second time.
OpenAwaitIsCurrent == \A a \in Waiting : ~Ended /\ current = awaits[a].step

Waking(p) ==
    \/ call[p].pc \in {"load", "take", "settle", "record", "snapshot", "sweep", "seize", "tally"}
    \/ At(p, "recheck") /\ cancelled

\* A waiting run has something that will wake it: an open await for its step,
\* or a call that closed it and is about to record what follows.
WaitingIsWakeable ==
    status = "waiting" =>
        \/ \E a \in Waiting : awaits[a].step = current
        \/ \E p \in Proc : Waking(p)

\* Every result the trace records is in the context the next steps read.
ResultsKept ==
    \A r \in log :
        r.actor \in {"drive", "human"} /\ r.status \in {"running", "completed"} =>
            r.step \in context.results

\* ctx.stepAttempts counts every entry of a step that the trace records, so a
\* guard on it bounds the loop it guards.
AttemptsCounted ==
    \A s \in Steps :
        Cardinality({r \in log : r.step = s /\ r.actor # "cancel"}) <= context.attempts[s]

\* No step of a graph without loops is decided twice.
DecidedOnce ==
    \A q, r \in log :
        q.step = r.step /\ q.actor # "cancel" /\ r.actor # "cancel" => q = r

\* A cancelled run stays cancelled.
CancelledIsFinal == [][status = "cancelled" => status' = "cancelled"]_vars

\* Operators do not go on cancelling for ever (each cancel of a waiting run
\* seizes the lease from the one before it).
CancelsStop == <>[][\A p \in Proc : ~Cancel(p)]_vars

\* A run whose cancel was requested ends.
CancelHonoured == CancelsStop => (cancelled ~> Ended)

\* At a human step that declares no deadline, and may be waited at for ever.
AtAnOpenEnd == status = "waiting" /\ Graph.deadline[current] = "none"

\* A run goes on until it ends, or comes to a step that declares no deadline.
RunEnds == CancelsStop => (status = "running" ~> Ended \/ AtAnOpenEnd)

\* From some point on no call crashes, and none outlasts its lease.  (A call
\* that gives up looks like one that dies; that does not count as a crash.)
FaultsStop ==
    <>[][/\ \A p \in Proc : Die(p) => Continue(p)
         /\ GoStale => ~(claimedBy \in Proc /\ Alive(claimedBy))]_vars

\* A run left behind by a crash is picked up and ends, unless its graph makes
\* it loop until its steps are used up (nobody ever ends such a run).
CrashesSurvived ==
    FaultsStop => (status = "running" ~> Ended \/ StepsForRun >= MaxSteps)

-----------------------------------------------------------------------------
(* The refinement: the run row and its trace are a walk of the ledger.     *)

RowAt(i) == CHOOSE r \in log : r.seq = i - 1

Ledger == INSTANCE RunLedger WITH
    Steps      <- Graph.steps,
    Entry      <- Graph.entry,
    Successors <- [s \in Graph.steps |->
                      {Graph.transitions[t].target : t \in Outgoing(Graph, s)}],
    phase      <- IF Ended THEN "ended" ELSE status,
    at         <- IF Ended THEN NoStep ELSE current,
    trail      <- [i \in 1..Cardinality(log) |-> RowAt(i).step]

\* Without a cancel racing a response, and without a resume racing one, the
\* run keeps the ledger's promise.
IsALedger == Ledger!Spec
=============================================================================
