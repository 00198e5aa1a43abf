-------------------------- MODULE WebhookDelivery ---------------------------
(***************************************************************************)
(* How the end of a Conductor run reaches one subscribed URL: the terminal *)
(* hook of index.ts, webhookDispatcher.ts, webhookRetryWorker.ts with its  *)
(* reconciliation pass, and the delivery ledger of                         *)
(* webhookSubscriptionStore.ts.                                            *)
(*                                                                         *)
(* A member of Call is either a hook (deliverEvent, fired by the end of    *)
(* the run) or a tick of a retry worker; every replica runs its own.  An   *)
(* action is the code between two awaits.  The ledger holds at most one    *)
(* row for the run and the subscription (a unique index), so it is one     *)
(* row here.  Time is a flag on the row: next_attempt_at has passed or it  *)
(* has not.  A claim (5 minutes) outlasts the attempt it is taken for (10  *)
(* seconds; 25 of them in a tick), hence no claim lapses under a live call.*)
(* The reconciliation looks back 24 hours: `recent` says whether the end   *)
(* of the run is within them, and an end that has no row by then is lost.  *)
(* Deleting a subscription deletes its rows, and is left out.              *)
(*                                                                         *)
(* A definition whose name starts with Bug is a seeded defect: a run is    *)
(* known to fail with it in the place of the definition that follows it.   *)
(***************************************************************************)
EXTENDS Naturals, FiniteSets

CONSTANTS
    Call,           \* hooks and ticks in flight
    Outcomes,       \* how the run may end
    MaxAttempts,    \* deps.maxAttempts
    MaxCrashes,     \* bound on the calls that die
    Events          \* \subseteq {"twice", "toggle", "vault", "blip"}

ASSUME MaxAttemptsAssumption == MaxAttempts \in Nat \ {0}
ASSUME MaxCrashesAssumption == MaxCrashes \in Nat
ASSUME OutcomesAssumption == Outcomes \subseteq {"completed", "failed", "cancelled"}

VARIABLES
    run,        \* conductor_runs.status: "running" until it ends
    hooks,      \* how often notifyRunEnded fired (at-least-once)
    enabled,    \* the subscription's `enabled`
    covered,    \* ended_at >= enabled_since
    recent,     \* ended_at >= sinceIso, the start of the look-back window
    row,        \* conductor_webhook_deliveries
    posts,      \* POSTs made so far, counted up to MaxPosts
    crashes,    \* calls that died so far
    call

vars == <<run, hooks, enabled, covered, recent, row, posts, crashes, call>>

MaxPosts == MaxAttempts + MaxCrashes + 1

Idle  == [pc |-> "idle", attempts |-> 0, enabled |-> FALSE]
NoRow == [status |-> "none", attempts |-> 0, due |-> FALSE]

Pcs == {"idle", "list", "create", "claimOne", "restore", "claimDue", "get",
        "attempt", "send", "success", "failure", "exhaust"}

At(c, pc)   == call[c].pc = pc
Goto(c, pc) == call' = [call EXCEPT ![c].pc = pc]
Stop(c)     == call' = [call EXCEPT ![c] = Idle]

Init ==
    /\ run = "running" /\ hooks = 0
    /\ enabled \in BOOLEAN /\ covered = TRUE /\ recent = TRUE
    /\ row = NoRow
    /\ posts = 0 /\ crashes = 0
    /\ call = [c \in Call |-> Idle]

-----------------------------------------------------------------------------
(* The hook                                                                *)

\* The terminal status is committed, then notifyRunEnded fires.
EndRun(c) ==
    /\ run = "running" /\ At(c, "idle")
    /\ run' \in Outcomes
    /\ hooks' = 1
    /\ Goto(c, "list")
    /\ UNCHANGED <<enabled, covered, recent, row, posts, crashes>>

\* A run may be announced a second time when an expiry races a cancel.
NotifyAgain(c) ==
    /\ "twice" \in Events /\ hooks = 1 /\ At(c, "idle")
    /\ hooks' = 2
    /\ Goto(c, "list")
    /\ UNCHANGED <<run, enabled, covered, recent, row, posts, crashes>>

\* listEnabledForEvent; the subscription is to the event the hook emits
\* ('run.completed', or 'run.failed' for everything else).
List(c) ==
    /\ At(c, "list")
    /\ IF enabled
       THEN call' = [call EXCEPT ![c] = [Idle EXCEPT !.pc = "create", !.enabled = TRUE]]
       ELSE Stop(c)
    /\ UNCHANGED <<run, hooks, enabled, covered, recent, row, posts, crashes>>

\* createDelivery: ON CONFLICT DO NOTHING.
CreateDelivery ==
    row' = IF row.status = "none"
           THEN [status |-> "pending", attempts |-> 0, due |-> TRUE] ELSE row

Create(c) ==
    /\ At(c, "create")
    /\ CreateDelivery
    /\ Goto(c, "claimOne")
    /\ UNCHANGED <<run, hooks, enabled, covered, recent, posts, crashes>>

BugClaimableIfPending == row.status = "pending"

Claimable == row.status = "pending" /\ row.due

\* claimOne and claimDue: take the row if it is due, and push it out of reach
\* of everybody else.  The attempts are those of the moment of the claim.
Claim(c, from, then) ==
    /\ At(c, from)
    /\ IF Claimable
       THEN /\ row' = [row EXCEPT !.due = FALSE]
            /\ call' = [call EXCEPT ![c].pc = then, ![c].attempts = row.attempts]
       ELSE Stop(c) /\ UNCHANGED row
    /\ UNCHANGED <<run, hooks, enabled, covered, recent, posts, crashes>>

ClaimOne(c) == Claim(c, "claimOne", "attempt")

-----------------------------------------------------------------------------
(* The retry worker                                                        *)

BugMissingNever == FALSE

\* listMissingRunDeliveries
Missing ==
    /\ enabled /\ covered /\ recent
    /\ run \in {"completed", "failed"}
    /\ row.status = "none"

Tick(c) ==
    /\ At(c, "idle")
    /\ Goto(c, IF Missing THEN "restore" ELSE "claimDue")
    /\ UNCHANGED <<run, hooks, enabled, covered, recent, row, posts, crashes>>

Restore(c) ==
    /\ At(c, "restore")
    /\ CreateDelivery
    /\ Goto(c, "claimDue")
    /\ UNCHANGED <<run, hooks, enabled, covered, recent, posts, crashes>>

ClaimDue(c) == Claim(c, "claimDue", "get")

\* The subscription is read again; a failed read counts as "no longer exists".
Get(c) ==
    /\ At(c, "get")
    /\ \/ call' = [call EXCEPT ![c].pc = "attempt", ![c].enabled = enabled]
       \/ "blip" \in Events /\ Goto(c, "exhaust")
    /\ UNCHANGED <<run, hooks, enabled, covered, recent, row, posts, crashes>>

-----------------------------------------------------------------------------
(* ConductorWebhookDispatcher.attempt                                      *)

\* A disabled subscription, or a secret the vault does not hand out, ends the
\* delivery.
Attempt(c) ==
    /\ At(c, "attempt")
    /\ \/ call[c].enabled /\ Goto(c, "send")
       \/ ~call[c].enabled /\ Goto(c, "exhaust")
       \/ "vault" \in Events /\ Goto(c, "exhaust")
    /\ UNCHANGED <<run, hooks, enabled, covered, recent, row, posts, crashes>>

Send(c) ==
    /\ At(c, "send")
    /\ posts' = IF posts = MaxPosts THEN posts ELSE posts + 1
    /\ \E answer \in {"success", "failure"} : Goto(c, answer)
    /\ UNCHANGED <<run, hooks, enabled, covered, recent, row, crashes>>

\* recordSuccess; when the statement fails the attempt counts as failed.
RecordSuccess(c) ==
    /\ At(c, "success")
    /\ \/ /\ row' = [row EXCEPT !.status = "delivered", !.attempts = @ + 1]
          /\ Stop(c)
       \/ "blip" \in Events /\ Goto(c, "failure") /\ UNCHANGED row
    /\ UNCHANGED <<run, hooks, enabled, covered, recent, posts, crashes>>

BugLastAttempt(c) == call[c].attempts > MaxAttempts

LastAttempt(c) == call[c].attempts + 1 >= MaxAttempts

\* fail and recordFailure: pending again after a backoff, or exhausted.
RecordFailure(c) ==
    /\ At(c, "failure")
    /\ row' = [row EXCEPT !.attempts = @ + 1,
                          !.status = IF LastAttempt(c) THEN "exhausted" ELSE "pending",
                          !.due = FALSE]
    /\ Stop(c)
    /\ UNCHANGED <<run, hooks, enabled, covered, recent, posts, crashes>>

Exhaust(c) ==
    /\ At(c, "exhaust")
    /\ row' = [row EXCEPT !.attempts = @ + 1, !.status = "exhausted"]
    /\ Stop(c)
    /\ UNCHANGED <<run, hooks, enabled, covered, recent, posts, crashes>>

-----------------------------------------------------------------------------
(* The operator, time, and failures                                        *)

\* setEnabled: enabling bumps enabled_since.
SetEnabled ==
    /\ "toggle" \in Events
    /\ enabled' = ~enabled
    /\ covered' = (covered /\ (run = "running" \/ enabled))
    /\ UNCHANGED <<run, hooks, recent, row, posts, crashes, call>>

\* WEBHOOK_RECONCILE_WINDOW_MS after the end of the run.
WindowPasses ==
    /\ run # "running" /\ recent
    /\ recent' = FALSE
    /\ UNCHANGED <<run, hooks, enabled, covered, row, posts, crashes, call>>

InFlight(c) == call[c].pc \in {"get", "attempt", "send", "success", "failure", "exhaust"}

\* A backoff, or the claim of a call that died, runs out.
BecomeDue ==
    /\ row.status = "pending" /\ ~row.due
    /\ \A c \in Call : ~InFlight(c)
    /\ row' = [row EXCEPT !.due = TRUE]
    /\ UNCHANGED <<run, hooks, enabled, covered, recent, posts, crashes, call>>

\* A call dies.  (A tick that dies before its claim has done nothing.)
Die(c) ==
    /\ crashes < MaxCrashes /\ call[c].pc \notin {"idle", "claimDue"}
    /\ crashes' = crashes + 1
    /\ Stop(c)
    /\ UNCHANGED <<run, hooks, enabled, covered, recent, row, posts>>

Continue(c) ==
    \/ List(c) \/ Create(c) \/ ClaimOne(c)
    \/ Restore(c) \/ ClaimDue(c) \/ Get(c)
    \/ Attempt(c) \/ Send(c) \/ RecordSuccess(c) \/ RecordFailure(c) \/ Exhaust(c)

Next ==
    \/ \E c \in Call : EndRun(c) \/ NotifyAgain(c) \/ Tick(c) \/ Continue(c) \/ Die(c)
    \/ SetEnabled \/ WindowPasses \/ BecomeDue

Spec == Init /\ [][Next]_vars

\* Calls go on, every replica keeps ticking, and time passes.
FairSpec ==
    /\ Spec
    /\ \A c \in Call : WF_vars(Continue(c)) /\ SF_vars(Tick(c))
    /\ WF_vars(BecomeDue)

-----------------------------------------------------------------------------
(* Properties                                                              *)

\* Every variable has the type the ledger gives it.
TypeOK ==
    /\ run \in Outcomes \cup {"running"} /\ hooks \in 0..2
    /\ enabled \in BOOLEAN /\ covered \in BOOLEAN /\ recent \in BOOLEAN
    /\ row \in [status : {"none", "pending", "delivered", "exhausted"},
                attempts : 0..MaxAttempts, due : BOOLEAN]
    /\ posts \in 0..MaxPosts /\ crashes \in 0..MaxCrashes
    /\ call \in [Call -> [pc : Pcs, attempts : 0..MaxAttempts, enabled : BOOLEAN]]

\* However hooks, second hooks, ticks and crashes interleave, one call at a
\* time works on the delivery: the subscriber never gets it twice at once.
OneAttemptAtATime == \A c, d \in Call : InFlight(c) /\ InFlight(d) => c = d

\* A delivery that succeeded or was given up stays so: no late failure of
\* another attempt puts it back in the queue.
SettledIsFinal ==
    [][row.status \in {"delivered", "exhausted"} => row' = row]_vars

\* The subscriber is called at most MaxAttempts times, and once more for each
\* call that died between its POST and the ledger.
PostsBounded == posts <= MaxAttempts + crashes

\* A delivery to an enabled subscription is given up only after all of its
\* attempts.
ExhaustedMeansTried == row.status = "exhausted" => row.attempts = MaxAttempts

\* The window outlasts the gap: it does not pass before a delivery exists.
WindowHolds == [](run # "running" /\ row.status = "none" => recent)

\* The end of a run that a subscription listens for is delivered or given up,
\* even when the process dies right after the run ended, provided that the
\* look-back window does not pass before the delivery is restored: the retries
\* may take longer than that.
EndIsReported ==
    []enabled /\ WindowHolds =>
        (run # "running" ~> row.status \in {"delivered", "exhausted"})

\* The same whenever the window passes, as when no replica is up for a day.
EndIsNeverLost ==
    []enabled => (run # "running" ~> row.status \in {"delivered", "exhausted"})
=============================================================================
