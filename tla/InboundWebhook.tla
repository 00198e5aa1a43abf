--------------------------- MODULE InboundWebhook ---------------------------
(***************************************************************************)
(* What becomes of an event an outside sender posts to a webhook endpoint: *)
(* the handler of conductorWebhooksInbound.ts, the delivery ledger of      *)
(* webhookEndpointStore.ts, and the fan-out of eventRouter.ts to the       *)
(* workflows subscribed to the endpoint's event.                           *)
(*                                                                         *)
(* A member of Call is a signed POST being handled, on any replica; the    *)
(* sender may post a delivery id again, also while it is being handled.    *)
(* An action is the code between two awaits, or the transaction of claim.  *)
(* Time is an age on the ledger rows, in steps of 30 seconds, which is the *)
(* staleness of a claim and half of the rate limit's window: a row is      *)
(* fresh, stale, or old (out of the window).  A body that does not parse   *)
(* is finished as the POST to a disabled endpoint is; a bad signature      *)
(* changes nothing.  Both are left out.                                    *)
(*                                                                         *)
(* A definition whose name starts with Bug is a seeded defect: a run is    *)
(* known to fail with it in the place of the definition that follows it.   *)
(***************************************************************************)
EXTENDS Naturals, FiniteSets

CONSTANTS
    Delivery,       \* X-Webhook-Delivery-Id
    Call,           \* POSTs in flight
    Workflow,       \* enabled workflows subscribed to the event
    Limit,          \* deliveries per window
    MaxFaults,      \* bound on the calls that die and the statements that fail
    Events          \* \subseteq {"toggle", "slow", "trusting"}

ASSUME BoundsAssumption == Limit \in Nat \ {0} /\ MaxFaults \in Nat

VARIABLES
    enabled,    \* the endpoint's `enabled`
    sent,       \* deliveries the sender has posted
    told,       \* deliveries it was answered 2xx for
    ledger,     \* conductor_webhook_inbound_deliveries
    started,    \* runs started for a delivery by workflow, counted up to 2
    faults,     \* faults so far
    call

vars == <<enabled, sent, told, ledger, started, faults, call>>

Terminal == {"started", "no_subscribers", "disabled"}

NoRow == [outcome |-> "none", age |-> "old", again |-> FALSE]
Idle  == [pc |-> "idle", d |-> "none", enabled |-> FALSE, todo |-> {},
          any |-> FALSE, outcome |-> "none"]

At(c, pc) == call[c].pc = pc
Stop(c)   == call' = [call EXCEPT ![c] = Idle]

Init ==
    /\ enabled = TRUE
    /\ sent = {} /\ told = {}
    /\ ledger = [d \in Delivery |-> NoRow]
    /\ started = [d \in Delivery |-> [w \in Workflow |-> 0]]
    /\ faults = 0
    /\ call = [c \in Call |-> Idle]

-----------------------------------------------------------------------------
(* The sender, the operator and the clock                                  *)

\* A trusting sender does not post again what was answered 2xx.  The endpoint
\* and its secret are read at once.
Post(c, d) ==
    /\ At(c, "idle")
    /\ "trusting" \in Events => d \notin told
    /\ sent' = sent \cup {d}
    /\ call' = [call EXCEPT ![c] = [Idle EXCEPT !.pc = "claim", !.d = d, !.enabled = enabled]]
    /\ UNCHANGED <<enabled, told, ledger, started, faults>>

SetEnabled ==
    /\ "toggle" \in Events
    /\ enabled' = ~enabled
    /\ UNCHANGED <<sent, told, ledger, started, faults, call>>

Handling(c, d) == call[c].d = d /\ call[c].pc \in {"emit", "start", "finish"}

Older(row) ==
    [row EXCEPT !.age = IF @ = "fresh" THEN "stale" ELSE "old"]

\* 30 seconds pass; a claim outlasts the handling of its delivery unless that
\* is slow.
Age ==
    /\ \E d \in Delivery : ledger[d].age # "old"
    /\ \/ "slow" \in Events
       \/ \A c \in Call, d \in Delivery : ~Handling(c, d)
    /\ ledger' = [d \in Delivery |-> Older(ledger[d])]
    /\ UNCHANGED <<enabled, sent, told, started, faults, call>>

-----------------------------------------------------------------------------
(* ConductorWebhookEndpointStore.claim                                     *)

BugAbandonedAtOnce(d) == ledger[d].outcome = "received"
BugAbandonedNever(d) == FALSE

Abandoned(d) == ledger[d].outcome = "received" /\ ledger[d].age # "fresh"

InWindow == {d \in Delivery : ledger[d].outcome # "none" /\ ledger[d].age # "old"}

BugRateLimited == Cardinality(InWindow) > Limit

RateLimited == Cardinality(InWindow) >= Limit

BugReceived(again) == [outcome |-> "claimed", age |-> "fresh", again |-> again]

Received(again) == [outcome |-> "received", age |-> "fresh", again |-> again]

\* Claimed: the delivery is this call's to handle.  An abandoned claim is taken
\* over whatever the rate.
Claimed(c, again) ==
    /\ ledger' = [ledger EXCEPT ![call[c].d] = Received(again)]
    /\ call' = [call EXCEPT ![c].pc = IF call[c].enabled THEN "emit" ELSE "finish",
                            ![c].outcome = IF call[c].enabled THEN "none" ELSE "disabled"]
    /\ UNCHANGED told

Claim(c) ==
    /\ At(c, "claim")
    /\ LET d == call[c].d IN
         \/ Abandoned(d) /\ Claimed(c, TRUE)
         \/ /\ ledger[d].outcome # "none" /\ ~Abandoned(d)
            /\ told' = told \cup {d}            \* 200, duplicate
            /\ Stop(c) /\ UNCHANGED ledger
         \/ /\ ledger[d].outcome = "none" /\ RateLimited
            /\ Stop(c) /\ UNCHANGED <<told, ledger>>    \* 429
         \/ ledger[d].outcome = "none" /\ ~RateLimited /\ Claimed(c, FALSE)
    /\ UNCHANGED <<enabled, sent, started, faults>>

-----------------------------------------------------------------------------
(* ConductorEventRouter.emit, and the outcome                              *)

Outcome(any) == IF any THEN "started" ELSE "no_subscribers"

\* list; with no subscriber there is no loop.
Emit(c) ==
    /\ At(c, "emit")
    /\ call' = [call EXCEPT ![c] =
                   IF Workflow # {} THEN [@ EXCEPT !.pc = "start", !.todo = Workflow]
                   ELSE [@ EXCEPT !.pc = "finish", !.outcome = Outcome(FALSE)]]
    /\ UNCHANGED <<enabled, sent, told, ledger, started, faults>>

\* Where the loop over the workflows goes after w.
After(c, w, any) ==
    LET rest == call[c].todo \ {w}
    IN  call' = [call EXCEPT ![c] =
                   IF rest # {} THEN [@ EXCEPT !.todo = rest, !.any = any]
                   ELSE [@ EXCEPT !.pc = "finish", !.todo = {}, !.any = FALSE,
                                  !.outcome = Outcome(any)]]

Start(c, w) ==
    /\ At(c, "start") /\ w \in call[c].todo
    /\ started' = [started EXCEPT ![call[c].d][w] = IF @ = 2 THEN 2 ELSE @ + 1]
    /\ After(c, w, TRUE)
    /\ UNCHANGED <<enabled, sent, told, ledger, faults>>

Fault == faults < MaxFaults /\ faults' = faults + 1

\* A startRun that throws is logged, and the loop goes on.
StartFails(c, w) ==
    /\ At(c, "start") /\ w \in call[c].todo
    /\ Fault
    /\ After(c, w, call[c].any)
    /\ UNCHANGED <<enabled, sent, told, ledger, started>>

\* setOutcome, then the answer.
Finish(c) ==
    /\ At(c, "finish")
    /\ ledger' = [ledger EXCEPT ![call[c].d].outcome = call[c].outcome]
    /\ told' = told \cup {call[c].d}
    /\ Stop(c)
    /\ UNCHANGED <<enabled, sent, started, faults>>

\* The process dies, or a list, getVersion, claim or setOutcome throws: no
\* answer or a 500, and the row stays as it is.
Die(c) ==
    /\ ~At(c, "idle")
    /\ Fault
    /\ Stop(c)
    /\ UNCHANGED <<enabled, sent, told, ledger, started>>

Continue(c) ==
    \/ Claim(c) \/ Emit(c) \/ Finish(c)
    \/ \E w \in Workflow : Start(c, w)

Next ==
    \/ \E c \in Call :
          \/ \E d \in Delivery : Post(c, d)
          \/ Continue(c) \/ Die(c)
          \/ \E w \in Workflow : StartFails(c, w)
    \/ SetEnabled \/ Age

Spec == Init /\ [][Next]_vars

\* Handlers go on, time passes, and the sender keeps posting what it may.
FairSpec ==
    /\ Spec
    /\ \A c \in Call : WF_vars(Continue(c))
    /\ \A d \in Delivery : SF_vars(\E c \in Call : Post(c, d))
    /\ SF_vars(Age)

-----------------------------------------------------------------------------
(* Properties                                                              *)

\* The ledger and the locals hold what the code puts there.
TypeOK ==
    /\ enabled \in BOOLEAN /\ sent \subseteq Delivery /\ told \subseteq sent
    /\ ledger \in [Delivery -> [outcome : Terminal \cup {"none", "received"},
                                age : {"fresh", "stale", "old"}, again : BOOLEAN]]
    /\ started \in [Delivery -> [Workflow -> 0..2]]
    /\ faults \in 0..MaxFaults
    /\ \A c \in Call :
          /\ call[c].d \in Delivery \cup {"none"} /\ call[c].todo \subseteq Workflow
          /\ call[c].outcome \in Terminal \cup {"none"}

\* However often and on however many replicas a delivery is posted, one call
\* at a time handles it.
OneHandler ==
    \A d \in Delivery : \A b, c \in Call : Handling(b, d) /\ Handling(c, d) => b = c

\* A delivery starts a workflow once, and again only after a fault.
StartedOnce ==
    faults = 0 => \A d \in Delivery, w \in Workflow : started[d][w] <= 1

\* No more than Limit new deliveries are accepted within the window, whatever
\* races for the last place; abandoned ones that are retried come on top.
RateIsBounded == Cardinality({d \in InWindow : ~ledger[d].again}) <= Limit

\* A terminal outcome is never taken back or replaced.
OutcomeIsFinal ==
    [][\A d \in Delivery : ledger[d].outcome \in Terminal
          => ledger'[d].outcome = ledger[d].outcome]_vars

\* A delivery the sender keeps posting reaches a terminal outcome, though calls
\* die in the middle and the rate limit turns it away at first.
PostedIsHandled ==
    \A d \in Delivery : d \in sent ~> ledger[d].outcome \in Terminal

\* An answer of 2xx means that the delivery is, or will be, handled.
AcceptedIsHandled ==
    \A d \in Delivery : d \in told ~> ledger[d].outcome \in Terminal

\* no_subscribers means that no enabled workflow subscribes to the event.
NoSubscribersIsTrue ==
    \A d \in Delivery : ledger[d].outcome = "no_subscribers" => Workflow = {}
=============================================================================
