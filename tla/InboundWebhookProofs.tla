------------------------- MODULE InboundWebhookProofs -------------------------
(***************************************************************************)
(* What holds of inbound deliveries for any number of deliveries, POSTs    *)
(* and workflows, any Limit, and any Events.  What is about one handler at *)
(* a time presupposes that no handling outlasts the staleness of its       *)
(* claim: "slow" \notin Events.                                            *)
(*                                                                         *)
(* The induction is on IInv.  Who handles a delivery holds a claim on it   *)
(* that is still fresh, so nobody takes it over.  As long as nothing       *)
(* failed, a claim without an outcome has its handler, so nothing is ever  *)
(* abandoned; and what a handler has still to start was not started yet.   *)
(* The rate needs none of this: the window is counted and extended in one  *)
(* transaction.                                                            *)
(***************************************************************************)
EXTENDS InboundWebhook, FiniteSetTheorems, TLAPS

Rows  == [outcome : Terminal \cup {"none", "received"},
          age : {"fresh", "stale", "old"}, again : BOOLEAN]
Calls == [pc : {"idle", "claim", "emit", "start", "finish"}, d : Delivery \cup {"none"},
          enabled : BOOLEAN, todo : SUBSET Workflow, any : BOOLEAN,
          outcome : Terminal \cup {"none"}]

VarsOK ==
    /\ enabled \in BOOLEAN /\ sent \subseteq Delivery /\ told \subseteq sent
    /\ ledger \in [Delivery -> Rows]
    /\ started \in [Delivery -> [Workflow -> 0..2]]
    /\ faults \in 0..MaxFaults
    /\ call \in [Call -> Calls]

\* A call is about a delivery that was posted, and what it is about to record
\* is an outcome.
CallsSound ==
    \A c \in Call :
        /\ call[c].pc # "idle" => call[c].d \in sent
        /\ call[c].pc = "finish" => call[c].outcome \in Terminal

HandledIsClaimed ==
    \A c \in Call : \A d \in Delivery : Handling(c, d) => ledger[d].outcome # "none"

AcceptedInWindow == {d \in InWindow : ~ledger[d].again}

WindowIsFinite == IsFiniteSet(InWindow)

HandledIsFresh ==
    \A c \in Call : \A d \in Delivery :
        Handling(c, d) => ledger[d].outcome = "received" /\ ledger[d].age = "fresh"

NothingIsAbandoned ==
    faults = 0 => \A d \in Delivery : ledger[d].outcome = "received" => \E c \in Call : Handling(c, d)

\* A call in this state handles its delivery; it has w still to start.
Working(e)    == e.pc \in {"emit", "start", "finish"}
ToStart(e, w) == e.pc = "emit" \/ (e.pc = "start" /\ w \in e.todo)

WhatIsLeftWasNotStarted ==
    faults = 0 =>
        \A d \in Delivery, w \in Workflow :
            /\ ledger[d].outcome = "none" => started[d][w] = 0
            /\ \A c \in Call : call[c].d = d /\ ToStart(call[c], w) => started[d][w] = 0

InTime == HandledIsFresh /\ OneHandler /\ NothingIsAbandoned /\ WhatIsLeftWasNotStarted /\ StartedOnce

IInv ==
    /\ VarsOK /\ CallsSound /\ HandledIsClaimed /\ WindowIsFinite /\ RateIsBounded
    /\ "slow" \notin Events => InTime

-----------------------------------------------------------------------------
(* The window                                                              *)

\* What leaves the window, or comes back to it by a retry, takes no new place.
LEMMA WindowShrinks ==
    ASSUME IInv, NEW x, InWindow' \subseteq InWindow \cup {x},
           \A d \in InWindow' : ~ledger'[d].again => d \in InWindow /\ ~ledger[d].again
    PROVE  WindowIsFinite' /\ RateIsBounded'
<1> DEFINE A == {d \in InWindow : ~ledger[d].again}
           B == {d \in InWindow' : ~ledger'[d].again}
<1>1. IsFiniteSet(InWindow) /\ Cardinality(A) <= Limit
  BY DEF IInv, WindowIsFinite, RateIsBounded
<1>2. IsFiniteSet(InWindow')
  BY <1>1, FS_AddElement, FS_Subset
<1>3. IsFiniteSet(A)
  BY <1>1, FS_Subset
<1>4. B \subseteq A
  OBVIOUS
<1>5. IsFiniteSet(B) /\ Cardinality(B) <= Cardinality(A)
  BY <1>3, <1>4, FS_Subset
<1>6. Cardinality(A) \in Nat /\ Cardinality(B) \in Nat
  BY <1>3, <1>5, FS_CardinalityType
<1>7. Cardinality(B) <= Limit
  BY <1>1, <1>5, <1>6, BoundsAssumption
<1> QED
  BY <1>2, <1>7 DEF WindowIsFinite, RateIsBounded

\* A delivery is let into a window that has room.
LEMMA WindowGrows ==
    ASSUME IInv, ~RateLimited, NEW d \in Delivery, InWindow' \subseteq InWindow \cup {d}
    PROVE  WindowIsFinite' /\ RateIsBounded'
<1> DEFINE B == {x \in InWindow' : ~ledger'[x].again}
           U == InWindow \cup {d}
<1>1. IsFiniteSet(InWindow)
  BY DEF IInv, WindowIsFinite
<1>2. Cardinality(InWindow) \in Nat /\ Cardinality(InWindow) < Limit
  BY <1>1, FS_CardinalityType, BoundsAssumption DEF RateLimited
<1>3. IsFiniteSet(U) /\ Cardinality(U) <= Limit
  <2>1. /\ IsFiniteSet(U)
        /\ Cardinality(U) = IF d \in InWindow THEN Cardinality(InWindow)
                            ELSE Cardinality(InWindow) + 1
    BY <1>1, FS_AddElement
  <2> QED BY <1>2, <2>1, BoundsAssumption
<1>4. IsFiniteSet(InWindow')
  BY <1>3, FS_Subset
<1>5. IsFiniteSet(B) /\ Cardinality(B) <= Cardinality(U)
  <2>1. B \subseteq U
    OBVIOUS
  <2> QED BY <1>3, <2>1, FS_Subset
<1>6. Cardinality(B) \in Nat /\ Cardinality(U) \in Nat
  BY <1>3, <1>5, FS_CardinalityType
<1>7. Cardinality(B) <= Limit
  BY <1>3, <1>5, <1>6, BoundsAssumption
<1> QED
  BY <1>4, <1>7 DEF WindowIsFinite, RateIsBounded

-----------------------------------------------------------------------------
(* Steps of one call                                                       *)

LEMMA OneCall ==
    ASSUME VarsOK, NEW c \in Call, NEW e \in Calls, call' = [call EXCEPT ![c] = e]
    PROVE  /\ call'[c] = e /\ \A b \in Call \ {c} : call'[b] = call[b]
           /\ call' \in [Call -> Calls]
BY DEF VarsOK

\* A call that goes on with its delivery, or stops, moves nothing that others
\* rely on; when it stops in the middle, that is a fault.
LEMMA LocalStep ==
    ASSUME IInv, NEW c \in Call, NEW e \in Calls, call' = [call EXCEPT ![c] = e],
           UNCHANGED ledger, VarsOK',
           \A d \in sent : d \in sent',
           e.pc # "idle" => e.d \in sent',
           e.pc = "finish" => e.outcome \in Terminal,
           Working(e) => Working(call[c]) /\ e.d = call[c].d,
           faults' = 0 => /\ faults = 0 /\ UNCHANGED started
                          /\ Working(call[c]) => Working(e)
                          /\ \A w \in Workflow : ToStart(e, w) => ToStart(call[c], w)
    PROVE  IInv'
<1>1. /\ call'[c] = e /\ \A b \in Call \ {c} : call'[b] = call[b]
      /\ call' \in [Call -> Calls]
  BY OneCall DEF IInv
<1>2. \A b \in Call, d \in Delivery : Handling(b, d)' => Handling(b, d)
  BY <1>1 DEF Handling, Working
<1>3. CallsSound'
  BY <1>1 DEF IInv, CallsSound
<1>4. HandledIsClaimed'
  BY <1>2 DEF IInv, HandledIsClaimed
<1>5. WindowIsFinite' /\ RateIsBounded'
  BY DEF IInv, WindowIsFinite, RateIsBounded, InWindow
<1>6. ASSUME "slow" \notin Events PROVE InTime'
  <2>1. InTime
    BY <1>6 DEF IInv
  <2>2. HandledIsFresh' /\ OneHandler'
    BY <1>2, <2>1 DEF InTime, HandledIsFresh, OneHandler
  <2>3. ASSUME faults' = 0
        PROVE  /\ NothingIsAbandoned' /\ WhatIsLeftWasNotStarted' /\ StartedOnce'
    <3>1. \A b \in Call, d \in Delivery : Handling(b, d) => Handling(b, d)'
      BY <1>1, <2>3 DEF Handling, Working
    <3>2. NothingIsAbandoned'
      BY <2>1, <2>3, <3>1 DEF InTime, NothingIsAbandoned
    <3>3. \A b \in Call, w \in Workflow : ToStart(call'[b], w) => ToStart(call[b], w) /\ call'[b].d = call[b].d
      BY <1>1, <2>3 DEF ToStart, Working
    <3>4. WhatIsLeftWasNotStarted' /\ StartedOnce'
      BY <2>1, <2>3, <3>3 DEF InTime, WhatIsLeftWasNotStarted, StartedOnce, ToStart
    <3> QED BY <3>2, <3>4
  <2>4. NothingIsAbandoned' /\ WhatIsLeftWasNotStarted' /\ StartedOnce'
    BY <2>3 DEF NothingIsAbandoned, WhatIsLeftWasNotStarted, StartedOnce
  <2> QED BY <2>2, <2>4 DEF InTime
<1> QED
  BY <1>3, <1>4, <1>5, <1>6 DEF IInv

\* The blank records are what the types allow.
LEMMA Blanks ==
    /\ NoRow \in Rows /\ NoRow.outcome = "none"
    /\ Idle \in Calls /\ Idle.pc = "idle" /\ ~Working(Idle) /\ \A w \in Workflow : ~ToStart(Idle, w)
BY DEF NoRow, Rows, Idle, Calls, Working, ToStart

\* The loop over the workflows leaves w behind.
LEMMA AfterLeavesIt ==
    ASSUME VarsOK, NEW c \in Call, At(c, "start"), NEW w \in call[c].todo, NEW any \in BOOLEAN,
           After(c, w, any)
    PROVE  \E e \in Calls :
              /\ call' = [call EXCEPT ![c] = e]
              /\ Working(e) /\ e.d = call[c].d
              /\ e.pc = "finish" => e.outcome \in Terminal
              /\ \A v \in Workflow : ToStart(e, v) => v # w /\ ToStart(call[c], v)
<1> DEFINE rest == call[c].todo \ {w}
           e == IF rest # {} THEN [call[c] EXCEPT !.todo = rest, !.any = any]
                ELSE [call[c] EXCEPT !.pc = "finish", !.todo = {}, !.any = FALSE,
                                     !.outcome = Outcome(any)]
<1>1. call' = [call EXCEPT ![c] = e]
  BY DEF After
<1>2. call[c] \in Calls /\ call[c].pc = "start"
  BY DEF VarsOK, At
<1>3. Outcome(any) \in Terminal
  BY DEF Outcome, Terminal
<1>4. CASE rest # {}
  <2>1. /\ e \in Calls /\ e.pc = "start" /\ e.d = call[c].d /\ e.todo = rest
    BY <1>2, <1>4 DEF Calls
  <2> QED BY <1>1, <1>2, <2>1 DEF Working, ToStart
<1>5. CASE rest = {}
  <2>1. /\ e \in Calls /\ e.pc = "finish" /\ e.d = call[c].d /\ e.outcome = Outcome(any)
    BY <1>2, <1>3, <1>5 DEF Calls
  <2> QED BY <1>1, <1>3, <2>1 DEF Working, ToStart
<1> QED
  BY <1>4, <1>5

-----------------------------------------------------------------------------
(* Each action keeps the invariant                                         *)

\* The invariant holds at the start.
LEMMA InitIInv == Init => IInv
<1> SUFFICES ASSUME Init PROVE IInv
  OBVIOUS
<1>1. VarsOK
  BY Blanks, BoundsAssumption DEF Init, VarsOK
<1>2. \A c \in Call : call[c].pc = "idle" /\ ~Working(call[c]) /\ \A w \in Workflow : ~ToStart(call[c], w)
  BY Blanks DEF Init
<1>3. \A d \in Delivery : ledger[d].outcome = "none"
  BY Blanks DEF Init
<1>4. CallsSound /\ HandledIsClaimed
  BY <1>2 DEF CallsSound, HandledIsClaimed, Handling
<1>5. WindowIsFinite /\ RateIsBounded
  <2>1. InWindow = {}
    BY <1>3 DEF InWindow
  <2>2. {d \in InWindow : ~ledger[d].again} = {}
    BY <2>1
  <2>3. Cardinality({d \in InWindow : ~ledger[d].again}) = 0
    BY <2>2, FS_EmptySet
  <2> QED BY <2>1, <2>3, FS_EmptySet, BoundsAssumption DEF WindowIsFinite, RateIsBounded
<1>6. InTime
  <2>1. HandledIsFresh /\ OneHandler /\ NothingIsAbandoned
    BY <1>2, <1>3 DEF HandledIsFresh, OneHandler, NothingIsAbandoned, Handling
  <2>2. WhatIsLeftWasNotStarted /\ StartedOnce
    BY DEF Init, WhatIsLeftWasNotStarted, StartedOnce
  <2> QED BY <2>1, <2>2 DEF InTime
<1> QED
  BY <1>1, <1>4, <1>5, <1>6 DEF IInv

\* A POST that arrives handles nothing yet.
LEMMA PostKeeps == ASSUME IInv, NEW c \in Call, NEW d \in Delivery, Post(c, d) PROVE IInv'
<1> DEFINE e == [Idle EXCEPT !.pc = "claim", !.d = d, !.enabled = enabled]
<1>1. /\ At(c, "idle") /\ sent' = sent \cup {d} /\ call' = [call EXCEPT ![c] = e]
      /\ UNCHANGED <<enabled, told, ledger, started, faults>>
  BY DEF Post
<1>2. e \in Calls /\ e.pc = "claim" /\ e.d = d
  BY Blanks DEF IInv, VarsOK, Calls
<1> HIDE DEF e
<1>3. VarsOK'
  BY <1>1, <1>2 DEF IInv, VarsOK
<1>4. ~Working(e) /\ (\A w \in Workflow : ~ToStart(e, w)) /\ ~Working(call[c])
  BY <1>1, <1>2 DEF Working, ToStart, At
<1> QED
  BY <1>1, <1>2, <1>3, <1>4, LocalStep

\* A call that died, or was turned away, does nothing more.
LEMMA StopKeeps ==
    ASSUME IInv, NEW c \in Call, Stop(c), UNCHANGED <<enabled, sent, ledger, started>>,
           told' \subseteq sent, faults' \in 0..MaxFaults,
           faults' = 0 => faults = 0 /\ ~Working(call[c])
    PROVE  IInv'
<1>1. VarsOK'
  BY Blanks DEF IInv, VarsOK, Stop
<1> QED
  BY <1>1, Blanks, LocalStep DEF Stop

\* Nothing depends on the enabled flag but the handling of what comes.
LEMMA SetEnabledKeeps == ASSUME IInv, SetEnabled PROVE IInv'
<1>1. enabled' \in BOOLEAN /\ UNCHANGED <<sent, told, ledger, started, faults, call>>
  BY DEF SetEnabled, IInv, VarsOK
<1> QED
  BY <1>1 DEF IInv, VarsOK, CallsSound, HandledIsClaimed, WindowIsFinite, RateIsBounded, InWindow,
              InTime, HandledIsFresh, OneHandler, NothingIsAbandoned, WhatIsLeftWasNotStarted,
              StartedOnce, Handling

\* Time makes stale only what nobody handles, unless handling is slow.
LEMMA AgeKeeps == ASSUME IInv, Age PROVE IInv'
<1>1. /\ ledger' = [d \in Delivery |-> Older(ledger[d])]
      /\ UNCHANGED <<enabled, sent, told, started, faults, call>>
      /\ "slow" \in Events \/ \A c \in Call, d \in Delivery : ~Handling(c, d)
  BY DEF Age
<1>2. \A d \in Delivery :
          /\ ledger'[d] \in Rows /\ ledger'[d].outcome = ledger[d].outcome
          /\ ledger'[d].again = ledger[d].again
          /\ ledger[d].age = "old" => ledger'[d].age = "old"
  BY <1>1 DEF IInv, VarsOK, Rows, Older
<1>3. VarsOK' /\ CallsSound'
  BY <1>1, <1>2 DEF IInv, VarsOK, CallsSound
<1>4. HandledIsClaimed'
  BY <1>1, <1>2 DEF IInv, HandledIsClaimed, Handling
<1>5. WindowIsFinite' /\ RateIsBounded'
  <2>1. \A d \in InWindow' : d \in InWindow /\ ledger'[d].again = ledger[d].again
    BY <1>2 DEF InWindow
  <2> QED BY <2>1, WindowShrinks
<1>6. ASSUME "slow" \notin Events PROVE InTime'
  BY <1>1, <1>2, <1>6 DEF IInv, InTime, HandledIsFresh, OneHandler, NothingIsAbandoned,
                          WhatIsLeftWasNotStarted, StartedOnce, Handling
<1> QED
  BY <1>3, <1>4, <1>5, <1>6 DEF IInv

\* A claim is taken from nobody: the delivery is new, or its handler is gone.
LEMMA ClaimedKeeps ==
    ASSUME IInv, NEW c \in Call, At(c, "claim"), NEW again \in BOOLEAN, Claimed(c, again),
           UNCHANGED <<enabled, sent, started, faults>>,
           \/ Abandoned(call[c].d) /\ again = TRUE
           \/ ledger[call[c].d].outcome = "none" /\ ~RateLimited
    PROVE  IInv'
<1> DEFINE d == call[c].d
           e == [call[c] EXCEPT !.pc = IF call[c].enabled THEN "emit" ELSE "finish",
                                !.outcome = IF call[c].enabled THEN "none" ELSE "disabled"]
<1>1. /\ ledger' = [ledger EXCEPT ![d] = Received(again)] /\ UNCHANGED told
      /\ call' = [call EXCEPT ![c].pc = IF call[c].enabled THEN "emit" ELSE "finish",
                              ![c].outcome = IF call[c].enabled THEN "none" ELSE "disabled"]
  BY DEF Claimed
<1>2. call[c] \in Calls /\ call[c].pc = "claim" /\ d \in Delivery /\ d \in sent
  BY DEF IInv, VarsOK, CallsSound, At
<1>3. /\ e \in Calls /\ e.pc \in {"emit", "finish"} /\ e.d = d /\ Working(e)
      /\ e.pc = "finish" => e.outcome \in Terminal
  BY <1>2 DEF Calls, Terminal, Working
<1>4. call' = [call EXCEPT ![c] = e]
  BY <1>1, <1>2 DEF IInv, VarsOK
<1>5. /\ Received(again) \in Rows /\ Received(again).outcome = "received"
      /\ Received(again).age = "fresh" /\ Received(again).again = again
  BY DEF Received, Rows
<1> HIDE DEF e
<1>6. /\ call'[c] = e /\ \A b \in Call \ {c} : call'[b] = call[b]
      /\ call' \in [Call -> Calls]
  BY <1>3, <1>4, OneCall DEF IInv
<1>7. /\ ledger'[d] = Received(again) /\ \A x \in Delivery \ {d} : ledger'[x] = ledger[x]
      /\ ledger' \in [Delivery -> Rows]
  BY <1>1, <1>2, <1>5 DEF IInv, VarsOK
<1>8. VarsOK'
  BY <1>1, <1>6, <1>7 DEF IInv, VarsOK
<1>9. CallsSound'
  BY <1>2, <1>3, <1>6 DEF IInv, CallsSound
<1>10. \A b \in Call, x \in Delivery :
           Handling(b, x)' <=> (Handling(b, x) \/ (b = c /\ x = d))
  BY <1>2, <1>3, <1>6 DEF Handling, Working
<1>11. HandledIsClaimed'
  BY <1>5, <1>7, <1>10 DEF IInv, HandledIsClaimed
<1>12. WindowIsFinite' /\ RateIsBounded'
  <2>1. CASE Abandoned(d) /\ again = TRUE
    <3>1. \A x \in InWindow' : x = d \/ (x \in InWindow /\ ledger'[x] = ledger[x])
      BY <1>7 DEF InWindow
    <3>2. \A x \in InWindow' : ~ledger'[x].again => x # d
      BY <1>5, <1>7, <2>1
    <3>3. InWindow' \subseteq InWindow \cup {d}
      BY <3>1
    <3> QED BY <3>1, <3>2, <3>3, WindowShrinks
  <2>2. CASE ledger[d].outcome = "none" /\ ~RateLimited
    <3>1. InWindow' \subseteq InWindow \cup {d}
      BY <1>7 DEF InWindow
    <3> QED BY <1>2, <2>2, <3>1, WindowGrows
  <2> QED BY <2>1, <2>2
<1>13. ASSUME "slow" \notin Events PROVE InTime'
  <2>1. InTime
    BY <1>13 DEF IInv
  <2>2. \A b \in Call : ~Handling(b, d)
    BY <1>2, <2>1 DEF InTime, HandledIsFresh, Abandoned
  <2>3. HandledIsFresh'
    BY <1>5, <1>7, <1>10, <2>1, <2>2 DEF InTime, HandledIsFresh
  <2>4. OneHandler'
    BY <1>10, <2>1, <2>2 DEF InTime, OneHandler
  <2>5. NothingIsAbandoned'
    BY <1>2, <1>7, <1>10, <2>1 DEF InTime, NothingIsAbandoned
  <2>6. ASSUME faults = 0 PROVE WhatIsLeftWasNotStarted'
    <3>1. ledger[d].outcome = "none"
      BY <1>2, <2>1, <2>2, <2>6 DEF InTime, NothingIsAbandoned, Abandoned
    <3>2. \A w \in Workflow : started[d][w] = 0
      BY <1>2, <2>1, <2>6, <3>1 DEF InTime, WhatIsLeftWasNotStarted
    <3>3. ASSUME NEW x \in Delivery, NEW w \in Workflow
          PROVE  /\ ledger'[x].outcome = "none" => started[x][w] = 0
                 /\ \A b \in Call : call'[b].d = x /\ ToStart(call'[b], w) => started[x][w] = 0
      <4>1. CASE x = d
        BY <3>2, <4>1
      <4>2. CASE x # d
        BY <1>3, <1>6, <1>7, <2>1, <2>6, <4>2 DEF InTime, WhatIsLeftWasNotStarted
      <4> QED BY <4>1, <4>2
    <3> QED BY <3>3 DEF WhatIsLeftWasNotStarted, ToStart
  <2>7. WhatIsLeftWasNotStarted' /\ StartedOnce'
    BY <2>1, <2>6 DEF InTime, WhatIsLeftWasNotStarted, StartedOnce
  <2> QED BY <2>3, <2>4, <2>5, <2>7 DEF InTime
<1> QED
  BY <1>8, <1>9, <1>11, <1>12, <1>13 DEF IInv

\* The claim: taken, or answered and done with.
LEMMA ClaimKeeps == ASSUME IInv, NEW c \in Call, Claim(c) PROVE IInv'
<1> DEFINE d == call[c].d
<1>1. At(c, "claim") /\ UNCHANGED <<enabled, sent, started, faults>>
  BY DEF Claim
<1>2. /\ ~Working(call[c]) /\ d \in sent /\ told \subseteq sent
      /\ faults \in 0..MaxFaults
  BY <1>1 DEF IInv, VarsOK, CallsSound, Working, At
<1>3. CASE Stop(c) /\ UNCHANGED ledger /\ (told' = told \cup {d} \/ told' = told)
  <2>1. told' \subseteq sent
    BY <1>2, <1>3
  <2> QED BY <1>1, <1>2, <1>3, <2>1, StopKeeps
<1>4. CASE \/ Abandoned(d) /\ Claimed(c, TRUE)
           \/ ledger[d].outcome = "none" /\ ~RateLimited /\ Claimed(c, FALSE)
  BY <1>1, <1>4, ClaimedKeeps
<1> QED
  BY <1>3, <1>4 DEF Claim

\* The loop over the workflows begins, with nothing started yet.
LEMMA EmitKeeps == ASSUME IInv, NEW c \in Call, Emit(c) PROVE IInv'
<1> DEFINE e == IF Workflow # {} THEN [call[c] EXCEPT !.pc = "start", !.todo = Workflow]
                ELSE [call[c] EXCEPT !.pc = "finish", !.outcome = Outcome(FALSE)]
<1>1. /\ call[c].pc = "emit" /\ call' = [call EXCEPT ![c] = e]
      /\ UNCHANGED <<enabled, sent, told, ledger, started, faults>>
  BY DEF Emit, At
<1>2. call[c] \in Calls /\ Outcome(FALSE) \in Terminal
  BY DEF IInv, VarsOK, Outcome, Terminal
<1>3. /\ e \in Calls /\ e.pc \in {"start", "finish"} /\ e.d = call[c].d
      /\ e.pc = "finish" => e.outcome \in Terminal
  BY <1>2 DEF Calls
<1> HIDE DEF e
<1>4. /\ Working(e) /\ Working(call[c]) /\ \A w \in Workflow : ToStart(call[c], w)
  BY <1>1, <1>3 DEF Working, ToStart
<1>5. e.d \in sent
  BY <1>1, <1>3 DEF IInv, CallsSound
<1>6. VarsOK'
  BY <1>1, <1>3 DEF IInv, VarsOK
<1> QED
  BY <1>1, <1>3, <1>4, <1>5, <1>6, LocalStep

\* A start that throws is a fault.
LEMMA StartFailsKeeps ==
    ASSUME IInv, NEW c \in Call, NEW w \in Workflow, StartFails(c, w)
    PROVE  IInv'
<1>1. /\ At(c, "start") /\ w \in call[c].todo /\ After(c, w, call[c].any)
      /\ faults < MaxFaults /\ faults' = faults + 1
      /\ UNCHANGED <<enabled, sent, told, ledger, started>>
  BY DEF StartFails, Fault
<1>2. call[c].any \in BOOLEAN
  BY DEF IInv, VarsOK, Calls
<1>3. PICK e \in Calls :
         /\ call' = [call EXCEPT ![c] = e]
         /\ Working(e) /\ e.d = call[c].d
         /\ e.pc = "finish" => e.outcome \in Terminal
  BY <1>1, <1>2, AfterLeavesIt DEF IInv
<1>4. faults' \in 0..MaxFaults /\ faults' # 0
  BY <1>1, BoundsAssumption DEF IInv, VarsOK
<1>5. VarsOK'
  BY <1>1, <1>3, <1>4 DEF IInv, VarsOK
<1>6. Working(call[c]) /\ e.d \in sent
  BY <1>1, <1>3 DEF IInv, CallsSound, At, Working
<1> QED
  BY <1>1, <1>3, <1>4, <1>5, <1>6, LocalStep

\* Whoever starts a run is alone with the delivery, and does not do it again.
LEMMA StartKeeps ==
    ASSUME IInv, NEW c \in Call, NEW w \in Workflow, Start(c, w)
    PROVE  IInv'
<1> DEFINE d == call[c].d
<1>1. /\ At(c, "start") /\ w \in call[c].todo /\ After(c, w, TRUE)
      /\ started' = [started EXCEPT ![d][w] = IF @ = 2 THEN 2 ELSE @ + 1]
      /\ UNCHANGED <<enabled, sent, told, ledger, faults>>
  BY DEF Start
<1>2. PICK e \in Calls :
         /\ call' = [call EXCEPT ![c] = e]
         /\ Working(e) /\ e.d = d
         /\ e.pc = "finish" => e.outcome \in Terminal
         /\ \A v \in Workflow : ToStart(e, v) => v # w /\ ToStart(call[c], v)
  BY <1>1, AfterLeavesIt DEF IInv
<1>3. d \in Delivery /\ d \in sent /\ call[c].pc = "start" /\ Handling(c, d) /\ ToStart(call[c], w)
  BY <1>1 DEF IInv, VarsOK, CallsSound, At, Handling, ToStart
<1>4. /\ call'[c] = e /\ \A b \in Call \ {c} : call'[b] = call[b]
      /\ call' \in [Call -> Calls]
  BY <1>2, OneCall DEF IInv
<1>5. \A b \in Call, x \in Delivery : Handling(b, x)' <=> Handling(b, x)
  BY <1>2, <1>3, <1>4 DEF Handling, Working
<1>6. /\ started'[d][w] = IF started[d][w] = 2 THEN 2 ELSE started[d][w] + 1
      /\ \A x \in Delivery, v \in Workflow : x # d \/ v # w => started'[x][v] = started[x][v]
      /\ started' \in [Delivery -> [Workflow -> 0..2]]
  <2> DEFINE n == IF started[d][w] = 2 THEN 2 ELSE started[d][w] + 1
  <2>1. started \in [Delivery -> [Workflow -> 0..2]] /\ started[d][w] \in 0..2
    BY <1>3 DEF IInv, VarsOK
  <2>2. n \in 0..2
    BY <2>1
  <2>3. started' = [started EXCEPT ![d][w] = n]
    BY <1>1
  <2> HIDE DEF n
  <2>4. /\ started'[d][w] = n /\ started' \in [Delivery -> [Workflow -> 0..2]]
        /\ \A x \in Delivery, v \in Workflow : x # d \/ v # w => started'[x][v] = started[x][v]
    BY <1>3, <2>1, <2>2, <2>3
  <2> QED BY <2>4 DEF n
<1>7. VarsOK' /\ CallsSound' /\ HandledIsClaimed'
  BY <1>1, <1>2, <1>3, <1>4, <1>5, <1>6 DEF IInv, VarsOK, CallsSound, HandledIsClaimed
<1>8. WindowIsFinite' /\ RateIsBounded'
  BY <1>1 DEF IInv, WindowIsFinite, RateIsBounded, InWindow
<1>9. ASSUME "slow" \notin Events PROVE InTime'
  <2>1. InTime
    BY <1>9 DEF IInv
  <2>2. HandledIsFresh' /\ OneHandler' /\ NothingIsAbandoned'
    BY <1>1, <1>5, <2>1 DEF InTime, HandledIsFresh, OneHandler, NothingIsAbandoned
  <2>3. ASSUME faults = 0 PROVE WhatIsLeftWasNotStarted' /\ StartedOnce'
    <3>1. started[d][w] = 0 /\ started'[d][w] = 1
      BY <1>3, <1>6, <2>1, <2>3 DEF InTime, WhatIsLeftWasNotStarted
    <3>2. ledger[d].outcome = "received"
      BY <1>3, <2>1 DEF InTime, HandledIsFresh
    <3>3. \A b \in Call \ {c} : call[b].d = d => ~Working(call[b])
      BY <1>3, <2>1 DEF InTime, OneHandler, Handling, Working
    <3>4. StartedOnce'
      BY <1>6, <2>1, <2>3, <3>1 DEF InTime, StartedOnce
    <3>5. ASSUME NEW x \in Delivery, NEW v \in Workflow
          PROVE  /\ ledger[x].outcome = "none" => started'[x][v] = 0
                 /\ \A b \in Call : call'[b].d = x /\ ToStart(call'[b], v) => started'[x][v] = 0
      <4>1. CASE x = d /\ v = w
        BY <1>2, <1>4, <3>2, <3>3, <4>1 DEF ToStart, Working
      <4>2. CASE x # d \/ v # w
        BY <1>2, <1>4, <1>6, <2>1, <2>3, <4>2 DEF InTime, WhatIsLeftWasNotStarted
      <4> QED BY <4>1, <4>2
    <3>6. WhatIsLeftWasNotStarted'
      BY <1>1, <3>5 DEF WhatIsLeftWasNotStarted, ToStart
    <3> QED BY <3>4, <3>6
  <2>4. WhatIsLeftWasNotStarted' /\ StartedOnce'
    BY <1>1, <2>3 DEF WhatIsLeftWasNotStarted, StartedOnce
  <2> QED BY <2>2, <2>4 DEF InTime
<1> QED
  BY <1>7, <1>8, <1>9 DEF IInv

\* The outcome is recorded by the one that handled the delivery.
LEMMA FinishKeeps == ASSUME IInv, NEW c \in Call, Finish(c) PROVE IInv'
<1> DEFINE d == call[c].d
           o == call[c].outcome
<1>1. /\ At(c, "finish") /\ ledger' = [ledger EXCEPT ![d].outcome = o]
      /\ told' = told \cup {d} /\ call' = [call EXCEPT ![c] = Idle]
      /\ UNCHANGED <<enabled, sent, started, faults>>
  BY DEF Finish, Stop
<1>2. d \in Delivery /\ d \in sent /\ o \in Terminal /\ Handling(c, d)
  BY <1>1 DEF IInv, VarsOK, CallsSound, At, Handling
<1>3. /\ call'[c] = Idle /\ \A b \in Call \ {c} : call'[b] = call[b]
      /\ call' \in [Call -> Calls]
  BY <1>1, Blanks, OneCall DEF IInv
<1>4. /\ ledger'[d].outcome = o /\ ledger'[d].age = ledger[d].age
      /\ ledger'[d].again = ledger[d].again
      /\ \A x \in Delivery \ {d} : ledger'[x] = ledger[x]
      /\ ledger' \in [Delivery -> Rows]
  BY <1>1, <1>2 DEF IInv, VarsOK, Rows
<1>5. o # "none" /\ o # "received"
  BY <1>2 DEF Terminal
<1>6. \A b \in Call, x \in Delivery : Handling(b, x)' <=> Handling(b, x) /\ b # c
  BY <1>3, Blanks DEF Handling, Working
<1>7. VarsOK'
  BY <1>1, <1>2, <1>3, <1>4 DEF IInv, VarsOK
<1>8. CallsSound' /\ HandledIsClaimed'
  BY <1>1, <1>3, <1>4, <1>5, <1>6, Blanks DEF IInv, CallsSound, HandledIsClaimed
<1>9. WindowIsFinite' /\ RateIsBounded'
  <2>1. ledger[d].outcome # "none"
    BY <1>2 DEF IInv, HandledIsClaimed
  <2>2. \A x \in InWindow' : x \in InWindow /\ ledger'[x].again = ledger[x].again
    BY <1>4, <2>1 DEF InWindow
  <2> QED BY <2>2, WindowShrinks
<1>10. ASSUME "slow" \notin Events PROVE InTime'
  <2>1. InTime
    BY <1>10 DEF IInv
  <2>2. \A b \in Call \ {c} : ~Handling(b, d)
    BY <1>2, <2>1 DEF InTime, OneHandler
  <2>3. HandledIsFresh' /\ OneHandler'
    BY <1>4, <1>6, <2>1, <2>2 DEF InTime, HandledIsFresh, OneHandler
  <2>4. NothingIsAbandoned'
    BY <1>1, <1>2, <1>4, <1>5, <1>6, <2>1 DEF InTime, NothingIsAbandoned, Handling
  <2>5. WhatIsLeftWasNotStarted' /\ StartedOnce'
    BY <1>1, <1>3, <1>4, <1>5, <2>1, Blanks
       DEF InTime, WhatIsLeftWasNotStarted, StartedOnce, ToStart
  <2> QED BY <2>3, <2>4, <2>5 DEF InTime
<1> QED
  BY <1>7, <1>8, <1>9, <1>10 DEF IInv

\* Who dies leaves its claim behind; that is a fault.
LEMMA DieKeeps == ASSUME IInv, NEW c \in Call, Die(c) PROVE IInv'
<1>1. /\ Stop(c) /\ UNCHANGED <<enabled, sent, told, ledger, started>>
      /\ faults < MaxFaults /\ faults' = faults + 1
  BY DEF Die, Fault
<1>2. faults' \in 0..MaxFaults /\ faults' # 0 /\ told \subseteq sent
  BY <1>1, BoundsAssumption DEF IInv, VarsOK
<1> QED
  BY <1>1, <1>2, StopKeeps

\* Every step keeps the invariant.
LEMMA NextKeeps == IInv /\ [Next]_vars => IInv'
<1> SUFFICES ASSUME IInv, [Next]_vars PROVE IInv'
  OBVIOUS
<1>1. CASE UNCHANGED vars
  BY <1>1 DEF vars, IInv, VarsOK, CallsSound, HandledIsClaimed, WindowIsFinite, RateIsBounded,
              InWindow, InTime, HandledIsFresh, OneHandler, NothingIsAbandoned,
              WhatIsLeftWasNotStarted, StartedOnce, Handling
<1> QED
  BY <1>1, PostKeeps, ClaimKeeps, EmitKeeps, StartKeeps, StartFailsKeeps, FinishKeeps, DieKeeps,
     SetEnabledKeeps, AgeKeeps DEF Next, Continue

\* The inductive invariant holds of every reachable state.
LEMMA Invariant == Spec => []IInv
BY InitIInv, NextKeeps, PTL DEF Spec

-----------------------------------------------------------------------------
(* The theorems                                                            *)

\* The ledger and the locals hold what the code puts there.
THEOREM TypeCorrect == Spec => []TypeOK
<1>1. IInv => TypeOK
  BY DEF IInv, VarsOK, Rows, Calls, TypeOK
<1> QED
  BY <1>1, Invariant, PTL

\* However many replicas race for the last place of the window, no more than
\* Limit deliveries get in: claim counts and inserts in one transaction.
THEOREM RateHolds == Spec => []RateIsBounded
<1>1. IInv => RateIsBounded
  BY DEF IInv
<1> QED
  BY <1>1, Invariant, PTL

\* However often a delivery is posted, one call at a time handles it, unless a
\* handling is slower than the 30 seconds after which its claim counts as
\* abandoned.
THEOREM OneHandlesIt ==
    ASSUME "slow" \notin Events PROVE Spec => []OneHandler
<1>1. IInv => OneHandler
  BY DEF IInv, InTime
<1> QED
  BY <1>1, Invariant, PTL

\* A delivery starts every workflow at most once, however often and however
\* concurrently it is posted, as long as nothing fails and nothing is slow.
THEOREM StartsOnce ==
    ASSUME "slow" \notin Events PROVE Spec => []StartedOnce
<1>1. IInv => StartedOnce
  BY DEF IInv, InTime
<1> QED
  BY <1>1, Invariant, PTL

\* An outcome that was recorded is never replaced, although setOutcome does not
\* look at what is there: who records it holds the claim.
THEOREM OutcomeStays ==
    ASSUME "slow" \notin Events PROVE Spec => OutcomeIsFinal
<1>1. IInv /\ [Next]_vars =>
        [\A d \in Delivery : ledger[d].outcome \in Terminal
            => ledger'[d].outcome = ledger[d].outcome]_vars
  <2> SUFFICES ASSUME IInv, Next, NEW d \in Delivery, ledger[d].outcome \in Terminal
               PROVE  ledger'[d].outcome = ledger[d].outcome
    BY DEF vars
  <2>1. \A c \in Call : ~Handling(c, d)
    BY DEF IInv, InTime, HandledIsFresh, Terminal
  <2>2. CASE Age
    BY <2>2 DEF Age, Older, IInv, VarsOK, Rows
  <2>3. ASSUME NEW c \in Call, Claim(c) PROVE ledger'[d].outcome = ledger[d].outcome
    BY <2>3 DEF Claim, Claimed, Abandoned, Terminal, IInv, VarsOK
  <2>4. ASSUME NEW c \in Call, Finish(c) PROVE ledger'[d].outcome = ledger[d].outcome
    BY <2>1, <2>4 DEF Finish, At, Handling, IInv, VarsOK, Rows
  <2>5. CASE UNCHANGED ledger
    BY <2>5
  <2> QED
    BY <2>2, <2>3, <2>4, <2>5 DEF Next, Continue, Post, Emit, Start, StartFails, Die, SetEnabled
<1> QED
  BY <1>1, Invariant, PTL DEF Spec, OutcomeIsFinal
=============================================================================
