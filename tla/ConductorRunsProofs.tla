------------------------ MODULE ConductorRunsProofs -------------------------
(***************************************************************************)
(* What holds of a Conductor run for every published graph and every       *)
(* number of calls in flight.  The first levels need nothing more, and     *)
(* hold for every combination of Events:                                   *)
(*                                                                         *)
(*   Inv1  types, and every step a call works on exists;                   *)
(*   Inv2  the trace is numbered without gaps;                             *)
(*   Inv3  who holds the lease is at the end of the trace;                 *)
(*   Inv4  an await is applied at most once.                               *)
(*                                                                         *)
(* The log is what makes Inv3 inductive: a write is refused unless its     *)
(* number is the next one and its author holds the lease, so only the      *)
(* owner can move the run row.                                             *)
(*                                                                         *)
(* The next levels say what holds as long as some kind of event stays      *)
(* away: the calls then act one at a time, and the run keeps the promise   *)
(* of RunLedger.                                                           *)
(*                                                                         *)
(*   Inv5  what a call owes to the database follows the graph, and the     *)
(*         rows of the trace are told apart by their numbers;              *)
(*   Inv6  what wakes a waiting run; needs that no call dies;              *)
(*   Inv7  the attempts of the owner cover the trace; needs that no        *)
(*         response or deadline reads the context behind a drive's back;   *)
(*   Inv8  the calls take turns: while the run is driven no await is open  *)
(*         and none is applied, whoever applies one is alone, and the      *)
(*         context a call carries is the one the next write will extend.   *)
(*         Needs that no cancel is requested, and that a lease which goes  *)
(*         stale was nobody's (Quiet).  What is left of it after a cancel  *)
(*         is AfterCancels: the await that was open then is the last;      *)
(*   Inv9  who writes the run row as its owner knows all its results, and  *)
(*         what has ended stays so; needs that nobody answers;             *)
(*   Inv10 the run never waits where it can be cancelled; needs that its   *)
(*         graph has only agents and actions, or that nobody cancels.      *)
(*                                                                         *)
(* The case that makes Inv8 hard is the one between Open and Park: the     *)
(* await can be answered before the driver has parked, and then two calls  *)
(* of one run are alive.                                                   *)
(***************************************************************************)
EXTENDS ConductorRuns, FiniteSetTheorems, SequenceTheorems, TLAPS

-----------------------------------------------------------------------------
(* The engine and the writes it leads to                                   *)

\* On a published graph the engine only ever advances to a step that exists:
\* the decision's target needs no check in the executor.
LEMMA DecisionResolves ==
    ASSUME NEW s \in Steps, NEW d \in Decisions(Graph, s)
    PROVE  /\ d.kind \in {"advance", "complete", "stuck"}
           /\ d.kind = "advance" => d.target \in Steps
<1>1. PICK met \in BOOLEAN, holds \in SUBSET Outgoing(Graph, s) :
          d = NextStep(Graph, s, met, holds)
  BY DEF Decisions
<1>2. \A t \in DOMAIN Graph.transitions : Graph.transitions[t].target \in Steps
  BY GraphAssumption DEF Validate, EndpointsResolve, Steps
<1>3. HasFallback(Graph, s) => Graph.fallback[s] \in DOMAIN Graph.transitions
  BY GraphAssumption DEF Validate, FallbacksResolve, Steps
<1> DEFINE matched == Matched(Graph, s, holds)
<1>4. matched \subseteq DOMAIN Graph.transitions
  BY DEF Matched, Outgoing
<1>5. Cardinality(matched) = 1 => (CHOOSE t \in matched : TRUE) \in matched
  <2>1. matched = {} => Cardinality(matched) = 0
    BY FS_EmptySet
  <2> QED BY <2>1
<1>6. \A t \in DOMAIN Graph.transitions :
          /\ Advance(Graph, t).kind = "advance"
          /\ Advance(Graph, t).target \in Steps
  BY <1>2 DEF Advance
<1>7. Complete.kind = "complete" /\ \A code : Stuck(code).kind = "stuck"
  BY DEF Complete, Stuck
<1>8. \/ \E t \in DOMAIN Graph.transitions : d = Advance(Graph, t)
      \/ d = Complete
      \/ \E code : d = Stuck(code)
  BY <1>1, <1>3, <1>4, <1>5, Zenon DEF NextStep, Steps
<1> QED
  BY <1>6, <1>7, <1>8

\* A published graph has its entry step.
LEMMA EntryIsAStep == Graph.entry \in Steps /\ NoStep \notin Steps
BY GraphAssumption, NoStepAssumption DEF Validate, Steps

\* The fallback of a step of a published graph leads to a step.
LEMMA FallbackResolves ==
    ASSUME NEW s \in Steps, HasFallback(Graph, s)
    PROVE  Graph.transitions[Graph.fallback[s]].target \in Steps
BY GraphAssumption DEF Validate, FallbacksResolve, EndpointsResolve, Steps

\* What a decision, a missed deadline, a failure or a cancel writes is a legal
\* write, and one that leaves the run running names the step to run next.
LEMMA WritesAreLegal ==
    ASSUME NEW s \in Steps, NEW c \in Contexts, NEW a \in 0..MaxAwaits
    PROVE  /\ \A d \in Decisions(Graph, s), actor \in {"drive", "human"}, then \in {"head", "count"} :
                 LET w == Decided(d, s, c, actor, a, then) IN
                 /\ w \in Writes /\ w.await = a
                 /\ w.status = "running" => w.next \in Steps
           /\ \A actor \in {"noHolder", "timeout"}, then \in {"head", "count"} :
                 LET w == FallbackOrFail(s, c, actor, a, then) IN
                 /\ w \in Writes /\ w.await = a
                 /\ w.status = "running" => w.next \in Steps
           /\ LET w == FailedAt(s, c) IN
                 w \in Writes /\ w.await = 0 /\ w.status # "running"
           /\ LET w == OperatorCancel(s, c) IN
                 w \in Writes /\ w.await = 0 /\ w.status # "running"
<1>0. 0 \in 0..MaxAwaits
  BY MaxAwaitsAssumption
<1>1. ASSUME NEW d \in Decisions(Graph, s), NEW actor \in {"drive", "human"},
             NEW then \in {"head", "count"}
      PROVE  LET w == Decided(d, s, c, actor, a, then) IN
             /\ w \in Writes /\ w.await = a
             /\ w.status = "running" => w.next \in Steps
  BY DecisionResolves DEF Decided, Writes, Statuses
<1>2. ASSUME NEW actor \in {"noHolder", "timeout"}, NEW then \in {"head", "count"}
      PROVE  LET w == FallbackOrFail(s, c, actor, a, then) IN
             /\ w \in Writes /\ w.await = a
             /\ w.status = "running" => w.next \in Steps
  BY FallbackResolves DEF FallbackOrFail, Writes, Statuses
<1>3. LET w == FailedAt(s, c) IN w \in Writes /\ w.await = 0 /\ w.status # "running"
  BY <1>0 DEF FailedAt, Writes, Statuses
<1>4. LET w == OperatorCancel(s, c) IN w \in Writes /\ w.await = 0 /\ w.status # "running"
  BY <1>0 DEF OperatorCancel, Writes, Statuses
<1> QED
  BY <1>1, <1>2, <1>3, <1>4

\* Counting an attempt and adding a result leave a context.
LEMMA ContextsGrow ==
    ASSUME NEW c \in Contexts, NEW s \in Steps
    PROVE  Bump(c, s) \in Contexts /\ Accumulate(c, s) \in Contexts
BY DEF Bump, Accumulate, Contexts

\* An idle call, the empty write and the empty context are legal values.
LEMMA IdleIsACall ==
    /\ Idle \in Calls /\ NoWrite \in Writes
    /\ EmptyContext \in Contexts /\ 0 \in 0..MaxAwaits
<1>1. EmptyContext \in Contexts
  BY DEF EmptyContext, Contexts
<1>2. 0 \in 0..MaxAwaits
  BY MaxAwaitsAssumption
<1>3. NoWrite \in Writes
  BY <1>1, <1>2, EntryIsAStep DEF NoWrite, Writes, Statuses
<1>4. Idle \in Calls
  BY <1>1, <1>2, <1>3 DEF Idle, Calls, Pcs
<1> QED
  BY <1>1, <1>2, <1>3, <1>4
-----------------------------------------------------------------------------
(* Inv1: types, and the step a call works on exists                        *)

\* A call that works on a step has one, and what it owes to the database
\* leaves a running run with a step to run next.
GoodCalls ==
    {c \in Calls :
        /\ c.pc \in {"count", "head", "effect", "open", "park", "close", "load", "take", "settle"}
              => c.step \in Steps
        /\ c.pc = "record" /\ c.write.status = "running" => c.write.next \in Steps}

Inv1 ==
    /\ TypeOK
    /\ IsFiniteSet(log) /\ Len(awaits) <= MaxAwaits
    /\ RunningHasStep
    /\ call \in [Proc -> GoodCalls]

\* Become moves one call and keeps the type of all.
LEMMA BecomeIsTyped ==
    ASSUME NEW S, call \in [Proc -> S], NEW p \in Proc, NEW local \in S, Become(p, local)
    PROVE  /\ call' \in [Proc -> S]
           /\ call'[p] = local
           /\ \A q \in Proc \ {p} : call'[q] = call[q]
BY DEF Become

\* Inv1 does not look inside the other variables of a step that only moves a
\* call on.
LEMMA OnlyTheCallMoves ==
    ASSUME Inv1, NEW p \in Proc, NEW local \in GoodCalls, Become(p, local),
           UNCHANGED <<table, log, awaits, told>>
    PROVE  Inv1'
<1>1. call' \in [Proc -> GoodCalls] /\ call' \in [Proc -> Calls]
  BY BecomeIsTyped DEF Inv1, GoodCalls
<1> QED
  BY <1>1 DEF Inv1, TypeOK, RunningHasStep, table

\* The rows of conductor_awaits.
AwaitRows == [step : Steps, status : {"waiting", "resolved", "timed_out", "cancelled"}]

\* An await of the run has a number above 0 and a step of the graph.
LEMMA AwaitsAreRows ==
    ASSUME Inv1, NEW a \in DOMAIN awaits
    PROVE  a \in 0..MaxAwaits /\ a # 0 /\ awaits[a].step \in Steps
<1>1. awaits \in Seq(AwaitRows) /\ Len(awaits) <= MaxAwaits
  BY DEF Inv1, TypeOK, AwaitRows
<1>2. a \in 1..Len(awaits) /\ Len(awaits) \in Nat /\ awaits[a] \in AwaitRows
  BY <1>1, ElementOfSeq, LenProperties
<1> QED
  BY <1>1, <1>2, MaxAwaitsAssumption DEF AwaitRows

\* The two bounds of Len agree when the intervals they span do.
LEMMA SameInterval ==
    ASSUME NEW m \in Nat, NEW n \in Nat, 1..m = 1..n
    PROVE  m = n
<1>1. m > 0 => m \in 1..n
  OBVIOUS
<1>2. n > 0 => n \in 1..m
  OBVIOUS
<1> QED
  BY <1>1, <1>2

\* Closing awaits changes their status and nothing else.
LEMMA ClosingKeepsRows ==
    ASSUME awaits \in Seq(AwaitRows), NEW as,
           NEW outcome \in {"resolved", "timed_out", "cancelled"},
           awaits' = CloseAwaits(as, outcome)
    PROVE  /\ awaits' \in Seq(AwaitRows) /\ Len(awaits') = Len(awaits)
           /\ DOMAIN awaits' = DOMAIN awaits
           /\ \A a \in DOMAIN awaits :
                 /\ a \in as => awaits'[a].status = outcome
                 /\ a \notin as => awaits'[a].status = awaits[a].status
<1> DEFINE closed == CloseAwaits(as, outcome)
<1>1. Len(awaits) \in Nat /\ DOMAIN awaits = 1..Len(awaits)
  BY LenProperties
<1>2. \A a \in DOMAIN awaits : awaits[a] \in AwaitRows
  BY <1>1, ElementOfSeq
<1>3. \A a \in DOMAIN awaits :
        /\ closed[a] \in AwaitRows
        /\ a \in as => closed[a].status = outcome
        /\ a \notin as => closed[a].status = awaits[a].status
  BY <1>2 DEF CloseAwaits, AwaitRows
<1>4. closed \in [1..Len(awaits) -> AwaitRows]
  BY <1>1, <1>3 DEF CloseAwaits
<1>5. closed \in Seq(AwaitRows)
  <2> HIDE DEF closed
  <2> QED
    BY <1>1, <1>4, SeqDef
<1>6. Len(closed) = Len(awaits) /\ DOMAIN closed = DOMAIN awaits
  <2>1. Len(closed) \in Nat /\ DOMAIN closed = 1..Len(closed)
    BY <1>5, LenProperties
  <2>2. 1..Len(closed) = 1..Len(awaits)
    BY <2>1, <1>4
  <2> HIDE DEF closed
  <2> QED
    BY <2>1, <2>2, <1>1, SameInterval
<1>7. awaits' = closed
  OBVIOUS
<1> HIDE DEF closed
<1> QED
  BY <1>3, <1>5, <1>6, <1>7

\* The locals of a call, as Inv1 describes them.
LEMMA CallsAreGood ==
    ASSUME Inv1, NEW p \in Proc
    PROVE  call[p] \in GoodCalls /\ call[p] \in Calls
BY DEF Inv1, GoodCalls

\* The number of recorded steps is a number.
LEMMA StepsAreCounted ==
    ASSUME Inv1
    PROVE  StepsForRun \in Nat
BY FS_CardinalityType DEF Inv1, StepsForRun

\* Moving a call to a place where it needs a step takes one.
LEMMA GotoIsGood ==
    ASSUME Inv1, NEW p \in Proc, NEW pc \in Pcs \ {"record"},
           pc \in {"count", "head", "effect", "open", "park", "close", "load", "take", "settle"}
              => call[p].step \in Steps,
           Goto(p, pc)
    PROVE  call' \in [Proc -> GoodCalls]
<1> DEFINE local == [call[p] EXCEPT !.pc = pc]
<1>1. local \in GoodCalls
  BY CallsAreGood DEF GoodCalls, Calls
<1>2. Become(p, local)
  BY DEF Goto
<1> HIDE DEF local
<1> QED
  BY <1>1, <1>2, BecomeIsTyped DEF Inv1

\* A call that stops is good.
LEMMA StopIsGood ==
    ASSUME Inv1, NEW p \in Proc, Stop(p)
    PROVE  call' \in [Proc -> GoodCalls]
<1>1. Idle \in GoodCalls
  BY IdleIsACall DEF GoodCalls, Idle
<1> QED
  BY <1>1, BecomeIsTyped DEF Inv1, Stop

\* A call may owe any legal write.
LEMMA OweIsGood ==
    ASSUME Inv1, NEW p \in Proc, NEW n \in Nat, NEW w \in Writes,
           w.status = "running" => w.next \in Steps,
           Owe(p, n, w), UNCHANGED <<table, log, awaits, told>>
    PROVE  Inv1'
<1> DEFINE local == [call[p] EXCEPT !.pc = "record", !.seq = n, !.write = w]
<1>1. local \in GoodCalls
  BY CallsAreGood DEF GoodCalls, Calls, Pcs
<1>2. Become(p, local)
  BY DEF Owe
<1> HIDE DEF local
<1> QED
  BY <1>1, <1>2, OnlyTheCallMoves

\* Inv1 after a step that closes awaits and moves a call on.
LEMMA ClosingIsTyped ==
    ASSUME Inv1, NEW as, NEW outcome \in {"resolved", "timed_out", "cancelled"},
           awaits' = CloseAwaits(as, outcome), call' \in [Proc -> GoodCalls],
           UNCHANGED <<table, log, told>>
    PROVE  Inv1'
<1>1. awaits \in Seq(AwaitRows) /\ Len(awaits) <= MaxAwaits
  BY DEF Inv1, TypeOK, AwaitRows
<1>2. awaits' \in Seq(AwaitRows) /\ Len(awaits') = Len(awaits)
  BY <1>1, ClosingKeepsRows
<1>3. call' \in [Proc -> Calls]
  BY DEF GoodCalls
<1> QED
  BY <1>1, <1>2, <1>3 DEF Inv1, TypeOK, RunningHasStep, table, AwaitRows

\* Inv1 after a step that changes the run row and moves a call on.
LEMMA TheRowIsTyped ==
    ASSUME Inv1, call' \in [Proc -> GoodCalls],
           status' \in Statuses, current' \in Steps \cup {NoStep},
           status' = "running" => current' \in Steps,
           context' \in Contexts, claimedBy' \in Proc \cup {NoProc},
           stale' \in BOOLEAN, cancelled' \in BOOLEAN,
           UNCHANGED <<log, awaits, told>>
    PROVE  Inv1'
<1>1. call' \in [Proc -> Calls]
  BY DEF GoodCalls
<1> QED
  BY <1>1 DEF Inv1, TypeOK, RunningHasStep

\* Every step of Next keeps the types, the step of every call and the step of
\* a running run.
LEMMA TypesAreKept ==
    ASSUME Inv1, [Next]_vars
    PROVE  Inv1'
<1> USE EntryIsAStep, IdleIsACall
<1>0. CASE UNCHANGED vars
  BY <1>0 DEF Inv1, TypeOK, RunningHasStep, vars, table
<1>1. ASSUME NEW p \in Proc, StartRun(p)
      PROVE  Inv1'
  <2> DEFINE local == [Idle EXCEPT !.pc = "count", !.kind = "drive", !.step = Graph.entry]
  <2>1. local \in GoodCalls
    BY DEF GoodCalls, Calls, Idle, Pcs
  <2>2. Become(p, local)
    BY <1>1 DEF StartRun
  <2> HIDE DEF local
  <2>3. call' \in [Proc -> GoodCalls]
    BY <2>1, <2>2, BecomeIsTyped DEF Inv1
  <2> QED
    BY <1>1, <2>3, TheRowIsTyped DEF StartRun, Inv1, TypeOK, Statuses
<1>2. ASSUME NEW p \in Proc, Count(p)
      PROVE  Inv1'
  <2> DEFINE local == [call[p] EXCEPT !.pc = HeadOrExit(StepsForRun), !.seq = StepsForRun]
  <2>1. local \in GoodCalls
    <3>1. HeadOrExit(StepsForRun) \in {"head", "ended"} /\ StepsForRun \in Nat
      BY StepsAreCounted DEF HeadOrExit
    <3>2. call[p] \in Calls /\ call[p].step \in Steps
      BY <1>2, CallsAreGood DEF GoodCalls, Count, At
    <3> HIDE DEF Steps
    <3> QED
      BY <3>1, <3>2 DEF GoodCalls, Calls, Pcs
  <2>2. Become(p, local)
    BY <1>2 DEF Count
  <2> HIDE DEF local
  <2> QED
    BY <1>2, <2>1, <2>2, OnlyTheCallMoves DEF Count
<1>3. ASSUME NEW p \in Proc, HonourCancel(p)
      PROVE  Inv1'
  <2>1. call[p].step \in Steps /\ call[p].context \in Contexts /\ call[p].seq \in Nat
    BY <1>3, CallsAreGood DEF GoodCalls, Calls, HonourCancel, At
  <2> QED
    BY <1>3, <2>1, WritesAreLegal, OweIsGood DEF HonourCancel
<1>4. ASSUME NEW p \in Proc, Enter(p)
      PROVE  Inv1'
  <2> DEFINE local == [call[p] EXCEPT
           !.pc = IF Graph.kind[call[p].step] \in {"agent", "action"} THEN "effect" ELSE "open",
           !.context = Bump(@, call[p].step)]
  <2>1. Bump(call[p].context, call[p].step) \in Contexts
    BY <1>4, CallsAreGood, ContextsGrow DEF GoodCalls, Calls, Enter, At
  <2>2. local \in GoodCalls
    <3> DEFINE to == IF Graph.kind[call[p].step] \in {"agent", "action"}
                     THEN "effect" ELSE "open"
    <3>1. to \in {"effect", "open"}
      OBVIOUS
    <3>2. call[p] \in Calls /\ call[p].step \in Steps
      BY <1>4, CallsAreGood DEF GoodCalls, Enter, At
    <3> HIDE DEF to
    <3>3. [call[p] EXCEPT !.pc = to, !.context = Bump(@, call[p].step)] \in GoodCalls
      BY <2>1, <3>1, <3>2 DEF GoodCalls, Calls, Pcs
    <3> QED
      BY <3>3 DEF to
  <2>3. Become(p, local)
    BY <1>4 DEF Enter
  <2> HIDE DEF local
  <2> QED
    BY <1>4, <2>2, <2>3, OnlyTheCallMoves DEF Enter
<1>5. ASSUME NEW p \in Proc, EffectSettles(p)
      PROVE  Inv1'
  <2>1. call[p].step \in Steps /\ call[p].context \in Contexts /\ call[p].seq \in Nat
    BY <1>5, CallsAreGood DEF GoodCalls, Calls, EffectSettles, At
  <2>2. Accumulate(call[p].context, call[p].step) \in Contexts
    BY <2>1, ContextsGrow
  <2> QED
    BY <1>5, <2>1, <2>2, WritesAreLegal, OweIsGood DEF EffectSettles
<1>6. ASSUME NEW p \in Proc, EffectThrows(p)
      PROVE  Inv1'
  <2>1. call[p].step \in Steps /\ call[p].context \in Contexts /\ call[p].seq \in Nat
    BY <1>6, CallsAreGood DEF GoodCalls, Calls, EffectThrows, At
  <2> QED
    BY <1>6, <2>1, WritesAreLegal, OweIsGood DEF EffectThrows
<1>7. ASSUME NEW p \in Proc, NoHolder(p)
      PROVE  Inv1'
  <2>1. call[p].step \in Steps /\ call[p].context \in Contexts /\ call[p].seq \in Nat
    BY <1>7, CallsAreGood DEF GoodCalls, Calls, NoHolder, At
  <2> QED
    BY <1>7, <2>1, WritesAreLegal, OweIsGood DEF NoHolder
<1>8. ASSUME NEW p \in Proc, Open(p)
      PROVE  Inv1'
  <2>1. call[p].step \in Steps
    BY <1>8, CallsAreGood DEF GoodCalls, Calls, Open, At
  <2>2. call' \in [Proc -> GoodCalls]
    BY <1>8, <2>1, GotoIsGood DEF Open, Pcs
  <2>3. awaits \in Seq(AwaitRows) /\ Len(awaits) <= MaxAwaits
    BY DEF Inv1, TypeOK, AwaitRows
  <2>4. awaits' \in Seq(AwaitRows) /\ Len(awaits') <= MaxAwaits
    <3> DEFINE row == [step |-> call[p].step, status |-> "waiting"]
    <3>1. row \in AwaitRows
      BY <2>1 DEF AwaitRows
    <3>2. CASE awaits' = awaits
      BY <2>3, <3>2
    <3>3. CASE Len(awaits) < MaxAwaits /\ awaits' = Append(awaits, row)
      <4> HIDE DEF row
      <4>1. /\ Append(awaits, row) \in Seq(AwaitRows) /\ Len(awaits) \in Nat
            /\ Len(Append(awaits, row)) = Len(awaits) + 1
        BY <2>3, <3>1, AppendProperties, LenProperties
      <4> QED
        BY <4>1, <3>3, MaxAwaitsAssumption
    <3> QED
      BY <1>8, <3>2, <3>3 DEF Open
  <2>5. call' \in [Proc -> Calls]
    BY <2>2 DEF GoodCalls
  <2> QED
    BY <1>8, <2>2, <2>4, <2>5 DEF Open, Inv1, TypeOK, RunningHasStep, table, AwaitRows
<1>9. ASSUME NEW p \in Proc, Park(p)
      PROVE  Inv1'
  <2>1. call[p].step \in Steps /\ call[p].context \in Contexts
    BY <1>9, CallsAreGood DEF GoodCalls, Calls, Park, At
  <2>2. call' \in [Proc -> GoodCalls]
    BY <1>9, GotoIsGood, StopIsGood DEF Park, Pcs
  <2>3. CASE claimedBy = p
    BY <1>9, <2>1, <2>2, <2>3, TheRowIsTyped DEF Park, Inv1, TypeOK, Statuses
  <2>4. CASE claimedBy # p
    <3>1. call' \in [Proc -> Calls]
      BY <2>2 DEF GoodCalls
    <3> QED
      BY <1>9, <2>2, <2>4, <3>1 DEF Park, Inv1, TypeOK, RunningHasStep
  <2> QED
    BY <2>3, <2>4
<1>10. ASSUME NEW p \in Proc, Recheck(p)
       PROVE  Inv1'
  <2>1. call' \in [Proc -> GoodCalls]
    BY <1>10, GotoIsGood, StopIsGood DEF Recheck, Pcs
  <2>2. call' \in [Proc -> Calls]
    BY <2>1 DEF GoodCalls
  <2> QED
    BY <1>10, <2>1, <2>2 DEF Recheck, Inv1, TypeOK, RunningHasStep, table
<1>11. ASSUME NEW p \in Proc, Record(p)
       PROVE  Inv1'
  <2> DEFINE w == call[p].write
             local == [call[p] EXCEPT
              !.pc = IF w.status # "running" THEN "ended"
                     ELSE IF w.then = "count" THEN "count"
                     ELSE HeadOrExit(call[p].seq + 1),
              !.step = w.next, !.seq = @ + 1, !.context = w.context, !.write = NoWrite]
  <2>1. /\ w \in Writes /\ call[p].seq \in Nat
        /\ w.status = "running" => w.next \in Steps
    BY <1>11, CallsAreGood DEF GoodCalls, Calls, Record, At
  <2>2. local \in GoodCalls
    <3> DEFINE to == IF w.status # "running" THEN "ended"
                     ELSE IF w.then = "count" THEN "count"
                     ELSE HeadOrExit(call[p].seq + 1)
    <3>1. to \in {"ended", "count", "head"} /\ (to # "ended" => w.status = "running")
      BY DEF HeadOrExit
    <3>2. call[p] \in Calls /\ call[p].seq + 1 \in Nat
      BY <2>1, CallsAreGood
    <3>3. w.next \in Steps \cup {NoStep} /\ w.context \in Contexts
      BY <2>1 DEF Writes
    <3> HIDE DEF to, w
    <3>4. [call[p] EXCEPT !.pc = to, !.step = w.next, !.seq = @ + 1,
                          !.context = w.context, !.write = NoWrite] \in GoodCalls
      BY <2>1, <3>1, <3>2, <3>3 DEF GoodCalls, Calls, Pcs
    <3> QED
      BY <3>4 DEF to, w
  <2>3. /\ log' = log \cup {RowOf(p)}
        /\ status' = w.status /\ current' = w.next /\ context' = w.context
        /\ stale' \in BOOLEAN /\ UNCHANGED <<claimedBy, cancelled, awaits, told>>
        /\ Become(p, local)
    BY <1>11 DEF Record
  <2>4. RowOf(p) \in Rows
    BY <2>1 DEF RowOf, Rows, Writes
  <2>5. log' \subseteq Rows /\ IsFiniteSet(log')
    BY <2>3, <2>4, FS_AddElement DEF Inv1, TypeOK
  <2>6. call' \in [Proc -> GoodCalls] /\ call' \in [Proc -> Calls]
    <3> HIDE DEF local
    <3> QED
      BY <2>2, <2>3, BecomeIsTyped DEF Inv1, GoodCalls
  <2>7. w.status \in Statuses /\ w.next \in Steps \cup {NoStep} /\ w.context \in Contexts
    BY <2>1 DEF Writes
  <2> HIDE DEF w, local
  <2> QED
    BY <2>1, <2>3, <2>5, <2>6, <2>7 DEF Inv1, TypeOK, RunningHasStep
<1>12. ASSUME NEW p \in Proc, RecordRefused(p) \/ Die(p)
       PROVE  Inv1'
  <2>1. call' \in [Proc -> GoodCalls]
    BY <1>12, StopIsGood DEF RecordRefused, Die
  <2>2. call' \in [Proc -> Calls]
    BY <2>1 DEF GoodCalls
  <2> QED
    BY <1>12, <2>1, <2>2 DEF RecordRefused, Die, Inv1, TypeOK, RunningHasStep, table
<1>13. ASSUME NEW p \in Proc, Finalize(p)
       PROVE  Inv1'
  <2>1. call' \in [Proc -> GoodCalls]
    BY <1>13, StopIsGood DEF Finalize
  <2>2. call' \in [Proc -> Calls]
    BY <2>1 DEF GoodCalls
  <2>3. told' \subseteq Terminal
    BY <1>13 DEF Finalize, Inv1, TypeOK, Ended
  <2> QED
    BY <1>13, <2>1, <2>2, <2>3 DEF Finalize, Inv1, TypeOK, RunningHasStep, table
<1>14. ASSUME NEW p \in Proc, Respond(p)
       PROVE  Inv1'
  <2>1. PICK a \in Waiting :
          Become(p, [Idle EXCEPT !.pc = "close", !.kind = "respond", !.step = awaits[a].step,
                                 !.await = a, !.context = context])
    BY <1>14 DEF Respond
  <2> DEFINE local == [Idle EXCEPT !.pc = "close", !.kind = "respond", !.step = awaits[a].step,
                                   !.await = a, !.context = context]
  <2>2. a \in 0..MaxAwaits /\ awaits[a].step \in Steps /\ context \in Contexts
    BY AwaitsAreRows DEF Waiting, Inv1, TypeOK
  <2>3. local \in GoodCalls
    BY <2>2 DEF GoodCalls, Calls, Idle, Pcs
  <2> HIDE DEF local
  <2> QED
    BY <1>14, <2>1, <2>3, OnlyTheCallMoves DEF Respond, local
<1>15. ASSUME NEW p \in Proc, CloseResolved(p)
       PROVE  Inv1'
  <2>1. call[p].step \in Steps
    BY <1>15, CallsAreGood DEF GoodCalls, Calls, CloseResolved, At
  <2>2. CASE call[p].await \in Waiting
    <3>1. call' \in [Proc -> GoodCalls]
      BY <1>15, <2>1, <2>2, GotoIsGood DEF CloseResolved, Pcs
    <3> QED
      BY <1>15, <2>2, <3>1, ClosingIsTyped DEF CloseResolved
  <2>3. CASE call[p].await \notin Waiting
    <3>1. call' \in [Proc -> GoodCalls]
      BY <1>15, <2>3, StopIsGood DEF CloseResolved
    <3>2. call' \in [Proc -> Calls]
      BY <3>1 DEF GoodCalls
    <3> QED
      BY <1>15, <2>3, <3>1, <3>2 DEF CloseResolved, Inv1, TypeOK, RunningHasStep, table
  <2> QED
    BY <2>2, <2>3
<1>16. ASSUME NEW p \in Proc, Expire(p)
       PROVE  Inv1'
  <2>1. PICK a \in Waiting :
          /\ awaits' = CloseAwaits({a}, "timed_out")
          /\ Become(p, [Idle EXCEPT !.pc = "load", !.kind = "expire",
                                    !.step = awaits[a].step, !.await = a])
    BY <1>16 DEF Expire
  <2> DEFINE local == [Idle EXCEPT !.pc = "load", !.kind = "expire",
                                   !.step = awaits[a].step, !.await = a]
  <2>2. a \in 0..MaxAwaits /\ awaits[a].step \in Steps
    BY AwaitsAreRows DEF Waiting
  <2>3. local \in GoodCalls
    BY <2>2 DEF GoodCalls, Calls, Idle, Pcs
  <2>4. Become(p, local)
    BY <2>1
  <2> HIDE DEF local
  <2>5. call' \in [Proc -> GoodCalls]
    BY <2>3, <2>4, BecomeIsTyped DEF Inv1
  <2> QED
    BY <1>16, <2>1, <2>5, ClosingIsTyped DEF Expire
<1>17. ASSUME NEW p \in Proc, LoadExpired(p)
       PROVE  Inv1'
  <2> DEFINE local == [call[p] EXCEPT !.pc = "take", !.context = context]
  <2>1. local \in GoodCalls
    BY <1>17, CallsAreGood DEF GoodCalls, Calls, Pcs, LoadExpired, At, Inv1, TypeOK
  <2>2. Become(p, local)
    BY <1>17 DEF LoadExpired
  <2> HIDE DEF local
  <2> QED
    BY <1>17, <2>1, <2>2, OnlyTheCallMoves DEF LoadExpired
<1>18. ASSUME NEW p \in Proc, Take(p) \/ Seize(p)
       PROVE  Inv1'
  <2>1. At(p, "take") => call[p].step \in Steps
    BY CallsAreGood DEF GoodCalls, Calls, At
  <2>2. call' \in [Proc -> GoodCalls]
    BY <1>18, <2>1, GotoIsGood DEF Take, Seize, Pcs
  <2>3. call' \in [Proc -> Calls]
    BY <2>2 DEF GoodCalls
  <2> QED
    BY <1>18, <2>2, <2>3 DEF Take, Seize, Inv1, TypeOK, RunningHasStep
<1>19. ASSUME NEW p \in Proc, SettleResponse(p) \/ SettleExpiry(p)
       PROVE  Inv1'
  <2>1. /\ call[p].step \in Steps /\ call[p].context \in Contexts
        /\ call[p].await \in 0..MaxAwaits
    BY <1>19, CallsAreGood DEF GoodCalls, Calls, SettleResponse, SettleExpiry, At
  <2>2. Accumulate(call[p].context, call[p].step) \in Contexts
    BY <2>1, ContextsGrow
  <2>3. CASE SettleResponse(p)
    BY <2>1, <2>2, <2>3, WritesAreLegal, OweIsGood, StepsAreCounted DEF SettleResponse
  <2>4. CASE SettleExpiry(p)
    BY <2>1, <2>4, WritesAreLegal, OweIsGood, StepsAreCounted DEF SettleExpiry
  <2> QED
    BY <1>19, <2>3, <2>4
<1>20. ASSUME NEW p \in Proc, Cancel(p)
       PROVE  Inv1'
  <2> DEFINE local == [Idle EXCEPT !.pc = "snapshot", !.kind = "cancel"]
  <2>1. local \in GoodCalls
    BY DEF GoodCalls, Calls, Idle, Pcs
  <2> HIDE DEF local
  <2>2. call' \in [Proc -> GoodCalls]
    BY <1>20, <2>1, BecomeIsTyped DEF Cancel, Inv1, local
  <2> QED
    BY <1>20, <2>2, TheRowIsTyped DEF Cancel, Inv1, TypeOK, Statuses, RunningHasStep
<1>21. ASSUME NEW p \in Proc, Snapshot(p)
       PROVE  Inv1'
  <2> DEFINE local == [call[p] EXCEPT !.pc = "sweep", !.step = current, !.context = context]
  <2>1. local \in GoodCalls
    BY CallsAreGood DEF GoodCalls, Calls, Pcs, Inv1, TypeOK
  <2>2. Become(p, local)
    BY <1>21 DEF Snapshot
  <2> HIDE DEF local
  <2> QED
    BY <1>21, <2>1, <2>2, OnlyTheCallMoves DEF Snapshot
<1>22. ASSUME NEW p \in Proc, Sweep(p)
       PROVE  Inv1'
  <2>1. call' \in [Proc -> GoodCalls]
    BY <1>22, GotoIsGood DEF Sweep, Pcs
  <2> QED
    BY <1>22, <2>1, ClosingIsTyped DEF Sweep
<1>23. ASSUME NEW p \in Proc, Tally(p)
       PROVE  Inv1'
  <2> DEFINE s == IF call[p].step = NoStep THEN Graph.entry ELSE call[p].step
  <2>1. s \in Steps /\ call[p].context \in Contexts
    BY CallsAreGood DEF GoodCalls, Calls
  <2>2. Owe(p, StepsForRun, OperatorCancel(s, call[p].context))
    BY <1>23 DEF Tally
  <2> HIDE DEF s
  <2> QED
    BY <1>23, <2>1, <2>2, WritesAreLegal, OweIsGood, StepsAreCounted DEF Tally
<1>24. ASSUME NEW p \in Proc, ClaimAndResume(p)
       PROVE  Inv1'
  <2> DEFINE local == [Idle EXCEPT !.pc = "resume", !.kind = "resume"]
  <2>1. local \in GoodCalls
    BY DEF GoodCalls, Calls, Idle, Pcs
  <2> HIDE DEF local
  <2>2. call' \in [Proc -> GoodCalls]
    BY <1>24, <2>1, BecomeIsTyped DEF ClaimAndResume, Inv1, local
  <2> QED
    BY <1>24, <2>2, TheRowIsTyped
       DEF ClaimAndResume, Inv1, TypeOK, Statuses, RunningHasStep
<1>25. ASSUME NEW p \in Proc, Resume(p)
       PROVE  Inv1'
  <2> DEFINE local == [call[p] EXCEPT !.pc = "count", !.step = current, !.context = context]
  <2>1. status = "running" => local \in GoodCalls
    BY CallsAreGood DEF GoodCalls, Calls, Pcs, Inv1, TypeOK, RunningHasStep
  <2>2. IF status = "running" THEN Become(p, local) ELSE Stop(p)
    BY <1>25 DEF Resume
  <2> HIDE DEF local
  <2>3. call' \in [Proc -> GoodCalls]
    BY <2>1, <2>2, BecomeIsTyped, StopIsGood DEF Inv1
  <2>4. call' \in [Proc -> Calls]
    BY <2>3 DEF GoodCalls
  <2> QED
    BY <1>25, <2>3, <2>4 DEF Resume, Inv1, TypeOK, RunningHasStep, table
<1>26. CASE GoStale \/ ClaimAndSkip
  BY <1>26 DEF GoStale, ClaimAndSkip, Inv1, TypeOK, RunningHasStep
<1> QED
  BY <1>0, <1>1, <1>2, <1>3, <1>4, <1>5, <1>6, <1>7, <1>8, <1>9, <1>10, <1>11,
     <1>12, <1>13, <1>14, <1>15, <1>16, <1>17, <1>18, <1>19, <1>20, <1>21, <1>22,
     <1>23, <1>24, <1>25, <1>26
     DEF Next, Continue, Drive, Wake, FinalizeCancel

\* Types hold initially.
LEMMA TypesAtFirst == Init => Inv1
<1> SUFFICES ASSUME Init PROVE Inv1
  OBVIOUS
<1> USE EntryIsAStep, IdleIsACall
<1>1. Idle \in GoodCalls
  BY DEF GoodCalls, Idle
<1>2. call \in [Proc -> GoodCalls] /\ call \in [Proc -> Calls]
  BY <1>1 DEF Init, GoodCalls
<1>3. IsFiniteSet(log)
  BY FS_EmptySet DEF Init
<1>4. awaits \in Seq(AwaitRows) /\ Len(awaits) = 0
  BY EmptySeq DEF Init
<1>5. /\ status = "none" /\ current = NoStep /\ context \in Contexts /\ claimedBy = NoProc
      /\ stale \in BOOLEAN /\ cancelled \in BOOLEAN /\ log = {} /\ told = {}
  BY DEF Init
<1>6. TypeOK
  BY <1>2, <1>4, <1>5 DEF TypeOK, AwaitRows
<1> QED
  BY <1>2, <1>3, <1>4, <1>5, <1>6, MaxAwaitsAssumption DEF Inv1, RunningHasStep

\* Every state of every run is well typed: no interleaving of drives,
\* responses, deadlines, cancels, resumes and crashes takes a row, a call or
\* a pending write out of the values the code can hold.
THEOREM TypeCorrect == Spec => []TypeOK
<1>1. Inv1 /\ [Next]_vars => Inv1'
  BY TypesAreKept
<1>2. Inv1 => TypeOK
  BY DEF Inv1
<1> QED
  BY <1>1, <1>2, TypesAtFirst, PTL DEF Spec

\* A run that is running always points at a step of its graph, so the resume
\* worker's emergency branch for a missing pointer is never taken.
THEOREM ARunningRunHasAStep == Spec => []RunningHasStep
<1>1. Inv1 /\ [Next]_vars => Inv1'
  BY TypesAreKept
<1>2. Inv1 => RunningHasStep
  BY DEF Inv1
<1> QED
  BY <1>1, <1>2, TypesAtFirst, PTL DEF Spec
-----------------------------------------------------------------------------
(* What each action does to the locals the invariants below look at        *)

\* The call p is now at pc, working on `step`, with sequence number `seq` and
\* await `a`; no other call moved.
Moved(p, pc, step, seq, a) ==
    /\ call'[p].pc = pc /\ call'[p].step = step
    /\ call'[p].seq = seq /\ call'[p].await = a
    /\ \A q \in Proc \ {p} : call'[q] = call[q]

Stays(p, pc) == Moved(p, pc, call[p].step, call[p].seq, call[p].await)

Stopped(p) == Moved(p, "idle", NoStep, 0, 0)

\* A call that becomes `local` has its fields.
LEMMA BecomeMoves ==
    ASSUME Inv1, NEW p \in Proc, NEW local, Become(p, local)
    PROVE  /\ Moved(p, local.pc, local.step, local.seq, local.await)
           /\ call'[p].write = local.write
BY DEF Become, Moved, Inv1, TypeOK

\* Goto, Stop and Owe in terms of Moved.
LEMMA ShortMoves ==
    ASSUME Inv1, NEW p \in Proc
    PROVE  /\ \A pc : Goto(p, pc) => Stays(p, pc)
           /\ Stop(p) => Stopped(p)
           /\ \A n, w : Owe(p, n, w) =>
                 /\ Moved(p, "record", call[p].step, n, call[p].await)
                 /\ call'[p].write = w
<1>1. call[p] \in Calls
  BY CallsAreGood
<1>2. ASSUME NEW pc, Goto(p, pc) PROVE Stays(p, pc)
  <2> DEFINE local == [call[p] EXCEPT !.pc = pc]
  <2>1. /\ local.pc = pc /\ local.step = call[p].step
        /\ local.seq = call[p].seq /\ local.await = call[p].await
    BY <1>1 DEF Calls
  <2>2. Become(p, local)
    BY <1>2 DEF Goto
  <2> HIDE DEF local
  <2> QED
    BY <2>1, <2>2, BecomeMoves DEF Stays
<1>3. ASSUME Stop(p) PROVE Stopped(p)
  <2>1. Idle.pc = "idle" /\ Idle.step = NoStep /\ Idle.seq = 0 /\ Idle.await = 0
    BY DEF Idle
  <2> QED
    BY <1>3, <2>1, BecomeMoves DEF Stop, Stopped
<1>4. ASSUME NEW n, NEW w, Owe(p, n, w)
      PROVE  /\ Moved(p, "record", call[p].step, n, call[p].await)
             /\ call'[p].write = w
  <2> DEFINE local == [call[p] EXCEPT !.pc = "record", !.seq = n, !.write = w]
  <2>1. /\ local.pc = "record" /\ local.step = call[p].step /\ local.seq = n
        /\ local.await = call[p].await /\ local.write = w
    BY <1>1 DEF Calls
  <2>2. Become(p, local)
    BY <1>4 DEF Owe
  <2> HIDE DEF local
  <2> QED
    BY <2>1, <2>2, BecomeMoves
<1> QED
  BY <1>2, <1>3, <1>4

\* Record(p) writes the row, the run columns, and moves the call on to its
\* next step, if the run goes on.
LEMMA RecordMoves ==
    ASSUME Inv1, NEW p \in Proc, Record(p)
    PROVE  LET w == call[p].write IN
           /\ \E pc \in {"ended", "count", "head"} :
                 /\ pc # "ended" => w.status = "running"
                 /\ Moved(p, pc, w.next, call[p].seq + 1, call[p].await)
           /\ log' = log \cup {RowOf(p)}
           /\ status' = w.status /\ current' = w.next
<1> DEFINE w == call[p].write
           to == IF w.status # "running" THEN "ended"
                 ELSE IF w.then = "count" THEN "count"
                 ELSE HeadOrExit(call[p].seq + 1)
           local == [call[p] EXCEPT !.pc = to, !.step = w.next, !.seq = @ + 1,
                                    !.context = w.context, !.write = NoWrite]
<1>1. to \in {"ended", "count", "head"} /\ (to # "ended" => w.status = "running")
  BY DEF HeadOrExit
<1>2. call[p] \in Calls
  BY CallsAreGood
<1>3. /\ Become(p, local) /\ log' = log \cup {RowOf(p)}
      /\ status' = w.status /\ current' = w.next
  BY DEF Record
<1> HIDE DEF to
<1>4. /\ local.pc = to /\ local.step = w.next
      /\ local.seq = call[p].seq + 1 /\ local.await = call[p].await
  BY <1>2 DEF Calls
<1> HIDE DEF local
<1> QED
  BY <1>1, <1>3, <1>4, BecomeMoves

\* A write names the await it acts on.
LEMMA WritesNameTheirAwait ==
    /\ \A d, s, c, actor, a, then : Decided(d, s, c, actor, a, then).await = a
    /\ \A s, c, actor, a, then : FallbackOrFail(s, c, actor, a, then).await = a
    /\ \A s, c : FailedAt(s, c).await = 0 /\ OperatorCancel(s, c).await = 0
BY DEF Decided, FallbackOrFail, FailedAt, OperatorCancel

\* The other actions of a call.
LEMMA CallMoves ==
    ASSUME Inv1, NEW p \in Proc
    PROVE  /\ StartRun(p) => Moved(p, "count", Graph.entry, 0, 0)
           /\ Count(p) => Moved(p, HeadOrExit(StepsForRun), call[p].step, StepsForRun,
                                call[p].await)
           /\ Enter(p) => \E pc \in {"effect", "open"} : Stays(p, pc)
           /\ HonourCancel(p) \/ EffectSettles(p) \/ EffectThrows(p) \/ NoHolder(p) =>
                 Stays(p, "record") /\ call'[p].write.await = 0
           /\ SettleResponse(p) \/ SettleExpiry(p) =>
                 /\ Moved(p, "record", call[p].step, StepsForRun, call[p].await)
                 /\ call'[p].write.await = call[p].await
           /\ Tally(p) =>
                 /\ Moved(p, "record", call[p].step, StepsForRun, call[p].await)
                 /\ call'[p].write.await = 0
           /\ Respond(p) => \E a \in Waiting : Moved(p, "close", awaits[a].step, 0, a)
           /\ Expire(p) => \E a \in Waiting :
                 /\ awaits' = CloseAwaits({a}, "timed_out")
                 /\ Moved(p, "load", awaits[a].step, 0, a)
           /\ LoadExpired(p) => Stays(p, "take")
           /\ Cancel(p) => UNCHANGED call \/ Moved(p, "snapshot", NoStep, 0, 0)
           /\ Snapshot(p) => Moved(p, "sweep", current, call[p].seq, call[p].await)
           /\ ClaimAndResume(p) => Moved(p, "resume", NoStep, 0, 0)
           /\ Resume(p) =>
                 \/ Stopped(p)
                 \/ /\ status = "running"
                    /\ Moved(p, "count", current, call[p].seq, call[p].await)
<1>1. call[p] \in Calls
  BY CallsAreGood
<1>2. StartRun(p) => Moved(p, "count", Graph.entry, 0, 0)
  <2> DEFINE local == [Idle EXCEPT !.pc = "count", !.kind = "drive", !.step = Graph.entry]
  <2>1. local.pc = "count" /\ local.step = Graph.entry /\ local.seq = 0 /\ local.await = 0
    BY DEF Idle
  <2>2. StartRun(p) => Become(p, local)
    BY DEF StartRun
  <2> HIDE DEF local
  <2> QED
    BY <2>1, <2>2, BecomeMoves
<1>3. Count(p) => Moved(p, HeadOrExit(StepsForRun), call[p].step, StepsForRun, call[p].await)
  <2> DEFINE to == HeadOrExit(StepsForRun)
             local == [call[p] EXCEPT !.pc = to, !.seq = StepsForRun]
  <2>1. Count(p) => Become(p, local)
    BY DEF Count
  <2> HIDE DEF to
  <2>2. /\ local.pc = to /\ local.step = call[p].step
        /\ local.seq = StepsForRun /\ local.await = call[p].await
    BY <1>1 DEF Calls
  <2> HIDE DEF local
  <2> QED
    BY <2>1, <2>2, BecomeMoves DEF to
<1>4. Enter(p) => \E pc \in {"effect", "open"} : Stays(p, pc)
  <2> DEFINE to == IF Graph.kind[call[p].step] \in {"agent", "action"}
                   THEN "effect" ELSE "open"
             local == [call[p] EXCEPT !.pc = to, !.context = Bump(@, call[p].step)]
  <2>1. to \in {"effect", "open"} /\ (Enter(p) => Become(p, local))
    BY DEF Enter
  <2> HIDE DEF to
  <2>2. /\ local.pc = to /\ local.step = call[p].step
        /\ local.seq = call[p].seq /\ local.await = call[p].await
    BY <1>1 DEF Calls
  <2> HIDE DEF local
  <2> QED
    BY <2>1, <2>2, BecomeMoves DEF Stays
<1>5. HonourCancel(p) \/ EffectSettles(p) \/ EffectThrows(p) \/ NoHolder(p) =>
        Stays(p, "record") /\ call'[p].write.await = 0
  <2>1. HonourCancel(p) => Stays(p, "record") /\ call'[p].write.await = 0
    BY ShortMoves, WritesNameTheirAwait DEF HonourCancel, Stays
  <2>2. EffectSettles(p) => Stays(p, "record") /\ call'[p].write.await = 0
    BY ShortMoves, WritesNameTheirAwait DEF EffectSettles, Stays
  <2>3. EffectThrows(p) => Stays(p, "record") /\ call'[p].write.await = 0
    BY ShortMoves, WritesNameTheirAwait DEF EffectThrows, Stays
  <2>4. NoHolder(p) => Stays(p, "record") /\ call'[p].write.await = 0
    BY ShortMoves, WritesNameTheirAwait DEF NoHolder, Stays
  <2> QED
    BY <2>1, <2>2, <2>3, <2>4
<1>6. SettleResponse(p) \/ SettleExpiry(p) =>
        /\ Moved(p, "record", call[p].step, StepsForRun, call[p].await)
        /\ call'[p].write.await = call[p].await
  BY ShortMoves, WritesNameTheirAwait DEF SettleResponse, SettleExpiry
<1>7. Tally(p) =>
        /\ Moved(p, "record", call[p].step, StepsForRun, call[p].await)
        /\ call'[p].write.await = 0
  BY ShortMoves, WritesNameTheirAwait DEF Tally
<1>8. Respond(p) => \E a \in Waiting : Moved(p, "close", awaits[a].step, 0, a)
  <2>1. ASSUME NEW a,
               Become(p, [Idle EXCEPT !.pc = "close", !.kind = "respond",
                                      !.step = awaits[a].step, !.await = a, !.context = context])
        PROVE  Moved(p, "close", awaits[a].step, 0, a)
    <3> DEFINE local == [Idle EXCEPT !.pc = "close", !.kind = "respond",
                                     !.step = awaits[a].step, !.await = a, !.context = context]
    <3>1. local.pc = "close" /\ local.step = awaits[a].step /\ local.seq = 0 /\ local.await = a
      BY DEF Idle
    <3>2. Become(p, local)
      BY <2>1
    <3> HIDE DEF local
    <3> QED
      BY <3>1, <3>2, BecomeMoves
  <2> QED
    BY <2>1 DEF Respond
<1>9. Expire(p) => \E a \in Waiting :
        /\ awaits' = CloseAwaits({a}, "timed_out")
        /\ Moved(p, "load", awaits[a].step, 0, a)
  <2>1. ASSUME NEW a,
               Become(p, [Idle EXCEPT !.pc = "load", !.kind = "expire",
                                      !.step = awaits[a].step, !.await = a])
        PROVE  Moved(p, "load", awaits[a].step, 0, a)
    <3> DEFINE local == [Idle EXCEPT !.pc = "load", !.kind = "expire",
                                     !.step = awaits[a].step, !.await = a]
    <3>1. local.pc = "load" /\ local.step = awaits[a].step /\ local.seq = 0 /\ local.await = a
      BY DEF Idle
    <3>2. Become(p, local)
      BY <2>1
    <3> HIDE DEF local
    <3> QED
      BY <3>1, <3>2, BecomeMoves
  <2> QED
    BY <2>1 DEF Expire
<1>10. LoadExpired(p) => Stays(p, "take")
  <2> DEFINE local == [call[p] EXCEPT !.pc = "take", !.context = context]
  <2>1. /\ local.pc = "take" /\ local.step = call[p].step
        /\ local.seq = call[p].seq /\ local.await = call[p].await
    BY <1>1 DEF Calls
  <2>2. LoadExpired(p) => Become(p, local)
    BY DEF LoadExpired
  <2> HIDE DEF local
  <2> QED
    BY <2>1, <2>2, BecomeMoves DEF Stays
<1>11. Cancel(p) => UNCHANGED call \/ Moved(p, "snapshot", NoStep, 0, 0)
  <2> DEFINE local == [Idle EXCEPT !.pc = "snapshot", !.kind = "cancel"]
  <2>1. local.pc = "snapshot" /\ local.step = NoStep /\ local.seq = 0 /\ local.await = 0
    BY DEF Idle
  <2>2. Cancel(p) => UNCHANGED call \/ Become(p, local)
    BY DEF Cancel
  <2> HIDE DEF local
  <2> QED
    BY <2>1, <2>2, BecomeMoves
<1>12. Snapshot(p) => Moved(p, "sweep", current, call[p].seq, call[p].await)
  <2> DEFINE local == [call[p] EXCEPT !.pc = "sweep", !.step = current, !.context = context]
  <2>1. /\ local.pc = "sweep" /\ local.step = current
        /\ local.seq = call[p].seq /\ local.await = call[p].await
    BY <1>1 DEF Calls
  <2>2. Snapshot(p) => Become(p, local)
    BY DEF Snapshot
  <2> HIDE DEF local
  <2> QED
    BY <2>1, <2>2, BecomeMoves
<1>13. ClaimAndResume(p) => Moved(p, "resume", NoStep, 0, 0)
  <2> DEFINE local == [Idle EXCEPT !.pc = "resume", !.kind = "resume"]
  <2>1. local.pc = "resume" /\ local.step = NoStep /\ local.seq = 0 /\ local.await = 0
    BY DEF Idle
  <2>2. ClaimAndResume(p) => Become(p, local)
    BY DEF ClaimAndResume
  <2> HIDE DEF local
  <2> QED
    BY <2>1, <2>2, BecomeMoves
<1>14. Resume(p) =>
         \/ Stopped(p)
         \/ /\ status = "running"
            /\ Moved(p, "count", current, call[p].seq, call[p].await)
  <2> DEFINE local == [call[p] EXCEPT !.pc = "count", !.step = current, !.context = context]
  <2>1. /\ local.pc = "count" /\ local.step = current
        /\ local.seq = call[p].seq /\ local.await = call[p].await
    BY <1>1 DEF Calls
  <2>2. Resume(p) => Stop(p) \/ (status = "running" /\ Become(p, local))
    BY DEF Resume
  <2> HIDE DEF local
  <2> QED
    BY <2>1, <2>2, BecomeMoves, ShortMoves
<1> QED
  BY <1>2, <1>3, <1>4, <1>5, <1>6, <1>7, <1>8, <1>9, <1>10, <1>11, <1>12, <1>13, <1>14
-----------------------------------------------------------------------------
(* Inv2: the trace is numbered without gaps                                *)

\* No call holds a sequence number beyond the end of the trace.
Inv2 ==
    /\ LogIsGapless
    /\ \A p \in Proc : call[p].seq <= StepsForRun

\* A call that moves without recording anything takes its sequence number
\* along, drops it, or counts the trace.
LEMMA QuietMoves ==
    ASSUME Inv1, NEW p \in Proc,
           \/ StartRun(p) \/ (Continue(p) /\ ~Record(p))
           \/ Respond(p) \/ Expire(p) \/ Cancel(p) \/ ClaimAndResume(p) \/ Die(p)
    PROVE  /\ log' = log
           /\ \/ UNCHANGED call
              \/ \E seq \in {0, call[p].seq, StepsForRun} : \E pc, step, a :
                    Moved(p, pc, step, seq, a)
<1> USE CallMoves, ShortMoves DEF Stays, Stopped
<1>1. CASE StartRun(p)
  BY <1>1 DEF StartRun
<1>2. CASE Count(p)
  BY <1>2 DEF Count
<1>3. CASE HonourCancel(p) \/ EffectSettles(p) \/ EffectThrows(p) \/ NoHolder(p)
  BY <1>3 DEF HonourCancel, EffectSettles, EffectThrows, NoHolder
<1>4. CASE Enter(p)
  BY <1>4 DEF Enter
<1>5. CASE Open(p)
  BY <1>5 DEF Open
<1>6. CASE Park(p)
  BY <1>6 DEF Park
<1>7. CASE Recheck(p)
  BY <1>7 DEF Recheck
<1>8. CASE RecordRefused(p) \/ Die(p) \/ Finalize(p)
  BY <1>8 DEF RecordRefused, Die, Finalize
<1>9. CASE Respond(p)
  BY <1>9 DEF Respond
<1>10. CASE CloseResolved(p)
  BY <1>10 DEF CloseResolved
<1>11. CASE Expire(p)
  BY <1>11 DEF Expire
<1>12. CASE LoadExpired(p)
  BY <1>12 DEF LoadExpired
<1>13. CASE Take(p) \/ Seize(p)
  BY <1>13 DEF Take, Seize
<1>14. CASE SettleResponse(p) \/ SettleExpiry(p)
  BY <1>14 DEF SettleResponse, SettleExpiry
<1>15. CASE Cancel(p)
  BY <1>15 DEF Cancel
<1>16. CASE Snapshot(p)
  BY <1>16 DEF Snapshot
<1>17. CASE Sweep(p)
  BY <1>17 DEF Sweep
<1>18. CASE Tally(p)
  BY <1>18 DEF Tally
<1>19. CASE ClaimAndResume(p)
  BY <1>19 DEF ClaimAndResume
<1>20. CASE Resume(p)
  BY <1>20 DEF Resume
<1> QED
  BY <1>1, <1>2, <1>3, <1>4, <1>5, <1>6, <1>7, <1>8, <1>9, <1>10, <1>11, <1>12,
     <1>13, <1>14, <1>15, <1>16, <1>17, <1>18, <1>19, <1>20
     DEF Continue, Drive, Wake, FinalizeCancel

\* The row that is recorded takes the next free number: a number that is not
\* taken and not beyond the end is the end.
LEMMA TheNextNumber ==
    ASSUME Inv1, Inv2, NEW p \in Proc, Record(p)
    PROVE  /\ call[p].seq = StepsForRun
           /\ StepsForRun' = StepsForRun + 1
           /\ LogIsGapless'
<1> DEFINE n == Cardinality(log)
<1>1. n \in Nat /\ call[p].seq \in Nat /\ call[p].seq <= n
  BY StepsAreCounted, CallsAreGood DEF Inv2, StepsForRun, Calls
<1>2. \A r \in log : r.seq # call[p].seq
  BY DEF Record, Refused
<1>3. {r.seq : r \in log} = 0..(n - 1)
  BY DEF Inv2, LogIsGapless
<1>4. call[p].seq = n
  <2>1. call[p].seq \notin {r.seq : r \in log}
    BY <1>2
  <2> QED
    BY <1>1, <1>3, <2>1
<1>5. log' = log \cup {RowOf(p)} /\ RowOf(p).seq = call[p].seq
  BY RecordMoves DEF RowOf
<1>6. RowOf(p) \notin log
  BY <1>2, <1>5
<1>7. Cardinality(log') = n + 1
  BY <1>5, <1>6, FS_AddElement DEF Inv1
<1>8. {r.seq : r \in log'} = {r.seq : r \in log} \cup {n}
  BY <1>4, <1>5
<1>9. 0..(n - 1) \cup {n} = 0..n
  BY <1>1
<1>10. {r.seq : r \in log'} = 0..(Cardinality(log') - 1)
  <2>1. {r.seq : r \in log'} = 0..n
    BY <1>3, <1>8, <1>9, Zenon
  <2>2. Cardinality(log') - 1 = n
    BY <1>1, <1>7
  <2> QED
    BY <2>1, <2>2, Zenon
<1> QED
  BY <1>4, <1>7, <1>10 DEF StepsForRun, LogIsGapless

\* Every step keeps the trace gapless and the calls within it.
LEMMA NumberingIsKept ==
    ASSUME Inv1, Inv2, [Next]_vars
    PROVE  Inv2'
<1>1. StepsForRun \in Nat /\ \A q \in Proc : call[q].seq \in Nat
  BY StepsAreCounted, CallsAreGood DEF Calls
<1>2. CASE log' = log /\ UNCHANGED call
  BY <1>2 DEF Inv2, LogIsGapless, StepsForRun
<1>3. ASSUME NEW p \in Proc, log' = log,
             NEW seq \in {0, call[p].seq, StepsForRun},
             \E pc, step, a : Moved(p, pc, step, seq, a)
      PROVE  Inv2'
  <2>1. StepsForRun' = StepsForRun /\ LogIsGapless'
    BY <1>3 DEF Inv2, LogIsGapless, StepsForRun
  <2>2. \A q \in Proc : call'[q].seq <= StepsForRun
    BY <1>1, <1>3 DEF Inv2, Moved
  <2> QED
    BY <2>1, <2>2 DEF Inv2
<1>4. ASSUME NEW p \in Proc, Record(p)
      PROVE  Inv2'
  <2>1. \A q \in Proc : call'[q].seq <= StepsForRun'
    BY <1>1, <1>4, TheNextNumber, RecordMoves DEF Inv2, Moved
  <2> QED
    BY <1>4, <2>1, TheNextNumber DEF Inv2
<1>5. CASE GoStale \/ ClaimAndSkip \/ UNCHANGED vars
  BY <1>2, <1>5 DEF GoStale, ClaimAndSkip, vars
<1>6. ASSUME NEW p \in Proc,
             \/ StartRun(p) \/ (Continue(p) /\ ~Record(p))
             \/ Respond(p) \/ Expire(p) \/ Cancel(p) \/ ClaimAndResume(p) \/ Die(p)
      PROVE  Inv2'
  BY <1>2, <1>3, <1>6, QuietMoves
<1> QED
  BY <1>4, <1>5, <1>6 DEF Next

\* An empty trace is numbered, and no call has a number yet.
LEMMA NumberingAtFirst == Init => Inv2
<1> SUFFICES ASSUME Init PROVE Inv2
  OBVIOUS
<1>1. log = {} /\ Cardinality(log) = 0
  BY FS_EmptySet DEF Init
<1>2. \A p \in Proc : call[p].seq = 0
  BY DEF Init, Idle
<1>3. {r.seq : r \in log} = 0..(0 - 1)
  BY <1>1
<1> QED
  BY <1>1, <1>2, <1>3 DEF Inv2, LogIsGapless, StepsForRun

\* Whatever races, crashes and resumes happen, the audit trace is numbered
\* 0, 1, 2, ...: of two writers that read the same count only one gets its
\* row in, and none ever skips a number.
THEOREM TraceIsGapless == Spec => []LogIsGapless
<1>1. Init => Inv2
  BY NumberingAtFirst
<1>2. Inv1 /\ [Next]_vars => Inv1'
  BY TypesAreKept
<1>3. Inv1 /\ Inv2 /\ [Next]_vars => Inv2'
  BY NumberingIsKept
<1>4. Inv2 => LogIsGapless
  BY DEF Inv2
<1> QED
  BY <1>1, <1>2, <1>3, <1>4, TypesAtFirst, PTL DEF Spec
-----------------------------------------------------------------------------
(* Inv3: who holds the lease is where the record ends                      *)

\* A drive that owns the run and has not counted its trace yet is at the step
\* the run points at as well.
Frontier(p) ==
    /\ call[p].pc = "count" => status = "running" /\ call[p].step = current
    /\ Driving(p) => /\ status = "running"
                     /\ call[p].step = current
                     /\ call[p].seq = StepsForRun

Inv3 == \A p \in Proc : claimedBy = p => Frontier(p)

\* A step that leaves the run row's status and pointer, the lease and the
\* trace alone disturbs the frontier only if it takes the call to a place
\* where the frontier must hold and did not have to.
LEMMA StayingAtTheFrontier ==
    ASSUME Inv3, NEW p \in Proc, NEW pc, NEW step, NEW seq, NEW a,
           Moved(p, pc, step, seq, a),
           UNCHANGED <<status, current, claimedBy, log>>,
           \/ pc \notin {"count", "head", "effect", "open", "park"}
           \/ Driving(p) /\ step = call[p].step /\ seq = call[p].seq
    PROVE  Inv3'
<1> SUFFICES ASSUME NEW q \in Proc, claimedBy = q
             PROVE  Frontier(q)'
  BY DEF Inv3
<1>1. Frontier(q) /\ StepsForRun' = StepsForRun
  BY DEF Inv3, StepsForRun
<1>2. CASE q # p
  BY <1>1, <1>2 DEF Moved, Frontier, Driving
<1>3. CASE q = p
  BY <1>1, <1>3 DEF Moved, Frontier, Driving
<1> QED
  BY <1>2, <1>3

\* A call that takes the lease while it is not driving owes nothing yet.
LEMMA TakingTheLease ==
    ASSUME Inv3, NEW p \in Proc, NEW pc, NEW step, NEW seq, NEW a,
           Moved(p, pc, step, seq, a), claimedBy' = p,
           pc \notin {"count", "head", "effect", "open", "park"}
    PROVE  Inv3'
BY DEF Inv3, Frontier, Moved, Driving

\* Every step keeps the owner at the frontier.
LEMMA TheFrontierIsKept ==
    ASSUME Inv1, Inv2, Inv3, [Next]_vars
    PROVE  Inv3'
<1> USE CallMoves, ShortMoves DEF At
<1>1. ASSUME NEW p \in Proc, StartRun(p)
      PROVE  Inv3'
  BY <1>1 DEF StartRun, Inv3, Frontier, Moved, Driving
<1>2. ASSUME NEW p \in Proc, Count(p)
      PROVE  Inv3'
  <2>1. /\ Moved(p, HeadOrExit(StepsForRun), call[p].step, StepsForRun, call[p].await)
        /\ UNCHANGED <<status, current, claimedBy, log>> /\ call[p].pc = "count"
    BY <1>2 DEF Count, table
  <2>2. StepsForRun' = StepsForRun
    BY <2>1 DEF StepsForRun
  <2> QED
    BY <2>1, <2>2 DEF Inv3, Frontier, Moved, Driving, HeadOrExit
<1>3. ASSUME NEW p \in Proc, Enter(p)
      PROVE  Inv3'
  BY <1>3, StayingAtTheFrontier DEF Enter, table, Stays, Driving
<1>4. ASSUME NEW p \in Proc,
             HonourCancel(p) \/ EffectSettles(p) \/ EffectThrows(p) \/ NoHolder(p)
      PROVE  Inv3'
  <2>1. Stays(p, "record") /\ UNCHANGED <<status, current, claimedBy, log>>
    BY <1>4 DEF HonourCancel, EffectSettles, EffectThrows, NoHolder, table
  <2> QED
    BY <2>1, StayingAtTheFrontier DEF Stays
<1>5. ASSUME NEW p \in Proc, Open(p)
      PROVE  Inv3'
  <2>1. /\ Stays(p, "park") /\ UNCHANGED <<status, current, claimedBy, log>>
        /\ call[p].pc = "open"
    BY <1>5 DEF Open, table
  <2> QED
    BY <2>1, StayingAtTheFrontier DEF Stays, Driving
<1>6. ASSUME NEW p \in Proc, Park(p)
      PROVE  Inv3'
  <2>1. CASE claimedBy = p
    <3>1. Stays(p, "recheck") /\ claimedBy' = p
      BY <1>6, <2>1 DEF Park
    <3> QED
      BY <3>1, TakingTheLease DEF Stays
  <2>2. CASE claimedBy # p
    <3>1. Stopped(p) /\ UNCHANGED <<status, current, claimedBy, log>>
      BY <1>6, <2>2 DEF Park
    <3> QED
      BY <3>1, StayingAtTheFrontier DEF Stopped
  <2> QED
    BY <2>1, <2>2
<1>7. ASSUME NEW p \in Proc,
             Recheck(p) \/ RecordRefused(p) \/ Die(p) \/ Finalize(p) \/ CloseResolved(p)
      PROVE  Inv3'
  <2>1. /\ UNCHANGED <<status, current, claimedBy, log>>
        /\ \/ Stopped(p) \/ Stays(p, "snapshot") \/ Stays(p, "take")
    BY <1>7 DEF Recheck, RecordRefused, Die, Finalize, CloseResolved, table
  <2> QED
    BY <2>1, StayingAtTheFrontier DEF Stays, Stopped
<1>8. ASSUME NEW p \in Proc, Record(p)
      PROVE  Inv3'
  <2> DEFINE w == call[p].write
  <2>1. PICK pc \in {"ended", "count", "head"} :
          /\ pc # "ended" => w.status = "running"
          /\ Moved(p, pc, w.next, call[p].seq + 1, call[p].await)
    BY <1>8, RecordMoves
  <2>2. status' = w.status /\ current' = w.next /\ claimedBy' = claimedBy /\ claimedBy = p
    BY <1>8 DEF Record, Refused
  <2>3. call[p].seq + 1 = StepsForRun'
    BY <1>8, TheNextNumber
  <2> HIDE DEF w
  <2> QED
    BY <2>1, <2>2, <2>3 DEF Inv3, Frontier, Moved, Driving
<1>9. ASSUME NEW p \in Proc, Respond(p)
      PROVE  Inv3'
  BY <1>9, StayingAtTheFrontier DEF Respond, table
<1>10. ASSUME NEW p \in Proc, Expire(p)
       PROVE  Inv3'
  BY <1>10, StayingAtTheFrontier DEF Expire, table
<1>11. ASSUME NEW p \in Proc, LoadExpired(p) \/ Snapshot(p) \/ Sweep(p)
       PROVE  Inv3'
  <2>1. UNCHANGED <<status, current, claimedBy, log>>
    BY <1>11 DEF LoadExpired, Snapshot, Sweep, table
  <2>2. CASE LoadExpired(p)
    BY <2>1, <2>2, StayingAtTheFrontier DEF Stays
  <2>3. CASE Snapshot(p)
    BY <2>1, <2>3, StayingAtTheFrontier
  <2>4. CASE Sweep(p)
    <3>1. Stays(p, "seize") \/ Stays(p, "tally")
      BY <2>4 DEF Sweep
    <3> QED
      BY <2>1, <3>1, StayingAtTheFrontier DEF Stays
  <2> QED
    BY <1>11, <2>2, <2>3, <2>4
<1>12. ASSUME NEW p \in Proc, Take(p) \/ Seize(p)
       PROVE  Inv3'
  <2>1. claimedBy' = p /\ (Stays(p, "settle") \/ Stays(p, "tally"))
    BY <1>12 DEF Take, Seize
  <2> QED
    BY <2>1, TakingTheLease DEF Stays
<1>13. ASSUME NEW p \in Proc, SettleResponse(p) \/ SettleExpiry(p) \/ Tally(p)
       PROVE  Inv3'
  <2>1. UNCHANGED <<status, current, claimedBy, log>>
    BY <1>13 DEF SettleResponse, SettleExpiry, Tally, table
  <2> QED
    BY <1>13, <2>1, StayingAtTheFrontier
<1>14. ASSUME NEW p \in Proc, Cancel(p)
       PROVE  Inv3'
  <2>1. UNCHANGED <<status, current, claimedBy, log>>
    BY <1>14 DEF Cancel
  <2>2. CASE UNCHANGED call
    BY <2>1, <2>2 DEF Inv3, Frontier, Driving, StepsForRun
  <2>3. CASE Moved(p, "snapshot", NoStep, 0, 0)
    BY <2>1, <2>3, StayingAtTheFrontier
  <2> QED
    BY <1>14, <2>2, <2>3
<1>15. ASSUME NEW p \in Proc, ClaimAndResume(p)
       PROVE  Inv3'
  BY <1>15, TakingTheLease DEF ClaimAndResume
<1>16. ASSUME NEW p \in Proc, Resume(p)
       PROVE  Inv3'
  <2>1. UNCHANGED <<status, current, claimedBy, log>>
    BY <1>16 DEF Resume, table
  <2>2. CASE Stopped(p)
    BY <2>1, <2>2, StayingAtTheFrontier DEF Stopped
  <2>3. CASE status = "running" /\ Moved(p, "count", current, call[p].seq, call[p].await)
    <3>1. StepsForRun' = StepsForRun
      BY <2>1 DEF StepsForRun
    <3> QED
      BY <2>1, <2>3, <3>1 DEF Inv3, Frontier, Moved, Driving
  <2> QED
    BY <1>16, <2>2, <2>3
<1>17. CASE GoStale \/ UNCHANGED vars
  BY <1>17 DEF GoStale, vars, table, Inv3, Frontier, Driving, StepsForRun
<1>18. CASE ClaimAndSkip
  BY <1>18, NoProcAssumption DEF ClaimAndSkip, Inv3
<1> QED
  BY <1>1, <1>2, <1>3, <1>4, <1>5, <1>6, <1>7, <1>8, <1>9, <1>10, <1>11, <1>12,
     <1>13, <1>14, <1>15, <1>16, <1>17, <1>18
     DEF Next, Continue, Drive, Wake, FinalizeCancel

\* Whoever holds the lease and drives is at the step the run points at, with
\* the next free sequence number: no recorded step is ever run again by the
\* owner, and its next write cannot be refused for its number.
THEOREM OwnerIsAtTheFrontier == Spec => []OwnerAtFrontier
<1>1. Init => Inv2 /\ Inv3
  BY NumberingAtFirst, NoProcAssumption DEF Init, Inv3
<1>2. Inv1 /\ [Next]_vars => Inv1'
  BY TypesAreKept
<1>3. Inv1 /\ Inv2 /\ [Next]_vars => Inv2'
  BY NumberingIsKept
<1>4. Inv1 /\ Inv2 /\ Inv3 /\ [Next]_vars => Inv3'
  BY TheFrontierIsKept
<1>5. Inv3 => OwnerAtFrontier
  BY DEF Inv3, Frontier, OwnerAtFrontier
<1> QED
  BY <1>1, <1>2, <1>3, <1>4, <1>5, TypesAtFirst, PTL DEF Spec
-----------------------------------------------------------------------------
(* Inv4: an await is applied to the run at most once                       *)

\* An await somebody acts on, or has acted on, is closed; every reference to
\* an await is to one that exists; a write acts on its call's await or none.
Inv4 ==
    /\ NoAwaitAppliedTwice
    /\ \A a \in DOMAIN awaits :
          /\ \A p \in Proc : Applying(p, a) => awaits[a].status # "waiting"
          /\ \A r \in log : r.await = a => awaits[a].status # "waiting"
    /\ \A p \in Proc : call[p].await <= Len(awaits)
    /\ \A r \in log : r.await <= Len(awaits)
    /\ \A p \in Proc : call[p].pc = "record" => call[p].write.await \in {0, call[p].await}

\* No await is opened, none opens again.
AwaitsOnlyClose ==
    /\ DOMAIN awaits' = DOMAIN awaits /\ Len(awaits') = Len(awaits)
    /\ \A a \in DOMAIN awaits :
          awaits[a].status # "waiting" => awaits'[a].status # "waiting"

\* Closing awaits opens none.
LEMMA ClosingOnlyCloses ==
    ASSUME Inv1, NEW as, NEW outcome \in {"resolved", "timed_out", "cancelled"},
           awaits' = CloseAwaits(as, outcome)
    PROVE  /\ AwaitsOnlyClose
           /\ \A a \in DOMAIN awaits : a \in as => awaits'[a].status # "waiting"
<1>1. awaits \in Seq(AwaitRows)
  BY DEF Inv1, TypeOK, AwaitRows
<1>2. Len(awaits') = Len(awaits) /\ DOMAIN awaits' = DOMAIN awaits
  BY <1>1, ClosingKeepsRows
<1>3. \A a \in DOMAIN awaits :
        /\ a \in as => awaits'[a].status = outcome
        /\ a \notin as => awaits'[a].status = awaits[a].status
  BY <1>1, ClosingKeepsRows
<1> QED
  BY <1>2, <1>3 DEF AwaitsOnlyClose

\* The domain of awaits is an interval that leaves 0, "no await", out.
LEMMA AwaitsAreNumbered ==
    ASSUME Inv1
    PROVE  DOMAIN awaits = 1..Len(awaits) /\ Len(awaits) \in Nat
BY LenProperties DEF Inv1, TypeOK

\* A step that lets no call win an await, records nothing and opens nothing.
LEMMA NothingIsWon ==
    ASSUME Inv1, Inv4, log' = log, AwaitsOnlyClose, NEW p \in Proc,
           \A q \in Proc \ {p} : call'[q] = call[q],
           call'[p].await <= Len(awaits),
           call'[p].pc = "record" => call'[p].write.await \in {0, call'[p].await},
           \A a \in DOMAIN awaits : Applying(p, a)' => Applying(p, a)
    PROVE  Inv4'
<1>1. \A q \in Proc, a \in DOMAIN awaits : Applying(q, a)' => Applying(q, a)
  <2> SUFFICES ASSUME NEW q \in Proc, NEW a \in DOMAIN awaits, Applying(q, a)'
               PROVE  Applying(q, a)
    OBVIOUS
  <2>1. CASE q = p
    BY <2>1
  <2>2. CASE q # p
    BY <2>2 DEF Applying
  <2> QED
    BY <2>1, <2>2
<1>2. NoAwaitAppliedTwice'
  BY <1>1 DEF Inv4, NoAwaitAppliedTwice, AwaitsOnlyClose
<1>3. \A a \in DOMAIN awaits' :
        /\ \A q \in Proc : Applying(q, a)' => awaits'[a].status # "waiting"
        /\ \A r \in log' : r.await = a => awaits'[a].status # "waiting"
  BY <1>1 DEF Inv4, AwaitsOnlyClose
<1>4. /\ \A q \in Proc : call'[q].await <= Len(awaits')
      /\ \A r \in log' : r.await <= Len(awaits')
      /\ \A q \in Proc : call'[q].pc = "record" => call'[q].write.await \in {0, call'[q].await}
  BY DEF Inv4, AwaitsOnlyClose
<1> QED
  BY <1>2, <1>3, <1>4 DEF Inv4

\* A call moves to a place where it acts on no await, or goes on with its own.
LEMMA MovingOn ==
    ASSUME Inv1, Inv4, log' = log, AwaitsOnlyClose,
           NEW p \in Proc, NEW pc, NEW step, NEW seq, NEW a \in {0, call[p].await},
           Moved(p, pc, step, seq, a),
           \/ pc \notin {"load", "take", "settle", "record"}
           \/ pc # "record" /\ call[p].pc \in {"load", "take", "settle"}
    PROVE  Inv4'
<1>1. 0 <= Len(awaits) /\ call[p].await <= Len(awaits)
  BY AwaitsAreNumbered DEF Inv4
<1>2. \A b \in DOMAIN awaits : Applying(p, b)' => Applying(p, b)
  BY AwaitsAreNumbered DEF Moved, Applying
<1> QED
  BY <1>1, <1>2, NothingIsWon DEF Moved

\* Closing an open await wins it.
LEMMA WinningAnAwait ==
    ASSUME Inv1, Inv4, log' = log, NEW p \in Proc, NEW a \in Waiting,
           NEW outcome \in {"resolved", "timed_out"},
           awaits' = CloseAwaits({a}, outcome),
           NEW pc \in {"load", "take"}, NEW step, NEW seq, Moved(p, pc, step, seq, a)
    PROVE  Inv4'
<1>1. /\ AwaitsOnlyClose /\ awaits'[a].status # "waiting"
      /\ a \in DOMAIN awaits /\ awaits[a].status = "waiting"
  BY ClosingOnlyCloses DEF Waiting
<1>2. a <= Len(awaits)
  BY <1>1, AwaitsAreNumbered
<1>3. \A b : Applying(p, b)' => b = a
  BY DEF Moved, Applying
<1>4. \A q \in Proc, b \in DOMAIN awaits : q # p /\ Applying(q, b)' => Applying(q, b)
  BY DEF Moved, Applying
<1>5. \A q \in Proc : ~Applying(q, a)
  BY <1>1 DEF Inv4
<1>6. \A r \in log : r.await # a
  BY <1>1 DEF Inv4
<1>7. NoAwaitAppliedTwice'
  <2> SUFFICES ASSUME NEW b \in DOMAIN awaits
               PROVE  /\ \A q, r \in log : q.await = b /\ r.await = b => q = r
                      /\ \A q, r \in Proc : Applying(q, b)' /\ Applying(r, b)' => q = r
                      /\ \A q \in Proc, r \in log : ~(Applying(q, b)' /\ r.await = b)
    BY <1>1 DEF NoAwaitAppliedTwice, AwaitsOnlyClose
  <2>1. CASE b = a
    BY <1>4, <1>5, <1>6, <2>1
  <2>2. CASE b # a
    BY <1>3, <1>4, <2>2 DEF Inv4, NoAwaitAppliedTwice
  <2> QED
    BY <2>1, <2>2
<1>8. \A b \in DOMAIN awaits' :
        /\ \A q \in Proc : Applying(q, b)' => awaits'[b].status # "waiting"
        /\ \A r \in log' : r.await = b => awaits'[b].status # "waiting"
  BY <1>1, <1>3, <1>4 DEF Inv4, AwaitsOnlyClose
<1>9. /\ \A q \in Proc : call'[q].await <= Len(awaits')
      /\ \A r \in log' : r.await <= Len(awaits')
      /\ \A q \in Proc : call'[q].pc = "record" => call'[q].write.await \in {0, call'[q].await}
  BY <1>1, <1>2 DEF Inv4, AwaitsOnlyClose, Moved
<1> QED
  BY <1>7, <1>8, <1>9 DEF Inv4

\* What a call won it records, and is done with.
LEMMA RecordingAnAwait ==
    ASSUME Inv1, Inv4, NEW p \in Proc, Record(p)
    PROVE  Inv4'
<1> DEFINE b == call[p].write.await
<1>1. /\ b \in {0, call[p].await} /\ b <= Len(awaits) /\ call[p].pc = "record"
  BY AwaitsAreNumbered DEF Record, At, Inv4
<1>2. \A a \in DOMAIN awaits : b = a => Applying(p, a)
  BY <1>1, AwaitsAreNumbered DEF Applying
<1>3. /\ log' = log \cup {RowOf(p)} /\ RowOf(p).await = b
      /\ awaits' = awaits
  BY RecordMoves DEF RowOf, Record
<1>4. /\ call'[p].pc \in {"ended", "count", "head"} /\ call'[p].await = call[p].await
      /\ \A q \in Proc \ {p} : call'[q] = call[q]
  BY RecordMoves DEF Moved
<1> HIDE DEF b
<1>5. \A a : ~Applying(p, a)'
  BY <1>4 DEF Applying
<1>6. \A q \in Proc, a \in DOMAIN awaits : Applying(q, a)' => Applying(q, a) /\ q # p
  BY <1>4, <1>5 DEF Applying
<1>7. \A a \in DOMAIN awaits : b = a =>
        /\ \A r \in log : r.await # a
        /\ \A q \in Proc : Applying(q, a) => q = p
        /\ awaits[a].status # "waiting"
  BY <1>2 DEF Inv4, NoAwaitAppliedTwice
<1>8. NoAwaitAppliedTwice'
  BY <1>3, <1>6, <1>7 DEF Inv4, NoAwaitAppliedTwice
<1>9. \A a \in DOMAIN awaits' :
        /\ \A q \in Proc : Applying(q, a)' => awaits'[a].status # "waiting"
        /\ \A r \in log' : r.await = a => awaits'[a].status # "waiting"
  BY <1>3, <1>6, <1>7 DEF Inv4
<1>10. /\ \A q \in Proc : call'[q].await <= Len(awaits')
       /\ \A r \in log' : r.await <= Len(awaits')
       /\ \A q \in Proc : call'[q].pc = "record" => call'[q].write.await \in {0, call'[q].await}
  BY <1>1, <1>3, <1>4 DEF Inv4
<1> QED
  BY <1>8, <1>9, <1>10 DEF Inv4

\* A new await is one nobody refers to.
LEMMA OpeningAnAwait ==
    ASSUME Inv1, Inv4, NEW p \in Proc, Open(p)
    PROVE  Inv4'
<1>1. Stays(p, "park") /\ log' = log
  BY ShortMoves DEF Open
<1>2. CASE UNCHANGED awaits
  BY <1>1, <1>2, MovingOn DEF Stays, AwaitsOnlyClose
<1>3. CASE awaits' = Append(awaits, [step |-> call[p].step, status |-> "waiting"])
  <2> DEFINE row == [step |-> call[p].step, status |-> "waiting"]
             n == Len(awaits)
  <2>1. call[p].step \in Steps
    BY CallsAreGood DEF GoodCalls, Open, At
  <2>2. row \in AwaitRows /\ awaits \in Seq(AwaitRows)
    BY <2>1 DEF AwaitRows, Inv1, TypeOK
  <2> HIDE DEF row
  <2>3. /\ awaits' \in Seq(AwaitRows) /\ Len(awaits') = n + 1
        /\ \A a \in 1..n : awaits'[a] = awaits[a]
    BY <1>3, <2>2, AppendProperties DEF row
  <2>4. /\ DOMAIN awaits = 1..n /\ DOMAIN awaits' = 1..(n + 1) /\ n \in Nat
    BY <2>2, <2>3, LenProperties
  <2>5. \A q \in Proc : call[q].await \in Nat /\ call[q].await # n + 1
    BY <2>4, CallsAreGood, MaxAwaitsAssumption DEF Inv4, Calls
  <2>6. \A r \in log : r.await \in Nat /\ r.await # n + 1
    BY <2>4, MaxAwaitsAssumption DEF Inv4, Inv1, TypeOK, Rows
  <2>7. \A q \in Proc : \A a : Applying(q, a)' => Applying(q, a)
    BY <1>1 DEF Stays, Moved, Applying
  <2>8. \A q \in Proc : ~Applying(q, n + 1)
    BY <2>5 DEF Applying
  <2>9. ASSUME NEW a \in DOMAIN awaits'
        PROVE  /\ \A q, r \in log' : q.await = a /\ r.await = a => q = r
               /\ \A q, r \in Proc : Applying(q, a)' /\ Applying(r, a)' => q = r
               /\ \A q \in Proc, r \in log' : ~(Applying(q, a)' /\ r.await = a)
               /\ \A q \in Proc : Applying(q, a)' => awaits'[a].status # "waiting"
               /\ \A r \in log' : r.await = a => awaits'[a].status # "waiting"
    <3>1. CASE a = n + 1
      BY <1>1, <2>6, <2>7, <2>8, <3>1
    <3>2. CASE a \in DOMAIN awaits
      BY <1>1, <2>3, <2>4, <2>7, <3>2 DEF Inv4, NoAwaitAppliedTwice
    <3> QED
      BY <2>4, <3>1, <3>2
  <2>10. /\ \A q \in Proc : call'[q].await <= Len(awaits')
         /\ \A r \in log' : r.await <= Len(awaits')
    BY <1>1, <2>3, <2>4, <2>5, <2>6 DEF Inv4, Stays, Moved
  <2>11. \A q \in Proc : call'[q].pc = "record" => call'[q].write.await \in {0, call'[q].await}
    BY <1>1 DEF Inv4, Stays, Moved
  <2> QED
    BY <2>9, <2>10, <2>11 DEF Inv4, NoAwaitAppliedTwice
<1> QED
  BY <1>2, <1>3 DEF Open

\* Every step keeps each await applied at most once.
LEMMA NoAwaitIsReused ==
    ASSUME Inv1, Inv4, [Next]_vars
    PROVE  Inv4'
<1>0. awaits' = awaits => AwaitsOnlyClose
  BY DEF AwaitsOnlyClose
<1> USE CallMoves, ShortMoves, <1>0 DEF At
<1>1. ASSUME NEW p \in Proc, StartRun(p) \/ Count(p) \/ Enter(p) \/ Snapshot(p)
      PROVE  Inv4'
  <2>1. log' = log /\ awaits' = awaits
    BY <1>1 DEF StartRun, Count, Enter, Snapshot
  <2> QED
    BY <1>1, <2>1, MovingOn DEF Stays, HeadOrExit
<1>2. ASSUME NEW p \in Proc,
             HonourCancel(p) \/ EffectSettles(p) \/ EffectThrows(p) \/ NoHolder(p) \/ Tally(p)
      PROVE  Inv4'
  <2>1. /\ log' = log /\ awaits' = awaits
        /\ call'[p].pc = "record" /\ call'[p].write.await = 0
        /\ call'[p].await = call[p].await
        /\ \A q \in Proc \ {p} : call'[q] = call[q]
    BY <1>2 DEF HonourCancel, EffectSettles, EffectThrows, NoHolder, Tally, Stays, Moved
  <2>2. \A a \in DOMAIN awaits : ~Applying(p, a)'
    BY <2>1, AwaitsAreNumbered DEF Applying
  <2>3. call'[p].await <= Len(awaits)
    BY <2>1 DEF Inv4
  <2> QED
    BY <2>1, <2>2, <2>3, NothingIsWon
<1>3. ASSUME NEW p \in Proc, Open(p)
      PROVE  Inv4'
  BY <1>3, OpeningAnAwait
<1>4. ASSUME NEW p \in Proc, Park(p) \/ Recheck(p) \/ RecordRefused(p) \/ Finalize(p) \/ Die(p)
      PROVE  Inv4'
  <2>1. log' = log /\ awaits' = awaits
    BY <1>4 DEF Park, Recheck, RecordRefused, Finalize, Die
  <2>2. Stays(p, "recheck") \/ Stays(p, "snapshot") \/ Stopped(p)
    BY <1>4 DEF Park, Recheck, RecordRefused, Finalize, Die
  <2> QED
    BY <2>1, <2>2, MovingOn DEF Stays, Stopped
<1>5. ASSUME NEW p \in Proc, Record(p)
      PROVE  Inv4'
  BY <1>5, RecordingAnAwait
<1>6. ASSUME NEW p \in Proc, Respond(p)
      PROVE  Inv4'
  <2>1. PICK a \in Waiting : Moved(p, "close", awaits[a].step, 0, a)
    BY <1>6
  <2>2. log' = log /\ awaits' = awaits
    BY <1>6 DEF Respond
  <2>3. call'[p].await <= Len(awaits)
    BY <2>1, AwaitsAreNumbered DEF Moved, Waiting
  <2>4. \A b : ~Applying(p, b)'
    BY <2>1 DEF Moved, Applying
  <2> QED
    BY <2>1, <2>2, <2>3, <2>4, NothingIsWon DEF Moved
<1>7. ASSUME NEW p \in Proc, CloseResolved(p)
      PROVE  Inv4'
  <2>1. log' = log
    BY <1>7 DEF CloseResolved
  <2>2. CASE call[p].await \in Waiting
    <3>1. awaits' = CloseAwaits({call[p].await}, "resolved") /\ Stays(p, "take")
      BY <1>7, <2>2 DEF CloseResolved
    <3> QED
      BY <2>1, <2>2, <3>1, WinningAnAwait DEF Stays
  <2>3. CASE call[p].await \notin Waiting
    <3>1. awaits' = awaits /\ Stopped(p)
      BY <1>7, <2>3 DEF CloseResolved
    <3> QED
      BY <2>1, <3>1, MovingOn DEF Stopped
  <2> QED
    BY <2>2, <2>3
<1>8. ASSUME NEW p \in Proc, Expire(p)
      PROVE  Inv4'
  <2>1. PICK a \in Waiting :
          /\ awaits' = CloseAwaits({a}, "timed_out")
          /\ Moved(p, "load", awaits[a].step, 0, a)
    BY <1>8
  <2>2. log' = log
    BY <1>8 DEF Expire
  <2> QED
    BY <2>1, <2>2, WinningAnAwait
<1>9. ASSUME NEW p \in Proc, LoadExpired(p) \/ Take(p)
      PROVE  Inv4'
  <2>1. log' = log /\ awaits' = awaits /\ call[p].pc \in {"load", "take"}
    BY <1>9 DEF LoadExpired, Take
  <2>2. CASE Stays(p, "take")
    BY <2>1, <2>2, MovingOn DEF Stays
  <2>3. CASE Stays(p, "settle")
    BY <2>1, <2>3, MovingOn DEF Stays
  <2> QED
    BY <1>9, <2>2, <2>3 DEF Take
<1>10. ASSUME NEW p \in Proc, SettleResponse(p) \/ SettleExpiry(p)
       PROVE  Inv4'
  <2>1. /\ log' = log /\ awaits' = awaits /\ call[p].pc = "settle"
        /\ call'[p].pc = "record" /\ call'[p].await = call[p].await
        /\ call'[p].write.await = call[p].await
        /\ \A q \in Proc \ {p} : call'[q] = call[q]
    BY <1>10 DEF SettleResponse, SettleExpiry, Moved
  <2>2. \A a : Applying(p, a)' => Applying(p, a)
    BY <2>1 DEF Applying
  <2>3. call'[p].await <= Len(awaits)
    BY <2>1 DEF Inv4
  <2> QED
    BY <2>1, <2>2, <2>3, NothingIsWon
<1>11. ASSUME NEW p \in Proc, Cancel(p) \/ ClaimAndResume(p) \/ Resume(p)
       PROVE  Inv4'
  <2>1. log' = log /\ awaits' = awaits
    BY <1>11 DEF Cancel, ClaimAndResume, Resume
  <2>2. CASE UNCHANGED call
    BY <2>1, <2>2 DEF Inv4, NoAwaitAppliedTwice, Applying
  <2>3. CASE \/ Moved(p, "snapshot", NoStep, 0, 0) \/ Moved(p, "resume", NoStep, 0, 0)
             \/ Stopped(p) \/ Moved(p, "count", current, call[p].seq, call[p].await)
    BY <2>1, <2>3, MovingOn DEF Stopped
  <2> QED
    BY <1>11, <2>2, <2>3
<1>12. ASSUME NEW p \in Proc, Sweep(p)
       PROVE  Inv4'
  <2>1. AwaitsOnlyClose /\ log' = log
    BY <1>12, ClosingOnlyCloses DEF Sweep
  <2>2. Stays(p, "seize") \/ Stays(p, "tally")
    BY <1>12 DEF Sweep
  <2> QED
    BY <2>1, <2>2, MovingOn DEF Stays
<1>13. ASSUME NEW p \in Proc, Seize(p)
       PROVE  Inv4'
  <2>1. log' = log /\ awaits' = awaits /\ Stays(p, "tally")
    BY <1>13 DEF Seize
  <2> QED
    BY <2>1, MovingOn DEF Stays
<1>14. CASE GoStale \/ ClaimAndSkip \/ UNCHANGED vars
  BY <1>14 DEF GoStale, ClaimAndSkip, vars, Inv4, NoAwaitAppliedTwice, Applying
<1> QED
  BY <1>1, <1>2, <1>3, <1>4, <1>5, <1>6, <1>7, <1>8, <1>9, <1>10, <1>11, <1>12,
     <1>13, <1>14
     DEF Next, Continue, Drive, Wake, FinalizeCancel

\* A run begins without awaits.
LEMMA AwaitsAtFirst == Init => Inv4
<1> SUFFICES ASSUME Init PROVE Inv4
  OBVIOUS
<1>1. Len(awaits) = 0 /\ DOMAIN awaits = {} /\ log = {}
  BY EmptySeq DEF Init
<1>2. \A p \in Proc : call[p].await = 0 /\ call[p].pc = "idle"
  BY DEF Init, Idle
<1> QED
  BY <1>1, <1>2 DEF Inv4, NoAwaitAppliedTwice

\* However many responses and deadlines race for an await, and whatever
\* cancels, crashes and resumes happen in between, at most one of them ever
\* records a step of the run.
THEOREM AnAwaitIsAppliedOnce == Spec => []NoAwaitAppliedTwice
<1>1. Inv1 /\ [Next]_vars => Inv1'
  BY TypesAreKept
<1>2. Inv1 /\ Inv4 /\ [Next]_vars => Inv4'
  BY NoAwaitIsReused
<1>3. Inv4 => NoAwaitAppliedTwice
  BY DEF Inv4
<1> QED
  BY <1>1, <1>2, <1>3, TypesAtFirst, AwaitsAtFirst, PTL DEF Spec

-----------------------------------------------------------------------------
(* The fields of a call that Moved leaves out                              *)

\* The call p keeps how it came to be and its context.
Keeps(p) == call'[p].kind = call[p].kind /\ call'[p].context = call[p].context

\* A call that becomes `local` is `local`.
LEMMA BecomeIs ==
    ASSUME Inv1, NEW p \in Proc, NEW local, Become(p, local)
    PROVE  call'[p] = local
BY DEF Become, Inv1, TypeOK

\* Goto, Stop and Owe.
LEMMA ShortLocals ==
    ASSUME Inv1, NEW p \in Proc
    PROVE  /\ \A pc : Goto(p, pc) => Keeps(p) /\ call'[p].write = call[p].write
           /\ Stop(p) => call'[p] = Idle
           /\ \A n, w : Owe(p, n, w) => Keeps(p)
<1>1. call[p] \in Calls
  BY CallsAreGood
<1>2. ASSUME NEW pc, Goto(p, pc) PROVE Keeps(p) /\ call'[p].write = call[p].write
  <2>1. call'[p] = [call[p] EXCEPT !.pc = pc]
    BY <1>2, BecomeIs DEF Goto
  <2> QED
    BY <1>1, <2>1 DEF Calls, Keeps
<1>3. ASSUME NEW n, NEW w, Owe(p, n, w) PROVE Keeps(p)
  <2>1. call'[p] = [call[p] EXCEPT !.pc = "record", !.seq = n, !.write = w]
    BY <1>3, BecomeIs DEF Owe
  <2> QED
    BY <1>1, <2>1 DEF Calls, Keeps
<1> QED
  BY <1>2, <1>3, BecomeIs DEF Stop

\* The other actions of a call.
LEMMA CallLocals ==
    ASSUME Inv1, NEW p \in Proc
    PROVE  /\ StartRun(p) => call'[p].context = EmptyContext
           /\ Count(p) => Keeps(p)
           /\ Enter(p) => call'[p].context = Bump(call[p].context, call[p].step)
           /\ Record(p) => call'[p].context = call[p].write.context
           /\ Respond(p) => call'[p].context = context
           /\ LoadExpired(p) => call'[p].context = context
           /\ Cancel(p) => UNCHANGED call \/ call'[p].kind = "cancel"
           /\ Snapshot(p) => call'[p].kind = call[p].kind /\ call'[p].context = context
           /\ Resume(p) => Stopped(p) \/ call'[p].context = context
<1>1. call[p] \in Calls
  BY CallsAreGood
<1>2. StartRun(p) => call'[p].context = EmptyContext
  <2>1. StartRun(p) =>
          call'[p] = [Idle EXCEPT !.pc = "count", !.kind = "drive", !.step = Graph.entry]
    BY BecomeIs DEF StartRun
  <2> QED
    BY <2>1 DEF Idle
<1>3. Count(p) => Keeps(p)
  <2>1. Count(p) => call'[p] = [call[p] EXCEPT !.pc = HeadOrExit(StepsForRun), !.seq = StepsForRun]
    BY BecomeIs DEF Count
  <2> QED
    BY <1>1, <2>1 DEF Calls, Keeps
<1>4. Enter(p) => call'[p].context = Bump(call[p].context, call[p].step)
  <2> DEFINE to == IF Graph.kind[call[p].step] \in {"agent", "action"} THEN "effect" ELSE "open"
             local == [call[p] EXCEPT !.pc = to, !.context = Bump(@, call[p].step)]
  <2>1. Enter(p) => call'[p] = local
    BY BecomeIs DEF Enter
  <2>2. local.context = Bump(call[p].context, call[p].step)
    BY <1>1 DEF Calls
  <2> QED
    BY <2>1, <2>2
<1>5. Record(p) => call'[p].context = call[p].write.context
  <2> DEFINE w == call[p].write
             to == IF w.status # "running" THEN "ended"
                   ELSE IF w.then = "count" THEN "count"
                   ELSE HeadOrExit(call[p].seq + 1)
             local == [call[p] EXCEPT !.pc = to, !.step = w.next, !.seq = @ + 1,
                                      !.context = w.context, !.write = NoWrite]
  <2>1. Record(p) => call'[p] = local
    BY BecomeIs DEF Record
  <2>2. local.context = w.context
    BY <1>1 DEF Calls
  <2> HIDE DEF local
  <2> QED
    BY <2>1, <2>2
<1>6. Respond(p) => call'[p].context = context
  <2>1. ASSUME NEW a,
               Become(p, [Idle EXCEPT !.pc = "close", !.kind = "respond",
                                      !.step = awaits[a].step, !.await = a, !.context = context])
        PROVE  call'[p].context = context
    <3>1. call'[p] = [Idle EXCEPT !.pc = "close", !.kind = "respond",
                                  !.step = awaits[a].step, !.await = a, !.context = context]
      BY <2>1, BecomeIs
    <3> QED
      BY <3>1 DEF Idle
  <2> QED
    BY <2>1 DEF Respond
<1>7. LoadExpired(p) => call'[p].context = context
  <2>1. LoadExpired(p) => call'[p] = [call[p] EXCEPT !.pc = "take", !.context = context]
    BY BecomeIs DEF LoadExpired
  <2> QED
    BY <1>1, <2>1 DEF Calls
<1>8. Cancel(p) => UNCHANGED call \/ call'[p].kind = "cancel"
  <2>1. Cancel(p) => UNCHANGED call \/ call'[p] = [Idle EXCEPT !.pc = "snapshot", !.kind = "cancel"]
    BY BecomeIs DEF Cancel
  <2> QED
    BY <2>1 DEF Idle
<1>9. Snapshot(p) => call'[p].kind = call[p].kind /\ call'[p].context = context
  <2>1. Snapshot(p) =>
          call'[p] = [call[p] EXCEPT !.pc = "sweep", !.step = current, !.context = context]
    BY BecomeIs DEF Snapshot
  <2> QED
    BY <1>1, <2>1 DEF Calls
<1>10. Resume(p) => Stopped(p) \/ call'[p].context = context
  <2>1. Resume(p) => \/ Stop(p)
                     \/ call'[p] = [call[p] EXCEPT !.pc = "count", !.step = current,
                                                   !.context = context]
    BY BecomeIs DEF Resume
  <2> QED
    BY <1>1, <2>1, ShortMoves DEF Calls
<1> QED
  BY <1>2, <1>3, <1>4, <1>5, <1>6, <1>7, <1>8, <1>9, <1>10

-----------------------------------------------------------------------------
(* Inv5: what a call may owe, and the rows are told apart by their number  *)

\* The steps that the transitions of s lead to.
After(s) == {Graph.transitions[t].target : t \in Outgoing(Graph, s)}

\* A write ends the run or takes it on along an edge of the graph; it cancels
\* the run exactly when it is the operator's.
Legal(w) ==
    /\ w.status # "waiting"
    /\ w.status = "running" => w.next \in After(w.step)
    /\ w.actor = "cancel" => w.status = "cancelled"

Inv5 ==
    /\ \A p \in Proc : call[p].pc = "record" => Legal(call[p].write)
    /\ \A q, r \in log : q.seq = r.seq => q = r

\* The engine advances along an edge.
LEMMA DecisionsFollowTheGraph ==
    ASSUME NEW s \in Steps, NEW d \in Decisions(Graph, s)
    PROVE  /\ d.kind \in {"advance", "complete", "stuck"}
           /\ d.kind = "advance" => d.target \in After(s)
<1>1. PICK met \in BOOLEAN, holds \in SUBSET Outgoing(Graph, s) :
          d = NextStep(Graph, s, met, holds)
  BY DEF Decisions
<1>2. HasFallback(Graph, s) => Graph.fallback[s] \in Outgoing(Graph, s)
  BY GraphAssumption DEF Validate, FallbacksResolve, Steps, Outgoing
<1> DEFINE matched == Matched(Graph, s, holds)
<1>3. matched \subseteq Outgoing(Graph, s)
  BY DEF Matched
<1>4. Cardinality(matched) = 1 => (CHOOSE t \in matched : TRUE) \in matched
  <2>1. matched = {} => Cardinality(matched) = 0
    BY FS_EmptySet
  <2> QED BY <2>1
<1>5. \A t : /\ Advance(Graph, t).kind = "advance"
             /\ Advance(Graph, t).target = Graph.transitions[t].target
  BY DEF Advance
<1>6. Complete.kind = "complete" /\ \A code : Stuck(code).kind = "stuck"
  BY DEF Complete, Stuck
<1>7. \/ \E t \in Outgoing(Graph, s) : d = Advance(Graph, t)
      \/ d = Complete
      \/ \E code : d = Stuck(code)
  BY <1>1, <1>2, <1>3, <1>4, Zenon DEF NextStep, Steps
<1>8. CASE \E t \in Outgoing(Graph, s) : d = Advance(Graph, t)
  BY <1>5, <1>8 DEF After
<1> QED
  BY <1>6, <1>7, <1>8

\* The fields of every write the executor makes.
LEMMA DecidedSays ==
    ASSUME NEW s \in Steps, NEW c, NEW a, NEW then, NEW d \in Decisions(Graph, s),
           NEW actor \in {"drive", "human"}
    PROVE  LET w == Decided(d, s, c, actor, a, then) IN
           w.step = s /\ w.actor = actor /\ w.context = c /\ Legal(w)
BY DecisionsFollowTheGraph DEF Decided, Legal

\* The same of the fallback, which follows an edge as well.
LEMMA FallbackSays ==
    ASSUME NEW s \in Steps, NEW c, NEW a, NEW then, NEW actor \in {"noHolder", "timeout"}
    PROVE  LET w == FallbackOrFail(s, c, actor, a, then) IN
           w.step = s /\ w.actor = actor /\ w.context = c /\ Legal(w)
<1>1. HasFallback(Graph, s) => Graph.transitions[Graph.fallback[s]].target \in After(s)
  BY GraphAssumption DEF Validate, FallbacksResolve, Steps, Outgoing, After
<1> QED
  BY <1>1 DEF FallbackOrFail, Legal

\* The same of a failure and of a cancel, which end the run.
LEMMA EndingSays ==
    ASSUME NEW s, NEW c
    PROVE  /\ LET w == FailedAt(s, c) IN
                 /\ w.step = s /\ w.actor = "drive" /\ w.status = "failed"
                 /\ w.context = c /\ Legal(w)
           /\ LET w == OperatorCancel(s, c) IN
                 /\ w.step = s /\ w.actor = "cancel" /\ w.status = "cancelled"
                 /\ w.context = c /\ Legal(w)
BY DEF FailedAt, OperatorCancel, Legal

\* The call p now owes a legal write that records `step` with `c`.
Owes(p, step, actor, c) ==
    /\ call'[p].write.step = step /\ call'[p].write.actor = actor
    /\ call'[p].write.context = c /\ Legal(call'[p].write)

\* What each action that decides on a write makes its call owe.
LEMMA WhatIsOwed ==
    ASSUME Inv1, NEW p \in Proc
    PROVE  /\ HonourCancel(p) => Owes(p, call[p].step, "cancel", call[p].context)
           /\ EffectSettles(p) =>
                 Owes(p, call[p].step, "drive", Accumulate(call[p].context, call[p].step))
           /\ EffectThrows(p) => /\ Owes(p, call[p].step, "drive", call[p].context)
                                 /\ call'[p].write.status = "failed"
           /\ NoHolder(p) => Owes(p, call[p].step, "noHolder", call[p].context)
           /\ SettleResponse(p) =>
                 Owes(p, call[p].step, "human", Accumulate(call[p].context, call[p].step))
           /\ SettleExpiry(p) => Owes(p, call[p].step, "timeout", call[p].context)
           /\ Tally(p) => \E s \in Steps : Owes(p, s, "cancel", call[p].context)
<1>1. call[p].pc \in {"head", "effect", "open", "settle"} => call[p].step \in Steps
  BY CallsAreGood DEF GoodCalls
<1>2. ASSUME HonourCancel(p)
      PROVE  Owes(p, call[p].step, "cancel", call[p].context)
  <2>1. call'[p].write =
          OperatorCancel(call[p].step, call[p].context)
    BY <1>2, ShortMoves DEF HonourCancel
  <2>2. call[p].step \in Steps
    BY <1>1, <1>2 DEF HonourCancel, At
  <2>3. Owes(p, call[p].step, "cancel", call[p].context)
    BY <2>1, <2>2, DecidedSays, FallbackSays, EndingSays DEF Owes
  <2> QED
    BY <2>3
<1>3. ASSUME EffectSettles(p)
      PROVE  Owes(p, call[p].step, "drive", Accumulate(call[p].context, call[p].step))
  <2> DEFINE c == Accumulate(call[p].context, call[p].step)
  <2>1. PICK d \in Decisions(Graph, call[p].step) : call'[p].write =
          Decided(d, call[p].step, c, "drive", 0, "head")
    BY <1>3, ShortMoves DEF EffectSettles
  <2>2. call[p].step \in Steps
    BY <1>1, <1>3 DEF EffectSettles, At
  <2> HIDE DEF c
  <2>3. Owes(p, call[p].step, "drive", c)
    BY <2>1, <2>2, DecidedSays, FallbackSays, EndingSays DEF Owes
  <2> QED
    BY <2>3 DEF c
<1>4. ASSUME EffectThrows(p)
      PROVE  Owes(p, call[p].step, "drive", call[p].context) /\ call'[p].write.status = "failed"
  <2>1. call'[p].write =
          FailedAt(call[p].step, call[p].context)
    BY <1>4, ShortMoves DEF EffectThrows
  <2>2. call[p].step \in Steps
    BY <1>1, <1>4 DEF EffectThrows, At
  <2>3. Owes(p, call[p].step, "drive", call[p].context) /\ call'[p].write.status = "failed"
    BY <2>1, <2>2, DecidedSays, FallbackSays, EndingSays DEF Owes
  <2> QED
    BY <2>3
<1>5. ASSUME NoHolder(p)
      PROVE  Owes(p, call[p].step, "noHolder", call[p].context)
  <2>1. call'[p].write =
          FallbackOrFail(call[p].step, call[p].context, "noHolder", 0, "head")
    BY <1>5, ShortMoves DEF NoHolder
  <2>2. call[p].step \in Steps
    BY <1>1, <1>5 DEF NoHolder, At
  <2>3. Owes(p, call[p].step, "noHolder", call[p].context)
    BY <2>1, <2>2, DecidedSays, FallbackSays, EndingSays DEF Owes
  <2> QED
    BY <2>3
<1>6. ASSUME SettleResponse(p)
      PROVE  Owes(p, call[p].step, "human", Accumulate(call[p].context, call[p].step))
  <2> DEFINE c == Accumulate(call[p].context, call[p].step)
  <2>1. PICK d \in Decisions(Graph, call[p].step) : call'[p].write =
          Decided(d, call[p].step, c, "human", call[p].await, "count")
    BY <1>6, ShortMoves DEF SettleResponse
  <2>2. call[p].step \in Steps
    BY <1>1, <1>6 DEF SettleResponse, At
  <2> HIDE DEF c
  <2>3. Owes(p, call[p].step, "human", c)
    BY <2>1, <2>2, DecidedSays, FallbackSays, EndingSays DEF Owes
  <2> QED
    BY <2>3 DEF c
<1>7. ASSUME SettleExpiry(p)
      PROVE  Owes(p, call[p].step, "timeout", call[p].context)
  <2>1. call'[p].write =
          FallbackOrFail(call[p].step, call[p].context, "timeout", call[p].await, "count")
    BY <1>7, ShortMoves DEF SettleExpiry
  <2>2. call[p].step \in Steps
    BY <1>1, <1>7 DEF SettleExpiry, At
  <2>3. Owes(p, call[p].step, "timeout", call[p].context)
    BY <2>1, <2>2, DecidedSays, FallbackSays, EndingSays DEF Owes
  <2> QED
    BY <2>3
<1>8. ASSUME Tally(p)
      PROVE  \E s \in Steps : Owes(p, s, "cancel", call[p].context)
  <2> DEFINE s == IF call[p].step = NoStep THEN Graph.entry ELSE call[p].step
  <2>1. s \in Steps
    BY CallsAreGood, EntryIsAStep DEF Calls
  <2>2. Owe(p, StepsForRun, OperatorCancel(s, call[p].context))
    BY <1>8 DEF Tally
  <2> HIDE DEF s
  <2>3. call'[p].write = OperatorCancel(s, call[p].context)
    BY <2>2, ShortMoves
  <2> QED
    BY <2>1, <2>3, DecidedSays, FallbackSays, EndingSays DEF Owes
<1> QED
  BY <1>2, <1>3, <1>4, <1>5, <1>6, <1>7, <1>8

\* The actions of a call that make it owe nothing.
Unowing(p) ==
    \/ StartRun(p) \/ Count(p) \/ Enter(p) \/ Open(p) \/ Park(p) \/ Recheck(p)
    \/ RecordRefused(p) \/ Finalize(p) \/ Respond(p) \/ CloseResolved(p) \/ Expire(p)
    \/ LoadExpired(p) \/ Take(p) \/ Cancel(p) \/ Snapshot(p) \/ Sweep(p) \/ Seize(p)
    \/ ClaimAndResume(p) \/ Resume(p) \/ Die(p)

\* Such an action records nothing and takes its call elsewhere.
LEMMA UnowingMoves ==
    ASSUME Inv1, NEW p \in Proc, Unowing(p)
    PROVE  /\ log' = log
           /\ \/ UNCHANGED call
              \/ \E pc \in Pcs \ {"record"} : \E step, seq, a : Moved(p, pc, step, seq, a)
<1> USE CallMoves, ShortMoves DEF Stays, Stopped, Pcs
<1>1. CASE StartRun(p)
  BY <1>1 DEF StartRun
<1>2. CASE Count(p)
  BY <1>2 DEF Count, HeadOrExit
<1>3. CASE Enter(p)
  BY <1>3 DEF Enter
<1>4. CASE Open(p) \/ Park(p) \/ Recheck(p)
  BY <1>4 DEF Open, Park, Recheck
<1>5. CASE RecordRefused(p) \/ Finalize(p) \/ Die(p)
  BY <1>5 DEF RecordRefused, Finalize, Die
<1>6. CASE Respond(p)
  BY <1>6 DEF Respond
<1>7. CASE CloseResolved(p) \/ LoadExpired(p) \/ Take(p)
  BY <1>7 DEF CloseResolved, LoadExpired, Take
<1>8. CASE Expire(p)
  BY <1>8 DEF Expire
<1>9. CASE Cancel(p)
  BY <1>9 DEF Cancel
<1>10. CASE Snapshot(p) \/ Sweep(p) \/ Seize(p)
  BY <1>10 DEF Snapshot, Sweep, Seize
<1>11. CASE ClaimAndResume(p) \/ Resume(p)
  BY <1>11 DEF ClaimAndResume, Resume
<1> QED
  BY <1>1, <1>2, <1>3, <1>4, <1>5, <1>6, <1>7, <1>8, <1>9, <1>10, <1>11 DEF Unowing

\* Every step keeps the owed writes legal and the rows apart.
LEMMA WritesStayLegal ==
    ASSUME Inv1, Inv5, [Next]_vars
    PROVE  Inv5'
<1>1. CASE UNCHANGED vars \/ GoStale \/ ClaimAndSkip
  BY <1>1 DEF vars, GoStale, ClaimAndSkip, Inv5
<1>2. ASSUME NEW p \in Proc, Unowing(p)
      PROVE  Inv5'
  BY <1>2, UnowingMoves DEF Moved, Inv5
<1>3. ASSUME NEW p \in Proc,
             \/ HonourCancel(p) \/ EffectSettles(p) \/ EffectThrows(p) \/ NoHolder(p)
             \/ SettleResponse(p) \/ SettleExpiry(p) \/ Tally(p)
      PROVE  Inv5'
  <2>1. log' = log /\ \A q \in Proc \ {p} : call'[q] = call[q]
    BY <1>3, CallMoves DEF HonourCancel, EffectSettles, EffectThrows, NoHolder,
       SettleResponse, SettleExpiry, Tally, Stays, Moved
  <2>2. Legal(call'[p].write)
    BY <1>3, WhatIsOwed DEF Owes
  <2> QED
    BY <2>1, <2>2 DEF Inv5
<1>4. ASSUME NEW p \in Proc, Record(p)
      PROVE  Inv5'
  <2>1. /\ call'[p].pc # "record" /\ \A q \in Proc \ {p} : call'[q] = call[q]
        /\ log' = log \cup {RowOf(p)}
    BY <1>4, RecordMoves DEF Moved
  <2>2. \A r \in log : r.seq # RowOf(p).seq
    BY <1>4 DEF Record, Refused, RowOf
  <2> QED
    BY <2>1, <2>2 DEF Inv5
<1> QED
  BY <1>1, <1>2, <1>3, <1>4
     DEF Next, Continue, Drive, Wake, FinalizeCancel, Unowing

\* A run begins with nothing owed.
LEMMA WritesAtFirst == Init => Inv5
BY DEF Init, Inv5, Idle

\* The owner's sequence number is free: its write is never refused.
LEMMA TheOwnerIsNotRefused ==
    ASSUME Inv1, Inv2, NEW p \in Proc, claimedBy = p, call[p].seq = StepsForRun
    PROVE  ~Refused(p)
<1>1. StepsForRun \in Nat
  BY StepsAreCounted
<1>2. StepsForRun \notin {r.seq : r \in log}
  BY <1>1 DEF Inv2, LogIsGapless, StepsForRun
<1> QED
  BY <1>2 DEF Refused

-----------------------------------------------------------------------------
(* Inv6: what wakes a waiting run                                          *)

OpenAt(s) == \E a \in Waiting : awaits[a].step = s

Wins(c)    == c.pc \in {"load", "take"}
Cancels(c) == c.kind = "cancel" /\ c.pc \in {"snapshot", "sweep", "seize"}

\* A call that will write, if it holds the lease.
WillWrite(c) ==
    \/ c.pc \in {"settle", "tally", "record"}
    \/ c.pc \in {"recheck", "snapshot", "sweep"} /\ cancelled

Won == \E q \in Proc : Wins(call[q])

Woken ==
    \/ ~cancelled /\ OpenAt(current)
    \/ Won
    \/ \E q \in Proc : Cancels(call[q])
    \/ \E q \in Proc : claimedBy = q /\ WillWrite(call[q])

Inv6 ==
    /\ \A p \in Proc : call[p].pc \in {"snapshot", "sweep", "seize", "tally"} => cancelled
    /\ \A p \in Proc : claimedBy = p /\ call[p].pc = "record" => call[p].seq = StepsForRun
    /\ \A p \in Proc : claimedBy = p /\ call[p].pc = "park" /\ ~cancelled =>
          OpenAt(call[p].step) \/ Won
    /\ status = "waiting" => Woken

\* A call that moves on without touching the run row or the trace wakes the
\* run as much as it did before.
LEMMA StillWakeable ==
    ASSUME Inv6, NEW p \in Proc,
           \A q \in Proc \ {p} : call'[q] = call[q],
           UNCHANGED <<status, current, cancelled, claimedBy, log>>,
           \A s : ~cancelled /\ OpenAt(s) => OpenAt(s)' \/ Won',
           call'[p].pc \in {"snapshot", "sweep", "seize", "tally"} => cancelled,
           claimedBy = p /\ call'[p].pc = "record" => call'[p].seq = StepsForRun,
           claimedBy = p /\ call'[p].pc = "park" /\ ~cancelled => OpenAt(call[p].step)' \/ Won',
           Wins(call[p]) => Wins(call'[p]),
           Cancels(call[p]) => Cancels(call'[p]),
           claimedBy = p /\ WillWrite(call[p]) => WillWrite(call[p])' \/ Cancels(call'[p])
    PROVE  Inv6'
<1>1. StepsForRun' = StepsForRun
  BY DEF StepsForRun
<1>2. Won => Won'
  BY DEF Won
<1>3. Woken => Woken'
  <2>1. CASE ~cancelled /\ OpenAt(current)
    BY <2>1 DEF Woken
  <2>2. CASE Won
    BY <1>2, <2>2 DEF Woken
  <2>3. ASSUME NEW q \in Proc, Cancels(call[q])
        PROVE  Woken'
    <3>1. Cancels(call'[q])
      BY <2>3
    <3> QED
      BY <3>1 DEF Woken
  <2>4. ASSUME NEW q \in Proc, claimedBy = q, WillWrite(call[q])
        PROVE  Woken'
    <3>1. WillWrite(call[q])' \/ Cancels(call'[q])
      BY <2>4 DEF WillWrite
    <3> QED
      BY <2>4, <3>1 DEF Woken
  <2> QED
    BY <2>1, <2>2, <2>3, <2>4 DEF Woken
<1>4. ASSUME NEW q \in Proc, claimedBy = q, call'[q].pc = "park", ~cancelled
      PROVE  (OpenAt(call[q].step) \/ Won)'
  <2>1. CASE q = p
    BY <1>4, <2>1
  <2>2. CASE q # p
    BY <1>2, <1>4, <2>2 DEF Inv6
  <2> QED
    BY <2>1, <2>2
<1> QED
  BY <1>1, <1>3, <1>4 DEF Inv6

\* An await that is closed by a call leaves the run to that call.
LEMMA ClosingWins ==
    ASSUME Inv6, NEW p \in Proc, \A q \in Proc \ {p} : call'[q] = call[q],
           UNCHANGED <<status, current, cancelled, claimedBy, log>>,
           ~WillWrite(call[p]), ~Cancels(call[p]),
           call'[p].pc \in {"load", "take"}
    PROVE  Inv6'
<1>1. Won'
  BY DEF Won, Wins
<1> QED
  BY <1>1, StillWakeable DEF Wins, Inv6

\* Unless a call dies, every step leaves a waiting run with what will wake it.
LEMMA WakersStay ==
    ASSUME Inv1, Inv2, Inv3, Inv5, Inv6, "die" \notin Events, [Next]_vars
    PROVE  Inv6'
<1>0. awaits' = awaits => \A s : OpenAt(s) => OpenAt(s)'
  BY DEF OpenAt, Waiting
<1> USE CallMoves, ShortMoves, <1>0 DEF At, Wins, Cancels, WillWrite
<1>1. ASSUME NEW p \in Proc, StartRun(p)
      PROVE  Inv6'
  BY <1>1 DEF StartRun, Inv6, Moved
<1>2. ASSUME NEW p \in Proc, Count(p) \/ Enter(p)
      PROVE  Inv6'
  <2>1. /\ UNCHANGED <<status, current, cancelled, claimedBy, log, awaits>>
        /\ call[p].pc \in {"count", "head"}
        /\ call'[p].pc \in {"head", "ended", "effect", "open"}
        /\ \A q \in Proc \ {p} : call'[q] = call[q]
    BY <1>2 DEF Count, Enter, table, Moved, Stays, HeadOrExit
  <2> QED
    BY <2>1, StillWakeable
<1>3. ASSUME NEW p \in Proc,
             HonourCancel(p) \/ EffectSettles(p) \/ EffectThrows(p) \/ NoHolder(p)
      PROVE  Inv6'
  <2>1. /\ UNCHANGED <<status, current, cancelled, claimedBy, log, awaits>>
        /\ call[p].pc \in {"head", "effect", "open"}
        /\ call'[p].pc = "record" /\ call'[p].seq = call[p].seq
        /\ \A q \in Proc \ {p} : call'[q] = call[q]
    BY <1>3 DEF HonourCancel, EffectSettles, EffectThrows, NoHolder, table, Moved, Stays
  <2>2. claimedBy = p => call[p].seq = StepsForRun
    BY <2>1 DEF Inv3, Frontier, Driving
  <2> QED
    BY <2>1, <2>2, StillWakeable
<1>4. ASSUME NEW p \in Proc, Open(p)
      PROVE  Inv6'
  <2>1. /\ UNCHANGED <<status, current, cancelled, claimedBy, log>>
        /\ call[p].pc = "open" /\ Stays(p, "park") /\ call[p].step \in Steps
    BY <1>4, CallsAreGood DEF Open, table, GoodCalls
  <2>2. (\A s : OpenAt(s) => OpenAt(s)') /\ OpenAt(call[p].step)'
    <3>1. CASE awaits' = awaits /\ \E a \in Waiting : awaits[a].step = call[p].step
      BY <2>1, <3>1 DEF OpenAt, Waiting, Stays, Moved
    <3>2. CASE awaits' = Append(awaits, [step |-> call[p].step, status |-> "waiting"])
      <4> DEFINE row == [step |-> call[p].step, status |-> "waiting"]
                 n == Len(awaits)
      <4>1. row \in AwaitRows /\ awaits \in Seq(AwaitRows)
        BY <2>1 DEF AwaitRows, Inv1, TypeOK
      <4>2. row.step = call[p].step /\ row.status = "waiting"
        OBVIOUS
      <4> HIDE DEF row
      <4>3. /\ awaits' \in Seq(AwaitRows) /\ Len(awaits') = n + 1
            /\ (\A a \in 1..n : awaits'[a] = awaits[a]) /\ awaits'[n + 1] = row
        BY <3>2, <4>1, AppendProperties DEF row
      <4>4. DOMAIN awaits = 1..n /\ DOMAIN awaits' = 1..(n + 1) /\ n \in Nat
        BY <4>1, <4>3, LenProperties
      <4>5. n + 1 \in Waiting'
        BY <4>2, <4>3, <4>4 DEF Waiting
      <4>6. \A a \in Waiting : a \in Waiting' /\ awaits'[a].step = awaits[a].step
        BY <4>3, <4>4 DEF Waiting
      <4> QED
        BY <2>1, <4>2, <4>3, <4>5, <4>6 DEF OpenAt, Stays, Moved
    <3> QED
      BY <1>4, <3>1, <3>2 DEF Open
  <2> QED
    BY <2>1, <2>2, StillWakeable DEF Stays, Moved
<1>5. ASSUME NEW p \in Proc, Park(p)
      PROVE  Inv6'
  <2>1. CASE claimedBy = p
    <3>1. /\ UNCHANGED <<cancelled, claimedBy, log, awaits>>
          /\ call[p].pc = "park" /\ Stays(p, "recheck")
          /\ status' = "waiting" /\ current' = call[p].step
      BY <1>5, <2>1 DEF Park
    <3>2. ~cancelled => OpenAt(call[p].step) \/ Won
      BY <2>1, <3>1 DEF Inv6
    <3>3. Won => Won'
      BY <3>1 DEF Won, Stays, Moved
    <3>4. ~cancelled /\ OpenAt(call[p].step) => ~cancelled' /\ OpenAt(current)'
      BY <3>1 DEF OpenAt, Waiting
    <3>5. cancelled => claimedBy' = p /\ WillWrite(call[p])'
      BY <2>1, <3>1 DEF Stays, Moved
    <3>6. Woken'
      BY <3>2, <3>3, <3>4, <3>5 DEF Woken
    <3> QED
      BY <2>1, <3>1, <3>6 DEF Inv6, Stays, Moved
  <2>2. CASE claimedBy # p
    <3>1. /\ UNCHANGED <<status, current, cancelled, claimedBy, log, awaits>>
          /\ call[p].pc = "park" /\ Stopped(p)
      BY <1>5, <2>2 DEF Park
    <3> QED
      BY <3>1, StillWakeable DEF Stopped, Moved
  <2> QED
    BY <2>1, <2>2
<1>6. ASSUME NEW p \in Proc, Recheck(p) \/ Finalize(p)
      PROVE  Inv6'
  <2>1. /\ UNCHANGED <<status, current, cancelled, claimedBy, log, awaits>>
        /\ \/ call[p].pc = "recheck" /\ cancelled /\ Stays(p, "snapshot")
           \/ call[p].pc = "recheck" /\ ~cancelled /\ Stopped(p)
           \/ call[p].pc = "ended" /\ Stopped(p)
    BY <1>6 DEF Recheck, Finalize, table
  <2> QED
    BY <2>1, StillWakeable DEF Stopped, Stays, Moved
<1>7. ASSUME NEW p \in Proc, Record(p)
      PROVE  Inv6'
  <2>1. /\ status' # "waiting" /\ UNCHANGED <<cancelled, claimedBy>> /\ claimedBy = p
        /\ call'[p].pc \in {"ended", "count", "head"}
        /\ \A q \in Proc \ {p} : call'[q] = call[q]
    BY <1>7, RecordMoves DEF Record, Refused, Inv5, Legal, Moved
  <2> QED
    BY <2>1 DEF Inv6
<1>8. ASSUME NEW p \in Proc, RecordRefused(p)
      PROVE  Inv6'
  <2>1. claimedBy # p
    BY <1>8, TheOwnerIsNotRefused DEF RecordRefused, Inv6
  <2>2. /\ UNCHANGED <<status, current, cancelled, claimedBy, log, awaits>>
        /\ call[p].pc = "record" /\ Stopped(p)
    BY <1>8 DEF RecordRefused, table
  <2> QED
    BY <2>1, <2>2, StillWakeable DEF Stopped, Moved
<1>9. ASSUME NEW p \in Proc, Respond(p)
      PROVE  Inv6'
  <2>1. /\ UNCHANGED <<status, current, cancelled, claimedBy, log, awaits>>
        /\ call[p].pc = "idle" /\ call'[p].pc = "close"
        /\ \A q \in Proc \ {p} : call'[q] = call[q]
    BY <1>9 DEF Respond, table, Moved
  <2> QED
    BY <2>1, StillWakeable
<1>10. ASSUME NEW p \in Proc, CloseResolved(p) \/ Expire(p)
       PROVE  Inv6'
  <2>1. /\ UNCHANGED <<status, current, cancelled, claimedBy, log>>
        /\ call[p].pc \in {"close", "idle"}
        /\ \A q \in Proc \ {p} : call'[q] = call[q]
        /\ \/ call'[p].pc \in {"load", "take"}
           \/ call'[p].pc = "idle" /\ awaits' = awaits
    BY <1>10 DEF CloseResolved, Expire, table, Stays, Stopped, Moved
  <2>2. CASE call'[p].pc \in {"load", "take"}
    BY <2>1, <2>2, ClosingWins
  <2>3. CASE call'[p].pc = "idle" /\ awaits' = awaits
    BY <2>1, <2>3, StillWakeable
  <2> QED
    BY <2>1, <2>2, <2>3
<1>11. ASSUME NEW p \in Proc, LoadExpired(p)
       PROVE  Inv6'
  <2>1. /\ UNCHANGED <<status, current, cancelled, claimedBy, log, awaits>>
        /\ call[p].pc = "load" /\ Stays(p, "take")
    BY <1>11 DEF LoadExpired, table
  <2> QED
    BY <2>1, StillWakeable DEF Stays, Moved
<1>12. ASSUME NEW p \in Proc, Take(p) \/ Seize(p)
       PROVE  Inv6'
  <2>1. /\ claimedBy' = p /\ UNCHANGED cancelled
        /\ call'[p].pc \in {"settle", "tally"}
        /\ call'[p].pc = "tally" => cancelled
        /\ \A q \in Proc \ {p} : call'[q] = call[q]
    BY <1>12 DEF Take, Seize, Stays, Moved, Inv6
  <2>2. WillWrite(call[p])'
    BY <2>1
  <2>3. Woken'
    BY <2>1, <2>2 DEF Woken
  <2> QED
    BY <2>1, <2>3 DEF Inv6
<1>13. ASSUME NEW p \in Proc, SettleResponse(p) \/ SettleExpiry(p) \/ Tally(p)
       PROVE  Inv6'
  <2>1. /\ UNCHANGED <<status, current, cancelled, claimedBy, log, awaits>>
        /\ call[p].pc \in {"settle", "tally"}
        /\ call'[p].pc = "record" /\ call'[p].seq = StepsForRun
        /\ \A q \in Proc \ {p} : call'[q] = call[q]
    BY <1>13 DEF SettleResponse, SettleExpiry, Tally, table, Moved
  <2> QED
    BY <2>1, StillWakeable
<1>14. ASSUME NEW p \in Proc, Cancel(p)
       PROVE  Inv6'
  <2>1. /\ cancelled' = TRUE /\ UNCHANGED <<status, current, claimedBy, log, awaits>>
        /\ call[p].pc = "idle"
    BY <1>14 DEF Cancel
  <2>2. CASE status = "waiting"
    <3>1. Become(p, [Idle EXCEPT !.pc = "snapshot", !.kind = "cancel"])
      BY <1>14, <2>2 DEF Cancel
    <3>2. call'[p].pc = "snapshot" /\ call'[p].kind = "cancel"
      BY <3>1, BecomeIs DEF Idle
    <3>3. \A q \in Proc \ {p} : call'[q] = call[q]
      BY <3>1, BecomeMoves DEF Moved
    <3>4. Woken'
      BY <3>2 DEF Woken
    <3>5. StepsForRun' = StepsForRun
      BY <2>1 DEF StepsForRun
    <3> QED
      BY <2>1, <3>2, <3>3, <3>4, <3>5 DEF Inv6
  <2>3. CASE status # "waiting"
    <3>1. UNCHANGED call
      BY <1>14, <2>3 DEF Cancel
    <3> QED
      BY <2>1, <2>3, <3>1 DEF Inv6, StepsForRun
  <2> QED
    BY <2>2, <2>3
<1>15. ASSUME NEW p \in Proc, Snapshot(p)
       PROVE  Inv6'
  <2>1. /\ UNCHANGED <<status, current, cancelled, claimedBy, log, awaits>>
        /\ call[p].pc = "snapshot" /\ call'[p].pc = "sweep" /\ call'[p].kind = call[p].kind
        /\ \A q \in Proc \ {p} : call'[q] = call[q]
    BY <1>15, CallLocals DEF Snapshot, table, Moved
  <2>2. cancelled
    BY <2>1 DEF Inv6
  <2> QED
    BY <2>1, <2>2, StillWakeable
<1>16. ASSUME NEW p \in Proc, Sweep(p)
       PROVE  Inv6'
  <2>1. /\ UNCHANGED <<status, current, cancelled, claimedBy, log>>
        /\ call[p].pc = "sweep"
        /\ call'[p].pc = IF call[p].kind = "cancel" THEN "seize" ELSE "tally"
        /\ call'[p].kind = call[p].kind
        /\ \A q \in Proc \ {p} : call'[q] = call[q]
    BY <1>16, ShortLocals DEF Sweep, table, Stays, Moved, Keeps
  <2>2. cancelled
    BY <2>1 DEF Inv6
  <2> QED
    BY <2>1, <2>2, StillWakeable
<1>17. ASSUME NEW p \in Proc, ClaimAndResume(p)
       PROVE  Inv6'
  <2>1. /\ status' # "waiting" /\ claimedBy' = p /\ UNCHANGED cancelled
        /\ call'[p].pc = "resume" /\ \A q \in Proc \ {p} : call'[q] = call[q]
    BY <1>17 DEF ClaimAndResume, Moved
  <2> QED
    BY <2>1 DEF Inv6
<1>18. ASSUME NEW p \in Proc, Resume(p)
       PROVE  Inv6'
  <2>1. /\ UNCHANGED <<status, current, cancelled, claimedBy, log, awaits>>
        /\ call[p].pc = "resume" /\ call'[p].pc \in {"idle", "count"}
        /\ \A q \in Proc \ {p} : call'[q] = call[q]
    BY <1>18 DEF Resume, table, Stopped, Moved
  <2> QED
    BY <2>1, StillWakeable
<1>19. CASE GoStale \/ UNCHANGED vars
  BY <1>19 DEF GoStale, vars, table, Inv6, Woken, Won, OpenAt, Waiting, StepsForRun
<1>20. CASE ClaimAndSkip
  BY <1>20, NoProcAssumption DEF ClaimAndSkip, Inv6
<1>21. \A p \in Proc : ~Die(p)
  BY DEF Die
<1> QED
  BY <1>1, <1>2, <1>3, <1>4, <1>5, <1>6, <1>7, <1>8, <1>9, <1>10, <1>11, <1>12, <1>13,
     <1>14, <1>15, <1>16, <1>17, <1>18, <1>19, <1>20, <1>21
     DEF Next, Continue, Drive, Wake, FinalizeCancel

\* A waiting run has something that will wake it, as long as no call dies: an
\* open await for the step it is at, or a call on its way to write what
\* follows.  Responses, deadlines, cancels, resumes and stalls may race.
THEOREM AWaitingRunIsWoken ==
    ASSUME "die" \notin Events
    PROVE  Spec => []WaitingIsWakeable
<1>1. Init => Inv1 /\ Inv2 /\ Inv3 /\ Inv5 /\ Inv6
  BY TypesAtFirst, NumberingAtFirst, WritesAtFirst, NoProcAssumption
     DEF Init, Inv3, Inv6, Idle
<1>2. Inv1 /\ [Next]_vars => Inv1'
  BY TypesAreKept
<1>3. Inv1 /\ Inv2 /\ [Next]_vars => Inv2'
  BY NumberingIsKept
<1>4. Inv1 /\ Inv2 /\ Inv3 /\ [Next]_vars => Inv3'
  BY TheFrontierIsKept
<1>5. Inv1 /\ Inv5 /\ [Next]_vars => Inv5'
  BY WritesStayLegal
<1>6. Inv1 /\ Inv2 /\ Inv3 /\ Inv5 /\ Inv6 /\ [Next]_vars => Inv6'
  BY WakersStay
<1>7. Inv6 => WaitingIsWakeable
  <2> SUFFICES ASSUME Inv6, status = "waiting"
               PROVE  \/ \E a \in Waiting : awaits[a].step = current
                      \/ \E p \in Proc : Waking(p)
    BY DEF WaitingIsWakeable
  <2>1. Woken
    BY DEF Inv6
  <2>2. \A q \in Proc : Wins(call[q]) \/ Cancels(call[q]) \/ WillWrite(call[q]) => Waking(q)
    BY DEF Wins, Cancels, WillWrite, Waking, At
  <2> QED
    BY <2>1, <2>2 DEF Woken, Won, OpenAt
<1> QED
  BY <1>1, <1>2, <1>3, <1>4, <1>5, <1>6, <1>7, PTL DEF Spec

-----------------------------------------------------------------------------
(* Inv7: no attempt is lost                                                *)

Entries(s) == Cardinality({r \in log : r.step = s /\ r.actor # "cancel"})

\* The context c counts every entry that the trace records, and the one of
\* step t that is under way.
Covers(c)       == \A s \in Steps : Entries(s) <= c.attempts[s]
CoversOne(c, t) == \A s \in Steps : Entries(s) + (IF s = t THEN 1 ELSE 0) <= c.attempts[s]

Afterwards == {"recheck", "snapshot", "sweep", "seize", "tally"}

\* What the owner carries will count its entry when it is written.
OwnerCounts(p) ==
    /\ call[p].pc \in {"count", "head"} => Covers(call[p].context)
    /\ call[p].pc \in {"effect", "open", "park"} => CoversOne(call[p].context, call[p].step)
    /\ call[p].pc = "record" =>
          LET w == call[p].write IN
          /\ w.actor = "cancel" => Covers(w.context)
          /\ w.actor # "cancel" => status = "running" /\ CoversOne(w.context, w.step)

Inv7 ==
    /\ \A p \in Proc : call[p].pc \notin {"close", "load", "take", "settle"}
    /\ status = "none" => log = {}
    /\ Covers(context)
    /\ \A p \in Proc : call[p].pc \in Afterwards => status \notin {"none", "running"}
    /\ \A p \in Proc : call[p].pc \in {"sweep", "seize", "tally"} => Covers(call[p].context)
    /\ \A p \in Proc : claimedBy = p => OwnerCounts(p)

\* The number of entries is a number.
LEMMA EntriesAreCounted ==
    ASSUME Inv1, NEW s
    PROVE  Entries(s) \in Nat
<1>1. {r \in log : r.step = s /\ r.actor # "cancel"} \subseteq log
  OBVIOUS
<1> QED
  BY <1>1, FS_Subset, FS_CardinalityType DEF Inv1, Entries

\* A recorded write adds one entry to its step, unless it is the operator's.
LEMMA RecordingCounts ==
    ASSUME Inv1, NEW p \in Proc, Record(p), NEW s \in Steps
    PROVE  LET w == call[p].write IN
           Entries(s)' = Entries(s) + (IF w.step = s /\ w.actor # "cancel" THEN 1 ELSE 0)
<1> DEFINE w == call[p].write
           set == {r \in log : r.step = s /\ r.actor # "cancel"}
           new == RowOf(p)
<1>1. new.step = w.step /\ new.actor = w.actor /\ new \notin log
  BY DEF Record, Refused, RowOf
<1>2. log' = log \cup {new}
  BY RecordMoves
<1>3. IsFiniteSet(set) /\ new \notin set
  BY <1>1, FS_Subset DEF Inv1
<1>4. {r \in log' : r.step = s /\ r.actor # "cancel"} =
          IF w.step = s /\ w.actor # "cancel" THEN set \cup {new} ELSE set
  BY <1>1, <1>2
<1>5. Cardinality(set \cup {new}) = Cardinality(set) + 1
  BY <1>3, FS_AddElement
<1>6. Cardinality(set) \in Nat
  BY <1>3, FS_CardinalityType
<1>7. /\ Entries(s) = Cardinality(set)
      /\ Entries(s)' = Cardinality({r \in log' : r.step = s /\ r.actor # "cancel"})
  BY DEF Entries
<1> HIDE DEF set, w, new
<1>8. CASE w.step = s /\ w.actor # "cancel"
  <2>1. Entries(s)' = Cardinality(set \cup {new})
    BY <1>4, <1>7, <1>8
  <2> QED
    BY <1>5, <1>7, <1>8, <2>1 DEF w
<1>9. CASE ~(w.step = s /\ w.actor # "cancel")
  <2>1. Entries(s)' = Cardinality(set)
    BY <1>4, <1>7, <1>9
  <2> QED
    BY <1>6, <1>7, <1>9, <2>1 DEF w
<1> QED
  BY <1>8, <1>9

\* A call that moves on without touching the run row or the trace.
LEMMA StillCounted ==
    ASSUME Inv7, NEW p \in Proc, \A q \in Proc \ {p} : call'[q] = call[q],
           UNCHANGED <<status, context, claimedBy, log>>,
           call'[p].pc \notin {"close", "load", "take", "settle"},
           call'[p].pc \in Afterwards => status \notin {"none", "running"},
           call'[p].pc \in {"sweep", "seize", "tally"} => Covers(call'[p].context),
           claimedBy = p => OwnerCounts(p)'
    PROVE  Inv7'
<1>2. Covers(context)'
  BY DEF Inv7, Covers, Entries
<1>3. ASSUME NEW q \in Proc, call'[q].pc \in {"sweep", "seize", "tally"}
      PROVE  Covers(call[q].context)'
  <2>1. Covers(call'[q].context)
    BY <1>3 DEF Inv7
  <2> QED
    BY <2>1 DEF Covers, Entries
<1>4. ASSUME NEW q \in Proc, claimedBy = q
      PROVE  OwnerCounts(q)'
  <2>1. CASE q = p
    BY <1>4, <2>1
  <2>2. CASE q # p
    <3>1. call'[q] = call[q] /\ OwnerCounts(q)
      BY <1>4, <2>2 DEF Inv7
    <3> QED
      BY <3>1 DEF OwnerCounts, Covers, CoversOne, Entries
  <2> QED
    BY <2>1, <2>2
<1> QED
  BY <1>2, <1>3, <1>4 DEF Inv7

\* The contexts a call works with are contexts.
LEMMA ContextsAreTyped ==
    ASSUME Inv1, NEW p \in Proc
    PROVE  /\ context \in Contexts /\ call[p].context \in Contexts
           /\ call[p].write.context \in Contexts
BY CallsAreGood DEF Inv1, TypeOK, Calls, Writes

\* Counting an attempt covers the entry that begins.
LEMMA BumpingCovers ==
    ASSUME Inv1, NEW c \in Contexts, NEW s \in Steps, Covers(c)
    PROVE  CoversOne(Bump(c, s), s)
<1> SUFFICES ASSUME NEW t \in Steps
             PROVE  Entries(t) + (IF t = s THEN 1 ELSE 0) <= Bump(c, s).attempts[t]
  BY DEF CoversOne
<1>1. Entries(t) \in Nat /\ Entries(t) <= c.attempts[t] /\ c.attempts \in [Steps -> Nat]
  BY EntriesAreCounted DEF Covers, Contexts
<1>2. Bump(c, s).attempts[t] = c.attempts[t] + (IF t = s THEN 1 ELSE 0)
  BY <1>1 DEF Bump, Contexts
<1> QED
  BY <1>1, <1>2

\* Who covers one entry more than there are covers those there are.
LEMMA CoveringOneCovers ==
    ASSUME Inv1, NEW c \in Contexts, NEW s, CoversOne(c, s)
    PROVE  Covers(c)
<1> SUFFICES ASSUME NEW t \in Steps
             PROVE  Entries(t) <= c.attempts[t]
  BY DEF Covers
<1>1. Entries(t) \in Nat /\ c.attempts[t] \in Nat
  BY EntriesAreCounted DEF Contexts
<1>2. Entries(t) + (IF t = s THEN 1 ELSE 0) <= c.attempts[t]
  BY DEF CoversOne
<1> QED
  BY <1>1, <1>2

\* Covering does not look at results.
LEMMA AccumulatingCovers ==
    ASSUME NEW c \in Contexts, NEW s \in Steps, NEW t
    PROVE  CoversOne(c, t) => CoversOne(Accumulate(c, s), t)
BY DEF CoversOne, Accumulate, Contexts

\* Unless awaits are answered, every step keeps every attempt counted.
LEMMA AttemptsAreKept ==
    ASSUME Inv1, Inv3, Inv5, Inv7, "respond" \notin Events, "deadline" \notin Events,
           [Next]_vars
    PROVE  Inv7'
<1> USE CallMoves, ShortMoves DEF At
<1>1. ASSUME NEW p \in Proc, StartRun(p)
      PROVE  Inv7'
  <2>1. /\ call'[p].pc = "count" /\ call'[p].context = EmptyContext
        /\ claimedBy' = p /\ status' = "running" /\ status = "none"
        /\ UNCHANGED <<context, log>>
        /\ \A q \in Proc \ {p} : call'[q] = call[q]
    BY <1>1, CallLocals DEF StartRun, Moved
  <2>2. log = {}
    BY <2>1 DEF Inv7
  <2>3. \A s : Entries(s) = 0
    BY <2>2, FS_EmptySet DEF Entries
  <2>4. Covers(call[p].context)' /\ Covers(context)'
    BY <2>1, <2>3 DEF Covers, EmptyContext, Inv7, Entries
  <2>5. OwnerCounts(p)'
    BY <2>1, <2>4 DEF OwnerCounts
  <2>6. \A q \in Proc : call'[q].pc \notin Afterwards
    BY <2>1 DEF Inv7, Afterwards
  <2> QED
    BY <2>1, <2>4, <2>5, <2>6 DEF Inv7, Afterwards
<1>2. ASSUME NEW p \in Proc, Count(p)
      PROVE  Inv7'
  <2>1. /\ UNCHANGED <<status, context, claimedBy, log>>
        /\ call[p].pc = "count" /\ call'[p].pc \in {"head", "ended"}
        /\ call'[p].context = call[p].context
        /\ \A q \in Proc \ {p} : call'[q] = call[q]
    BY <1>2, CallLocals DEF Count, table, Moved, HeadOrExit, Keeps
  <2>2. claimedBy = p => OwnerCounts(p)'
    BY <2>1 DEF Inv7, OwnerCounts, Covers, Entries
  <2> QED
    BY <2>1, <2>2, StillCounted DEF Afterwards
<1>3. ASSUME NEW p \in Proc, HonourCancel(p)
      PROVE  Inv7'
  <2>1. /\ UNCHANGED <<status, context, claimedBy, log>>
        /\ call[p].pc = "head" /\ call'[p].pc = "record"
        /\ call'[p].write.actor = "cancel" /\ call'[p].write.context = call[p].context
        /\ \A q \in Proc \ {p} : call'[q] = call[q]
    BY <1>3, WhatIsOwed DEF HonourCancel, table, Stays, Moved, Owes
  <2>2. claimedBy = p => OwnerCounts(p)'
    BY <2>1 DEF Inv7, OwnerCounts, Covers, Entries
  <2> QED
    BY <2>1, <2>2, StillCounted DEF Afterwards
<1>4. ASSUME NEW p \in Proc, Enter(p)
      PROVE  Inv7'
  <2>1. /\ UNCHANGED <<status, context, claimedBy, log>>
        /\ call[p].pc = "head" /\ call'[p].pc \in {"effect", "open"}
        /\ call'[p].context = Bump(call[p].context, call[p].step)
        /\ call'[p].step = call[p].step
        /\ \A q \in Proc \ {p} : call'[q] = call[q]
    BY <1>4, CallLocals DEF Enter, table, Stays, Moved
  <2>2. call[p].step \in Steps /\ call[p].context \in Contexts
    BY <2>1, CallsAreGood, ContextsAreTyped DEF GoodCalls
  <2>3. ASSUME claimedBy = p
        PROVE  OwnerCounts(p)'
    <3>1. CoversOne(call'[p].context, call'[p].step)
      BY <2>1, <2>2, <2>3, BumpingCovers DEF Inv7, OwnerCounts
    <3>2. CoversOne(call[p].context, call[p].step)'
      BY <2>1, <3>1 DEF CoversOne, Entries
    <3> QED
      BY <2>1, <3>2 DEF OwnerCounts
  <2> QED
    BY <2>1, <2>3, StillCounted DEF Afterwards
<1>5. ASSUME NEW p \in Proc, EffectSettles(p) \/ EffectThrows(p) \/ NoHolder(p)
      PROVE  Inv7'
  <2>1. /\ UNCHANGED <<status, context, claimedBy, log>>
        /\ call[p].pc \in {"effect", "open"} /\ call'[p].pc = "record"
        /\ call'[p].write.actor # "cancel" /\ call'[p].write.step = call[p].step
        /\ call'[p].write.context \in {call[p].context, Accumulate(call[p].context, call[p].step)}
        /\ \A q \in Proc \ {p} : call'[q] = call[q]
    BY <1>5, WhatIsOwed DEF EffectSettles, EffectThrows, NoHolder, table, Stays, Moved, Owes
  <2>2. call[p].step \in Steps /\ call[p].context \in Contexts
    BY <2>1, CallsAreGood, ContextsAreTyped DEF GoodCalls
  <2>3. ASSUME claimedBy = p
        PROVE  OwnerCounts(p)'
    <3>1. status = "running"
      BY <2>1, <2>3 DEF Inv3, Frontier, Driving
    <3>2. CoversOne(call'[p].write.context, call'[p].write.step)
      BY <2>1, <2>2, <2>3, AccumulatingCovers DEF Inv7, OwnerCounts
    <3>3. CoversOne(call[p].write.context, call[p].write.step)'
      BY <2>1, <3>2 DEF CoversOne, Entries
    <3> QED
      BY <2>1, <3>1, <3>3 DEF OwnerCounts
  <2> QED
    BY <2>1, <2>3, StillCounted DEF Afterwards
<1>6. ASSUME NEW p \in Proc, Open(p)
      PROVE  Inv7'
  <2>1. /\ UNCHANGED <<status, context, claimedBy, log>>
        /\ call[p].pc = "open" /\ call'[p].pc = "park"
        /\ call'[p].context = call[p].context /\ call'[p].step = call[p].step
        /\ \A q \in Proc \ {p} : call'[q] = call[q]
    BY <1>6, ShortLocals DEF Open, table, Stays, Moved, Keeps
  <2>2. claimedBy = p => OwnerCounts(p)'
    BY <2>1 DEF Inv7, OwnerCounts, CoversOne, Entries
  <2> QED
    BY <2>1, <2>2, StillCounted DEF Afterwards
<1>7. ASSUME NEW p \in Proc, Park(p)
      PROVE  Inv7'
  <2>1. CASE claimedBy = p
    <3>1. /\ UNCHANGED <<claimedBy, log>>
          /\ call[p].pc = "park" /\ call'[p].pc = "recheck"
          /\ status' = "waiting" /\ context' = call[p].context
          /\ \A q \in Proc \ {p} : call'[q] = call[q]
      BY <1>7, <2>1 DEF Park, Stays, Moved
    <3>2. Covers(call[p].context)
      BY <2>1, <3>1, ContextsAreTyped, CoveringOneCovers DEF Inv7, OwnerCounts
    <3>3. Covers(context)'
      BY <3>1, <3>2 DEF Covers, Entries
    <3>4. \A q \in Proc : call'[q].pc \in {"sweep", "seize", "tally"} => Covers(call[q].context)'
      BY <3>1 DEF Inv7, Covers, Entries
    <3>5. \A q \in Proc : claimedBy' = q => OwnerCounts(q)'
      BY <2>1, <3>1 DEF OwnerCounts
    <3> QED
      BY <3>1, <3>3, <3>4, <3>5 DEF Inv7
  <2>2. CASE claimedBy # p
    <3>1. UNCHANGED <<status, context, claimedBy, log>> /\ Stopped(p)
      BY <1>7, <2>2 DEF Park
    <3> QED
      BY <2>2, <3>1, StillCounted DEF Stopped, Moved, Afterwards
  <2> QED
    BY <2>1, <2>2
<1>8. ASSUME NEW p \in Proc, Recheck(p) \/ RecordRefused(p) \/ Finalize(p) \/ Die(p)
      PROVE  Inv7'
  <2>1. /\ UNCHANGED <<status, context, claimedBy, log>>
        /\ \/ Stopped(p)
           \/ Stays(p, "snapshot") /\ call[p].pc = "recheck"
    BY <1>8 DEF Recheck, RecordRefused, Finalize, Die, table
  <2>2. OwnerCounts(p)'
    BY <2>1 DEF OwnerCounts, Stopped, Stays, Moved
  <2> QED
    BY <2>1, <2>2, StillCounted DEF Stopped, Stays, Moved, Afterwards, Inv7
<1>9. ASSUME NEW p \in Proc, Record(p)
      PROVE  Inv7'
  <2> DEFINE w == call[p].write
  <2>1. /\ claimedBy = p /\ claimedBy' = p /\ call[p].pc = "record"
        /\ call'[p].pc \in {"ended", "count", "head"}
        /\ call'[p].context = w.context /\ context' = w.context /\ status' = w.status
        /\ \A q \in Proc \ {p} : call'[q] = call[q]
    BY <1>9, RecordMoves, CallLocals DEF Record, Refused, Moved
  <2>2. /\ w.context \in Contexts /\ w.step \in Steps
        /\ w.status \in Statuses /\ (w.actor = "cancel" => w.status = "cancelled")
    BY <2>1, CallsAreGood DEF Calls, Writes, Inv5, Legal
  <2>3. /\ w.actor = "cancel" => Covers(w.context)
        /\ w.actor # "cancel" => status = "running" /\ CoversOne(w.context, w.step)
    BY <2>1 DEF Inv7, OwnerCounts
  <2>4. \A s \in Steps :
          Entries(s)' = Entries(s) + (IF w.step = s /\ w.actor # "cancel" THEN 1 ELSE 0)
    BY <1>9, RecordingCounts
  <2> HIDE DEF w
  <2>5. \A s \in Steps : Entries(s)' <= w.context.attempts[s]
    <3> SUFFICES ASSUME NEW s \in Steps
                 PROVE  Entries(s)' <= w.context.attempts[s]
      OBVIOUS
    <3>1. Entries(s) \in Nat /\ w.context.attempts[s] \in Nat
      BY <2>2, EntriesAreCounted DEF Contexts
    <3>2. CASE w.actor = "cancel"
      BY <2>3, <2>4, <3>1, <3>2 DEF Covers
    <3>3. CASE w.actor # "cancel"
      BY <2>3, <2>4, <3>1, <3>3 DEF CoversOne
    <3> QED
      BY <3>2, <3>3
  <2>6. Covers(context)' /\ Covers(call[p].context)'
    BY <2>1, <2>5 DEF Covers
  <2>7. \A q \in Proc : call'[q].pc \in Afterwards => status' \notin {"none", "running"}
    BY <2>1, <2>2, <2>3 DEF Inv7, Afterwards, Statuses
  <2>8. ASSUME NEW q \in Proc, call'[q].pc \in {"sweep", "seize", "tally"}
        PROVE  Covers(call[q].context)'
    <3>1. call'[q] = call[q] /\ Covers(call[q].context) /\ status # "running"
      BY <2>1, <2>8 DEF Inv7, Afterwards
    <3>2. \A s \in Steps : Entries(s)' = Entries(s)
      <4> SUFFICES ASSUME NEW s \in Steps PROVE Entries(s)' = Entries(s)
        OBVIOUS
      <4>1. Entries(s) \in Nat
        BY EntriesAreCounted
      <4> QED
        BY <2>3, <2>4, <3>1, <4>1
    <3> QED
      BY <3>1, <3>2 DEF Covers
  <2>9. OwnerCounts(p)'
    BY <2>1, <2>6 DEF OwnerCounts
  <2> QED
    BY <2>1, <2>2, <2>6, <2>7, <2>8, <2>9 DEF Inv7, Statuses
<1>10. ASSUME NEW p \in Proc, Cancel(p)
       PROVE  Inv7'
  <2>1. UNCHANGED <<status, context, claimedBy, log>>
    BY <1>10 DEF Cancel
  <2>2. CASE UNCHANGED call
    BY <2>1, <2>2 DEF Inv7, OwnerCounts, Covers, CoversOne, Entries
  <2>3. CASE status = "waiting" /\ Moved(p, "snapshot", NoStep, 0, 0)
    <3>1. OwnerCounts(p)'
      BY <2>3 DEF OwnerCounts, Moved
    <3> QED
      BY <2>1, <2>3, <3>1, StillCounted DEF Moved
  <2> QED
    BY <1>10, <2>2, <2>3 DEF Cancel
<1>11. ASSUME NEW p \in Proc, Snapshot(p)
       PROVE  Inv7'
  <2>1. /\ UNCHANGED <<status, context, claimedBy, log>>
        /\ call[p].pc = "snapshot" /\ call'[p].pc = "sweep" /\ call'[p].context = context
        /\ \A q \in Proc \ {p} : call'[q] = call[q]
    BY <1>11, CallLocals DEF Snapshot, table, Moved
  <2>2. Covers(call'[p].context) /\ OwnerCounts(p)'
    BY <2>1 DEF Inv7, OwnerCounts
  <2> QED
    BY <2>1, <2>2, StillCounted DEF Inv7, Afterwards
<1>12. ASSUME NEW p \in Proc, Sweep(p)
       PROVE  Inv7'
  <2>1. /\ UNCHANGED <<status, context, claimedBy, log>>
        /\ call[p].pc = "sweep" /\ call'[p].pc \in {"seize", "tally"}
        /\ call'[p].context = call[p].context
        /\ \A q \in Proc \ {p} : call'[q] = call[q]
    BY <1>12, ShortLocals DEF Sweep, table, Stays, Moved, Keeps
  <2>2. Covers(call'[p].context) /\ OwnerCounts(p)'
    BY <2>1 DEF Inv7, OwnerCounts
  <2> QED
    BY <2>1, <2>2, StillCounted DEF Inv7, Afterwards
<1>13. ASSUME NEW p \in Proc, Seize(p)
       PROVE  Inv7'
  <2>1. /\ UNCHANGED <<status, context, log>> /\ claimedBy' = p
        /\ call[p].pc = "seize" /\ call'[p].pc = "tally"
        /\ call'[p].context = call[p].context
        /\ \A q \in Proc \ {p} : call'[q] = call[q]
    BY <1>13, ShortLocals DEF Seize, Stays, Moved, Keeps
  <2>2. OwnerCounts(p)'
    BY <2>1 DEF OwnerCounts
  <2>3. \A q \in Proc : call'[q].pc \in {"sweep", "seize", "tally"} => Covers(call[q].context)'
    BY <2>1 DEF Inv7, Covers, Entries
  <2> QED
    BY <2>1, <2>2, <2>3 DEF Inv7, Afterwards, Covers, Entries
<1>14. ASSUME NEW p \in Proc, Tally(p)
       PROVE  Inv7'
  <2>1. /\ UNCHANGED <<status, context, claimedBy, log>>
        /\ call[p].pc = "tally" /\ call'[p].pc = "record"
        /\ call'[p].write.actor = "cancel" /\ call'[p].write.context = call[p].context
        /\ \A q \in Proc \ {p} : call'[q] = call[q]
    BY <1>14, WhatIsOwed DEF Tally, table, Moved, Owes
  <2>2. OwnerCounts(p)'
    BY <2>1 DEF Inv7, OwnerCounts, Covers, Entries
  <2> QED
    BY <2>1, <2>2, StillCounted DEF Afterwards
<1>15. ASSUME NEW p \in Proc, ClaimAndResume(p)
       PROVE  Inv7'
  <2>1. /\ UNCHANGED <<status, context, log>> /\ claimedBy' = p /\ call'[p].pc = "resume"
        /\ \A q \in Proc \ {p} : call'[q] = call[q]
    BY <1>15 DEF ClaimAndResume, Moved
  <2>2. OwnerCounts(p)'
    BY <2>1 DEF OwnerCounts
  <2>3. \A q \in Proc : call'[q].pc \in {"sweep", "seize", "tally"} => Covers(call[q].context)'
    BY <2>1 DEF Inv7, Covers, Entries
  <2> QED
    BY <2>1, <2>2, <2>3 DEF Inv7, Afterwards, Covers, Entries
<1>16. ASSUME NEW p \in Proc, Resume(p)
       PROVE  Inv7'
  <2>1. /\ UNCHANGED <<status, context, claimedBy, log>>
        /\ \/ call'[p].pc = "idle"
           \/ call'[p].pc = "count" /\ call'[p].context = context
        /\ \A q \in Proc \ {p} : call'[q] = call[q]
    BY <1>16, CallLocals DEF Resume, table, Stopped, Moved
  <2>2. OwnerCounts(p)'
    BY <2>1 DEF Inv7, OwnerCounts, Covers, Entries
  <2> QED
    BY <2>1, <2>2, StillCounted DEF Afterwards
<1>17. CASE GoStale \/ UNCHANGED vars
  BY <1>17 DEF GoStale, vars, table, Inv7, OwnerCounts, Covers, CoversOne, Entries
<1>18. CASE ClaimAndSkip
  BY <1>18, NoProcAssumption DEF ClaimAndSkip, Inv7, Covers, Entries
<1>19. \A p \in Proc : ~Respond(p) /\ ~Expire(p)
  BY DEF Respond, Expire
<1>20. \A p \in Proc :
         ~CloseResolved(p) /\ ~LoadExpired(p) /\ ~Take(p) /\ ~SettleResponse(p) /\ ~SettleExpiry(p)
  BY DEF Inv7, CloseResolved, LoadExpired, Take, SettleResponse, SettleExpiry
<1> QED
  BY <1>1, <1>2, <1>3, <1>4, <1>5, <1>6, <1>7, <1>8, <1>9, <1>10, <1>11, <1>12, <1>13,
     <1>14, <1>15, <1>16, <1>17, <1>18, <1>19, <1>20
     DEF Next, Continue, Drive, Wake, FinalizeCancel

\* ctx.stepAttempts misses no entry of a step, as long as no await is answered:
\* whatever cancels, crashes, stalls and resumes do, a guard on the counter
\* bounds the loop it guards.
THEOREM NoAttemptIsLost ==
    ASSUME "respond" \notin Events, "deadline" \notin Events
    PROVE  Spec => []AttemptsCounted
<1>1. Init => Inv1 /\ Inv2 /\ Inv3 /\ Inv5 /\ Inv7
  <2> SUFFICES ASSUME Init PROVE Inv7
    BY TypesAtFirst, NumberingAtFirst, WritesAtFirst, NoProcAssumption DEF Init, Inv3
  <2>1. log = {} /\ context = EmptyContext /\ claimedBy = NoProc
        /\ \A p \in Proc : call[p].pc = "idle"
    BY DEF Init, Idle
  <2>2. \A s : Entries(s) = 0
    BY <2>1, FS_EmptySet DEF Entries
  <2>3. Covers(context)
    BY <2>1, <2>2 DEF Covers, EmptyContext
  <2> QED
    BY <2>1, <2>3, NoProcAssumption DEF Inv7, Afterwards
<1>2. Inv1 /\ [Next]_vars => Inv1'
  BY TypesAreKept
<1>3. Inv1 /\ Inv2 /\ [Next]_vars => Inv2'
  BY NumberingIsKept
<1>4. Inv1 /\ Inv2 /\ Inv3 /\ [Next]_vars => Inv3'
  BY TheFrontierIsKept
<1>5. Inv1 /\ Inv5 /\ [Next]_vars => Inv5'
  BY WritesStayLegal
<1>6. Inv1 /\ Inv3 /\ Inv5 /\ Inv7 /\ [Next]_vars => Inv7'
  BY AttemptsAreKept
<1>7. Inv7 => AttemptsCounted
  BY DEF Inv7, AttemptsCounted, Covers, Entries
<1> QED
  BY <1>1, <1>2, <1>3, <1>4, <1>5, <1>6, <1>7, PTL DEF Spec

-----------------------------------------------------------------------------
(* Inv8: one call at a time                                                *)

\* The call runs the steps of the run, one after the other.
Drives(c) ==
    \/ c.pc \in {"resume", "count", "head", "effect", "open"}
    \/ c.pc = "record" /\ c.write.await = 0

\* The call has closed an await and applies it to the run.
Applies(c) ==
    \/ c.pc \in {"load", "take", "settle"}
    \/ c.pc = "record" /\ c.write.await # 0

Applied == \E q \in Proc : Applies(call[q])

\* The write of the step the run is at, which keeps the results there are and
\* has the one it records.
Fits(w) ==
    /\ w.step = current
    /\ context.results \subseteq w.context.results
    /\ w.actor \in {"drive", "human"} /\ w.status \in {"running", "completed"} =>
          w.step \in w.context.results

Driver(p) ==
    /\ claimedBy = p /\ status = "running" /\ Waiting = {} /\ ~Applied
    /\ call[p].pc \in {"count", "head", "effect", "open"} =>
          call[p].step = current /\ call[p].context.results = context.results
    /\ call[p].pc = "record" => Fits(call[p].write)

Applier(p) ==
    /\ status \in {"running", "waiting"} /\ Waiting = {}
    /\ \A q \in Proc : Applies(call[q]) => q = p
    /\ call[p].step = current
    /\ call[p].pc \in {"settle", "record"} => claimedBy = p
    /\ call[p].pc \in {"take", "settle"} => call[p].context.results = context.results
    /\ call[p].pc = "record" => Fits(call[p].write)

\* The await that is open is the only one, and of the step the run is at.
OneAwait ==
    /\ \A a \in Waiting : status \in {"running", "waiting"} /\ current = awaits[a].step
    /\ \A a, b \in Waiting : a = b

\* The owner is at its await: it has opened it and will park.
Parking(p) == claimedBy = p /\ call[p].pc = "park"

\* While the resume worker polls, the lease of a running run goes stale only
\* when nobody is left to go on with it.
Guarded ==
    "resume" \in Events /\ status = "running" =>
        /\ Waiting # {} => \E p \in Proc : Parking(p)
        /\ Applied => \E p \in Proc : Parking(p) \/ (claimedBy = p /\ Applies(call[p]))
        /\ stale => Waiting = {} /\ ~Applied /\ \A p \in Proc : ~Drives(call[p])

Unborn ==
    /\ ~stale /\ Waiting = {} /\ context.results = {}
    /\ \A p \in Proc : call[p].pc = "idle"

Cancelling == {"snapshot", "sweep", "seize", "tally"}

Serial ==
    /\ \A p \in Proc : call[p].pc \notin Cancelling
    /\ \A p \in Proc : Drives(call[p]) => Driver(p)
    /\ \A p \in Proc : Applies(call[p]) => Applier(p)
    /\ OneAwait
    /\ \A p \in Proc : Parking(p) => call[p].context.results = context.results
    /\ \A p \in Proc : call[p].pc = "close" /\ call[p].await \in Waiting =>
          call[p].context.results = context.results
    /\ told # {} => Ended /\ told = {status}
    /\ status = "none" => Unborn
    /\ Guarded
    /\ ResultsKept

\* A call that acts on an await is about the step of the await.
AboutTheAwait ==
    \A p \in Proc : call[p].pc \in {"close", "load", "take", "settle"} =>
        /\ call[p].await \in DOMAIN awaits
        /\ call[p].step = awaits[call[p].await].step

Inv8 ==
    /\ AboutTheAwait
    /\ ~cancelled => Serial
    /\ NeverDoubleDriven

\* Every await keeps its step.
LEMMA AwaitsKeepTheirStep ==
    ASSUME Inv1, [Next]_vars
    PROVE  \A a \in DOMAIN awaits : a \in DOMAIN awaits' /\ awaits'[a].step = awaits[a].step
<1>0. awaits \in Seq(AwaitRows)
  BY DEF Inv1, TypeOK, AwaitRows
<1>1. ASSUME NEW as, NEW outcome, awaits' = CloseAwaits(as, outcome)
      PROVE  \A a \in DOMAIN awaits : a \in DOMAIN awaits' /\ awaits'[a].step = awaits[a].step
  <2>1. \A a \in DOMAIN awaits : awaits[a] \in AwaitRows
    BY <1>0, ElementOfSeq, LenProperties
  <2>2. DOMAIN awaits' = DOMAIN awaits
    BY <1>1 DEF CloseAwaits
  <2>3. \A a \in DOMAIN awaits : awaits'[a].step = awaits[a].step
    BY <1>1, <2>1 DEF CloseAwaits, AwaitRows
  <2> QED
    BY <2>2, <2>3
<1>2. ASSUME NEW p \in Proc, Open(p)
      PROVE  \A a \in DOMAIN awaits : a \in DOMAIN awaits' /\ awaits'[a].step = awaits[a].step
  <2> DEFINE row == [step |-> call[p].step, status |-> "waiting"]
             n == Len(awaits)
  <2>1. call[p].step \in Steps
    BY <1>2, CallsAreGood DEF GoodCalls, Open, At
  <2>2. row \in AwaitRows
    BY <2>1 DEF AwaitRows
  <2>3. CASE UNCHANGED awaits
    BY <2>3
  <2>4. CASE awaits' = Append(awaits, row)
    <3> HIDE DEF row
    <3>1. /\ awaits' \in Seq(AwaitRows) /\ Len(awaits') = n + 1
          /\ \A a \in 1..n : awaits'[a] = awaits[a]
      BY <1>0, <2>2, <2>4, AppendProperties
    <3>2. DOMAIN awaits = 1..n /\ DOMAIN awaits' = 1..(n + 1) /\ n \in Nat
      BY <1>0, <3>1, LenProperties
    <3> QED
      BY <3>1, <3>2
  <2> QED
    BY <1>2, <2>3, <2>4 DEF Open
<1>3. ASSUME NEW p \in Proc, CloseResolved(p) \/ Expire(p) \/ Sweep(p)
      PROVE  awaits' = awaits \/ \E as, outcome : awaits' = CloseAwaits(as, outcome)
  BY <1>3 DEF CloseResolved, Expire, Sweep
<1>4. ASSUME NEW p \in Proc,
             \/ StartRun(p) \/ Count(p) \/ HonourCancel(p) \/ Enter(p)
             \/ EffectSettles(p) \/ EffectThrows(p) \/ NoHolder(p) \/ Park(p) \/ Recheck(p)
             \/ Record(p) \/ RecordRefused(p) \/ Finalize(p) \/ Respond(p) \/ LoadExpired(p)
             \/ Take(p) \/ SettleResponse(p) \/ SettleExpiry(p) \/ Cancel(p) \/ Snapshot(p)
             \/ Seize(p) \/ Tally(p) \/ ClaimAndResume(p) \/ Resume(p) \/ Die(p)
      PROVE  awaits' = awaits
  BY <1>4 DEF StartRun, Count, HonourCancel, Enter, EffectSettles, EffectThrows, NoHolder,
     Park, Recheck, Record, RecordRefused, Finalize, Respond, LoadExpired, Take,
     SettleResponse, SettleExpiry, Cancel, Snapshot, Seize, Tally, ClaimAndResume, Resume, Die
<1>5. CASE GoStale \/ ClaimAndSkip \/ UNCHANGED vars
  BY <1>5 DEF GoStale, ClaimAndSkip, vars
<1> QED
  BY <1>1, <1>2, <1>3, <1>4, <1>5 DEF Next, Continue, Drive, Wake, FinalizeCancel

Answering == {"close", "load", "take", "settle"}

\* A call that acts on an await keeps to it.
LEMMA CallsKeepToTheirAwait ==
    ASSUME Inv1, AboutTheAwait, [Next]_vars
    PROVE  AboutTheAwait'
<1> USE CallMoves, ShortMoves DEF At, Answering
<1>0. \A a \in DOMAIN awaits : a \in DOMAIN awaits' /\ awaits'[a].step = awaits[a].step
  BY AwaitsKeepTheirStep
<1>1. ASSUME NEW p \in Proc, \A q \in Proc \ {p} : call'[q] = call[q],
             call'[p].pc \in Answering =>
                \/ /\ call[p].pc \in Answering
                   /\ call'[p].await = call[p].await /\ call'[p].step = call[p].step
                \/ \E a \in Waiting : call'[p].await = a /\ call'[p].step = awaits[a].step
      PROVE  AboutTheAwait'
  BY <1>0, <1>1 DEF AboutTheAwait, Waiting
<1>2. CASE GoStale \/ ClaimAndSkip \/ UNCHANGED vars
  BY <1>0, <1>2 DEF GoStale, ClaimAndSkip, vars, AboutTheAwait
<1>3. ASSUME NEW p \in Proc, StartRun(p)
      PROVE  AboutTheAwait'
  BY <1>1, <1>3 DEF Moved
<1>4. ASSUME NEW p \in Proc, Count(p) \/ Enter(p)
      PROVE  AboutTheAwait'
  BY <1>1, <1>4 DEF Moved, Stays, HeadOrExit
<1>5. ASSUME NEW p \in Proc,
             \/ HonourCancel(p) \/ EffectSettles(p) \/ EffectThrows(p) \/ NoHolder(p)
             \/ SettleResponse(p) \/ SettleExpiry(p) \/ Tally(p)
      PROVE  AboutTheAwait'
  BY <1>1, <1>5 DEF Moved, Stays
<1>6. ASSUME NEW p \in Proc, Open(p) \/ Park(p) \/ Recheck(p)
      PROVE  AboutTheAwait'
  <2>1. Stays(p, "park") \/ Stays(p, "recheck") \/ Stays(p, "snapshot") \/ Stopped(p)
    BY <1>6 DEF Open, Park, Recheck
  <2> QED
    BY <1>1, <2>1 DEF Moved, Stays, Stopped
<1>7. ASSUME NEW p \in Proc, RecordRefused(p) \/ Finalize(p) \/ Die(p)
      PROVE  AboutTheAwait'
  <2>1. Stopped(p)
    BY <1>7 DEF RecordRefused, Finalize, Die
  <2> QED
    BY <1>1, <2>1 DEF Moved, Stopped
<1>8. ASSUME NEW p \in Proc, Record(p)
      PROVE  AboutTheAwait'
  BY <1>1, <1>8, RecordMoves DEF Moved
<1>9. ASSUME NEW p \in Proc, Respond(p) \/ Expire(p)
      PROVE  AboutTheAwait'
  BY <1>1, <1>9 DEF Moved
<1>10. ASSUME NEW p \in Proc, CloseResolved(p) \/ LoadExpired(p) \/ Take(p)
       PROVE  AboutTheAwait'
  <2>1. /\ call[p].pc \in Answering
        /\ Stays(p, "take") \/ Stays(p, "settle") \/ Stopped(p)
    BY <1>10 DEF CloseResolved, LoadExpired, Take
  <2> QED
    BY <1>1, <2>1 DEF Moved, Stays, Stopped
<1>11. ASSUME NEW p \in Proc, Cancel(p)
       PROVE  AboutTheAwait'
  <2>1. CASE UNCHANGED call
    BY <1>0, <2>1 DEF AboutTheAwait
  <2>2. CASE Moved(p, "snapshot", NoStep, 0, 0)
    BY <1>1, <2>2 DEF Moved
  <2> QED
    BY <1>11, <2>1, <2>2
<1>12. ASSUME NEW p \in Proc, Snapshot(p) \/ Sweep(p) \/ Seize(p)
       PROVE  AboutTheAwait'
  <2>1. \/ Moved(p, "sweep", current, call[p].seq, call[p].await)
        \/ Stays(p, "seize") \/ Stays(p, "tally")
    BY <1>12 DEF Sweep, Seize
  <2> QED
    BY <1>1, <2>1 DEF Moved, Stays
<1>13. ASSUME NEW p \in Proc, ClaimAndResume(p) \/ Resume(p)
       PROVE  AboutTheAwait'
  BY <1>1, <1>13 DEF Moved, Stopped
<1> QED
  BY <1>2, <1>3, <1>4, <1>5, <1>6, <1>7, <1>8, <1>9, <1>10, <1>11, <1>12, <1>13
     DEF Next, Continue, Drive, Wake, FinalizeCancel

\* A call starts an effect only from the head of the loop, and only while no
\* cancel is requested; the driver that may do so is the owner.
LEMMA EffectsStaySingle ==
    ASSUME Inv1, Inv8, [Next]_vars
    PROVE  NeverDoubleDriven'
<1> USE CallMoves, ShortMoves DEF At
<1>1. ASSUME NEW p \in Proc, \A q \in Proc \ {p} : call'[q] = call[q],
             call'[p].pc = "effect" => call[p].pc = "effect"
      PROVE  NeverDoubleDriven'
  BY <1>1 DEF Inv8, NeverDoubleDriven
<1>2. CASE GoStale \/ ClaimAndSkip \/ UNCHANGED vars
  BY <1>2 DEF GoStale, ClaimAndSkip, vars, Inv8, NeverDoubleDriven
<1>3. ASSUME NEW p \in Proc, Unowing(p), ~Enter(p)
      PROVE  NeverDoubleDriven'
  <2>1. CASE UNCHANGED call
    BY <2>1 DEF Inv8, NeverDoubleDriven
  <2>2. CASE (\A q \in Proc \ {p} : call'[q] = call[q]) /\ call'[p].pc # "effect"
    BY <1>1, <2>2
  <2>3. CASE StartRun(p) \/ Count(p) \/ Respond(p) \/ Expire(p) \/ LoadExpired(p)
    BY <2>2, <2>3 DEF Moved, Stays, HeadOrExit
  <2>4. CASE Cancel(p) \/ Snapshot(p) \/ ClaimAndResume(p) \/ Resume(p)
    BY <2>1, <2>2, <2>4 DEF Moved, Stays, Stopped
  <2>5. CASE Open(p) \/ Park(p) \/ Recheck(p) \/ RecordRefused(p) \/ Finalize(p) \/ Die(p)
    <3>1. Stays(p, "park") \/ Stays(p, "recheck") \/ Stays(p, "snapshot") \/ Stopped(p)
      BY <2>5 DEF Open, Park, Recheck, RecordRefused, Finalize, Die
    <3> QED
      BY <2>2, <3>1 DEF Moved, Stays, Stopped
  <2>6. CASE CloseResolved(p) \/ Take(p) \/ Sweep(p) \/ Seize(p)
    <3>1. \/ Stays(p, "take") \/ Stays(p, "settle") \/ Stopped(p)
          \/ Stays(p, "seize") \/ Stays(p, "tally")
      BY <2>6 DEF CloseResolved, Take, Sweep, Seize
    <3> QED
      BY <2>2, <3>1 DEF Moved, Stays, Stopped
  <2> QED
    BY <1>3, <2>3, <2>4, <2>5, <2>6 DEF Unowing
<1>4. ASSUME NEW p \in Proc,
             \/ HonourCancel(p) \/ EffectSettles(p) \/ EffectThrows(p) \/ NoHolder(p)
             \/ SettleResponse(p) \/ SettleExpiry(p) \/ Tally(p)
      PROVE  NeverDoubleDriven'
  BY <1>1, <1>4 DEF Moved, Stays
<1>5. ASSUME NEW p \in Proc, Record(p)
      PROVE  NeverDoubleDriven'
  BY <1>1, <1>5, RecordMoves DEF Moved
<1>6. ASSUME NEW p \in Proc, Enter(p)
      PROVE  NeverDoubleDriven'
  <2>1. ~cancelled /\ call[p].pc = "head" /\ \A q \in Proc \ {p} : call'[q] = call[q]
    BY <1>6 DEF Enter, Stays, Moved
  <2>2. \A q \in Proc : call[q].pc \in {"head", "effect"} => claimedBy = q
    BY <2>1 DEF Inv8, Serial, Drives, Driver
  <2> QED
    BY <2>1, <2>2 DEF NeverDoubleDriven
<1> QED
  BY <1>2, <1>3, <1>4, <1>5, <1>6
     DEF Next, Continue, Drive, Wake, FinalizeCancel, Unowing

\* A call goes on with what it was at, or gives it up, and touches nothing of
\* the run.
LEMMA GoingOn ==
    ASSUME Serial, NEW p \in Proc, \A q \in Proc \ {p} : call'[q] = call[q],
           UNCHANGED <<status, current, context, claimedBy, stale, log, awaits>>,
           told' = told \/ (Ended /\ told' = {status}),
           call'[p].pc \notin Cancelling \cup {"park"},
           Drives(call'[p]) =>
              /\ Drives(call[p])
              /\ call'[p].pc \in {"count", "head", "effect", "open"} =>
                    call'[p].step = current /\ call'[p].context.results = context.results
              /\ call'[p].pc = "record" => Fits(call'[p].write),
           Applies(call'[p]) =>
              /\ Applies(call[p]) /\ call'[p].step = call[p].step
              /\ call'[p].pc \in {"settle", "record"} => claimedBy = p
              /\ call'[p].pc \in {"take", "settle"} =>
                    call'[p].context.results = context.results
              /\ call'[p].pc = "record" => Fits(call'[p].write),
           call'[p].pc = "close" /\ call'[p].await \in Waiting =>
              call'[p].context.results = context.results,
           status = "none" => call'[p].pc = "idle",
           "resume" \in Events => ~Parking(p)
    PROVE  Serial'
<1>1. Waiting' = Waiting /\ Ended' = Ended
  BY DEF Waiting, Ended
<1>2. \A q \in Proc : Applies(call'[q]) => Applies(call[q])
  OBVIOUS
<1>3. Applied' => Applied
  BY <1>2 DEF Applied
<1>5. ASSUME NEW q \in Proc, Drives(call'[q])
      PROVE  Driver(q)'
  <2>1. Driver(q)
    BY <1>5 DEF Serial
  <2>2. CASE q = p
    <3>1. call'[p].pc = "record" => Fits(call[p].write)'
      BY <1>5, <2>2 DEF Fits
    <3> QED
      BY <1>1, <1>3, <1>5, <2>1, <2>2, <3>1 DEF Driver
  <2>3. CASE q # p
    <3>1. call'[q].pc = "record" => Fits(call[q].write)'
      BY <2>1, <2>3 DEF Fits, Driver
    <3> QED
      BY <1>1, <1>3, <2>1, <2>3, <3>1 DEF Driver
  <2> QED
    BY <2>2, <2>3
<1>6. ASSUME NEW q \in Proc, Applies(call'[q])
      PROVE  Applier(q)'
  <2>1. Applier(q)
    BY <1>2, <1>6 DEF Serial
  <2>2. CASE q = p
    <3>1. call'[p].pc = "record" => Fits(call[p].write)'
      BY <1>6, <2>2 DEF Fits
    <3> QED
      BY <1>1, <1>2, <1>6, <2>1, <2>2, <3>1 DEF Applier
  <2>3. CASE q # p
    <3>1. call'[q].pc = "record" => Fits(call[q].write)'
      BY <2>1, <2>3 DEF Fits, Applier
    <3> QED
      BY <1>1, <1>2, <2>1, <2>3, <3>1 DEF Applier
  <2> QED
    BY <2>2, <2>3
<1>7. OneAwait'
  BY <1>1 DEF Serial, OneAwait
<1>8. \A q \in Proc : Parking(q)' => Parking(q) /\ q # p
  BY DEF Parking
<1>9. Guarded'
  <2> SUFFICES ASSUME "resume" \in Events, status = "running"
               PROVE  /\ Waiting # {} => \E q \in Proc : Parking(q)'
                      /\ Applied' => \E q \in Proc :
                            Parking(q)' \/ (claimedBy = q /\ Applies(call'[q]))
                      /\ stale => Waiting = {} /\ ~Applied' /\ \A q \in Proc : ~Drives(call'[q])
    BY <1>1 DEF Guarded
  <2>1. \A q \in Proc : Parking(q) => Parking(q)'
    BY DEF Parking
  <2>2. Guarded
    BY DEF Serial
  <2>3. ASSUME Applied'
        PROVE  \E q \in Proc : Parking(q)' \/ (claimedBy = q /\ Applies(call'[q]))
    <3>1. PICK r \in Proc : Applies(call'[r])
      BY <2>3 DEF Applied
    <3>2. \A q \in Proc : Applies(call[q]) => q = r
      BY <1>2, <3>1 DEF Serial, Applier
    <3>3. Applied
      BY <1>3, <2>3
    <3>4. \E q \in Proc : Parking(q) \/ (claimedBy = q /\ Applies(call[q]))
      BY <2>2, <3>3 DEF Guarded
    <3> QED
      BY <2>1, <3>1, <3>2, <3>4
  <2>4. stale => \A q \in Proc : ~Drives(call'[q])
    BY <2>2 DEF Guarded
  <2> QED
    BY <1>3, <2>1, <2>2, <2>3, <2>4 DEF Guarded
<1>10. status = "none" => Unborn'
  BY <1>1 DEF Serial, Unborn
<1>11. \A q \in Proc : Parking(q)' => call'[q].context.results = context.results
  BY <1>8 DEF Serial
<1>12. \A q \in Proc : call'[q].pc = "close" /\ call'[q].await \in Waiting =>
          call'[q].context.results = context.results
  BY DEF Serial
<1>13. ResultsKept'
  BY DEF Serial, ResultsKept
<1>14. told' # {} => Ended' /\ told' = {status'}
  BY <1>1 DEF Serial
<1>15. \A q \in Proc : call'[q].pc \notin Cancelling
  BY DEF Serial
<1> QED
  BY <1>1, <1>5, <1>6, <1>7, <1>9, <1>10, <1>11, <1>12, <1>13, <1>14, <1>15 DEF Serial

\* What is not so for the driver of a run: nobody else drives it, and nobody
\* applies an await to it.
LEMMA DriverIsAlone ==
    ASSUME Serial, NEW p \in Proc, Drives(call[p])
    PROVE  /\ Driver(p)
           /\ \A q \in Proc : Drives(call[q]) => q = p
           /\ \A q \in Proc : ~Applies(call[q])
           /\ \A q \in Proc : ~Parking(q)
           /\ "resume" \in Events => ~stale
<1>1. Driver(p) /\ \A q \in Proc : Drives(call[q]) => q = p
  BY DEF Serial, Driver
<1>2. \A q \in Proc : ~Applies(call[q])
  BY <1>1 DEF Driver, Applied
<1>3. \A q \in Proc : ~Parking(q)
  BY <1>1 DEF Driver, Parking, Drives
<1>4. "resume" \in Events => ~stale
  BY <1>1 DEF Serial, Guarded, Driver
<1> QED
  BY <1>1, <1>2, <1>3, <1>4

\* And for the call that applies an await.
LEMMA ApplierIsAlone ==
    ASSUME Serial, NEW p \in Proc, Applies(call[p])
    PROVE  /\ Applier(p)
           /\ \A q \in Proc : ~Drives(call[q])
           /\ \A q \in Proc : Applies(call[q]) => q = p
<1>1. Applier(p) /\ Applied
  BY DEF Serial, Applied
<1>2. \A q \in Proc : ~Drives(call[q])
  BY <1>1 DEF Serial, Driver
<1> QED
  BY <1>1, <1>2 DEF Applier

\* The run row is created, and its first drive begins.
LEMMA Starting ==
    ASSUME Inv1, Serial, NEW p \in Proc, StartRun(p)
    PROVE  Serial'
<1>1. /\ call'[p].pc = "count" /\ call'[p].step = Graph.entry /\ call'[p].context = EmptyContext
      /\ \A q \in Proc \ {p} : call'[q] = call[q]
  BY CallMoves, CallLocals DEF Moved
<1>2. /\ status = "none" /\ status' = "running" /\ current' = Graph.entry /\ claimedBy' = p
      /\ UNCHANGED <<context, stale, cancelled, log, awaits, told>>
  BY DEF StartRun
<1>3. Unborn /\ told = {} /\ ResultsKept
  BY <1>2 DEF Serial, Ended, Terminal
<1>4. \A q \in Proc : ~Applies(call'[q]) /\ call'[q].pc \in {"idle", "count"}
  BY <1>1, <1>3 DEF Unborn, Applies
<1>5. Waiting' = {} /\ ~Applied'
  BY <1>2, <1>3, <1>4 DEF Unborn, Waiting, Applied
<1>6. \A q \in Proc : Drives(call'[q]) => q = p
  BY <1>1, <1>3 DEF Unborn, Drives
<1>7. Driver(p)'
  BY <1>1, <1>2, <1>3, <1>5 DEF Driver, Unborn, EmptyContext
<1>8. Guarded'
  BY <1>2, <1>3, <1>5 DEF Guarded, Unborn
<1> QED
  BY <1>2, <1>3, <1>4, <1>5, <1>6, <1>7, <1>8
     DEF Serial, OneAwait, Parking, Cancelling, ResultsKept

\* The driver opens the await of its step, the only one then.
LEMMA Opening ==
    ASSUME Inv1, Inv4, Serial, NEW p \in Proc, Open(p)
    PROVE  Serial'
<1>1. /\ call[p].pc = "open" /\ Stays(p, "park") /\ Keeps(p)
      /\ UNCHANGED <<status, current, context, claimedBy, stale, log, told>>
  BY ShortMoves, ShortLocals DEF Open, At, table
<1>2. \A q \in Proc \ {p} : call'[q] = call[q]
  BY <1>1 DEF Stays, Moved
<1>3. Drives(call[p])
  BY <1>1 DEF Drives
<1>4. /\ claimedBy = p /\ status = "running" /\ Waiting = {}
      /\ call[p].step = current /\ call[p].context.results = context.results
      /\ \A q \in Proc : Drives(call[q]) => q = p
      /\ \A q \in Proc : ~Applies(call[q])
      /\ "resume" \in Events => ~stale
  BY <1>1, <1>3, DriverIsAlone DEF Driver
<1> DEFINE n == Len(awaits)
           row == [step |-> call[p].step, status |-> "waiting"]
<1>5. awaits' = Append(awaits, row)
  BY <1>4 DEF Open
<1>6. call[p].step \in Steps /\ awaits \in Seq(AwaitRows)
  BY <1>1, CallsAreGood DEF GoodCalls, Inv1, TypeOK, AwaitRows
<1>7. row \in AwaitRows /\ row.step = current
  BY <1>4, <1>6 DEF AwaitRows
<1> HIDE DEF row
<1>8. /\ awaits' \in Seq(AwaitRows) /\ Len(awaits') = n + 1
      /\ (\A a \in 1..n : awaits'[a] = awaits[a]) /\ awaits'[n + 1] = row
  BY <1>5, <1>6, <1>7, AppendProperties
<1>9. DOMAIN awaits = 1..n /\ DOMAIN awaits' = 1..(n + 1) /\ n \in Nat
  BY <1>6, <1>8, LenProperties
<1>10. \A a \in Waiting' : a = n + 1
  BY <1>4, <1>8, <1>9 DEF Waiting
<1>11. OneAwait'
  BY <1>1, <1>4, <1>7, <1>8, <1>10 DEF OneAwait
<1>12. \A q \in Proc : ~Drives(call'[q]) /\ ~Applies(call'[q])
  BY <1>1, <1>2, <1>4 DEF Drives, Applies, Stays, Moved
<1>13. ~Applied' /\ Parking(p)'
  BY <1>1, <1>4, <1>12 DEF Applied, Parking, Stays, Moved
<1>14. Guarded'
  BY <1>1, <1>4, <1>13 DEF Guarded
<1>15. \A q \in Proc : call'[q].await \notin Waiting'
  <2>1. \A q \in Proc : call'[q].await = call[q].await /\ call[q].await \in Nat
    BY <1>1, <1>2, CallsAreGood, MaxAwaitsAssumption DEF Stays, Moved, Calls
  <2>2. \A q \in Proc : call'[q].await # n + 1
    BY <1>9, <2>1 DEF Inv4
  <2> QED
    BY <1>10, <2>2
<1>16. \A q \in Proc : Parking(q)' => call'[q].context.results = context.results
  BY <1>1, <1>4 DEF Parking, Keeps
<1>17. \A q \in Proc : call'[q].pc \notin Cancelling
  BY <1>1, <1>2 DEF Serial, Stays, Moved, Cancelling
<1>18. told' = {} \/ (Ended' /\ told' = {status'})
  BY <1>1 DEF Serial, Ended
<1> QED
  BY <1>1, <1>4, <1>11, <1>12, <1>14, <1>15, <1>16, <1>17, <1>18 DEF Serial, ResultsKept

\* The owner parks the run at the step of its await, or a superseded drive
\* yields.
LEMMA ParkingTheRun ==
    ASSUME Inv1, Inv3, Serial, NEW p \in Proc, Park(p)
    PROVE  Serial'
<1>1. call[p].pc = "park" /\ UNCHANGED <<claimedBy, stale, cancelled, log, awaits, told>>
  BY DEF Park, At
<1>2. CASE claimedBy = p
  <2>1. /\ status' = "waiting" /\ current' = call[p].step /\ context' = call[p].context
        /\ call'[p].pc = "recheck" /\ \A q \in Proc \ {p} : call'[q] = call[q]
    BY <1>2, ShortMoves DEF Park, Stays, Moved
  <2>2. status = "running" /\ call[p].step = current /\ context'.results = context.results
    BY <1>1, <1>2, <2>1 DEF Inv3, Frontier, Driving, Serial, Parking
  <2>3. \A q \in Proc : ~Drives(call[q])
    BY <1>1, <1>2, DriverIsAlone DEF Parking
  <2>4. \A q \in Proc : ~Drives(call'[q]) /\ (Applies(call'[q]) => q # p /\ Applies(call[q]))
    BY <2>1, <2>3 DEF Drives, Applies
  <2>5. Waiting' = Waiting
    BY <1>1 DEF Waiting
  <2>6. ASSUME NEW q \in Proc, Applies(call'[q])
        PROVE  Applier(q)'
    <3>1. Applier(q) /\ q # p /\ call'[q] = call[q]
      BY <2>1, <2>4, <2>6, ApplierIsAlone
    <3>2. call[q].pc \notin {"settle", "record"}
      BY <1>2, <3>1 DEF Applier
    <3> QED
      BY <2>1, <2>2, <2>4, <2>5, <3>1, <3>2 DEF Applier
  <2>7. OneAwait'
    BY <1>1, <2>1, <2>2, <2>5 DEF Serial, OneAwait
  <2>8. Guarded' /\ ~(status' = "none")
    BY <2>1 DEF Guarded
  <2>9. \A q \in Proc : ~Parking(q)'
    BY <1>1, <1>2, <2>1 DEF Parking
  <2>10. \A q \in Proc : call'[q].pc \notin Cancelling
    BY <2>1 DEF Serial, Cancelling
  <2>11. told' = {}
    BY <1>1, <2>2 DEF Serial, Ended, Terminal
  <2>12. \A q \in Proc : call'[q].pc = "close" /\ call'[q].await \in Waiting' =>
            call'[q].context.results = context'.results
    BY <2>1, <2>2, <2>5 DEF Serial
  <2>13. ResultsKept'
    BY <1>1, <2>2 DEF Serial, ResultsKept
  <2> QED
    BY <2>4, <2>6, <2>7, <2>8, <2>9, <2>10, <2>11, <2>12, <2>13 DEF Serial
<1>3. CASE claimedBy # p
  <2>1. /\ Stopped(p)
        /\ UNCHANGED <<status, current, context, claimedBy, stale, log, awaits, told>>
    BY <1>1, <1>3, ShortMoves DEF Park
  <2>2. call'[p].pc = "idle" /\ \A q \in Proc \ {p} : call'[q] = call[q]
    BY <2>1 DEF Stopped, Moved
  <2> QED
    BY <1>3, <2>1, <2>2, GoingOn DEF Drives, Applies, Parking, Cancelling
<1> QED
  BY <1>2, <1>3

\* What the owner records ends its turn, or makes it the driver of the next.
LEMMA Recording ==
    ASSUME Inv1, Serial, NEW p \in Proc, Record(p)
    PROVE  Serial'
<1> DEFINE w == call[p].write
<1>1. /\ call[p].pc = "record" /\ claimedBy = p /\ claimedBy' = p
      /\ status' = w.status /\ current' = w.next /\ context' = w.context
      /\ stale' = (stale /\ w.status # "running")
      /\ log' = log \cup {RowOf(p)} /\ UNCHANGED <<awaits, told>>
  BY DEF Record, Refused, At
<1>2. /\ call'[p].pc \in {"ended", "count", "head"}
      /\ call'[p].pc # "ended" => w.status = "running"
      /\ call'[p].step = w.next /\ call'[p].context = w.context
      /\ \A q \in Proc \ {p} : call'[q] = call[q]
  BY RecordMoves, CallLocals DEF Moved
<1>3. Drives(call[p]) \/ Applies(call[p])
  BY <1>1 DEF Drives, Applies
<1>4. /\ status \in {"running", "waiting"} /\ Waiting = {} /\ Fits(w)
      /\ \A q \in Proc : q # p => ~Applies(call[q]) /\ ~Drives(call[q])
  <2>1. CASE Drives(call[p])
    BY <1>1, <2>1, DriverIsAlone DEF Driver
  <2>2. CASE Applies(call[p])
    BY <1>1, <2>2, ApplierIsAlone DEF Applier
  <2> QED
    BY <1>3, <2>1, <2>2
<1>5. w.status \in Statuses
  BY CallsAreGood DEF Calls, Writes
<1>6. RowOf(p).step = w.step /\ RowOf(p).actor = w.actor /\ RowOf(p).status = w.status
  BY DEF RowOf
<1> HIDE DEF w
<1>7. Waiting' = {} /\ \A q \in Proc : ~Applies(call'[q])
  BY <1>1, <1>2, <1>4 DEF Waiting, Applies
<1>8. ~Applied'
  BY <1>7 DEF Applied
<1>9. \A q \in Proc : Drives(call'[q]) => q = p /\ w.status = "running"
  BY <1>2, <1>4 DEF Drives
<1>10. Drives(call'[p]) => Driver(p)'
  BY <1>1, <1>2, <1>7, <1>8, <1>9 DEF Driver
<1>11. ResultsKept'
  <2> SUFFICES ASSUME NEW r \in log', r.actor \in {"drive", "human"},
                      r.status \in {"running", "completed"}
               PROVE  r.step \in w.context.results
    BY <1>1 DEF ResultsKept
  <2>1. CASE r \in log
    BY <1>4, <2>1 DEF Serial, ResultsKept, Fits
  <2>2. CASE r = RowOf(p)
    BY <1>4, <1>6, <2>2 DEF Fits
  <2> QED
    BY <1>1, <2>1, <2>2
<1>12. Guarded'
  BY <1>1, <1>7, <1>8 DEF Guarded
<1>13. \A q \in Proc : call'[q].pc \notin Cancelling /\ ~Parking(q)'
  BY <1>1, <1>2 DEF Serial, Cancelling, Parking
<1>14. told' = {}
  BY <1>1, <1>4 DEF Serial, Ended, Terminal
<1> QED
  BY <1>1, <1>5, <1>7, <1>9, <1>10, <1>11, <1>12, <1>13, <1>14
     DEF Serial, OneAwait, Statuses

\* Closing the one open await makes its closer the one that applies it.
LEMMA Closing ==
    ASSUME Inv1, Serial, NEW p \in Proc, NEW a \in Waiting,
           NEW outcome \in {"resolved", "timed_out"},
           awaits' = CloseAwaits({a}, outcome),
           UNCHANGED <<status, current, context, claimedBy, stale, log, told>>,
           call[p].pc \in {"idle", "close"}, call'[p].pc \in {"load", "take"},
           call'[p].step = awaits[a].step,
           call'[p].pc = "take" => call'[p].context.results = context.results,
           \A q \in Proc \ {p} : call'[q] = call[q]
    PROVE  Serial'
<1>1. Waiting' = {}
  <2>1. \A b \in Waiting : b = a
    BY DEF Serial, OneAwait
  <2>2. AwaitsOnlyClose /\ awaits'[a].status # "waiting"
    BY ClosingOnlyCloses DEF Waiting
  <2> QED
    BY <2>1, <2>2 DEF Waiting, AwaitsOnlyClose
<1>2. status \in {"running", "waiting"} /\ current = awaits[a].step
  BY DEF Serial, OneAwait
<1>3. \A q \in Proc : ~Applies(call[q]) /\ ~Drives(call[q])
  BY DriverIsAlone, ApplierIsAlone DEF Driver, Applier
<1>4. \A q \in Proc : ~Drives(call'[q]) /\ (Applies(call'[q]) => q = p)
  BY <1>3 DEF Drives, Applies
<1>5. Applier(p)'
  BY <1>1, <1>2, <1>4 DEF Applier
<1>6. \A q \in Proc : Parking(q)' <=> Parking(q)
  BY DEF Parking
<1>7. Guarded'
  <2>1. "resume" \in Events /\ status = "running" => (\E q \in Proc : Parking(q)) /\ ~stale
    BY DEF Serial, Guarded
  <2> QED
    BY <1>1, <1>6, <2>1 DEF Guarded
<1>8. \A q \in Proc : Parking(q)' => call'[q].context.results = context.results
  BY <1>6 DEF Serial, Parking
<1>9. \A q \in Proc : call'[q].pc \notin Cancelling
  BY DEF Serial, Cancelling
<1>10. told' = {}
  BY <1>2 DEF Serial, Ended, Terminal
<1>11. ResultsKept'
  BY DEF Serial, ResultsKept
<1> QED
  BY <1>1, <1>2, <1>4, <1>5, <1>7, <1>8, <1>9, <1>10, <1>11 DEF Serial, OneAwait

\* The applier takes the lease.
LEMMA Taking ==
    ASSUME Inv1, Serial, NEW p \in Proc, Take(p)
    PROVE  Serial'
<1>1. /\ call[p].pc = "take" /\ claimedBy' = p /\ stale' = FALSE
      /\ call'[p].pc = "settle" /\ call'[p].step = call[p].step
      /\ call'[p].context = call[p].context
      /\ \A q \in Proc \ {p} : call'[q] = call[q]
      /\ UNCHANGED <<status, current, context, log, awaits, told>>
  BY ShortMoves, ShortLocals DEF Take, At, Stays, Moved, Keeps
<1>2. /\ Applier(p) /\ \A q \in Proc : ~Drives(call[q])
      /\ \A q \in Proc : Applies(call[q]) => q = p
  BY <1>1, ApplierIsAlone DEF Applies
<1>3. \A q \in Proc : ~Drives(call'[q]) /\ (Applies(call'[q]) => q = p)
  BY <1>1, <1>2 DEF Drives, Applies
<1>4. Waiting' = Waiting
  BY <1>1 DEF Waiting
<1>5. Applier(p)'
  BY <1>1, <1>2, <1>3, <1>4 DEF Applier
<1>6. Waiting = {} /\ status # "none"
  BY <1>2 DEF Applier
<1>7. Guarded'
  BY <1>1, <1>3, <1>4, <1>6 DEF Guarded, Applies
<1>8. \A q \in Proc : ~Parking(q)'
  BY <1>1 DEF Parking
<1>9. \A q \in Proc : call'[q].pc \notin Cancelling
  BY <1>1 DEF Serial, Cancelling
<1>10. told' # {} => Ended' /\ told' = {status'}
  BY <1>1 DEF Serial, Ended
<1>11. ResultsKept'
  BY <1>1 DEF Serial, ResultsKept
<1> QED
  BY <1>1, <1>3, <1>4, <1>5, <1>6, <1>7, <1>8, <1>9, <1>10, <1>11 DEF Serial, OneAwait

\* The resume worker takes a run that nobody is left to go on with.
LEMMA Claiming ==
    ASSUME Serial, \/ \E p \in Proc : ClaimAndResume(p)
                   \/ ClaimAndSkip,
           Inv1
    PROVE  Serial'
<1>1. /\ "resume" \in Events /\ status = "running" /\ stale /\ stale' = FALSE
      /\ UNCHANGED <<status, current, context, log, awaits, told>>
  BY DEF ClaimAndResume, ClaimAndSkip
<1>2. Waiting = {} /\ ~Applied /\ \A q \in Proc : ~Drives(call[q]) /\ ~Applies(call[q])
  BY <1>1 DEF Serial, Guarded, Applied
<1>3. Waiting' = {}
  BY <1>1, <1>2 DEF Waiting
<1>4. told' = {} /\ ResultsKept' /\ OneAwait'
  BY <1>1, <1>3 DEF Serial, Ended, Terminal, ResultsKept, OneAwait
<1>5. ASSUME NEW p \in Proc, ClaimAndResume(p)
      PROVE  Serial'
  <2>1. /\ claimedBy' = p /\ call'[p].pc = "resume"
        /\ \A q \in Proc \ {p} : call'[q] = call[q]
    BY <1>5, CallMoves DEF ClaimAndResume, Moved
  <2>2. \A q \in Proc : ~Applies(call'[q]) /\ (Drives(call'[q]) => q = p)
    BY <1>2, <2>1 DEF Applies, Drives
  <2>3. ~Applied'
    BY <2>2 DEF Applied
  <2>4. Driver(p)'
    BY <1>1, <1>3, <2>1, <2>3 DEF Driver
  <2>5. Guarded'
    BY <1>1, <1>3, <2>3 DEF Guarded
  <2>6. \A q \in Proc : ~Parking(q)' /\ call'[q].pc \notin Cancelling
    BY <2>1 DEF Serial, Parking, Cancelling
  <2> QED
    BY <1>1, <1>3, <1>4, <2>2, <2>4, <2>5, <2>6 DEF Serial
<1>6. CASE ClaimAndSkip
  <2>1. claimedBy' = NoProc /\ call' = call
    BY <1>6 DEF ClaimAndSkip
  <2>2. \A q \in Proc : ~Applies(call'[q]) /\ ~Drives(call'[q]) /\ ~Parking(q)'
    BY <1>2, <2>1, NoProcAssumption DEF Parking
  <2>3. ~Applied'
    BY <2>2 DEF Applied
  <2>4. Guarded'
    BY <1>1, <1>3, <2>3 DEF Guarded
  <2> QED
    BY <1>1, <1>3, <1>4, <2>1, <2>2, <2>4 DEF Serial
<1> QED
  BY <1>5, <1>6

\* Calls that die or stall are not resumed.
Quiet == "resume" \notin Events \/ ("die" \notin Events /\ "stall" \notin Events)

\* The lease goes stale; if the resume worker polls, nobody is left to go on.
LEMMA GoingStale ==
    ASSUME Serial, Quiet, GoStale
    PROVE  Serial'
<1>1. /\ status = "running" /\ stale' = TRUE
      /\ ~(claimedBy \in Proc /\ Alive(claimedBy)) \/ "stall" \in Events
      /\ UNCHANGED <<status, current, context, claimedBy, cancelled, log, awaits, told, call>>
  BY DEF GoStale
<1>2. Waiting' = Waiting /\ Applied' = Applied /\ Ended' = Ended
  BY <1>1 DEF Waiting, Applied, Ended
<1>3. \A q \in Proc : Driver(q) => Driver(q)'
  BY <1>1, <1>2 DEF Driver, Fits
<1>4. \A q \in Proc : Applier(q) => Applier(q)'
  BY <1>1, <1>2 DEF Applier, Fits
<1>5. Guarded'
  <2> SUFFICES ASSUME "resume" \in Events
               PROVE  Waiting = {} /\ ~Applied /\ \A q \in Proc : ~Drives(call[q])
    BY <1>1, <1>2 DEF Guarded
  <2>1. ~(claimedBy \in Proc /\ Alive(claimedBy))
    BY <1>1 DEF Quiet
  <2>2. \A q \in Proc : ~Parking(q) /\ ~(claimedBy = q /\ Applies(call[q]))
    BY <2>1 DEF Parking, Alive, Applies
  <2>3. Waiting = {} /\ ~Applied
    BY <1>1, <2>2 DEF Serial, Guarded
  <2>4. \A q \in Proc : ~Drives(call[q])
    BY <2>1 DEF Serial, Driver, Alive, Drives
  <2> QED
    BY <2>3, <2>4
<1>6. OneAwait' /\ ResultsKept'
  BY <1>1, <1>2 DEF Serial, OneAwait, ResultsKept
<1>7. \A q \in Proc : Parking(q)' => Parking(q)
  BY <1>1 DEF Parking
<1> QED
  BY <1>1, <1>2, <1>3, <1>4, <1>5, <1>6, <1>7 DEF Serial

\* Every step that leaves the run uncancelled keeps its calls in turn.
LEMMA SerialIsKept ==
    ASSUME Inv1, Inv3, Inv4, AboutTheAwait, Serial, ~cancelled, Quiet, [Next]_vars, ~cancelled'
    PROVE  Serial'
<1> USE CallMoves, ShortMoves DEF At
<1>1. ASSUME NEW p \in Proc, Count(p)
      PROVE  Serial'
  <2>1. /\ call[p].pc = "count" /\ call'[p].pc \in {"head", "ended"}
        /\ call'[p].step = call[p].step /\ call'[p].context = call[p].context
        /\ \A q \in Proc \ {p} : call'[q] = call[q]
        /\ UNCHANGED <<status, current, context, claimedBy, stale, log, awaits, told>>
    BY <1>1, CallLocals DEF Count, table, HeadOrExit, Moved, Keeps
  <2>2. Driver(p)
    BY <2>1, DriverIsAlone DEF Drives
  <2> QED
    BY <2>1, <2>2, GoingOn DEF Driver, Drives, Applies, Parking, Cancelling
<1>2. ASSUME NEW p \in Proc, Enter(p)
      PROVE  Serial'
  <2>1. /\ call[p].pc = "head" /\ call'[p].pc \in {"effect", "open"}
        /\ call'[p].step = call[p].step
        /\ call'[p].context = Bump(call[p].context, call[p].step)
        /\ \A q \in Proc \ {p} : call'[q] = call[q]
        /\ UNCHANGED <<status, current, context, claimedBy, stale, log, awaits, told>>
    BY <1>2, CallLocals DEF Enter, table, Stays, Moved
  <2>2. Bump(call[p].context, call[p].step).results = call[p].context.results
    BY ContextsAreTyped DEF Bump, Contexts
  <2>3. Driver(p)
    BY <2>1, DriverIsAlone DEF Drives
  <2> QED
    BY <2>1, <2>2, <2>3, GoingOn DEF Driver, Drives, Applies, Parking, Cancelling
<1>3. ASSUME NEW p \in Proc, EffectSettles(p) \/ EffectThrows(p) \/ NoHolder(p)
      PROVE  Serial'
  <2> DEFINE w == call'[p].write
             c == call[p].context
             s == call[p].step
  <2>1. /\ call[p].pc \in {"effect", "open"} /\ call'[p].pc = "record"
        /\ \A q \in Proc \ {p} : call'[q] = call[q]
        /\ UNCHANGED <<status, current, context, claimedBy, stale, log, awaits, told>>
        /\ w.await = 0
    BY <1>3 DEF EffectSettles, EffectThrows, NoHolder, table, Stays, Moved
  <2>2. Driver(p) /\ s = current /\ c.results = context.results
    BY <2>1, DriverIsAlone DEF Drives, Driver
  <2>3. /\ w.step = s
        /\ \/ w.context = Accumulate(c, s)
           \/ w.context = c /\ w.actor = "drive" /\ w.status = "failed"
           \/ w.context = c /\ w.actor = "noHolder"
    BY <1>3, WhatIsOwed DEF Owes
  <2>4. Accumulate(c, s).results = c.results \cup {s}
    BY ContextsAreTyped DEF Accumulate, Contexts
  <2> HIDE DEF c, s
  <2>5. Fits(w)
    BY <2>2, <2>3, <2>4 DEF Fits
  <2> QED
    BY <2>1, <2>2, <2>5, GoingOn DEF Driver, Drives, Applies, Parking, Cancelling
<1>4. ASSUME NEW p \in Proc, Recheck(p) \/ RecordRefused(p) \/ Finalize(p)
      PROVE  Serial'
  <2>1. /\ Stopped(p) /\ call[p].pc \in {"recheck", "record", "ended"}
        /\ UNCHANGED <<status, current, context, claimedBy, stale, log, awaits>>
        /\ told' = told \/ (Ended /\ told' = told \cup {status})
    BY <1>4 DEF Recheck, RecordRefused, Finalize, table
  <2>2. told' = told \/ (Ended /\ told' = {status})
    BY <2>1 DEF Serial
  <2>3. call'[p].pc = "idle" /\ \A q \in Proc \ {p} : call'[q] = call[q]
    BY <2>1 DEF Stopped, Moved
  <2> QED
    BY <2>1, <2>2, <2>3, GoingOn DEF Drives, Applies, Parking, Cancelling
<1>5. ASSUME NEW p \in Proc, Die(p)
      PROVE  Serial'
  <2>1. /\ Stopped(p) /\ "resume" \notin Events
        /\ UNCHANGED <<status, current, context, claimedBy, stale, log, awaits, told>>
    BY <1>5 DEF Die, Quiet, table
  <2>2. call'[p].pc = "idle" /\ \A q \in Proc \ {p} : call'[q] = call[q]
    BY <2>1 DEF Stopped, Moved
  <2> QED
    BY <2>1, <2>2, GoingOn DEF Drives, Applies, Cancelling
<1>6. ASSUME NEW p \in Proc, Respond(p)
      PROVE  Serial'
  <2>1. /\ call[p].pc = "idle" /\ call'[p].pc = "close" /\ call'[p].context = context
        /\ \A q \in Proc \ {p} : call'[q] = call[q]
        /\ UNCHANGED <<status, current, context, claimedBy, stale, log, awaits, told>>
    BY <1>6, CallLocals DEF Respond, table, Moved
  <2>2. status # "none"
    BY <1>6 DEF Respond, Serial, Unborn
  <2> QED
    BY <2>1, <2>2, GoingOn DEF Drives, Applies, Parking, Cancelling
<1>7. ASSUME NEW p \in Proc, CloseResolved(p)
      PROVE  Serial'
  <2>1. /\ call[p].pc = "close"
        /\ UNCHANGED <<status, current, context, claimedBy, stale, log, told>>
    BY <1>7 DEF CloseResolved, table
  <2>2. CASE call[p].await \in Waiting
    <3>1. /\ awaits' = CloseAwaits({call[p].await}, "resolved")
          /\ call'[p].pc = "take" /\ call'[p].step = call[p].step
          /\ call'[p].context = call[p].context
          /\ \A q \in Proc \ {p} : call'[q] = call[q]
      BY <1>7, <2>2, ShortLocals DEF CloseResolved, Stays, Moved, Keeps
    <3>2. /\ call[p].step = awaits[call[p].await].step
          /\ call[p].context.results = context.results
      BY <2>1, <2>2 DEF AboutTheAwait, Serial
    <3> QED
      BY <2>1, <2>2, <3>1, <3>2, Closing
  <2>3. CASE call[p].await \notin Waiting
    <3>1. UNCHANGED awaits /\ Stopped(p)
      BY <1>7, <2>3 DEF CloseResolved
    <3>2. call'[p].pc = "idle" /\ \A q \in Proc \ {p} : call'[q] = call[q]
      BY <3>1 DEF Stopped, Moved
    <3> QED
      BY <2>1, <3>1, <3>2, GoingOn DEF Drives, Applies, Parking, Cancelling
  <2> QED
    BY <2>2, <2>3
<1>8. ASSUME NEW p \in Proc, Expire(p)
      PROVE  Serial'
  <2>1. PICK a \in Waiting :
          /\ awaits' = CloseAwaits({a}, "timed_out")
          /\ Moved(p, "load", awaits[a].step, 0, a)
    BY <1>8
  <2>2. call[p].pc = "idle" /\ UNCHANGED <<status, current, context, claimedBy, stale, log, told>>
    BY <1>8 DEF Expire, table
  <2>3. /\ call'[p].pc = "load" /\ call'[p].step = awaits[a].step
        /\ \A q \in Proc \ {p} : call'[q] = call[q]
    BY <2>1 DEF Moved
  <2> QED
    BY <2>1, <2>2, <2>3, Closing
<1>9. ASSUME NEW p \in Proc, LoadExpired(p)
      PROVE  Serial'
  <2>1. /\ call[p].pc = "load" /\ call'[p].pc = "take" /\ call'[p].step = call[p].step
        /\ call'[p].context = context
        /\ \A q \in Proc \ {p} : call'[q] = call[q]
        /\ UNCHANGED <<status, current, context, claimedBy, stale, log, awaits, told>>
    BY <1>9, CallLocals DEF LoadExpired, table, Stays, Moved
  <2>2. status # "none"
    BY <2>1, ApplierIsAlone DEF Applies, Applier
  <2> QED
    BY <2>1, <2>2, GoingOn DEF Drives, Applies, Parking, Cancelling
<1>10. ASSUME NEW p \in Proc, SettleResponse(p) \/ SettleExpiry(p)
       PROVE  Serial'
  <2> DEFINE w == call'[p].write
             c == call[p].context
             s == call[p].step
  <2>1. /\ call[p].pc = "settle" /\ call'[p].pc = "record" /\ call'[p].step = s
        /\ \A q \in Proc \ {p} : call'[q] = call[q]
        /\ UNCHANGED <<status, current, context, claimedBy, stale, log, awaits, told>>
        /\ w.await = call[p].await
    BY <1>10 DEF SettleResponse, SettleExpiry, table, Moved
  <2>2. Applier(p) /\ claimedBy = p /\ s = current /\ c.results = context.results
    BY <2>1, ApplierIsAlone DEF Applies, Applier
  <2>3. w.await # 0
    BY <2>1, AwaitsAreRows DEF AboutTheAwait
  <2>4. /\ w.step = s
        /\ \/ w.context = Accumulate(c, s)
           \/ w.context = c /\ w.actor = "timeout"
    BY <1>10, WhatIsOwed DEF Owes
  <2>5. Accumulate(c, s).results = c.results \cup {s}
    BY ContextsAreTyped DEF Accumulate, Contexts
  <2>6. status # "none"
    BY <2>2 DEF Applier
  <2> HIDE DEF c
  <2>7. Fits(w)
    BY <2>2, <2>4, <2>5 DEF Fits
  <2> QED
    BY <2>1, <2>2, <2>3, <2>6, <2>7, GoingOn DEF Drives, Applies, Parking, Cancelling
<1>11. ASSUME NEW p \in Proc, Resume(p)
       PROVE  Serial'
  <2>1. /\ call[p].pc = "resume"
        /\ \/ call'[p].pc = "idle"
           \/ call'[p].pc = "count" /\ call'[p].step = current /\ call'[p].context = context
        /\ \A q \in Proc \ {p} : call'[q] = call[q]
        /\ UNCHANGED <<status, current, context, claimedBy, stale, log, awaits, told>>
    BY <1>11, CallLocals DEF Resume, table, Stopped, Moved
  <2>2. Driver(p)
    BY <2>1, DriverIsAlone DEF Drives
  <2> QED
    BY <2>1, <2>2, GoingOn DEF Driver, Drives, Applies, Parking, Cancelling
<1>12. \A p \in Proc : ~Cancel(p) /\ ~HonourCancel(p)
  BY DEF Cancel, HonourCancel
<1>13. \A p \in Proc : ~Snapshot(p) /\ ~Sweep(p) /\ ~Seize(p) /\ ~Tally(p)
  BY DEF Serial, Cancelling, Snapshot, Sweep, Seize, Tally
<1>14. CASE UNCHANGED vars
  <2>1. Waiting' = Waiting /\ Applied' = Applied /\ Ended' = Ended
    BY <1>14 DEF vars, table, Waiting, Applied, Ended
  <2>2. \A q \in Proc : (Driver(q) => Driver(q)') /\ (Applier(q) => Applier(q)')
    BY <1>14, <2>1 DEF vars, table, Driver, Applier, Fits
  <2>3. OneAwait' /\ ResultsKept' /\ Guarded' /\ (\A q \in Proc : Parking(q)' => Parking(q))
    BY <1>14, <2>1 DEF vars, table, Serial, OneAwait, ResultsKept, Guarded, Parking
  <2> QED
    BY <1>14, <2>1, <2>2, <2>3 DEF vars, table, Serial, Unborn
<1> QED
  BY <1>1, <1>2, <1>3, <1>4, <1>5, <1>6, <1>7, <1>8, <1>9, <1>10, <1>11, <1>12, <1>13,
     <1>14, Starting, Opening, ParkingTheRun, Recording, Taking, Claiming, GoingStale
     DEF Next, Continue, Drive, Wake, FinalizeCancel

-----------------------------------------------------------------------------
(* Once a cancel is requested: the last await                              *)

\* No await is open, and no call is about to open one.
NothingOpens == Waiting = {} /\ \A p \in Proc : call[p].pc # "open"

\* The call cannot move the run to another step: it is not about to record
\* anything, or has lost the lease that it would need.
Harmless(p) ==
    \/ call[p].pc \in {"idle", "close", "open", "park", "recheck", "snapshot", "sweep", "ended"}
    \/ call[p].pc \in {"tally", "record"} /\ claimedBy # p

\* The run was cancelled at an open await, or just before opening one.  It is
\* the last: it stays with the step of the run until it is closed.
LastAwait ==
    /\ status \in {"running", "waiting"} /\ OneAwait
    /\ \A p \in Proc : Harmless(p)
    /\ \A p \in Proc : call[p].pc = "open" =>
          /\ claimedBy = p /\ status = "running" /\ Waiting = {}
          /\ \A q \in Proc : call[q].kind # "cancel"
    /\ "resume" \in Events /\ status = "running" =>
          ~stale /\ \E p \in Proc : claimedBy = p /\ call[p].pc \in {"open", "park"}

\* What is so of the awaits once a cancel is requested; before that, no call
\* finalizes one.
AfterCancels ==
    /\ cancelled => NothingOpens \/ LastAwait
    /\ ~cancelled => \A p \in Proc : call[p].kind # "cancel"

\* A call keeps the kind it began with until it stops, and only the operator's
\* cancel begins as one of kind "cancel".
LEMMA KindsAreKept ==
    ASSUME Inv1, NEW p \in Proc
    PROVE  /\ Continue(p) \/ Die(p) =>
                 call'[p].kind = call[p].kind \/ call'[p].kind = "none"
           /\ StartRun(p) => call'[p].kind = "drive"
           /\ Respond(p) => call'[p].kind = "respond"
           /\ Expire(p) => call'[p].kind = "expire"
           /\ ClaimAndResume(p) => call'[p].kind = "resume"
<1>1. call[p] \in Calls
  BY CallsAreGood
<1>2. StartRun(p) => call'[p].kind = "drive"
  <2>1. StartRun(p) =>
          call'[p] = [Idle EXCEPT !.pc = "count", !.kind = "drive", !.step = Graph.entry]
    BY BecomeIs DEF StartRun
  <2> QED
    BY <2>1 DEF Idle
<1>3. ClaimAndResume(p) => call'[p].kind = "resume"
  <2>1. ClaimAndResume(p) => call'[p] = [Idle EXCEPT !.pc = "resume", !.kind = "resume"]
    BY BecomeIs DEF ClaimAndResume
  <2> QED
    BY <2>1 DEF Idle
<1>4. Respond(p) => call'[p].kind = "respond"
  <2>1. ASSUME NEW a,
               Become(p, [Idle EXCEPT !.pc = "close", !.kind = "respond",
                                      !.step = awaits[a].step, !.await = a, !.context = context])
        PROVE  call'[p].kind = "respond"
    <3>1. call'[p] = [Idle EXCEPT !.pc = "close", !.kind = "respond",
                                  !.step = awaits[a].step, !.await = a, !.context = context]
      BY <2>1, BecomeIs
    <3> QED
      BY <3>1 DEF Idle
  <2> QED
    BY <2>1 DEF Respond
<1>5. Expire(p) => call'[p].kind = "expire"
  <2>1. ASSUME NEW a,
               Become(p, [Idle EXCEPT !.pc = "load", !.kind = "expire",
                                      !.step = awaits[a].step, !.await = a])
        PROVE  call'[p].kind = "expire"
    <3>1. call'[p] = [Idle EXCEPT !.pc = "load", !.kind = "expire",
                                  !.step = awaits[a].step, !.await = a]
      BY <2>1, BecomeIs
    <3> QED
      BY <3>1 DEF Idle
  <2> QED
    BY <2>1 DEF Expire
<1>6. Stop(p) => call'[p].kind = "none"
  BY ShortLocals DEF Idle
<1>7. /\ \A pc : Goto(p, pc) => call'[p].kind = call[p].kind
      /\ \A n, w : Owe(p, n, w) => call'[p].kind = call[p].kind
  BY ShortLocals DEF Keeps
<1>8. Enter(p) => call'[p].kind = call[p].kind
  <2> DEFINE to == IF Graph.kind[call[p].step] \in {"agent", "action"} THEN "effect" ELSE "open"
             local == [call[p] EXCEPT !.pc = to, !.context = Bump(@, call[p].step)]
  <2>1. Enter(p) => call'[p] = local
    BY BecomeIs DEF Enter
  <2>2. local.kind = call[p].kind
    BY <1>1 DEF Calls
  <2> QED
    BY <2>1, <2>2
<1>9. Record(p) => call'[p].kind = call[p].kind
  <2> DEFINE w == call[p].write
             to == IF w.status # "running" THEN "ended"
                   ELSE IF w.then = "count" THEN "count"
                   ELSE HeadOrExit(call[p].seq + 1)
             local == [call[p] EXCEPT !.pc = to, !.step = w.next, !.seq = @ + 1,
                                      !.context = w.context, !.write = NoWrite]
  <2>1. Record(p) => call'[p] = local
    BY BecomeIs DEF Record
  <2>2. local.kind = call[p].kind
    BY <1>1 DEF Calls
  <2> HIDE DEF local
  <2> QED
    BY <2>1, <2>2
<1>10. LoadExpired(p) => call'[p].kind = call[p].kind
  <2>1. LoadExpired(p) => call'[p] = [call[p] EXCEPT !.pc = "take", !.context = context]
    BY BecomeIs DEF LoadExpired
  <2> QED
    BY <1>1, <2>1 DEF Calls
<1>11. Resume(p) => Stop(p) \/ call'[p].kind = call[p].kind
  <2>1. Resume(p) => \/ Stop(p)
                     \/ call'[p] = [call[p] EXCEPT !.pc = "count", !.step = current,
                                                   !.context = context]
    BY BecomeIs DEF Resume
  <2> QED
    BY <1>1, <2>1 DEF Calls
<1>12. Count(p) \/ Snapshot(p) => call'[p].kind = call[p].kind
  BY CallLocals DEF Keeps
<1>13. HonourCancel(p) \/ EffectSettles(p) \/ EffectThrows(p) \/ NoHolder(p)
       \/ SettleResponse(p) \/ SettleExpiry(p) \/ Tally(p) => call'[p].kind = call[p].kind
  BY <1>7 DEF HonourCancel, EffectSettles, EffectThrows, NoHolder, SettleResponse,
     SettleExpiry, Tally
<1>14. Open(p) \/ Take(p) \/ Sweep(p) \/ Seize(p) => call'[p].kind = call[p].kind
  BY <1>7 DEF Open, Take, Sweep, Seize
<1>15. Park(p) \/ Recheck(p) \/ CloseResolved(p) => Stop(p) \/ call'[p].kind = call[p].kind
  BY <1>7 DEF Park, Recheck, CloseResolved
<1>16. RecordRefused(p) \/ Finalize(p) \/ Die(p) => Stop(p)
  BY DEF RecordRefused, Finalize, Die
<1> QED
  BY <1>2, <1>3, <1>4, <1>5, <1>6, <1>8, <1>9, <1>10, <1>11, <1>12, <1>13, <1>14, <1>15, <1>16
     DEF Continue, Drive, Wake, FinalizeCancel

\* Once a cancel is requested, what does not open stays shut: drives enter no
\* step any more.
LEMMA NothingOpensAgain ==
    ASSUME Inv1, cancelled, NothingOpens, [Next]_vars
    PROVE  NothingOpens'
<1> USE CallMoves, ShortMoves DEF At
<1>1. ASSUME NEW p \in Proc,
             \/ StartRun(p) \/ Count(p) \/ HonourCancel(p) \/ EffectSettles(p)
             \/ EffectThrows(p) \/ Recheck(p) \/ Record(p) \/ RecordRefused(p)
             \/ Finalize(p) \/ Park(p) \/ Take(p) \/ SettleResponse(p) \/ SettleExpiry(p)
             \/ Cancel(p) \/ Snapshot(p) \/ Seize(p) \/ Tally(p) \/ LoadExpired(p)
             \/ ClaimAndResume(p) \/ Resume(p) \/ Die(p) \/ CloseResolved(p) \/ Sweep(p)
      PROVE  call'[p].pc # "open" /\ \A q \in Proc \ {p} : call'[q] = call[q]
  <2>1. CASE StartRun(p) \/ Count(p) \/ HonourCancel(p) \/ EffectSettles(p) \/ EffectThrows(p)
    BY <2>1 DEF Moved, Stays, HeadOrExit
  <2>2. CASE Recheck(p) \/ RecordRefused(p) \/ Finalize(p) \/ Park(p) \/ Take(p) \/ Die(p)
    <3>1. Stop(p) \/ \E pc \in {"snapshot", "recheck", "settle"} : Goto(p, pc)
      BY <2>2 DEF Recheck, RecordRefused, Finalize, Park, Take, Die
    <3> QED
      BY <3>1 DEF Moved, Stays, Stopped
  <2>3. CASE Record(p)
    BY <2>3, RecordMoves DEF Moved
  <2>4. CASE SettleResponse(p) \/ SettleExpiry(p) \/ Tally(p) \/ LoadExpired(p)
    BY <2>4 DEF Moved, Stays
  <2>5. CASE Cancel(p) \/ Snapshot(p) \/ ClaimAndResume(p) \/ Resume(p)
    BY <2>5 DEF Moved, Stopped, NothingOpens
  <2>6. CASE Seize(p) \/ CloseResolved(p) \/ Sweep(p)
    <3>1. Stop(p) \/ \E pc \in {"take", "seize", "tally"} : Goto(p, pc)
      BY <2>6 DEF Seize, CloseResolved, Sweep
    <3> QED
      BY <3>1 DEF Moved, Stays, Stopped
  <2> QED
    BY <1>1, <2>1, <2>2, <2>3, <2>4, <2>5, <2>6
<1>2. ASSUME NEW p \in Proc,
             \/ StartRun(p) \/ Count(p) \/ HonourCancel(p) \/ EffectSettles(p)
             \/ EffectThrows(p) \/ Recheck(p) \/ Record(p) \/ RecordRefused(p)
             \/ Finalize(p) \/ Park(p) \/ Take(p) \/ SettleResponse(p) \/ SettleExpiry(p)
             \/ Cancel(p) \/ Snapshot(p) \/ Seize(p) \/ Tally(p) \/ LoadExpired(p)
             \/ ClaimAndResume(p) \/ Resume(p) \/ Die(p)
      PROVE  awaits' = awaits
  BY <1>2 DEF StartRun, Count, HonourCancel, EffectSettles, EffectThrows, Recheck, Record,
     RecordRefused, Finalize, Park, Take, SettleResponse, SettleExpiry, Cancel, Snapshot,
     Seize, Tally, LoadExpired, ClaimAndResume, Resume, Die
<1>3. ASSUME NEW p \in Proc, CloseResolved(p) \/ Sweep(p)
      PROVE  Waiting' = {}
  <2>1. \/ awaits' = awaits
        \/ \E as : \E outcome \in {"resolved", "cancelled"} : awaits' = CloseAwaits(as, outcome)
    BY <1>3 DEF CloseResolved, Sweep
  <2> QED
    BY <2>1, ClosingOnlyCloses DEF NothingOpens, Waiting, AwaitsOnlyClose
<1>4. \A p \in Proc : ~Open(p) /\ ~NoHolder(p) /\ ~Enter(p) /\ ~Respond(p) /\ ~Expire(p)
  BY DEF NothingOpens, Open, NoHolder, Enter, Respond, Expire
<1>5. CASE GoStale \/ ClaimAndSkip \/ UNCHANGED vars
  BY <1>5 DEF GoStale, ClaimAndSkip, vars, NothingOpens, Waiting
<1>6. ASSUME NEW p \in Proc, StartRun(p) \/ Continue(p) \/ Cancel(p) \/ ClaimAndResume(p) \/ Die(p)
      PROVE  NothingOpens'
  <2>1. Waiting' = {}
    BY <1>2, <1>3, <1>4, <1>6 DEF Continue, Drive, Wake, FinalizeCancel, NothingOpens, Waiting
  <2>2. call'[p].pc # "open" /\ \A q \in Proc \ {p} : call'[q] = call[q]
    BY <1>1, <1>4, <1>6 DEF Continue, Drive, Wake, FinalizeCancel
  <2> QED
    BY <2>1, <2>2 DEF NothingOpens
<1> QED
  BY <1>4, <1>5, <1>6 DEF Next

\* The first cancel finds at most one await open or about to open, and nobody
\* who could move the run on from it.
LEMMA TheFirstCancel ==
    ASSUME Inv1, Inv3, Serial, \A q \in Proc : call[q].kind # "cancel", NEW p \in Proc, Cancel(p)
    PROVE  NothingOpens' \/ LastAwait'
<1> SUFFICES ASSUME ~NothingOpens'
             PROVE  LastAwait'
  OBVIOUS
<1>1. /\ call[p].pc = "idle" /\ status \in {"running", "waiting"}
      /\ \/ status = "waiting" /\ call'[p].pc = "snapshot"
            /\ \A q \in Proc \ {p} : call'[q] = call[q]
         \/ status = "running" /\ call' = call
      /\ UNCHANGED <<status, current, context, claimedBy, stale, log, awaits, told>>
  <2>1. Cancel(p) => \/ status = "waiting" /\ Moved(p, "snapshot", NoStep, 0, 0)
                     \/ status = "running" /\ call' = call
    <3> DEFINE local == [Idle EXCEPT !.pc = "snapshot", !.kind = "cancel"]
    <3>1. local.pc = "snapshot" /\ local.step = NoStep /\ local.seq = 0 /\ local.await = 0
      BY DEF Idle
    <3>2. Cancel(p) => \/ status = "waiting" /\ Become(p, local)
                       \/ status = "running" /\ call' = call
      BY DEF Cancel
    <3> HIDE DEF local
    <3> QED
      BY <3>1, <3>2, BecomeMoves
  <2> QED
    BY <2>1 DEF Cancel, At, Moved
<1>2. Waiting' = Waiting
  BY <1>1 DEF Waiting
<1>3. Waiting # {} \/ \E q \in Proc : call[q].pc = "open"
  BY <1>1, <1>2 DEF NothingOpens
<1>4. \A q \in Proc : ~Applies(call[q])
  <2>1. CASE Waiting # {}
    BY <2>1 DEF Serial, Applier
  <2>2. CASE \E q \in Proc : call[q].pc = "open"
    BY <2>2, DriverIsAlone DEF Drives
  <2> QED
    BY <1>3, <2>1, <2>2
<1>5. \A q \in Proc : Drives(call[q]) =>
          /\ call[q].pc = "open"
          /\ claimedBy = q /\ status = "running" /\ Waiting = {}
          /\ "resume" \in Events => ~stale
  BY <1>3, DriverIsAlone DEF Driver, Drives
<1>6. \A q \in Proc : call[q].pc \in {"idle", "close", "open", "park", "recheck", "ended"}
  <2> SUFFICES ASSUME NEW q \in Proc
               PROVE  call[q].pc \in {"idle", "close", "open", "park", "recheck", "ended"}
    OBVIOUS
  <2>1. call[q].pc \in Pcs /\ call[q].pc \notin Cancelling
    BY CallsAreGood DEF Calls, Serial
  <2>2. ~Applies(call[q]) /\ (Drives(call[q]) => call[q].pc = "open")
    BY <1>4, <1>5
  <2> QED
    BY <2>1, <2>2 DEF Pcs, Cancelling, Applies, Drives
<1>7. \A q \in Proc : Harmless(q)'
  BY <1>1, <1>6 DEF Harmless
<1>8. ASSUME NEW q \in Proc, call'[q].pc = "open"
      PROVE  /\ claimedBy' = q /\ status' = "running" /\ Waiting' = {}
             /\ \A r \in Proc : call'[r].kind # "cancel"
  <2>1. call[q].pc = "open"
    BY <1>1, <1>8
  <2>2. claimedBy = q /\ status = "running" /\ Waiting = {}
    BY <1>5, <2>1 DEF Drives
  <2> QED
    BY <1>1, <1>2, <2>2
<1>9. "resume" \in Events /\ status = "running" =>
        ~stale /\ \E q \in Proc : claimedBy = q /\ call[q].pc \in {"open", "park"}
  BY <1>3, <1>5 DEF Serial, Guarded, Parking, Drives
<1>10. OneAwait' /\ status' \in {"running", "waiting"}
  BY <1>1, <1>2 DEF Serial, OneAwait
<1> QED
  BY <1>1, <1>7, <1>8, <1>9, <1>10 DEF LastAwait

\* A call goes on without moving the run, its lease or its awaits, and does
\* not come to open one.
LEMMA TheLastStays ==
    ASSUME LastAwait, NEW p \in Proc, \A q \in Proc \ {p} : call'[q] = call[q],
           UNCHANGED <<status, current, claimedBy, stale, awaits>>,
           Harmless(p)', call'[p].pc # "open",
           call'[p].kind = "cancel" => call[p].kind = "cancel" \/ status = "waiting",
           "resume" \in Events /\ status = "running" =>
              call[p].pc \notin {"open", "park"} \/ call'[p].pc = "park" \/ claimedBy # p
    PROVE  LastAwait'
<1>1. Waiting' = Waiting
  BY DEF Waiting
<1>2. \A q \in Proc : Harmless(q)'
  BY DEF LastAwait, Harmless
<1>3. ASSUME NEW q \in Proc, call'[q].pc = "open"
      PROVE  /\ claimedBy' = q /\ status' = "running" /\ Waiting' = {}
             /\ \A r \in Proc : call'[r].kind # "cancel"
  <2>1. q # p /\ call[q].pc = "open"
    BY <1>3
  <2>2. claimedBy = q /\ status = "running" /\ Waiting = {} /\ \A r \in Proc : call[r].kind # "cancel"
    BY <2>1 DEF LastAwait
  <2> QED
    BY <1>1, <2>2
<1>4. "resume" \in Events /\ status = "running" =>
        ~stale /\ \E q \in Proc : claimedBy = q /\ call'[q].pc \in {"open", "park"}
  BY DEF LastAwait
<1>5. OneAwait' /\ status' \in {"running", "waiting"}
  BY <1>1 DEF LastAwait, OneAwait
<1> QED
  BY <1>2, <1>3, <1>4, <1>5 DEF LastAwait

\* Once the await that was open is closed, or the one about to be opened is
\* not, nothing opens any more.
LEMMA TheLastCloses ==
    ASSUME Inv1, LastAwait, NEW p \in Proc, call'[p].pc # "open",
           \A q \in Proc \ {p} : call'[q] = call[q],
           \/ /\ call[p].pc = "open" /\ UNCHANGED awaits
           \/ \E as : \E a \in Waiting, outcome \in {"resolved", "timed_out", "cancelled"} :
                 a \in as /\ awaits' = CloseAwaits(as, outcome)
    PROVE  NothingOpens'
<1>1. CASE call[p].pc = "open" /\ UNCHANGED awaits
  <2>1. Waiting' = {} /\ \A q \in Proc : call[q].pc = "open" => q = p
    BY <1>1 DEF LastAwait, Waiting
  <2> QED
    BY <2>1 DEF NothingOpens
<1>2. ASSUME NEW a \in Waiting, NEW as, NEW outcome \in {"resolved", "timed_out", "cancelled"},
             a \in as, awaits' = CloseAwaits(as, outcome)
      PROVE  NothingOpens'
  <2>1. \A b \in Waiting : b = a
    BY DEF LastAwait, OneAwait
  <2>2. AwaitsOnlyClose /\ awaits'[a].status # "waiting"
    BY <1>2, ClosingOnlyCloses DEF Waiting
  <2>3. Waiting' = {}
    BY <2>1, <2>2 DEF Waiting, AwaitsOnlyClose
  <2>4. \A q \in Proc : call[q].pc # "open"
    BY DEF LastAwait
  <2> QED
    BY <2>3, <2>4 DEF NothingOpens
<1> QED
  BY <1>1, <1>2

\* The last await stays with the step of the run until it is closed.
LEMMA TheLastIsKept ==
    ASSUME Inv1, Inv3, cancelled, LastAwait, Quiet, [Next]_vars
    PROVE  NothingOpens' \/ LastAwait'
<1> USE CallMoves, ShortMoves DEF At
<1>1. ASSUME NEW p \in Proc,
             \/ Recheck(p) \/ RecordRefused(p) \/ Finalize(p) \/ Respond(p)
             \/ Cancel(p) \/ Snapshot(p) \/ Tally(p) \/ Die(p)
      PROVE  LastAwait'
  <2>1. UNCHANGED <<status, current, claimedBy, stale, awaits>>
    BY <1>1 DEF Recheck, RecordRefused, Finalize, Respond, Cancel, Snapshot, Tally, Die, table
  <2>2. CASE Recheck(p) \/ RecordRefused(p) \/ Finalize(p)
    <3>1. call[p].pc \notin {"open", "park"} /\ (Stop(p) \/ Goto(p, "snapshot"))
      BY <2>2 DEF Recheck, RecordRefused, Finalize
    <3>2. call'[p].pc \in {"idle", "snapshot"} /\ \A q \in Proc \ {p} : call'[q] = call[q]
      BY <3>1 DEF Moved, Stays, Stopped
    <3>3. call'[p].kind = "cancel" => call[p].kind = "cancel"
      BY <2>2, KindsAreKept DEF Continue, Drive
    <3> QED
      BY <2>1, <3>1, <3>2, <3>3, TheLastStays DEF Harmless
  <2>3. CASE Die(p)
    <3>1. "resume" \notin Events /\ Stop(p)
      BY <2>3 DEF Die, Quiet
    <3>2. call'[p].pc = "idle" /\ \A q \in Proc \ {p} : call'[q] = call[q]
      BY <3>1 DEF Moved, Stopped
    <3>3. call'[p].kind = "cancel" => call[p].kind = "cancel"
      BY <2>3, KindsAreKept
    <3> QED
      BY <2>1, <3>1, <3>2, <3>3, TheLastStays DEF Harmless
  <2>4. CASE Respond(p)
    <3>1. /\ call[p].pc = "idle" /\ call'[p].pc = "close"
          /\ \A q \in Proc \ {p} : call'[q] = call[q]
      BY <2>4 DEF Respond, Moved
    <3>2. call'[p].kind = "respond"
      BY <2>4, KindsAreKept
    <3> QED
      BY <2>1, <3>1, <3>2, TheLastStays DEF Harmless
  <2>5. CASE Cancel(p)
    <3>1. call[p].pc = "idle" /\ (status = "waiting" \/ call' = call)
      BY <2>5 DEF Cancel
    <3>2. call' = call \/ (call'[p].pc = "snapshot" /\ \A q \in Proc \ {p} : call'[q] = call[q])
      BY <2>5 DEF Moved
    <3> QED
      BY <2>1, <3>1, <3>2, TheLastStays DEF Harmless
  <2>6. CASE Snapshot(p)
    <3>1. /\ call[p].pc = "snapshot" /\ call'[p].pc = "sweep"
          /\ \A q \in Proc \ {p} : call'[q] = call[q]
      BY <2>6 DEF Snapshot, Moved
    <3>2. call'[p].kind = "cancel" => call[p].kind = "cancel"
      BY <2>6, KindsAreKept DEF Continue, FinalizeCancel
    <3> QED
      BY <2>1, <3>1, <3>2, TheLastStays DEF Harmless
  <2>7. CASE Tally(p)
    <3>1. /\ call[p].pc = "tally" /\ call'[p].pc = "record"
          /\ \A q \in Proc \ {p} : call'[q] = call[q]
      BY <2>7 DEF Tally, Moved
    <3>2. call'[p].kind = "cancel" => call[p].kind = "cancel"
      BY <2>7, KindsAreKept DEF Continue, FinalizeCancel
    <3>3. claimedBy # p
      BY <3>1 DEF LastAwait, Harmless
    <3> QED
      BY <2>1, <3>1, <3>2, <3>3, TheLastStays DEF Harmless
  <2> QED
    BY <1>1, <2>2, <2>3, <2>4, <2>5, <2>6, <2>7
<1>2. ASSUME NEW p \in Proc, NoHolder(p)
      PROVE  NothingOpens'
  <2>1. call[p].pc = "open" /\ awaits' = awaits
    BY <1>2 DEF NoHolder
  <2>2. call'[p].pc = "record" /\ \A q \in Proc \ {p} : call'[q] = call[q]
    BY <1>2 DEF Stays, Moved
  <2> QED
    BY <2>1, <2>2, TheLastCloses
<1>3. ASSUME NEW p \in Proc, Open(p)
      PROVE  LastAwait'
  <2>1. /\ call[p].pc = "open" /\ call'[p].pc = "park"
        /\ \A q \in Proc \ {p} : call'[q] = call[q]
        /\ UNCHANGED <<status, current, claimedBy, stale>>
    BY <1>3 DEF Open, Stays, Moved, table
  <2>2. /\ claimedBy = p /\ status = "running" /\ Waiting = {}
        /\ \A q \in Proc : call[q].pc = "open" => q = p
        /\ "resume" \in Events => ~stale
    BY <2>1 DEF LastAwait
  <2>3. call[p].step = current /\ call[p].step \in Steps
    BY <2>1, <2>2, CallsAreGood DEF Inv3, Frontier, Driving, GoodCalls
  <2> DEFINE row == [step |-> call[p].step, status |-> "waiting"]
             n == Len(awaits)
  <2>4. awaits' = Append(awaits, row) /\ awaits \in Seq(AwaitRows)
    BY <1>3, <2>2 DEF Open, Inv1, TypeOK, AwaitRows
  <2>5. row \in AwaitRows /\ row.step = current
    BY <2>3 DEF AwaitRows
  <2> HIDE DEF row
  <2>6. /\ awaits' \in Seq(AwaitRows) /\ Len(awaits') = n + 1
        /\ (\A a \in 1..n : awaits'[a] = awaits[a]) /\ awaits'[n + 1] = row
    BY <2>4, <2>5, AppendProperties
  <2>7. DOMAIN awaits = 1..n /\ DOMAIN awaits' = 1..(n + 1) /\ n \in Nat
    BY <2>4, <2>6, LenProperties
  <2>8. \A a \in Waiting' : a = n + 1
    BY <2>2, <2>6, <2>7 DEF Waiting
  <2>9. OneAwait'
    BY <2>1, <2>2, <2>5, <2>6, <2>8 DEF OneAwait
  <2>10. \A q \in Proc : call'[q].pc # "open" /\ Harmless(q)'
    BY <2>1, <2>2 DEF LastAwait, Harmless
  <2> QED
    BY <2>1, <2>2, <2>9, <2>10 DEF LastAwait
<1>4. ASSUME NEW p \in Proc, Park(p)
      PROVE  LastAwait'
  <2>1. call[p].pc = "park" /\ UNCHANGED <<claimedBy, stale, awaits>>
    BY <1>4 DEF Park
  <2>2. CASE claimedBy = p
    <3>1. /\ status' = "waiting" /\ current' = call[p].step
          /\ call'[p].pc = "recheck" /\ \A q \in Proc \ {p} : call'[q] = call[q]
      BY <1>4, <2>2 DEF Park, Stays, Moved
    <3>2. call[p].step = current
      BY <2>1, <2>2 DEF Inv3, Frontier, Driving
    <3>3. Waiting' = Waiting
      BY <2>1 DEF Waiting
    <3>4. OneAwait'
      BY <2>1, <3>1, <3>2, <3>3 DEF LastAwait, OneAwait
    <3>5. \A q \in Proc : call[q].pc # "open"
      BY <2>1, <2>2 DEF LastAwait
    <3>6. \A q \in Proc : call'[q].pc # "open" /\ Harmless(q)'
      BY <2>1, <3>1, <3>5 DEF LastAwait, Harmless
    <3> QED
      BY <3>1, <3>4, <3>6 DEF LastAwait
  <2>3. CASE claimedBy # p
    <3>1. Stop(p) /\ UNCHANGED <<status, current>>
      BY <1>4, <2>3 DEF Park
    <3>2. call'[p].pc = "idle" /\ \A q \in Proc \ {p} : call'[q] = call[q]
      BY <3>1 DEF Moved, Stopped
    <3>3. call'[p].kind = "cancel" => call[p].kind = "cancel"
      BY <1>4, KindsAreKept DEF Continue, Drive
    <3> QED
      BY <2>1, <2>3, <3>1, <3>2, <3>3, TheLastStays DEF Harmless
  <2> QED
    BY <2>2, <2>3
<1>5. ASSUME NEW p \in Proc, CloseResolved(p)
      PROVE  NothingOpens' \/ LastAwait'
  <2>1. CASE call[p].await \in Waiting
    <3>1. awaits' = CloseAwaits({call[p].await}, "resolved") /\ Goto(p, "take")
      BY <1>5, <2>1 DEF CloseResolved
    <3>2. call'[p].pc = "take" /\ \A q \in Proc \ {p} : call'[q] = call[q]
      BY <3>1 DEF Moved, Stays
    <3> QED
      BY <2>1, <3>1, <3>2, TheLastCloses
  <2>2. CASE call[p].await \notin Waiting
    <3>1. /\ call[p].pc = "close" /\ Stop(p)
          /\ UNCHANGED <<status, current, claimedBy, stale, awaits>>
      BY <1>5, <2>2 DEF CloseResolved, table
    <3>2. call'[p].pc = "idle" /\ \A q \in Proc \ {p} : call'[q] = call[q]
      BY <3>1 DEF Moved, Stopped
    <3>3. call'[p].kind = "cancel" => call[p].kind = "cancel"
      BY <1>5, KindsAreKept DEF Continue, Wake
    <3> QED
      BY <3>1, <3>2, <3>3, TheLastStays DEF Harmless
  <2> QED
    BY <2>1, <2>2
<1>6. ASSUME NEW p \in Proc, Expire(p)
      PROVE  NothingOpens'
  <2>1. PICK a \in Waiting :
          awaits' = CloseAwaits({a}, "timed_out") /\ Moved(p, "load", awaits[a].step, 0, a)
    BY <1>6
  <2>2. call'[p].pc = "load" /\ \A q \in Proc \ {p} : call'[q] = call[q]
    BY <2>1 DEF Moved
  <2> QED
    BY <2>1, <2>2, TheLastCloses
<1>7. ASSUME NEW p \in Proc, Sweep(p)
      PROVE  NothingOpens' \/ LastAwait'
  <2>1. /\ call[p].pc = "sweep" /\ awaits' = CloseAwaits(Waiting, "cancelled")
        /\ UNCHANGED <<status, current, claimedBy, stale>>
        /\ call[p].kind = "cancel" => Goto(p, "seize")
        /\ call[p].kind # "cancel" => Goto(p, "tally")
    BY <1>7 DEF Sweep, table
  <2>2. /\ call[p].kind = "cancel" => call'[p].pc = "seize"
        /\ call[p].kind # "cancel" => call'[p].pc = "tally"
        /\ \A q \in Proc \ {p} : call'[q] = call[q]
    BY <2>1 DEF Stays, Moved
  <2>3. CASE Waiting # {}
    BY <2>1, <2>2, <2>3, TheLastCloses
  <2>4. CASE Waiting = {} /\ \A q \in Proc : call[q].pc # "open"
    <3>1. AwaitsOnlyClose
      BY <2>1, ClosingOnlyCloses
    <3> QED
      BY <2>2, <2>4, <3>1 DEF NothingOpens, Waiting, AwaitsOnlyClose
  <2>5. ASSUME Waiting = {}, NEW q \in Proc, call[q].pc = "open"
        PROVE  LastAwait'
    <3>1. awaits' = awaits
      <4>1. DOMAIN awaits = 1..Len(awaits)
        BY AwaitsAreNumbered
      <4>2. awaits' = [a \in DOMAIN awaits |-> awaits[a]]
        BY <2>1, <2>5 DEF CloseAwaits
      <4>3. awaits = [a \in DOMAIN awaits |-> awaits[a]]
        BY SeqDef DEF Inv1, TypeOK
      <4> QED
        BY <4>2, <4>3
    <3>2. claimedBy = q /\ q # p /\ call[p].kind # "cancel"
      BY <2>1, <2>5 DEF LastAwait
    <3>3. call'[p].pc = "tally" /\ claimedBy # p
      BY <2>2, <3>2
    <3>4. call'[p].kind = "cancel" => call[p].kind = "cancel"
      BY <1>7, KindsAreKept DEF Continue, FinalizeCancel
    <3> QED
      BY <2>1, <2>2, <3>1, <3>3, <3>4, TheLastStays DEF Harmless
  <2> QED
    BY <2>3, <2>4, <2>5
<1>8. ASSUME NEW p \in Proc
      PROVE  /\ ~StartRun(p) /\ ~Count(p) /\ ~HonourCancel(p) /\ ~Enter(p)
             /\ ~EffectSettles(p) /\ ~EffectThrows(p) /\ ~Record(p) /\ ~LoadExpired(p)
             /\ ~Take(p) /\ ~SettleResponse(p) /\ ~SettleExpiry(p) /\ ~Seize(p)
             /\ ~ClaimAndResume(p) /\ ~Resume(p)
  BY DEF LastAwait, Harmless, StartRun, Count, HonourCancel, Enter, EffectSettles,
     EffectThrows, Record, Refused, LoadExpired, Take, SettleResponse, SettleExpiry, Seize,
     ClaimAndResume, Resume
<1>9. CASE GoStale
  <2>1. /\ status = "running" /\ UNCHANGED <<status, current, claimedBy, awaits, call>>
        /\ ~(claimedBy \in Proc /\ Alive(claimedBy)) \/ "stall" \in Events
    BY <1>9 DEF GoStale
  <2>2. "resume" \notin Events
    BY <2>1 DEF LastAwait, Alive, Quiet
  <2>3. Waiting' = Waiting
    BY <2>1 DEF Waiting
  <2> QED
    BY <2>1, <2>2, <2>3 DEF LastAwait, OneAwait, Harmless
<1>10. ~ClaimAndSkip
  BY DEF LastAwait, ClaimAndSkip
<1>11. CASE UNCHANGED vars
  <2>1. Waiting' = Waiting
    BY <1>11 DEF vars, Waiting
  <2> QED
    BY <1>11, <2>1 DEF vars, table, LastAwait, OneAwait, Harmless
<1> QED
  BY <1>1, <1>2, <1>3, <1>4, <1>5, <1>6, <1>7, <1>8, <1>9, <1>10, <1>11
     DEF Next, Continue, Drive, Wake, FinalizeCancel

\* No call of kind "cancel" appears unless the operator cancels.
LEMMA OnlyCancelsCancel ==
    ASSUME Inv1, [Next]_vars, \A p \in Proc : call[p].kind # "cancel" /\ ~Cancel(p)
    PROVE  \A p \in Proc : call'[p].kind # "cancel"
<1>1. ASSUME NEW p \in Proc,
             StartRun(p) \/ Continue(p) \/ Respond(p) \/ Expire(p) \/ ClaimAndResume(p) \/ Die(p)
      PROVE  \A q \in Proc : call'[q].kind # "cancel"
  <2>1. call'[p].kind # "cancel"
    BY <1>1, KindsAreKept
  <2>2. \/ Unowing(p) \/ Record(p)
        \/ HonourCancel(p) \/ EffectSettles(p) \/ EffectThrows(p) \/ NoHolder(p)
        \/ SettleResponse(p) \/ SettleExpiry(p) \/ Tally(p)
    BY <1>1 DEF Continue, Drive, Wake, FinalizeCancel, Unowing
  <2>3. call' = call \/ \A q \in Proc \ {p} : call'[q] = call[q]
    BY <2>2, UnowingMoves, RecordMoves, CallMoves DEF Stays, Moved
  <2> QED
    BY <2>1, <2>3
<1>2. CASE GoStale \/ ClaimAndSkip \/ UNCHANGED vars
  BY <1>2 DEF GoStale, ClaimAndSkip, vars
<1> QED
  BY <1>1, <1>2 DEF Next

-----------------------------------------------------------------------------
(* What the levels add up to                                               *)

\* A run begins without calls.
LEMMA SerialAtFirst == Init => Inv8 /\ AfterCancels /\ ~cancelled
<1> SUFFICES ASSUME Init PROVE Inv8 /\ AfterCancels /\ ~cancelled
  OBVIOUS
<1>1. /\ status = "none" /\ log = {} /\ told = {} /\ ~stale /\ ~cancelled
      /\ context.results = {} /\ \A p \in Proc : call[p].pc = "idle"
  BY DEF Init, Idle, EmptyContext
<1>2. Waiting = {}
  BY EmptySeq DEF Init, Waiting
<1>3. AboutTheAwait /\ NeverDoubleDriven
  BY <1>1 DEF AboutTheAwait, NeverDoubleDriven, At
<1>4. \A p \in Proc : ~Drives(call[p]) /\ ~Applies(call[p]) /\ ~Parking(p)
  BY <1>1 DEF Drives, Applies, Parking
<1>5. Unborn /\ OneAwait /\ Guarded /\ ResultsKept
  BY <1>1, <1>2 DEF Unborn, OneAwait, Guarded, ResultsKept
<1>6. Serial
  BY <1>1, <1>3, <1>4, <1>5 DEF Serial, Cancelling
<1>7. AfterCancels
  BY <1>1 DEF AfterCancels, Init, Idle
<1> QED
  BY <1>1, <1>3, <1>6, <1>7 DEF Inv8

\* A requested cancel stays requested, and only the operator requests it.
LEMMA CancelsAreRequested ==
    ASSUME Inv1, [Next]_vars
    PROVE  /\ cancelled => cancelled'
           /\ "cancel" \notin Events => cancelled' = cancelled
           /\ cancelled' => cancelled \/ \E p \in Proc : Cancel(p)
<1>1. ASSUME NEW p \in Proc, Cancel(p)
      PROVE  cancelled' /\ "cancel" \in Events
  BY <1>1 DEF Cancel
<1>2. ASSUME NEW p \in Proc,
             \/ StartRun(p) \/ Count(p) \/ HonourCancel(p) \/ Enter(p)
             \/ EffectSettles(p) \/ EffectThrows(p) \/ NoHolder(p) \/ Open(p)
             \/ Park(p) \/ Recheck(p) \/ Record(p) \/ RecordRefused(p) \/ Finalize(p)
             \/ Respond(p) \/ CloseResolved(p) \/ Expire(p) \/ LoadExpired(p)
             \/ Take(p) \/ SettleResponse(p) \/ SettleExpiry(p) \/ Snapshot(p) \/ Sweep(p)
             \/ Seize(p) \/ Tally(p) \/ ClaimAndResume(p) \/ Resume(p) \/ Die(p)
      PROVE  cancelled' = cancelled
  BY <1>2 DEF StartRun, Count, HonourCancel, Enter, EffectSettles, EffectThrows, NoHolder,
     Open, Park, Recheck, Record, RecordRefused, Finalize, Respond, CloseResolved, Expire,
     LoadExpired, Take, SettleResponse, SettleExpiry, Snapshot, Sweep, Seize, Tally,
     ClaimAndResume, Resume, Die, table
<1>3. CASE GoStale \/ ClaimAndSkip \/ UNCHANGED vars
  BY <1>3 DEF GoStale, ClaimAndSkip, vars, table
<1> QED
  BY <1>1, <1>2, <1>3 DEF Next, Continue, Drive, Wake, FinalizeCancel

\* All that the theorems below rest on.
SerialInv ==
    /\ Inv1 /\ Inv2 /\ Inv3 /\ Inv4 /\ Inv5 /\ Inv8
    /\ AfterCancels
    /\ "cancel" \notin Events => ~cancelled

\* The levels together are an invariant.
LEMMA SerialInvHolds ==
    ASSUME Quiet
    PROVE  Spec => []SerialInv
<1>1. Init => SerialInv
  BY TypesAtFirst, NumberingAtFirst, AwaitsAtFirst, WritesAtFirst, SerialAtFirst,
     NoProcAssumption DEF Init, Inv3, SerialInv
<1>2. ASSUME SerialInv, [Next]_vars
      PROVE  SerialInv'
  <2>1. Inv1' /\ Inv2' /\ Inv3' /\ Inv4' /\ Inv5'
    BY <1>2, TypesAreKept, NumberingIsKept, TheFrontierIsKept, NoAwaitIsReused,
       WritesStayLegal DEF SerialInv
  <2>2. AboutTheAwait' /\ NeverDoubleDriven'
    BY <1>2, CallsKeepToTheirAwait, EffectsStaySingle DEF SerialInv, Inv8
  <2>3. /\ cancelled => cancelled'
        /\ "cancel" \notin Events => cancelled' = cancelled
        /\ cancelled' => cancelled \/ \E p \in Proc : Cancel(p)
    BY <1>2, CancelsAreRequested DEF SerialInv
  <2>4. ~cancelled' => Serial'
    <3> SUFFICES ASSUME ~cancelled' PROVE Serial'
      OBVIOUS
    <3>1. ~cancelled
      BY <2>3
    <3>2. Inv1 /\ Inv3 /\ Inv4 /\ AboutTheAwait /\ Serial
      BY <1>2, <3>1 DEF SerialInv, Inv8
    <3> QED
      BY <1>2, <3>1, <3>2, SerialIsKept
  <2>5. AfterCancels'
    <3>1. CASE cancelled
      BY <1>2, <2>3, <3>1, NothingOpensAgain, TheLastIsKept DEF SerialInv, AfterCancels
    <3>2. ASSUME ~cancelled, NEW p \in Proc, Cancel(p)
          PROVE  AfterCancels'
      <4>1. Serial /\ cancelled' /\ \A q \in Proc : call[q].kind # "cancel"
        BY <1>2, <3>2 DEF SerialInv, Inv8, AfterCancels, Cancel
      <4> QED
        BY <1>2, <3>2, <4>1, TheFirstCancel DEF SerialInv, AfterCancels
    <3>3. CASE ~cancelled /\ \A p \in Proc : ~Cancel(p)
      BY <1>2, <2>3, <3>3, OnlyCancelsCancel DEF SerialInv, AfterCancels
    <3> QED
      BY <3>1, <3>2, <3>3
  <2> QED
    BY <1>2, <2>1, <2>2, <2>3, <2>4, <2>5 DEF SerialInv, Inv8
<1> QED
  BY <1>1, <1>2, PTL DEF Spec

\* Two calls never execute effects of the run at the same time: not while it
\* is driven, answered, expired and cancelled at once, and not when the resume
\* worker polls, as long as no call dies or outlasts its lease under its eyes.
THEOREM EffectsRunOneAtATime ==
    ASSUME Quiet
    PROVE  Spec => []NeverDoubleDriven
<1>1. SerialInv => NeverDoubleDriven
  BY DEF SerialInv, Inv8
<1> QED
  BY <1>1, SerialInvHolds, PTL

\* An open await belongs to the step the run is at, also when responses,
\* deadlines and cancels race for it, and when the resume worker polls, as
\* long as no call dies or outlasts its lease under its eyes.
THEOREM AnOpenAwaitIsCurrent ==
    ASSUME Quiet
    PROVE  Spec => []OpenAwaitIsCurrent
<1>1. SerialInv => OpenAwaitIsCurrent
  <2> SUFFICES ASSUME SerialInv PROVE OpenAwaitIsCurrent
    OBVIOUS
  <2>1. CASE Waiting = {}
    BY <2>1 DEF OpenAwaitIsCurrent
  <2>2. CASE Waiting # {}
    <3>1. OneAwait
      BY <2>2 DEF SerialInv, Inv8, Serial, AfterCancels, NothingOpens, LastAwait
    <3> QED
      BY <3>1 DEF OneAwait, OpenAwaitIsCurrent, Ended, Terminal
  <2> QED
    BY <2>1, <2>2
<1> QED
  BY <1>1, SerialInvHolds, PTL

\* While nobody cancels, no result that the trace records is lost from the
\* context that later steps read.
THEOREM ResultsAreKept ==
    ASSUME Quiet, "cancel" \notin Events
    PROVE  Spec => []ResultsKept
<1>1. SerialInv => ResultsKept
  BY DEF SerialInv, Inv8, Serial
<1> QED
  BY <1>1, SerialInvHolds, PTL

\* While nobody cancels, subscribers hear one outcome of the run.
THEOREM OneOutcomeIsTold ==
    ASSUME Quiet, "cancel" \notin Events
    PROVE  Spec => []OneOutcome
<1>1. SerialInv => OneOutcome
  <2> SUFFICES ASSUME SerialInv PROVE OneOutcome
    OBVIOUS
  <2>1. told # {} => told = {status}
    BY DEF SerialInv, Inv8, Serial
  <2>2. CASE told = {}
    BY <2>2, FS_EmptySet DEF OneOutcome
  <2>3. CASE told = {status}
    BY <2>3, FS_Singleton DEF OneOutcome
  <2> QED
    BY <2>1, <2>2, <2>3
<1> QED
  BY <1>1, SerialInvHolds, PTL

-----------------------------------------------------------------------------
(* The run is a walk of the ledger                                         *)

\* The row of a trace with a number, and the steps of the trace in order.
RowIn(rows, i) == CHOOSE r \in rows : r.seq = i - 1

TrailOf(rows) == [i \in 1..Cardinality(rows) |-> RowIn(rows, i).step]

\* A trace without gaps.
Numbered(rows) ==
    /\ IsFiniteSet(rows) /\ rows \subseteq Rows
    /\ {r.seq : r \in rows} = 0..(Cardinality(rows) - 1)
    /\ \A q, r \in rows : q.seq = r.seq => q = r

\* A trace without gaps has a row for each number.
LEMMA RowsAreFound ==
    ASSUME NEW rows, Numbered(rows), NEW i \in 1..Cardinality(rows)
    PROVE  /\ RowIn(rows, i) \in rows /\ RowIn(rows, i).seq = i - 1
           /\ RowIn(rows, i).step \in Steps
<1>1. Cardinality(rows) \in Nat
  BY FS_CardinalityType DEF Numbered
<1>2. i - 1 \in 0..(Cardinality(rows) - 1)
  BY <1>1
<1>3. \E r \in rows : r.seq = i - 1
  BY <1>2 DEF Numbered
<1>4. RowIn(rows, i) \in rows /\ RowIn(rows, i).seq = i - 1
  BY <1>3 DEF RowIn
<1> QED
  BY <1>4 DEF Numbered, Rows

\* Its trail is a sequence of steps, as long as the trace.
LEMMA TrailsAreSequences ==
    ASSUME NEW rows, Numbered(rows)
    PROVE  /\ Cardinality(rows) \in Nat
           /\ TrailOf(rows) \in Seq(Steps) /\ Len(TrailOf(rows)) = Cardinality(rows)
<1>1. Cardinality(rows) \in Nat
  BY FS_CardinalityType DEF Numbered
<1>2. TrailOf(rows) \in [1..Cardinality(rows) -> Steps]
  BY RowsAreFound DEF TrailOf
<1>3. TrailOf(rows) \in Seq(Steps)
  BY <1>1, <1>2, SeqDef
<1>4. Len(TrailOf(rows)) \in Nat /\ 1..Len(TrailOf(rows)) = 1..Cardinality(rows)
  BY <1>2, <1>3, LenProperties
<1> QED
  BY <1>1, <1>3, <1>4, SameInterval

\* A row with the next number continues the trail.
LEMMA TrailsGrow ==
    ASSUME NEW rows, NEW row, Numbered(rows), Numbered(rows \cup {row}),
           row.seq = Cardinality(rows),
           Cardinality(rows \cup {row}) = Cardinality(rows) + 1
    PROVE  TrailOf(rows \cup {row}) = Append(TrailOf(rows), row.step)
<1> DEFINE n == Cardinality(rows)
           more == rows \cup {row}
           before == TrailOf(rows)
           after == TrailOf(more)
           s == row.step
<1>1. n \in Nat /\ before \in Seq(Steps) /\ Len(before) = n
  BY TrailsAreSequences
<1>2. after \in Seq(Steps) /\ Len(after) = n + 1
  BY TrailsAreSequences
<1>3. s \in Steps
  BY DEF Numbered, Rows
<1>4. ASSUME NEW i \in 1..n
      PROVE  after[i] = before[i]
  <2>1. i \in 1..Cardinality(more)
    BY <1>1
  <2>2. /\ RowIn(rows, i) \in rows /\ RowIn(rows, i).seq = i - 1
        /\ RowIn(more, i) \in more /\ RowIn(more, i).seq = i - 1
    BY <2>1, RowsAreFound
  <2>3. RowIn(rows, i) = RowIn(more, i)
    BY <2>2 DEF Numbered
  <2> QED
    BY <2>1, <2>3 DEF TrailOf
<1>5. after[n + 1] = s
  <2>1. n + 1 \in 1..Cardinality(more)
    BY <1>1
  <2>2. RowIn(more, n + 1) \in more /\ RowIn(more, n + 1).seq = n
    BY <1>1, <2>1, RowsAreFound
  <2>3. RowIn(more, n + 1) = row
    BY <2>2 DEF Numbered
  <2> QED
    BY <2>1, <2>3 DEF TrailOf
<1> HIDE DEF n, before, after, s
<1>6. /\ Append(before, s) \in Seq(Steps) /\ Len(Append(before, s)) = n + 1
      /\ \A i \in 1..n : Append(before, s)[i] = before[i]
      /\ Append(before, s)[n + 1] = s
  BY <1>1, <1>3, AppendProperties
<1>7. \A i \in 1..(n + 1) : after[i] = Append(before, s)[i]
  BY <1>1, <1>4, <1>5, <1>6
<1>8. after = Append(before, s)
  BY <1>2, <1>6, <1>7, SeqEqual
<1> QED
  BY <1>8 DEF before, after, s, more

\* The trace of the run has no gaps.
LEMMA TheTraceIsNumbered ==
    ASSUME Inv1, Inv2, Inv5
    PROVE  Numbered(log)
BY DEF Inv1, TypeOK, Inv2, LogIsGapless, Inv5, Numbered

\* Recording a step appends it to the trail of the run.
LEMMA TheTrailGrows ==
    ASSUME Inv1, Inv2, Inv5, Inv1', Inv2', Inv5', NEW p \in Proc, Record(p)
    PROVE  TrailOf(log') = Append(TrailOf(log), call[p].write.step)
<1>1. /\ Cardinality(log') = Cardinality(log) + 1 /\ call[p].seq = Cardinality(log)
      /\ log' = log \cup {RowOf(p)}
  BY TheNextNumber DEF StepsForRun, Record
<1>2. RowOf(p).seq = call[p].seq /\ RowOf(p).step = call[p].write.step
  BY DEF RowOf
<1>3. Numbered(log)
  BY TheTraceIsNumbered
<1>4. Numbered(log')
  BY DEF Inv1, TypeOK, Inv2, LogIsGapless, Inv5, Numbered
<1> HIDE DEF Rows
<1> QED
  BY <1>1, <1>2, <1>3, <1>4, TrailsGrow

\* The ledger's view of the run, before and after a step.
Phase == IF Ended THEN "ended" ELSE status
Where == IF Ended THEN NoStep ELSE current

\* The steps of the ledger, told by the view of the run and its trail.
LEMMA TheLedgerOf ==
    ASSUME NEW OldTrail, NEW NewTrail,
           OldTrail = TrailOf(log), NewTrail = TrailOf(log')
    PROVE  /\ Phase = "none" /\ Phase' = "running" /\ Where' = Graph.entry
              /\ NewTrail = OldTrail => Ledger!Start
           /\ Phase = "running" /\ Phase' = "waiting" /\ Where' = Where
              /\ NewTrail = OldTrail => Ledger!Park
           /\ Phase \in {"running", "waiting"} /\ Phase' = "running"
              /\ Where \in Steps /\ Where' \in After(Where)
              /\ NewTrail = Append(OldTrail, Where) => Ledger!Advance
           /\ Phase \in {"running", "waiting"} /\ Phase' = "ended" /\ Where' = NoStep
              /\ NewTrail = Append(OldTrail, Where) => Ledger!End
           /\ Phase' = Phase /\ Where' = Where /\ NewTrail = OldTrail
              => UNCHANGED Ledger!vars
<1> DEFINE before == [i \in 1..Cardinality(log) |-> RowAt(i).step]
           after == [i \in 1..Cardinality(log') |-> (RowAt(i).step)']
<1>1. before = OldTrail /\ after = NewTrail
  BY DEF TrailOf, RowIn, RowAt
<1>2. (Phase = "none" /\ Phase' = "running" /\ Where' = Graph.entry
              /\ NewTrail = OldTrail) => Ledger!Start
  BY <1>1 DEF Ledger!Start, Phase, Where
<1>3. (Phase = "running" /\ Phase' = "waiting" /\ Where' = Where
              /\ NewTrail = OldTrail) => Ledger!Park
  BY <1>1 DEF Ledger!Park, Phase, Where
<1>4. (Phase \in {"running", "waiting"} /\ Phase' = "running"
              /\ Where \in Steps /\ Where' \in After(Where)
              /\ NewTrail = Append(OldTrail, Where)) => Ledger!Advance
  BY <1>1 DEF Ledger!Advance, Ledger!Live, Phase, Where, After, Steps
<1>5. (Phase \in {"running", "waiting"} /\ Phase' = "ended" /\ Where' = NoStep
              /\ NewTrail = Append(OldTrail, Where)) => Ledger!End
  BY <1>1 DEF Ledger!End, Ledger!Live, Phase, Where
<1>6. (Phase' = Phase /\ Where' = Where /\ NewTrail = OldTrail)
              => UNCHANGED Ledger!vars
  BY <1>1 DEF Ledger!vars, Phase, Where
<1> QED
  BY <1>2, <1>3, <1>4, <1>5, <1>6

\* Who records takes the run on from where it is.
LEMMA WhoRecords ==
    ASSUME Inv1, Serial, NEW p \in Proc, Record(p)
    PROVE  status \in {"running", "waiting"} /\ call[p].write.step = current
<1>1. call[p].pc = "record"
  BY DEF Record, At
<1>2. Drives(call[p]) \/ Applies(call[p])
  BY <1>1 DEF Drives, Applies
<1>3. CASE Drives(call[p])
  BY <1>1, <1>3, DriverIsAlone DEF Driver, Fits
<1>4. CASE Applies(call[p])
  BY <1>1, <1>4, ApplierIsAlone DEF Applier, Fits
<1> QED
  BY <1>2, <1>3, <1>4

\* Every step of the run is a step of the ledger, or none, if whoever records
\* takes the run on from where it is.
LEMMA StepsOfTheLedger ==
    ASSUME Inv1, Inv2, Inv3, Inv5, Inv1', Inv2', Inv5', [Next]_vars,
           \A p \in Proc : Record(p) =>
               status \in {"running", "waiting"} /\ call[p].write.step = current
    PROVE  [Ledger!Next]_(Ledger!vars)
<1> DEFINE before == TrailOf(log)
           after == TrailOf(log')
<1>1. ASSUME UNCHANGED <<status, current, log>>
      PROVE  UNCHANGED Ledger!vars
  <2>1. Phase' = Phase /\ Where' = Where /\ after = before
    BY <1>1 DEF Phase, Where, Ended
  <2> HIDE DEF before, after
  <2> QED
    BY <2>1, TheLedgerOf DEF before, after
<1>2. ASSUME NEW p \in Proc, StartRun(p)
      PROVE  Ledger!Start
  <2>1. Phase = "none" /\ Phase' = "running" /\ Where' = Graph.entry /\ after = before
    BY <1>2 DEF StartRun, Phase, Where, Ended, Terminal
  <2> QED
    BY <2>1, TheLedgerOf
<1>3. ASSUME NEW p \in Proc, Park(p)
      PROVE  Ledger!Park \/ UNCHANGED Ledger!vars
  <2>1. CASE claimedBy = p
    <3>1. call[p].pc = "park" /\ status' = "waiting" /\ current' = call[p].step /\ log' = log
      BY <1>3, <2>1 DEF Park, At
    <3>2. status = "running" /\ call[p].step = current
      BY <2>1, <3>1 DEF Inv3, Frontier, Driving
    <3>3. Phase = "running" /\ Phase' = "waiting" /\ Where' = Where /\ after = before
      BY <3>1, <3>2 DEF Phase, Where, Ended, Terminal
    <3> QED
      BY <3>3, TheLedgerOf
  <2>2. CASE claimedBy # p
    BY <1>1, <1>3, <2>2 DEF Park
  <2> QED
    BY <2>1, <2>2
<1>4. ASSUME NEW p \in Proc, Record(p)
      PROVE  Ledger!Advance \/ Ledger!End
  <2> DEFINE w == call[p].write
  <2>1. /\ status \in {"running", "waiting"} /\ w.step = current
        /\ status' = w.status /\ current' = w.next
        /\ w.status \in Terminal \/ (w.status = "running" /\ w.next \in After(w.step))
    <3>1. call[p].pc = "record" /\ status' = w.status /\ current' = w.next
      BY <1>4 DEF Record, At
    <3>2. Legal(w) /\ w.status \in Statuses
      BY <3>1, CallsAreGood DEF Inv5, Calls, Writes
    <3>3. w.status \in Terminal \/ (w.status = "running" /\ w.next \in After(w.step))
      BY <3>2 DEF Legal, Statuses, Terminal
    <3> QED
      BY <1>4, <3>1, <3>3
  <2>2. after = Append(before, w.step)
    BY <1>4, TheTrailGrows
  <2>3. w.step \in Steps
    BY CallsAreGood DEF Calls, Writes
  <2> HIDE DEF w
  <2>4. Phase = status /\ Where = w.step
    BY <2>1 DEF Phase, Where, Ended, Terminal
  <2>5. CASE w.status \in Terminal
    <3>1. Phase' = "ended" /\ Where' = NoStep
      BY <2>1, <2>5 DEF Phase, Where, Ended
    <3> QED
      BY <2>1, <2>2, <2>4, <3>1, TheLedgerOf
  <2>6. CASE w.status = "running" /\ w.next \in After(w.step)
    <3>1. Phase' = "running" /\ Where' = w.next
      BY <2>1, <2>6 DEF Phase, Where, Ended, Terminal
    <3> QED
      BY <2>1, <2>2, <2>3, <2>4, <2>6, <3>1, TheLedgerOf
  <2> QED
    BY <2>1, <2>5, <2>6
<1>5. ASSUME NEW p \in Proc,
             \/ Count(p) \/ HonourCancel(p) \/ Enter(p)
             \/ EffectSettles(p) \/ EffectThrows(p) \/ NoHolder(p) \/ Open(p)
             \/ Recheck(p) \/ RecordRefused(p) \/ Finalize(p)
             \/ Respond(p) \/ CloseResolved(p) \/ Expire(p) \/ LoadExpired(p)
             \/ Take(p) \/ SettleResponse(p) \/ SettleExpiry(p) \/ Cancel(p) \/ Snapshot(p)
             \/ Sweep(p) \/ Seize(p) \/ Tally(p) \/ ClaimAndResume(p) \/ Resume(p) \/ Die(p)
      PROVE  UNCHANGED <<status, current, log>>
  BY <1>5 DEF Count, HonourCancel, Enter, EffectSettles, EffectThrows, NoHolder,
     Open, Recheck, RecordRefused, Finalize, Respond, CloseResolved, Expire,
     LoadExpired, Take, SettleResponse, SettleExpiry, Cancel, Snapshot, Sweep, Seize, Tally,
     ClaimAndResume, Resume, Die, table
<1>6. CASE GoStale \/ ClaimAndSkip \/ UNCHANGED vars
  BY <1>1, <1>6 DEF GoStale, ClaimAndSkip, vars, table
<1> QED
  BY <1>1, <1>2, <1>3, <1>4, <1>5, <1>6
     DEF Next, Continue, Drive, Wake, FinalizeCancel, Ledger!Next

\* The run begins as a ledger.
LEMMA LedgerAtFirst == Init => Ledger!Init
<1> SUFFICES ASSUME Init PROVE Ledger!Init
  OBVIOUS
<1>1. status = "none" /\ current = NoStep /\ Cardinality(log) = 0
  BY FS_EmptySet DEF Init
<1>2. [i \in 1..Cardinality(log) |-> RowAt(i).step] = <<>>
  BY <1>1
<1> QED
  BY <1>1, <1>2 DEF Ledger!Init, Ended, Terminal

\* While nobody cancels, and no resumed drive meets a call of the run that is
\* still alive, a run is one walk through its published graph: it starts at the
\* entry, each recorded step is the one the run was at, and it ends once.
THEOREM ARunIsAWalk ==
    ASSUME Quiet, "cancel" \notin Events
    PROVE  Spec => IsALedger
<1>1. SerialInv /\ SerialInv' /\ [Next]_vars => [Ledger!Next]_(Ledger!vars)
  BY WhoRecords, StepsOfTheLedger DEF SerialInv, Inv8
<1>2. Spec => []SerialInv
  BY SerialInvHolds
<1> QED
  BY <1>1, <1>2, LedgerAtFirst, PTL DEF Spec, IsALedger, Ledger!Spec

-----------------------------------------------------------------------------
(* Inv9: nobody answers                                                    *)

\* Nobody answers the awaits of the run, and no deadline closes them.
Unanswered == "respond" \notin Events /\ "deadline" \notin Events

\* A write the run's owner may make: it takes on a run that is running, or it
\* is the operator's, and then leaves the results as they are.
Timely(w) ==
    /\ w.actor # "cancel" => status = "running" /\ Fits(w)
    /\ w.actor = "cancel" =>
          /\ status \in {"running", "waiting", "cancelled"}
          /\ w.context.results = context.results
          /\ status = "running" => w.step = current

\* The owner knows the results there are.
OwnerIsTimely(p) ==
    /\ call[p].pc \in {"count", "head", "effect", "open", "park"} =>
          call[p].context.results = context.results
    /\ call[p].pc = "record" => Timely(call[p].write)

Inv9 ==
    /\ \A p \in Proc : call[p].pc \notin Answering
    /\ \A p \in Proc : claimedBy = p => OwnerIsTimely(p)
    /\ \A p \in Proc : call[p].pc \in Afterwards => status \in {"waiting", "cancelled"}
    /\ \A p \in Proc : call[p].pc \in {"sweep", "seize", "tally"} =>
          call[p].context.results = context.results
    /\ told # {} => Ended /\ told = {status}
    /\ status = "none" =>
          context.results = {} /\ \A p \in Proc : call[p].pc = "idle"
    /\ ResultsKept

\* A step that leaves the run row, the trace and what was told alone keeps
\* Inv9 if the call it moves does.
LEMMA StillTimely ==
    ASSUME Inv9, NEW p \in Proc,
           UNCHANGED <<status, current, context, claimedBy, log, told>>,
           \A q \in Proc \ {p} : call'[q] = call[q],
           call'[p].pc \notin Answering,
           claimedBy = p => OwnerIsTimely(p)',
           call'[p].pc \in Afterwards => status \in {"waiting", "cancelled"},
           call'[p].pc \in {"sweep", "seize", "tally"} =>
              call'[p].context.results = context.results,
           status = "none" => call'[p].pc = "idle"
    PROVE  Inv9'
<1>1. \A q \in Proc : q # p => (OwnerIsTimely(q) => OwnerIsTimely(q)')
  BY DEF OwnerIsTimely, Timely, Fits
<1>2. \A q \in Proc : claimedBy' = q => OwnerIsTimely(q)'
  BY <1>1 DEF Inv9
<1> QED
  BY <1>2 DEF Inv9, ResultsKept, Ended

\* A call that takes the lease and owes nothing yet is timely.
LEMMA TakingOver ==
    ASSUME Inv9, NEW p \in Proc,
           UNCHANGED <<status, current, context, log, told>>, status # "none",
           \A q \in Proc \ {p} : call'[q] = call[q],
           claimedBy' = p, call'[p].pc \in {"resume", "tally"},
           call'[p].pc = "tally" =>
              /\ status \in {"waiting", "cancelled"}
              /\ call'[p].context.results = context.results
    PROVE  Inv9'
<1>1. OwnerIsTimely(p)'
  BY DEF OwnerIsTimely
<1> QED
  BY <1>1 DEF Inv9, ResultsKept, Ended, Answering, Afterwards

\* Counting an attempt leaves the results alone; accumulating adds one.
LEMMA ResultsOf ==
    ASSUME NEW c \in Contexts, NEW s \in Steps
    PROVE  /\ Bump(c, s).results = c.results
           /\ Accumulate(c, s).results = c.results \cup {s}
BY DEF Bump, Accumulate, Contexts

\* Recording a timely write keeps Inv9.
LEMMA RecordingInTime ==
    ASSUME Inv1, Inv5, Inv9, NEW p \in Proc, Record(p)
    PROVE  Inv9'
<1> DEFINE w == call[p].write
<1>1. /\ call[p].pc = "record" /\ claimedBy = p /\ claimedBy' = p
      /\ status' = w.status /\ current' = w.next /\ context' = w.context
      /\ log' = log \cup {RowOf(p)} /\ told' = told
  BY DEF Record, Refused, At
<1>2. /\ call'[p].pc \in {"ended", "count", "head"} /\ call'[p].context = w.context
      /\ \A q \in Proc \ {p} : call'[q] = call[q]
  BY RecordMoves, CallLocals DEF Moved
<1>3. Timely(w)
  BY <1>1 DEF Inv9, OwnerIsTimely
<1>4. w.status \in Statuses /\ Legal(w)
  BY <1>1, CallsAreGood DEF Calls, Writes, Inv5
<1>5. RowOf(p).step = w.step /\ RowOf(p).actor = w.actor /\ RowOf(p).status = w.status
  BY DEF RowOf
<1> HIDE DEF w
<1>6. ResultsKept'
  <2> SUFFICES ASSUME NEW r \in log', r.actor \in {"drive", "human"},
                      r.status \in {"running", "completed"}
               PROVE  r.step \in w.context.results
    BY <1>1 DEF ResultsKept
  <2>1. CASE r \in log
    BY <1>3, <2>1 DEF Inv9, ResultsKept, Timely, Fits
  <2>2. CASE r = RowOf(p)
    BY <1>3, <1>5, <2>2 DEF Timely, Fits
  <2> QED
    BY <1>1, <2>1, <2>2
<1>7. OwnerIsTimely(p)'
  BY <1>1, <1>2 DEF OwnerIsTimely
<1>8. \A q \in Proc : call'[q].pc \in Afterwards =>
          status' = "cancelled" /\ w.context.results = context.results
  BY <1>1, <1>2, <1>3, <1>4 DEF Inv9, Afterwards, Timely, Legal
<1>9. \A q \in Proc : call'[q].pc \in {"sweep", "seize", "tally"} =>
          call'[q].context.results = context'.results
  BY <1>1, <1>2, <1>8 DEF Inv9, Afterwards
<1>10. told' # {} => Ended' /\ told' = {status'}
  BY <1>1, <1>3, <1>4 DEF Inv9, Timely, Legal, Ended, Terminal
<1>11. status' # "none" /\ \A q \in Proc : call'[q].pc \notin Answering
  BY <1>1, <1>2, <1>4 DEF Inv9, Answering, Statuses
<1> QED
  BY <1>1, <1>6, <1>7, <1>8, <1>9, <1>10, <1>11 DEF Inv9

\* Unless awaits are answered, every step keeps every result.
LEMMA TimelinessIsKept ==
    ASSUME Unanswered, Inv1, Inv3, Inv5, Inv9, [Next]_vars
    PROVE  Inv9'
<1> USE CallMoves, ShortMoves DEF At
<1>1. ASSUME NEW p \in Proc, StartRun(p)
      PROVE  Inv9'
  <2>1. /\ call'[p].pc = "count" /\ call'[p].context = EmptyContext
        /\ claimedBy' = p /\ status' = "running" /\ status = "none"
        /\ UNCHANGED <<context, log, told>>
        /\ \A q \in Proc \ {p} : call'[q] = call[q]
    BY <1>1, CallLocals DEF StartRun, Moved
  <2>2. OwnerIsTimely(p)'
    BY <2>1 DEF Inv9, OwnerIsTimely, EmptyContext
  <2>3. \A q \in Proc : call'[q].pc \in {"idle", "count"}
    BY <2>1 DEF Inv9
  <2>4. told' = {}
    BY <2>1 DEF Inv9, Ended, Terminal
  <2> QED
    BY <2>1, <2>2, <2>3, <2>4 DEF Inv9, ResultsKept, Answering, Afterwards
<1>2. ASSUME NEW p \in Proc, Count(p) \/ Open(p)
      PROVE  Inv9'
  <2>1. /\ UNCHANGED <<status, current, context, claimedBy, log, told>>
        /\ call[p].pc \in {"count", "open"} /\ call'[p].pc \in {"head", "ended", "park"}
        /\ call'[p].context = call[p].context
        /\ \A q \in Proc \ {p} : call'[q] = call[q]
    BY <1>2, CallLocals, ShortLocals DEF Count, Open, table, Stays, Moved, HeadOrExit, Keeps
  <2>2. claimedBy = p => OwnerIsTimely(p)'
    BY <2>1 DEF Inv9, OwnerIsTimely
  <2> QED
    BY <2>1, <2>2, StillTimely DEF Inv9, Afterwards, Answering
<1>3. ASSUME NEW p \in Proc, HonourCancel(p)
      PROVE  Inv9'
  <2>1. /\ UNCHANGED <<status, current, context, claimedBy, log, told>>
        /\ call[p].pc = "head" /\ call'[p].pc = "record"
        /\ call'[p].write.actor = "cancel" /\ call'[p].write.context = call[p].context
        /\ call'[p].write.step = call[p].step
        /\ \A q \in Proc \ {p} : call'[q] = call[q]
    BY <1>3, WhatIsOwed DEF HonourCancel, table, Stays, Moved, Owes
  <2>2. ASSUME claimedBy = p
        PROVE  OwnerIsTimely(p)'
    <3>1. status = "running" /\ call[p].step = current
      BY <2>1, <2>2 DEF Inv3, Frontier, Driving
    <3>2. call[p].context.results = context.results
      BY <2>1, <2>2 DEF Inv9, OwnerIsTimely
    <3> QED
      BY <2>1, <3>1, <3>2 DEF OwnerIsTimely, Timely
  <2> QED
    BY <2>1, <2>2, StillTimely DEF Inv9, Afterwards, Answering
<1>4. ASSUME NEW p \in Proc, Enter(p)
      PROVE  Inv9'
  <2>1. /\ UNCHANGED <<status, current, context, claimedBy, log, told>>
        /\ call[p].pc = "head" /\ call'[p].pc \in {"effect", "open"}
        /\ call'[p].context = Bump(call[p].context, call[p].step)
        /\ \A q \in Proc \ {p} : call'[q] = call[q]
    BY <1>4, CallLocals DEF Enter, table, Stays, Moved
  <2>2. call'[p].context.results = call[p].context.results
    BY <2>1, CallsAreGood, ContextsAreTyped, ResultsOf DEF GoodCalls
  <2>3. claimedBy = p => OwnerIsTimely(p)'
    BY <2>1, <2>2 DEF Inv9, OwnerIsTimely
  <2> QED
    BY <2>1, <2>3, StillTimely DEF Inv9, Afterwards, Answering
<1>5. ASSUME NEW p \in Proc, EffectSettles(p) \/ EffectThrows(p) \/ NoHolder(p)
      PROVE  Inv9'
  <2> DEFINE w == call'[p].write
  <2>1. /\ UNCHANGED <<status, current, context, claimedBy, log, told>>
        /\ call[p].pc \in {"effect", "open"} /\ call'[p].pc = "record"
        /\ w.step = call[p].step
        /\ \/ w.actor = "drive"
              /\ w.context = Accumulate(call[p].context, call[p].step)
           \/ w.actor = "drive" /\ w.status = "failed" /\ w.context = call[p].context
           \/ w.actor = "noHolder" /\ w.context = call[p].context
        /\ \A q \in Proc \ {p} : call'[q] = call[q]
    BY <1>5, WhatIsOwed DEF EffectSettles, EffectThrows, NoHolder, table, Stays, Moved, Owes
  <2>2. /\ Accumulate(call[p].context, call[p].step).results
               = call[p].context.results \cup {call[p].step}
    BY <2>1, CallsAreGood, ContextsAreTyped, ResultsOf DEF GoodCalls
  <2>3. ASSUME claimedBy = p
        PROVE  OwnerIsTimely(p)'
    <3>1. status = "running" /\ call[p].step = current
      BY <2>1, <2>3 DEF Inv3, Frontier, Driving
    <3>2. call[p].context.results = context.results
      BY <2>1, <2>3 DEF Inv9, OwnerIsTimely
    <3> HIDE DEF w
    <3>3. /\ w.step = current /\ context.results \subseteq w.context.results
          /\ w.actor # "cancel"
          /\ w.actor \in {"drive", "human"} /\ w.status \in {"running", "completed"} =>
                w.step \in w.context.results
      BY <2>1, <2>2, <3>1, <3>2
    <3> QED
      BY <2>1, <3>1, <3>3 DEF OwnerIsTimely, Timely, Fits, w
  <2> QED
    BY <2>1, <2>3, StillTimely DEF Inv9, Afterwards, Answering
<1>6. ASSUME NEW p \in Proc, Park(p)
      PROVE  Inv9'
  <2>1. CASE claimedBy = p
    <3>1. /\ UNCHANGED <<claimedBy, log, told>>
          /\ call[p].pc = "park" /\ call'[p].pc = "recheck"
          /\ status' = "waiting" /\ context' = call[p].context
          /\ \A q \in Proc \ {p} : call'[q] = call[q]
      BY <1>6, <2>1 DEF Park, Stays, Moved
    <3>2. context'.results = context.results
      BY <2>1, <3>1 DEF Inv9, OwnerIsTimely
    <3>3. status = "running"
      BY <2>1, <3>1 DEF Inv3, Frontier, Driving
    <3>4. told' = {}
      BY <3>1, <3>3 DEF Inv9, Ended, Terminal
    <3>5. OwnerIsTimely(p)'
      BY <3>1 DEF OwnerIsTimely
    <3>6. \A q \in Proc : call'[q].pc \notin {"sweep", "seize", "tally"} \cup Answering
      BY <3>1, <3>3 DEF Inv9, Afterwards, Answering
    <3> QED
      BY <2>1, <3>1, <3>2, <3>4, <3>5, <3>6 DEF Inv9, ResultsKept
  <2>2. CASE claimedBy # p
    <3>1. UNCHANGED <<status, current, context, claimedBy, log, told>> /\ Stopped(p)
      BY <1>6, <2>2 DEF Park
    <3> QED
      BY <2>2, <3>1, StillTimely DEF Stopped, Moved, Afterwards, Answering
  <2> QED
    BY <2>1, <2>2
<1>7. ASSUME NEW p \in Proc, Recheck(p) \/ RecordRefused(p) \/ Die(p)
      PROVE  Inv9'
  <2>1. /\ UNCHANGED <<status, current, context, claimedBy, log, told>>
        /\ \/ Stopped(p)
           \/ Stays(p, "snapshot") /\ call[p].pc = "recheck"
    BY <1>7 DEF Recheck, RecordRefused, Die, table
  <2>2. OwnerIsTimely(p)'
    BY <2>1 DEF OwnerIsTimely, Stopped, Stays, Moved
  <2> QED
    BY <2>1, <2>2, StillTimely DEF Stopped, Stays, Moved, Afterwards, Answering, Inv9
<1>8. ASSUME NEW p \in Proc, Finalize(p)
      PROVE  Inv9'
  <2>1. /\ UNCHANGED <<status, current, context, claimedBy, log>>
        /\ told' = (IF Ended THEN told \cup {status} ELSE told)
        /\ call'[p].pc = "idle" /\ \A q \in Proc \ {p} : call'[q] = call[q]
    BY <1>8 DEF Finalize, table, Stopped, Moved
  <2>2. told' # {} => Ended' /\ told' = {status'}
    BY <2>1 DEF Inv9, Ended
  <2>3. \A q \in Proc : claimedBy' = q => OwnerIsTimely(q)'
    BY <2>1 DEF Inv9, OwnerIsTimely, Timely, Fits
  <2> QED
    BY <2>1, <2>2, <2>3 DEF Inv9, ResultsKept, Answering, Afterwards
<1>9. ASSUME NEW p \in Proc, Record(p)
      PROVE  Inv9'
  BY <1>9, RecordingInTime
<1>10. ASSUME NEW p \in Proc, Cancel(p)
       PROVE  Inv9'
  <2>1. /\ UNCHANGED <<status, current, context, claimedBy, log, told>> /\ status # "none"
    BY <1>10 DEF Cancel
  <2>2. CASE UNCHANGED call
    BY <2>1, <2>2 DEF Inv9, OwnerIsTimely, Timely, Fits, ResultsKept, Ended
  <2>3. CASE status = "waiting" /\ Moved(p, "snapshot", NoStep, 0, 0)
    <3>1. OwnerIsTimely(p)'
      BY <2>3 DEF OwnerIsTimely, Moved
    <3> QED
      BY <2>1, <2>3, <3>1, StillTimely DEF Moved, Answering
  <2> QED
    BY <1>10, <2>2, <2>3 DEF Cancel
<1>11. ASSUME NEW p \in Proc, Snapshot(p) \/ Sweep(p)
       PROVE  Inv9'
  <2>1. /\ UNCHANGED <<status, current, context, claimedBy, log, told>>
        /\ \/ /\ call[p].pc = "snapshot" /\ call'[p].pc = "sweep"
              /\ call'[p].context = context
           \/ /\ call[p].pc = "sweep" /\ call'[p].pc \in {"seize", "tally"}
              /\ call'[p].context = call[p].context
        /\ \A q \in Proc \ {p} : call'[q] = call[q]
    <3>1. CASE Snapshot(p)
      BY <3>1, CallLocals DEF Snapshot, table, Moved
    <3>2. CASE Sweep(p)
      BY <3>2, ShortLocals DEF Sweep, table, Stays, Moved, Keeps
    <3> QED
      BY <1>11, <3>1, <3>2
  <2>2. OwnerIsTimely(p)'
    BY <2>1 DEF OwnerIsTimely
  <2> QED
    BY <2>1, <2>2, StillTimely DEF Inv9, Afterwards, Answering
<1>12. ASSUME NEW p \in Proc, Seize(p)
       PROVE  Inv9'
  <2>1. /\ UNCHANGED <<status, current, context, log, told>> /\ claimedBy' = p
        /\ call[p].pc = "seize" /\ call'[p].pc = "tally"
        /\ call'[p].context = call[p].context
        /\ \A q \in Proc \ {p} : call'[q] = call[q]
    BY <1>12, ShortLocals DEF Seize, Stays, Moved, Keeps
  <2>2. /\ status \in {"waiting", "cancelled"}
        /\ call[p].context.results = context.results
    BY <2>1 DEF Inv9, Afterwards
  <2> QED
    BY <2>1, <2>2, TakingOver
<1>13. ASSUME NEW p \in Proc, Tally(p)
       PROVE  Inv9'
  <2>1. /\ UNCHANGED <<status, current, context, claimedBy, log, told>>
        /\ call[p].pc = "tally" /\ call'[p].pc = "record"
        /\ call'[p].write.actor = "cancel" /\ call'[p].write.context = call[p].context
        /\ \A q \in Proc \ {p} : call'[q] = call[q]
    BY <1>13, WhatIsOwed DEF Tally, table, Moved, Owes
  <2>2. /\ status \in {"waiting", "cancelled"}
        /\ call[p].context.results = context.results
    BY <2>1 DEF Inv9, Afterwards
  <2>3. OwnerIsTimely(p)'
    BY <2>1, <2>2 DEF OwnerIsTimely, Timely
  <2> QED
    BY <2>1, <2>2, <2>3, StillTimely DEF Afterwards, Answering
<1>14. ASSUME NEW p \in Proc, ClaimAndResume(p)
       PROVE  Inv9'
  <2>1. /\ UNCHANGED <<status, current, context, log, told>> /\ claimedBy' = p
        /\ status # "none" /\ call'[p].pc = "resume"
        /\ \A q \in Proc \ {p} : call'[q] = call[q]
    BY <1>14 DEF ClaimAndResume, Moved
  <2> QED
    BY <2>1, TakingOver
<1>15. ASSUME NEW p \in Proc, Resume(p)
       PROVE  Inv9'
  <2>1. /\ UNCHANGED <<status, current, context, claimedBy, log, told>>
        /\ \/ call'[p].pc = "idle"
           \/ call'[p].pc = "count" /\ call'[p].context = context /\ status = "running"
        /\ \A q \in Proc \ {p} : call'[q] = call[q]
    BY <1>15, CallLocals DEF Resume, table, Stopped, Moved
  <2>2. OwnerIsTimely(p)'
    BY <2>1 DEF OwnerIsTimely
  <2> QED
    BY <2>1, <2>2, StillTimely DEF Afterwards, Answering
<1>16. CASE GoStale \/ UNCHANGED vars
  BY <1>16 DEF GoStale, vars, table, Inv9, OwnerIsTimely, Timely, Fits, ResultsKept, Ended
<1>17. CASE ClaimAndSkip
  BY <1>17, NoProcAssumption DEF ClaimAndSkip, Inv9, ResultsKept, Ended
<1>18. \A p \in Proc : ~Respond(p) /\ ~Expire(p)
  BY DEF Unanswered, Respond, Expire
<1>19. \A p \in Proc :
         ~CloseResolved(p) /\ ~LoadExpired(p) /\ ~Take(p) /\ ~SettleResponse(p) /\ ~SettleExpiry(p)
  BY DEF Inv9, Answering, CloseResolved, LoadExpired, Take, SettleResponse, SettleExpiry
<1> QED
  BY <1>1, <1>2, <1>3, <1>4, <1>5, <1>6, <1>7, <1>8, <1>9, <1>10, <1>11, <1>12, <1>13,
     <1>14, <1>15, <1>16, <1>17, <1>18, <1>19
     DEF Next, Continue, Drive, Wake, FinalizeCancel

\* All that holds of a run whose awaits nobody answers.
UnansweredInv == Inv1 /\ Inv2 /\ Inv3 /\ Inv5 /\ Inv9

\* Its levels together are an invariant.
LEMMA UnansweredInvHolds ==
    ASSUME Unanswered
    PROVE  Spec => []UnansweredInv
<1>1. Init => UnansweredInv
  <2> SUFFICES ASSUME Init PROVE UnansweredInv
    OBVIOUS
  <2>1. Inv1 /\ Inv2 /\ Inv3 /\ Inv5
    BY TypesAtFirst, NumberingAtFirst, WritesAtFirst, NoProcAssumption DEF Init, Inv3
  <2>2. /\ log = {} /\ told = {} /\ context.results = {} /\ claimedBy = NoProc
        /\ \A p \in Proc : call[p].pc = "idle"
    BY DEF Init, Idle, EmptyContext
  <2>3. Inv9
    BY <2>2, NoProcAssumption DEF Inv9, Answering, Afterwards, ResultsKept
  <2> QED
    BY <2>1, <2>3 DEF UnansweredInv
<1>2. UnansweredInv /\ [Next]_vars => UnansweredInv'
  BY TypesAreKept, NumberingIsKept, TheFrontierIsKept, WritesStayLegal, TimelinessIsKept
     DEF UnansweredInv
<1> QED
  BY <1>1, <1>2, PTL DEF Spec

\* Crashes, lost leases, take-overs and cancels lose no result that the trace
\* records, as long as no await is answered: who writes the context has read it
\* since it got the lease, or is a driver that has carried it along.
THEOREM TakeoversKeepResults ==
    ASSUME Unanswered
    PROVE  Spec => []ResultsKept
<1>1. UnansweredInv => ResultsKept
  BY DEF UnansweredInv, Inv9
<1> QED
  BY <1>1, UnansweredInvHolds, PTL

\* They do not make subscribers hear two outcomes either.
THEOREM TakeoversTellOneOutcome ==
    ASSUME Unanswered
    PROVE  Spec => []OneOutcome
<1>1. UnansweredInv => OneOutcome
  <2> SUFFICES ASSUME UnansweredInv PROVE OneOutcome
    OBVIOUS
  <2>1. told = {} \/ told = {status}
    BY DEF UnansweredInv, Inv9
  <2>2. CASE told = {}
    BY <2>2, FS_EmptySet DEF OneOutcome
  <2>3. CASE told = {status}
    BY <2>3, FS_Singleton DEF OneOutcome
  <2> QED
    BY <2>1, <2>2, <2>3
<1> QED
  BY <1>1, UnansweredInvHolds, PTL

\* And a run that an operator has cancelled stays cancelled, however many
\* drives, take-overs and cancels of it are still under way.
THEOREM ACancelIsFinal ==
    ASSUME Unanswered
    PROVE  Spec => CancelledIsFinal
<1>1. ASSUME UnansweredInv, [Next]_vars, status = "cancelled"
      PROVE  status' = "cancelled"
  <2>1. ASSUME NEW p \in Proc, StartRun(p) \/ Park(p)
        PROVE  status' = "cancelled"
    BY <1>1, <2>1 DEF UnansweredInv, StartRun, Park, At, Inv3, Frontier, Driving
  <2>2. ASSUME NEW p \in Proc, Record(p)
        PROVE  status' = "cancelled"
    <3>1. /\ call[p].pc = "record" /\ claimedBy = p /\ status' = call[p].write.status
      BY <2>2 DEF Record, Refused, At
    <3>2. Timely(call[p].write) /\ Legal(call[p].write)
      BY <1>1, <3>1 DEF UnansweredInv, Inv9, OwnerIsTimely, Inv5
    <3> QED
      BY <1>1, <3>1, <3>2 DEF Timely, Legal
  <2>3. ASSUME NEW p \in Proc, ~StartRun(p), ~Park(p), ~Record(p),
               Continue(p) \/ Respond(p) \/ Expire(p) \/ Cancel(p) \/ ClaimAndResume(p) \/ Die(p)
        PROVE  status' = status
    BY <2>3 DEF Continue, Drive, Wake, FinalizeCancel,
       Count, HonourCancel, Enter, EffectSettles, EffectThrows, NoHolder,
       Open, Recheck, RecordRefused, Finalize, Respond, CloseResolved, Expire, LoadExpired,
       Take, SettleResponse, SettleExpiry, Cancel, Snapshot, Sweep, Seize, Tally,
       ClaimAndResume, Resume, Die, table
  <2>4. CASE GoStale \/ ClaimAndSkip \/ UNCHANGED vars
    BY <1>1, <2>4 DEF GoStale, ClaimAndSkip, vars, table
  <2> QED
    BY <1>1, <2>1, <2>2, <2>3, <2>4 DEF Next
<1>2. UnansweredInv /\ [Next]_vars => [status = "cancelled" => status' = "cancelled"]_vars
  BY <1>1
<1> QED
  BY <1>2, UnansweredInvHolds, PTL DEF Spec, CancelledIsFinal

-----------------------------------------------------------------------------
(* Inv10: and nobody cancels a run that waits                              *)

\* Nobody answers, and a run that can be cancelled has no step to wait at.
Uncontested ==
    /\ Unanswered
    /\ "cancel" \in Events => \A s \in Steps : Graph.kind[s] \in {"agent", "action"}

Inv10 ==
    /\ "cancel" \notin Events => ~cancelled
    /\ "cancel" \in Events =>
          status # "waiting" /\ \A p \in Proc : call[p].pc \notin {"open", "park", "recheck"}
    /\ \A p \in Proc : call[p].pc \notin Cancelling
    /\ \A p \in Proc : claimedBy = p /\ call[p].pc = "record" => status = "running"

\* Every step keeps a run that may be cancelled from waiting.
LEMMA NobodyContests ==
    ASSUME Uncontested, Inv1, Inv3, Inv5, Inv9, Inv10, [Next]_vars
    PROVE  Inv10'
<1> USE CallMoves, ShortMoves DEF At
<1>1. "cancel" \notin Events => ~cancelled'
  BY CancelsAreRequested DEF Inv10
<1>2. ASSUME UNCHANGED <<status, claimedBy>>, NEW p \in Proc,
             \A q \in Proc \ {p} : call'[q] = call[q],
             call'[p].pc \notin Cancelling \cup {"open", "park", "recheck"},
             claimedBy = p /\ call'[p].pc = "record" => status = "running"
      PROVE  Inv10'
  BY <1>1, <1>2 DEF Inv10
<1>3. ASSUME NEW p \in Proc, StartRun(p) \/ ClaimAndResume(p)
      PROVE  Inv10'
  <2>1. /\ claimedBy' = p /\ status' = "running" /\ call'[p].pc \in {"count", "resume"}
        /\ \A q \in Proc \ {p} : call'[q] = call[q]
    BY <1>3 DEF StartRun, ClaimAndResume, Moved
  <2> QED
    BY <1>1, <2>1 DEF Inv10, Cancelling
<1>4. ASSUME NEW p \in Proc,
             HonourCancel(p) \/ EffectSettles(p) \/ EffectThrows(p) \/ NoHolder(p)
      PROVE  Inv10'
  <2>1. /\ UNCHANGED <<status, claimedBy>> /\ call'[p].pc = "record" /\ Driving(p)
        /\ \A q \in Proc \ {p} : call'[q] = call[q]
    BY <1>4 DEF HonourCancel, EffectSettles, EffectThrows, NoHolder, table, Stays, Moved, Driving
  <2>2. claimedBy = p => status = "running"
    BY <2>1 DEF Inv3, Frontier
  <2> QED
    BY <1>2, <2>1, <2>2 DEF Cancelling
<1>5. ASSUME NEW p \in Proc, Enter(p)
      PROVE  Inv10'
  <2> DEFINE to == IF Graph.kind[call[p].step] \in {"agent", "action"} THEN "effect" ELSE "open"
             local == [call[p] EXCEPT !.pc = to, !.context = Bump(@, call[p].step)]
  <2>1. /\ UNCHANGED <<status, claimedBy>> /\ call[p].pc = "head"
        /\ \A q \in Proc \ {p} : call'[q] = call[q]
    BY <1>5 DEF Enter, table, Stays, Moved
  <2>2. call[p].step \in Steps /\ call[p] \in Calls
    BY <2>1, CallsAreGood DEF GoodCalls
  <2>3. call'[p].pc = to
    <3>1. call'[p] = local
      BY <1>5, BecomeIs DEF Enter
    <3> QED
      BY <2>2, <3>1 DEF Calls
  <2>4. call'[p].pc = "effect" \/ (call'[p].pc = "open" /\ "cancel" \notin Events)
    BY <2>2, <2>3 DEF Uncontested
  <2> QED
    BY <1>1, <2>1, <2>4 DEF Inv10, Cancelling
<1>6. ASSUME NEW p \in Proc, Open(p)
      PROVE  Inv10'
  <2>1. /\ UNCHANGED <<status, claimedBy>> /\ call[p].pc = "open" /\ call'[p].pc = "park"
        /\ \A q \in Proc \ {p} : call'[q] = call[q]
    BY <1>6 DEF Open, table, Stays, Moved
  <2> QED
    BY <1>1, <2>1 DEF Inv10, Cancelling
<1>7. ASSUME NEW p \in Proc, Park(p)
      PROVE  Inv10'
  <2>1. /\ UNCHANGED claimedBy /\ call[p].pc = "park" /\ call'[p].pc \in {"recheck", "idle"}
        /\ claimedBy # p => UNCHANGED status
        /\ \A q \in Proc \ {p} : call'[q] = call[q]
    BY <1>7 DEF Park, Stays, Stopped, Moved
  <2>2. "cancel" \notin Events
    BY <2>1 DEF Inv10
  <2> QED
    BY <1>1, <2>1, <2>2 DEF Inv10, Cancelling
<1>8. ASSUME NEW p \in Proc, Recheck(p)
      PROVE  Inv10'
  <2>1. call[p].pc = "recheck" /\ ~cancelled
    BY <1>8 DEF Recheck, Inv10
  <2>2. UNCHANGED <<status, claimedBy>> /\ Stopped(p)
    BY <1>8, <2>1 DEF Recheck, table
  <2> QED
    BY <1>2, <2>2 DEF Stopped, Moved, Cancelling
<1>9. ASSUME NEW p \in Proc, Record(p)
      PROVE  Inv10'
  <2>1. /\ call[p].pc = "record" /\ claimedBy = p /\ claimedBy' = p
        /\ status' = call[p].write.status
    BY <1>9 DEF Record, Refused
  <2>2. /\ call'[p].pc \in {"ended", "count", "head"}
        /\ \A q \in Proc \ {p} : call'[q] = call[q]
    BY <1>9, RecordMoves DEF Moved
  <2>3. status' # "waiting"
    BY <2>1 DEF Inv5, Legal
  <2> QED
    BY <1>1, <2>1, <2>2, <2>3 DEF Inv10, Cancelling
<1>10. ASSUME NEW p \in Proc, Cancel(p)
       PROVE  Inv10'
  <2>1. "cancel" \in Events /\ status # "waiting" /\ UNCHANGED <<status, claimedBy, call>>
    BY <1>10 DEF Cancel, Inv10
  <2> QED
    BY <1>1, <2>1 DEF Inv10
<1>11. ASSUME NEW p \in Proc,
              Count(p) \/ RecordRefused(p) \/ Finalize(p) \/ Resume(p) \/ Die(p)
       PROVE  Inv10'
  <2>1. /\ UNCHANGED <<status, claimedBy>>
        /\ call'[p].pc \in {"head", "ended", "count", "idle"}
        /\ \A q \in Proc \ {p} : call'[q] = call[q]
    BY <1>11 DEF Count, RecordRefused, Finalize, Resume, Die, HeadOrExit, table, Stopped, Moved
  <2> QED
    BY <1>2, <2>1 DEF Cancelling
<1>12. CASE GoStale \/ UNCHANGED vars
  BY <1>1, <1>12 DEF GoStale, vars, table, Inv10
<1>13. CASE ClaimAndSkip
  BY <1>1, <1>13, NoProcAssumption DEF ClaimAndSkip, Inv10
<1>14. \A p \in Proc : ~Respond(p) /\ ~Expire(p)
  BY DEF Uncontested, Unanswered, Respond, Expire
<1>15. \A p \in Proc :
         ~CloseResolved(p) /\ ~LoadExpired(p) /\ ~Take(p) /\ ~SettleResponse(p) /\ ~SettleExpiry(p)
  BY DEF Inv9, Answering, CloseResolved, LoadExpired, Take, SettleResponse, SettleExpiry
<1>16. \A p \in Proc : ~Snapshot(p) /\ ~Sweep(p) /\ ~Seize(p) /\ ~Tally(p)
  BY DEF Inv10, Cancelling, Snapshot, Sweep, Seize, Tally
<1> QED
  BY <1>3, <1>4, <1>5, <1>6, <1>7, <1>8, <1>9, <1>10, <1>11, <1>12, <1>13, <1>14, <1>15, <1>16
     DEF Next, Continue, Drive, Wake, FinalizeCancel

\* All that holds then.
UncontestedInv == UnansweredInv /\ Inv10

\* The levels together are an invariant.
LEMMA UncontestedInvHolds ==
    ASSUME Uncontested
    PROVE  Spec => []UncontestedInv
<1>1. Init => Inv10
  BY NoProcAssumption DEF Init, Idle, Inv10, Cancelling
<1>2. UnansweredInv /\ Inv10 /\ [Next]_vars => Inv10'
  BY NobodyContests DEF UnansweredInv
<1>3. Spec => []UnansweredInv
  BY UnansweredInvHolds DEF Uncontested
<1> QED
  BY <1>1, <1>2, <1>3, PTL DEF Spec, UncontestedInv

\* Who records takes the run on from where it is.
LEMMA TheOwnerRecords ==
    ASSUME UncontestedInv, NEW p \in Proc, Record(p)
    PROVE  status \in {"running", "waiting"} /\ call[p].write.step = current
<1>1. call[p].pc = "record" /\ claimedBy = p
  BY DEF Record, Refused, At
<1>2. status = "running" /\ Timely(call[p].write)
  BY <1>1 DEF UncontestedInv, UnansweredInv, Inv9, OwnerIsTimely, Inv10
<1> QED
  BY <1>2 DEF Timely, Fits

\* Crashes, lost leases and take-overs do not take a run off its walk, as long
\* as nobody answers its awaits or cancels it at one: a resumed drive goes on
\* where the trace ends, and of two drives of the run only one gets to record.
THEOREM TakeoversFollowTheWalk ==
    ASSUME Uncontested
    PROVE  Spec => IsALedger
<1>1. UncontestedInv /\ UncontestedInv' /\ [Next]_vars => [Ledger!Next]_(Ledger!vars)
  BY TheOwnerRecords, StepsOfTheLedger DEF UncontestedInv, UnansweredInv
<1>2. Spec => []UncontestedInv
  BY UncontestedInvHolds
<1> QED
  BY <1>1, <1>2, LedgerAtFirst, PTL DEF Spec, IsALedger, Ledger!Spec

-----------------------------------------------------------------------------
(* Graphs without loops                                                    *)

\* A rank of the steps that every transition raises: the graph has no loop.
Ascends(rank) == \A s \in Steps : \A t \in After(s) : rank[s] < rank[t]

\* The recorded steps lie before the one the run is at.
Climbing(rank) ==
    /\ status = "none" => log = {}
    /\ status \in {"running", "waiting"} => \A r \in log : rank[r.step] < rank[current]
    /\ \A q, r \in log : q.step = r.step => q = r

\* Recording the step the run is at keeps the run climbing.
LEMMA RunsClimb ==
    ASSUME NEW rank \in [Steps -> Nat], Ascends(rank),
           Inv1, Inv3, Inv5, Climbing(rank), [Next]_vars,
           \A p \in Proc : Record(p) =>
               status \in {"running", "waiting"} /\ call[p].write.step = current
    PROVE  Climbing(rank)'
<1>1. ASSUME NEW p \in Proc, StartRun(p)
      PROVE  Climbing(rank)'
  BY <1>1 DEF StartRun, Climbing
<1>2. ASSUME NEW p \in Proc, Park(p)
      PROVE  Climbing(rank)'
  <2>1. CASE claimedBy = p
    <3>1. call[p].pc = "park" /\ status' = "waiting" /\ current' = call[p].step /\ log' = log
      BY <1>2, <2>1 DEF Park, At
    <3>2. status = "running" /\ call[p].step = current
      BY <2>1, <3>1 DEF Inv3, Frontier, Driving
    <3> QED
      BY <3>1, <3>2 DEF Climbing
  <2>2. CASE claimedBy # p
    BY <1>2, <2>2 DEF Park, Climbing
  <2> QED
    BY <2>1, <2>2
<1>3. ASSUME NEW p \in Proc, Record(p)
      PROVE  Climbing(rank)'
  <2> DEFINE w == call[p].write
  <2>1. /\ call[p].pc = "record" /\ status' = w.status /\ current' = w.next
        /\ log' = log \cup {RowOf(p)} /\ RowOf(p).step = w.step
    BY <1>3 DEF Record, At, RowOf
  <2>2. /\ status \in {"running", "waiting"} /\ w.step = current
    BY <1>3
  <2>3. w.step \in Steps /\ w.status \in Statuses /\ Legal(w)
    BY <2>1, CallsAreGood DEF Inv5, Calls, Writes
  <2>4. \A r \in log : r.step \in Steps
    BY DEF Inv1, TypeOK, Rows
  <2>5. ASSUME status' = "running"
        PROVE  w.next \in Steps /\ rank[w.step] < rank[w.next]
    <3>1. w.next \in After(w.step)
      BY <2>1, <2>3, <2>5 DEF Legal
    <3>2. After(w.step) \subseteq Steps
      BY GraphAssumption DEF Validate, EndpointsResolve, After, Outgoing, Steps
    <3> QED
      BY <2>3, <3>1, <3>2 DEF Ascends
  <2> HIDE DEF w
  <2>6. \A r \in log : rank[r.step] < rank[w.step] /\ rank[r.step] \in Nat
    BY <2>2, <2>4 DEF Climbing
  <2>7. rank[w.step] \in Nat /\ (w.next \in Steps => rank[w.next] \in Nat)
    BY <2>3
  <2>8. status' = "running" => \A r \in log' : rank[r.step] < rank[w.next]
    BY <2>1, <2>5, <2>6, <2>7
  <2>9. \A q, r \in log' : q.step = r.step => q = r
    BY <2>1, <2>6 DEF Climbing
  <2>10. status' \notin {"none", "waiting"}
    BY <2>1, <2>3 DEF Legal, Statuses
  <2> QED
    BY <2>1, <2>8, <2>9, <2>10 DEF Climbing
<1>4. ASSUME NEW p \in Proc,
             \/ Count(p) \/ HonourCancel(p) \/ Enter(p)
             \/ EffectSettles(p) \/ EffectThrows(p) \/ NoHolder(p) \/ Open(p)
             \/ Recheck(p) \/ RecordRefused(p) \/ Finalize(p)
             \/ Respond(p) \/ CloseResolved(p) \/ Expire(p) \/ LoadExpired(p)
             \/ Take(p) \/ SettleResponse(p) \/ SettleExpiry(p) \/ Cancel(p) \/ Snapshot(p)
             \/ Sweep(p) \/ Seize(p) \/ Tally(p) \/ ClaimAndResume(p) \/ Resume(p) \/ Die(p)
      PROVE  UNCHANGED <<status, current, log>>
  BY <1>4 DEF Count, HonourCancel, Enter, EffectSettles, EffectThrows, NoHolder,
     Open, Recheck, RecordRefused, Finalize, Respond, CloseResolved, Expire, LoadExpired,
     Take, SettleResponse, SettleExpiry, Cancel, Snapshot, Sweep, Seize, Tally,
     ClaimAndResume, Resume, Die, table
<1>5. CASE GoStale \/ ClaimAndSkip \/ UNCHANGED vars
  BY <1>5 DEF GoStale, ClaimAndSkip, vars, table, Climbing
<1>6. UNCHANGED <<status, current, log>> => Climbing(rank)'
  BY DEF Climbing
<1> QED
  BY <1>1, <1>2, <1>3, <1>4, <1>5, <1>6 DEF Next, Continue, Drive, Wake, FinalizeCancel

\* No step of a graph without loops is decided twice, neither when nobody
\* answers (whatever crashes and stalls) nor when nobody cancels (and no take-
\* over meets a call that is alive).
THEOREM AStepIsDecidedOnce ==
    ASSUME Uncontested \/ (Quiet /\ "cancel" \notin Events),
           NEW rank \in [Steps -> Nat], Ascends(rank)
    PROVE  Spec => []DecidedOnce
<1>1. Init => Climbing(rank)
  BY DEF Init, Climbing
<1>2. Climbing(rank) => DecidedOnce
  BY DEF Climbing, DecidedOnce
<1>3. CASE Uncontested
  <2>1. UncontestedInv /\ [Next]_vars /\ Climbing(rank) => Climbing(rank)'
    BY RunsClimb, TheOwnerRecords DEF UncontestedInv, UnansweredInv
  <2> QED
    BY <1>1, <1>2, <1>3, <2>1, UncontestedInvHolds, PTL DEF Spec
<1>4. CASE Quiet /\ "cancel" \notin Events
  <2>1. SerialInv /\ [Next]_vars /\ Climbing(rank) => Climbing(rank)'
    BY <1>4, RunsClimb, WhoRecords DEF SerialInv, Inv8
  <2> QED
    BY <1>1, <1>2, <1>4, <2>1, SerialInvHolds, PTL DEF Spec
<1> QED
  BY <1>3, <1>4
=============================================================================
