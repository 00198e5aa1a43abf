------------------------ MODULE WebhookDeliveryProofs ------------------------
(***************************************************************************)
(* What holds of a webhook delivery for any number of hooks, ticks,        *)
(* attempts and deaths, and any Events.                                    *)
(*                                                                         *)
(* The induction is on IInv: a call that works on the delivery found it    *)
(* due and took that from it, so that the row is pending, out of reach of  *)
(* everybody else, and still at the attempts the call has counted.  That   *)
(* makes it the only one; that the row it settles was not settled before;  *)
(* and that its POST is the only one the ledger does not know of yet.      *)
(***************************************************************************)
EXTENDS WebhookDelivery, TLAPS

Calls == [pc : Pcs, attempts : 0..MaxAttempts, enabled : BOOLEAN]
Rows  == [status : {"none", "pending", "delivered", "exhausted"},
          attempts : 0..MaxAttempts, due : BOOLEAN]

\* Attempts are left as long as the delivery is pending, and none was made on a
\* row that is not there.
RowIsSound ==
    /\ row.status = "pending" => row.attempts < MaxAttempts
    /\ row.status = "none" => row.attempts = 0

\* Who works on the delivery has claimed it, and nobody moved it since.
ClaimIsHeld ==
    \A c \in Call : InFlight(c) =>
        row.status = "pending" /\ ~row.due /\ call[c].attempts = row.attempts

\* Every POST is counted in the row, or a crash lost the count, or the call that
\* made it is about to record it.
Posted(c) == call[c].pc \in {"success", "failure"}

PostsAreCounted ==
    /\ posts <= row.attempts + crashes + 1
    /\ (\A c \in Call : ~Posted(c)) => posts <= row.attempts + crashes

IInv == TypeOK /\ RowIsSound /\ ClaimIsHeld /\ OneAttemptAtATime /\ PostsAreCounted

-----------------------------------------------------------------------------
(* Steps of one call                                                       *)

Working(e) == e.pc \in {"get", "attempt", "send", "success", "failure", "exhaust"}

\* A call that stays where the row leaves it keeps the invariant: it goes on
\* with its claim or gives it up, and records the POST that it made.
LEMMA LocalStep ==
    ASSUME NEW c \in Call, NEW e \in Calls, IInv,
           call' = [call EXCEPT ![c] = e], UNCHANGED <<row, posts, crashes>>, TypeOK',
           Working(e) => InFlight(c) /\ e.attempts = call[c].attempts,
           Posted(c) => e.pc \in {"success", "failure"}
    PROVE  IInv'
<1>1. /\ call'[c] = e /\ \A d \in Call \ {c} : call'[d] = call[d]
      /\ \A d \in Call : InFlight(d)' => InFlight(d) /\ call'[d].attempts = call[d].attempts
      /\ \A d \in Call : Posted(d) => Posted(d)'
  BY DEF IInv, TypeOK, Calls, InFlight, Working, Posted
<1>2. RowIsSound' /\ ClaimIsHeld'
  BY <1>1 DEF IInv, RowIsSound, ClaimIsHeld
<1>3. OneAttemptAtATime'
  BY <1>1 DEF IInv, OneAttemptAtATime
<1>4. PostsAreCounted'
  BY <1>1 DEF IInv, PostsAreCounted
<1> QED
  BY <1>2, <1>3, <1>4 DEF IInv

\* A call that works on the delivery works on it alone, so nothing else is left
\* to respect when it moves the row and stops.
LEMMA SettlingStep ==
    ASSUME NEW c \in Call, IInv, InFlight(c), Stop(c), UNCHANGED <<posts, crashes>>, TypeOK',
           RowIsSound',
           row'.attempts = row.attempts + 1
    PROVE  IInv'
<1>1. call'[c] = Idle /\ \A d \in Call \ {c} : call'[d] = call[d]
  BY DEF Stop, IInv, TypeOK
<1>2. \A d \in Call : ~InFlight(d)' /\ ~Posted(d)'
  BY <1>1 DEF IInv, OneAttemptAtATime, InFlight, Posted, Idle
<1>3. row.attempts \in Nat /\ posts \in Nat /\ crashes \in Nat
  BY MaxAttemptsAssumption, MaxCrashesAssumption DEF IInv, TypeOK, MaxPosts
<1>4. PostsAreCounted'
  BY <1>2, <1>3 DEF IInv, PostsAreCounted
<1> QED
  BY <1>2, <1>4 DEF IInv, ClaimIsHeld, OneAttemptAtATime

-----------------------------------------------------------------------------
(* Types                                                                   *)

\* An idle call and a missing row are what the types allow.
LEMMA Blanks ==
    /\ Idle \in Calls /\ Idle.pc = "idle" /\ ~Working(Idle)
    /\ NoRow.status = "none" /\ NoRow.attempts = 0
    /\ NoRow \in Rows
BY MaxAttemptsAssumption DEF Idle, NoRow, Calls, Rows, Pcs, Working

\* One attempt more is within the type while attempts are left.
LEMMA AttemptFits ==
    ASSUME IInv, row.attempts < MaxAttempts, row'.attempts = row.attempts + 1,
           NEW status \in {"pending", "delivered", "exhausted"}, NEW due \in BOOLEAN,
           row' = [row EXCEPT !.attempts = @ + 1, !.status = status, !.due = due]
    PROVE  row' \in Rows
<1> DEFINE n == row.attempts + 1
<1>1. row \in Rows /\ row.attempts \in 0..MaxAttempts
  BY DEF IInv, TypeOK, Rows
<1>2. n \in 0..MaxAttempts
  BY <1>1, MaxAttemptsAssumption
<1>3. row' = [row EXCEPT !.attempts = n, !.status = status, !.due = due]
  BY <1>1 DEF Rows
<1> HIDE DEF n
<1> QED
  BY <1>1, <1>2, <1>3 DEF Rows

\* An attempt that settles the delivery, as a success or for good, counts itself.
LEMMA SettledKeeps ==
    ASSUME NEW c \in Call, IInv, InFlight(c), Stop(c),
           UNCHANGED <<run, hooks, enabled, covered, recent, posts, crashes>>,
           NEW status \in {"delivered", "exhausted"},
           row' = [row EXCEPT !.attempts = @ + 1, !.status = status]
    PROVE  IInv'
<1>1. row.attempts < MaxAttempts /\ row.attempts \in Nat
  BY DEF IInv, ClaimIsHeld, RowIsSound, TypeOK
<1>2. row'.attempts = row.attempts + 1 /\ row'.status = status
  BY DEF IInv, TypeOK
<1>3. row.due \in BOOLEAN /\ row' = [row EXCEPT !.attempts = @ + 1, !.status = status, !.due = row.due]
  BY DEF IInv, TypeOK
<1>4. row' \in Rows
  BY <1>1, <1>2, <1>3, AttemptFits
<1>5. TypeOK'
  BY <1>4, Blanks DEF Stop, IInv, TypeOK, Calls, Rows
<1>6. RowIsSound'
  BY <1>2 DEF RowIsSound
<1> QED
  BY <1>2, <1>5, <1>6, SettlingStep

\* The invariant holds at the start.
LEMMA InitIInv == Init => IInv
<1> SUFFICES ASSUME Init PROVE IInv
  OBVIOUS
<1>1. TypeOK
  BY Blanks, MaxAttemptsAssumption, MaxCrashesAssumption DEF Init, TypeOK, MaxPosts, Calls, Rows
<1>2. \A c \in Call : ~InFlight(c)
  BY DEF Init, InFlight, Idle
<1> QED
  BY <1>1, <1>2, Blanks, MaxAttemptsAssumption
     DEF Init, IInv, RowIsSound, ClaimIsHeld, OneAttemptAtATime, PostsAreCounted

-----------------------------------------------------------------------------
(* Each action keeps the invariant                                         *)

\* Hooks and ticks begin, and a hook finds its subscription: no claim is touched.
LEMMA BeginKeeps ==
    ASSUME NEW c \in Call, IInv, EndRun(c) \/ NotifyAgain(c) \/ List(c) \/ Tick(c)
    PROVE  IInv'
<1>1. call[c] \in Calls /\ ~Posted(c)
  BY DEF IInv, TypeOK, Calls, EndRun, NotifyAgain, List, Tick, At, Posted
<1>2. UNCHANGED <<row, posts, crashes>>
  BY DEF EndRun, NotifyAgain, List, Tick
<1>3. ASSUME NEW e \in Calls, ~Working(e), call' = [call EXCEPT ![c] = e]
      PROVE  IInv'
  <2>1. TypeOK'
    BY <1>2, <1>3, OutcomesAssumption DEF IInv, TypeOK, Calls, EndRun, NotifyAgain, List, Tick
  <2> QED
    BY <1>1, <1>2, <1>3, <2>1, LocalStep
<1>4. ASSUME NEW pc \in {"list", "restore", "claimDue"}, Goto(c, pc)
      PROVE  IInv'
  <2>1. [call[c] EXCEPT !.pc = pc] \in Calls /\ ~Working([call[c] EXCEPT !.pc = pc])
    BY <1>1 DEF Calls, Pcs, Working
  <2>2. call' = [call EXCEPT ![c] = [call[c] EXCEPT !.pc = pc]]
    BY <1>4 DEF Goto
  <2> QED BY <1>3, <2>1, <2>2
<1>5. CASE EndRun(c) \/ NotifyAgain(c) \/ Tick(c)
  BY <1>4, <1>5 DEF EndRun, NotifyAgain, Tick
<1>6. CASE List(c)
  <2> DEFINE e == [Idle EXCEPT !.pc = "create", !.enabled = TRUE]
  <2>1. e \in Calls /\ ~Working(e)
    BY Blanks DEF Calls, Pcs, Working
  <2>2. call' = [call EXCEPT ![c] = e] \/ call' = [call EXCEPT ![c] = Idle]
    BY <1>6 DEF List, Stop
  <2> HIDE DEF e
  <2> QED BY <1>3, <2>1, <2>2, Blanks
<1> QED
  BY <1>5, <1>6

\* A row is created when nobody can be working on it.
LEMMA CreateKeeps ==
    ASSUME NEW c \in Call, IInv, Create(c) \/ Restore(c)
    PROVE  IInv'
<1>1. PICK pc \in {"claimOne", "claimDue"} : Goto(c, pc)
  BY DEF Create, Restore
<1>2. /\ CreateDelivery /\ UNCHANGED <<run, hooks, enabled, covered, recent, posts, crashes>>
      /\ call[c] \in Calls /\ ~InFlight(c) /\ ~Posted(c)
  BY DEF IInv, TypeOK, Calls, Create, Restore, At, InFlight, Posted
<1> DEFINE e == [call[c] EXCEPT !.pc = pc]
<1>3. e \in Calls /\ ~Working(e)
  BY <1>2 DEF Calls, Pcs, Working
<1>4. call' = [call EXCEPT ![c] = e]
  BY <1>1 DEF Goto
<1> HIDE DEF e
<1>5. call'[c] = e /\ \A d \in Call \ {c} : call'[d] = call[d]
  BY <1>4 DEF IInv, TypeOK
<1>6. \A d \in Call : InFlight(d)' <=> InFlight(d)
  BY <1>2, <1>3, <1>5 DEF InFlight, Working
<1>7. \A d \in Call : Posted(d)' <=> Posted(d)
  BY <1>2, <1>3, <1>5 DEF Posted, Working
<1>8. row' = row \/ (row.status = "none" /\ row.attempts = 0
                     /\ row' = [status |-> "pending", attempts |-> 0, due |-> TRUE])
  BY <1>2 DEF CreateDelivery, IInv, RowIsSound
<1>9. TypeOK' /\ RowIsSound' /\ row'.attempts = row.attempts
  <2>1. row \in Rows /\ [status |-> "pending", attempts |-> 0, due |-> TRUE] \in Rows
    BY MaxAttemptsAssumption DEF IInv, TypeOK, Rows
  <2>2. TypeOK'
    BY <1>2, <1>3, <1>4, <1>8, <2>1 DEF IInv, TypeOK, Calls, Rows
  <2>3. RowIsSound' /\ row'.attempts = row.attempts
    BY <1>8, MaxAttemptsAssumption DEF IInv, RowIsSound
  <2> QED BY <2>2, <2>3
<1>10. ClaimIsHeld'
  BY <1>2, <1>5, <1>6, <1>8 DEF IInv, ClaimIsHeld, InFlight
<1>11. OneAttemptAtATime' /\ PostsAreCounted'
  BY <1>2, <1>6, <1>7, <1>9 DEF IInv, OneAttemptAtATime, PostsAreCounted
<1> QED
  BY <1>9, <1>10, <1>11 DEF IInv

\* Who claims the delivery found it due, so nobody was working on it.
LEMMA ClaimKeeps ==
    ASSUME NEW c \in Call, IInv, ClaimOne(c) \/ ClaimDue(c)
    PROVE  IInv'
<1>1. PICK then \in {"attempt", "get"} : \E from \in {"claimOne", "claimDue"} : Claim(c, from, then)
  BY DEF ClaimOne, ClaimDue
<1>2. /\ call[c] \in Calls /\ ~InFlight(c) /\ ~Posted(c)
      /\ UNCHANGED <<run, hooks, enabled, covered, recent, posts, crashes>>
  BY <1>1 DEF IInv, TypeOK, Calls, Claim, At, InFlight, Posted
<1>3. CASE ~Claimable
  <2>1. call' = [call EXCEPT ![c] = Idle] /\ UNCHANGED row
    BY <1>1, <1>3 DEF Claim, Stop
  <2>2. TypeOK'
    BY <1>2, <2>1, Blanks DEF IInv, TypeOK, Calls
  <2> QED
    BY <1>2, <2>1, <2>2, Blanks, LocalStep
<1>4. CASE Claimable
  <2> DEFINE e == [call[c] EXCEPT !.pc = then, !.attempts = row.attempts]
  <2>1. /\ row' = [row EXCEPT !.due = FALSE] /\ row.status = "pending" /\ row.due
        /\ call' = [call EXCEPT ![c].pc = then, ![c].attempts = row.attempts]
    BY <1>1, <1>4 DEF Claim, Claimable
  <2>2. e \in Calls /\ e.pc = then /\ e.attempts = row.attempts
    BY <1>2 DEF IInv, TypeOK, Calls, Pcs
  <2>3. call' = [call EXCEPT ![c] = e]
    BY <2>1 DEF IInv, TypeOK
  <2>4. row'.status = row.status /\ row'.attempts = row.attempts /\ ~row'.due
    BY <2>1 DEF IInv, TypeOK
  <2> HIDE DEF e
  <2>5. TypeOK' /\ RowIsSound'
    BY <1>2, <2>1, <2>2, <2>3, <2>4 DEF IInv, TypeOK, RowIsSound, Calls
  <2>6. call'[c] = e /\ \A d \in Call \ {c} : call'[d] = call[d]
    BY <2>3 DEF IInv, TypeOK
  <2>7. \A d \in Call : ~InFlight(d) /\ ~Posted(d)
    BY <2>1 DEF IInv, ClaimIsHeld, InFlight, Posted
  <2>8. ClaimIsHeld'
    BY <2>1, <2>2, <2>4, <2>6, <2>7 DEF ClaimIsHeld, InFlight
  <2>9. OneAttemptAtATime'
    BY <2>6, <2>7 DEF OneAttemptAtATime, InFlight
  <2>10. PostsAreCounted'
    BY <1>2, <2>2, <2>4, <2>6, <2>7 DEF IInv, PostsAreCounted, Posted
  <2> QED
    BY <2>5, <2>8, <2>9, <2>10 DEF IInv
<1> QED
  BY <1>3, <1>4

\* A call that goes on with its claim, and does not forget its POST.
LEMMA MoveKeeps ==
    ASSUME NEW c \in Call, IInv, InFlight(c), NEW pc \in {"send", "exhaust", "failure"},
           Goto(c, pc), UNCHANGED <<run, hooks, enabled, covered, recent, row, posts, crashes>>,
           Posted(c) => pc = "failure"
    PROVE  IInv'
<1> DEFINE e == [call[c] EXCEPT !.pc = pc]
<1>1. call[c] \in Calls
  BY DEF IInv, TypeOK, Calls
<1>2. e \in Calls /\ e.pc = pc /\ e.attempts = call[c].attempts
  BY <1>1 DEF Calls, Pcs
<1>3. call' = [call EXCEPT ![c] = e]
  BY DEF Goto
<1> HIDE DEF e
<1>4. TypeOK'
  BY <1>2, <1>3 DEF IInv, TypeOK, Calls
<1> QED
  BY <1>2, <1>3, <1>4, LocalStep

\* Reading the subscription moves only the call.
LEMMA GetKeeps ==
    ASSUME NEW c \in Call, IInv, Get(c)
    PROVE  IInv'
<1>1. InFlight(c) /\ ~Posted(c) /\ UNCHANGED <<run, hooks, enabled, covered, recent, row, posts, crashes>>
  BY DEF Get, At, InFlight, Posted
<1>2. CASE Goto(c, "exhaust")
  BY <1>1, <1>2, MoveKeeps
<1>3. CASE call' = [call EXCEPT ![c].pc = "attempt", ![c].enabled = enabled]
  <2> DEFINE e == [call[c] EXCEPT !.pc = "attempt", !.enabled = enabled]
  <2>1. call[c] \in Calls /\ enabled \in BOOLEAN
    BY DEF IInv, TypeOK, Calls
  <2>2. e \in Calls /\ e.pc = "attempt" /\ e.attempts = call[c].attempts
    BY <2>1 DEF Calls, Pcs
  <2>3. call' = [call EXCEPT ![c] = e]
    BY <1>3 DEF IInv, TypeOK
  <2> HIDE DEF e
  <2>4. TypeOK'
    BY <1>1, <2>2, <2>3 DEF IInv, TypeOK, Calls
  <2> QED BY <1>1, <2>2, <2>3, <2>4, LocalStep
<1> QED
  BY <1>2, <1>3 DEF Get

\* So does reading the secret.
LEMMA AttemptKeeps ==
    ASSUME NEW c \in Call, IInv, Attempt(c)
    PROVE  IInv'
<1>1. InFlight(c) /\ ~Posted(c) /\ UNCHANGED <<run, hooks, enabled, covered, recent, row, posts, crashes>>
  BY DEF Attempt, At, InFlight, Posted
<1> QED
  BY <1>1, MoveKeeps DEF Attempt

\* The POST is the one that PostsAreCounted allows for: the call is alone.
LEMMA SendKeeps ==
    ASSUME NEW c \in Call, IInv, Send(c)
    PROVE  IInv'
<1>1. PICK answer \in {"success", "failure"} : Goto(c, answer)
  BY DEF Send
<1> DEFINE e == [call[c] EXCEPT !.pc = answer]
<1>2. call[c] \in Calls /\ InFlight(c) /\ ~Posted(c)
  BY DEF IInv, TypeOK, Calls, Send, At, InFlight, Posted
<1>3. e \in Calls /\ e.pc = answer /\ e.attempts = call[c].attempts
  BY <1>2 DEF Calls, Pcs
<1>4. call' = [call EXCEPT ![c] = e]
  BY <1>1 DEF Goto
<1> HIDE DEF e
<1>5. /\ call'[c] = e /\ \A d \in Call \ {c} : call'[d] = call[d]
      /\ UNCHANGED <<run, hooks, enabled, covered, recent, row, crashes>>
  BY <1>4 DEF IInv, TypeOK, Send
<1>6. row.attempts \in Nat /\ crashes \in Nat /\ posts \in Nat /\ MaxPosts \in Nat
  BY MaxAttemptsAssumption, MaxCrashesAssumption DEF IInv, TypeOK, MaxPosts
<1>7. posts' \in 0..MaxPosts /\ posts' <= posts + 1
  BY <1>6 DEF IInv, TypeOK, Send
<1>8. TypeOK'
  BY <1>3, <1>4, <1>5, <1>7 DEF IInv, TypeOK, Calls
<1>9. \A d \in Call : InFlight(d)' => InFlight(d) /\ call'[d].attempts = call[d].attempts
  BY <1>2, <1>3, <1>5 DEF InFlight
<1>10. RowIsSound' /\ ClaimIsHeld' /\ OneAttemptAtATime'
  BY <1>5, <1>9 DEF IInv, RowIsSound, ClaimIsHeld, OneAttemptAtATime
<1>11. PostsAreCounted'
  <2>1. \A d \in Call : ~Posted(d)
    BY <1>2 DEF IInv, OneAttemptAtATime, InFlight, Posted
  <2>2. posts <= row.attempts + crashes
    BY <2>1 DEF IInv, PostsAreCounted
  <2>3. posts' <= row.attempts + crashes + 1
    BY <1>6, <1>7, <2>2
  <2>4. Posted(c)'
    BY <1>3, <1>5 DEF Posted
  <2> QED BY <1>5, <2>3, <2>4 DEF PostsAreCounted
<1> QED
  BY <1>8, <1>10, <1>11 DEF IInv

\* A success is recorded on the claimed row, or counts as a failure.
LEMMA RecordSuccessKeeps ==
    ASSUME NEW c \in Call, IInv, RecordSuccess(c)
    PROVE  IInv'
<1>1. InFlight(c) /\ UNCHANGED <<run, hooks, enabled, covered, recent, posts, crashes>>
  BY DEF RecordSuccess, At, InFlight
<1>2. CASE Goto(c, "failure") /\ UNCHANGED row
  BY <1>1, <1>2, MoveKeeps
<1>3. CASE row' = [row EXCEPT !.status = "delivered", !.attempts = @ + 1] /\ Stop(c)
  <2>1. row' = [row EXCEPT !.attempts = @ + 1, !.status = "delivered"]
    BY <1>3 DEF IInv, TypeOK
  <2> QED BY <1>1, <1>3, <2>1, SettledKeeps
<1> QED
  BY <1>2, <1>3 DEF RecordSuccess

\* A failure leaves an attempt, unless it was the last.
LEMMA RecordFailureKeeps ==
    ASSUME NEW c \in Call, IInv, RecordFailure(c)
    PROVE  IInv'
<1>1. InFlight(c) /\ Stop(c) /\ UNCHANGED <<run, hooks, enabled, covered, recent, posts, crashes>>
  BY DEF RecordFailure, At, InFlight
<1>2. /\ row.status = "pending" /\ row.attempts < MaxAttempts
      /\ call[c].attempts = row.attempts /\ row.attempts \in Nat
  BY <1>1 DEF IInv, ClaimIsHeld, RowIsSound, TypeOK
<1>3. row' = [row EXCEPT !.attempts = @ + 1,
                         !.status = IF LastAttempt(c) THEN "exhausted" ELSE "pending",
                         !.due = FALSE]
  BY DEF RecordFailure
<1>4. /\ row'.attempts = row.attempts + 1 /\ row'.status \in {"exhausted", "pending"}
      /\ row'.status = "pending" => row.attempts + 1 < MaxAttempts
  BY <1>2, <1>3, MaxAttemptsAssumption DEF LastAttempt, IInv, TypeOK
<1>5. row' \in Rows
  BY <1>2, <1>3, <1>4, AttemptFits
<1>6. TypeOK'
  BY <1>1, <1>5, Blanks DEF Stop, IInv, TypeOK, Calls, Rows
<1>7. RowIsSound'
  BY <1>4 DEF RowIsSound
<1> QED
  BY <1>1, <1>4, <1>6, <1>7, SettlingStep

\* Giving up settles the claimed row.
LEMMA ExhaustKeeps ==
    ASSUME NEW c \in Call, IInv, Exhaust(c)
    PROVE  IInv'
BY SettledKeeps DEF Exhaust, At, InFlight

\* Enabling and disabling a subscription touches no delivery.
LEMMA SetEnabledKeeps == ASSUME IInv, SetEnabled PROVE IInv'
<1>1. /\ UNCHANGED <<run, hooks, recent, row, posts, crashes, call>>
      /\ enabled' \in BOOLEAN /\ covered' \in BOOLEAN
  BY DEF SetEnabled, IInv, TypeOK
<1> QED
  BY <1>1 DEF IInv, TypeOK, RowIsSound, ClaimIsHeld, OneAttemptAtATime, PostsAreCounted,
              InFlight, Posted

\* The window passes by every delivery alike.
LEMMA WindowPassesKeeps == ASSUME IInv, WindowPasses PROVE IInv'
<1>1. UNCHANGED <<run, hooks, enabled, covered, row, posts, crashes, call>> /\ recent' \in BOOLEAN
  BY DEF WindowPasses
<1> QED
  BY <1>1 DEF IInv, TypeOK, RowIsSound, ClaimIsHeld, OneAttemptAtATime, PostsAreCounted,
              InFlight, Posted

\* A delivery becomes due when nobody works on it.
LEMMA BecomeDueKeeps == ASSUME IInv, BecomeDue PROVE IInv'
<1>1. /\ UNCHANGED <<run, hooks, enabled, covered, recent, posts, crashes, call>>
      /\ \A c \in Call : ~InFlight(c)
      /\ row' = [row EXCEPT !.due = TRUE]
  BY DEF BecomeDue
<1>2. row'.status = row.status /\ row'.attempts = row.attempts /\ TypeOK'
  BY <1>1 DEF IInv, TypeOK
<1>3. \A c \in Call : (InFlight(c)' <=> InFlight(c)) /\ (Posted(c)' <=> Posted(c))
  BY <1>1 DEF InFlight, Posted
<1> QED
  BY <1>1, <1>2, <1>3 DEF IInv, RowIsSound, ClaimIsHeld, OneAttemptAtATime, PostsAreCounted

\* The POST of a call that dies is one that the crashes account for.
LEMMA DieKeeps ==
    ASSUME NEW c \in Call, IInv, Die(c)
    PROVE  IInv'
<1>1. /\ call' = [call EXCEPT ![c] = Idle] /\ UNCHANGED <<run, hooks, enabled, covered, recent, row, posts>>
      /\ crashes' = crashes + 1 /\ crashes < MaxCrashes
  BY DEF Die, Stop
<1>2. TypeOK'
  BY <1>1, Blanks, MaxCrashesAssumption DEF IInv, TypeOK, Calls
<1>3. call'[c] = Idle /\ \A d \in Call \ {c} : call'[d] = call[d]
  BY <1>1 DEF IInv, TypeOK
<1>4. \A d \in Call : InFlight(d)' => InFlight(d) /\ call'[d] = call[d]
  BY <1>3, Blanks DEF InFlight
<1>5. RowIsSound' /\ ClaimIsHeld' /\ OneAttemptAtATime'
  BY <1>1, <1>4 DEF IInv, RowIsSound, ClaimIsHeld, OneAttemptAtATime
<1>6. posts <= row.attempts + crashes + 1 /\ row.attempts \in Nat /\ crashes \in Nat /\ posts \in Nat
  BY MaxAttemptsAssumption, MaxCrashesAssumption DEF IInv, PostsAreCounted, TypeOK, MaxPosts
<1>7. PostsAreCounted'
  BY <1>1, <1>6 DEF PostsAreCounted
<1> QED
  BY <1>2, <1>5, <1>7 DEF IInv

\* Every step keeps the invariant.
LEMMA NextKeeps == IInv /\ [Next]_vars => IInv'
<1> SUFFICES ASSUME IInv, [Next]_vars PROVE IInv'
  OBVIOUS
<1>1. ASSUME NEW c \in Call, EndRun(c) \/ NotifyAgain(c) \/ Tick(c) \/ Continue(c) \/ Die(c)
      PROVE  IInv'
  BY <1>1, BeginKeeps, CreateKeeps, ClaimKeeps, GetKeeps, AttemptKeeps, SendKeeps,
     RecordSuccessKeeps, RecordFailureKeeps, ExhaustKeeps, DieKeeps DEF Continue
<1>2. CASE SetEnabled \/ WindowPasses \/ BecomeDue
  BY <1>2, SetEnabledKeeps, WindowPassesKeeps, BecomeDueKeeps
<1>3. CASE UNCHANGED vars
  BY <1>3 DEF vars, IInv, TypeOK, RowIsSound, ClaimIsHeld, OneAttemptAtATime, PostsAreCounted,
              InFlight, Posted
<1> QED
  BY <1>1, <1>2, <1>3 DEF Next

\* The inductive invariant holds of every reachable state.
LEMMA Invariant == Spec => []IInv
BY InitIInv, NextKeeps, PTL DEF Spec

-----------------------------------------------------------------------------
(* The theorems                                                            *)

\* The ledger's columns and the locals of the calls are what the code puts there.
THEOREM TypeCorrect == Spec => []TypeOK
<1>1. IInv => TypeOK
  BY DEF IInv
<1> QED
  BY <1>1, Invariant, PTL

\* However many hooks and ticks of however many replicas there are, one of them
\* at a time attempts the delivery (claimOne and claimDue of the store).
THEOREM AttemptsAreSerial == Spec => []OneAttemptAtATime
<1>1. IInv => OneAttemptAtATime
  BY DEF IInv
<1> QED
  BY <1>1, Invariant, PTL

\* The subscriber is called at most maxAttempts times and once more per call that
\* died, though attempts are counted at the claim and written after the POST.
THEOREM CalledAtMostMaxAttempts == Spec => []PostsBounded
<1>1. IInv => PostsBounded
  <2> SUFFICES ASSUME IInv PROVE posts <= MaxAttempts + crashes
    BY DEF PostsBounded
  <2>1. row.attempts \in 0..MaxAttempts /\ crashes \in Nat /\ posts \in Nat
    BY MaxAttemptsAssumption, MaxCrashesAssumption DEF IInv, TypeOK, MaxPosts
  <2>2. CASE \A c \in Call : ~Posted(c)
    BY <2>1, <2>2, MaxAttemptsAssumption DEF IInv, PostsAreCounted
  <2>3. CASE \E c \in Call : Posted(c)
    <3>1. row.attempts < MaxAttempts
      BY <2>3 DEF IInv, ClaimIsHeld, RowIsSound, Posted, InFlight
    <3> QED BY <2>1, <3>1, MaxAttemptsAssumption DEF IInv, PostsAreCounted
  <2> QED BY <2>2, <2>3
<1> QED
  BY <1>1, Invariant, PTL

\* A delivery that was delivered or given up is never written again, although
\* none of the ledger's updates looks at its status: only a call that claimed
\* it writes, and nobody claims a settled one.
THEOREM SettledStays == Spec => SettledIsFinal
<1>1. IInv /\ [Next]_vars =>
        [row.status \in {"delivered", "exhausted"} => row' = row]_vars
  <2> SUFFICES ASSUME IInv, Next, row.status \in {"delivered", "exhausted"}
               PROVE  row' = row
    BY DEF vars
  <2>1. \A c \in Call : ~InFlight(c)
    BY DEF IInv, ClaimIsHeld
  <2>2. ASSUME NEW c \in Call, EndRun(c) \/ NotifyAgain(c) \/ Tick(c) \/ Continue(c) \/ Die(c)
        PROVE  row' = row
    <3>1. ~(Send(c) \/ RecordSuccess(c) \/ RecordFailure(c) \/ Exhaust(c))
      BY <2>1 DEF InFlight, Send, RecordSuccess, RecordFailure, Exhaust, At
    <3>2. ~Claimable
      BY DEF Claimable
    <3>3. CASE ClaimOne(c) \/ ClaimDue(c)
      BY <3>2, <3>3 DEF ClaimOne, ClaimDue, Claim
    <3>4. CASE Create(c) \/ Restore(c)
      BY <3>4 DEF Create, Restore, CreateDelivery
    <3>5. CASE EndRun(c) \/ NotifyAgain(c) \/ Tick(c) \/ Die(c) \/ List(c) \/ Get(c) \/ Attempt(c)
      BY <3>5 DEF EndRun, NotifyAgain, Tick, Die, List, Get, Attempt
    <3> QED BY <2>2, <3>1, <3>3, <3>4, <3>5 DEF Continue
  <2>3. CASE SetEnabled \/ WindowPasses \/ BecomeDue
    BY <2>3 DEF SetEnabled, WindowPasses, BecomeDue
  <2> QED
    BY <2>2, <2>3 DEF Next
<1> QED
  BY <1>1, Invariant, PTL DEF Spec, SettledIsFinal
=============================================================================
