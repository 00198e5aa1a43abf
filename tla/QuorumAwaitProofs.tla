-------------------------- MODULE QuorumAwaitProofs --------------------------
(***************************************************************************)
(* What holds of a human await for any number of persons, of sources and   *)
(* of responses in flight, and any Events.                                 *)
(*                                                                         *)
(* The induction is on IInv.  A lookup under way still brackets the truth: *)
(* whom a source listed throughout is listed by it now, and whoever holds  *)
(* the role now was seen to hold it at some moment.  Hence a source that   *)
(* answers adds those it listed throughout and nobody who never held the   *)
(* role, and that stays so when holders move afterwards.  A response that  *)
(* was let in carries such a lookup; one on its way to close with quorum   *)
(* "all" carries a decision that is already right.  While nothing moves,   *)
(* what a response saw is still so, hence the last of the answers finds    *)
(* the others: an await in which everything is answered has a response     *)
(* that is about to close it.                                              *)
(***************************************************************************)
EXTENDS QuorumAwait, FiniteSetTheorems, TLAPS

\* The states of a response: at the gate; let in; on its way to close with the
\* decision of a full quorum.
Asking  == [pc : {"lookup"}, who : Person, answer : Answers, lookup : Lookups]
LetIn   == [pc : {"record", "list", "close"}, who : Person, answer : Answers, lookup : Lookups]
Closing == [pc : {"close"}, who : Person, decision : Decided]

\* DecidedByTheHolders of one decision.
RightlyDecided(d) ==
    /\ Voters(d) \subseteq d.lookup.ever
    /\ IF step.quorum = "all" THEN Steady(d.lookup) \subseteq Voters(d) ELSE Voters(d) # {}
    /\ d.approved <=> \A w \in Voters(d) : Approves(d.counted[w])

\* What a lookup under way has found, and what its history says of the holders h
\* there are now.
Seeing(h, l) ==
    /\ l \in Lookups
    /\ l.holders \subseteq l.ever
    /\ ~l.partial => \A s \in Source \ l.left : l.steady[s] \subseteq l.holders
    /\ \A s \in Source : l.steady[s] \subseteq h[s] /\ h[s] \subseteq l.ever

\* What is left of it when all sources have answered.
Saw(l) ==
    /\ l \in Lookups
    /\ l.holders \subseteq l.ever
    /\ ~l.partial => Steady(l) \subseteq l.holders

\* A lookup found exactly what the sources that answered list in h.
Current(h, l) == ~l.partial /\ l.holders = UNION {h[s] : s \in Source \ l.left}

\* A response that was let in is of one it saw as a holder.
SawHolder(e) == Saw(e.lookup) /\ e.who \in e.lookup.holders

Sound(e) ==
    \/ e = Idle
    \/ e \in Asking /\ Seeing(holds, e.lookup)
    \/ e \in LetIn /\ SawHolder(e) /\ e.pc = "record"
    \/ e \in LetIn /\ SawHolder(e) /\ e.pc = "list" /\ step.quorum = "all"
    \/ e \in LetIn /\ SawHolder(e) /\ e.pc = "close" /\ step.quorum = "any"
    \/ e \in Closing /\ RightlyDecided(e.decision) /\ step.quorum = "all"

VarsOK ==
    /\ step \in [quorum : {"any", "all"}, strict : BOOLEAN]
    /\ calm \in BOOLEAN
    /\ holds \in [Source -> SUBSET Person]
    /\ moves \in 0..MaxMoves
    /\ await \in {"none", "skipped", "waiting", "resolved", "timed_out"}
    /\ rows \in Rows
    /\ call = [c \in Call |-> call[c]]

\* The step is opened or skipped by what its lookup saw.
OpeningOK ==
    /\ opening \in Lookups \cup {Idle}
    /\ await = "none" => Seeing(holds, opening)
    /\ NotSkippedWhileHeld

\* The engine is fed once, when the await closes, and rightly.
DecisionOK ==
    /\ await # "resolved" => decision = {}
    /\ await = "resolved" => \E d \in decision : decision = {d} /\ d \in Decided /\ RightlyDecided(d)

CallsSound == \A c \in Call : Sound(call[c])

\* Responses come to an open await.
NoneBeforeOpen == await = "none" => \A c \in Call : call[c] = Idle
NoRowsBeforeOpen == await = "none" => \A w \in Person : rows[w] = "none"

\* While nothing moves, what a response sees at the gate is still so.
SawIsCurrent ==
    await = "waiting" /\ calm =>
        \A c \in Call :
            /\ call[c].pc = "lookup" => Current(holds, call[c].lookup)
            /\ call[c].pc \in {"record", "list"} =>
                   call[c].lookup.holders = AllHolders /\ ~call[c].lookup.partial

\* Who answered last is on the way to close.
SomebodyCloses ==
    await = "waiting" =>
        /\ step.quorum = "any" /\ (\E w \in Person : rows[w] # "none") =>
               \E c \in Call : call[c].pc = "close"
        /\ step.quorum = "all" /\ calm /\ AllHolders # {}
              /\ (\A w \in AllHolders : rows[w] # "none") =>
               \E c \in Call : call[c].pc \in {"list", "close"}

IInv ==
    /\ VarsOK /\ OpeningOK /\ DecisionOK /\ CallsSound /\ NoneBeforeOpen /\ NoRowsBeforeOpen
    /\ SawIsCurrent /\ SomebodyCloses

-----------------------------------------------------------------------------
(* Lookups                                                                 *)

\* Those who hold the role are persons.
LEMMA HoldersArePersons ==
    ASSUME VarsOK
    PROVE  AllHolders \subseteq Person /\ \A s \in Source : holds[s] \subseteq AllHolders
BY DEF VarsOK, AllHolders

\* A lookup that begins has listed, and missed, nobody.
LEMMA AskedSees == ASSUME VarsOK PROVE Seeing(holds, Asked) /\ Current(holds, Asked)
<1>1. /\ Asked.left = Source /\ Asked.holders = {} /\ Asked.partial = FALSE
      /\ Asked.steady = holds /\ Asked.ever = AllHolders
  BY DEF Asked
<1>2. Asked \in Lookups
  BY HoldersArePersons DEF Asked, Lookups, VarsOK
<1> QED
  BY <1>1, <1>2, HoldersArePersons DEF Seeing, Current

\* A source that answers adds those it listed throughout.
LEMMA AnsweredSees ==
    ASSUME VarsOK, NEW l, Seeing(holds, l), NEW s \in l.left, NEW up \in BOOLEAN
    PROVE  /\ Seeing(holds, Answered(l, s, up))
           /\ Answered(l, s, up).steady = l.steady
           /\ up /\ Current(holds, l) => Current(holds, Answered(l, s, up))
<1> DEFINE k == Answered(l, s, up)
<1>1. /\ l \in Lookups /\ s \in Source
      /\ \A z \in Source : holds[z] \subseteq Person
  BY DEF Seeing, Lookups, VarsOK
<1>2. /\ k.left = l.left \ {s} /\ k.partial = (l.partial \/ ~up)
      /\ k.holders = IF up THEN l.holders \cup holds[s] ELSE l.holders
      /\ k.steady = l.steady /\ k.always = l.always /\ k.ever = l.ever
      /\ k \in [left : {k.left}, holders : {k.holders}, partial : {k.partial},
                steady : {k.steady}, always : {k.always}, ever : {k.ever}]
  BY <1>1 DEF Answered, Lookups
<1>3. k \in Lookups
  BY <1>1, <1>2 DEF Lookups
<1> HIDE DEF k
<1>4. Seeing(holds, k)
  BY <1>1, <1>2, <1>3 DEF Seeing
<1>5. up /\ Current(holds, l) => Current(holds, k)
  BY <1>1, <1>2 DEF Current
<1> QED
  BY <1>2, <1>4, <1>5 DEF k

\* When all have answered, those listed throughout were found, unless one was down.
LEMMA SawAll ==
    ASSUME NEW l, Seeing(holds, l), l.left = {}
    PROVE  Saw(l) /\ (Current(holds, l) => l.holders = AllHolders /\ ~l.partial)
BY DEF Seeing, Saw, Steady, Current, AllHolders

\* Who moves is no longer listed throughout, and held the role at some moment.
LEMMA WatchedSees ==
    ASSUME VarsOK, NEW l, Seeing(holds, l), NEW s \in Source, NEW w \in Person, NEW h,
           h = [holds EXCEPT ![s] = IF w \in @ THEN @ \ {w} ELSE @ \cup {w}]
    PROVE  Seeing(h, Watched(l, s, w))
<1> DEFINE k == Watched(l, s, w)
<1>1. /\ l \in Lookups
      /\ \A z \in Source : h[z] = IF z # s THEN holds[z]
                                  ELSE IF w \in holds[s] THEN holds[s] \ {w} ELSE holds[s] \cup {w}
  BY DEF Seeing, VarsOK
<1>2. /\ k.left = l.left /\ k.partial = l.partial /\ k.holders = l.holders
      /\ k.steady = [l.steady EXCEPT ![s] = @ \ {w}]
      /\ k.always \in {l.always, l.always \ {w}} /\ k.ever = l.ever \cup {w}
      /\ k \in [left : {k.left}, holders : {k.holders}, partial : {k.partial},
                steady : {k.steady}, always : {k.always}, ever : {k.ever}]
  BY <1>1 DEF Watched, Lookups
<1>3. \A z \in Source : k.steady[z] = IF z = s THEN l.steady[s] \ {w} ELSE l.steady[z]
  BY <1>1, <1>2 DEF Lookups
<1>4. k.steady \in [Source -> SUBSET Person]
  BY <1>1, <1>2, <1>3 DEF Lookups
<1>5. k \in Lookups
  BY <1>1, <1>2, <1>4 DEF Lookups
<1> HIDE DEF k
<1>6. /\ k.holders \subseteq k.ever
      /\ ~k.partial => \A z \in Source \ k.left : k.steady[z] \subseteq k.holders
  BY <1>2, <1>3 DEF Seeing
<1>7. \A z \in Source : k.steady[z] \subseteq h[z] /\ h[z] \subseteq k.ever
  BY <1>1, <1>2, <1>3 DEF Seeing
<1> QED
  BY <1>5, <1>6, <1>7 DEF Seeing, k

-----------------------------------------------------------------------------
(* The decision                                                            *)

\* The one answer of a holder decides rightly with quorum "any".
LEMMA AnyDecides ==
    ASSUME VarsOK, NEW c \in Call, call[c] \in LetIn, SawHolder(call[c]), step.quorum = "any"
    PROVE  /\ DecisionOn(c, Counted(c, {})) \in Decided
           /\ RightlyDecided(DecisionOn(c, Counted(c, {})))
<1> DEFINE n == Counted(c, {})
           d == DecisionOn(c, n)
<1>1. n = [w \in Person |-> IF w = call[c].who THEN call[c].answer ELSE "none"]
  BY DEF Counted
<1>2. /\ call[c].who \in Person /\ call[c].answer \in Answers
      /\ call[c].lookup \in Lookups /\ call[c].who \in call[c].lookup.ever
  BY DEF LetIn, SawHolder, Saw
<1>3. n \in Rows /\ \A w \in Person : n[w] # "none" <=> w = call[c].who
  BY <1>1, <1>2 DEF Rows, Answers
<1> HIDE DEF n
<1>4. /\ d.counted = n /\ d.lookup = call[c].lookup
      /\ d.approved = (\A w \in Person : n[w] # "none" => Approves(n[w]))
  BY DEF DecisionOn
<1>5. d \in Decided
  BY <1>2, <1>3 DEF DecisionOn, Decided
<1>6. Voters(d) = {call[c].who}
  BY <1>2, <1>3, <1>4 DEF Voters
<1>7. d.approved <=> \A w \in Voters(d) : Approves(d.counted[w])
  BY <1>4 DEF Voters
<1>8. RightlyDecided(d)
  BY <1>2, <1>4, <1>6, <1>7 DEF RightlyDecided
<1> QED
  BY <1>5, <1>8 DEF n

\* So do the answers of all that are required with quorum "all".
LEMMA AllDecide ==
    ASSUME VarsOK, NEW c \in Call, call[c] \in LetIn, SawHolder(call[c]), step.quorum = "all",
           Complete(c)
    PROVE  /\ DecisionOn(c, Counted(c, call[c].lookup.holders)) \in Decided
           /\ RightlyDecided(DecisionOn(c, Counted(c, call[c].lookup.holders)))
<1> DEFINE l == call[c].lookup
           n == Counted(c, l.holders)
           d == DecisionOn(c, n)
<1>1. n = [w \in Person |-> IF w \in l.holders THEN rows[w] ELSE "none"]
  BY DEF Counted
<1>2. /\ l \in Lookups /\ l.holders \subseteq Person /\ l.holders \subseteq l.ever
      /\ Steady(l) \subseteq l.holders
      /\ \A w \in l.holders : rows[w] # "none"
  BY DEF LetIn, SawHolder, Saw, Complete, Responded, Lookups
<1>3. n \in Rows /\ \A w \in Person : n[w] # "none" <=> w \in l.holders
  BY <1>1, <1>2 DEF VarsOK, Rows
<1> HIDE DEF n
<1>4. /\ d.counted = n /\ d.lookup = l
      /\ d.approved = (\A w \in Person : n[w] # "none" => Approves(n[w]))
  BY DEF DecisionOn
<1>5. d \in Decided
  BY <1>2, <1>3 DEF DecisionOn, Decided
<1>6. Voters(d) = l.holders
  BY <1>2, <1>3, <1>4 DEF Voters
<1>7. d.approved <=> \A w \in Voters(d) : Approves(d.counted[w])
  BY <1>4 DEF Voters
<1> HIDE DEF l
<1>8. RightlyDecided(d)
  BY <1>2, <1>4, <1>6, <1>7 DEF RightlyDecided
<1> QED
  BY <1>5, <1>8 DEF n, l

-----------------------------------------------------------------------------
(* Steps of one response                                                   *)

\* Soundness of a response is about itself, the holders, and the step it answers to.
LEMMA SoundStays ==
    ASSUME UNCHANGED <<step, holds>>, NEW c \in Call, NEW e, call'[c] = e, Sound(e)
    PROVE  Sound(call[c])'
<1>1. ASSUME NEW d PROVE RightlyDecided(d)' <=> RightlyDecided(d)
  BY DEF RightlyDecided, Voters, Approves
<1> QED
  BY <1>1 DEF Sound, SawHolder, RightlyDecided, Voters, Approves

\* A step of one response leaves the others as they are, and sound.
LEMMA OthersStay ==
    ASSUME IInv, UNCHANGED <<step, holds>>, NEW c \in Call, NEW e,
           call' = [call EXCEPT ![c] = e], Sound(e)
    PROVE  /\ call'[c] = e /\ \A d \in Call \ {c} : call'[d] = call[d]
           /\ call' = [d \in Call |-> call'[d]]
           /\ CallsSound'
<1>1. /\ call'[c] = e /\ \A d \in Call \ {c} : call'[d] = call[d]
      /\ call' = [d \in Call |-> call'[d]]
  BY DEF IInv, VarsOK
<1>2. ASSUME NEW d \in Call PROVE Sound(call[d])'
  BY <1>1, SoundStays DEF IInv, CallsSound
<1> QED
  BY <1>1, <1>2 DEF CallsSound

\* What the await was fed stays right.
LEMMA DecisionStays ==
    ASSUME IInv, UNCHANGED <<step, decision>>, await' = "resolved" <=> await = "resolved"
    PROVE  DecisionOK'
<1>1. ASSUME NEW d PROVE RightlyDecided(d)' <=> RightlyDecided(d)
  BY DEF RightlyDecided, Voters, Approves
<1> QED
  BY <1>1 DEF IInv, DecisionOK

\* What opened the step, or skipped it, stays as it is once that is done.
LEMMA OpeningStays ==
    ASSUME IInv, UNCHANGED <<holds, opening>>,
           await' = await \/ await' \notin {"none", "skipped"}
    PROVE  OpeningOK'
BY DEF IInv, OpeningOK, NotSkippedWhileHeld

-----------------------------------------------------------------------------
(* Each action keeps the invariant                                         *)

\* The invariant holds at the start.
LEMMA InitIInv == Init => IInv
<1> SUFFICES ASSUME Init PROVE IInv
  OBVIOUS
<1>1. VarsOK
  BY MovesAssumption DEF Init, VarsOK, Rows
<1>2. \A c \in Call : call[c] = Idle
  BY DEF Init
<1>3. CallsSound /\ DecisionOK
  BY <1>2 DEF Init, CallsSound, Sound, DecisionOK
<1>4. OpeningOK
  BY <1>1, AskedSees DEF Init, OpeningOK, NotSkippedWhileHeld, Seeing
<1> QED
  BY <1>1, <1>2, <1>3, <1>4
     DEF Init, IInv, NoneBeforeOpen, NoRowsBeforeOpen, SawIsCurrent, SomebodyCloses

\* Nobody has answered an await that opens, and nobody stayed in a role for
\* which it is skipped.
LEMMA OpenKeeps == ASSUME IInv, NEW s \in Source, Open(s) PROVE IInv'
<1>1. /\ await = "none" /\ s \in opening.left
      /\ UNCHANGED <<step, holds, rows, decision, moves, calm, call>>
      /\ \A c \in Call : call[c] = Idle
      /\ \A w \in Person : rows[w] = "none"
  BY DEF Open, IInv, NoneBeforeOpen, NoRowsBeforeOpen
<1>2. PICK up \in BOOLEAN :
          LET l == Answered(opening, s, up) IN
          /\ opening' = IF l.left = {} /\ ~NobodyHolds(l) THEN Idle ELSE l
          /\ await' = IF l.left # {} THEN "none"
                      ELSE IF NobodyHolds(l) THEN "skipped" ELSE "waiting"
  BY DEF Open, Up
<1> DEFINE l == Answered(opening, s, up)
<1>3. Seeing(holds, l) /\ (l.left = {} => Saw(l))
  BY <1>1, AnsweredSees, SawAll DEF IInv, OpeningOK
<1>4. /\ opening' = IF l.left = {} /\ ~NobodyHolds(l) THEN Idle ELSE l
      /\ await' = IF l.left # {} THEN "none"
                  ELSE IF NobodyHolds(l) THEN "skipped" ELSE "waiting"
  BY <1>2
<1> HIDE DEF l
<1>5. OpeningOK'
  <2>1. opening' \in Lookups \cup {Idle}
    BY <1>3, <1>4 DEF Seeing
  <2>2. await' = "none" => Seeing(holds, opening)'
    BY <1>1, <1>3, <1>4
  <2>3. ASSUME await' = "skipped" PROVE Steady(l) = {} /\ opening' = l
    BY <1>3, <1>4, <2>3 DEF Saw, NobodyHolds
  <2>4. NotSkippedWhileHeld'
    BY <2>3 DEF NotSkippedWhileHeld, Steady
  <2> QED BY <2>1, <2>2, <2>4 DEF OpeningOK
<1>6. await' \in {"none", "skipped", "waiting"}
  BY <1>4
<1>7. VarsOK'
  BY <1>1, <1>6 DEF IInv, VarsOK
<1>8. DecisionOK'
  BY <1>1, <1>6, DecisionStays
<1>9. CallsSound' /\ SawIsCurrent'
  BY <1>1 DEF CallsSound, Sound, SawIsCurrent, Idle
<1>10. AllHolders \subseteq Person /\ AllHolders' = AllHolders
  BY <1>1, HoldersArePersons DEF IInv, AllHolders
<1>11. SomebodyCloses'
  BY <1>1, <1>10 DEF SomebodyCloses
<1> QED
  BY <1>1, <1>5, <1>7, <1>8, <1>9, <1>11 DEF IInv, NoneBeforeOpen, NoRowsBeforeOpen

\* A response that arrives has seen nothing yet.
LEMMA RespondKeeps ==
    ASSUME IInv, NEW c \in Call, NEW w \in Person, NEW answer \in Answers, Respond(c, w, answer)
    PROVE  IInv'
<1> DEFINE e == [pc |-> "lookup", who |-> w, answer |-> answer, lookup |-> Asked]
<1>1. /\ await = "waiting" /\ call[c].pc = "idle"
      /\ call' = [call EXCEPT ![c] = e]
      /\ UNCHANGED <<step, holds, await, rows, decision, opening, moves, calm>>
  BY DEF Respond
<1>2. Seeing(holds, Asked) /\ Current(holds, Asked)
  BY AskedSees DEF IInv
<1>3. e \in Asking /\ e.pc = "lookup" /\ e.lookup = Asked
  BY <1>2 DEF Asking, Seeing
<1> HIDE DEF e
<1>4. Sound(e)
  BY <1>2, <1>3 DEF Sound
<1>5. /\ call'[c] = e /\ \A d \in Call \ {c} : call'[d] = call[d]
      /\ call' = [d \in Call |-> call'[d]] /\ CallsSound'
  BY <1>1, <1>4, OthersStay
<1>6. VarsOK' /\ DecisionOK' /\ OpeningOK' /\ AllHolders' = AllHolders
  BY <1>1, <1>5, DecisionStays, OpeningStays DEF IInv, VarsOK, AllHolders
<1>7. SawIsCurrent'
  <2> SUFFICES ASSUME await' = "waiting", calm', NEW d \in Call
               PROVE  /\ call'[d].pc = "lookup" => Current(holds', call'[d].lookup)
                      /\ call'[d].pc \in {"record", "list"} =>
                             call'[d].lookup.holders = AllHolders' /\ ~call'[d].lookup.partial
    BY DEF SawIsCurrent
  <2>1. CASE d = c
    BY <1>1, <1>2, <1>3, <1>5, <2>1
  <2>2. CASE d # c
    BY <1>1, <1>5, <1>6, <2>2 DEF IInv, SawIsCurrent
  <2> QED BY <2>1, <2>2
<1>8. SomebodyCloses'
  BY <1>1, <1>5, <1>6 DEF IInv, SomebodyCloses
<1> QED
  BY <1>1, <1>5, <1>6, <1>7, <1>8 DEF IInv, NoneBeforeOpen, NoRowsBeforeOpen

\* The gate lets in who was seen as a holder, with what the lookup saw.
LEMMA LookUpKeeps == ASSUME IInv, NEW c \in Call, NEW s \in Source, LookUpHolders(c, s) PROVE IInv'
<1>1. PICK up \in BOOLEAN :
          LET l == Answered(call[c].lookup, s, up) IN
          /\ call' = [call EXCEPT ![c] =
                 IF l.left # {} THEN [@ EXCEPT !.lookup = l]
                 ELSE IF Heard(c, l) THEN [@ EXCEPT !.pc = "record", !.lookup = l]
                 ELSE Idle]
          /\ calm' = (calm /\ up)
  BY DEF LookUpHolders, Up
<1>2. /\ call[c].pc = "lookup" /\ s \in call[c].lookup.left
      /\ UNCHANGED <<step, holds, await, rows, decision, opening, moves>>
      /\ AllHolders' = AllHolders
  BY DEF LookUpHolders, AllHolders
<1> DEFINE l == Answered(call[c].lookup, s, up)
           asking == [call[c] EXCEPT !.lookup = l]
           letIn == [call[c] EXCEPT !.pc = "record", !.lookup = l]
<1>3. call[c] \in Asking /\ Seeing(holds, call[c].lookup)
  BY <1>2 DEF IInv, CallsSound, Sound, Asking, LetIn, Closing, Idle
<1>4. /\ Seeing(holds, l) /\ l \in Lookups
      /\ up /\ Current(holds, call[c].lookup) => Current(holds, l)
  BY <1>2, <1>3, AnsweredSees DEF IInv, Seeing
<1>5. /\ call' = [call EXCEPT ![c] =
             IF l.left # {} THEN asking ELSE IF Heard(c, l) THEN letIn ELSE Idle]
      /\ calm' = (calm /\ up)
  BY <1>1
<1> HIDE DEF l
<1>6. asking \in Asking /\ asking.pc = "lookup" /\ asking.lookup = l
  BY <1>3, <1>4 DEF Asking
<1>7. /\ letIn \in LetIn /\ letIn.pc = "record" /\ letIn.lookup = l /\ letIn.who = call[c].who
  BY <1>3, <1>4 DEF Asking, LetIn
<1> HIDE DEF asking, letIn
<1>8. PICK f : /\ call' = [call EXCEPT ![c] = f]
               /\ \/ f = asking
                  \/ f = letIn /\ Heard(c, l) /\ l.left = {}
                  \/ f = Idle
  BY <1>5
<1>9. /\ Sound(f) /\ f.pc \in {"idle", "lookup", "record"}
      /\ f.pc = "lookup" => f.lookup = l
      /\ f.pc = "record" => f.lookup = l /\ l.left = {}
  BY <1>4, <1>6, <1>7, <1>8, SawAll DEF Sound, SawHolder, Heard, Idle
<1>10. /\ call'[c] = f /\ \A d \in Call \ {c} : call'[d] = call[d]
       /\ call' = [d \in Call |-> call'[d]] /\ CallsSound'
  BY <1>2, <1>8, <1>9, OthersStay
<1>11. VarsOK' /\ DecisionOK' /\ OpeningOK'
  BY <1>2, <1>5, <1>10, DecisionStays, OpeningStays DEF IInv, VarsOK
<1>12. SawIsCurrent'
  <2> SUFFICES ASSUME await' = "waiting", calm', NEW d \in Call
               PROVE  /\ call'[d].pc = "lookup" => Current(holds', call'[d].lookup)
                      /\ call'[d].pc \in {"record", "list"} =>
                             call'[d].lookup.holders = AllHolders' /\ ~call'[d].lookup.partial
    BY DEF SawIsCurrent
  <2>1. await = "waiting" /\ calm /\ up
    BY <1>2, <1>5
  <2>2. CASE d = c
    <3>1. Current(holds, l)
      BY <1>2, <1>4, <2>1 DEF IInv, SawIsCurrent
    <3> QED BY <1>2, <1>4, <1>9, <1>10, <2>2, <3>1, SawAll
  <2>3. CASE d # c
    BY <1>2, <1>10, <2>1, <2>3 DEF IInv, SawIsCurrent
  <2> QED BY <2>2, <2>3
<1>13. SomebodyCloses'
  BY <1>2, <1>5, <1>10 DEF IInv, SomebodyCloses
<1>14. await # "none"
  BY <1>2 DEF IInv, NoneBeforeOpen, Idle
<1> QED
  BY <1>2, <1>10, <1>11, <1>12, <1>13, <1>14 DEF IInv, NoneBeforeOpen, NoRowsBeforeOpen

\* Who writes an answer goes on to close, or to count the answers.
LEMMA RecordKeeps == ASSUME IInv, NEW c \in Call, RecordResponse(c) PROVE IInv'
<1> DEFINE pc == IF step.quorum = "all" THEN "list" ELSE "close"
           e == [call[c] EXCEPT !.pc = pc]
<1>1. /\ call[c].pc = "record" /\ call' = [call EXCEPT ![c] = e]
      /\ UNCHANGED <<step, holds, await, decision, opening, moves, calm>>
      /\ AllHolders' = AllHolders
      /\ rows' = Recorded(c)
  BY DEF RecordResponse, AllHolders
<1>2. call[c] \in LetIn /\ SawHolder(call[c])
  BY <1>1 DEF IInv, CallsSound, Sound, Asking, LetIn, Closing, Idle
<1>3. e \in LetIn /\ e.pc = pc /\ e.lookup = call[c].lookup /\ SawHolder(e)
  BY <1>2 DEF LetIn, SawHolder
<1>4. step.quorum \in {"any", "all"}
  BY DEF IInv, VarsOK
<1> HIDE DEF e
<1>5. Sound(e)
  BY <1>3, <1>4 DEF Sound
<1>6. /\ call'[c] = e /\ \A d \in Call \ {c} : call'[d] = call[d]
      /\ call' = [d \in Call |-> call'[d]] /\ CallsSound'
  BY <1>1, <1>5, OthersStay
<1>7. rows' \in Rows
  BY <1>1, <1>2 DEF IInv, VarsOK, Rows, Recorded, LetIn
<1>8. VarsOK' /\ DecisionOK' /\ OpeningOK'
  BY <1>1, <1>6, <1>7, DecisionStays, OpeningStays DEF IInv, VarsOK
<1>9. SawIsCurrent'
  BY <1>1, <1>3, <1>6 DEF IInv, SawIsCurrent
<1>10. SomebodyCloses'
  BY <1>1, <1>3, <1>4, <1>6 DEF SomebodyCloses
<1>11. await # "none"
  BY <1>1 DEF IInv, NoneBeforeOpen, Idle
<1> QED
  BY <1>1, <1>6, <1>8, <1>9, <1>10, <1>11 DEF IInv, NoneBeforeOpen, NoRowsBeforeOpen

\* The answers are counted; when everybody's is in and nothing moved, the
\* response finds them and goes on to close.
LEMMA ListKeeps == ASSUME IInv, NEW c \in Call, List(c) PROVE IInv'
<1> DEFINE e == [pc |-> "close", who |-> call[c].who,
                 decision |-> DecisionOn(c, Counted(c, call[c].lookup.holders))]
<1>1. /\ call[c].pc = "list"
      /\ call' = [call EXCEPT ![c] = IF Complete(c) THEN e ELSE Idle]
      /\ UNCHANGED <<step, holds, await, rows, decision, opening, moves, calm>>
      /\ AllHolders' = AllHolders
  BY DEF List, AllHolders
<1>2. call[c] \in LetIn /\ SawHolder(call[c]) /\ step.quorum = "all"
  BY <1>1 DEF IInv, CallsSound, Sound, Asking, LetIn, Closing, Idle
<1>3. Complete(c) => e \in Closing /\ RightlyDecided(e.decision)
  BY <1>2, AllDecide DEF IInv, Closing, LetIn
<1>4. e.pc = "close"
  OBVIOUS
<1> HIDE DEF e
<1>5. PICK f : /\ call' = [call EXCEPT ![c] = f]
               /\ IF Complete(c) THEN f = e ELSE f = Idle
  BY <1>1
<1>6. Sound(f) /\ f.pc \in {"idle", "close"}
  BY <1>2, <1>3, <1>4, <1>5 DEF Sound, Idle
<1>7. /\ call'[c] = f /\ \A d \in Call \ {c} : call'[d] = call[d]
      /\ call' = [d \in Call |-> call'[d]] /\ CallsSound'
  BY <1>1, <1>5, <1>6, OthersStay
<1>8. VarsOK' /\ DecisionOK' /\ OpeningOK'
  BY <1>1, <1>7, DecisionStays, OpeningStays DEF IInv, VarsOK
<1>9. SawIsCurrent'
  BY <1>1, <1>6, <1>7 DEF IInv, SawIsCurrent
<1>10. ASSUME await = "waiting", calm, AllHolders # {}, \A w \in AllHolders : rows[w] # "none"
       PROVE  Complete(c)
  <2>1. call[c].lookup.holders = AllHolders /\ ~call[c].lookup.partial
    BY <1>1, <1>10 DEF IInv, SawIsCurrent
  <2>2. AllHolders \subseteq Person
    BY HoldersArePersons DEF IInv
  <2> QED BY <1>10, <2>1, <2>2 DEF Complete, Responded
<1>11. SomebodyCloses'
  BY <1>1, <1>2, <1>4, <1>5, <1>7, <1>10 DEF SomebodyCloses
<1>12. await # "none"
  BY <1>1 DEF IInv, NoneBeforeOpen, Idle
<1> QED
  BY <1>1, <1>7, <1>8, <1>9, <1>11, <1>12 DEF IInv, NoneBeforeOpen, NoRowsBeforeOpen

\* The first to close feeds the engine a right decision; the others are late.
LEMMA CloseKeeps == ASSUME IInv, NEW c \in Call, Close(c) PROVE IInv'
<1> DEFINE d == IF step.quorum = "all" THEN call[c].decision
                ELSE DecisionOn(c, Counted(c, {}))
<1>1. /\ call[c].pc = "close" /\ call' = [call EXCEPT ![c] = Idle]
      /\ UNCHANGED <<step, holds, rows, opening, moves, calm>>
      /\ IF await = "waiting"
         THEN await' = "resolved" /\ decision' = decision \cup {d}
         ELSE UNCHANGED <<await, decision>>
  BY DEF Close
<1>2. d \in Decided /\ RightlyDecided(d)
  <2>1. CASE step.quorum = "all"
    <3>1. call[c] \in Closing /\ RightlyDecided(call[c].decision)
      BY <1>1, <2>1 DEF IInv, CallsSound, Sound, Asking, LetIn, Idle
    <3> QED BY <2>1, <3>1 DEF Closing
  <2>2. CASE step.quorum # "all"
    <3>1. step.quorum = "any"
      BY <2>2 DEF IInv, VarsOK
    <3>2. call[c] \in LetIn /\ SawHolder(call[c])
      BY <1>1, <2>2 DEF IInv, CallsSound, Sound, Asking, Idle
    <3> QED BY <2>2, <3>1, <3>2, AnyDecides DEF IInv
  <2> QED BY <2>1, <2>2
<1> HIDE DEF d
<1>3. /\ call' = [w \in Call |-> call'[w]] /\ CallsSound'
  BY <1>1, OthersStay DEF Sound
<1>4. DecisionOK'
  <2>1. CASE await # "waiting"
    BY <1>1, <2>1, DecisionStays
  <2>2. CASE await = "waiting"
    <3>1. PICK x : x = d
      OBVIOUS
    <3>2. decision' = {x} /\ await' = "resolved"
      BY <1>1, <2>2, <3>1 DEF IInv, DecisionOK
    <3>3. RightlyDecided(x)'
      BY <1>1, <1>2, <3>1 DEF RightlyDecided, Voters, Approves
    <3> QED BY <1>2, <3>1, <3>2, <3>3 DEF DecisionOK
  <2> QED BY <2>1, <2>2
<1>5. await # "none"
  BY <1>1 DEF IInv, NoneBeforeOpen, Idle
<1>6. await' # "waiting" /\ await' # "none" /\ (await' = "skipped" => await = "skipped")
      /\ await' \in {"none", "skipped", "waiting", "resolved", "timed_out"}
  BY <1>1, <1>5 DEF IInv, VarsOK
<1>7. VarsOK' /\ OpeningOK'
  BY <1>1, <1>3, <1>6, OpeningStays DEF IInv, VarsOK
<1> QED
  BY <1>1, <1>3, <1>4, <1>6, <1>7
     DEF IInv, NoneBeforeOpen, NoRowsBeforeOpen, SawIsCurrent, SomebodyCloses

\* An expired await is fed nothing.
LEMMA ExpireKeeps == ASSUME IInv, Expire PROVE IInv'
<1>1. /\ await = "waiting" /\ await' = "timed_out"
      /\ UNCHANGED <<step, holds, rows, decision, opening, moves, calm, call>>
  BY DEF Expire
<1>2. DecisionOK' /\ OpeningOK'
  BY <1>1, DecisionStays, OpeningStays
<1>3. CallsSound'
  BY <1>1, SoundStays DEF IInv, CallsSound
<1> QED
  BY <1>1, <1>2, <1>3 DEF IInv, VarsOK, NoneBeforeOpen, NoRowsBeforeOpen, SawIsCurrent,
                         SomebodyCloses

\* A holder who moves ends the calm of an open await, and every lookup under way
\* takes note of it.
LEMMA MoveKeeps == ASSUME IInv, NEW s \in Source, NEW w \in Person, Move(s, w) PROVE IInv'
<1>1. /\ await \in {"none", "waiting"} /\ calm' = (calm /\ await = "none")
      /\ holds' = [holds EXCEPT ![s] = IF w \in @ THEN @ \ {w} ELSE @ \cup {w}]
      /\ moves < MaxMoves /\ moves' = moves + 1
      /\ opening' = IF await = "none" THEN Watched(opening, s, w) ELSE opening
      /\ call' = [c \in Call |-> IF call[c].pc = "lookup"
                                THEN [call[c] EXCEPT !.lookup = Watched(@, s, w)] ELSE call[c]]
      /\ UNCHANGED <<step, await, rows, decision>>
  BY DEF Move
<1>2. ASSUME NEW l, Seeing(holds, l) PROVE Seeing(holds', Watched(l, s, w))
  BY <1>1, <1>2, WatchedSees DEF IInv
<1>3. DecisionOK'
  BY <1>1, DecisionStays
<1>4. OpeningOK'
  <2>1. CASE await = "none"
    BY <1>1, <1>2, <2>1 DEF IInv, OpeningOK, NotSkippedWhileHeld, Seeing
  <2>2. CASE await = "waiting"
    BY <1>1, <2>2 DEF IInv, OpeningOK, NotSkippedWhileHeld
  <2> QED BY <1>1, <2>1, <2>2
<1>5. ASSUME NEW c \in Call PROVE Sound(call[c])' /\ call'[c].pc = call[c].pc
  <2>1. ASSUME NEW d PROVE RightlyDecided(d)' <=> RightlyDecided(d)
    BY <1>1 DEF RightlyDecided, Voters, Approves
  <2>2. Sound(call[c])
    BY DEF IInv, CallsSound
  <2>3. CASE call[c].pc = "lookup"
    <3> DEFINE e == [call[c] EXCEPT !.lookup = Watched(@, s, w)]
    <3>1. call[c] \in Asking /\ Seeing(holds, call[c].lookup)
      BY <2>2, <2>3 DEF Sound, Asking, LetIn, Closing, Idle
    <3>2. Seeing(holds', Watched(call[c].lookup, s, w))
      BY <1>2, <3>1
    <3>3. e \in Asking /\ e.lookup = Watched(call[c].lookup, s, w) /\ e.pc = "lookup"
      BY <3>1, <3>2 DEF Asking, Seeing
    <3>4. call'[c] = e
      BY <1>1, <2>3
    <3> HIDE DEF e
    <3> QED BY <2>3, <3>2, <3>3, <3>4 DEF Sound
  <2>4. CASE call[c].pc # "lookup"
    <3>1. call'[c] = call[c] /\ call[c] \notin Asking
      BY <1>1, <2>4 DEF Asking
    <3> QED BY <1>1, <2>1, <2>2, <3>1 DEF Sound, SawHolder
  <2> QED BY <2>3, <2>4
<1>6. VarsOK'
  BY <1>1, MovesAssumption DEF IInv, VarsOK
<1>7. CallsSound'
  BY <1>5 DEF CallsSound
<1>8. await = "waiting" => ~calm'
  BY <1>1
<1>9. SawIsCurrent'
  BY <1>1, <1>8 DEF SawIsCurrent
<1>10. SomebodyCloses'
  BY <1>1, <1>5, <1>8 DEF IInv, SomebodyCloses
<1>11. NoneBeforeOpen' /\ NoRowsBeforeOpen'
  BY <1>1 DEF IInv, NoneBeforeOpen, NoRowsBeforeOpen, Idle
<1> QED
  BY <1>3, <1>4, <1>6, <1>7, <1>9, <1>10, <1>11 DEF IInv

\* Every step keeps the invariant.
LEMMA NextKeeps == IInv /\ [Next]_vars => IInv'
<1> SUFFICES ASSUME IInv, [Next]_vars PROVE IInv'
  OBVIOUS
<1>1. CASE UNCHANGED vars
  <2>1. UNCHANGED <<step, holds, await, rows, decision, opening, moves, calm, call>>
    BY <1>1 DEF vars
  <2>2. DecisionOK' /\ OpeningOK' /\ CallsSound' /\ AllHolders' = AllHolders
    BY <2>1, DecisionStays, OpeningStays, SoundStays DEF IInv, CallsSound, AllHolders
  <2> QED
    BY <2>1, <2>2 DEF IInv, VarsOK, NoneBeforeOpen, NoRowsBeforeOpen, SawIsCurrent,
                      SomebodyCloses
<1> QED
  BY <1>1, OpenKeeps, ExpireKeeps, RespondKeeps, LookUpKeeps, RecordKeeps, ListKeeps, CloseKeeps,
     MoveKeeps DEF Next

\* The inductive invariant holds of every reachable state.
LEMMA Invariant == Spec => []IInv
BY InitIInv, NextKeeps, PTL DEF Spec

-----------------------------------------------------------------------------
(* The theorems                                                            *)

\* The tables hold what the code puts there, and however many responses
\* complete the quorum at once, the engine is fed exactly one decision.
THEOREM TypeCorrect == Spec => []TypeOK
<1>1. IInv => TypeOK
  <2> SUFFICES ASSUME IInv PROVE TypeOK
    OBVIOUS
  <2>1. decision = {} \/ \E d \in Decided : decision = {d}
    BY DEF IInv, DecisionOK
  <2>2. Cardinality(decision) = 0 \/ Cardinality(decision) = 1
    BY <2>1, FS_EmptySet, FS_Singleton, ZenonT(30)
  <2> QED
    BY <2>1, <2>2 DEF IInv, VarsOK, OpeningOK, DecisionOK, TypeOK
<1> QED
  BY <1>1, Invariant, PTL

\* Whoever moves between the answers of the sources, and whatever source is down,
\* quorum "all" is decided by everybody whom one source listed throughout the
\* deciding lookup, nobody counts who never held the role during it, and the
\* verdict is that of the answers counted.
THEOREM DecidedRightly == Spec => []DecidedByTheHolders
<1>1. IInv => DecidedByTheHolders
  BY DEF IInv, DecisionOK, RightlyDecided, DecidedByTheHolders
<1> QED
  BY <1>1, Invariant, PTL

\* Neither an outage nor a move of others skips an approval that somebody could
\* have given whom one source listed all the while.
THEOREM NeverSkippedByAnOutage == Spec => []NotSkippedWhileHeld
<1>1. IInv => NotSkippedWhileHeld
  BY DEF IInv, OpeningOK
<1> QED
  BY <1>1, Invariant, PTL

\* However the last answers interleave, the await does not stay open with
\* everybody's answer in.
THEOREM NeverStaysOpen == Spec => []LastAnswerCloses
<1>1. IInv => LastAnswerCloses
  <2> SUFFICES ASSUME IInv, \A c \in Call : call[c].pc = "idle", await = "waiting", calm,
                      AllHolders # {}
               PROVE  IF step.quorum = "all" THEN \E w \in AllHolders : rows[w] = "none"
                      ELSE \A w \in AllHolders : rows[w] = "none"
    BY DEF LastAnswerCloses
  <2>1. AllHolders \subseteq Person
    BY DEF IInv, VarsOK, AllHolders
  <2>2. step.quorum \in {"any", "all"}
    BY DEF IInv, VarsOK
  <2> QED
    BY <2>1, <2>2 DEF IInv, SomebodyCloses
<1> QED
  BY <1>1, Invariant, PTL

\* The rows of a decided await are frozen: recordResponse writes to open ones.
THEOREM AuditStays == Spec => AuditIsFrozen
<1>1. IInv /\ [Next]_vars => [decision # {} => rows' = rows]_vars
  <2> SUFFICES ASSUME IInv, Next, decision # {} PROVE rows' = rows
    BY DEF vars
  <2>1. await = "resolved"
    BY DEF IInv, DecisionOK
  <2> QED
    BY <2>1 DEF Next, Open, Expire, Respond, LookUpHolders, RecordResponse, Recorded, List, Close,
                Move
<1> QED
  BY <1>1, Invariant, PTL DEF Spec, AuditIsFrozen
=============================================================================
