---------------------------- MODULE QuorumAwait -----------------------------
(***************************************************************************)
(* How one human await of a Conductor run is decided: who holds the role   *)
(* it is addressed to, whose answers count, and what the engine is fed     *)
(* (openHumanAwait and resolveAwait of runExecutor.ts up to the close;     *)
(* awaitStore.ts for the response rows; RoleHolderRegistry for the         *)
(* holders).  ConductorRuns takes over where this module ends.             *)
(*                                                                         *)
(* Holders come from the local table and from external directories, are    *)
(* looked up live, and may move at any time.  A lookup asks the sources    *)
(* concurrently: each answers at a moment of its own, and there is no      *)
(* snapshot across them; one that does not answer makes the lookup         *)
(* partial.  The model starts when openHumanAwait asks the sources.  A     *)
(* call is a response on its way through resolveAwait; its actions are the *)
(* code between two awaits.  An answer is what isApproved tells apart: an  *)
(* explicit yes, an explicit no, or anything else ("blank").  The step's   *)
(* quorum and strictApproval are chosen at the start.                      *)
(*                                                                         *)
(* A definition whose name starts with Bug is a seeded defect: a run is    *)
(* known to fail with it in the place of the definition that follows it.   *)
(***************************************************************************)
EXTENDS Naturals, FiniteSets

CONSTANTS
    Person,     \* canonical user ids
    Call,       \* responses in flight
    Source,     \* where holders are listed: the local table, directories
    Events,     \* \subseteq {"move", "outage", "again", "deadline"}
    MaxMoves    \* bound: how often the role is assigned or taken away

ASSUME SourceAssumption == Source # {}   \* the local table is always registered
ASSUME MovesAssumption == MaxMoves \in Nat

VARIABLES
    step,       \* the human step: [quorum, strict]
    holds,      \* source -> the holders it knows
    await,      \* "none" | "skipped" | "waiting" | "resolved" | "timed_out"
    rows,       \* conductor_await_responses: person -> answer
    decision,   \* what the engine is fed, by each call that closes the await
    opening,    \* the lookup by which openHumanAwait opens or skips the step
    moves,      \* how often a holder moved
    calm,       \* history: no holder moved and no source was down since the
                \* await was opened
    call        \* the state of each response in flight

vars == <<step, holds, await, rows, decision, opening, moves, calm, call>>

Answers == {"yes", "no", "blank"}
Rows    == [Person -> Answers \cup {"none"}]
Idle    == [pc |-> "idle"]

AllHolders == UNION {holds[s] : s \in Source}

\* A lookup: the sources that have not answered, the holders and the outages
\* seen so far; and, as history of the time it took, whom each source listed
\* throughout, and who held the role always and at some moment.
Lookups == [left : SUBSET Source, holders : SUBSET Person, partial : BOOLEAN,
            steady : [Source -> SUBSET Person], always : SUBSET Person, ever : SUBSET Person]

\* resolveHolders asks every source, ...
Asked == [left |-> Source, holders |-> {}, partial |-> FALSE,
          steady |-> holds, always |-> AllHolders, ever |-> AllHolders]

\* ... takes the union of what they answer, each at its own time, and is partial
\* if one does not.
Answered(l, s, up) ==
    [l EXCEPT !.left = @ \ {s},
              !.holders = IF up THEN @ \cup holds[s] ELSE @,
              !.partial = @ \/ ~up]

\* A move of w in source s, seen by a lookup under way.
Watched(l, s, w) ==
    [l EXCEPT !.steady[s] = @ \ {w},
              !.always = IF \E z \in Source \ {s} : w \in holds[z] THEN @ ELSE @ \ {w},
              !.ever = @ \cup {w}]

\* Whom one source listed throughout the lookup.
Steady(l) == UNION {l.steady[s] : s \in Source}

Up == IF "outage" \in Events THEN BOOLEAN ELSE {TRUE}

\* A decision, the answers it rests on, and the lookup of the deciding call.
Decided == [approved : BOOLEAN, counted : Rows, lookup : Lookups]

\* isApproved
Approves(answer) == IF step.strict THEN answer = "yes" ELSE answer # "no"

Init ==
    /\ step \in [quorum : {"any", "all"}, strict : BOOLEAN]
    /\ holds \in [Source -> SUBSET Person]
    /\ await = "none"
    /\ rows = [w \in Person |-> "none"]
    /\ decision = {}
    /\ opening = Asked
    /\ moves = 0
    /\ calm = TRUE
    /\ call = [c \in Call |-> Idle]

-----------------------------------------------------------------------------
BugNobodyHolds(l) == l.holders = {}

\* "No holders" counts only when every source said so.
NobodyHolds(l) == l.holders = {} /\ ~l.partial

\* openHumanAwait: a source answers; when all have, park on a durable await, or
\* skip to the step's fallback.
Open(s) ==
    /\ await = "none" /\ s \in opening.left
    /\ \E up \in Up :
          LET l == Answered(opening, s, up) IN
          /\ opening' = IF l.left = {} /\ ~NobodyHolds(l) THEN Idle ELSE l
          /\ await' = IF l.left # {} THEN "none"
                      ELSE IF NobodyHolds(l) THEN "skipped" ELSE "waiting"
    /\ UNCHANGED <<step, holds, rows, decision, moves, calm, call>>

Answering(w) == rows[w] # "none" \/ \E c \in Call : call[c].pc # "idle" /\ call[c].who = w

\* A response arrives for a pending await and asks who the holders are; without
\* "again" a person answers once.
Respond(c, w, answer) ==
    /\ await = "waiting" /\ call[c].pc = "idle"
    /\ "again" \in Events \/ ~Answering(w)
    /\ call' = [call EXCEPT ![c] =
           [pc |-> "lookup", who |-> w, answer |-> answer, lookup |-> Asked]]
    /\ UNCHANGED <<step, holds, await, rows, decision, opening, moves, calm>>

BugHeardIfNobodyHolds(c, l) == l.holders = {} \/ call[c].who \in l.holders

\* The gate: only a current holder is heard.
Heard(c, l) == call[c].who \in l.holders

\* A source answers the lookup of a response; when all have, the gate.
LookUpHolders(c, s) ==
    /\ call[c].pc = "lookup" /\ s \in call[c].lookup.left
    /\ \E up \in Up :
          LET l == Answered(call[c].lookup, s, up) IN
          /\ call' = [call EXCEPT ![c] =
                 IF l.left # {} THEN [@ EXCEPT !.lookup = l]
                 ELSE IF Heard(c, l)
                 THEN [@ EXCEPT !.pc = "record", !.lookup = l]
                 ELSE Idle]
          /\ calm' = (calm /\ up)
    /\ UNCHANGED <<step, holds, await, rows, decision, opening, moves>>

BugRecordAlways(c) == [rows EXCEPT ![call[c].who] = call[c].answer]

\* recordResponse: an upsert, only while the await is open.
Recorded(c) ==
    IF await = "waiting" THEN [rows EXCEPT ![call[c].who] = call[c].answer] ELSE rows

RecordResponse(c) ==
    /\ call[c].pc = "record"
    /\ rows' = Recorded(c)
    /\ call' = [call EXCEPT ![c].pc = IF step.quorum = "all" THEN "list" ELSE "close"]
    /\ UNCHANGED <<step, holds, await, decision, opening, moves, calm>>

BugRespondedOthers(c) == {w \in Person : rows[w] # "none"} \ {call[c].who}

Responded(c) == {w \in Person : rows[w] # "none"}

BugCompleteThoughPartial(c) ==
    call[c].lookup.holders # {} /\ call[c].lookup.holders \subseteq Responded(c)

\* Quorum "all": every holder answered, and the list of holders is complete.
Complete(c) ==
    /\ ~call[c].lookup.partial
    /\ call[c].lookup.holders # {}
    /\ call[c].lookup.holders \subseteq Responded(c)

\* What the engine is fed: the required answers, or the one that came.
Counted(c, ws) ==
    [w \in Person |-> IF step.quorum = "any" /\ w = call[c].who THEN call[c].answer
                      ELSE IF step.quorum = "all" /\ w \in ws THEN rows[w] ELSE "none"]

DecisionOn(c, counted) ==
    [approved |-> \A w \in Person : counted[w] # "none" => Approves(counted[w]),
     counted |-> counted, lookup |-> call[c].lookup]

\* listResponses, and the completeness check: too few, and the run stays parked.
List(c) ==
    /\ call[c].pc = "list"
    /\ call' = [call EXCEPT ![c] =
           IF Complete(c)
           THEN [pc |-> "close", who |-> call[c].who,
                 decision |-> DecisionOn(c, Counted(c, call[c].lookup.holders))]
           ELSE Idle]
    /\ UNCHANGED <<step, holds, await, rows, decision, opening, moves, calm>>

BugCloseUnconditional(c) ==
    /\ call[c].pc = "close"
    /\ await' = "resolved"
    /\ decision' = decision \cup {IF step.quorum = "all" THEN call[c].decision
                                  ELSE DecisionOn(c, Counted(c, {}))}
    /\ call' = [call EXCEPT ![c] = Idle]
    /\ UNCHANGED <<step, holds, rows, opening, moves, calm>>

\* close('resolved'): the compare-and-set; the loser is told it is too late.
Close(c) ==
    /\ call[c].pc = "close"
    /\ IF await = "waiting"
       THEN /\ await' = "resolved"
            /\ decision' = decision \cup {IF step.quorum = "all" THEN call[c].decision
                                          ELSE DecisionOn(c, Counted(c, {}))}
       ELSE UNCHANGED <<await, decision>>
    /\ call' = [call EXCEPT ![c] = Idle]
    /\ UNCHANGED <<step, holds, rows, opening, moves, calm>>

\* close('timed_out')
Expire ==
    /\ "deadline" \in Events /\ await = "waiting"
    /\ await' = "timed_out"
    /\ UNCHANGED <<step, holds, rows, decision, opening, moves, calm, call>>

\* The role is assigned to, or taken from, a person.
Move(s, w) ==
    /\ "move" \in Events /\ await \in {"none", "waiting"}
    /\ moves < MaxMoves /\ moves' = moves + 1
    /\ holds' = [holds EXCEPT ![s] = IF w \in @ THEN @ \ {w} ELSE @ \cup {w}]
    /\ calm' = (calm /\ await = "none")
    /\ opening' = IF await = "none" THEN Watched(opening, s, w) ELSE opening
    /\ call' = [c \in Call |-> IF call[c].pc = "lookup"
                              THEN [call[c] EXCEPT !.lookup = Watched(@, s, w)] ELSE call[c]]
    /\ UNCHANGED <<step, await, rows, decision>>

Next ==
    \/ Expire
    \/ \E s \in Source : Open(s) \/ \E w \in Person : Move(s, w)
    \/ \E c \in Call : \/ \E w \in Person, answer \in Answers : Respond(c, w, answer)
                       \/ \E s \in Source : LookUpHolders(c, s)
                       \/ RecordResponse(c) \/ List(c) \/ Close(c)

Spec == Init /\ [][Next]_vars

-----------------------------------------------------------------------------
(* Properties                                                              *)

\* Every variable has the type the tables give it.  A decision exists exactly
\* when the await was resolved, and however many responses complete the quorum
\* at once, the engine is fed one.
TypeOK ==
    /\ step \in [quorum : {"any", "all"}, strict : BOOLEAN]
    /\ calm \in BOOLEAN
    /\ holds \in [Source -> SUBSET Person]
    /\ opening \in Lookups \cup {Idle} /\ moves \in 0..MaxMoves
    /\ await \in {"none", "skipped", "waiting", "resolved", "timed_out"}
    /\ rows \in Rows
    /\ decision \subseteq Decided /\ Cardinality(decision) <= 1
    /\ decision # {} <=> await = "resolved"

Voters(d) == {w \in Person : d.counted[w] # "none"}

\* Whoever moves and whatever source is down while the deciding response asks,
\* quorum "all" is decided by everybody whom one source listed throughout, and
\* by nobody who did not hold the role at some moment of the lookup: who
\* answered before losing the role does not tip it; and it approves exactly
\* when each of them did.  Quorum "any" is decided by such a holder.
DecidedByTheHolders ==
    \A d \in decision :
        /\ Voters(d) \subseteq d.lookup.ever
        /\ IF step.quorum = "all" THEN Steady(d.lookup) \subseteq Voters(d) ELSE Voters(d) # {}
        /\ d.approved <=> \A w \in Voters(d) : Approves(d.counted[w])

\* A response that was on its way when the await closed (of another holder, or a
\* double click) no longer changes the rows the decision was read from.
AuditIsFrozen == [][decision # {} => rows' = rows]_vars

\* The response rows kept for the audit are the answers the decision rests on.
AuditMatchesDecision ==
    \A d \in decision : \A w \in Voters(d) : rows[w] = d.counted[w]

\* The human step is skipped only when no source listed anybody all the while it
\* was asked: neither an outage of a directory nor the moves of others bypass
\* the approval of a holder who stays where the role was given to them.
NotSkippedWhileHeld == await = "skipped" => Steady(opening) = {}

\* It is skipped only if nobody held the role from the first answer to the last,
\* and quorum "all" never completes without somebody who did.
HeldIsSeen ==
    /\ await = "skipped" => opening.always = {}
    /\ \A d \in decision : step.quorum = "all" => d.lookup.always \subseteq Voters(d)

\* While the holders stay who they are and every source answers, the answer
\* that completes the quorum closes the await, however the last answers
\* interleave: it never stays open with everybody's answer in.
LastAnswerCloses ==
    (\A c \in Call : call[c].pc = "idle") /\ await = "waiting" /\ calm /\ AllHolders # {} =>
        IF step.quorum = "all" THEN \E w \in AllHolders : rows[w] = "none"
        ELSE \A w \in AllHolders : rows[w] = "none"
=============================================================================
