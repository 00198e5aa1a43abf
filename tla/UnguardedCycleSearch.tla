------------------------ MODULE UnguardedCycleSearch ------------------------
(***************************************************************************)
(* findUnguardedCycle of conductor-core validate.ts: the depth-first,       *)
(* three-colour search for a loop that no guard can stop.  One behaviour    *)
(* per graph of Graphs and per order in which the adjacency lists name the  *)
(* successors.  The recursion is the stack of open calls; each call keeps   *)
(* the successors its `for` loop has still to visit.                        *)
(*                                                                         *)
(* A definition whose name starts with Bug is a seeded defect: the run       *)
(* that covers the definition below it is known to fail with the defect in   *)
(* its place.                                                               *)
(***************************************************************************)
EXTENDS ConductorEngine, Sequences

CONSTANT Graphs             \* the graphs searched

ASSUME GraphsAssumption == \A g \in Graphs : IsFiniteSet(g.steps)

VARIABLES graph,            \* the argument
          color,            \* step -> "white" | "gray" | "black"
          stack,            \* the open dfs calls: [node, rest]
          found             \* <<>>, or the cycle the search returns

vars == <<graph, color, stack, found>>

BugAdjacentIgnoresGuards(n) ==
    {graph.transitions[t].target : t \in Outgoing(graph, n)} \cap graph.steps

BugAdjacentIgnoresEnds(n) ==
    {graph.transitions[t].target : t \in
        {x \in Outgoing(graph, n) : ~graph.transitions[x].guarded}}

\* adjacency.get(n): the successors over unguarded edges whose ends both exist.
Adjacent(n) ==
    {graph.transitions[t].target : t \in
        {x \in Outgoing(graph, n) : ~graph.transitions[x].guarded}} \cap graph.steps

\* adjacency.keys()
Roots == {n \in graph.steps : Adjacent(n) # {}}

Init ==
    /\ graph \in Graphs
    /\ color = [n \in graph.steps |-> "white"]
    /\ stack = <<>>
    /\ found = <<>>

Top == stack[Len(stack)]

\* color.set(node, GRAY); stack.push(node)
Enter(n, calls) ==
    /\ color' = [color EXCEPT ![n] = "gray"]
    /\ stack' = Append(calls, [node |-> n, rest |-> Adjacent(n)])

\* The outer loop starts a search at a white node.
StartAt(n) ==
    /\ found = <<>> /\ stack = <<>>
    /\ n \in Roots /\ color[n] = "white"
    /\ Enter(n, stack)
    /\ UNCHANGED <<graph, found>>

BugExamineNothing(n) == stack

Examined(n) == [stack EXCEPT ![Len(stack)].rest = @ \ {n}]

BugReportWholeStack(n) ==
    /\ color[n] = "gray"
    /\ found' = Append([i \in DOMAIN stack |-> stack[i].node], n)
    /\ UNCHANGED <<graph, color, stack>>

\* Gray successor: a back edge, the cycle is the stack from n on, and n again.
BackEdge(n) ==
    /\ color[n] = "gray"
    /\ LET from == CHOOSE i \in DOMAIN stack : stack[i].node = n
       IN  found' = Append([i \in 1..(Len(stack) - from + 1) |->
                               stack[from + i - 1].node], n)
    /\ UNCHANGED <<graph, color, stack>>

Descend(n) ==
    /\ color[n] = "white"
    /\ Enter(n, Examined(n))
    /\ UNCHANGED <<graph, found>>

Skip(n) ==
    /\ color[n] = "black"
    /\ stack' = Examined(n)
    /\ UNCHANGED <<graph, color, found>>

Visit ==
    /\ found = <<>> /\ stack # <<>>
    /\ \E n \in Top.rest : BackEdge(n) \/ Descend(n) \/ Skip(n)

\* All successors seen: color.set(node, BLACK); stack.pop()
Retreat ==
    /\ found = <<>> /\ stack # <<>>
    /\ Top.rest = {}
    /\ color' = [color EXCEPT ![Top.node] = "black"]
    /\ stack' = SubSeq(stack, 1, Len(stack) - 1)
    /\ UNCHANGED <<graph, found>>

Next == (\E n \in graph.steps : StartAt(n)) \/ Visit \/ Retreat

Spec == Init /\ [][Next]_vars /\ WF_vars(Next)

Returned ==
    \/ found # <<>>
    \/ stack = <<>> /\ \A n \in Roots : color[n] # "white"

-----------------------------------------------------------------------------
(* Properties                                                              *)

\* The stack and the colours are those of a depth-first search of the graph.
TypeOK ==
    /\ color \in [graph.steps -> {"white", "gray", "black"}]
    /\ \A i \in DOMAIN stack : stack[i].node \in graph.steps
                            /\ stack[i].rest \subseteq graph.steps
    /\ \A i \in DOMAIN found : found[i] \in graph.steps

\* What the search answers is what the rule means: when it returns, it has
\* found a cycle exactly when the unguarded edges contain one.  A search that
\* blackens a node too early, forgets a root or follows a guarded edge either
\* lets a loop without a guard be published or refuses a legal graph.
AnswerIsRight == Returned => (found # <<>> <=> HasUnguardedCycle(graph))

\* The step ids it reports to the designer are a closed walk over unguarded
\* edges, not merely some steps near one.
ReportIsACycle ==
    found # <<>> =>
        /\ Len(found) > 1 /\ found[1] = found[Len(found)]
        /\ \A i \in 1..(Len(found) - 1) : found[i+1] \in Adjacent(found[i])

\* validate always answers: the search ends on every graph.
Terminates == <>Returned
=============================================================================
