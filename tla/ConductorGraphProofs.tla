------------------------ MODULE ConductorGraphProofs ------------------------
(***************************************************************************)
(* What holds of every finite workflow graph: that the search of           *)
(* findUnguardedCycle answers right, and that the dry walk through a        *)
(* published graph is complete and has no unguarded loops.                 *)
(*                                                                         *)
(* Both rest on what ReachFrom computes, for graphs of any size            *)
(* (ReachFromIsLeast, ReachFromIsClosed): y's reachable steps are the least *)
(* set that has y and that no edge leaves.  So a cycle exists exactly when  *)
(* some unguarded edge leads back to where it starts (CycleIs), and the    *)
(* proofs below speak of closed sets in place of paths.                    *)
(*                                                                         *)
(* The library's induction theorems take an operator, which the provers    *)
(* cannot instantiate.  Induction here is over the set of the numbers that *)
(* have a property (Induction), from the least number principle.           *)
(***************************************************************************)
EXTENDS UnguardedCycleSearch, ConductorPreview, FiniteSetTheorems, SequenceTheorems,
        WellFoundedInduction, TLAPS

-----------------------------------------------------------------------------
(* Induction over the natural numbers, by sets                             *)

\* A set of numbers that is not empty has a least one.
LEMMA LeastElement ==
    ASSUME NEW T \in SUBSET Nat, T # {}
    PROVE  \E n \in T : \A m \in T : n <= m
<1> DEFINE R == OpToRel(<, Nat)
<1>1. IsWellFoundedOn(R, Nat)
  BY NatLessThanWellFounded
<1>2. \A m, n \in Nat : m < n => <<m, n>> \in R
  BY Zenon DEF OpToRel
<1> HIDE DEF R
<1>3. \E x \in T : \A y \in T : ~ (<<y, x>> \in R)
  BY <1>1, WFMin
<1>4. PICK x \in T : \A y \in T : ~ (<<y, x>> \in R)
  BY <1>3
<1>5. \A y \in T : ~(y < x)
  BY <1>2, <1>4
<1> QED
  BY <1>5

\* A set with 0 and the successor of each of its numbers has them all.
LEMMA Induction ==
    ASSUME NEW S \in SUBSET Nat, 0 \in S, \A n \in S : n + 1 \in S
    PROVE  S = Nat
<1> SUFFICES ASSUME S # Nat PROVE FALSE
  OBVIOUS
<1>1. Nat \ S # {} /\ Nat \ S \in SUBSET Nat
  OBVIOUS
<1>2. PICK n \in Nat \ S : \A m \in Nat \ S : n <= m
  BY <1>1, LeastElement
<1>3. n # 0 /\ n - 1 \in Nat
  BY <1>2
<1>4. n - 1 \in S
  BY <1>2, <1>3
<1> QED
  BY <1>2, <1>3, <1>4

-----------------------------------------------------------------------------
(* Reachability: what ReachFrom computes on every finite graph             *)

\* T is closed under `edges`: they do not lead out of it.
ClosedUnder(edges, T) == \A e \in edges : e[1] \in T => e[2] \in T

\* Everything that is closed and has a also has b: b can be reached from a.
LeadsTo(nodes, edges, a, b) ==
    \A T \in SUBSET nodes : a \in T /\ ClosedUnder(edges, T) => b \in T

\* One round of the search.
Widen(edges, A) == A \cup {e[2] : e \in {x \in edges : x[1] \in A}}

Rounds(from, edges, n, f) ==
    f = [i \in 0..n |-> IF i = 0 THEN from
                        ELSE f[i-1] \cup {e[2] : e \in {x \in edges : x[1] \in f[i-1]}}]

\* The rounds of ReachFrom are a function that exists.
LEMMA RoundsExist ==
    ASSUME NEW from, NEW edges
    PROVE  \A n \in Nat : \E f : Rounds(from, edges, n, f)
<1> DEFINE S == {n \in Nat : \E f : Rounds(from, edges, n, f)}
<1>1. 0 \in S
  <2>1. Rounds(from, edges, 0, [i \in 0..0 |-> from])
    BY DEF Rounds
  <2> QED
    BY <2>1
<1>2. ASSUME NEW n \in S PROVE n + 1 \in S
  <2>1. PICK f : Rounds(from, edges, n, f)
    OBVIOUS
  <2> DEFINE g == [i \in 0..(n+1) |-> IF i = n + 1 THEN Widen(edges, f[n]) ELSE f[i]]
  <2>2. ASSUME NEW i \in 0..n PROVE g[i] = f[i]
    OBVIOUS
  <2>3. g[n+1] = Widen(edges, g[n])
    BY <2>2
  <2>4. ASSUME NEW i \in 0..(n+1), i # 0 PROVE g[i] = Widen(edges, g[i-1])
    <3>1. CASE i = n + 1
      BY <2>3, <3>1
    <3>2. CASE i # n + 1
      <4>1. i \in 0..n /\ i - 1 \in 0..n
        BY <2>4, <3>2
      <4>2. f[i] = Widen(edges, f[i-1])
        BY <2>1, <2>4, <4>1 DEF Rounds, Widen
      <4> QED
        BY <2>2, <4>1, <4>2
    <3> QED
      BY <3>1, <3>2
  <2>5. g[0] = from
    <3>1. f[0] = from
      BY <2>1 DEF Rounds
    <3> QED
      BY <2>2, <3>1
  <2>6. g = [i \in 0..(n+1) |-> IF i = 0 THEN from ELSE Widen(edges, g[i-1])]
    BY <2>4, <2>5
  <2>7. Rounds(from, edges, n + 1, g)
    BY <2>6 DEF Rounds, Widen
  <2> QED
    BY <2>7
<1> HIDE DEF S
<1>3. S = Nat
  <2>1. S \in SUBSET Nat
    BY DEF S
  <2> QED
    BY <1>1, <1>2, <2>1, Induction
<1> QED
  BY <1>3 DEF S

\* ReachFrom is the last of them.
LEMMA ReachFromIs ==
    ASSUME NEW from, NEW edges, NEW n \in Nat
    PROVE  \E f : /\ f[0] = from
                  /\ \A i \in 1..n : f[i] = Widen(edges, f[i-1])
                  /\ ReachFrom(from, edges, n) = f[n]
<1> DEFINE f == CHOOSE r : Rounds(from, edges, n, r)
<1>1. Rounds(from, edges, n, f)
  BY RoundsExist
<1>2. ReachFrom(from, edges, n) = f[n]
  BY DEF ReachFrom, Rounds
<1> HIDE DEF f
<1>3. f[0] = from
  BY <1>1 DEF Rounds
<1>4. ASSUME NEW i \in 1..n PROVE f[i] = Widen(edges, f[i-1])
  <2>1. i \in 0..n /\ i # 0
    OBVIOUS
  <2> QED
    BY <1>1, <2>1 DEF Rounds, Widen
<1> QED
  BY <1>2, <1>3, <1>4

\* What ReachFrom finds from y is within every closed set that has y.
LEMMA ReachFromIsLeast ==
    ASSUME NEW y, NEW edges, NEW n \in Nat, NEW T, y \in T, ClosedUnder(edges, T)
    PROVE  ReachFrom({y}, edges, n) \subseteq T
<1>1. PICK f : /\ f[0] = {y}
               /\ \A i \in 1..n : f[i] = Widen(edges, f[i-1])
               /\ ReachFrom({y}, edges, n) = f[n]
  BY ReachFromIs
<1> DEFINE S == {i \in Nat : i <= n => f[i] \subseteq T}
<1>2. 0 \in S
  BY <1>1
<1>3. ASSUME NEW i \in S PROVE i + 1 \in S
  <2> SUFFICES ASSUME i + 1 <= n PROVE f[i+1] \subseteq T
    OBVIOUS
  <2>1. f[i] \subseteq T
    OBVIOUS
  <2>2. f[i+1] = Widen(edges, f[i])
    <3>1. i + 1 \in 1..n /\ (i + 1) - 1 = i
      OBVIOUS
    <3> QED
      BY <1>1, <3>1
  <2> QED
    BY <2>1, <2>2 DEF Widen, ClosedUnder
<1>4. S \in SUBSET Nat
  OBVIOUS
<1> HIDE DEF S
<1>5. S = Nat
  BY <1>2, <1>3, <1>4, Induction
<1> QED
  BY <1>1, <1>5 DEF S

\* As many rounds as there are nodes are enough: what it finds has y and is
\* closed.
LEMMA ReachFromIsClosed ==
    ASSUME NEW nodes, IsFiniteSet(nodes), NEW edges \in SUBSET (nodes \X nodes),
           NEW y \in nodes
    PROVE  LET R == ReachFrom({y}, edges, Cardinality(nodes))
           IN  R \subseteq nodes /\ y \in R /\ ClosedUnder(edges, R)
<1> DEFINE n == Cardinality(nodes)
<1>1. n \in Nat
  BY FS_CardinalityType
<1> HIDE DEF n
<1>2. PICK f : /\ f[0] = {y}
               /\ \A i \in 1..n : f[i] = Widen(edges, f[i-1])
               /\ ReachFrom({y}, edges, n) = f[n]
  BY <1>1, ReachFromIs
<1> DEFINE Good(i) == /\ f[i] \subseteq nodes /\ y \in f[i]
                      /\ ClosedUnder(edges, f[i]) \/ Cardinality(f[i]) > i
           S == {i \in Nat : i <= n => Good(i)}
<1>3. 0 \in S
  <2>1. Cardinality(f[0]) = 1
    BY <1>2, FS_Singleton
  <2> QED
    BY <1>2, <2>1
<1>4. ASSUME NEW i \in S PROVE i + 1 \in S
  <2> SUFFICES ASSUME i + 1 <= n PROVE Good(i + 1)
    OBVIOUS
  <2>1. i \in Nat /\ Good(i)
    <3>1. i \in Nat /\ (i <= n => Good(i))
      BY DEF S
    <3>2. i <= n
      BY <1>1, <3>1
    <3> QED
      BY <3>1, <3>2
  <2>2. f[i+1] = Widen(edges, f[i])
    <3>1. i + 1 \in 1..n /\ (i + 1) - 1 = i
      BY <1>1
    <3> QED
      BY <1>2, <3>1
  <2>3. f[i] \subseteq f[i+1] /\ f[i+1] \subseteq nodes
    BY <2>1, <2>2 DEF Widen
  <2>4. CASE ClosedUnder(edges, f[i])
    <3>1. f[i+1] = f[i]
      BY <2>2, <2>4 DEF Widen, ClosedUnder
    <3> QED
      BY <2>1, <2>4, <3>1
  <2>5. CASE ~ClosedUnder(edges, f[i])
    <3>1. f[i+1] # f[i]
      BY <2>2, <2>5 DEF Widen, ClosedUnder
    <3>2. IsFiniteSet(f[i+1]) /\ Cardinality(f[i+1]) \in Nat
      BY <2>3, FS_Subset, FS_CardinalityType
    <3>3. /\ Cardinality(f[i]) <= Cardinality(f[i+1])
          /\ Cardinality(f[i]) # Cardinality(f[i+1])
      BY <2>3, <3>1, <3>2, FS_Subset
    <3>4. Cardinality(f[i]) \in Nat
      BY <2>1, FS_Subset, FS_CardinalityType
    <3>5. Cardinality(f[i]) > i
      BY <2>1, <2>5
    <3>6. Cardinality(f[i+1]) > i + 1
      BY <2>1, <3>2, <3>3, <3>4, <3>5
    <3> QED
      BY <2>1, <2>3, <3>6
  <2> QED
    BY <2>4, <2>5
<1>5. S \in SUBSET Nat
  OBVIOUS
<1> HIDE DEF S
<1>6. S = Nat
  BY <1>3, <1>4, <1>5, Induction
<1>7. Good(n)
  BY <1>1, <1>6 DEF S
<1>8. Cardinality(f[n]) <= n
  BY <1>7, FS_Subset DEF n
<1>9. IsFiniteSet(f[n]) /\ Cardinality(f[n]) \in Nat
  BY <1>7, FS_Subset, FS_CardinalityType
<1>10. ~(Cardinality(f[n]) > n)
  BY <1>1, <1>8, <1>9
<1>11. ReachFrom({y}, edges, n) = f[n]
  BY <1>2
<1> QED
  BY <1>7, <1>10, <1>11 DEF n

\* computeReachable finds the steps that the edges lead to from the entry, and
\* no other, whatever the graph: its rounds are as many as there are steps,
\* which is enough.
THEOREM ReachableIsReached ==
    ASSUME NEW g, IsFiniteSet(g.steps), g.entry \in g.steps, EndpointsResolve(g)
    PROVE  \A s \in g.steps :
               s \in ComputeReachable(g) <=>
                   LeadsTo(g.steps, Edges(g, DOMAIN g.transitions), g.entry, s)
<1> DEFINE E == Edges(g, DOMAIN g.transitions)
           n == Cardinality(g.steps)
<1>1. E \in SUBSET (g.steps \X g.steps)
  BY DEF Edges, EndpointsResolve
<1>2. n \in Nat
  BY FS_CardinalityType
<1> HIDE DEF E
<1> DEFINE R == ReachFrom({g.entry}, E, n)
<1>3. R \subseteq g.steps /\ g.entry \in R /\ ClosedUnder(E, R)
  BY <1>1, ReachFromIsClosed
<1>4. \A T : g.entry \in T /\ ClosedUnder(E, T) => R \subseteq T
  BY <1>2, ReachFromIsLeast
<1>5. ComputeReachable(g) = R
  BY DEF ComputeReachable, E
<1> HIDE DEF R, n
<1>6. ASSUME NEW s \in g.steps PROVE s \in R <=> LeadsTo(g.steps, E, g.entry, s)
  BY <1>3, <1>4 DEF LeadsTo
<1> QED
  BY <1>5, <1>6 DEF E

\* A graph has an unguarded cycle exactly when an unguarded edge leads back to
\* where it starts.
LEMMA CycleIs ==
    ASSUME NEW g, IsFiniteSet(g.steps)
    PROVE  HasUnguardedCycle(g) <=>
             \E e \in UnguardedEdges(g) :
                 LeadsTo(g.steps, UnguardedEdges(g), e[2], e[1])
<1> DEFINE E == UnguardedEdges(g)
           n == Cardinality(g.steps)
<1>1. E \in SUBSET (g.steps \X g.steps)
  BY DEF UnguardedEdges
<1>2. n \in Nat
  BY FS_CardinalityType
<1> HIDE DEF E
<1>3. ASSUME NEW e \in E
      PROVE  e[1] \in ReachFrom({e[2]}, E, n) <=> LeadsTo(g.steps, E, e[2], e[1])
  <2>1. e[1] \in g.steps /\ e[2] \in g.steps
    BY <1>1
  <2>2. LET R == ReachFrom({e[2]}, E, n)
        IN  R \subseteq g.steps /\ e[2] \in R /\ ClosedUnder(E, R)
    BY <1>1, <2>1, ReachFromIsClosed
  <2>3. \A T : e[2] \in T /\ ClosedUnder(E, T) => ReachFrom({e[2]}, E, n) \subseteq T
    BY <1>2, ReachFromIsLeast
  <2> QED
    BY <2>2, <2>3 DEF LeadsTo
<1> QED
  BY <1>3 DEF HasUnguardedCycle, E

-----------------------------------------------------------------------------
(* The search                                                              *)

Calls == [node : graph.steps, rest : SUBSET graph.steps]

Blacks == {n \in graph.steps : color[n] = "black"}

TypesOK ==
    /\ graph \in Graphs
    /\ color \in [graph.steps -> {"white", "gray", "black"}]
    /\ stack \in Seq(Calls)
    /\ found \in Seq(graph.steps)

\* The gray steps are those of the open calls, one call each.
StackIsGray ==
    /\ \A n \in graph.steps :
           color[n] = "gray" <=> \E i \in 1..Len(stack) : stack[i].node = n
    /\ \A i, j \in 1..Len(stack) : stack[i].node = stack[j].node => i = j

\* Each open call was made over an edge of the one below.
StackIsAPath ==
    \A i, j \in 1..Len(stack) :
        j = i + 1 => <<stack[i].node, stack[j].node>> \in UnguardedEdges(graph)

\* What a call has visited is black, or it is the call above.
VisitedIsBlack ==
    \A i \in 1..Len(stack) : \A m \in graph.steps :
        /\ m \in stack[i].rest => <<stack[i].node, m>> \in UnguardedEdges(graph)
        /\ <<stack[i].node, m>> \in UnguardedEdges(graph) =>
              \/ m \in stack[i].rest
              \/ color[m] = "black"
              \/ \E j \in 1..Len(stack) : j = i + 1 /\ stack[j].node = m

\* Nothing leads back to a black step: when it became black, its successors
\* were all among the steps that were black before, and no way led out of
\* these.
BlackIsClear ==
    /\ ClosedUnder(UnguardedEdges(graph), Blacks)
    /\ \A e \in UnguardedEdges(graph) : e[1] \in Blacks =>
           ~LeadsTo(graph.steps, UnguardedEdges(graph), e[2], e[1])

\* What is reported is a closed walk.
FoundIsACycle ==
    found # <<>> =>
        /\ Len(found) > 1 /\ found[1] = found[Len(found)]
        /\ \A i, j \in 1..Len(found) :
               j = i + 1 => <<found[i], found[j]>> \in UnguardedEdges(graph)

SearchInv == /\ TypesOK /\ StackIsGray /\ StackIsAPath /\ VisitedIsBlack
             /\ BlackIsClear /\ FoundIsACycle

\* Both ends of an unguarded edge are steps.
LEMMA EdgesAreJoined ==
    ASSUME NEW g
    PROVE  \A e \in UnguardedEdges(g) :
               e[1] \in g.steps /\ e[2] \in g.steps /\ e = <<e[1], e[2]>>
BY DEF UnguardedEdges

\* The adjacency lists are the unguarded edges.
LEMMA AdjacentIs ==
    ASSUME NEW n \in graph.steps
    PROVE  /\ Adjacent(n) \subseteq graph.steps
           /\ \A m : m \in Adjacent(n) <=> <<n, m>> \in UnguardedEdges(graph)
<1>1. Adjacent(n) \subseteq graph.steps
  BY DEF Adjacent
<1>2. ASSUME NEW m \in Adjacent(n) PROVE <<n, m>> \in UnguardedEdges(graph)
  <2>1. PICK t \in DOMAIN graph.transitions :
            /\ graph.transitions[t].source = n /\ ~graph.transitions[t].guarded
            /\ m = graph.transitions[t].target
    BY DEF Adjacent, Outgoing
  <2> QED
    BY <1>1, <2>1 DEF UnguardedEdges, Edges
<1>3. ASSUME NEW m, <<n, m>> \in UnguardedEdges(graph) PROVE m \in Adjacent(n)
  <2>1. m \in graph.steps
    BY <1>3 DEF UnguardedEdges
  <2>2. PICK t \in DOMAIN graph.transitions :
            /\ ~graph.transitions[t].guarded
            /\ <<n, m>> = <<graph.transitions[t].source, graph.transitions[t].target>>
    BY <1>3 DEF UnguardedEdges, Edges
  <2> QED
    BY <2>1, <2>2 DEF Adjacent, Outgoing
<1> QED
  BY <1>1, <1>2, <1>3

\* Visiting n takes it from what the top call has left.
LEMMA ExaminedIs ==
    ASSUME TypesOK, NEW n, stack # <<>>
    PROVE  /\ Examined(n) \in Seq(Calls)
           /\ Len(Examined(n)) = Len(stack)
           /\ \A i \in 1..Len(stack) :
                 /\ Examined(n)[i].node = stack[i].node
                 /\ Examined(n)[i].rest = IF i = Len(stack) THEN stack[i].rest \ {n}
                                          ELSE stack[i].rest
<1>1. Len(stack) \in 1..Len(stack) /\ stack[Len(stack)] \in Calls
  BY DEF TypesOK
<1> DEFINE call == [stack[Len(stack)] EXCEPT !.rest = @ \ {n}]
<1>2. /\ call \in Calls
      /\ call.node = stack[Len(stack)].node
      /\ call.rest = stack[Len(stack)].rest \ {n}
  BY <1>1 DEF Calls
<1>3. Examined(n) = [stack EXCEPT ![Len(stack)] = call]
  BY DEF Examined
<1> HIDE DEF call
<1>4. stack \in Seq(Calls)
  BY DEF TypesOK
<1>5. /\ Examined(n) \in Seq(Calls)
      /\ Len(Examined(n)) = Len(stack)
  BY <1>1, <1>2, <1>3, <1>4
<1>6. ASSUME NEW i \in 1..Len(stack)
      PROVE  Examined(n)[i] = IF i = Len(stack) THEN call ELSE stack[i]
  BY <1>1, <1>3, <1>4, <1>6
<1> QED
  BY <1>2, <1>5, <1>6

\* A call of dfs pushes.
LEMMA EnterIs ==
    ASSUME NEW n \in graph.steps, NEW calls \in Seq(Calls), Enter(n, calls),
           color \in [graph.steps -> {"white", "gray", "black"}]
    PROVE  /\ stack' \in Seq(Calls)
           /\ Len(stack') = Len(calls) + 1
           /\ \A i \in 1..Len(calls) : stack'[i] = calls[i]
           /\ stack'[Len(stack')].node = n
           /\ stack'[Len(stack')].rest = Adjacent(n)
           /\ color' \in [graph.steps -> {"white", "gray", "black"}]
           /\ \A m \in graph.steps : color'[m] = IF m = n THEN "gray" ELSE color[m]
<1> DEFINE call == [node |-> n, rest |-> Adjacent(n)]
<1>1. call \in Calls /\ call.node = n /\ call.rest = Adjacent(n)
  BY AdjacentIs DEF Calls
<1>2. stack' = Append(calls, call)
  BY DEF Enter
<1> HIDE DEF call
<1> QED
  BY <1>1, <1>2 DEF Enter

\* Whoever calls dfs: over an edge from the top of the stack, if there is one,
\* and of what the calls have left only n may have been taken from the top.
LEMMA EnterKeeps ==
    ASSUME SearchInv, NEW n \in graph.steps, color[n] = "white",
           NEW calls \in Seq(Calls), Enter(n, calls), UNCHANGED <<graph, found>>,
           Len(calls) = Len(stack),
           \A i \in 1..Len(stack) :
               /\ calls[i].node = stack[i].node
               /\ calls[i].rest \subseteq stack[i].rest
               /\ \A m \in stack[i].rest \ calls[i].rest : m = n /\ i = Len(stack)
               /\ i = Len(stack) => <<stack[i].node, n>> \in UnguardedEdges(graph)
    PROVE  SearchInv'
<1> DEFINE k == Len(stack)
<1>1. /\ k \in Nat /\ stack \in Seq(Calls) /\ found \in Seq(graph.steps)
      /\ color \in [graph.steps -> {"white", "gray", "black"}]
  BY DEF SearchInv, TypesOK
<1>2. /\ stack' \in Seq(Calls)
      /\ Len(stack') = k + 1
      /\ \A i \in 1..k : stack'[i] = calls[i]
      /\ stack'[k + 1].node = n
      /\ stack'[k + 1].rest = Adjacent(n)
      /\ color' \in [graph.steps -> {"white", "gray", "black"}]
      /\ \A m \in graph.steps : color'[m] = IF m = n THEN "gray" ELSE color[m]
  BY <1>1, EnterIs
<1>3. graph' = graph /\ found' = found
  OBVIOUS
<1>4. TypesOK'
  BY <1>2, <1>3 DEF SearchInv, TypesOK, Calls
<1>a. \A i \in 1..k : calls[i].node = stack[i].node
  OBVIOUS
<1>b. \A i \in 1..k : stack[i] \in Calls
  BY <1>1
<1> HIDE DEF k
<1>5. ASSUME NEW i \in 1..Len(stack')
      PROVE  \/ i \in 1..k /\ stack'[i].node = stack[i].node /\ stack'[i] = calls[i]
             \/ i = k + 1 /\ stack'[i].node = n
  <2>1. i \in 1..k \/ i = k + 1
    BY <1>1, <1>2
  <2> QED
    BY <1>2, <1>a, <2>1
<1>6. ASSUME NEW i \in 1..k
      PROVE  i \in 1..Len(stack') /\ stack'[i].node = stack[i].node
  <2>1. i \in 1..Len(stack')
    BY <1>1, <1>2
  <2> QED
    BY <1>2, <1>a, <2>1
<1>7. k + 1 \in 1..Len(stack') /\ stack'[k + 1].node = n
  BY <1>1, <1>2
<1>8. ASSUME NEW i \in 1..k PROVE stack[i].node # n /\ stack[i].node \in graph.steps
  <2>1. stack[i].node \in graph.steps
    BY <1>b DEF Calls
  <2>2. color[n] # "gray"
    OBVIOUS
  <2> QED
    BY <2>1, <2>2 DEF SearchInv, StackIsGray, k
<1>9. StackIsGray'
  <2>1. ASSUME NEW m \in graph.steps
        PROVE  color'[m] = "gray" <=> \E i \in 1..Len(stack') : stack'[i].node = m
    <3>1. CASE m = n
      BY <1>2, <1>7, <3>1
    <3>2. CASE m # n
      <4>1. color'[m] = "gray" <=> color[m] = "gray"
        BY <1>2, <3>2
      <4>2. color[m] = "gray" <=> \E i \in 1..k : stack[i].node = m
        BY DEF SearchInv, StackIsGray, k
      <4> QED
        BY <1>5, <1>6, <3>2, <4>1, <4>2
    <3> QED
      BY <3>1, <3>2
  <2>2. ASSUME NEW i \in 1..Len(stack'), NEW j \in 1..Len(stack'),
               stack'[i].node = stack'[j].node
        PROVE  i = j
    <3>1. \A a, b \in 1..k : stack[a].node = stack[b].node => a = b
      BY DEF SearchInv, StackIsGray, k
    <3> QED
      BY <1>5, <1>8, <2>2, <3>1
  <2> QED
    BY <1>3, <2>1, <2>2 DEF StackIsGray
<1>10. StackIsAPath'
  <2>1. ASSUME NEW i \in 1..Len(stack'), NEW j \in 1..Len(stack'), j = i + 1
        PROVE  <<stack'[i].node, stack'[j].node>> \in UnguardedEdges(graph)
    <3>1. i \in 1..k
      BY <1>1, <1>2, <2>1
    <3>2. CASE j = k + 1
      <4>1. i = k
        BY <1>1, <2>1, <3>1, <3>2
      <4>2. <<stack[i].node, n>> \in UnguardedEdges(graph)
        BY <3>1, <4>1 DEF k
      <4> QED
        BY <1>6, <1>7, <3>1, <3>2, <4>2
    <3>3. CASE j # k + 1
      <4>1. j \in 1..k
        BY <1>1, <1>2, <3>3
      <4>2. <<stack[i].node, stack[j].node>> \in UnguardedEdges(graph)
        BY <2>1, <3>1, <4>1 DEF SearchInv, StackIsAPath, k
      <4> QED
        BY <1>6, <3>1, <4>1, <4>2
    <3> QED
      BY <3>2, <3>3
  <2> QED
    BY <1>3, <2>1 DEF StackIsAPath
<1>11. Blacks' = Blacks
  BY <1>2, <1>3 DEF Blacks
<1>12. VisitedIsBlack'
  <2>1. ASSUME NEW i \in 1..Len(stack'), NEW m \in graph.steps
        PROVE  /\ m \in stack'[i].rest =>
                     <<stack'[i].node, m>> \in UnguardedEdges(graph)
               /\ <<stack'[i].node, m>> \in UnguardedEdges(graph) =>
                     \/ m \in stack'[i].rest
                     \/ color'[m] = "black"
                     \/ \E j \in 1..Len(stack') : j = i + 1 /\ stack'[j].node = m
    <3>1. CASE i = k + 1
      BY <1>2, <3>1, AdjacentIs
    <3>2. CASE i \in 1..k
      <4>1. /\ m \in stack[i].rest => <<stack[i].node, m>> \in UnguardedEdges(graph)
            /\ <<stack[i].node, m>> \in UnguardedEdges(graph) =>
                  \/ m \in stack[i].rest
                  \/ color[m] = "black"
                  \/ \E j \in 1..k : j = i + 1 /\ stack[j].node = m
        BY <3>2 DEF SearchInv, VisitedIsBlack, k
      <4>2. /\ stack'[i].node = stack[i].node /\ stack'[i].rest = calls[i].rest
            /\ calls[i].rest \subseteq stack[i].rest
        BY <1>2, <1>6, <3>2 DEF k
      <4>3. m \in stack'[i].rest => <<stack'[i].node, m>> \in UnguardedEdges(graph)
        BY <4>1, <4>2
      <4>4. ASSUME m \in stack[i].rest, m \notin calls[i].rest
            PROVE  \E j \in 1..Len(stack') : j = i + 1 /\ stack'[j].node = m
        <5>1. m = n /\ i = k
          BY <3>2, <4>4 DEF k
        <5> QED
          BY <1>7, <5>1
      <4>5. color[m] = "black" => color'[m] = "black"
        BY <1>2
      <4>6. ASSUME NEW j \in 1..k, j = i + 1, stack[j].node = m
            PROVE  \E l \in 1..Len(stack') : l = i + 1 /\ stack'[l].node = m
        BY <1>6, <4>6
      <4> QED
        BY <4>1, <4>2, <4>3, <4>4, <4>5, <4>6
    <3> QED
      BY <1>5, <3>1, <3>2
  <2> QED
    BY <1>3, <2>1 DEF VisitedIsBlack
<1>13. BlackIsClear'
  BY <1>3, <1>11 DEF SearchInv, BlackIsClear
<1>14. FoundIsACycle'
  BY <1>3 DEF SearchInv, FoundIsACycle
<1> QED
  BY <1>4, <1>9, <1>10, <1>12, <1>13, <1>14 DEF SearchInv

\* Before the search, everything is white.
LEMMA SearchStarts == Init => SearchInv
<1> SUFFICES ASSUME Init PROVE SearchInv
  OBVIOUS
<1>1. Len(stack) = 0 /\ 1..Len(stack) = {}
  BY DEF Init
<1>2. Blacks = {}
  BY DEF Init, Blacks
<1>3. TypesOK
  BY DEF Init, TypesOK
<1>4. StackIsGray
  BY <1>1 DEF Init, StackIsGray
<1>5. StackIsAPath /\ VisitedIsBlack
  BY <1>1 DEF StackIsAPath, VisitedIsBlack
<1>6. BlackIsClear
  BY <1>2 DEF BlackIsClear, ClosedUnder
<1>7. FoundIsACycle
  BY DEF Init, FoundIsACycle
<1> QED
  BY <1>3, <1>4, <1>5, <1>6, <1>7 DEF SearchInv

\* The stack while a search is on.
LEMMA TopIs ==
    ASSUME TypesOK, stack # <<>>
    PROVE  /\ Len(stack) \in Nat /\ Len(stack) \in 1..Len(stack)
           /\ Top = stack[Len(stack)]
           /\ Top.node \in graph.steps /\ Top.rest \subseteq graph.steps
<1>1. Len(stack) \in Nat /\ Len(stack) \in 1..Len(stack) /\ stack[Len(stack)] \in Calls
  BY DEF TypesOK
<1> QED
  BY <1>1 DEF Top, Calls

\* The outer loop of findUnguardedCycle calls dfs with nothing open.
LEMMA StartAtKeeps ==
    ASSUME SearchInv, NEW n \in graph.steps, StartAt(n)
    PROVE  SearchInv'
<1>1. stack \in Seq(Calls) /\ 1..Len(stack) = {}
  BY DEF StartAt, SearchInv, TypesOK
<1> QED
  BY <1>1, EnterKeeps DEF StartAt

\* dfs calls itself at a white successor, which the caller has then visited.
LEMMA DescendKeeps ==
    ASSUME SearchInv, stack # <<>>, NEW n \in Top.rest, Descend(n)
    PROVE  SearchInv'
<1>1. TypesOK
  BY DEF SearchInv
<1>2. n \in graph.steps /\ <<Top.node, n>> \in UnguardedEdges(graph)
  BY <1>1, TopIs DEF SearchInv, VisitedIsBlack
<1>3. /\ Examined(n) \in Seq(Calls)
      /\ Len(Examined(n)) = Len(stack)
      /\ \A i \in 1..Len(stack) :
            /\ Examined(n)[i].node = stack[i].node
            /\ Examined(n)[i].rest = IF i = Len(stack) THEN stack[i].rest \ {n}
                                     ELSE stack[i].rest
  BY <1>1, ExaminedIs
<1>4. ASSUME NEW i \in 1..Len(stack)
      PROVE  /\ Examined(n)[i].node = stack[i].node
             /\ Examined(n)[i].rest \subseteq stack[i].rest
             /\ \A m \in stack[i].rest \ Examined(n)[i].rest : m = n /\ i = Len(stack)
             /\ i = Len(stack) => <<stack[i].node, n>> \in UnguardedEdges(graph)
  BY <1>2, <1>3 DEF Top
<1>5. color[n] = "white" /\ Enter(n, Examined(n)) /\ UNCHANGED <<graph, found>>
  BY DEF Descend
<1> QED
  BY <1>2, <1>3, <1>4, <1>5, EnterKeeps

\* A black successor only leaves what its call has still to visit.
LEMMA SkipKeeps ==
    ASSUME SearchInv, stack # <<>>, NEW n \in Top.rest, Skip(n)
    PROVE  SearchInv'
<1>1. TypesOK
  BY DEF SearchInv
<1>2. /\ stack' \in Seq(Calls)
      /\ Len(stack') = Len(stack)
      /\ \A i \in 1..Len(stack) :
            /\ stack'[i].node = stack[i].node
            /\ stack'[i].rest = IF i = Len(stack) THEN stack[i].rest \ {n}
                               ELSE stack[i].rest
  BY <1>1, ExaminedIs DEF Skip
<1>3. graph' = graph /\ color' = color /\ found' = found /\ color[n] = "black"
  BY DEF Skip
<1>g. graph' = graph
  BY DEF Skip
<1>4. TypesOK'
  BY <1>1, <1>2, <1>3 DEF TypesOK, Calls
<1> DEFINE k == Len(stack)
<1>k. Len(stack') = k /\ k \in Nat
  BY <1>1, <1>2 DEF TypesOK
<1>n. \A i \in 1..k : stack'[i].node = stack[i].node
  BY <1>2
<1>r. \A i \in 1..k : \A m : m # n => (m \in stack'[i].rest <=> m \in stack[i].rest)
  BY <1>2
<1>s. \A i \in 1..k : stack'[i].rest \subseteq stack[i].rest
  BY <1>2
<1>a. /\ \A m \in graph.steps : color[m] = "gray" <=> \E i \in 1..k : stack[i].node = m
      /\ \A i, j \in 1..k : stack[i].node = stack[j].node => i = j
      /\ \A i, j \in 1..k :
            j = i + 1 => <<stack[i].node, stack[j].node>> \in UnguardedEdges(graph)
  BY DEF SearchInv, StackIsGray, StackIsAPath
<1>b. \A i \in 1..k : \A m \in graph.steps :
          /\ m \in stack[i].rest => <<stack[i].node, m>> \in UnguardedEdges(graph)
          /\ <<stack[i].node, m>> \in UnguardedEdges(graph) =>
                \/ m \in stack[i].rest
                \/ color[m] = "black"
                \/ \E j \in 1..k : j = i + 1 /\ stack[j].node = m
  BY DEF SearchInv, VisitedIsBlack
<1> HIDE DEF k
<1>5. StackIsGray' /\ StackIsAPath'
  <2>1. StackIsGray'
    BY <1>3, <1>k, <1>n, <1>a DEF StackIsGray
  <2>2. StackIsAPath'
    BY <1>3, <1>k, <1>n, <1>a DEF StackIsAPath
  <2> QED
    BY <2>1, <2>2
<1>6. VisitedIsBlack'
  <2>1. ASSUME NEW i \in 1..k, NEW m \in graph.steps
        PROVE  /\ m \in stack'[i].rest =>
                     <<stack'[i].node, m>> \in UnguardedEdges(graph)
               /\ <<stack'[i].node, m>> \in UnguardedEdges(graph) =>
                     \/ m \in stack'[i].rest
                     \/ color'[m] = "black"
                     \/ \E j \in 1..k : j = i + 1 /\ stack'[j].node = m
    <3>1. \A j \in 1..k : j = i + 1 /\ stack[j].node = m =>
              j = i + 1 /\ stack'[j].node = m
      BY <1>n
    <3>2. color'[n] = "black" /\ color'[m] = color[m]
      BY <1>3
    <3>3. m # n => (m \in stack'[i].rest <=> m \in stack[i].rest)
      BY <1>r
    <3> QED
      BY <1>n, <1>s, <1>b, <3>1, <3>2, <3>3
  <2>2. 1..Len(stack') = 1..k
    BY <1>k
  <2>3. UnguardedEdges(graph)' = UnguardedEdges(graph) /\ graph.steps' = graph.steps
    BY <1>g
  <2> QED
    BY Zenon, <2>1, <2>2, <2>3 DEF VisitedIsBlack
<1>7. BlackIsClear' /\ FoundIsACycle'
  BY <1>3 DEF SearchInv, BlackIsClear, Blacks, FoundIsACycle
<1> QED
  BY <1>4, <1>5, <1>6, <1>7 DEF SearchInv

\* A gray successor is on the stack: the stack from it on, and back to it, is
\* a closed walk.
LEMMA BackEdgeKeeps ==
    ASSUME SearchInv, stack # <<>>, found = <<>>, NEW n \in Top.rest, BackEdge(n)
    PROVE  SearchInv'
<1> DEFINE k == Len(stack)
           from == CHOOSE i \in DOMAIN stack : stack[i].node = n
           walk == [i \in 1..(k - from + 1) |-> stack[from + i - 1].node]
<1>1. TypesOK
  BY DEF SearchInv
<1>2. /\ k \in Nat /\ k \in 1..k /\ stack \in Seq(Calls) /\ DOMAIN stack = 1..k
      /\ Top = stack[k]
  BY <1>1, TopIs DEF TypesOK
<1>3. n \in graph.steps /\ <<stack[k].node, n>> \in UnguardedEdges(graph)
  BY <1>1, TopIs DEF SearchInv, VisitedIsBlack
<1>4. \E i \in 1..k : stack[i].node = n
  BY <1>3 DEF BackEdge, SearchInv, StackIsGray
<1>5. from \in 1..k /\ stack[from].node = n
  BY <1>2, <1>4
<1>6. found' = Append(walk, n) /\ UNCHANGED <<graph, color, stack>>
  BY DEF BackEdge
<1>7. \A i \in 1..k : stack[i].node \in graph.steps
  <2>1. \A i \in 1..k : stack[i] \in Calls
    BY <1>2
  <2> QED
    BY <2>1 DEF Calls
<1>8. \A i, j \in 1..k :
          j = i + 1 => <<stack[i].node, stack[j].node>> \in UnguardedEdges(graph)
  BY DEF SearchInv, StackIsAPath
<1> HIDE DEF from, k
<1> DEFINE l == k - from + 1
<1>9. l \in Nat /\ l >= 1 /\ from + l - 1 = k
  BY <1>2, <1>5
<1>10. \A i \in 1..l : from + i - 1 \in 1..k
  BY <1>2, <1>5
<1>11. /\ walk \in Seq(graph.steps) /\ Len(walk) = l
       /\ \A i \in 1..l : walk[i] = stack[from + i - 1].node
  BY <1>7, <1>9, <1>10
<1> HIDE DEF walk
<1>12. /\ found' \in Seq(graph.steps) /\ Len(found') = l + 1
       /\ \A i \in 1..l : found'[i] = stack[from + i - 1].node
       /\ found'[l + 1] = n
  BY <1>3, <1>6, <1>9, <1>11
<1>13. found'[1] = n
  <2>1. 1 \in 1..l /\ from + 1 - 1 = from
    BY <1>5, <1>9
  <2> QED
    BY <1>5, <1>12, <2>1
<1>14. ASSUME NEW i \in 1..(l+1), NEW j \in 1..(l+1), j = i + 1
       PROVE  <<found'[i], found'[j]>> \in UnguardedEdges(graph)
  <2>1. i \in 1..l
    BY <1>9, <1>14
  <2>2. CASE j = l + 1
    <3>1. i = l
      BY <1>9, <1>14, <2>1, <2>2
    <3>2. found'[i] = stack[k].node
      BY <1>9, <1>12, <2>1, <3>1
    <3> QED
      BY <1>3, <1>12, <2>2, <3>2
  <2>3. CASE j # l + 1
    <3>1. j \in 1..l
      BY <1>9, <2>3
    <3>2. from + j - 1 = (from + i - 1) + 1
      BY <1>5, <1>14
    <3> QED
      BY <1>8, <1>10, <1>12, <2>1, <3>1, <3>2
  <2> QED
    BY <2>2, <2>3
<1> HIDE DEF l
<1>15. FoundIsACycle'
  BY <1>6, <1>9, <1>12, <1>13, <1>14 DEF FoundIsACycle
<1>16. TypesOK'
  BY <1>1, <1>6, <1>12 DEF TypesOK, Calls
<1>17. StackIsGray' /\ StackIsAPath' /\ VisitedIsBlack' /\ BlackIsClear'
  BY <1>6 DEF SearchInv, StackIsGray, StackIsAPath, VisitedIsBlack, BlackIsClear, Blacks
<1> QED
  BY <1>15, <1>16, <1>17 DEF SearchInv

\* The step that becomes black: the black ones have its successors.
LEMMA RetreatKeeps ==
    ASSUME SearchInv, Retreat
    PROVE  SearchInv'
<1> DEFINE k == Len(stack)
           n == Top.node
           E == UnguardedEdges(graph)
<1>1. TypesOK /\ stack # <<>>
  BY DEF SearchInv, Retreat
<1>2. /\ k \in Nat /\ k \in 1..k /\ stack \in Seq(Calls) /\ n = stack[k].node
      /\ n \in graph.steps /\ stack[k].rest = {}
      /\ color \in [graph.steps -> {"white", "gray", "black"}]
  BY <1>1, TopIs DEF TypesOK, Retreat
<1>3. stack' = SubSeq(stack, 1, k - 1) /\ graph' = graph /\ found' = found
  BY DEF Retreat
<1>4. /\ color' \in [graph.steps -> {"white", "gray", "black"}]
      /\ \A m \in graph.steps : color'[m] = IF m = n THEN "black" ELSE color[m]
  BY <1>2 DEF Retreat
<1> HIDE DEF k, n
<1>5. /\ stack' \in Seq(Calls) /\ Len(stack') = k - 1
      /\ \A i \in 1..(k-1) : stack'[i] = stack[i]
  <2>1. \A i \in 1..(k-1) : stack[i] \in Calls
    BY <1>2 DEF k
  <2>2. k - 1 \in Nat /\ 1 + (k - 1) - 1 = k - 1
    BY <1>2
  <2>3. \A i \in 1..(k-1) : 1 + i - 1 = i
    OBVIOUS
  <2> QED
    BY <1>2, <1>3, <2>1, <2>2, <2>3, SubSeqProperties DEF k
<1>6. \A i \in 1..(k-1) : i \in 1..k /\ i # k
  BY <1>2
<1>7. \A i, j \in 1..k : stack[i].node = stack[j].node => i = j
  BY DEF SearchInv, StackIsGray, k
<1>8. \A m \in graph.steps : color[m] = "gray" <=> \E i \in 1..k : stack[i].node = m
  BY DEF SearchInv, StackIsGray, k
<1>9. color[n] = "gray" /\ n \notin Blacks
  BY <1>2, <1>8 DEF Blacks
<1>10. ASSUME NEW m, <<n, m>> \in E PROVE m \in Blacks
  <2>1. m \in graph.steps
    BY <1>10, EdgesAreJoined
  <2>2. \/ color[m] = "black"
        \/ \E j \in 1..k : j = k + 1 /\ stack[j].node = m
    BY <1>2, <1>10, <2>1 DEF SearchInv, VisitedIsBlack, k
  <2> QED
    BY <1>2, <2>1, <2>2 DEF Blacks
<1>11. Blacks' = Blacks \cup {n}
  BY <1>2, <1>3, <1>4 DEF Blacks
<1>12. TypesOK'
  BY <1>1, <1>3, <1>4, <1>5 DEF TypesOK, Calls
<1>13. StackIsGray'
  <2>1. ASSUME NEW m \in graph.steps
        PROVE  color'[m] = "gray" <=> \E i \in 1..(k-1) : stack'[i].node = m
    <3>1. CASE m = n
      BY <1>2, <1>4, <1>5, <1>6, <1>7, <3>1
    <3>2. CASE m # n
      <4>1. \A i \in 1..k : stack[i].node = m => i \in 1..(k-1)
        BY <1>2, <3>2
      <4> QED
        BY <1>4, <1>5, <1>6, <1>8, <3>2, <4>1
    <3> QED
      BY <3>1, <3>2
  <2>2. \A i, j \in 1..(k-1) : stack'[i].node = stack'[j].node => i = j
    BY <1>5, <1>6, <1>7
  <2> QED
    BY <1>3, <1>5, <2>1, <2>2 DEF StackIsGray
<1>14. StackIsAPath'
  <2>1. \A i, j \in 1..k :
            j = i + 1 => <<stack[i].node, stack[j].node>> \in UnguardedEdges(graph)
    BY DEF SearchInv, StackIsAPath, k
  <2> QED
    BY <1>3, <1>5, <1>6, <2>1 DEF StackIsAPath
<1>15. VisitedIsBlack'
  <2>1. ASSUME NEW i \in 1..(k-1), NEW m \in graph.steps
        PROVE  /\ m \in stack'[i].rest => <<stack'[i].node, m>> \in E
               /\ <<stack'[i].node, m>> \in E =>
                     \/ m \in stack'[i].rest
                     \/ color'[m] = "black"
                     \/ \E j \in 1..(k-1) : j = i + 1 /\ stack'[j].node = m
    <3>1. stack'[i] = stack[i] /\ i \in 1..k
      BY <1>5, <1>6
    <3>2. /\ m \in stack[i].rest => <<stack[i].node, m>> \in E
          /\ <<stack[i].node, m>> \in E =>
                \/ m \in stack[i].rest
                \/ color[m] = "black"
                \/ \E j \in 1..k : j = i + 1 /\ stack[j].node = m
      BY <3>1 DEF SearchInv, VisitedIsBlack, k
    <3>3. ASSUME NEW j \in 1..k, j = i + 1, stack[j].node = m
          PROVE  \/ color'[m] = "black"
                 \/ \E l \in 1..(k-1) : l = i + 1 /\ stack'[l].node = m
      <4>1. CASE j = k
        BY <1>2, <1>4, <3>3, <4>1
      <4>2. CASE j # k
        <5>1. j \in 1..(k-1)
          BY <1>2, <4>2
        <5> QED
          BY <1>5, <3>3, <5>1
      <4> QED
        BY <4>1, <4>2
    <3>4. color[m] = "black" => color'[m] = "black"
      BY <1>4
    <3> QED
      BY <3>1, <3>2, <3>3, <3>4
  <2> QED
    BY <1>3, <1>5, <2>1 DEF VisitedIsBlack
<1>16. BlackIsClear'
  <2>1. ClosedUnder(E, Blacks)
    BY DEF SearchInv, BlackIsClear
  <2>2. ASSUME NEW e \in E, e[1] \in Blacks \cup {n}
        PROVE  /\ e[2] \in Blacks
               /\ ~LeadsTo(graph.steps, E, e[2], e[1])
    <3>1. CASE e[1] \in Blacks
      BY <2>1, <3>1 DEF SearchInv, BlackIsClear, ClosedUnder
    <3>2. CASE e[1] = n
      <4>1. e[2] \in Blacks
        BY <1>10, <3>2, EdgesAreJoined
      <4>2. Blacks \in SUBSET graph.steps
        BY DEF Blacks
      <4> QED
        BY <1>9, <2>1, <3>2, <4>1, <4>2 DEF LeadsTo
    <3> QED
      BY <2>2, <3>1, <3>2
  <2>3. ClosedUnder(E, Blacks \cup {n})
    BY <2>2 DEF ClosedUnder
  <2> QED
    BY <1>3, <1>11, <2>2, <2>3 DEF BlackIsClear
<1>17. FoundIsACycle'
  BY <1>3 DEF SearchInv, FoundIsACycle
<1> QED
  BY <1>12, <1>13, <1>14, <1>15, <1>16, <1>17 DEF SearchInv

\* The invariant of the search, on every finite graph and for every order of
\* the adjacency lists.
THEOREM SearchIsInvariant == Spec => []SearchInv
<1>1. ASSUME SearchInv, [Next]_vars PROVE SearchInv'
  <2>1. ASSUME NEW n \in graph.steps, StartAt(n) PROVE SearchInv'
    BY <1>1, <2>1, StartAtKeeps
  <2>2. ASSUME Visit PROVE SearchInv'
    <3>1. PICK n \in Top.rest : BackEdge(n) \/ Descend(n) \/ Skip(n)
      BY <2>2 DEF Visit
    <3>2. stack # <<>> /\ found = <<>>
      BY <2>2 DEF Visit
    <3> QED
      BY <1>1, <3>1, <3>2, BackEdgeKeeps, DescendKeeps, SkipKeeps
  <2>3. ASSUME Retreat PROVE SearchInv'
    BY <1>1, <2>3, RetreatKeeps
  <2>4. ASSUME UNCHANGED vars PROVE SearchInv'
    BY <1>1, <2>4 DEF vars, SearchInv, TypesOK, Calls, StackIsGray, StackIsAPath,
        VisitedIsBlack, BlackIsClear, Blacks, FoundIsACycle
  <2> QED
    BY <1>1, <2>1, <2>2, <2>3, <2>4 DEF Next
<1> QED
  BY <1>1, SearchStarts, PTL DEF Spec

\* A closed walk leads from its second step back to its first.
LEMMA WalksClose ==
    ASSUME TypesOK, FoundIsACycle, found # <<>>
    PROVE  /\ <<found[1], found[2]>> \in UnguardedEdges(graph)
           /\ LeadsTo(graph.steps, UnguardedEdges(graph), found[2], found[1])
<1> DEFINE l == Len(found)
           E == UnguardedEdges(graph)
<1>1. /\ l \in Nat /\ l > 1 /\ found[1] = found[l]
      /\ \A i, j \in 1..l : j = i + 1 => <<found[i], found[j]>> \in E
  BY DEF TypesOK, FoundIsACycle
<1> HIDE DEF l, E
<1>2. <<found[1], found[2]>> \in E
  <2>1. 1 \in 1..l /\ 2 \in 1..l /\ 2 = 1 + 1
    BY <1>1
  <2> QED
    BY <1>1, <2>1
<1>3. ASSUME NEW T \in SUBSET graph.steps, found[2] \in T, ClosedUnder(E, T)
      PROVE  found[1] \in T
  <2> DEFINE S == {i \in Nat : i + 2 <= l => found[i + 2] \in T}
  <2>1. 0 \in S
    BY <1>3
  <2>2. ASSUME NEW i \in S PROVE i + 1 \in S
    <3> SUFFICES ASSUME (i + 1) + 2 <= l PROVE found[(i + 1) + 2] \in T
      OBVIOUS
    <3>1. i \in Nat /\ (i + 2 <= l => found[i + 2] \in T)
      BY DEF S
    <3>2. i + 2 \in 1..l /\ (i + 1) + 2 \in 1..l /\ (i + 1) + 2 = (i + 2) + 1
      BY <1>1, <3>1
    <3>3. <<found[i + 2], found[(i + 1) + 2]>> \in E
      BY <1>1, <3>2
    <3>4. found[i + 2] \in T
      BY <1>1, <3>1, <3>2
    <3> QED
      BY <1>3, <3>3, <3>4 DEF ClosedUnder
  <2>3. S \in SUBSET Nat
    OBVIOUS
  <2> HIDE DEF S
  <2>4. S = Nat
    BY <2>1, <2>2, <2>3, Induction
  <2>5. l - 2 \in S
    BY <1>1, <2>4
  <2>6. found[(l - 2) + 2] \in T
    BY <1>1, <2>5 DEF S
  <2> QED
    BY <1>1, <2>6
<1> QED
  BY <1>2, <1>3 DEF LeadsTo, E

\* AnswerIsRight on every finite graph: a cycle is reported only if there is
\* one (WalksClose), and if none is reported then all steps with an unguarded
\* edge are black, and no edge leads back to any of them (BlackIsClear).
LEMMA SearchAnswers ==
    ASSUME SearchInv
    PROVE  AnswerIsRight
<1> SUFFICES ASSUME Returned PROVE found # <<>> <=> HasUnguardedCycle(graph)
  BY DEF AnswerIsRight
<1>1. TypesOK /\ FoundIsACycle
  BY DEF SearchInv
<1>2. IsFiniteSet(graph.steps)
  BY <1>1, GraphsAssumption DEF TypesOK
<1>3. HasUnguardedCycle(graph) <=>
          \E e \in UnguardedEdges(graph) :
              LeadsTo(graph.steps, UnguardedEdges(graph), e[2], e[1])
  BY <1>2, CycleIs
<1>4. ASSUME found # <<>> PROVE HasUnguardedCycle(graph)
  <2> DEFINE e == <<found[1], found[2]>>
  <2>1. /\ e \in UnguardedEdges(graph)
        /\ LeadsTo(graph.steps, UnguardedEdges(graph), e[2], e[1])
    BY <1>1, <1>4, WalksClose
  <2> QED
    BY <1>3, <2>1
<1>5. ASSUME found = <<>>, HasUnguardedCycle(graph) PROVE FALSE
  <2>1. PICK e \in UnguardedEdges(graph) :
            LeadsTo(graph.steps, UnguardedEdges(graph), e[2], e[1])
    BY <1>3, <1>5
  <2>2. e[1] \in graph.steps /\ <<e[1], e[2]>> \in UnguardedEdges(graph)
    BY EdgesAreJoined
  <2>3. e[1] \in Roots
    BY <2>2, AdjacentIs DEF Roots
  <2>4. stack = <<>> /\ color[e[1]] # "white"
    BY <1>5, <2>3 DEF Returned
  <2>5. color[e[1]] # "gray"
    <3>1. 1..Len(stack) = {}
      BY <2>4
    <3> QED
      BY <2>2, <3>1 DEF SearchInv, StackIsGray
  <2>6. e[1] \in Blacks
    BY <1>1, <2>2, <2>4, <2>5 DEF TypesOK, Blacks
  <2> QED
    BY <2>1, <2>6 DEF SearchInv, BlackIsClear
<1> QED
  BY <1>4, <1>5

\* The search finds a cycle exactly when the unguarded edges contain one, on
\* every finite graph.
THEOREM SearchIsRight == Spec => []AnswerIsRight
<1>1. SearchInv => AnswerIsRight
  BY SearchAnswers
<1> QED
  BY <1>1, SearchIsInvariant, PTL

\* What it reports is a closed walk over unguarded edges.
THEOREM ReportsACycle == Spec => []ReportIsACycle
<1>1. ASSUME SearchInv PROVE ReportIsACycle
  <2> SUFFICES ASSUME found # <<>>
               PROVE  /\ Len(found) > 1 /\ found[1] = found[Len(found)]
                      /\ \A i \in 1..(Len(found) - 1) : found[i+1] \in Adjacent(found[i])
    BY DEF ReportIsACycle
  <2>1. found \in Seq(graph.steps) /\ Len(found) \in Nat
    BY <1>1 DEF SearchInv, TypesOK
  <2>2. ASSUME NEW i \in 1..(Len(found) - 1) PROVE found[i+1] \in Adjacent(found[i])
    <3>1. i \in 1..Len(found) /\ i + 1 \in 1..Len(found)
      BY <2>1
    <3>2. <<found[i], found[i+1]>> \in UnguardedEdges(graph)
      BY <1>1, <3>1 DEF SearchInv, FoundIsACycle
    <3>3. found[i] \in graph.steps
      BY <2>1, <3>1
    <3> QED
      BY <3>2, <3>3, AdjacentIs
  <2> QED
    BY <1>1, <2>2 DEF SearchInv, FoundIsACycle
<1> QED
  BY <1>1, SearchIsInvariant, PTL

\* Colours, stack and report are those of a search of this graph.
THEOREM TypeCorrect == Spec => []TypeOK
<1>1. ASSUME SearchInv PROVE TypeOK
  <2>1. TypesOK
    BY <1>1 DEF SearchInv
  <2>2. ASSUME NEW i \in DOMAIN stack
        PROVE  stack[i].node \in graph.steps /\ stack[i].rest \subseteq graph.steps
    <3>1. stack[i] \in Calls
      BY <2>1 DEF TypesOK
    <3> QED
      BY <3>1 DEF Calls
  <2> QED
    BY <2>1, <2>2 DEF TypesOK, TypeOK
<1> QED
  BY <1>1, SearchIsInvariant, PTL

-----------------------------------------------------------------------------
(* The dry walk through a published graph                                  *)

\* What the engine answers on a published graph: never that a step or a
\* fallback is missing, and a step to advance to over one of the edges of the
\* present one, which is the fallback only if there is one.
LEMMA DecisionFollows ==
    ASSUME NEW g, Validate(g), NEW s \in g.steps,
           NEW d \in Decisions(g, s)
    PROVE  /\ d.kind \in {"advance", "complete", "stuck"}
           /\ d \notin {Stuck("unknown_step"),
                        Stuck("fallback_transition_missing")}
           /\ d.kind = "advance" =>
                 /\ d.via \in Outgoing(g, s)
                 /\ d.via = g.fallback[s] => HasFallback(g, s)
<1> DEFINE fallback == g.fallback[s]
<1>1. PICK met \in BOOLEAN, holds \in SUBSET Outgoing(g, s) :
          d = NextStep(g, s, met, holds)
  BY DEF Decisions
<1>2. HasFallback(g, s) =>
          /\ fallback \in DOMAIN g.transitions
          /\ fallback \in Outgoing(g, s)
  BY DEF Validate, FallbacksResolve, Outgoing
<1> DEFINE matched == Matched(g, s, holds)
<1>3. matched \subseteq Outgoing(g, s) /\ fallback \notin matched
  BY DEF Matched
<1>4. Cardinality(matched) = 1 => (CHOOSE t \in matched : TRUE) \in matched
  <2>1. matched = {} => Cardinality(matched) = 0
    BY FS_EmptySet
  <2> QED
    BY <2>1
<1>5. \/ HasFallback(g, s) /\ d = Advance(g, fallback)
      \/ \E t \in matched : d = Advance(g, t)
      \/ d = Complete
      \/ \E code \in {"postcondition_unmet_no_fallback", "ambiguous_guards",
                       "no_transition_no_fallback"} : d = Stuck(code)
  <2> DEFINE chosen == CHOOSE t \in matched : TRUE
  <2>1. d = IF s \in g.post /\ ~met
            THEN IF HasFallback(g, s) THEN Advance(g, fallback)
                 ELSE Stuck("postcondition_unmet_no_fallback")
            ELSE IF Cardinality(matched) = 1 THEN Advance(g, chosen)
            ELSE IF Cardinality(matched) > 1 THEN Stuck("ambiguous_guards")
            ELSE IF HasFallback(g, s) THEN Advance(g, fallback)
            ELSE IF Outgoing(g, s) = {} THEN Complete
            ELSE Stuck("no_transition_no_fallback")
    BY <1>1, <1>2 DEF NextStep
  <2> HIDE DEF matched, chosen
  <2>2. Cardinality(matched) = 1 => chosen \in matched
    BY <1>4 DEF chosen
  <2> QED
    BY Zenon, <2>1, <2>2
<1> HIDE DEF matched
<1>6. \A t : Advance(g, t).kind = "advance" /\ Advance(g, t).via = t
  BY DEF Advance
<1>7. \A code : /\ Stuck(code).kind = "stuck"
               /\ Stuck(code).code = code
  BY DEF Stuck
<1>8. Complete.kind = "complete"
  BY DEF Complete
<1> QED
  BY <1>2, <1>3, <1>5, <1>6, <1>7, <1>8

\* The fallback edges carry no guard of their own.
Plain(g) ==
    \A s \in g.steps : HasFallback(g, s) =>
        ~g.transitions[g.fallback[s]].guarded

\* The walk is on a published graph and ends where it fails; on a plain one,
\* every step entered since the last guard leads over unguarded edges to the
\* present one.
PreviewInv ==
    /\ workflow \in Workflows /\ Validate(workflow)
    /\ PublishedIsComplete
    /\ status = "failed" => current = {}
    /\ Plain(workflow) =>
          /\ ~looped
          /\ bare \subseteq workflow.steps
          /\ \A s \in current, b \in bare :
                LeadsTo(workflow.steps, UnguardedEdges(workflow), b, s)

\* The walk moves from s over one of its edges, whose guard was evaluated or
\* which is unguarded, if the graph is plain.
LEMMA MoveOnKeeps ==
    ASSUME PreviewInv, NEW s \in current, NEW t \in Outgoing(workflow, s),
           NEW guarded \in BOOLEAN, MoveOn(t, guarded), workflow' = workflow,
           Plain(workflow) => guarded \/ ~workflow.transitions[t].guarded
    PROVE  /\ current' \subseteq workflow.steps /\ status' # "failed"
           /\ Plain(workflow) =>
                 /\ ~looped'
                 /\ bare' \subseteq workflow.steps
                 /\ \A x \in current', b \in bare' :
                       LeadsTo(workflow.steps, UnguardedEdges(workflow), b, x)
<1> DEFINE n == workflow.transitions[t].target
           E == UnguardedEdges(workflow)
<1>1. /\ s \in workflow.steps /\ workflow \in Workflows /\ Validate(workflow)
  BY DEF PreviewInv, PublishedIsComplete
<1>2. /\ t \in DOMAIN workflow.transitions /\ workflow.transitions[t].source = s
  BY DEF Outgoing
<1>3. n \in workflow.steps
  BY <1>1, <1>2 DEF Validate, EndpointsResolve
<1>4. /\ current' = {n} /\ status' # "failed"
      /\ bare' = IF guarded THEN {n} ELSE bare \cup {n}
      /\ looped' = (looped \/ (~guarded /\ n \in bare))
  BY DEF MoveOn, PreviewInv
<1>5. ~workflow.transitions[t].guarded => <<s, n>> \in E
  BY <1>1, <1>2, <1>3 DEF UnguardedEdges, Edges
<1> HIDE DEF n, E
<1>6. ASSUME Plain(workflow)
      PROVE  /\ ~looped'
             /\ bare' \subseteq workflow.steps
             /\ \A b \in bare' : LeadsTo(workflow.steps, E, b, n)
  <2>1. /\ ~looped /\ bare \subseteq workflow.steps
        /\ \A b \in bare : LeadsTo(workflow.steps, E, b, s)
    BY <1>6 DEF PreviewInv, E
  <2>2. LeadsTo(workflow.steps, E, n, n)
    BY DEF LeadsTo
  <2>3. CASE guarded
    BY <1>3, <1>4, <2>1, <2>2, <2>3
  <2>4. CASE ~guarded
    <3>1. <<s, n>> \in E
      BY <1>5, <1>6, <2>4
    <3>2. \A b \in bare : LeadsTo(workflow.steps, E, b, n)
      BY <2>1, <3>1 DEF LeadsTo, ClosedUnder
    <3>3. ASSUME n \in bare PROVE FALSE
      <4> DEFINE e == <<s, n>>
      <4>1. e \in E /\ LeadsTo(workflow.steps, E, e[2], e[1])
        BY <2>1, <3>1, <3>3
      <4>2. IsFiniteSet(workflow.steps)
        BY <1>1, WorkflowsAssumption
      <4>3. HasUnguardedCycle(workflow)
        BY <4>1, <4>2, CycleIs DEF E
      <4> QED
        BY <1>1, <4>3 DEF Validate
    <3> QED
      BY <1>3, <1>4, <2>1, <2>2, <2>4, <3>2, <3>3
  <2> QED
    BY <2>3, <2>4
<1> QED
  BY <1>3, <1>4, <1>6 DEF E

\* The walk starts at the entry, which validate has found.
LEMMA PreviewStarts == PreviewInit => PreviewInv
<1> SUFFICES ASSUME PreviewInit PROVE PreviewInv
  OBVIOUS
<1>1. /\ workflow \in Workflows /\ Validate(workflow) /\ workflow.entry \in workflow.steps
      /\ current = {workflow.entry} /\ bare = {workflow.entry} /\ looped = FALSE
      /\ status = "completed" /\ last = [kind |-> "none"]
  BY DEF PreviewInit, Validate
<1>2. PublishedIsComplete
  BY <1>1 DEF PublishedIsComplete, Stuck
<1>3. LeadsTo(workflow.steps, UnguardedEdges(workflow), workflow.entry, workflow.entry)
  BY DEF LeadsTo
<1> QED
  BY <1>1, <1>2, <1>3 DEF PreviewInv

\* A timer step of a published graph has its on-expiry edge.
LEMMA TimerKeeps ==
    ASSUME PreviewInv, NEW s \in current, Timer(s), workflow' = workflow
    PROVE  PreviewInv'
<1> DEFINE t == workflow.fallback[s]
<1>1. /\ s \in workflow.steps /\ workflow \in Workflows /\ Validate(workflow)
      /\ PublishedIsComplete
  BY DEF PreviewInv, PublishedIsComplete
<1>2. /\ workflow.kind[s] = "timer" /\ last' = last
  BY DEF Timer
<1>3. HasFallback(workflow, s)
  BY <1>1, <1>2 DEF Validate, TimersResolve
<1>4. t \in DOMAIN workflow.transitions /\ t \in Outgoing(workflow, s)
  BY <1>1, <1>3 DEF Validate, FallbacksResolve, Outgoing
<1>5. MoveOn(t, FALSE)
  BY <1>3, <1>4 DEF Timer
<1>6. Plain(workflow) => ~workflow.transitions[t].guarded
  BY <1>1, <1>3 DEF Plain
<1> HIDE DEF t
<1>7. /\ current' \subseteq workflow.steps /\ status' # "failed"
      /\ Plain(workflow) =>
            /\ ~looped'
            /\ bare' \subseteq workflow.steps
            /\ \A x \in current', b \in bare' :
                  LeadsTo(workflow.steps, UnguardedEdges(workflow), b, x)
  BY <1>4, <1>5, <1>6, MoveOnKeeps
<1>8. PublishedIsComplete'
  BY <1>1, <1>2, <1>7 DEF PublishedIsComplete, Stuck
<1> QED
  BY <1>1, <1>7, <1>8 DEF PreviewInv, Plain, HasFallback

\* Any other step goes where the engine decides.
LEMMA ExecuteKeeps ==
    ASSUME PreviewInv, NEW s \in current, Execute(s), workflow' = workflow
    PROVE  PreviewInv'
<1>1. /\ s \in workflow.steps /\ workflow \in Workflows /\ Validate(workflow)
      /\ PublishedIsComplete
  BY DEF PreviewInv, PublishedIsComplete
<1>2. last' \in Decisions(workflow, s)
  BY DEF Execute
<1>3. /\ last'.kind \in {"advance", "complete", "stuck"}
      /\ last' \notin {Stuck("unknown_step"),
                      Stuck("fallback_transition_missing")}
      /\ last'.kind = "advance" =>
            /\ last'.via \in Outgoing(workflow, s)
            /\ last'.via = workflow.fallback[s] => HasFallback(workflow, s)
  BY <1>1, <1>2, DecisionFollows
<1>4. /\ current' \subseteq workflow.steps
      /\ status' = "failed" => last'.kind = "stuck" /\ current' = {}
      /\ Plain(workflow) =>
            /\ ~looped'
            /\ bare' \subseteq workflow.steps
            /\ \A x \in current', b \in bare' :
                  LeadsTo(workflow.steps, UnguardedEdges(workflow), b, x)
  <2>1. CASE last'.kind = "advance"
    <3> DEFINE t == last'.via
               guarded == Evaluated(s, t)
    <3>1. MoveOn(t, guarded)
      BY <2>1 DEF Execute
    <3>2. t \in Outgoing(workflow, s)
      BY <1>3, <2>1
    <3>3. guarded \in BOOLEAN
      BY DEF Evaluated
    <3>4. Plain(workflow) => guarded \/ ~workflow.transitions[t].guarded
      BY <1>1, <1>3, <2>1 DEF Plain, Evaluated
    <3> HIDE DEF t, guarded
    <3> QED
      BY <3>1, <3>2, <3>3, <3>4, MoveOnKeeps
  <2>2. CASE last'.kind = "complete"
    <3>1. Halt("completed")
      BY <2>2 DEF Execute
    <3> QED
      BY <3>1 DEF Halt, PreviewInv
  <2>3. CASE last'.kind = "stuck"
    <3>1. Halt("failed")
      BY <2>3 DEF Execute
    <3> QED
      BY <2>3, <3>1 DEF Halt, PreviewInv
  <2> QED
    BY <1>3, <2>1, <2>2, <2>3
<1>5. PublishedIsComplete'
  <2>1. last' \notin {Stuck("unknown_step"),
                     Stuck("fallback_transition_missing")}
    BY <1>3
  <2>2. status' = "failed" => last'.kind = "stuck"
    BY <1>4
  <2> QED
    BY <1>4, <2>1, <2>2 DEF PublishedIsComplete, Stuck
<1> QED
  BY <1>1, <1>4, <1>5 DEF PreviewInv, Plain, HasFallback

\* The invariant of the walk, on every graph that validate accepts.
LEMMA PreviewIsInvariant == PreviewSpec => []PreviewInv
<1>1. ASSUME PreviewInv, [PreviewNext]_previewVars PROVE PreviewInv'
  <2>1. ASSUME PreviewNext PROVE PreviewInv'
    <3>1. current # {} /\ workflow' = workflow
      BY <2>1 DEF PreviewNext
    <3>2. current \subseteq workflow.steps
      BY <1>1 DEF PreviewInv, PublishedIsComplete
    <3>3. PICK s \in current : Timer(s) \/ Execute(s)
      BY <2>1, <3>1, <3>2 DEF PreviewNext
    <3> QED
      BY <1>1, <3>1, <3>3, TimerKeeps, ExecuteKeeps
  <2>2. ASSUME UNCHANGED previewVars PROVE PreviewInv'
    BY <1>1, <2>2 DEF previewVars, PreviewInv, PublishedIsComplete, Plain,
        HasFallback, Stuck
  <2> QED
    BY <1>1, <2>1, <2>2
<1> QED
  BY <1>1, PreviewStarts, PTL DEF PreviewSpec

\* On every published graph, the dry walk never meets a step, a fallback or a
\* timer edge that is missing, and fails only where the engine is stuck.
THEOREM PublishedWalkIsComplete == PreviewSpec => []PublishedIsComplete
<1>1. PreviewInv => PublishedIsComplete
  BY DEF PreviewInv
<1> QED
  BY <1>1, PreviewIsInvariant, PTL

\* On every published graph whose fallback edges carry no guard of their own,
\* the walk comes back to a step only over a guard that was evaluated and held.
THEOREM PlainLoopsStayGuarded == PreviewSpec => []PlainLoopsAreGuarded
<1>1. PreviewInv => PlainLoopsAreGuarded
  BY DEF PreviewInv, Plain, PlainLoopsAreGuarded
<1> QED
  BY <1>1, PreviewIsInvariant, PTL
=============================================================================
