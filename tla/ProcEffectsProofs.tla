-------------------------- MODULE ProcEffectsProofs -------------------------
(***************************************************************************)
(* First Toposort, for every finite set of nodes and every graph over it.  *)
(* The invariant says what the counters count: the edges whose source is   *)
(* not in the order yet.  Then ProcEffects, for every program without      *)
(* recursion: the order that its inverse call graph is sorted in is one in *)
(* which a single pass over the procedures suffices.                       *)
(***************************************************************************)
EXTENDS ProcEffects, FiniteSetTheorems, WellFoundedInduction, TLAPS

EdgesLeft == edge_set = {e \in graph : e[1] \notin SortedSet}

EdgesCounted == incident_edges = [n \in Node |-> Cardinality(Into(edge_set, n))]

QueueIsReady == no_incoming = {n \in Node \ SortedSet : incident_edges[n] = 0}

\* Nothing in the order has an edge into it left, so nothing in it is freed.
SortedIsClosed == \A e \in edge_set : e[2] \notin SortedSet

KnotsAreLeft == \A S \in SUBSET Node : Knot(S) => S \cap SortedSet = {}

StatusIsRight ==
  /\ status # "sorting" => no_incoming = {}
  /\ status = "sorted" => edge_set = {}
  /\ status = "cyclic" => edge_set # {}

SortInv ==
  /\ SortTypeOK /\ EdgesLeft /\ EdgesCounted /\ QueueIsReady /\ SortedIsClosed
  /\ EdgesGoForward /\ NothingSortedTwice /\ KnotsAreLeft /\ StatusIsRight

\* The edges into a node are finitely many, and none are left at count 0.
LEMMA EdgesAreFinite ==
  ASSUME NEW edges, edges \subseteq Node \X Node, NEW n \in Node
  PROVE  /\ IsFiniteSet(Into(edges, n))
         /\ Cardinality(Into(edges, n)) \in Nat
         /\ Cardinality(Into(edges, n)) = 0 <=> Into(edges, n) = {}
<1>1. IsFiniteSet(Node \X Node)
  BY ToposortAssumption, FS_Product
<1>2. IsFiniteSet(Into(edges, n))
  BY <1>1, FS_Subset DEF Into
<1> QED
  BY <1>2, FS_CardinalityType, FS_EmptySet

\* The initial state satisfies the invariant.
LEMMA SortInitInv == AnyGraph /\ SortInit => SortInv
<1> SUFFICES ASSUME AnyGraph, SortInit PROVE SortInv
  OBVIOUS
<1> USE DEF AnyGraph, SortInit
<1>1. graph \subseteq Node \X Node
  OBVIOUS
<1>2. SortedSet = {}
  BY DEF SortedSet
<1>3. \A n \in Node : Cardinality(Into(graph, n)) \in Nat
  BY <1>1, EdgesAreFinite
<1>4. SortTypeOK
  BY <1>1, <1>3 DEF SortTypeOK
<1>5. EdgesLeft /\ EdgesCounted /\ QueueIsReady /\ SortedIsClosed
  BY <1>1, <1>2 DEF EdgesLeft, EdgesCounted, QueueIsReady, SortedIsClosed
<1>6. EdgesGoForward /\ NothingSortedTwice /\ KnotsAreLeft /\ StatusIsRight
  BY <1>2 DEF EdgesGoForward, NothingSortedTwice, KnotsAreLeft, StatusIsRight
<1> QED
  BY <1>4, <1>5, <1>6 DEF SortInv

\* What one turn of the loop does to the order and to the edges left.
LEMMA SortNodeEffect ==
  ASSUME SortInv, NEW caller \in no_incoming, graph' = graph,
         sorted_order' = Append(sorted_order, caller),
         edge_set' = edge_set \ ({caller} \X Successors(graph, caller))
  PROVE  /\ SortedSet' = SortedSet \cup {caller}
         /\ caller \in Node \ SortedSet
         /\ \A n \in Node : <<n, caller>> \in graph => n \in SortedSet
         /\ \A e \in graph : e[1] = caller => e[2] \in Node \ (SortedSet \cup {caller})
         /\ EdgesLeft'
<1> USE DEF SortInv
<1>1. caller \in Node \ SortedSet /\ incident_edges[caller] = 0
  BY DEF QueueIsReady
<1>2. SortedSet' = SortedSet \cup {caller}
  <2>1. /\ DOMAIN sorted_order' = 1..(Len(sorted_order) + 1) /\ Len(sorted_order) \in Nat
        /\ DOMAIN sorted_order = 1..Len(sorted_order)
        /\ \A i \in DOMAIN sorted_order : sorted_order'[i] = sorted_order[i]
        /\ sorted_order'[Len(sorted_order) + 1] = caller
    BY <1>1 DEF SortTypeOK
  <2> QED
    BY <2>1 DEF SortedSet
<1>3. Into(edge_set, caller) = {}
  BY <1>1, EdgesAreFinite DEF EdgesCounted, SortTypeOK
<1>4. \A n \in Node : <<n, caller>> \in graph => n \in SortedSet
  BY <1>3 DEF EdgesLeft, Into
<1>5. ASSUME NEW e \in graph, e[1] = caller
      PROVE  e[2] \in Node \ (SortedSet \cup {caller})
  <2>1. e \in edge_set /\ e = <<caller, e[2]>> /\ e[2] \in Node
    BY <1>1, <1>5 DEF EdgesLeft, SortTypeOK
  <2>2. e[2] # caller
    BY <2>1, <1>1, <1>4
  <2> QED
    BY <2>1, <2>2 DEF SortedIsClosed
<1>6. \A e \in graph : e \in {caller} \X Successors(graph, caller) <=> e[1] = caller
  BY DEF SortTypeOK, Successors
<1>7. EdgesLeft'
  BY <1>2, <1>6 DEF EdgesLeft
<1> QED
  BY <1>1, <1>2, <1>4, <1>5, <1>7

\* Taking a node from the queue preserves the invariant.
LEMMA SortNodeInv == ASSUME SortInv, SortNode PROVE SortInv'
<1> USE DEF SortInv
<1> PICK caller \in no_incoming :
      /\ sorted_order' = Append(sorted_order, caller)
      /\ incident_edges' = [n \in Node |-> IF n \in Successors(graph, caller)
                                             THEN incident_edges[n] - 1 ELSE incident_edges[n]]
      /\ edge_set' = edge_set \ ({caller} \X Successors(graph, caller))
      /\ no_incoming' = (no_incoming \ {caller}) \cup Freed(caller)
      /\ UNCHANGED <<graph, status>>
  BY DEF SortNode
<1>1. /\ SortedSet' = SortedSet \cup {caller}
      /\ caller \in Node \ SortedSet
      /\ \A n \in Node : <<n, caller>> \in graph => n \in SortedSet
      /\ \A e \in graph : e[1] = caller => e[2] \in Node \ (SortedSet \cup {caller})
      /\ EdgesLeft'
  BY SortNodeEffect
<1>2. graph \subseteq Node \X Node /\ edge_set' \subseteq graph
  BY DEF SortTypeOK
<1>3. \A n \in Node : n \in Successors(graph, caller) <=> <<caller, n>> \in graph
  BY <1>2 DEF Successors
<1>4. ASSUME NEW n \in Node
      PROVE  Cardinality(Into(edge_set', n)) =
               IF n \in Successors(graph, caller) THEN incident_edges[n] - 1 ELSE incident_edges[n]
  <2>1. /\ IsFiniteSet(Into(edge_set, n)) /\ Cardinality(Into(edge_set, n)) \in Nat
        /\ incident_edges[n] = Cardinality(Into(edge_set, n))
    BY EdgesAreFinite DEF EdgesCounted, SortTypeOK
  <2>2. CASE n \in Successors(graph, caller)
    <3>1. <<caller, n>> \in Into(edge_set, n)
      BY <2>2, <1>1, <1>3 DEF Into, EdgesLeft
    <3>2. Into(edge_set', n) = Into(edge_set, n) \ {<<caller, n>>}
      BY <2>2, <1>2 DEF Into, SortTypeOK
    <3> QED
      BY <2>1, <2>2, <3>1, <3>2, FS_RemoveElement
  <2>3. CASE n \notin Successors(graph, caller)
    <3>1. Into(edge_set', n) = Into(edge_set, n)
      BY <2>3 DEF Into
    <3> QED
      BY <2>1, <2>3, <3>1
  <2> QED
    BY <2>2, <2>3
<1>5. EdgesCounted'
  <2>1. incident_edges' = [n \in Node |-> Cardinality(Into(edge_set', n))]
    BY <1>4
  <2> QED
    BY <2>1 DEF EdgesCounted, Into
<1>6. \A n \in Node : incident_edges'[n] \in Nat
  BY <1>2, <1>4, EdgesAreFinite
<1>7. SortTypeOK'
  <2>1. incident_edges' \in [Node -> Nat]
    BY <1>6
  <2>2. no_incoming' \subseteq Node
    BY <1>2 DEF Freed, Successors, SortTypeOK
  <2>3. sorted_order' \in Seq(Node)
    BY <1>1 DEF SortTypeOK
  <2> QED
    BY <1>2, <2>1, <2>2, <2>3 DEF SortTypeOK
<1>8. QueueIsReady'
  <2>1. ASSUME NEW n \in Node, n \in Successors(graph, caller)
        PROVE  n \in no_incoming' <=> n \in (Node \ SortedSet') /\ incident_edges'[n] = 0
    <3>1. <<caller, n>> \in graph /\ n \notin SortedSet' /\ n # caller
      BY <1>1, <1>3, <2>1
    <3>2. n \notin no_incoming
      <4>1. <<caller, n>> \in Into(edge_set, n)
        BY <3>1, <1>1 DEF Into, EdgesLeft
      <4>2. incident_edges[n] # 0
        BY <4>1, EdgesAreFinite DEF EdgesCounted, SortTypeOK
      <4> QED
        BY <4>2 DEF QueueIsReady
    <3> QED
      BY <2>1, <3>1, <3>2 DEF Freed
  <2>2. ASSUME NEW n \in Node, n \notin Successors(graph, caller)
        PROVE  n \in no_incoming' <=> n \in (Node \ SortedSet') /\ incident_edges'[n] = 0
    BY <1>1, <2>2 DEF Freed, QueueIsReady
  <2>3. no_incoming' \subseteq Node
    BY <1>7 DEF SortTypeOK
  <2> QED
    BY <2>1, <2>2, <2>3 DEF QueueIsReady
<1>9. SortedIsClosed'
  BY <1>1, <1>2 DEF SortedIsClosed, EdgesLeft, SortTypeOK
<1>10. /\ DOMAIN sorted_order' = 1..(Len(sorted_order) + 1)
       /\ DOMAIN sorted_order = 1..Len(sorted_order) /\ Len(sorted_order) \in Nat
       /\ \A i \in DOMAIN sorted_order : sorted_order'[i] = sorted_order[i]
       /\ sorted_order'[Len(sorted_order) + 1] = caller
  BY <1>1 DEF SortTypeOK
<1>11. EdgesGoForward'
  <2> SUFFICES ASSUME NEW j \in DOMAIN sorted_order', NEW e \in graph, e[2] = sorted_order'[j]
               PROVE  \E i \in 1..(j - 1) : sorted_order'[i] = e[1]
    BY DEF EdgesGoForward
  <2>1. CASE j \in DOMAIN sorted_order
    <3>1. PICK i \in 1..(j - 1) : sorted_order[i] = e[1]
      BY <2>1, <1>10 DEF EdgesGoForward
    <3> QED
      BY <2>1, <3>1, <1>10
  <2>2. CASE j = Len(sorted_order) + 1
    <3>1. e = <<e[1], caller>> /\ e[1] \in Node
      BY <2>2, <1>2, <1>10
    <3>2. e[1] \in SortedSet
      BY <3>1, <1>1
    <3> QED
      BY <2>2, <3>2, <1>10 DEF SortedSet
  <2> QED
    BY <2>1, <2>2, <1>10
<1>12. NothingSortedTwice'
  BY <1>1, <1>10 DEF NothingSortedTwice, SortedSet
<1>13. KnotsAreLeft'
  <2> SUFFICES ASSUME NEW S \in SUBSET Node, Knot(S), caller \in S PROVE FALSE
    BY <1>1 DEF KnotsAreLeft, Knot
  <2>1. PICK m \in S : <<m, caller>> \in graph
    BY DEF Knot
  <2> QED
    BY <2>1, <1>1 DEF KnotsAreLeft
<1>14. StatusIsRight'
  BY DEF StatusIsRight, SortTypeOK
<1> QED
  BY <1>1, <1>5, <1>7, <1>8, <1>9, <1>11, <1>12, <1>13, <1>14

LEMMA SortStepInv == ASSUME SortInv, [Sort]_sortVars PROVE SortInv'
<1>1. CASE SortNode
  BY <1>1, SortNodeInv
<1>2. CASE FinishSort
  <2> USE <1>2 DEF FinishSort, SortInv
  <2>1. SortedSet' = SortedSet
    BY DEF SortedSet
  <2>2. SortTypeOK' /\ EdgesLeft' /\ EdgesCounted' /\ QueueIsReady' /\ SortedIsClosed'
    BY <2>1 DEF SortTypeOK, EdgesLeft, EdgesCounted, QueueIsReady, SortedIsClosed, Into
  <2>3. EdgesGoForward' /\ NothingSortedTwice' /\ KnotsAreLeft'
    BY <2>1 DEF EdgesGoForward, NothingSortedTwice, KnotsAreLeft, Knot
  <2>4. StatusIsRight'
    BY DEF StatusIsRight, SortTypeOK
  <2> QED
    BY <2>2, <2>3, <2>4
<1>3. CASE UNCHANGED sortVars
  <2> USE <1>3 DEF sortVars, SortInv
  <2>1. SortedSet' = SortedSet
    BY DEF SortedSet
  <2>2. SortTypeOK' /\ EdgesLeft' /\ EdgesCounted' /\ QueueIsReady' /\ SortedIsClosed'
    BY <2>1 DEF SortTypeOK, EdgesLeft, EdgesCounted, QueueIsReady, SortedIsClosed, Into
  <2>3. EdgesGoForward' /\ NothingSortedTwice' /\ KnotsAreLeft' /\ StatusIsRight'
    BY <2>1 DEF EdgesGoForward, NothingSortedTwice, KnotsAreLeft, Knot, StatusIsRight
  <2> QED
    BY <2>2, <2>3
<1> QED
  BY <1>1, <1>2, <1>3 DEF Sort

\* The invariant holds throughout.
THEOREM SortInvHolds == SortSpec => []SortInv
  BY SortInitInv, SortStepInv, PTL DEF SortSpec

\* The counters stay natural numbers: none is decremented below 0.
THEOREM SortTypeCorrect == SortSpec => []SortTypeOK
<1>1. SortInv => SortTypeOK
  BY DEF SortInv
<1> QED
  BY <1>1, SortInvHolds, PTL

\* In every graph the order puts a node after all its callers, so that
\* MODIFIES and USES find the callees of a procedure before the procedure.
THEOREM OrderIsTopological == SortSpec => []OrderRespectsEdges
<1>1. SortInv => OrderRespectsEdges
  BY DEF SortInv, OrderRespectsEdges
<1> QED
  BY <1>1, SortInvHolds, PTL

\* At an empty queue what is not in the order is a knot.
LEMMA SortThrowsOnCycles == ASSUME SortInv PROVE ThrowsOnCycles
<1> USE DEF SortInv
<1>1. \A n \in Node : incident_edges[n] = 0 <=> Into(edge_set, n) = {}
  BY EdgesAreFinite DEF EdgesCounted, SortTypeOK
<1>2. ASSUME status = "cyclic" PROVE \E S \in SUBSET Node : S # {} /\ Knot(S)
  <2>1. no_incoming = {} /\ edge_set # {}
    BY <1>2 DEF StatusIsRight
  <2>2. Node \ SortedSet # {}
    BY <2>1 DEF EdgesLeft, SortTypeOK
  <2>3. ASSUME NEW n \in Node \ SortedSet
        PROVE  \E m \in Node \ SortedSet : <<m, n>> \in graph
    <3>1. Into(edge_set, n) # {}
      BY <2>1, <1>1 DEF QueueIsReady
    <3>2. PICK e \in edge_set : e[2] = n
      BY <3>1 DEF Into
    <3>3. e = <<e[1], n>> /\ e \in graph /\ e[1] \in Node \ SortedSet
      BY <3>2 DEF EdgesLeft, SortTypeOK
    <3> QED
      BY <3>3
  <2>4. Knot(Node \ SortedSet)
    BY <2>3 DEF Knot
  <2> QED
    BY <2>2, <2>4
<1>3. ASSUME status = "sorted"
      PROVE  SortedSet = Node /\ \A S \in SUBSET Node : Knot(S) => S = {}
  <2>1. no_incoming = {} /\ edge_set = {}
    BY <1>3 DEF StatusIsRight
  <2>2. Node \subseteq SortedSet
    BY <2>1, <1>1 DEF QueueIsReady, Into
  <2>3. SortedSet \subseteq Node
    BY DEF SortedSet, SortTypeOK
  <2> QED
    BY <2>2, <2>3 DEF KnotsAreLeft
<1> QED
  BY <1>2, <1>3 DEF ThrowsOnCycles

\* The exception is thrown exactly for the graphs with a cycle, and an order
\* that is returned holds every node.
THEOREM CyclesAreRefused == SortSpec => []ThrowsOnCycles
  BY SortInvHolds, SortThrowsOnCycles, PTL
-----------------------------------------------------------------------------
(***************************************************************************)
(* Reachability: what a node reaches is its successors and what they       *)
(* reach.                                                                  *)
(***************************************************************************)
LEMMA ReachableIsClosed ==
  ASSUME NEW nodes, NEW edges \in SUBSET (nodes \X nodes), NEW a
  PROVE  /\ Successors(edges, a) \subseteq ReachableFrom(edges, nodes, a)
         /\ \A m \in ReachableFrom(edges, nodes, a) :
              Successors(edges, m) \subseteq ReachableFrom(edges, nodes, a)
<1>1. \A e \in edges : e[1] \in nodes /\ e[2] \in nodes
  OBVIOUS
<1>2. Successors(edges, a) \subseteq ReachableFrom(edges, nodes, a)
  BY <1>1 DEF Successors, ReachableFrom, ClosedFrom
<1>3. ASSUME NEW m \in ReachableFrom(edges, nodes, a), NEW e \in edges, e[1] = m
      PROVE  e[2] \in ReachableFrom(edges, nodes, a)
  BY <1>1, <1>3 DEF ReachableFrom, ClosedFrom
<1> QED
  BY <1>2, <1>3 DEF Successors

LEMMA ReachableIsLeast ==
  ASSUME NEW nodes, NEW edges, NEW a, NEW S \in SUBSET nodes,
         Successors(edges, a) \subseteq S, \A m \in S : Successors(edges, m) \subseteq S
  PROVE  ReachableFrom(edges, nodes, a) \subseteq S
<1>1. ClosedFrom(edges, a, S)
  BY DEF ClosedFrom, Successors
<1> QED
  BY <1>1 DEF ReachableFrom

LEMMA ReachableIsTransitive ==
  ASSUME NEW nodes, NEW edges \in SUBSET (nodes \X nodes), NEW a,
         NEW b \in Successors(edges, a)
  PROVE  {b} \cup ReachableFrom(edges, nodes, b) \subseteq ReachableFrom(edges, nodes, a)
<1>1. b \in ReachableFrom(edges, nodes, a)
  BY ReachableIsClosed
<1>2. ReachableFrom(edges, nodes, a) \in SUBSET nodes
  BY DEF ReachableFrom
<1>3. ReachableFrom(edges, nodes, b) \subseteq ReachableFrom(edges, nodes, a)
  BY <1>1, <1>2, ReachableIsClosed, ReachableIsLeast
<1> QED
  BY <1>1, <1>3

LEMMA ReachableUnfolds ==
  ASSUME NEW nodes, NEW edges \in SUBSET (nodes \X nodes), NEW a
  PROVE  ReachableFrom(edges, nodes, a) \subseteq
           UNION {{b} \cup ReachableFrom(edges, nodes, b) : b \in Successors(edges, a)}
<1> DEFINE S == UNION {{b} \cup ReachableFrom(edges, nodes, b) : b \in Successors(edges, a)}
<1>1. S \in SUBSET nodes
  BY DEF Successors, ReachableFrom
<1>2. Successors(edges, a) \subseteq S
  OBVIOUS
<1>3. ASSUME NEW m \in S
      PROVE  Successors(edges, m) \subseteq S
  <2>1. PICK b \in Successors(edges, a) : m \in {b} \cup ReachableFrom(edges, nodes, b)
    OBVIOUS
  <2>2. Successors(edges, m) \subseteq ReachableFrom(edges, nodes, b)
    BY <2>1, ReachableIsClosed
  <2> QED
    BY <2>2
<1> HIDE DEF S
<1>4. ReachableFrom(edges, nodes, a) \subseteq S
  BY <1>1, <1>2, <1>3, ReachableIsLeast
<1> QED
  BY <1>4 DEF S
-----------------------------------------------------------------------------
(***************************************************************************)
(* Effects of one program.                                                 *)
(***************************************************************************)
Own(n) == UNION {prog.direct[s] : s \in StmtsOf(prog, n)}

Callees(n) == Successors(Calls(prog), n)

LEMMA CallsAreEdges == Calls(prog) \in SUBSET (Node \X Node)
  BY DEF Calls

LEMMA CalleesAreNodes == \A n : Callees(n) \in SUBSET Node
  BY DEF Callees, Successors, Calls

\* Executing a procedure does what its statements and its callees do.
LEMMA EffectUnfolds ==
  ASSUME NEW n \in Node
  PROVE  /\ Own(n) \subseteq Effect(n)
         /\ \A m \in Callees(n) : Effect(m) \subseteq Effect(n)
         /\ \A v \in Effect(n) : v \in Own(n) \/ \E m \in Callees(n) : v \in Effect(m)
<1> DEFINE R(m) == {m} \cup ReachableFrom(Calls(prog), Node, m)
<1>1. \A m : Effect(m) = UNION {Own(k) : k \in R(m)}
  BY DEF Effect, Own
<1>2. \A m \in Callees(n) : R(m) \subseteq R(n)
  BY CallsAreEdges, ReachableIsTransitive DEF Callees
<1>3. \A k \in R(n) : k = n \/ \E m \in Callees(n) : k \in R(m)
  BY CallsAreEdges, ReachableUnfolds DEF Callees
<1> HIDE DEF R
<1>4. n \in R(n)
  BY DEF R
<1>5. \A m \in Callees(n) : Effect(m) \subseteq Effect(n)
  BY <1>1, <1>2
<1>6. \A v \in Effect(n) : v \in Own(n) \/ \E m \in Callees(n) : v \in Effect(m)
  BY <1>1, <1>3
<1> QED
  BY <1>1, <1>4, <1>5, <1>6

\* A procedure that calls itself, directly or not, is refused by the parser:
\* the callees of n reach less than n.
LEMMA CalleesReachLess ==
  ASSUME prog \in Programs, NEW n \in Node, NEW m \in Callees(n)
  PROVE  /\ Cardinality(ReachableFrom(Calls(prog), Node, m)) \in Nat
         /\ Cardinality(ReachableFrom(Calls(prog), Node, n)) \in Nat
         /\ Cardinality(ReachableFrom(Calls(prog), Node, m)) < Cardinality(ReachableFrom(Calls(prog), Node, n))
<1> DEFINE R(k) == ReachableFrom(Calls(prog), Node, k)
<1>1. m \in Node /\ m \notin R(m)
  BY CalleesAreNodes, ProgramsAssumption
<1>2. {m} \cup R(m) \subseteq R(n)
  BY CallsAreEdges, ReachableIsTransitive DEF Callees
<1>3. IsFiniteSet(R(n))
  <2>1. R(n) \in SUBSET Node
    BY DEF ReachableFrom
  <2> QED
    BY <2>1, ToposortAssumption, FS_Subset
<1> HIDE DEF R
<1>4. R(m) \in SUBSET R(n) /\ R(m) # R(n)
  BY <1>1, <1>2
<1>5. /\ IsFiniteSet(R(m))
      /\ Cardinality(R(m)) \in Nat /\ Cardinality(R(n)) \in Nat
      /\ Cardinality(R(m)) <= Cardinality(R(n))
      /\ Cardinality(R(m)) # Cardinality(R(n))
  BY <1>3, <1>4, FS_Subset, FS_CardinalityType
<1> QED
  BY <1>5 DEF R

\* So no set of procedures is such that each calls one of them: the inverse
\* call graph has no knot, and Toposort does not throw.
LEMMA NoKnotOfCalls ==
  ASSUME prog \in Programs, graph = InverseCallGraph(prog), NEW S \in SUBSET Node, Knot(S)
  PROVE  S = {}
<1> SUFFICES ASSUME S # {} PROVE FALSE
  OBVIOUS
<1> DEFINE Size(n) == Cardinality(ReachableFrom(Calls(prog), Node, n))
<1> DEFINE Sizes == {Size(n) : n \in S}
<1>1. ASSUME NEW n \in S
      PROVE  \E m \in S : Size(m) \in Nat /\ Size(n) \in Nat /\ Size(m) < Size(n)
  <2>1. PICK m \in S : <<m, n>> \in graph
    BY DEF Knot
  <2>2. m \in Callees(n)
    BY <2>1 DEF InverseCallGraph, Callees, Successors, Calls
  <2> QED
    BY <2>2, CalleesReachLess
<1> HIDE DEF Size
<1>2. Sizes \subseteq Nat /\ Sizes # {}
  BY <1>1
<1>3. PICK least \in Sizes : \A k \in Sizes : <<k, least>> \notin OpToRel(<, Nat)
  <2> HIDE DEF Sizes
  <2> QED
    BY <1>2, WFMin, NatLessThanWellFounded, Zenon
<1>4. \A k \in Sizes : ~(k < least)
  BY <1>2, <1>3, Zenon DEF OpToRel
<1> QED
  BY <1>1, <1>4
-----------------------------------------------------------------------------
(***************************************************************************)
(* The pass over the order.  A procedure that has had its turn has its     *)
(* whole effect, and has passed it to the statements that call it and to   *)
(* the containers around those; nothing else has changed.                  *)
(***************************************************************************)
Stmts == 1..prog.stmts

Processed == {sorted_order[i] : i \in 1..done}

StoreTypeOK == ofProc \in [Node -> SUBSET Variable] /\ ofStmt \in [Stmts -> SUBSET Variable]

ProcessedHaveAll == \A n \in Node : ofProc[n] = IF n \in Processed THEN Effect(n) ELSE {}

NothingForeign == \A s \in Stmts : prog.direct[s] \subseteq ofStmt[s] /\ ofStmt[s] \subseteq EffectOfStmt(s)

CallersHaveAll ==
  \A c \in DOMAIN prog.callee : prog.callee[c] \in Processed =>
    \A s \in {c} \cup prog.parentT[c] : Effect(prog.callee[c]) \subseteq ofStmt[s]

PassInv ==
  /\ prog \in Programs
  /\ graph = InverseCallGraph(prog)
  /\ SortInv
  /\ done \in 0..Len(sorted_order)
  /\ status # "sorted" => done = 0
  /\ StoreTypeOK /\ ProcessedHaveAll /\ NothingForeign /\ CallersHaveAll

\* Statements belong to one procedure, and so do the containers around them.
LEMMA CallIsInProcedure ==
  ASSUME prog \in Programs, NEW c \in DOMAIN prog.callee, NEW s \in {c} \cup prog.parentT[c],
         NEW n \in Node, s \in StmtsOf(prog, n)
  PROVE  /\ c \in Stmts /\ s \in Stmts
         /\ c \in StmtsOf(prog, n)
         /\ prog.callee[c] \in Callees(n)
<1> USE DEF StmtsOf, Stmts
<1>1. IsProgram(prog)
  BY ProgramsAssumption
<1>2. c \in 1..prog.stmts /\ prog.callee[c] \in Node /\ prog.stmts \in Nat
  BY <1>1 DEF IsProgram
<1>3. PICK m \in Node : c \in prog.range[m].first..prog.range[m].last
  BY <1>1, <1>2 DEF IsProgram
<1>4. \A k \in Node : prog.range[k].first \in 1..prog.stmts /\ prog.range[k].last \in 1..prog.stmts
  BY <1>1 DEF IsProgram
<1>5. prog.parentT[c] \subseteq prog.range[m].first..c
  BY <1>1, <1>2, <1>3 DEF IsProgram
<1>6. s \in prog.range[m].first..prog.range[m].last /\ s \in 1..prog.stmts
  BY <1>2, <1>3, <1>4, <1>5
<1>7. m = n
  <2>1. m = n \/ prog.range[m].last < prog.range[n].first \/ prog.range[n].last < prog.range[m].first
    BY <1>1 DEF IsProgram
  <2> QED
    BY <1>4, <1>6, <2>1
<1>8. <<n, prog.callee[c]>> \in Calls(prog)
  BY <1>2, <1>3, <1>7 DEF Calls
<1> QED
  BY <1>2, <1>3, <1>6, <1>7, <1>8 DEF Callees, Successors

LEMMA StmtsOfAreStmts ==
  ASSUME prog \in Programs, NEW n \in Node, NEW s \in StmtsOf(prog, n)
  PROVE  s \in Stmts
<1>1. IsProgram(prog)
  BY ProgramsAssumption
<1>2. prog.stmts \in Nat /\ prog.range[n].first \in 1..prog.stmts /\ prog.range[n].last \in 1..prog.stmts
  BY <1>1 DEF IsProgram
<1> QED
  BY <1>2 DEF StmtsOf, Stmts

\* The procedures that n calls come before n in the order.
LEMMA CalleesAreProcessed ==
  ASSUME PassInv, status = "sorted", done < Len(sorted_order), NEW m \in Callees(sorted_order[done + 1])
  PROVE  m \in Processed
<1> USE DEF PassInv
<1>1. done + 1 \in DOMAIN sorted_order
  BY DEF SortInv, SortTypeOK
<1>2. <<sorted_order[done + 1], m>> \in Calls(prog)
  BY CallsAreEdges DEF Callees, Successors
<1>3. <<m, sorted_order[done + 1]>> \in graph
  BY <1>2 DEF InverseCallGraph
<1>4. PICK i \in 1..((done + 1) - 1) : sorted_order[i] = m
  BY <1>1, <1>3 DEF SortInv, EdgesGoForward
<1> QED
  BY <1>4 DEF Processed

\* vars_modded_p: at its turn the statements of a procedure have its effect.
LEMMA VariablesAreEffect ==
  ASSUME PassInv, status = "sorted", done < Len(sorted_order), NEW n, n = sorted_order[done + 1]
  PROVE  n \in Node /\ VariablesOf(n) = Effect(n)
<1> USE DEF PassInv
<1>1. n \in Node
  BY DEF SortInv, SortTypeOK
<1>2. ASSUME NEW v \in VariablesOf(n)
      PROVE  v \in Effect(n)
  <2>1. PICK s \in StmtsOf(prog, n) : v \in ofStmt[s]
    BY DEF VariablesOf
  <2>2. s \in Stmts
    BY <1>1, StmtsOfAreStmts
  <2>3. v \in EffectOfStmt(s)
    BY <2>1, <2>2 DEF NothingForeign
  <2>4. CASE v \in prog.direct[s]
    BY <1>1, <2>4, EffectUnfolds DEF Own
  <2>5. ASSUME NEW c \in DOMAIN prog.callee, s \in prog.parentT[c] \cup {c}, v \in Effect(prog.callee[c])
        PROVE  v \in Effect(n)
    BY <1>1, <2>5, CallIsInProcedure, EffectUnfolds
  <2> QED
    BY <2>3, <2>4, <2>5 DEF EffectOfStmt
<1>3. ASSUME NEW v \in Effect(n)
      PROVE  v \in VariablesOf(n)
  <2>1. CASE v \in Own(n)
    <3>1. PICK s \in StmtsOf(prog, n) : v \in prog.direct[s]
      BY <2>1 DEF Own
    <3>2. v \in ofStmt[s]
      BY <1>1, <3>1, StmtsOfAreStmts DEF NothingForeign
    <3> QED
      BY <3>2 DEF VariablesOf
  <2>2. ASSUME NEW m \in Callees(n), v \in Effect(m)
        PROVE  v \in VariablesOf(n)
    <3>1. m \in Processed
      BY CalleesAreProcessed
    <3>2. PICK c \in DOMAIN prog.callee : c \in StmtsOf(prog, n) /\ prog.callee[c] = m
      BY DEF Callees, Successors, Calls
    <3>3. v \in ofStmt[c]
      BY <2>2, <3>1, <3>2 DEF CallersHaveAll
    <3> QED
      BY <3>2, <3>3 DEF VariablesOf
  <2> QED
    BY <1>1, <2>1, <2>2, EffectUnfolds
<1> QED
  BY <1>1, <1>2, <1>3
LEMMA PassInitInv == Init => PassInv
<1> SUFFICES ASSUME Init PROVE PassInv
  OBVIOUS
<1> USE DEF Init
<1>1. IsProgram(prog)
  BY ProgramsAssumption
<1>2. AnyGraph
  BY CallsAreEdges DEF AnyGraph, InverseCallGraph
<1>3. SortInv
  BY <1>2, SortInitInv
<1>4. done \in 0..Len(sorted_order) /\ Processed = {} /\ status # "sorted"
  BY DEF SortInit, Processed
<1>5. StoreTypeOK
  BY <1>1 DEF StoreTypeOK, Stmts, IsProgram
<1>6. ProcessedHaveAll /\ NothingForeign /\ CallersHaveAll
  BY <1>4 DEF ProcessedHaveAll, NothingForeign, CallersHaveAll, EffectOfStmt
<1> QED
  BY <1>3, <1>4, <1>5, <1>6 DEF PassInv

LEMMA SortCallsStep == PassInv /\ SortCalls => PassInv'
<1> SUFFICES ASSUME PassInv, SortCalls PROVE PassInv'
  OBVIOUS
<1> USE DEF PassInv
<1>1. UNCHANGED <<prog, ofStmt, ofProc, done>> /\ Sort
  BY DEF SortCalls
<1>2. SortInv'
  BY <1>1, SortStepInv
<1>3. graph' = graph
  BY <1>1 DEF Sort, SortNode, FinishSort
<1>4. status # "sorted"
  BY <1>1 DEF Sort, SortNode, FinishSort, SortInv, StatusIsRight
<1>5. done = 0
  BY <1>4
<1>6. Processed = {} /\ Processed' = {}
  BY <1>1, <1>5 DEF Processed
<1>7. done' \in 0..Len(sorted_order')
  BY <1>1, <1>2, <1>5 DEF SortInv, SortTypeOK
<1>8. StoreTypeOK' /\ NothingForeign'
  BY <1>1 DEF StoreTypeOK, NothingForeign, Stmts, EffectOfStmt, Effect
<1>9. ProcessedHaveAll' /\ CallersHaveAll'
  BY <1>1, <1>6 DEF ProcessedHaveAll, CallersHaveAll
<1> QED
  BY <1>1, <1>2, <1>3, <1>5, <1>7, <1>8, <1>9 DEF InverseCallGraph, Calls

LEMMA PropagateStep == PassInv /\ Propagate => PassInv'
<1> SUFFICES ASSUME PassInv, Propagate PROVE PassInv'
  OBVIOUS
<1> DEFINE n == sorted_order[done + 1]
<1>1. /\ status = "sorted" /\ done < Len(sorted_order)
      /\ ofProc' = [ofProc EXCEPT ![n] = @ \cup VariablesOf(n)]
      /\ ofStmt' = [s \in DOMAIN ofStmt |-> IF s \in WhoCalls(n) THEN ofStmt[s] \cup VariablesOf(n)
                                                                 ELSE ofStmt[s]]
      /\ done' = done + 1
      /\ UNCHANGED <<prog, sortVars>>
  BY DEF Propagate
<1>2. /\ prog \in Programs /\ graph = InverseCallGraph(prog) /\ SortInv
      /\ done \in 0..Len(sorted_order) /\ sorted_order \in Seq(Node)
      /\ StoreTypeOK /\ ProcessedHaveAll /\ NothingForeign /\ CallersHaveAll
      /\ IsProgram(prog)
  BY ProgramsAssumption DEF PassInv, SortInv, SortTypeOK
<1>3. n \in Node /\ VariablesOf(n) = Effect(n)
  BY <1>1, VariablesAreEffect
<1>4. Processed' = Processed \cup {n}
  BY <1>1, <1>2 DEF Processed, sortVars
<1>5. n \notin Processed
  BY <1>1, <1>2 DEF Processed, SortInv, NothingSortedTwice
<1> HIDE DEF n
<1>6. /\ \A m : Effect(m)' = Effect(m)
      /\ \A s : EffectOfStmt(s)' = EffectOfStmt(s)
      /\ Stmts' = Stmts
  BY <1>1 DEF Effect, EffectOfStmt, Stmts
<1>7. /\ Effect(n) \in SUBSET Variable
      /\ \A s \in Stmts : prog.direct[s] \in SUBSET Variable
  <2>1. prog.direct \in [Stmts -> SUBSET Variable]
    BY <1>2 DEF IsProgram, Stmts
  <2>2. \A s \in StmtsOf(prog, n) : ofStmt[s] \in SUBSET Variable
    BY <1>2, <1>3, StmtsOfAreStmts DEF StoreTypeOK
  <2> QED
    BY <1>3, <2>1, <2>2 DEF VariablesOf
<1>8. StoreTypeOK'
  <2>1. ofProc' \in [Node -> SUBSET Variable]
    BY <1>1, <1>2, <1>3, <1>7 DEF StoreTypeOK
  <2>2. ofStmt' \in [Stmts -> SUBSET Variable]
    BY <1>1, <1>2, <1>3, <1>7 DEF StoreTypeOK
  <2> QED
    BY <1>6, <2>1, <2>2 DEF StoreTypeOK
<1>9. ProcessedHaveAll'
  <2> SUFFICES ASSUME NEW m \in Node
               PROVE  ofProc'[m] = IF m \in Processed' THEN Effect(m) ELSE {}
    BY <1>6 DEF ProcessedHaveAll
  <2>1. ofProc[m] = IF m \in Processed THEN Effect(m) ELSE {}
    BY <1>2 DEF ProcessedHaveAll
  <2>2. ofProc'[m] = IF m = n THEN ofProc[m] \cup Effect(n) ELSE ofProc[m]
    BY <1>1, <1>2, <1>3 DEF StoreTypeOK
  <2> QED
    BY <1>4, <1>5, <2>1, <2>2
<1>10. \A s \in Stmts : ofStmt'[s] = IF s \in WhoCalls(n) THEN ofStmt[s] \cup Effect(n) ELSE ofStmt[s]
  BY <1>1, <1>2, <1>3 DEF StoreTypeOK
<1>11. NothingForeign'
  <2> SUFFICES ASSUME NEW s \in Stmts
               PROVE  prog.direct[s] \subseteq ofStmt'[s] /\ ofStmt'[s] \subseteq EffectOfStmt(s)
    BY <1>1, <1>6 DEF NothingForeign
  <2>1. prog.direct[s] \subseteq ofStmt[s] /\ ofStmt[s] \subseteq EffectOfStmt(s)
    BY <1>2 DEF NothingForeign
  <2>2. ASSUME s \in WhoCalls(n) PROVE Effect(n) \subseteq EffectOfStmt(s)
    <3>1. PICK c \in DOMAIN prog.callee : prog.callee[c] = n /\ s \in prog.parentT[c] \cup {c}
      BY <2>2 DEF WhoCalls, CallsTo
    <3> QED
      BY <3>1 DEF EffectOfStmt
  <2> QED
    BY <1>10, <2>1, <2>2
<1>12. CallersHaveAll'
  <2> SUFFICES ASSUME NEW c \in DOMAIN prog.callee, prog.callee[c] \in Processed \cup {n},
                      NEW s \in {c} \cup prog.parentT[c]
               PROVE  Effect(prog.callee[c]) \subseteq ofStmt'[s]
    BY <1>1, <1>4, <1>6 DEF CallersHaveAll
  <2>1. s \in Stmts
    <3>1. c \in 1..prog.stmts
      BY <1>2 DEF IsProgram
    <3> QED
      BY <1>2, <3>1 DEF IsProgram, Stmts
  <2>2. CASE prog.callee[c] = n
    BY <1>10, <2>1, <2>2 DEF WhoCalls, CallsTo
  <2>3. CASE prog.callee[c] \in Processed
    BY <1>2, <1>10, <2>1, <2>3 DEF CallersHaveAll
  <2> QED
    BY <2>2, <2>3
<1>13. graph' = InverseCallGraph(prog)' /\ SortInv' /\ done' \in 0..Len(sorted_order') /\ prog' = prog
  <2>1. SortInv'
    <3>1. [Sort]_sortVars
      BY <1>1
    <3> QED
      BY <1>2, <3>1, SortStepInv
  <2> QED
    BY <1>1, <1>2, <2>1 DEF sortVars, InverseCallGraph, Calls
<1> QED
  BY <1>1, <1>2, <1>8, <1>9, <1>11, <1>12, <1>13 DEF PassInv, sortVars

LEMMA PassInvIsInductive == PassInv /\ [Next]_vars => PassInv'
<1>1. CASE Next
  BY <1>1, SortCallsStep, PropagateStep DEF Next
<1>2. CASE UNCHANGED vars
  <2> SUFFICES ASSUME PassInv PROVE PassInv'
    OBVIOUS
  <2> USE <1>2 DEF vars, PassInv
  <2>1. SortInv'
    BY SortStepInv
  <2>2. StoreTypeOK' /\ NothingForeign' /\ ProcessedHaveAll' /\ CallersHaveAll'
    BY DEF sortVars, StoreTypeOK, NothingForeign, Stmts, EffectOfStmt, Effect,
           ProcessedHaveAll, CallersHaveAll, Processed
  <2> QED
    BY <2>1, <2>2 DEF sortVars, InverseCallGraph, Calls
<1> QED
  BY <1>1, <1>2

LEMMA PassInvHolds == Spec => []PassInv
  BY PassInitInv, PassInvIsInductive, PTL DEF Spec

\* ExtractModifiesSForCallsAndModifiesP sorts the inverse call graph as
\* Toposort sorts any graph: its order puts callees before callers.
THEOREM CallsAreSorted == Spec => [](SortTypeOK /\ OrderRespectsEdges /\ ThrowsOnCycles)
<1>1. PassInv => SortTypeOK /\ OrderRespectsEdges /\ ThrowsOnCycles
  BY SortThrowsOnCycles DEF PassInv, SortInv, OrderRespectsEdges
<1> QED
  BY <1>1, PassInvHolds, PTL

SortDoesNotThrow == status # "cyclic"

\* A program that the parser has accepted, having refused recursion, never
\* makes Toposort throw, however many procedures it has.
THEOREM NoExceptionWithoutRecursion == Spec => []SortDoesNotThrow
<1>1. ASSUME PassInv, status = "cyclic" PROVE FALSE
  <2>1. PICK S \in SUBSET Node : S # {} /\ Knot(S)
    BY <1>1, SortThrowsOnCycles DEF PassInv, ThrowsOnCycles
  <2> QED
    BY <1>1, <2>1, NoKnotOfCalls DEF PassInv
<1>2. PassInv => SortDoesNotThrow
  BY <1>1 DEF SortDoesNotThrow
<1> QED
  BY <1>2, PassInvHolds, PTL

\* The precondition that PopulateModifiesSForCallsAndModifiesP states holds at
\* every turn: the calls in a procedure have been given what is behind them.
THEOREM PreconditionHolds == Spec => []CallsArePopulated
<1>1. ASSUME PassInv PROVE CallsArePopulated
  <2>1. ASSUME status = "sorted", done < Len(sorted_order),
               NEW s \in DOMAIN prog.callee \cap StmtsOf(prog, sorted_order[done + 1])
        PROVE  Effect(prog.callee[s]) \subseteq ofStmt[s]
    <3>1. sorted_order[done + 1] \in Node
      BY <1>1, <2>1, VariablesAreEffect
    <3>2. prog.callee[s] \in Callees(sorted_order[done + 1])
      BY <1>1, <3>1, CallIsInProcedure DEF PassInv
    <3>3. prog.callee[s] \in Processed
      BY <1>1, <2>1, <3>2, CalleesAreProcessed
    <3> QED
      BY <1>1, <3>3 DEF PassInv, CallersHaveAll
  <2> QED
    BY <1>1, <2>1 DEF CallsArePopulated, PassInv, ProcessedHaveAll, Processed
<1> QED
  BY <1>1, PassInvHolds, PTL

\* Modifies and Uses of procedures, calls and the containers around them are
\* what executing them can reach: nothing else at any time, and all of it at
\* the end, for every program without recursion.
THEOREM EffectsAreExact == Spec => []EffectsAreReachable
<1>1. ASSUME PassInv PROVE EffectsAreReachable
  <2>1. \A n \in Node : ofProc[n] \subseteq Effect(n)
    BY <1>1 DEF PassInv, ProcessedHaveAll
  <2>2. \A s \in 1..prog.stmts : ofStmt[s] \subseteq EffectOfStmt(s)
    BY <1>1 DEF PassInv, NothingForeign, Stmts
  <2>3. ASSUME Done
        PROVE  Processed = Node
    <3>1. SortedSet = Node
      BY <1>1, <2>3, SortThrowsOnCycles DEF PassInv, Done, ThrowsOnCycles
    <3>2. Processed = SortedSet
      BY <1>1, <2>3 DEF PassInv, Done, Processed, SortedSet, SortInv, SortTypeOK
    <3> QED
      BY <3>1, <3>2
  <2>4. ASSUME Done, NEW s \in 1..prog.stmts
        PROVE  EffectOfStmt(s) \subseteq ofStmt[s]
    <3>1. prog.direct[s] \subseteq ofStmt[s]
      BY <1>1 DEF PassInv, NothingForeign, Stmts
    <3>2. ASSUME NEW c \in DOMAIN prog.callee, s \in prog.parentT[c] \cup {c}
          PROVE  Effect(prog.callee[c]) \subseteq ofStmt[s]
      <4>1. IsProgram(prog)
        BY <1>1, ProgramsAssumption DEF PassInv
      <4>2. prog.callee[c] \in Node
        BY <4>1 DEF IsProgram
      <4> QED
        BY <1>1, <2>3, <2>4, <3>2, <4>2 DEF PassInv, CallersHaveAll
    <3> QED
      BY <3>1, <3>2 DEF EffectOfStmt
  <2>5. Done => \A n \in Node : Effect(n) \subseteq ofProc[n]
    BY <1>1, <2>3 DEF PassInv, ProcessedHaveAll
  <2> QED
    BY <2>1, <2>2, <2>4, <2>5 DEF EffectsAreReachable
<1> QED
  BY <1>1, PassInvHolds, PTL
=============================================================================
