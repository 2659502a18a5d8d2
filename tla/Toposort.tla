------------------------------ MODULE Toposort ------------------------------
(***************************************************************************)
(* DeUtils::Toposort (design_extractor/utils/DeUtils.cpp), Kahn's          *)
(* algorithm.  One action takes one node from the queue.  The queue        *)
(* no_incoming is a set: the order in which an unordered_set yields the    *)
(* nodes that are pushed is not known anyway.                              *)
(***************************************************************************)
EXTENDS Integers, Sequences, FiniteSets, Reachability

CONSTANT Node    \* the nodes, procedures

ASSUME ToposortAssumption == IsFiniteSet(Node)

VARIABLES
  graph,            \* the edges of the graph to sort
  incident_edges,   \* how many edges into a node are left
  edge_set,         \* the edges left
  no_incoming, sorted_order,
  status            \* "sorting", then "sorted" or, with the exception, "cyclic"

sortVars == <<graph, incident_edges, edge_set, no_incoming, sorted_order, status>>

Into(edges, n) == {e \in edges : e[2] = n}

\* Mutant: the edges are not counted.
SortInitNoCounts ==
  /\ incident_edges = [n \in Node |-> 0]
  /\ edge_set = graph
  /\ no_incoming = Node
  /\ sorted_order = <<>>
  /\ status = "sorting"

SortInit ==
  /\ incident_edges = [n \in Node |-> Cardinality(Into(graph, n))]
  /\ edge_set = graph
  /\ no_incoming = {n \in Node : Cardinality(Into(graph, n)) = 0}
  /\ sorted_order = <<>>
  /\ status = "sorting"

\* Mutant: a node is queued for each edge into it.
FreedByEachEdge(caller) == Successors(graph, caller)

\* Mutant: the count is compared before it is decremented.
FreedTooLate(caller) == {n \in Successors(graph, caller) : incident_edges[n] = 0}

\* The nodes whose count the loop over the callees brings to 0.
Freed(caller) == {n \in Successors(graph, caller) : incident_edges[n] - 1 = 0}

SortNode ==
  \E caller \in no_incoming :
    /\ sorted_order' = Append(sorted_order, caller)
    /\ incident_edges' = [n \in Node |-> IF n \in Successors(graph, caller)
                                           THEN incident_edges[n] - 1 ELSE incident_edges[n]]
    /\ edge_set' = edge_set \ ({caller} \X Successors(graph, caller))
    /\ no_incoming' = (no_incoming \ {caller}) \cup Freed(caller)
    /\ UNCHANGED <<graph, status>>

FinishSort ==
  /\ status = "sorting" /\ no_incoming = {}
  /\ status' = IF edge_set = {} THEN "sorted" ELSE "cyclic"
  /\ UNCHANGED <<graph, incident_edges, edge_set, no_incoming, sorted_order>>

Sort == SortNode \/ FinishSort

AnyGraph == graph \in SUBSET (Node \X Node)

SortSpec == (AnyGraph /\ SortInit) /\ [][Sort]_sortVars
-----------------------------------------------------------------------------
SortedSet == {sorted_order[i] : i \in DOMAIN sorted_order}

SortTypeOK ==
  /\ graph \subseteq Node \X Node
  /\ incident_edges \in [Node -> Nat]
  /\ edge_set \subseteq graph
  /\ no_incoming \subseteq Node
  /\ sorted_order \in Seq(Node)
  /\ status \in {"sorting", "sorted", "cyclic"}

EdgesGoForward ==
  \A j \in DOMAIN sorted_order : \A e \in graph :
    e[2] = sorted_order[j] => \E i \in 1..(j - 1) : sorted_order[i] = e[1]

NothingSortedTwice ==
  \A i, j \in DOMAIN sorted_order : sorted_order[i] = sorted_order[j] => i = j

\* A node comes after all nodes with an edge to it, and once, although several
\* edges lead to it.
OrderRespectsEdges == EdgesGoForward /\ NothingSortedTwice

\* A set in which every node is called from the set: what a cycle gives, and
\* in a finite graph what only a cycle gives.
Knot(S) == \A n \in S : \E m \in S : <<m, n>> \in graph

\* The exception is thrown for graphs with a cycle and for no others; without
\* it every node is in the order.
ThrowsOnCycles ==
  /\ status = "cyclic" => \E S \in SUBSET Node : S # {} /\ Knot(S)
  /\ status = "sorted" => SortedSet = Node /\ \A S \in SUBSET Node : Knot(S) => S = {}
=============================================================================
