---------------------------- MODULE Reachability ----------------------------
(***************************************************************************)
(* What the extractor's searches over graphs are measured against.  A      *)
(* graph is its set of edges <<from, to>>.                                 *)
(***************************************************************************)

Successors(edges, n) == {e[2] : e \in {d \in edges : d[1] = n}}

\* S holds the successors of a and of its own members.
ClosedFrom(edges, a, S) == \A e \in edges : e[1] = a \/ e[1] \in S => e[2] \in S

\* The nodes at the end of a path of one edge or more from a: every closed set
\* holds them.
ReachableFrom(edges, nodes, a) == {n \in nodes : \A S \in SUBSET nodes : ClosedFrom(edges, a, S) => n \in S}

TransitiveClosure(edges, nodes) == UNION {{a} \X ReachableFrom(edges, nodes, a) : a \in nodes}
=============================================================================
