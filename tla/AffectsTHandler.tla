-------------------------- MODULE AffectsTHandler ---------------------------
(***************************************************************************)
(* AffectsHandler::ExtractAffectsT and its GetReachableNodes               *)
(* (design_extractor/handler/AffectsHandler.cpp).  The graph is an         *)
(* unordered_map; graph[cur] adds cur as a key when it is not one yet, and *)
(* the loop over the sources runs while src < graph.size().  One action    *)
(* starts a search, visits a node, or inserts what a search has found.     *)
(* The search queue is a set: nodes are visited in any order.              *)
(***************************************************************************)
EXTENDS AffectsProgram, Reachability

VARIABLES
  affects,
  keys,         \* of the map graph; the entry of n holds the statements n affects
  src,          \* the loop counter
  searching,    \* GetReachableNodes is running
  pending, reachable,
  affectsT

vars == <<affects, keys, src, searching, pending, reachable, affectsT>>

Stmt == 1..MaxStmt

Init ==
  /\ affects \in SUBSET (Stmt \X Stmt)
  /\ keys = {e[1] : e \in affects}
  /\ src = 0
  /\ searching = FALSE
  /\ pending = {} /\ reachable = {}
  /\ affectsT = {}

\* Mutant: reachable_nodes is shared by the searches and not emptied.
StartSearchNoReset ==
  /\ ~searching /\ src < Cardinality(keys)
  /\ searching' = TRUE
  /\ pending' = {src}
  /\ UNCHANGED <<affects, keys, src, reachable, affectsT>>

\* for (int src = 0; src < graph.size(); src++)
StartSearch ==
  /\ ~searching /\ src < Cardinality(keys)
  /\ searching' = TRUE
  /\ pending' = {src} /\ reachable' = {}
  /\ UNCHANGED <<affects, keys, src, affectsT>>

\* Mutant: the lookup is a find(), which adds no key.
KeysFound(cur) == keys

\* graph[cur]
KeysAfterLookup(cur) == keys \cup {cur}

NewlyReached(cur) == Successors(affects, cur) \ reachable

Visit ==
  \E cur \in pending :
    /\ keys' = KeysAfterLookup(cur)
    /\ pending' = (pending \ {cur}) \cup NewlyReached(cur)
    /\ reachable' = reachable \cup NewlyReached(cur)
    /\ UNCHANGED <<affects, src, searching, affectsT>>

\* InsertAffectsT refuses statement 0.
InsertedPairs == ({src} \cap Stmt) \X reachable

EndSearch ==
  /\ searching /\ pending = {}
  /\ affectsT' = affectsT \cup InsertedPairs
  /\ src' = src + 1
  /\ searching' = FALSE
  /\ UNCHANGED <<affects, keys, pending, reachable>>

Next == StartSearch \/ Visit \/ EndSearch

Spec == Init /\ [][Next]_vars

Done == ~searching /\ src >= Cardinality(keys)
-----------------------------------------------------------------------------
TypeOK ==
  /\ affects \subseteq Stmt \X Stmt
  /\ keys \subseteq 0..MaxStmt
  /\ src \in Nat
  /\ searching \in BOOLEAN
  /\ searching => src <= MaxStmt
  /\ pending \subseteq 0..MaxStmt /\ reachable \subseteq Stmt
  /\ affectsT \subseteq Stmt \X Stmt

NoAffectsTInvented == affectsT \subseteq TransitiveClosure(affects, Stmt)

\* The loop counts to the size of a map keyed by statement numbers.  Searches
\* add keys, and enough of them: when the counter has caught up with the size,
\* it has passed every assignment that affects another.
NoAffectsTMissed == Done => TransitiveClosure(affects, Stmt) \subseteq affectsT
=============================================================================
