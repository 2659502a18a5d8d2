------------------------- MODULE AffectsBipHandler -------------------------
(***************************************************************************)
(* AffectsBipHandler (design_extractor/handler/AffectsBipHandler.cpp) on   *)
(* the exploded graphs: a search through each graph starts a walk from     *)
(* every node of an assignment; then ExtractAffectsBipT searches from      *)
(* every key of the map of the pairs found, while lookups add keys to that *)
(* map.  Queues, stacks and the map, which is sorted by address, are sets. *)
(***************************************************************************)
EXTENDS GraphExplosion

CONSTANT Variable

\* What assignments and reads modify and what assignments use.
ASSUME EffectsAssumption ==
  \A p \in Programs : \A s \in Stmts(p) :
    /\ p.kind[s] \in {"assign", "read"} => \E v \in Variable : p.modifies[s] = {v}
    /\ p.kind[s] = "assign" => p.uses[s] \subseteq Variable

VARIABLES
  to_search,         \* the graphs not searched yet
  queue, seen,       \* of the search through a graph
  src, pending, reachable,    \* of a walk, or of a search for AffectsBip*
  affects_bip_graph,
  keys,              \* of affects_bip_graph; empty before ExtractAffectsBipT
  ahead,             \* the keys the loop over the map has not met
  phase,             \* "explode", "walk" or "closure"
  affectsBipT

bipVars == <<to_search, queue, seen, src, pending, reachable, affects_bip_graph, keys, ahead, phase, affectsBipT>>
vars == <<explosionVars, bipVars>>

IsAssign(node) == prog.kind[node[2]] = "assign"

Init ==
  /\ ExplosionInit
  /\ to_search = {} /\ queue = {} /\ seen = {}
  /\ src = NoNode /\ pending = {} /\ reachable = {}
  /\ affects_bip_graph = {} /\ keys = {} /\ ahead = {}
  /\ phase = "explode"
  /\ affectsBipT = {}

ConstructGraphExplosion == phase = "explode" /\ Explode /\ UNCHANGED bipVars

ExtractAffectsBip ==
  /\ phase = "explode" /\ Exploded
  /\ phase' = "walk"
  /\ to_search' = graphs
  /\ UNCHANGED <<explosionVars, queue, seen, src, pending, reachable, affects_bip_graph, keys, ahead, affectsBipT>>

SearchGraph ==
  /\ phase = "walk" /\ queue = {} /\ pending = {}
  /\ \E root \in to_search :
       /\ to_search' = to_search \ {root}
       /\ queue' = {root} /\ seen' = {}
  /\ UNCHANGED <<explosionVars, src, pending, reachable, affects_bip_graph, keys, ahead, phase, affectsBipT>>

\* The node leaves the queue; if it is an assignment a walk begins.
TakeNode ==
  /\ phase = "walk" /\ pending = {}
  /\ \E cur \in queue :
       /\ queue' = (queue \ {cur}) \cup (Successors(edges, cur) \ seen)
       /\ seen' = seen \cup Successors(edges, cur)
       /\ IF IsAssign(cur) THEN src' = cur /\ pending' = {cur} /\ reachable' = {}
                           ELSE UNCHANGED <<src, pending, reachable>>
  /\ UNCHANGED <<explosionVars, to_search, affects_bip_graph, keys, ahead, phase, affectsBipT>>

\* Mutant: reads are left out.
KillsAssignOnly(node, v) == prog.kind[node[2]] = "assign" /\ v \in prog.modifies[node[2]]

\* Calls do not end a path: the statements of the callee are on it.
Kills(node, v) == prog.kind[node[2]] \in {"assign", "read"} /\ v \in prog.modifies[node[2]]

Affected(cur, v) ==
  IF cur \in reachable /\ IsAssign(cur) /\ v \in prog.uses[cur[2]] THEN {<<src, cur>>} ELSE {}

\* Mutant: nodes are pushed again when they are met again.
VisitAgain ==
  /\ phase = "walk" /\ pending # {}
  /\ \E cur \in pending, v \in prog.modifies[src[2]] :
       LET new == IF cur \in reachable /\ Kills(cur, v) THEN {} ELSE Successors(edges, cur)
       IN  /\ affects_bip_graph' = affects_bip_graph \cup Affected(cur, v)
           /\ pending' = (pending \ {cur}) \cup new
           /\ reachable' = reachable \cup new
  /\ UNCHANGED <<explosionVars, to_search, queue, seen, src, keys, ahead, phase, affectsBipT>>

\* TraverseExplodedGraphFromSrc takes a node from its stack.
Visit ==
  /\ phase = "walk" /\ pending # {}
  /\ \E cur \in pending, v \in prog.modifies[src[2]] :
       LET new == IF cur \in reachable /\ Kills(cur, v) THEN {} ELSE Successors(edges, cur) \ reachable
       IN  /\ affects_bip_graph' = affects_bip_graph \cup Affected(cur, v)
           /\ pending' = (pending \ {cur}) \cup new
           /\ reachable' = reachable \cup new
  /\ UNCHANGED <<explosionVars, to_search, queue, seen, src, keys, ahead, phase, affectsBipT>>

WalksDone == phase = "walk" /\ to_search = {} /\ queue = {} /\ pending = {}

ExtractAffectsBipT ==
  /\ WalksDone
  /\ phase' = "closure"
  /\ keys' = {e[1] : e \in affects_bip_graph}
  /\ ahead' = {e[1] : e \in affects_bip_graph}
  /\ src' = NoNode
  /\ UNCHANGED <<explosionVars, to_search, queue, seen, pending, reachable, affects_bip_graph, affectsBipT>>

\* for (auto src : affects_bip_graph)
SearchFrom ==
  /\ phase = "closure" /\ src = NoNode
  /\ \E key \in ahead :
       /\ ahead' = ahead \ {key}
       /\ src' = key
       /\ pending' = {key} /\ reachable' = {}
  /\ UNCHANGED <<explosionVars, to_search, queue, seen, affects_bip_graph, keys, phase, affectsBipT>>

\* Mutant: the map is hashed, and when it grows the loop goes on anywhere.
AheadWhenHashed(cur) == IF cur \in keys THEN {ahead} ELSE SUBSET (keys \cup {cur})

\* affects_bip_graph[cur] may add cur, in front of the loop or behind it.
AheadAfterLookup(cur) == IF cur \in keys THEN {ahead} ELSE {ahead, ahead \cup {cur}}

\* GetReachableNodes takes a node from its queue.  That IsAffectsBip holds for an
\* edge is not asked: graph and table are filled together (Visit).
VisitT ==
  /\ phase = "closure"
  /\ \E cur \in pending :
       LET new == Successors(affects_bip_graph, cur) \ reachable
       IN  /\ keys' = keys \cup {cur}
           /\ ahead' \in AheadAfterLookup(cur)
           /\ pending' = (pending \ {cur}) \cup new
           /\ reachable' = reachable \cup new
  /\ UNCHANGED <<explosionVars, to_search, queue, seen, src, affects_bip_graph, phase, affectsBipT>>

InsertAffectsBipT ==
  /\ phase = "closure" /\ src # NoNode /\ pending = {}
  /\ affectsBipT' = affectsBipT \cup {<<src[2], n[2]>> : n \in reachable}
  /\ src' = NoNode
  /\ UNCHANGED <<explosionVars, to_search, queue, seen, pending, reachable, affects_bip_graph, keys, ahead, phase>>

Next ==
  \/ ConstructGraphExplosion
  \/ ExtractAffectsBip \/ SearchGraph \/ TakeNode \/ Visit
  \/ ExtractAffectsBipT \/ SearchFrom \/ VisitT \/ InsertAffectsBipT

Spec == Init /\ [][Next]_vars

\* The extractor is one thread that is never blocked.
FairSpec == Spec /\ WF_vars(Next)

Done == phase = "closure" /\ ahead = {} /\ src = NoNode
-----------------------------------------------------------------------------
TypeOK ==
  /\ phase = "explode" => ExplosionTypeOK
  /\ to_search \subseteq graphs
  /\ \A e \in affects_bip_graph : IsAssign(e[1]) /\ IsAssign(e[2])
  /\ phase # "closure" => pending \subseteq reachable \cup {src}
  /\ ahead \subseteq keys

\* The graphs the walks are made on are the steps of executions.
ExplosionIsExecution == phase = "explode" => GraphIsExecution

Redefines(node, v) == prog.kind[node[2]] \in {"assign", "read"} /\ v \in prog.modifies[node[2]]

\* The copies that executions lead to from a without a redefinition between,
\* in n steps or fewer.
DefinitionReaches(a) ==
  LET v == CHOOSE w \in Variable : prog.modifies[a[2]] = {w}
      steps == ExecutionSteps(prog)
      within[n \in 1..Cardinality(Copies(prog))] ==
        IF n = 1 THEN Successors(steps, a)
        ELSE within[n - 1] \cup UNION {Successors(steps, m) : m \in {k \in within[n - 1] : ~Redefines(k, v)}}
  IN  {m \in within[Cardinality(Copies(prog))] : IsAssign(m) /\ v \in prog.uses[m[2]]}

\* When the walks are over, the pairs found are those of a definition and a
\* use that some execution leads to from it without a redefinition between,
\* in the same call, in another call, or after the procedure has returned.
PairsAreDefUse ==
  WalksDone => affects_bip_graph = UNION {{a} \X DefinitionReaches(a) : a \in {c \in Copies(prog) : IsAssign(c)}}

Chained(from) ==
  LET within[n \in 1..Cardinality(Copies(prog))] ==
        IF n = 1 THEN Successors(affects_bip_graph, from)
        ELSE within[n - 1] \cup UNION {Successors(affects_bip_graph, m) : m \in within[n - 1]}
  IN  within[Cardinality(Copies(prog))]

\* AffectsBip* joins the statements of chains of pairs in which each pair
\* begins in the very copy in which the one before ends; none is missed when
\* the loop is over, although the map grows while the loop runs over it.
ClosureKeepsCopies ==
  Done => affectsBipT = UNION {{a[2]} \X {m[2] : m \in Chained(a)} : a \in {e[1] : e \in affects_bip_graph}}

\* The searches end.
ExtractionEnds == <>Done
=============================================================================
