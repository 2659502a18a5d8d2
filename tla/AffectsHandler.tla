--------------------------- MODULE AffectsHandler ---------------------------
(***************************************************************************)
(* AffectsHandler::ExtractAffects (design_extractor/handler/               *)
(* AffectsHandler.cpp): a walk over the control flow graph from every      *)
(* assignment.  One action starts a walk, one visits a statement.  The     *)
(* stack of the walk is a set, so statements are visited in any order.     *)
(***************************************************************************)
EXTENDS AffectsProgram

VARIABLES
  prog,
  todo,         \* the assignments whose walk has not begun
  src,          \* where the present walk started, 0 before the first
  pending,      \* stack
  reachable,    \* reachable_nodes
  affects       \* the PKB's Affects relation

vars == <<prog, todo, src, pending, reachable, affects>>

Stmt == 1..prog.last
AssignStmts == {s \in Stmt : prog.kind[s] = "assign"}

\* Mutant: calls are left out.
KillsNoCall(s, v) == prog.kind[s] \in {"assign", "read"} /\ v \in prog.modifies[s]

\* Only a statement that itself modifies the variable ends a path.
Kills(s, v) == prog.kind[s] \in {"assign", "read", "call"} /\ v \in prog.modifies[s]

Init ==
  /\ prog \in Programs
  /\ todo = {s \in 1..prog.last : prog.kind[s] = "assign"}
  /\ src = 0
  /\ pending = {} /\ reachable = {}
  /\ affects = {}

\* for (auto stmt_num : assign_stmts): an unordered_set, in any order.
StartWalk ==
  /\ pending = {}
  /\ \E s \in todo :
       /\ todo' = todo \ {s}
       /\ src' = s
       /\ pending' = {s}
  /\ reachable' = {}
  /\ UNCHANGED <<prog, affects>>

\* Mutant: the source counts as reached from the start, as in a usual search.
FoundFromStart(cur) == cur \in reachable \cup {src}

\* The source is not reachable until an edge leads back to it.
Found(cur) == cur \in reachable

\* Mutant: containers are said to be affected by what their conditions use.
AffectedAnyKind(cur, v) ==
  IF Found(cur) /\ v \in prog.uses[cur] THEN {<<src, cur>>} ELSE {}

\* The pairs a visit inserts, before it looks whether the path ends here.
Affected(cur, v) ==
  IF Found(cur) /\ cur \in AssignStmts /\ v \in prog.uses[cur] THEN {<<src, cur>>} ELSE {}

\* Mutant: what is reached again is stacked again.
NewlyReachedAgain(cur) == prog.cfg[cur]

NewlyReached(cur) == prog.cfg[cur] \ reachable

Visit ==
  \E cur \in pending :
    LET v == prog.assigned[src]
        path_exists == ~(Found(cur) /\ Kills(cur, v))
        new == IF path_exists THEN NewlyReached(cur) ELSE {}
    IN  /\ affects' = affects \cup Affected(cur, v)
        /\ pending' = (pending \ {cur}) \cup new
        /\ reachable' = reachable \cup new
        /\ UNCHANGED <<prog, todo, src>>

Next == StartWalk \/ Visit

Spec == Init /\ [][Next]_vars

\* The extractor runs on its own: a walk that can go on does.
FairSpec == Spec /\ WF_vars(Next)

Done == todo = {} /\ pending = {}
-----------------------------------------------------------------------------
TypeOK ==
  /\ IsProgram(prog)
  /\ todo \subseteq AssignStmts
  /\ src \in AssignStmts \cup {0}
  /\ pending \subseteq Stmt /\ reachable \subseteq Stmt
  /\ pending # {} => src # 0
  /\ affects \subseteq AssignStmts \X AssignStmts

\* Executing the statement itself, not a statement in it, gives v a new value.
Redefines(s, v) == prog.kind[s] \notin {"while", "if"} /\ v \in prog.modifies[s]

\* A set that holds the successors of a and, unless they redefine a's
\* variable, the successors of its members.
IsClosed(a, S) ==
  /\ prog.cfg[a] \subseteq S
  /\ \A m \in S : ~Redefines(m, prog.assigned[a]) => prog.cfg[m] \subseteq S

\* The statements that a path without a redefinition in between leads to from
\* a: they are in every such set.
DefinitionReaches(a) == {n \in Stmt : \A S \in SUBSET Stmt : IsClosed(a, S) => n \in S}

AffectsPairs ==
  {p \in AssignStmts \X AssignStmts :
     p[2] \in DefinitionReaches(p[1]) /\ prog.assigned[p[1]] \in prog.uses[p[2]]}

\* Only real pairs are ever inserted, whatever the walks leave half done.
NoAffectsInvented == affects \subseteq AffectsPairs

\* When the walks are over every pair has been inserted: an assignment in a
\* loop that affects itself, a use behind a container that merely contains a
\* kill, a use reached first on a path that ends there.
NoAffectsMissed == Done => AffectsPairs \subseteq affects

\* Every walk ends, on graphs with loops too.
WalksEnd == <>Done
=============================================================================
