--------------------------- MODULE GraphExplosion ---------------------------
(***************************************************************************)
(* GEHandler::ConstructGraphExplosion (design_extractor/graph_explosion/   *)
(* GEHandler.cpp): from every procedure that is not called, a graph with a *)
(* copy of the callee for each call.  A copy is named by the calls that    *)
(* lead to it, so a node is <<path, stmt>>.  ExplodeGraph is recursive;    *)
(* its activations are the stack frames, the top first.  One action        *)
(* processes a statement, enters a call or leaves one.                     *)
(***************************************************************************)
EXTENDS BipProgram

CONSTANTS Programs, NoNode

ASSUME ExplosionAssumption ==
  \A p \in Programs : IsProgram(p) /\ NoNode \notin Seq(CallStmts(p)) \X Stmts(p)

VARIABLES
  prog,
  starting,    \* the procedures not called whose graph is not begun
  frames,      \* procedure, path, exit node and next statement of the activations
  edges,       \* child pointers of the nodes
  graphs       \* the roots

explosionVars == <<prog, starting, frames, edges, graphs>>

Current == Head(frames)
Exploding == frames # <<>>
AtEnd == Current.stmt \notin StmtsOf(prog, Current.proc)
NodeOf(frame, s) == <<frame.path, s>>
Advanced == [Current EXCEPT !.stmt = @ + 1]

StartingProcedures(p) == {n \in Node : \A e \in Calls(p) : e[2] # n}

\* Mutant: the copies of a callee are shared by all calls.
ActivationShared(n, call, exit) ==
  [proc |-> n, path |-> <<>>, exit |-> exit, stmt |-> Entry(prog, n)]

Activation(n, path, exit) == [proc |-> n, path |-> path, exit |-> exit, stmt |-> Entry(prog, n)]

ExplosionInit ==
  /\ prog \in Programs
  /\ starting = StartingProcedures(prog)
  /\ frames = <<>>
  /\ edges = {} /\ graphs = {}

ExplodeProcedure ==
  /\ ~Exploding
  /\ \E n \in starting :
       /\ starting' = starting \ {n}
       /\ frames' = <<Activation(n, <<>>, NoNode)>>
       /\ graphs' = graphs \cup {<<(<<>>), Entry(prog, n)>>}
  /\ UNCHANGED <<prog, edges>>

ConnectStatement ==
  /\ Exploding /\ ~AtEnd /\ Current.stmt \notin CallStmts(prog)
  /\ edges' = edges \cup {<<NodeOf(Current, Current.stmt), NodeOf(Current, t)>> : t \in prog.next[Current.stmt]}
  /\ frames' = <<Advanced>> \o Tail(frames)
  /\ UNCHANGED <<prog, starting, graphs>>

\* Mutant: what a last call returns to is forgotten.
ExitNodeOwn(frame, call) ==
  IF prog.next[call] = {} THEN NoNode ELSE NodeOf(frame, CHOOSE t \in prog.next[call] : TRUE)

\* The node behind the call, for a last call the one behind the caller's.
ExitNode(frame, call) ==
  IF prog.next[call] = {} THEN frame.exit ELSE NodeOf(frame, CHOOSE t \in prog.next[call] : TRUE)

EnterCall ==
  /\ Exploding /\ ~AtEnd /\ Current.stmt \in CallStmts(prog)
  /\ frames' = <<Activation(prog.callee[Current.stmt], Append(Current.path, Current.stmt), ExitNode(Current, Current.stmt))>> \o frames
  /\ UNCHANGED <<prog, starting, edges, graphs>>

\* ConnectLastExecutedStmts finds the last statements of a procedure: those
\* of both branches of an if, and none for a call.
LastExecuted(n) ==
  LET ast == prog.ast
      from[s \in DOMAIN ast] ==
        IF ast[s].kind = "call" THEN {}
        ELSE IF ast[s].kind = "if" THEN from[LastStmt(ast, Then(s))] \cup from[LastStmt(ast, Else(s))]
        ELSE {s}
  IN  from[LastStmt(ast, ast[Entry(prog, n)].list)]

\* The call is given its child, and the callee's last statements theirs.
LeaveCall ==
  /\ Exploding /\ AtEnd /\ Len(frames) > 1
  /\ LET caller == frames[2]
         to_callee == <<NodeOf(caller, caller.stmt), NodeOf(Current, Entry(prog, Current.proc))>>
         to_exit == IF Current.exit = NoNode THEN {}
                    ELSE {<<NodeOf(Current, s), Current.exit>> : s \in LastExecuted(Current.proc)}
     IN  /\ edges' = edges \cup {to_callee} \cup to_exit
         /\ frames' = <<[caller EXCEPT !.stmt = @ + 1]>> \o Tail(Tail(frames))
  /\ UNCHANGED <<prog, starting, graphs>>

FinishProcedure ==
  /\ Exploding /\ AtEnd /\ Len(frames) = 1
  /\ frames' = <<>>
  /\ UNCHANGED <<prog, starting, edges, graphs>>

Explode == ExplodeProcedure \/ ConnectStatement \/ EnterCall \/ LeaveCall \/ FinishProcedure

Exploded == starting = {} /\ ~Exploding
-----------------------------------------------------------------------------
\* The chains of calls in progress when a statement of n is executed.
Paths(p, n) ==
  LET lasts(path) == IF path = <<>> THEN StartingProcedures(p) ELSE {p.callee[path[Len(path)]]}
      chained(path) == \A i \in 1..(Len(path) - 1) : path[i + 1] \in StmtsOf(p, p.callee[path[i]])
      started(path) == path = <<>> \/ \E m \in StartingProcedures(p) : path[1] \in StmtsOf(p, m)
  IN  {path \in UNION {[1..k -> CallStmts(p)] : k \in 0..(Cardinality(Node) - 1)} :
         started(path) /\ chained(path) /\ n \in lasts(path)}

Copies(p) == UNION {Paths(p, n) \X StmtsOf(p, n) : n \in Node}

\* Where control goes when the last call of path returns: behind the last of
\* its calls that has something behind it.
Returned(p, path) ==
  LET pending == {i \in DOMAIN path : p.next[path[i]] # {}}
      last == CHOOSE i \in pending : \A j \in pending : j <= i
  IN  IF pending = {} THEN {} ELSE {SubSeq(path, 1, last - 1)} \X p.next[path[last]]

\* The steps of executions that begin in a procedure that is not called.
ExecutionSteps(p) ==
  LET after(path, s) ==
        IF s \in CallStmts(p) THEN {<<Append(path, s), Entry(p, p.callee[s])>>}
        ELSE ({path} \X p.next[s]) \cup (IF IsReturn(p, s) THEN Returned(p, path) ELSE {})
  IN  UNION {{c} \X after(c[1], c[2]) : c \in Copies(p)}

\* A node is the copy of a statement for the calls that lead to it.
ExplosionTypeOK ==
  /\ starting \subseteq StartingProcedures(prog)
  /\ Exploding => /\ Len(frames) <= Cardinality(Node)
                  /\ Current.path \in Paths(prog, Current.proc)
  /\ edges \subseteq Copies(prog) \X Copies(prog)

\* The exploded graph is the steps of executions: each copy of a callee leads
\* to what follows its own call, and through last calls to what follows the
\* call before; an if at the end leads there from both its branches.
GraphIsExecution == Exploded /\ graphs # {} => edges = ExecutionSteps(prog)
=============================================================================
