----------------------------- MODULE BipProgram -----------------------------
(***************************************************************************)
(* Programs of several procedures, as the PKB holds them when the          *)
(* interprocedural handlers run, and what it means for control to flow     *)
(* from one procedure into another and back.                               *)
(***************************************************************************)
EXTENDS SimpleAst, Reachability

CONSTANT Node    \* the procedures

ASSUME NodeAssumption == IsFiniteSet(Node)

Stmts(p) == 1..p.stmts
StmtsOf(p, n) == p.range[n].first..p.range[n].last
Entry(p, n) == p.range[n].first
CallStmts(p) == {s \in Stmts(p) : p.kind[s] = "call"}

\* Calls(m, n).
Calls(p) == {e \in Node \X Node : \E s \in CallStmts(p) : s \in StmtsOf(p, e[1]) /\ p.callee[s] = e[2]}

NextEdges(p) == {e \in Stmts(p) \X Stmts(p) : e[2] \in p.next[e[1]]}

\* Next is the flow of control of the syntax tree.  Procedures have ranges of
\* statements of their own, a list and what is nested in it; Next stays inside
\* a procedure and leads to each of its statements; there is no recursion.
IsProgram(p) ==
  /\ p.stmts \in Nat
  /\ p.range \in [Node -> [first : Stmts(p), last : Stmts(p)]]
  /\ IsAst(p.ast) /\ DOMAIN p.ast = Stmts(p)
  /\ NextEdges(p) = ControlFlow(p.ast)
  /\ \A s \in Stmts(p) : p.kind[s] = p.ast[s].kind
  /\ p.kind \in [Stmts(p) -> {"assign", "read", "print", "call", "while", "if"}]
  /\ p.callee \in [CallStmts(p) -> Node]
  /\ p.next \in [Stmts(p) -> SUBSET Stmts(p)]
  /\ \A n \in Node : Entry(p, n) \in StmtsOf(p, n)
  /\ \A s \in Stmts(p) : \E n \in Node : s \in StmtsOf(p, n)
  /\ \A m, n \in Node : m = n \/ StmtsOf(p, m) \cap StmtsOf(p, n) = {}
  /\ \A n \in Node : \E k \in ProceduresOf(p.ast) :
       /\ Children(p.ast, Procedure(k)) \subseteq StmtsOf(p, n)
       /\ \A s \in StmtsOf(p, n) : p.ast[s].list = Procedure(k) \/ ParentOf(p.ast, s) \in StmtsOf(p, n)
  /\ \A n \in Node : \A s \in StmtsOf(p, n) :
       /\ p.next[s] \subseteq StmtsOf(p, n)
       /\ s = Entry(p, n) \/ s \in ReachableFrom(NextEdges(p), Stmts(p), Entry(p, n))
  /\ \A s \in Stmts(p) : p.next[s] = {} => p.kind[s] \notin {"while", "if"}
  /\ \A n \in Node : n \notin ReachableFrom(Calls(p), Node, n)

\* CFGBipHandler::IsExitStmt
IsExitStmt(p, s) ==
  \/ p.kind[s] \in {"read", "print", "assign", "call"} /\ p.next[s] = {}
  \/ p.kind[s] = "while" /\ Cardinality(p.next[s]) = 1

\* The procedures whose end is the end of n: n and what is called last in it.
TailCalls(p) ==
  {e \in Node \X Node : \E s \in CallStmts(p) \cap StmtsOf(p, e[1]) : p.next[s] = {} /\ p.callee[s] = e[2]}

\* Control leaves the procedure after s itself: a while does when it has no
\* successor but its body.
IsReturn(p, s) ==
  /\ s \notin CallStmts(p)
  /\ p.next[s] = {} \/ (p.kind[s] = "while" /\ \E t \in Stmts(p) : p.next[s] = {t})

\* The statements after which control leaves n for where n was called.
ReturnsFrom(p, n) ==
  {s \in Stmts(p) :
     /\ IsReturn(p, s)
     /\ \E m \in {n} \cup ReachableFrom(TailCalls(p), Node, n) : s \in StmtsOf(p, m)}

\* The edges of the interprocedural control flow: inside procedures, into
\* callees, and back to what follows the call.
InterproceduralFlow(p) ==
  {e \in NextEdges(p) : e[1] \notin CallStmts(p)}
  \cup {<<s, Entry(p, p.callee[s])>> : s \in CallStmts(p)}
  \cup UNION {ReturnsFrom(p, p.callee[s]) \X p.next[s] : s \in CallStmts(p)}
=============================================================================
