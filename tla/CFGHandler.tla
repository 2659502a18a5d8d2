----------------------------- MODULE CFGHandler -----------------------------
(***************************************************************************)
(* CFGHandler::ConstructCFG (design_extractor/utils/CFGHandler.cpp).  The  *)
(* syntax tree is walked breadth first; each statement of a statement list *)
(* is connected to its successors.  One action takes the next list from    *)
(* the queue, the other connects its next statement.  The adjacency lists  *)
(* are kept as a set of edges.                                             *)
(***************************************************************************)
EXTENDS ParsedProgram, SequencesExt

VARIABLES
  cfg,        \* the edges <<from, to>> pushed so far
  queue,      \* statement lists waiting in the breadth-first queue
  current     \* the statements of the list being processed that are left

cfgVars == <<cfg, queue, current>>

\* Mutant: the last statement of the else part is forgotten.
ExitsThenOnly ==
  LET exits[s \in DOMAIN ast] ==
        IF ast[s].kind = "if" THEN exits[LastStmt(ast, Then(s))] ELSE {s}
  IN  exits

\* ConnectLastStmtsOfIf and ConnectLastStmtOfWhile both descend to the last
\* statements that are not an if.
Exits ==
  LET exits[s \in DOMAIN ast] ==
        IF ast[s].kind = "if" THEN exits[LastStmt(ast, Then(s))] \cup exits[LastStmt(ast, Else(s))]
                              ELSE {s}
  IN  exits

\* Mutant: every statement is connected to the next number.
EdgesNextNumber(s) ==
  LET inner == CASE ast[s].kind = "if"    -> {<<s, FirstStmt(ast, Then(s))>>, <<s, FirstStmt(ast, Else(s))>>}
                 [] ast[s].kind = "while" -> {<<s, FirstStmt(ast, Body(s))>>} \cup
                                             (Exits[LastStmt(ast, Body(s))] \X {s})
                 [] OTHER                 -> {}
  IN  inner \cup (Exits[s] \X {s + 1})

\* What the loop body pushes for one statement of a list.
Edges(s) ==
  LET next == IF IsLast(ast, s) THEN {} ELSE {Sibling(ast, s)}
      inner == CASE ast[s].kind = "if"    -> {<<s, FirstStmt(ast, Then(s))>>, <<s, FirstStmt(ast, Else(s))>>}
                 [] ast[s].kind = "while" -> {<<s, FirstStmt(ast, Body(s))>>} \cup
                                             (Exits[LastStmt(ast, Body(s))] \X {s})
                 [] OTHER                 -> {}
  IN  inner \cup (Exits[s] \X next)

CFGInit == cfg = {} /\ queue = <<>> /\ current = {}

\* The search begins with the procedures.
ConstructCFG ==
  /\ cfg' = {}
  /\ queue' = [n \in 1..Cardinality(ProceduresOf(ast)) |-> Procedure(n)]
  /\ current' = {}
  /\ UNCHANGED ast

\* The lists below the statements of this one are queued behind it.
TakeList ==
  /\ current = {} /\ queue # <<>>
  /\ LET list == Head(queue)
         stmts == InOrder(Children(ast, list))
     IN  /\ current' = Children(ast, list)
         /\ queue' = Tail(queue) \o FlattenSeq([i \in DOMAIN stmts |-> ListsBelow(ast, stmts[i])])
  /\ UNCHANGED <<ast, cfg>>

ConnectStatement ==
  \E s \in current :
    /\ \A t \in current : s <= t
    /\ cfg' = cfg \cup Edges(s)
    /\ current' = current \ {s}
    /\ UNCHANGED <<ast, queue>>

CFGNext == TakeList \/ ConnectStatement

CFGDone == queue = <<>> /\ current = {}
-----------------------------------------------------------------------------
CFGTypeOK ==
  /\ cfg \subseteq (DOMAIN ast) \X (DOMAIN ast)
  /\ current \subseteq DOMAIN ast
  /\ \A i \in DOMAIN queue : Children(ast, queue[i]) # {}
=============================================================================
