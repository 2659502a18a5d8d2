--------------------------- MODULE DesignExtractor ---------------------------
(***************************************************************************)
(* DesignExtractor::ExtractDesigns, up to the relations Affects: one       *)
(* thread runs the handlers in the order of the function; a handler reads  *)
(* the syntax tree, static variables and what the handlers before it wrote *)
(* to the PKB.  The breadth first traversal takes a node of the tree per   *)
(* step and calls the handlers of nodes on it.                             *)
(***************************************************************************)
EXTENDS CFGHandler, PkbTables, Reachability

CONSTANTS
  Constants,    \* the leaves of expressions that are numbers,
  TooLarge,     \* those of them that are no int
  MaxDepth      \* no expression is deeper

ASSUME ConstantsAssumption == TooLarge \subseteq Constants /\ MaxDepth \in Nat

VARIABLES
  pkb,
  call_graph,   \* of CallHandler, static: who calls whom
  nodes,        \* the queue of BreadthFirstTraversal
  left          \* the procedures of topo_order still to be processed

extractVars == <<pkb, call_graph, nodes, left>>

\* Mutant: the tree is traversed before the parents are known.
HandlersTraverseFirst ==
  <<"StatementHandler", "BreadthFirstTraversal", "ParentHandler", "ModifiesHandler", "CFGHandler", "NextHandler",
    "CallHandler", "UsesP", "ModifiesP", "extracted">>

\* Mutant: what calls modify is propagated before what they call is known.
HandlersModifiesFirst ==
  <<"StatementHandler", "ParentHandler", "ModifiesHandler", "ModifiesP", "CFGHandler", "NextHandler",
    "BreadthFirstTraversal", "CallHandler", "UsesP", "extracted">>

Handlers ==
  <<"StatementHandler", "ParentHandler", "ModifiesHandler", "CFGHandler", "NextHandler",
    "BreadthFirstTraversal", "CallHandler", "UsesP", "ModifiesP", "extracted">>

\* Where each handler begins.
Begin(handler) ==
  /\ stage' = handler
  /\ nodes' = IF handler = "BreadthFirstTraversal"
              THEN [n \in DOMAIN pnames |-> [type |-> "procedure", list |-> Procedure(n)]] ELSE <<>>
  /\ left' = IF handler \in {"UsesP", "ModifiesP"} THEN {p.name : p \in pkb.proc} ELSE {}

End(handler) == \E i \in DOMAIN Handlers : Handlers[i] = handler /\ Begin(Handlers[i + 1])

During(handler) == stage = handler /\ UNCHANGED <<ast, pnames>>

\* The exception is no std::runtime_error and is caught nowhere.
Terminate == stage' = "thrown" /\ UNCHANGED <<extractVars, cfg, queue, current>>
-----------------------------------------------------------------------------
(* What the tree says *)

\* Only expressions and the names of reads, prints and assignments have
\* variable nodes: the trees by their depth, down to the leaves.
LeavesOf(tree) ==
  LET level[n \in 0..MaxDepth] ==
        IF n = 0 THEN {tree} ELSE UNION {{t[2], t[3]} : t \in {u \in level[n - 1] : Len(u) = 3}}
  IN  {t[1] : t \in {u \in UNION {level[n] : n \in 0..MaxDepth} : Len(u) = 1}}

\* GetRootExpressionTNode, GetRootConditionalExpressionTNode
ExpressionsOf(s) ==
  CASE ast[s].kind = "assign"        -> {ast[s].about[2]}
    [] ast[s].kind \in {"while", "if"} -> UNION {{c[1], c[2]} : c \in ToSet(ast[s].about)}
    [] OTHER                         -> {}

LeavesIn(s) == UNION {LeavesOf(tree) : tree \in ExpressionsOf(s)}

\* GetVariableTNode, GetAssigneeTNode
NamesIn(s) == IF ast[s].kind \in {"read", "print", "assign"} THEN {ast[s].about[1]} ELSE {}

\* GetVariableValues
VariablesIn(s) == LeavesIn(s) \ Constants

IsContainer(s) == ast[s].kind \in {"while", "if"}

Max0(S) == CHOOSE s \in S : \A t \in S : s >= t
Min0(S) == CHOOSE s \in S : \A t \in S : s <= t
-----------------------------------------------------------------------------
(* The handlers of the whole tree *)

ExtractStmtNums ==
  /\ During("StatementHandler")
  /\ pkb' = [pkb EXCEPT !.stmt = @ \cup DOMAIN ast]
  /\ End("StatementHandler")
  /\ UNCHANGED <<call_graph, cfg, queue, current>>

ParentEntries == {<<ParentOf(ast, s), s>> : s \in {t \in DOMAIN ast : ParentOf(ast, t) # 0}}

ParentTEntries == UNION {AncestorsOf(ast)[s] \X {s} : s \in DOMAIN ast}

ExtractParentAndParentT ==
  /\ During("ParentHandler")
  /\ pkb' = [pkb EXCEPT !.parent = InsertParent(@, ParentEntries),
                        !.parentT = InsertParentT(@, ParentTEntries)]
  /\ End("ParentHandler")
  /\ UNCHANGED <<call_graph, cfg, queue, current>>

\* Mutant: only what is directly in a container.
ModifiedByFlat ==
  LET own(s) == IF ast[s].kind \in {"read", "assign"} THEN {ast[s].about[1]} ELSE {}
  IN  [s \in DOMAIN ast |-> own(s) \cup UNION {own(t) : t \in {u \in DOMAIN ast : ParentOf(ast, u) = s}}]

\* vars_modified_by: a container has what the statements of its lists have.
ModifiedBy ==
  LET vars[s \in DOMAIN ast] ==
        IF ast[s].kind \in {"read", "assign"} THEN {ast[s].about[1]}
        ELSE IF IsContainer(s) THEN UNION {vars[t] : t \in {u \in DOMAIN ast : ParentOf(ast, u) = s}}
        ELSE {}
  IN  vars

ExtractModifiesWithoutCalls ==
  /\ During("ModifiesHandler")
  /\ pkb' = [pkb EXCEPT !.modifies = InsertStmtVars(@, UNION {{s} \X ModifiedBy[s] : s \in DOMAIN ast})]
  /\ End("ModifiesHandler")
  /\ UNCHANGED <<call_graph, cfg, queue, current>>

\* Without statements max_stmt_num is INT_MIN, and graph.resize throws.
BeginCFG ==
  /\ During("CFGHandler")
  /\ IF DOMAIN ast = {} THEN Terminate
     ELSE ConstructCFG /\ stage' = "connecting" /\ UNCHANGED extractVars

ConnectCFG == During("connecting") /\ CFGNext /\ UNCHANGED <<stage, extractVars>>

EndCFG ==
  /\ During("connecting") /\ CFGDone
  /\ End("CFGHandler")
  /\ UNCHANGED <<pkb, call_graph, cfg, queue, current>>

\* Mutant: the search marks where it starts.
ReachableWithSource(edges) ==
  LET reached[n \in 0..Len(ast)] ==
        IF n = 0 THEN edges \cup {<<s, s>> : s \in DOMAIN ast}
        ELSE reached[n - 1] \cup {<<q[1][1], q[2][2]>> : q \in {r \in reached[n - 1] \X edges : r[1][2] = r[2][1]}}
  IN  reached[Len(ast)]

\* DeUtils::GetReachableNodes from every node, as many edges deep as there
\* are nodes: a node is queued once.
Reachable(edges) ==
  LET reached[n \in 0..Len(ast)] ==
        IF n = 0 THEN edges
        ELSE reached[n - 1] \cup {<<q[1][1], q[2][2]>> : q \in {r \in reached[n - 1] \X edges : r[1][2] = r[2][1]}}
  IN  reached[Len(ast)]

\* ExtractNextRelation, ExtractNextTRelation
ExtractNext ==
  /\ During("NextHandler")
  /\ pkb' = [pkb EXCEPT !.next = InsertNext(@, cfg), !.nextT = InsertNextT(@, Reachable(cfg))]
  /\ End("NextHandler")
  /\ UNCHANGED <<call_graph, cfg, queue, current>>
-----------------------------------------------------------------------------
(* The handlers of a node; k is the PKB as the handlers before left it *)

ExtractProcedure(k, n) ==
  LET stmts == {s \in DOMAIN ast : ProcedureOf(ast)[s] = n}
  IN  [k EXCEPT !.proc = InsertProc(@, pnames[n], Min0(stmts), Max0(stmts))]

CallsIn(n) == {<<pnames[n], ast[s].about[1]>> : s \in {t \in DOMAIN ast : ast[t].kind = "call" /\ ProcedureOf(ast)[t] = n}}

\* ExtractCallRelation; the graph takes the same pairs.
ExtractCallRelation(k, n) == [k EXCEPT !.calls = InsertNames(@, CallsIn(n))]

\* ExtractFollowsStmts, ExtractFollowsTStmts: the statements of a list in their
\* order.
ExtractFollows(k, list) ==
  LET stmts == Children(ast, list)
      ordered == {p \in stmts \X stmts : p[1] < p[2]}
  IN  [k EXCEPT !.follows = InsertFollows(@, {p \in ordered : ~\E t \in stmts : p[1] < t /\ t < p[2]}),
                !.followsT = InsertFollowsT(@, ordered)]

\* A read or a print has one variable.
ExtractReadAndPrint(k, s) ==
  CASE ast[s].kind = "read"  -> [k EXCEPT !.read = @ \cup {<<s, ast[s].about[1]>>}]
    [] ast[s].kind = "print" -> [k EXCEPT !.print = @ \cup {<<s, ast[s].about[1]>>}]
    [] OTHER                 -> k

ExtractAssignIfWhile(k, s) ==
  CASE ast[s].kind = "assign" -> [k EXCEPT !.assign = InsertAssign(@, s, ast[s].about[1], ast[s].about[2])]
    [] ast[s].kind = "if"     -> [k EXCEPT !.if = InsertContainer(@, s, VariablesIn(s))]
    [] ast[s].kind = "while"  -> [k EXCEPT !.while = InsertContainer(@, s, VariablesIn(s))]
    [] OTHER                  -> k

\* Mutant: only the container that a statement is directly in.
ExtractUsesForParent(k, s) ==
  LET vars == IF ast[s].kind = "print" THEN {ast[s].about[1]} ELSE VariablesIn(s)
      parents == {p[2] : p \in {q \in k.parent.inverse : q[1] = s}}
  IN  [k EXCEPT !.uses = InsertStmtVars(@, ({s} \cup parents) \X vars)]

\* ExtractUsesStmtsWithoutCalls: for the statement and all around it.
ExtractUses(k, s) ==
  LET vars == IF ast[s].kind = "print" THEN {ast[s].about[1]} ELSE VariablesIn(s)
      parents == {p[2] : p \in {q \in k.parentT.inverse : q[1] = s}}
  IN  [k EXCEPT !.uses = InsertStmtVars(@, ({s} \cup parents) \X vars)]

\* ExtractStmtEntityType, ExtractCallStmts
ExtractEntityAndCall(k, s) ==
  LET typed == [k EXCEPT !.entity = InsertStmtName(@, s, ast[s].kind)]
  IN  IF ast[s].kind = "call" THEN [typed EXCEPT !.callStmts = InsertStmtName(@, s, ast[s].about[1])] ELSE typed

ExtractStatement(k, s) ==
  ExtractEntityAndCall(ExtractUses(ExtractAssignIfWhile(ExtractReadAndPrint(k, s), s), s), s)

\* ExtractVariableStmts, ExtractConstants
ExtractLeaves(k, s) ==
  [k EXCEPT !.var = @ \cup NamesIn(s) \cup VariablesIn(s), !.const = @ \cup (LeavesIn(s) \cap Constants)]

\* The children of a statement that are no lists come first.
ChildrenOf(node) ==
  CASE node.type = "procedure"  -> <<[type |-> "list", list |-> node.list]>>
    [] node.type = "list"       -> [i \in 1..Cardinality(Children(ast, node.list)) |->
                                      [type |-> "statement", stmt |-> InOrder(Children(ast, node.list))[i]]]
    [] node.type = "statement"  ->
         (IF ast[node.stmt].kind = "call" THEN <<>> ELSE <<[type |-> "leaves", stmt |-> node.stmt]>>)
         \o [i \in DOMAIN ListsBelow(ast, node.stmt) |-> [type |-> "list", list |-> ListsBelow(ast, node.stmt)[i]]]
    [] OTHER                    -> <<>>

TakeNode(type) ==
  /\ During("BreadthFirstTraversal")
  /\ nodes # <<>> /\ Head(nodes).type = type
  /\ nodes' = Tail(nodes) \o ChildrenOf(Head(nodes))
  /\ UNCHANGED <<stage, left, cfg, queue, current>>

TakeProcedure ==
  /\ TakeNode("procedure")
  /\ LET n == Head(nodes).list.of
     IN  /\ pkb' = ExtractCallRelation(ExtractProcedure(pkb, n), n)
         /\ call_graph' = call_graph \cup CallsIn(n)

TakeStatementList ==
  /\ TakeNode("list")
  /\ pkb' = ExtractFollows(pkb, Head(nodes).list)
  /\ UNCHANGED call_graph

TakeStatement ==
  /\ TakeNode("statement")
  /\ pkb' = ExtractStatement(pkb, Head(nodes).stmt)
  /\ UNCHANGED call_graph

Overflows(node) == node.type = "leaves" /\ LeavesIn(node.stmt) \cap TooLarge # {}

TakeLeaves ==
  /\ nodes # <<>> /\ ~Overflows(Head(nodes))
  /\ TakeNode("leaves")
  /\ pkb' = ExtractLeaves(pkb, Head(nodes).stmt)
  /\ UNCHANGED call_graph

\* stoi throws std::out_of_range.
ThrowOutOfRange ==
  /\ During("BreadthFirstTraversal")
  /\ nodes # <<>> /\ Overflows(Head(nodes))
  /\ Terminate

EndTraversal ==
  /\ During("BreadthFirstTraversal") /\ nodes = <<>>
  /\ End("BreadthFirstTraversal")
  /\ UNCHANGED <<pkb, call_graph, cfg, queue, current>>
-----------------------------------------------------------------------------
(* What calls add *)

CalleesIn(graph, p) == {e[2] : e \in {d \in graph : d[1] = p}}

\* Mutant: only the procedures that are called directly.
DirectlyCalled(p) == CalleesIn(call_graph, p)

\* GetDescendantsOf goes down the static graph; it ends where nothing is called.
GetDescendantsOf(p) ==
  LET descendants[q \in KeysOf(call_graph) \cup {e[2] : e \in call_graph}] ==
        CalleesIn(call_graph, q) \cup UNION {descendants[c] : c \in CalleesIn(call_graph, q)}
  IN  descendants[p]

\* Mutant: the static graph is kept.
ExtractCallTKeepsGraph ==
  /\ During("CallHandler")
  /\ pkb' = [pkb EXCEPT !.callsT = InsertNames(@, UNION {{p} \X GetDescendantsOf(p) : p \in KeysOf(call_graph)})]
  /\ End("CallHandler")
  /\ UNCHANGED <<call_graph, cfg, queue, current>>

ExtractCallT ==
  /\ During("CallHandler")
  /\ pkb' = [pkb EXCEPT !.callsT = InsertNames(@, UNION {{p} \X GetDescendantsOf(p) : p \in KeysOf(call_graph)})]
  /\ call_graph' = {}
  /\ End("CallHandler")
  /\ UNCHANGED <<cfg, queue, current>>

\* GetProcRange
RangeOf(name) == UNION {p.first..p.last : p \in {q \in pkb.proc : q.name = name}}

\* The statements that call a procedure (GetStmtIndexesThatCalls) and what is
\* around them.
WhoCalls(name) ==
  LET calls == {p[2] : p \in {q \in pkb.callStmts.inverse : q[1] = name}}
  IN  calls \cup {p[2] : p \in {q \in pkb.parentT.inverse : q[1] \in calls}}

\* topo_order of the inverse call graph: callees first (Toposort).
NextOf(procs) == {p \in procs : CalleesIn(pkb.calls.table, p) \cap procs = {}}

VarsOf(t, name) == {p[2] : p \in {q \in t.table : q[1] \in RangeOf(name)}}

\* The body of the loop of ExtractUsesSCallsAndUsesP.
PropagateUses ==
  /\ During("UsesP")
  /\ \E p \in NextOf(left) :
       LET vars == VarsOf(pkb.uses, p)
       IN  /\ pkb' = [pkb EXCEPT !.usesP = InsertNames(@, {p} \X vars),
                                 !.uses = InsertStmtVars(@, WhoCalls(p) \X vars)]
           /\ left' = left \ {p}
  /\ UNCHANGED <<stage, call_graph, nodes, cfg, queue, current>>

\* PopulateModifiesSForCallsAndModifiesP
PropagateModifies ==
  /\ During("ModifiesP")
  /\ \E p \in NextOf(left) :
       LET vars == VarsOf(pkb.modifies, p)
       IN  /\ pkb' = [pkb EXCEPT !.modifiesP = InsertNames(@, {p} \X vars),
                                 !.modifies = InsertStmtVars(@, WhoCalls(p) \X vars)]
           /\ left' = left \ {p}
  /\ UNCHANGED <<stage, call_graph, nodes, cfg, queue, current>>

EndPropagation ==
  /\ left = {}
  /\ \/ During("UsesP") /\ End("UsesP")
     \/ During("ModifiesP") /\ End("ModifiesP")
  /\ UNCHANGED <<pkb, call_graph, cfg, queue, current>>
-----------------------------------------------------------------------------
(* What a program means *)

Stmts == DOMAIN ast
ProcOf(s) == pnames[ProcedureOf(ast)[s]]
Comes(s, t) == s < t /\ ast[s].list = ast[t].list
Parents == {p \in Stmts \X Stmts : p[1] = ParentOf(ast, p[2])}
CallStmts == {s \in Stmts : ast[s].kind = "call"}
Calls == {<<ProcOf(s), ast[s].about[1]>> : s \in CallStmts}
-----------------------------------------------------------------------------
ExtractInit == pkb = NoTables /\ call_graph = {} /\ nodes = <<>> /\ left = {} /\ CFGInit

\* DesignExtractor::ExtractDesigns is called with a new tree.
ExtractDesigns == Begin(Handlers[1]) /\ UNCHANGED <<pkb, call_graph, cfg, queue, current>>

ExtractNextStep ==
  \/ ExtractStmtNums \/ ExtractParentAndParentT \/ ExtractModifiesWithoutCalls
  \/ BeginCFG \/ ConnectCFG \/ EndCFG \/ ExtractNext
  \/ TakeProcedure \/ TakeStatementList \/ TakeStatement \/ TakeLeaves \/ ThrowOutOfRange \/ EndTraversal
  \/ ExtractCallT \/ PropagateUses \/ PropagateModifies \/ EndPropagation

\* What Parser::Parse leaves: a list of the tree is a procedure's or below an
\* earlier statement, the procedures have different names, what is called is a
\* procedure and does not call itself again, and no token is empty.
IsParsed ==
  /\ ast \in Seq(ToSet(ast)) /\ pnames \in Seq(ToSet(pnames))
  /\ \A s \in Stmts : /\ ast[s].kind \in {"assign", "read", "print", "call", "while", "if"}
                      /\ ast[s].list \in {Procedure(n) : n \in DOMAIN pnames}
                                        \cup UNION {ToSet(ListsBelow(ast, p)) : p \in 1..(s - 1)}
  /\ IsAst(ast)
  /\ ProceduresOf(ast) = DOMAIN pnames
  /\ IsInjective(pnames) /\ "" \notin ToSet(pnames)
  /\ Calls \subseteq ToSet(pnames) \X ToSet(pnames)
  /\ \A p \in ToSet(pnames) : p \notin ReachableFrom(Calls, ToSet(pnames), p)
  /\ \A s \in Stmts : "" \notin NamesIn(s) \cup LeavesIn(s)

\* The stages before an extraction.
Reading == {"lexing", "parsing", "validating", "parsed", "rejected"}

\* Another text is read, and the PKB is emptied.  After an exception that is
\* not caught it is another process.
ReadProgram ==
  /\ stage \in Reading \cup {"extracted", "thrown"} /\ stage' \in Reading
  /\ stage' = "parsed" => IsParsed'
  /\ pkb' = NoTables
  /\ call_graph' = IF stage = "thrown" THEN {} ELSE call_graph

\* The extractor as its callers see it: nothing but the handlers, in their order,
\* changes the PKB, they begin with a tree Parser::Parse accepted and keep it, and
\* the next text finds empty tables.  It is what the reading of a text implements.
ExtractSpec ==
  /\ ExtractInit /\ stage = "lexing"
  /\ [][ExtractNextStep \/ (stage = "parsed" /\ ExtractDesigns /\ UNCHANGED <<ast, pnames>>) \/ ReadProgram]_<<stage, ast, pnames, extractVars, cfgVars>>
-----------------------------------------------------------------------------
(* What the PKB means *)

Extracted == stage = "extracted"

\* Whatever is inserted, in whatever order, and at every moment: what a
\* relation answers from the left it answers from the right, a statement has
\* one type, one parent, and one statement before and behind it.
InverseTablesAgree == TablesAgree(pkb)

\* When the extraction is over the tables hold the relations of the language:
\* the statements behind each other in a list, around each other, executed
\* after each other, and the procedures that call each other, with their
\* transitive closures; also of a program that is extracted after another.
RelationsAreTheProgram ==
  Extracted =>
    /\ pkb.followsT.table = {p \in Stmts \X Stmts : Comes(p[1], p[2])}
    /\ pkb.follows.table = {p \in Stmts \X Stmts : /\ Comes(p[1], p[2])
                                                   /\ ~\E t \in Stmts : Comes(p[1], t) /\ Comes(t, p[2])}
    /\ pkb.parent.table = Parents
    /\ pkb.parentT.table = TransitiveClosure(Parents, Stmts)
    /\ pkb.next.table = ControlFlow(ast)
    /\ pkb.nextT.table = TransitiveClosure(ControlFlow(ast), Stmts)
    /\ pkb.calls.table = Calls
    /\ pkb.callsT.table = TransitiveClosure(Calls, ToSet(pnames))

\* Executing a statement executes what it contains and what it calls.
Executes == Parents \cup UNION {{s} \X {t \in Stmts : ProcOf(t) = ast[s].about[1]} : s \in CallStmts}

WrittenBy(s) == IF ast[s].kind \in {"read", "assign"} THEN {ast[s].about[1]} ELSE {}
ReadBy(s) == VariablesIn(s) \cup (IF ast[s].kind = "print" THEN {ast[s].about[1]} ELSE {})

EffectOf(s, Direct(_)) == UNION {Direct(t) : t \in {s} \cup ReachableFrom(Executes, Stmts, s)}

\* What executing a statement or a procedure can read or write it uses or
\* modifies, and nothing else: though a container's own part is inserted
\* before the calls are known, by another handler and for the two relations in
\* two ways.
EffectsAreTheProgram ==
  Extracted =>
    /\ pkb.uses.table = UNION {{s} \X EffectOf(s, ReadBy) : s \in Stmts}
    /\ pkb.modifies.table = UNION {{s} \X EffectOf(s, WrittenBy) : s \in Stmts}
    /\ pkb.usesP.table = UNION {{ProcOf(s)} \X EffectOf(s, ReadBy) : s \in Stmts}
    /\ pkb.modifiesP.table = UNION {{ProcOf(s)} \X EffectOf(s, WrittenBy) : s \in Stmts}

\* Those of a kind, with the name they are about.
OfKind(kind) == {s \in Stmts : ast[s].kind = kind}
Naming(kind) == {<<s, ast[s].about[1]>> : s \in OfKind(kind)}

\* A condition without variables is known by the empty name.
ConditionOf(s) == IF VariablesIn(s) = {} THEN {""} ELSE VariablesIn(s)

\* The entities are those of the program.  Each statement has its type, is in
\* the table of its type with what it is about, and is in the range of its
\* procedure only; a variable or a constant is known wherever it stands, however
\* deep in an expression.  What a statement is about is also in Uses or Modifies,
\* and the empty name neither there nor found from its own side.
EntitiesAreTheProgram ==
  Extracted =>
    /\ pkb.stmt = Stmts /\ pkb.entity.table = {<<s, ast[s].kind>> : s \in Stmts}
    /\ pkb.var = UNION {NamesIn(s) \cup VariablesIn(s) : s \in Stmts}
    /\ pkb.const = UNION {LeavesIn(s) \cap Constants : s \in Stmts}
    /\ {p.name : p \in pkb.proc} = ToSet(pnames)
    /\ \A s \in Stmts, p \in pkb.proc : s \in p.first..p.last <=> p.name = ProcOf(s)
    /\ pkb.read = Naming("read") /\ pkb.print = Naming("print") /\ pkb.callStmts.table = Naming("call")
    /\ pkb.assign.assigned.table = Naming("assign")
    /\ pkb.assign.rhs = {<<s, ast[s].about[2]>> : s \in OfKind("assign")}
    /\ pkb.if.table = UNION {{s} \X ConditionOf(s) : s \in OfKind("if")}
    /\ pkb.while.table = UNION {{s} \X ConditionOf(s) : s \in OfKind("while")}
    /\ pkb.read \cup pkb.assign.assigned.table \subseteq pkb.modifies.table
    /\ pkb.print \cup {p \in pkb.if.table \cup pkb.while.table : p[2] # ""} \subseteq pkb.uses.table
    /\ "" \notin KeysOf(pkb.if.inverse \cup pkb.while.inverse) \cup {p[2] : p \in pkb.uses.table \cup pkb.modifies.table}
=============================================================================
