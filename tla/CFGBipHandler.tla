--------------------------- MODULE CFGBipHandler ---------------------------
(***************************************************************************)
(* CFGBipHandler (design_extractor/utils/CFGBipHandler.cpp): the control   *)
(* flow graph of each procedure is joined to those of its callees,         *)
(* callees first.  One action starts Operate on a procedure, one visits a  *)
(* statement, one ends it.  The queue is a set: Next is read from an       *)
(* unordered set.  The order of the procedures is any that                 *)
(* DeUtils::Toposort may return, by ProcEffectsProofs!OrderIsTopological.  *)
(***************************************************************************)
EXTENDS BipProgram

CONSTANTS Programs, NoProc

ASSUME BipAssumption == NoProc \notin Node /\ \A p \in Programs : IsProgram(p)

VARIABLES
  prog,
  cfgbip,       \* the edges
  exit_stmts,   \* for the procedures operated on, where control leaves them
  proc,         \* the procedure Operate works on, or NoProc
  queue, visited, exits

bipVars == <<prog, cfgbip, exit_stmts, proc, queue, visited, exits>>

Operated == DOMAIN exit_stmts

ConstructInit ==
  /\ prog \in Programs
  /\ cfgbip = NextEdges(prog)
  /\ exit_stmts = [n \in {} |-> {}]
  /\ proc = NoProc
  /\ queue = {} /\ visited = {} /\ exits = {}

\* Mutant: procedures in any order.
ReadyAny == Node \ Operated

\* The procedures that may be next in the topological order.
Ready == {n \in Node \ Operated : \A m \in Node : <<n, m>> \in Calls(prog) => m \in Operated}

StartOperate ==
  /\ proc = NoProc
  /\ \E n \in Ready :
       /\ proc' = n
       /\ queue' = {Entry(prog, n)} /\ visited' = {Entry(prog, n)}
  /\ exits' = {}
  /\ UNCHANGED <<prog, cfgbip, exit_stmts>>

\* exit_stmts[callee]: the empty set for a procedure not operated on.
ExitsOf(n) == IF n \in Operated THEN exit_stmts[n] ELSE {}

\* Mutant: the edges to the statements behind a call stay.
ConnectKeepNext(cur) ==
  IF prog.kind[cur] # "call" THEN cfgbip
  ELSE cfgbip \cup {<<cur, Entry(prog, prog.callee[cur])>>} \cup (ExitsOf(prog.callee[cur]) \X prog.next[cur])

\* BranchIn and BranchBack replace the edges to the statements behind a call.
Connect(cur) ==
  IF prog.kind[cur] # "call" THEN cfgbip
  ELSE (cfgbip \cup {<<cur, Entry(prog, prog.callee[cur])>>} \cup (ExitsOf(prog.callee[cur]) \X prog.next[cur]))
       \ ({cur} \X prog.next[cur])

NewExits(cur) ==
  IF ~IsExitStmt(prog, cur) THEN {}
  ELSE IF prog.kind[cur] = "call" THEN ExitsOf(prog.callee[cur]) ELSE {cur}

\* Mutant: the statements that were visited are not remembered.
VisitAgain ==
  \E cur \in queue :
    /\ cfgbip' = Connect(cur)
    /\ exits' = exits \cup NewExits(cur)
    /\ queue' = (queue \ {cur}) \cup prog.next[cur]
    /\ visited' = visited \cup prog.next[cur]
    /\ UNCHANGED <<prog, exit_stmts, proc>>

Visit ==
  \E cur \in queue :
    /\ cfgbip' = Connect(cur)
    /\ exits' = exits \cup NewExits(cur)
    /\ queue' = (queue \ {cur}) \cup (prog.next[cur] \ visited)
    /\ visited' = visited \cup prog.next[cur]
    /\ UNCHANGED <<prog, exit_stmts, proc>>

EndOperate ==
  /\ proc # NoProc /\ queue = {}
  /\ exit_stmts' = [n \in Operated \cup {proc} |-> IF n = proc THEN exits ELSE exit_stmts[n]]
  /\ proc' = NoProc
  /\ UNCHANGED <<prog, cfgbip, queue, visited, exits>>

ConstructNext == StartOperate \/ Visit \/ EndOperate

ConstructSpec == ConstructInit /\ [][ConstructNext]_bipVars

Constructed == Operated = Node
-----------------------------------------------------------------------------
BipTypeOK ==
  /\ cfgbip \subseteq Stmts(prog) \X Stmts(prog)
  /\ Operated \subseteq Node
  /\ \A n \in Operated : exit_stmts[n] \subseteq Stmts(prog) \ CallStmts(prog)
  /\ proc \in Node \cup {NoProc}
  /\ proc # NoProc => visited \subseteq StmtsOf(prog, proc)
  /\ queue \subseteq visited

\* The assertions in Operate: a BranchIn edge is new, an edge erased is there.
AssertionsHold ==
  \A cur \in queue \cap CallStmts(prog) :
    /\ <<cur, Entry(prog, prog.callee[cur])>> \notin cfgbip
    /\ {cur} \X prog.next[cur] \subseteq cfgbip

\* At the end the graph holds the interprocedural control flow, and before
\* that, besides it, only the edges behind calls that are not visited yet.  The
\* exits of a procedure are known before any procedure that calls it is begun,
\* and are those of the last of its own calls too.
CfgBipIsFlow ==
  /\ cfgbip \subseteq InterproceduralFlow(prog) \cup {e \in NextEdges(prog) : e[1] \in CallStmts(prog)}
  /\ Constructed => cfgbip = InterproceduralFlow(prog)
  /\ \A n \in Operated : exit_stmts[n] = ReturnsFrom(prog, n)
  /\ proc # NoProc => \A s \in CallStmts(prog) \cap StmtsOf(prog, proc) : prog.callee[s] \in Operated
=============================================================================
