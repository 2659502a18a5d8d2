--------------------------- MODULE NextBipHandler ---------------------------
(***************************************************************************)
(* NextBipHandler::PopulateNextBipTRelationFromStmt (design_extractor/     *)
(* handler/NextBipHandler.cpp): a search from one statement that keeps the *)
(* stack of return points with every node (a PCB) and is bounded by the    *)
(* hops of a path and the visits of a statement.  It runs on the graph     *)
(* that CFGBipHandler has built.  One action takes a PCB from the stack.   *)
(* The successors of a node are pushed in any order.  The searches from    *)
(* the statements have nothing in common, and one of them is followed.     *)
(***************************************************************************)
EXTENDS CFGBipHandler, SequencesExt

VARIABLES
  from,              \* the statement the search starts from, 0 before
  pcbs,              \* the stack of PCBs, its top first
  visits_left,
  times_from_seen,
  reachable

searchVars == <<from, pcbs, visits_left, times_from_seen, reachable>>

vars == <<bipVars, searchVars>>

Pcb(s, return_to, hops) == [cur_sn |-> s, return_to |-> return_to, hops_left |-> hops]

\* The size of cfgbip, which has a node 0, less 1.
NumHops(p) == p.stmts

\* Mutant: the start is not given its second visit.
VisitsOneEach(start) == [s \in Stmts(prog) |-> 1]

\* The start may be met again.
VisitsAtStart(start) == [s \in Stmts(prog) |-> IF s = start THEN 2 ELSE 1]

Init ==
  /\ ConstructInit
  /\ from = 0
  /\ pcbs = <<>> /\ visits_left = <<>>
  /\ times_from_seen = 0
  /\ reachable = {}

ConstructCFGBip == ConstructNext /\ UNCHANGED searchVars

StartSearch ==
  /\ Constructed /\ from = 0
  /\ from' \in Stmts(prog)
  /\ pcbs' = <<Pcb(from', <<>>, NumHops(prog))>>
  /\ visits_left' = VisitsAtStart(from')
  /\ UNCHANGED <<bipVars, times_from_seen, reachable>>

\* Mutant: an exit statement returns wherever its procedure is called.
ContinuationsAnywhere(s, return_to) ==
  IF s \in CallStmts(prog)
  THEN {[to |-> Entry(prog, prog.callee[s]), stack |-> return_to]}
  ELSE {[to |-> n, stack |-> return_to] : n \in Successors(cfgbip, s)}

\* Mutant: the return point stays on the stack.
ContinuationsKeepTop(s, return_to) ==
  CASE s \in CallStmts(prog) ->
         {[to    |-> Entry(prog, prog.callee[s]),
           stack |-> IF prog.next[s] = {} THEN return_to
                     ELSE <<CHOOSE n \in prog.next[s] : TRUE>> \o return_to]}
    [] s \notin CallStmts(prog) /\ IsExitStmt(prog, s) /\ return_to # <<>> ->
         {[to |-> n, stack |-> return_to] : n \in {Head(return_to)} \cup prog.next[s]}
    [] OTHER -> {[to |-> n, stack |-> return_to] : n \in Successors(cfgbip, s)}

\* Where control goes from s: into the callee, pushing the statement behind
\* the call; back to the top of the stack, and from a while into its body
\* too; anywhere cfgbip allows when no caller is known.
Continuations(s, return_to) ==
  CASE s \in CallStmts(prog) ->
         {[to    |-> Entry(prog, prog.callee[s]),
           stack |-> IF prog.next[s] = {} THEN return_to
                     ELSE <<CHOOSE n \in prog.next[s] : TRUE>> \o return_to]}
    [] s \notin CallStmts(prog) /\ IsExitStmt(prog, s) /\ return_to # <<>> ->
         {[to |-> Head(return_to), stack |-> Tail(return_to)]}
         \cup {[to |-> n, stack |-> return_to] : n \in prog.next[s]}
    [] OTHER -> {[to |-> n, stack |-> return_to] : n \in Successors(cfgbip, s)}

\* A call allows every statement of its callee one visit more.
VisitsAfter(s) ==
  LET callee == IF s \in CallStmts(prog) THEN StmtsOf(prog, prog.callee[s]) ELSE {}
  IN  [t \in Stmts(prog) |-> visits_left[t] - (IF t = s THEN 1 ELSE 0) + (IF t \in callee THEN 1 ELSE 0)]

\* Mutant: the stack is popped only for nodes that are processed.
SkipWithoutPop ==
  /\ pcbs # <<>> /\ visits_left[Head(pcbs).cur_sn] <= 0
  /\ UNCHANGED vars

\* visits_left[cur_sn] <= 0
Skip ==
  /\ pcbs # <<>> /\ visits_left[Head(pcbs).cur_sn] <= 0
  /\ pcbs' = Tail(pcbs)
  /\ UNCHANGED <<bipVars, from, visits_left, times_from_seen, reachable>>

\* hops_left < 0, with the visit already counted
OutOfHops ==
  /\ pcbs # <<>> /\ visits_left[Head(pcbs).cur_sn] > 0 /\ Head(pcbs).hops_left < 0
  /\ pcbs' = Tail(pcbs)
  /\ visits_left' = [visits_left EXCEPT ![Head(pcbs).cur_sn] = @ - 1]
  /\ UNCHANGED <<bipVars, from, times_from_seen, reachable>>

Process ==
  /\ pcbs # <<>> /\ visits_left[Head(pcbs).cur_sn] > 0 /\ Head(pcbs).hops_left >= 0
  /\ LET s == Head(pcbs).cur_sn
         next == {Pcb(c.to, c.stack, Head(pcbs).hops_left - 1) : c \in Continuations(s, Head(pcbs).return_to)}
     IN  /\ \E pushed \in SetToSeqs(next) : pcbs' = pushed \o Tail(pcbs)
         /\ visits_left' = VisitsAfter(s)
         /\ times_from_seen' = times_from_seen + (IF s = from THEN 1 ELSE 0)
         /\ reachable' = reachable \cup {s}
  /\ UNCHANGED <<bipVars, from>>

Next == ConstructCFGBip \/ StartSearch \/ Skip \/ OutOfHops \/ Process

Spec == Init /\ [][Next]_vars

FairSpec == Spec /\ WF_vars(Next)

Done == from # 0 /\ pcbs = <<>>

\* What is inserted as NextBip*(from, s).
Inserted == IF times_from_seen = 1 THEN reachable \ {from} ELSE reachable
-----------------------------------------------------------------------------
(* Executions of a program of several procedures, step by step.  A         *)
(* configuration is a statement and the stack of the statements to return  *)
(* to; the stack is empty when the callers are not known.                  *)

\* One step of an execution.  Without a known caller control returns behind
\* any call that the statement can return from.
Steps(p, s, stack) ==
  LET enter == {<<Entry(p, p.callee[s]), ret \o stack>> :
                  ret \in IF p.next[s] = {} THEN {<<>>} ELSE {<<t>> : t \in p.next[s]}}
      callers == {d \in CallStmts(p) : s \in ReturnsFrom(p, p.callee[d])}
      return == IF stack # <<>> THEN {<<Head(stack), Tail(stack)>>}
                ELSE (UNION {p.next[d] : d \in callers}) \X {<<>>}
  IN  IF s \in CallStmts(p) THEN enter
      ELSE (p.next[s] \X {stack}) \cup (IF IsReturn(p, s) THEN return ELSE {})

\* The configurations that executions reach from s in one step to n steps.
ExecutedWithin(p, s) ==
  LET within[n \in Nat] ==
        IF n = 0 THEN {}
        ELSE Steps(p, s, <<>>) \cup UNION {Steps(p, c[1], c[2]) : c \in within[n - 1]}
  IN  within

ExecutedAfter(p, s, n) == {c[1] : c \in ExecutedWithin(p, s)[n]}
-----------------------------------------------------------------------------
TypeOK ==
  /\ BipTypeOK
  /\ from \in Stmts(prog) \cup {0}
  /\ \A i \in DOMAIN pcbs :
       /\ pcbs[i].cur_sn \in Stmts(prog)
       /\ pcbs[i].hops_left \in -1..NumHops(prog)
       /\ Len(pcbs[i].return_to) < Cardinality(Node)
  /\ from # 0 => visits_left \in [Stmts(prog) -> Nat]
  /\ reachable \subseteq Stmts(prog)
  /\ from \in reachable <=> times_from_seen > 0

\* The assertions in the search, about the statement that is processed: a call
\* leads to one callee, and is an exit or has one statement behind it; an if or
\* while that is no exit has two successors, and any other statement one.
SearchAssertionsHold ==
  from # 0 /\ pcbs # <<>> =>
    LET s == Head(pcbs).cur_sn
        edges == Cardinality(Successors(cfgbip, s))
        exit == IsExitStmt(prog, s)
    IN  /\ s \in CallStmts(prog) => edges = 1 /\ (exit \/ Cardinality(prog.next[s]) = 1)
        /\ s \notin CallStmts(prog) => exit \/ edges = IF prog.kind[s] \in {"if", "while"} THEN 2 ELSE 1

\* No assertion stops the handlers: those in Operate hold, which add and erase
\* edges, and those in the search, which runs on the edges that are left.
NoAssertionFails == AssertionsHold /\ SearchAssertionsHold

\* What is inserted can be executed after from, in as many steps as there are
\* hops or fewer.
NoNextBipTInvented == Done => Inserted \subseteq ExecutedAfter(prog, from, NumHops(prog))

\* "it is known that there is a path from each node to all nodes it can reach
\* in at most n-1 hops" (NextBipHandler.cpp:50): the bounds cut off nothing
\* that can be executed after from.  Executions of twice that length are
\* enough to tell.
NoNextBipTMissed == Done => ExecutedAfter(prog, from, 2 * NumHops(prog)) \subseteq Inserted

\* Nothing is executed twice because of a loop that calls or is called: no
\* procedure is called by two statements, no call is in a loop, and no procedure
\* that is called has one.
IsSimple(p) ==
  /\ \A c, d \in CallStmts(p) : p.callee[c] = p.callee[d] => c = d
  /\ \A s \in Stmts(p) : s \in CallStmts(p) \/ (\E c \in CallStmts(p) : s \in StmtsOf(p, p.callee[c]))
                         => s \notin ReachableFrom(NextEdges(p), Stmts(p), s)

\* In such programs the bounds cut off nothing.  With a call in a loop they do,
\* when the callee is entered for the second time with few hops left, and uses
\* up the visits of statements that are still on the stack from the first time.
NoNextBipTMissedIfSimple == NoNextBipTMissed \/ ~IsSimple(prog)

\* The search ends although loops are searched again and again.
SearchEnds == <>Done
=============================================================================
