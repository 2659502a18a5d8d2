---------------------------- MODULE ProcEffects ----------------------------
(***************************************************************************)
(* What procedures and call statements modify or use:                      *)
(* ExtractModifiesSForCallsAndModifiesP (ModifiesHandler.cpp) and          *)
(* ExtractUsesSCallsAndUsesP (UsesHandler.cpp), which do the same to two   *)
(* relations of the PKB.  The inverse call graph is sorted topologically   *)
(* (Toposort), then each procedure passes what its statements have to the  *)
(* statements that call it and to the containers around those.             *)
(***************************************************************************)
EXTENDS Toposort

CONSTANTS Variable, Programs

\* What the PKB holds when the handlers run: the statements of a procedure,
\* the procedure that a call statement calls, the containers around a
\* statement (Parent*) and what the statements modify or use without calls.
IsProgram(p) ==
  /\ p.stmts \in Nat
  /\ p.range \in [Node -> [first : 1..p.stmts, last : 1..p.stmts]]
  /\ \A s \in 1..p.stmts : \E n \in Node : s \in p.range[n].first..p.range[n].last
  /\ \A m, n \in Node : m = n \/ p.range[m].last < p.range[n].first \/ p.range[n].last < p.range[m].first
  /\ DOMAIN p.callee \subseteq 1..p.stmts
  /\ p.callee \in [DOMAIN p.callee -> Node]
  /\ p.parentT \in [1..p.stmts -> SUBSET (1..p.stmts)]
  /\ \A s \in 1..p.stmts, n \in Node :
       s \in p.range[n].first..p.range[n].last => p.parentT[s] \subseteq p.range[n].first..s
  /\ p.direct \in [1..p.stmts -> SUBSET Variable]

StmtsOf(p, n) == p.range[n].first..p.range[n].last

\* Calls(m, n).
Calls(p) == {e \in Node \X Node : \E s \in DOMAIN p.callee : s \in StmtsOf(p, e[1]) /\ p.callee[s] = e[2]}

\* Mutant: from caller to callee.
CallGraph(p) == Calls(p)

\* Mutant: a procedure is among its own callers.
ReflexiveCallGraph(p) == {<<e[2], e[1]>> : e \in Calls(p)} \cup {<<n, n>> : n \in Node}

InverseCallGraph(p) == {<<e[2], e[1]>> : e \in Calls(p)}

\* The parser has rejected recursion (ValidateNonRecursiveCalls).
ASSUME ProgramsAssumption ==
  \A p \in Programs :
    IsProgram(p) /\ \A n \in Node : n \notin ReachableFrom(Calls(p), Node, n)

VARIABLES
  prog,
  ofStmt, ofProc,    \* the PKB: what statements and procedures have
  done               \* how many procedures of sorted_order are processed

vars == <<prog, sortVars, ofStmt, ofProc, done>>

Init ==
  /\ prog \in Programs
  /\ graph = InverseCallGraph(prog)
  /\ SortInit
  /\ ofStmt = prog.direct
  /\ ofProc = [n \in Node |-> {}]
  /\ done = 0

SortCalls == Sort /\ UNCHANGED <<prog, ofStmt, ofProc, done>>

CallsTo(n) == {s \in DOMAIN prog.callee : prog.callee[s] = n}

\* Mutant: only the call statement itself, not the containers around it.
WhoCallsDirectly(n) == CallsTo(n)

\* The statements with a call to n.
WhoCalls(n) == CallsTo(n) \cup UNION {prog.parentT[s] : s \in CallsTo(n)}

\* Mutant: the statement behind the last one of the procedure is read too.
VariablesPastEnd(n) ==
  UNION {ofStmt[s] : s \in (StmtsOf(prog, n) \cup {prog.range[n].last + 1}) \cap DOMAIN ofStmt}

\* vars_modded_p, vars_used_p
VariablesOf(n) == UNION {ofStmt[s] : s \in StmtsOf(prog, n)}

\* Mutant: the procedures that call n are given its variables at once.
PropagateToCallers ==
  /\ status = "sorted" /\ done < Len(sorted_order)
  /\ LET n == sorted_order[done + 1]
         callers == {m \in Node : <<m, n>> \in Calls(prog)}
     IN  /\ ofProc' = [m \in Node |-> IF m \in callers \cup {n} THEN ofProc[m] \cup VariablesOf(n) ELSE ofProc[m]]
         /\ ofStmt' = [s \in DOMAIN ofStmt |-> IF s \in WhoCalls(n) THEN ofStmt[s] \cup VariablesOf(n)
                                                                    ELSE ofStmt[s]]
  /\ done' = done + 1
  /\ UNCHANGED <<prog, sortVars>>

\* PopulateModifiesSForCallsAndModifiesP
Propagate ==
  /\ status = "sorted" /\ done < Len(sorted_order)
  /\ LET n == sorted_order[done + 1]
     IN  /\ ofProc' = [ofProc EXCEPT ![n] = @ \cup VariablesOf(n)]
         /\ ofStmt' = [s \in DOMAIN ofStmt |-> IF s \in WhoCalls(n) THEN ofStmt[s] \cup VariablesOf(n)
                                                                    ELSE ofStmt[s]]
  /\ done' = done + 1
  /\ UNCHANGED <<prog, sortVars>>

Next == SortCalls \/ Propagate

Spec == Init /\ [][Next]_vars

\* The extractor is one thread that runs to the end.
FairSpec == Spec /\ WF_vars(Next)

Done == status = "sorted" /\ done = Len(sorted_order)
-----------------------------------------------------------------------------
\* What executing a procedure or a statement can modify or use: what the
\* statements of the procedures that are called, however indirectly, do.
Effect(n) ==
  UNION {prog.direct[s] : s \in UNION {StmtsOf(prog, m) : m \in {n} \cup ReachableFrom(Calls(prog), Node, n)}}

EffectOfStmt(s) ==
  prog.direct[s] \cup UNION {Effect(prog.callee[c]) : c \in {d \in DOMAIN prog.callee : s \in prog.parentT[d] \cup {d}}}

\* "Precondition: all call stmts within proc must already have had their
\* ModifiesP(..) populated" (ModifiesHandler.cpp:115), at every turn; and a procedure has
\* nothing before its own.
CallsArePopulated ==
  /\ status = "sorted" /\ done < Len(sorted_order) =>
       \A s \in DOMAIN prog.callee \cap StmtsOf(prog, sorted_order[done + 1]) :
         Effect(prog.callee[s]) \subseteq ofStmt[s]
  /\ \A n \in Node : n \in {sorted_order[i] : i \in 1..done} \/ ofProc[n] = {}

\* No procedure or statement has a variable that executing it cannot reach, and
\* at the end none is missing, through chains of calls and out of nested ifs and
\* whiles.
EffectsAreReachable ==
  /\ \A n \in Node : ofProc[n] \subseteq Effect(n)
  /\ \A s \in 1..prog.stmts : ofStmt[s] \subseteq EffectOfStmt(s)
  /\ Done => /\ \A n \in Node : Effect(n) \subseteq ofProc[n]
             /\ \A s \in 1..prog.stmts : EffectOfStmt(s) \subseteq ofStmt[s]

\* Without recursion the sort does not throw and the end is reached.
Finishes == <>Done
=============================================================================
