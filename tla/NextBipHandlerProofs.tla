------------------------ MODULE NextBipHandlerProofs ------------------------
(***************************************************************************)
(* Proofs about CFGBipHandler and NextBipHandler, for every program of     *)
(* procedures without recursion: the assertions of Operate hold, the graph *)
(* that is built is the flow of control between the procedures, what the   *)
(* search over it finds is reached by executions, and in simple programs   *)
(* it finds all that they reach.                                           *)
(***************************************************************************)
EXTENDS NextBipHandler, FiniteSetTheorems, WellFoundedInduction, TLAPS

(***************************************************************************)
(* A program, with what the proofs use of IsProgram.                       *)
(***************************************************************************)
LEMMA ProgramProperties ==
  ASSUME prog \in Programs
  PROVE  /\ IsFiniteSet(Stmts(prog))
         /\ \A n \in Node : StmtsOf(prog, n) \subseteq Stmts(prog) /\ Entry(prog, n) \in StmtsOf(prog, n)
         /\ \A s \in Stmts(prog) : \E n \in Node : s \in StmtsOf(prog, n)
         /\ \A m, n \in Node : m = n \/ StmtsOf(prog, m) \cap StmtsOf(prog, n) = {}
         /\ prog.callee \in [CallStmts(prog) -> Node]
         /\ prog.next \in [Stmts(prog) -> SUBSET Stmts(prog)]
         /\ \A n \in Node : \A s \in StmtsOf(prog, n) :
              /\ prog.next[s] \subseteq StmtsOf(prog, n)
              /\ s = Entry(prog, n) \/ s \in ReachableFrom(NextEdges(prog), Stmts(prog), Entry(prog, n))
<1>1. IsProgram(prog)
  BY BipAssumption
<1>2. IsFiniteSet(Stmts(prog))
  <2>1. prog.stmts \in Nat
    BY <1>1 DEF IsProgram
  <2>2. QED
    BY <2>1, FS_Interval DEF Stmts
<1>3. \A n \in Node : StmtsOf(prog, n) \subseteq Stmts(prog)
  <2> TAKE n \in Node
  <2>1. prog.stmts \in Nat /\ prog.range[n] \in [first : Stmts(prog), last : Stmts(prog)]
    BY <1>1 DEF IsProgram
  <2>2. prog.range[n].first \in 1..prog.stmts /\ prog.range[n].last \in 1..prog.stmts
    BY <2>1 DEF Stmts
  <2>3. QED
    BY <2>1, <2>2 DEF StmtsOf, Stmts
<1>4. QED
  BY <1>1, <1>2, <1>3 DEF IsProgram

\* IsExitStmt is right: what is no call and passes the test is a statement
\* after which control leaves the procedure.
LEMMA ExitIsReturn ==
  ASSUME prog \in Programs, NEW s \in Stmts(prog)
  PROVE  /\ s \notin CallStmts(prog) => (IsExitStmt(prog, s) <=> IsReturn(prog, s))
         /\ s \in CallStmts(prog) => (IsExitStmt(prog, s) <=> prog.next[s] = {})
<1>1. /\ prog.kind[s] \in {"assign", "read", "print", "call", "while", "if"}
      /\ prog.next[s] = {} => prog.kind[s] \notin {"while", "if"}
  BY BipAssumption DEF IsProgram
<1>2. IsFiniteSet(prog.next[s]) /\ prog.next[s] \subseteq Stmts(prog)
  BY ProgramProperties, FS_Subset
<1>3. Cardinality(prog.next[s]) = 1 <=> \E t \in Stmts(prog) : prog.next[s] = {t}
  <2>1. Cardinality(prog.next[s]) = 1 <=> \E t : prog.next[s] = {t}
    BY <1>2, FS_Singleton
  <2>2. QED
    BY <1>2, <2>1
<1>4. CASE s \notin CallStmts(prog)
  BY <1>1, <1>3, <1>4 DEF CallStmts, IsExitStmt, IsReturn
<1>5. CASE s \in CallStmts(prog)
  BY <1>5 DEF CallStmts, IsExitStmt
<1>6. QED
  BY <1>4, <1>5

(***************************************************************************)
(* The returns of a procedure are its own and those of what it calls last. *)
(***************************************************************************)
LEMMA ReachableByFirstEdge ==
  ASSUME NEW edges, NEW nodes, edges \subseteq nodes \X nodes, NEW a \in nodes, NEW n
  PROVE  n \in ReachableFrom(edges, nodes, a) <=>
           \E b \in nodes : <<a, b>> \in edges /\ (n = b \/ n \in ReachableFrom(edges, nodes, b))
<1>1. ASSUME NEW b \in nodes, <<a, b>> \in edges
      PROVE  /\ b \in ReachableFrom(edges, nodes, a)
             /\ ReachableFrom(edges, nodes, b) \subseteq ReachableFrom(edges, nodes, a)
  <2>1. ASSUME NEW S \in SUBSET nodes, ClosedFrom(edges, a, S)
        PROVE  b \in S /\ ClosedFrom(edges, b, S)
    BY <1>1, <2>1 DEF ClosedFrom
  <2>2. QED
    BY <2>1 DEF ReachableFrom
<1>2. ASSUME n \in ReachableFrom(edges, nodes, a)
      PROVE  \E b \in nodes : <<a, b>> \in edges /\ (n = b \/ n \in ReachableFrom(edges, nodes, b))
  <2> DEFINE S == {m \in nodes : \E b \in nodes : <<a, b>> \in edges /\ (m = b \/ m \in ReachableFrom(edges, nodes, b))}
  <2>1. ASSUME NEW e \in edges, e[1] = a \/ e[1] \in S
        PROVE  e[2] \in S
    <3>1. e = <<e[1], e[2]>> /\ e[1] \in nodes /\ e[2] \in nodes
      OBVIOUS
    <3>2. CASE e[1] = a
      BY <3>1, <3>2
    <3>3. CASE e[1] \in S
      <4>1. PICK b \in nodes : <<a, b>> \in edges /\ (e[1] = b \/ e[1] \in ReachableFrom(edges, nodes, b))
        BY <3>3
      <4>2. e[2] \in ReachableFrom(edges, nodes, b)
        <5>1. ASSUME NEW T \in SUBSET nodes, ClosedFrom(edges, b, T)
              PROVE  e[2] \in T
          BY <4>1, <5>1 DEF ReachableFrom, ClosedFrom
        <5>2. QED
          BY <3>1, <5>1 DEF ReachableFrom
      <4>3. QED
        BY <3>1, <4>1, <4>2
    <3>4. QED
      BY <2>1, <3>2, <3>3
  <2>2. ClosedFrom(edges, a, S) /\ S \in SUBSET nodes
    BY <2>1 DEF ClosedFrom
  <2> HIDE DEF S
  <2>3. n \in S
    BY <1>2, <2>2 DEF ReachableFrom
  <2>4. QED
    BY <2>3 DEF S
<1>3. QED
  BY <1>1, <1>2

LEMMA ReturnsOfLastCalls ==
  ASSUME prog \in Programs, NEW n \in Node, NEW s
  PROVE  s \in ReturnsFrom(prog, n) <=>
           \/ s \in StmtsOf(prog, n) /\ IsReturn(prog, s)
           \/ \E c \in CallStmts(prog) \cap StmtsOf(prog, n) :
                prog.next[c] = {} /\ s \in ReturnsFrom(prog, prog.callee[c])
<1> DEFINE E == TailCalls(prog)
           CallsLast(c) == c \in CallStmts(prog) \cap StmtsOf(prog, n) /\ prog.next[c] = {}
<1>1. E \subseteq Node \X Node
  BY DEF TailCalls
<1>2. \A m \in Node : <<n, m>> \in E <=> \E c : CallsLast(c) /\ prog.callee[c] = m
  BY DEF TailCalls
<1>3. \A c : CallsLast(c) => prog.callee[c] \in Node
  BY ProgramProperties
<1>4. \A m \in Node : StmtsOf(prog, m) \subseteq Stmts(prog)
  BY ProgramProperties
<1> HIDE DEF E, CallsLast
<1>5. \A m : m \in ReachableFrom(E, Node, n) <=>
        \E c : CallsLast(c) /\ (m = prog.callee[c] \/ m \in ReachableFrom(E, Node, prog.callee[c]))
  BY <1>1, <1>2, <1>3, ReachableByFirstEdge
<1>6. \A m \in Node : s \in ReturnsFrom(prog, m) <=>
        s \in Stmts(prog) /\ IsReturn(prog, s) /\ \E k \in {m} \cup ReachableFrom(E, Node, m) : s \in StmtsOf(prog, k)
  BY DEF ReturnsFrom, E
<1>7. s \in ReturnsFrom(prog, n) <=>
        \/ s \in StmtsOf(prog, n) /\ IsReturn(prog, s)
        \/ \E c : CallsLast(c) /\ s \in ReturnsFrom(prog, prog.callee[c])
  BY <1>3, <1>4, <1>5, <1>6
<1>8. QED
  BY <1>7 DEF CallsLast

(***************************************************************************)
(* The inductive invariant.  The calls connected so far are those of the   *)
(* procedures operated on and those taken from the queue of the procedure  *)
(* at work, and the graph is the flow of control with these calls in place *)
(* and the others passed over.                                             *)
(***************************************************************************)
Taken == visited \ queue

Connected ==
  {s \in CallStmts(prog) : (\E n \in Operated : s \in StmtsOf(prog, n)) \/ (proc # NoProc /\ s \in Taken)}

JoinedFlow(calls) ==
  {e \in NextEdges(prog) : e[1] \notin calls}
  \cup {<<s, Entry(prog, prog.callee[s])>> : s \in calls}
  \cup UNION {ReturnsFrom(prog, prog.callee[s]) \X prog.next[s] : s \in calls}

\* What a statement adds to the exits of its procedure.
ExitsAt(s) ==
  IF ~IsExitStmt(prog, s) THEN {}
  ELSE IF s \in CallStmts(prog) THEN ReturnsFrom(prog, prog.callee[s]) ELSE {s}

OperatingInv ==
  /\ Entry(prog, proc) \in visited
  /\ queue \subseteq visited /\ visited \subseteq StmtsOf(prog, proc)
  /\ \A s \in Taken : prog.next[s] \subseteq visited
  /\ \A s \in CallStmts(prog) \cap StmtsOf(prog, proc) : prog.callee[s] \in Operated
  /\ exits = UNION {ExitsAt(s) : s \in Taken}

ConstructInv ==
  /\ prog \in Programs
  /\ Operated \subseteq Node
  /\ exit_stmts = [n \in Operated |-> ReturnsFrom(prog, n)]
  /\ proc \in (Node \ Operated) \cup {NoProc}
  /\ IF proc = NoProc THEN queue = {} ELSE OperatingInv
  /\ queue \subseteq visited
  /\ cfgbip = JoinedFlow(Connected)

LEMMA JoinCall ==
  ASSUME prog \in Programs, NEW calls, NEW cur \in CallStmts(prog) \ calls,
         Entry(prog, prog.callee[cur]) \notin prog.next[cur]
  PROVE  /\ <<cur, Entry(prog, prog.callee[cur])>> \notin JoinedFlow(calls)
         /\ {cur} \X prog.next[cur] \subseteq JoinedFlow(calls)
         /\ JoinedFlow(calls \cup {cur}) =
              (JoinedFlow(calls) \cup {<<cur, Entry(prog, prog.callee[cur])>>}
                 \cup (ReturnsFrom(prog, prog.callee[cur]) \X prog.next[cur]))
              \ ({cur} \X prog.next[cur])
<1> DEFINE into == <<cur, Entry(prog, prog.callee[cur])>>
           behind == {cur} \X prog.next[cur]
           passed(C) == {e \in NextEdges(prog) : e[1] \notin C}
           entered(C) == {<<s, Entry(prog, prog.callee[s])>> : s \in C}
           left(C) == UNION {ReturnsFrom(prog, prog.callee[s]) \X prog.next[s] : s \in C}
<1>1. \A C : JoinedFlow(C) = passed(C) \cup entered(C) \cup left(C)
  BY DEF JoinedFlow
<1>2. cur \in Stmts(prog) /\ prog.next[cur] \subseteq Stmts(prog)
  BY ProgramProperties DEF CallStmts
<1>3. behind \subseteq passed(calls)
  BY <1>2 DEF NextEdges
<1>4. passed(calls \cup {cur}) = passed(calls) \ behind
  BY DEF NextEdges
<1>5. entered(calls \cup {cur}) = entered(calls) \cup {into}
  OBVIOUS
<1>6. left(calls \cup {cur}) = left(calls) \cup (ReturnsFrom(prog, prog.callee[cur]) \X prog.next[cur])
  OBVIOUS
<1>7. \A m : cur \notin ReturnsFrom(prog, m)
  BY DEF ReturnsFrom, IsReturn
<1>8. into \notin behind
  OBVIOUS
<1>9. into \notin passed(calls)
  BY DEF NextEdges
<1>10. into \notin entered(calls) /\ entered(calls) \cap behind = {}
  OBVIOUS
<1>11. \A C : into \notin left(C) /\ left(C) \cap behind = {}
  BY <1>7
<1> HIDE DEF into, behind, passed, entered, left
<1>12. /\ into \notin JoinedFlow(calls)
       /\ behind \subseteq JoinedFlow(calls)
       /\ JoinedFlow(calls \cup {cur}) =
            (JoinedFlow(calls) \cup {into} \cup (ReturnsFrom(prog, prog.callee[cur]) \X prog.next[cur])) \ behind
  BY <1>1, <1>3, <1>4, <1>5, <1>6, <1>8, <1>9, <1>10, <1>11
<1>13. QED
  BY <1>12 DEF into, behind

\* A call at work is of a procedure that is done, and its entry is elsewhere.
LEMMA CallsLeaveProcedure ==
  ASSUME ConstructInv, proc # NoProc, NEW cur \in CallStmts(prog) \cap StmtsOf(prog, proc)
  PROVE  /\ prog.callee[cur] \in Operated
         /\ Entry(prog, prog.callee[cur]) \notin prog.next[cur]
<1>1. /\ prog \in Programs /\ proc \in Node \ Operated
      /\ Operated \subseteq Node /\ prog.callee[cur] \in Operated
  BY DEF ConstructInv, OperatingInv
<1>2. /\ Entry(prog, prog.callee[cur]) \in StmtsOf(prog, prog.callee[cur])
      /\ prog.next[cur] \subseteq StmtsOf(prog, proc)
      /\ StmtsOf(prog, prog.callee[cur]) \cap StmtsOf(prog, proc) = {}
  BY <1>1, ProgramProperties
<1>3. QED
  BY <1>1, <1>2

LEMMA CalleesExits ==
  ASSUME ConstructInv, NEW n \in Operated
  PROVE  ExitsOf(n) = ReturnsFrom(prog, n)
BY DEF ConstructInv, ExitsOf

\* What is at work is not connected yet.
LEMMA QueueIsNotConnected ==
  ASSUME ConstructInv, NEW cur \in queue
  PROVE  proc # NoProc /\ cur \in StmtsOf(prog, proc) /\ cur \notin Connected
<1>1. /\ proc # NoProc /\ cur \in StmtsOf(prog, proc)
      /\ prog \in Programs /\ proc \in Node \ Operated /\ Operated \subseteq Node
  BY DEF ConstructInv, OperatingInv
<1>2. \A n \in Operated : cur \notin StmtsOf(prog, n)
  BY <1>1, ProgramProperties
<1>3. QED
  BY <1>1, <1>2 DEF Connected, Taken

LEMMA InvImpliesAssertions ==
  ASSUME ConstructInv
  PROVE  AssertionsHold
<1> SUFFICES ASSUME NEW cur \in queue \cap CallStmts(prog)
             PROVE  /\ <<cur, Entry(prog, prog.callee[cur])>> \notin cfgbip
                    /\ {cur} \X prog.next[cur] \subseteq cfgbip
  BY DEF AssertionsHold
<1>1. proc # NoProc /\ cur \in StmtsOf(prog, proc) /\ cur \notin Connected
  BY QueueIsNotConnected
<1>2. Entry(prog, prog.callee[cur]) \notin prog.next[cur]
  BY <1>1, CallsLeaveProcedure
<1>3. prog \in Programs /\ cfgbip = JoinedFlow(Connected)
  BY DEF ConstructInv
<1>4. QED
  BY <1>1, <1>2, <1>3, JoinCall

LEMMA InvImpliesFlow ==
  ASSUME ConstructInv
  PROVE  CfgBipIsFlow
<1>1. /\ prog \in Programs /\ cfgbip = JoinedFlow(Connected)
      /\ exit_stmts = [n \in Operated |-> ReturnsFrom(prog, n)]
      /\ proc \in (Node \ Operated) \cup {NoProc}
      /\ proc # NoProc => OperatingInv
  BY DEF ConstructInv
<1>2. Connected \subseteq CallStmts(prog)
  BY DEF Connected
<1>3. cfgbip \subseteq InterproceduralFlow(prog) \cup {e \in NextEdges(prog) : e[1] \in CallStmts(prog)}
  BY <1>1, <1>2 DEF JoinedFlow, InterproceduralFlow
<1>4. ASSUME Constructed
      PROVE  cfgbip = InterproceduralFlow(prog)
  <2>1. Connected = CallStmts(prog)
    <3>1. \A s \in CallStmts(prog) : \E n \in Node : s \in StmtsOf(prog, n)
      BY <1>1, ProgramProperties DEF CallStmts
    <3>2. QED
      BY <1>2, <1>4, <3>1 DEF Connected, Constructed
  <2>2. QED
    BY <1>1, <2>1 DEF JoinedFlow, InterproceduralFlow
<1>5. \A n \in Operated : exit_stmts[n] = ReturnsFrom(prog, n)
  BY <1>1
<1>6. proc # NoProc => \A s \in CallStmts(prog) \cap StmtsOf(prog, proc) : prog.callee[s] \in Operated
  BY <1>1 DEF OperatingInv
<1>7. QED
  BY <1>3, <1>4, <1>5, <1>6 DEF CfgBipIsFlow

LEMMA InvImpliesType ==
  ASSUME ConstructInv
  PROVE  BipTypeOK
<1>1. /\ prog \in Programs /\ cfgbip = JoinedFlow(Connected)
      /\ exit_stmts = [n \in Operated |-> ReturnsFrom(prog, n)]
      /\ Operated \subseteq Node /\ queue \subseteq visited
      /\ proc \in (Node \ Operated) \cup {NoProc}
      /\ proc # NoProc => visited \subseteq StmtsOf(prog, proc)
  BY DEF ConstructInv, OperatingInv
<1>2. \A n : ReturnsFrom(prog, n) \subseteq Stmts(prog) \ CallStmts(prog)
  BY DEF ReturnsFrom, IsReturn
<1>3. \A s \in CallStmts(prog) :
        s \in Stmts(prog) /\ prog.next[s] \subseteq Stmts(prog) /\ Entry(prog, prog.callee[s]) \in Stmts(prog)
  BY <1>1, ProgramProperties DEF CallStmts
<1>4. Connected \subseteq CallStmts(prog)
  BY DEF Connected
<1>5. cfgbip \subseteq Stmts(prog) \X Stmts(prog)
  BY <1>1, <1>2, <1>3, <1>4 DEF JoinedFlow, NextEdges
<1>6. QED
  BY <1>1, <1>2, <1>5 DEF BipTypeOK

(***************************************************************************)
(* Each step keeps the invariant.                                          *)
(***************************************************************************)
LEMMA InitEstablishes ==
  ASSUME ConstructInit
  PROVE  ConstructInv
<1>1. /\ prog \in Programs /\ cfgbip = NextEdges(prog)
      /\ exit_stmts = [n \in {} |-> {}] /\ proc = NoProc
      /\ queue = {} /\ visited = {}
  BY DEF ConstructInit
<1>2. Operated = {} /\ Connected = {}
  BY <1>1 DEF Operated, Connected
<1>3. cfgbip = JoinedFlow(Connected)
  BY <1>1, <1>2 DEF JoinedFlow
<1>4. exit_stmts = [n \in Operated |-> ReturnsFrom(prog, n)]
  BY <1>1, <1>2
<1>5. QED
  BY <1>1, <1>2, <1>3, <1>4 DEF ConstructInv

LEMMA StartKeeps ==
  ASSUME ConstructInv, StartOperate
  PROVE  ConstructInv'
<1>1. PICK n \in Ready : /\ proc' = n
                         /\ queue' = {Entry(prog, n)} /\ visited' = {Entry(prog, n)}
  BY DEF StartOperate
<1>2. /\ proc = NoProc /\ exits' = {}
      /\ prog' = prog /\ cfgbip' = cfgbip /\ exit_stmts' = exit_stmts
  BY DEF StartOperate
<1>3. /\ prog \in Programs /\ Operated \subseteq Node /\ cfgbip = JoinedFlow(Connected)
      /\ exit_stmts = [m \in Operated |-> ReturnsFrom(prog, m)]
  BY DEF ConstructInv
<1>4. Operated' = Operated
  BY <1>2 DEF Operated
<1>5. n \in Node \ Operated
  BY DEF Ready
<1>6. proc' # NoProc
  BY <1>1, <1>5, BipAssumption
<1>7. Taken' = {}
  BY <1>1 DEF Taken
<1>8. Connected' = Connected
  BY <1>2, <1>4, <1>7 DEF Connected
<1>9. \A s \in CallStmts(prog) \cap StmtsOf(prog, n) : prog.callee[s] \in Operated
  <2> TAKE s \in CallStmts(prog) \cap StmtsOf(prog, n)
  <2>1. prog.callee[s] \in Node
    BY <1>3, ProgramProperties
  <2>2. <<n, prog.callee[s]>> \in Calls(prog)
    BY <1>5, <2>1 DEF Calls
  <2>3. QED
    BY <2>1, <2>2 DEF Ready
<1>10. OperatingInv'
  <2>1. Entry(prog, n) \in StmtsOf(prog, n)
    BY <1>3, <1>5, ProgramProperties
  <2>2. QED
    BY <1>1, <1>2, <1>4, <1>7, <1>9, <2>1 DEF OperatingInv
<1>11. cfgbip' = JoinedFlow(Connected)'
  BY <1>2, <1>3, <1>8 DEF JoinedFlow
<1>12. QED
  BY <1>1, <1>2, <1>3, <1>4, <1>5, <1>6, <1>10, <1>11 DEF ConstructInv

LEMMA VisitKeeps ==
  ASSUME ConstructInv, Visit
  PROVE  ConstructInv'
<1>1. PICK cur \in queue : /\ cfgbip' = Connect(cur)
                           /\ exits' = exits \cup NewExits(cur)
                           /\ queue' = (queue \ {cur}) \cup (prog.next[cur] \ visited)
                           /\ visited' = visited \cup prog.next[cur]
  BY DEF Visit
<1>2. prog' = prog /\ exit_stmts' = exit_stmts /\ proc' = proc
  BY DEF Visit
<1>3. /\ prog \in Programs /\ Operated \subseteq Node /\ cfgbip = JoinedFlow(Connected)
      /\ exit_stmts = [m \in Operated |-> ReturnsFrom(prog, m)]
      /\ proc \in (Node \ Operated) \cup {NoProc}
  BY DEF ConstructInv
<1>4. proc # NoProc /\ cur \in StmtsOf(prog, proc) /\ cur \notin Connected
  BY QueueIsNotConnected
<1>5. OperatingInv
  BY <1>4 DEF ConstructInv
<1>6. Operated' = Operated
  BY <1>2 DEF Operated
<1>7. Taken' = Taken \cup {cur}
  BY <1>1, <1>5 DEF Taken, OperatingInv
<1>8. prog.next[cur] \subseteq StmtsOf(prog, proc)
  BY <1>3, <1>4, ProgramProperties
<1>9. NewExits(cur) = ExitsAt(cur)
  <2>1. CASE cur \in CallStmts(prog)
    BY <1>4, <2>1, CallsLeaveProcedure, CalleesExits DEF NewExits, ExitsAt, CallStmts
  <2>2. CASE cur \notin CallStmts(prog)
    <3>1. cur \in Stmts(prog)
      BY <1>3, <1>4, ProgramProperties
    <3>2. QED
      BY <2>2, <3>1 DEF NewExits, ExitsAt, CallStmts
  <2>3. QED
    BY <2>1, <2>2
<1>10. OperatingInv'
  <2>1. exits' = UNION {ExitsAt(s) : s \in Taken'}
    BY <1>1, <1>5, <1>7, <1>9 DEF OperatingInv
  <2>2. \A s : ExitsAt(s)' = ExitsAt(s)
    BY <1>2 DEF ExitsAt
  <2>3. exits' = (UNION {ExitsAt(s) : s \in Taken})'
    BY <2>1, <2>2
  <2>4. /\ (Entry(prog, proc) \in visited)'
        /\ (queue \subseteq visited)' /\ (visited \subseteq StmtsOf(prog, proc))'
    BY <1>1, <1>2, <1>5, <1>8 DEF OperatingInv
  <2>5. (\A s \in Taken : prog.next[s] \subseteq visited)'
    BY <1>1, <1>2, <1>5, <1>7 DEF OperatingInv
  <2>6. (\A s \in CallStmts(prog) \cap StmtsOf(prog, proc) : prog.callee[s] \in Operated)'
    BY <1>2, <1>5, <1>6 DEF OperatingInv
  <2>7. QED
    BY <2>3, <2>4, <2>5, <2>6 DEF OperatingInv
<1>11. cfgbip' = JoinedFlow(Connected)'
  <2>1. cfgbip' = JoinedFlow(Connected')
    <3>1. CASE cur \in CallStmts(prog)
      <4>1. Connected' = Connected \cup {cur}
        BY <1>2, <1>4, <1>6, <1>7, <3>1 DEF Connected
      <4>2. /\ prog.callee[cur] \in Operated
            /\ Entry(prog, prog.callee[cur]) \notin prog.next[cur]
        BY <1>4, <3>1, CallsLeaveProcedure
      <4>3. ExitsOf(prog.callee[cur]) = ReturnsFrom(prog, prog.callee[cur])
        BY <4>2, CalleesExits
      <4>4. JoinedFlow(Connected \cup {cur}) =
              (JoinedFlow(Connected) \cup {<<cur, Entry(prog, prog.callee[cur])>>}
                 \cup (ReturnsFrom(prog, prog.callee[cur]) \X prog.next[cur]))
              \ ({cur} \X prog.next[cur])
        BY <1>3, <1>4, <3>1, <4>2, JoinCall
      <4>5. prog.kind[cur] = "call"
        BY <3>1 DEF CallStmts
      <4>6. QED
        BY <1>1, <1>3, <4>1, <4>3, <4>4, <4>5 DEF Connect
    <3>2. CASE cur \notin CallStmts(prog)
      <4>1. Connected' = Connected
        BY <1>2, <1>6, <1>7, <3>2 DEF Connected
      <4>2. prog.kind[cur] # "call"
        BY <1>3, <1>4, <3>2, ProgramProperties DEF CallStmts
      <4>3. QED
        BY <1>1, <1>3, <4>1, <4>2 DEF Connect
    <3>3. QED
      BY <3>1, <3>2
  <2>2. QED
    BY <1>2, <2>1 DEF JoinedFlow
<1>12. QED
  BY <1>2, <1>3, <1>4, <1>6, <1>10, <1>11 DEF ConstructInv, OperatingInv

\* With an empty queue every statement of the procedure has been visited.
LEMMA AllAreVisited ==
  ASSUME ConstructInv, proc # NoProc, queue = {}
  PROVE  Taken = StmtsOf(prog, proc)
<1>1. prog \in Programs /\ proc \in Node /\ OperatingInv /\ Taken = visited
  BY DEF ConstructInv, Taken
<1>2. visited \subseteq StmtsOf(prog, proc) /\ visited \in SUBSET Stmts(prog)
  BY <1>1, ProgramProperties DEF OperatingInv
<1>3. ClosedFrom(NextEdges(prog), Entry(prog, proc), visited)
  BY <1>1 DEF ClosedFrom, NextEdges, OperatingInv
<1>4. ReachableFrom(NextEdges(prog), Stmts(prog), Entry(prog, proc)) \subseteq visited
  BY <1>2, <1>3 DEF ReachableFrom
<1>5. \A s \in StmtsOf(prog, proc) : s \in visited
  BY <1>1, <1>4, ProgramProperties DEF OperatingInv
<1>6. QED
  BY <1>1, <1>2, <1>5

\* What the statements of a procedure add up to.
LEMMA ExitsAreReturns ==
  ASSUME prog \in Programs, NEW n \in Node
  PROVE  UNION {ExitsAt(s) : s \in StmtsOf(prog, n)} = ReturnsFrom(prog, n)
<1>1. StmtsOf(prog, n) \subseteq Stmts(prog)
  BY ProgramProperties
<1>2. \A s \in StmtsOf(prog, n) :
        ExitsAt(s) = IF s \in CallStmts(prog)
                     THEN (IF prog.next[s] = {} THEN ReturnsFrom(prog, prog.callee[s]) ELSE {})
                     ELSE (IF IsReturn(prog, s) THEN {s} ELSE {})
  BY <1>1, ExitIsReturn DEF ExitsAt
<1>3. \A s : IsReturn(prog, s) => s \notin CallStmts(prog)
  BY DEF IsReturn
<1>4. \A t : t \in UNION {ExitsAt(s) : s \in StmtsOf(prog, n)} <=>
               \/ t \in StmtsOf(prog, n) /\ IsReturn(prog, t)
               \/ \E c \in CallStmts(prog) \cap StmtsOf(prog, n) :
                    prog.next[c] = {} /\ t \in ReturnsFrom(prog, prog.callee[c])
  BY <1>2, <1>3
<1>5. \A t : t \in UNION {ExitsAt(s) : s \in StmtsOf(prog, n)} <=> t \in ReturnsFrom(prog, n)
  BY <1>4, ReturnsOfLastCalls
<1>6. QED
  BY <1>5

LEMMA EndKeeps ==
  ASSUME ConstructInv, EndOperate
  PROVE  ConstructInv'
<1>1. /\ proc # NoProc /\ queue = {} /\ proc' = NoProc
      /\ exit_stmts' = [n \in Operated \cup {proc} |-> IF n = proc THEN exits ELSE exit_stmts[n]]
      /\ prog' = prog /\ cfgbip' = cfgbip /\ queue' = queue /\ visited' = visited
  BY DEF EndOperate
<1>2. /\ prog \in Programs /\ Operated \subseteq Node /\ cfgbip = JoinedFlow(Connected)
      /\ exit_stmts = [n \in Operated |-> ReturnsFrom(prog, n)]
      /\ proc \in Node \ Operated /\ OperatingInv
  BY <1>1 DEF ConstructInv
<1>3. Operated' = Operated \cup {proc}
  BY <1>1 DEF Operated
<1>4. Taken = StmtsOf(prog, proc)
  BY <1>1, AllAreVisited
<1>5. exits = ReturnsFrom(prog, proc)
  BY <1>2, <1>4, ExitsAreReturns DEF OperatingInv
<1>6. exit_stmts' = [n \in Operated' |-> ReturnsFrom(prog', n)]
  BY <1>1, <1>2, <1>3, <1>5
<1>7. Connected' = Connected
  BY <1>1, <1>3, <1>4 DEF Connected
<1>8. cfgbip' = JoinedFlow(Connected)'
  BY <1>1, <1>2, <1>7 DEF JoinedFlow
<1>9. QED
  BY <1>1, <1>2, <1>3, <1>6, <1>8 DEF ConstructInv

LEMMA StutterKeeps ==
  ASSUME ConstructInv, UNCHANGED bipVars
  PROVE  ConstructInv'
<1>1. /\ prog' = prog /\ cfgbip' = cfgbip /\ exit_stmts' = exit_stmts /\ proc' = proc
      /\ queue' = queue /\ visited' = visited /\ exits' = exits
  BY DEF bipVars
<1>2. QED
  BY <1>1 DEF ConstructInv, OperatingInv, Operated, Connected, Taken, JoinedFlow, ExitsAt

(***************************************************************************)
(* The construction of CFGBipHandler keeps its invariant.                  *)
(***************************************************************************)
THEOREM ConstructInvHolds == ConstructSpec => []ConstructInv
<1>1. ConstructInit => ConstructInv
  BY InitEstablishes
<1>2. ConstructInv /\ [ConstructNext]_bipVars => ConstructInv'
  BY StartKeeps, VisitKeeps, EndKeeps, StutterKeeps DEF ConstructNext
<1>3. QED
  BY <1>1, <1>2, PTL DEF ConstructSpec

(***************************************************************************)
(* For every set of procedures and every program without recursion: the    *)
(* variables of Operate have their types.                                  *)
(***************************************************************************)
THEOREM ConstructTypeCorrect == ConstructSpec => []BipTypeOK
BY ConstructInvHolds, InvImpliesType, PTL

(***************************************************************************)
(* The assertions in CFGBipHandler::Operate never fail: the edge into a    *)
(* callee that is added is new, and every edge to the statements behind a  *)
(* call is there when it is erased.                                        *)
(***************************************************************************)
THEOREM AssertionsNeverFail == ConstructSpec => []AssertionsHold
BY ConstructInvHolds, InvImpliesAssertions, PTL

(***************************************************************************)
(* The graph CFGBipHandler ends with is the flow of control between the    *)
(* procedures, through calls at the end of a callee as well, and before    *)
(* that it lacks no more than the calls not yet visited.                   *)
(***************************************************************************)
THEOREM GraphIsFlow == ConstructSpec => []CfgBipIsFlow
BY ConstructInvHolds, InvImpliesFlow, PTL

(***************************************************************************)
(* Executions.  The recursive definition of ExecutedWithin has a solution, *)
(* the configurations at the ends of paths.                                *)
(***************************************************************************)
Configs == Stmts(prog) \X Seq(Stmts(prog))

Leads(c) == Steps(prog, c[1], c[2])

PathsFrom(s, k) ==
  {path \in [0..k -> Configs] :
     /\ path[0] = <<s, <<>>>>
     /\ \A i \in 0..(k - 1) : path[i + 1] \in Leads(path[i])}

EndsOfPaths(s) == [n \in Nat |-> {c \in Configs : \E k \in 1..n : \E path \in PathsFrom(s, k) : path[k] = c}]

LEMMA StepsAreConfigs ==
  ASSUME prog \in Programs, NEW s \in Stmts(prog), NEW stack \in Seq(Stmts(prog))
  PROVE  Steps(prog, s, stack) \subseteq Configs
<1>1. /\ \A t \in Stmts(prog) : prog.next[t] \subseteq Stmts(prog)
      /\ \A t \in CallStmts(prog) : t \in Stmts(prog) /\ Entry(prog, prog.callee[t]) \in Stmts(prog)
  BY ProgramProperties DEF CallStmts
<1>2. ASSUME NEW ret \in IF prog.next[s] = {} THEN {<<>>} ELSE {<<t>> : t \in prog.next[s]}
      PROVE  ret \o stack \in Seq(Stmts(prog))
  <2>1. CASE ret = <<>>
    BY <2>1
  <2>2. ASSUME NEW t \in prog.next[s], ret = <<t>>
        PROVE  ret \o stack \in Seq(Stmts(prog))
    <3>1. t \in Stmts(prog)
      BY <1>1
    <3>2. <<t>> \in Seq(Stmts(prog))
      BY <3>1
    <3>3. QED
      BY <2>2, <3>2
  <2>3. QED
    BY <1>2, <2>1, <2>2
<1>3. stack # <<>> => Head(stack) \in Stmts(prog) /\ Tail(stack) \in Seq(Stmts(prog))
  OBVIOUS
<1>4. <<>> \in Seq(Stmts(prog))
  OBVIOUS
<1>5. CASE s \in CallStmts(prog)
  <2>1. Steps(prog, s, stack) =
          {<<Entry(prog, prog.callee[s]), ret \o stack>> : ret \in IF prog.next[s] = {} THEN {<<>>} ELSE {<<t>> : t \in prog.next[s]}}
    BY <1>5 DEF Steps
  <2>2. Entry(prog, prog.callee[s]) \in Stmts(prog)
    BY <1>1, <1>5
  <2>3. ASSUME NEW ret \in IF prog.next[s] = {} THEN {<<>>} ELSE {<<t>> : t \in prog.next[s]}
        PROVE  <<Entry(prog, prog.callee[s]), ret \o stack>> \in Configs
    BY <1>2, <2>2 DEF Configs
  <2>4. QED
    BY <2>1, <2>3
<1>6. CASE s \notin CallStmts(prog)
  <2>1. prog.next[s] \X {stack} \subseteq Configs
    BY <1>1 DEF Configs
  <2>2. \A d \in CallStmts(prog) : prog.next[d] \subseteq Stmts(prog)
    BY <1>1
  <2>3. (UNION {prog.next[d] : d \in {e \in CallStmts(prog) : s \in ReturnsFrom(prog, prog.callee[e])}}) \X {<<>>} \subseteq Configs
    BY <1>4, <2>2 DEF Configs
  <2>4. stack # <<>> => <<Head(stack), Tail(stack)>> \in Configs
    BY <1>3 DEF Configs
  <2>5. QED
    BY <1>6, <2>1, <2>3, <2>4 DEF Steps
<1>7. QED
  BY <1>5, <1>6

LEMMA LeadsAreConfigs ==
  ASSUME prog \in Programs, NEW c \in Configs
  PROVE  Leads(c) \subseteq Configs
BY StepsAreConfigs DEF Configs, Leads

LEMMA EndsOfLongerPaths ==
  ASSUME prog \in Programs, NEW s \in Stmts(prog), NEW n \in Nat
  PROVE  EndsOfPaths(s)[n + 1] = Leads(<<s, <<>>>>) \cup UNION {Leads(c) : c \in EndsOfPaths(s)[n]}
<1> DEFINE start == <<s, <<>>>>
<1>1. start \in Configs
  <2>1. <<>> \in Seq(Stmts(prog))
    OBVIOUS
  <2>2. QED
    BY <2>1 DEF Configs
<1>2. \A m \in Nat : \A c : c \in EndsOfPaths(s)[m] <=>
        c \in Configs /\ \E k \in 1..m : \E path \in PathsFrom(s, k) : path[k] = c
  BY DEF EndsOfPaths
<1>3. ASSUME NEW c \in Leads(start)
      PROVE  c \in EndsOfPaths(s)[n + 1]
  <2> DEFINE path == [i \in 0..1 |-> IF i = 0 THEN start ELSE c]
  <2>1. c \in Configs
    BY <1>1, LeadsAreConfigs
  <2>2. path \in [0..1 -> Configs] /\ path[0] = start /\ path[1] = c
    BY <1>1, <2>1
  <2>3. \A i \in 0..(1 - 1) : path[i + 1] \in Leads(path[i])
    BY <2>2
  <2> HIDE DEF path
  <2>4. path \in PathsFrom(s, 1)
    BY <2>2, <2>3 DEF PathsFrom
  <2>5. 1 \in 1..(n + 1) /\ n + 1 \in Nat
    OBVIOUS
  <2>6. QED
    BY <1>2, <2>1, <2>2, <2>4, <2>5
<1>4. ASSUME NEW b \in EndsOfPaths(s)[n], NEW c \in Leads(b)
      PROVE  c \in EndsOfPaths(s)[n + 1]
  <2>1. PICK k \in 1..n : \E path \in PathsFrom(s, k) : path[k] = b
    BY <1>2
  <2>2. PICK path \in PathsFrom(s, k) : path[k] = b
    BY <2>1
  <2>3. b \in Configs /\ c \in Configs
    BY <1>2, LeadsAreConfigs
  <2> DEFINE longer == [i \in 0..(k + 1) |-> IF i = k + 1 THEN c ELSE path[i]]
  <2>4. /\ path \in [0..k -> Configs] /\ path[0] = start
        /\ \A i \in 0..(k - 1) : path[i + 1] \in Leads(path[i])
    BY DEF PathsFrom
  <2>5. longer \in [0..(k + 1) -> Configs] /\ longer[0] = start /\ longer[k + 1] = c
    BY <2>3, <2>4
  <2>6. ASSUME NEW i \in 0..((k + 1) - 1)
        PROVE  longer[i + 1] \in Leads(longer[i])
    <3>1. CASE i = k
      BY <2>2, <3>1
    <3>2. CASE i # k
      <4>1. i \in 0..(k - 1) /\ longer[i + 1] = path[i + 1] /\ longer[i] = path[i]
        BY <3>2
      <4>2. QED
        BY <2>4, <4>1
    <3>3. QED
      BY <3>1, <3>2
  <2> HIDE DEF longer
  <2>7. longer \in PathsFrom(s, k + 1)
    BY <2>5, <2>6 DEF PathsFrom
  <2>8. k + 1 \in 1..(n + 1) /\ n + 1 \in Nat
    OBVIOUS
  <2>9. QED
    BY <1>2, <2>3, <2>5, <2>7, <2>8
<1>5. ASSUME NEW c \in EndsOfPaths(s)[n + 1]
      PROVE  c \in Leads(start) \cup UNION {Leads(b) : b \in EndsOfPaths(s)[n]}
  <2>1. PICK k \in 1..(n + 1) : \E path \in PathsFrom(s, k) : path[k] = c
    BY <1>2
  <2>2. PICK path \in PathsFrom(s, k) : path[k] = c
    BY <2>1
  <2>3. /\ path \in [0..k -> Configs] /\ path[0] = start
        /\ \A i \in 0..(k - 1) : path[i + 1] \in Leads(path[i])
    BY DEF PathsFrom
  <2>4. k - 1 \in 0..(k - 1) /\ (k - 1) + 1 = k
    OBVIOUS
  <2>5. c \in Leads(path[k - 1])
    BY <2>2, <2>3, <2>4
  <2>6. CASE k = 1
    BY <2>3, <2>5, <2>6
  <2>7. CASE k # 1
    <3> DEFINE shorter == [i \in 0..(k - 1) |-> path[i]]
    <3>1. shorter \in [0..(k - 1) -> Configs] /\ shorter[0] = start /\ shorter[k - 1] = path[k - 1]
      BY <2>3
    <3>2. ASSUME NEW i \in 0..((k - 1) - 1)
          PROVE  shorter[i + 1] \in Leads(shorter[i])
      <4>1. i \in 0..(k - 1) /\ shorter[i + 1] = path[i + 1] /\ shorter[i] = path[i]
        OBVIOUS
      <4>2. QED
        BY <2>3, <4>1
    <3> HIDE DEF shorter
    <3>3. shorter \in PathsFrom(s, k - 1)
      BY <3>1, <3>2 DEF PathsFrom
    <3>4. k - 1 \in 1..n /\ path[k - 1] \in Configs
      BY <2>3, <2>4, <2>7
    <3>5. path[k - 1] \in EndsOfPaths(s)[n]
      BY <1>2, <3>1, <3>3, <3>4
    <3>6. QED
      BY <2>5, <3>5
  <2>8. QED
    BY <2>6, <2>7
<1>6. QED
  BY <1>3, <1>4, <1>5

LEMMA ExecutedWithinEquation ==
  ASSUME prog \in Programs, NEW s \in Stmts(prog), NEW n \in Nat
  PROVE  ExecutedWithin(prog, s)[n] =
           IF n = 0 THEN {}
           ELSE Leads(<<s, <<>>>>) \cup UNION {Leads(c) : c \in ExecutedWithin(prog, s)[n - 1]}
<1> DEFINE body(f) ==
      [m \in Nat |->
         IF m = 0 THEN {}
         ELSE Steps(prog, s, <<>>) \cup UNION {Steps(prog, c[1], c[2]) : c \in f[m - 1]}]
<1>1. EndsOfPaths(s) = body(EndsOfPaths(s))
  <2>1. EndsOfPaths(s)[0] = {}
    BY DEF EndsOfPaths
  <2>2. ASSUME NEW m \in Nat, m # 0
        PROVE  EndsOfPaths(s)[m] =
                 Steps(prog, s, <<>>) \cup UNION {Steps(prog, c[1], c[2]) : c \in EndsOfPaths(s)[m - 1]}
    <3>1. m - 1 \in Nat /\ (m - 1) + 1 = m
      BY <2>2
    <3>2. QED
      BY <3>1, EndsOfLongerPaths DEF Leads
  <2>3. EndsOfPaths(s) = [m \in Nat |-> EndsOfPaths(s)[m]]
    BY DEF EndsOfPaths
  <2>4. QED
    BY <2>1, <2>2, <2>3
<1>2. ExecutedWithin(prog, s) = CHOOSE f : f = body(f)
  BY DEF ExecutedWithin
<1> HIDE DEF body
<1>3. ExecutedWithin(prog, s) = body(ExecutedWithin(prog, s))
  BY <1>1, <1>2, Zenon
<1>4. QED
  BY <1>3 DEF body, Leads

(***************************************************************************)
(* The inductive invariant of the search.  The procedures of the return    *)
(* points on a stack call one another, so without recursion a stack is     *)
(* short; after the start has been processed every PCB is a configuration  *)
(* that an execution reaches in as many steps as hops are spent.           *)
(***************************************************************************)
Above(m, n) == n \in ReachableFrom(Calls(prog), Node, m)

Nested(s, stack) ==
  \E in \in [0..Len(stack) -> Node] :
    /\ s \in StmtsOf(prog, in[0])
    /\ \A i \in 1..Len(stack) : stack[i] \in StmtsOf(prog, in[i])
    /\ \A i, j \in 0..Len(stack) : i < j => Above(in[j], in[i])

Pcbs == [cur_sn : Stmts(prog), return_to : Seq(Stmts(prog)), hops_left : -1..NumHops(prog)]

Executed(pcb) == <<pcb.cur_sn, pcb.return_to>> \in ExecutedWithin(prog, from)[NumHops(prog) - pcb.hops_left]

SearchTypeInv ==
  /\ from \in Stmts(prog) \cup {0}
  /\ pcbs \in Seq(Pcbs)
  /\ \A i \in 1..Len(pcbs) : Nested(pcbs[i].cur_sn, pcbs[i].return_to)
  /\ reachable \subseteq Stmts(prog) /\ times_from_seen \in Nat
  /\ from \in reachable <=> times_from_seen > 0
  /\ IF from = 0 THEN pcbs = <<>> /\ reachable = {} ELSE Constructed /\ visits_left \in [Stmts(prog) -> Nat]

FoundInv ==
  /\ times_from_seen = 0 => pcbs = <<>> \/ pcbs = <<Pcb(from, <<>>, NumHops(prog))>>
  /\ times_from_seen > 0 => \A i \in 1..Len(pcbs) : Executed(pcbs[i])
  /\ reachable \ {from} \subseteq ExecutedAfter(prog, from, NumHops(prog))
  /\ times_from_seen > 1 => from \in ExecutedAfter(prog, from, NumHops(prog))

SearchInv == ConstructInv /\ SearchTypeInv /\ (from # 0 => FoundInv)

(***************************************************************************)
(* Stacks: the calls of a program are without cycles.                      *)
(***************************************************************************)
LEMMA AboveTransitive ==
  ASSUME NEW a, NEW b, NEW c, Above(a, b), Above(b, c)
  PROVE  Above(a, c)
<1>1. ASSUME NEW S \in SUBSET Node, ClosedFrom(Calls(prog), a, S)
      PROVE  c \in S
  <2>1. b \in S
    BY <1>1 DEF Above, ReachableFrom
  <2>2. ClosedFrom(Calls(prog), b, S)
    BY <1>1, <2>1 DEF ClosedFrom
  <2>3. QED
    BY <2>2 DEF Above, ReachableFrom
<1>2. QED
  BY <1>1 DEF Above, ReachableFrom

LEMMA CallerIsAbove ==
  ASSUME prog \in Programs, NEW n \in Node, NEW s \in CallStmts(prog), s \in StmtsOf(prog, n)
  PROVE  prog.callee[s] \in Node /\ Above(n, prog.callee[s])
<1>1. prog.callee[s] \in Node
  BY ProgramProperties
<1>2. <<n, prog.callee[s]>> \in Calls(prog) /\ Calls(prog) \subseteq Node \X Node
  BY <1>1 DEF Calls
<1>3. QED
  BY <1>1, <1>2, ReachableByFirstEdge DEF Above

LEMMA NotAboveItself ==
  ASSUME prog \in Programs, NEW n \in Node
  PROVE  ~Above(n, n)
BY BipAssumption DEF IsProgram, Above

\* A stack is shorter than the number of procedures.
LEMMA NestedIsShort ==
  ASSUME prog \in Programs, NEW s, NEW stack \in Seq(Stmts(prog)), Nested(s, stack)
  PROVE  Len(stack) < Cardinality(Node)
<1>1. PICK in \in [0..Len(stack) -> Node] : \A i, j \in 0..Len(stack) : i < j => Above(in[j], in[i])
  BY DEF Nested
<1>2. Len(stack) \in Nat
  OBVIOUS
<1>3. ASSUME NEW i \in 0..Len(stack), NEW j \in 0..Len(stack), in[i] = in[j]
      PROVE  i = j
  <2>1. in[i] \in Node /\ in[j] \in Node
    OBVIOUS
  <2>2. ~(i < j) /\ ~(j < i)
    BY <1>1, <1>3, <2>1, NotAboveItself
  <2>3. QED
    BY <1>2, <2>2
<1>4. in \in Injection(0..Len(stack), Node)
  BY <1>3 DEF Injection, IsInjective
<1>5. Cardinality(0..Len(stack)) <= Cardinality(Node)
  BY <1>4, NodeAssumption, FS_Injection
<1>6. Cardinality(0..Len(stack)) = Len(stack) + 1
  BY <1>2, FS_Interval
<1>7. Cardinality(Node) \in Nat
  BY NodeAssumption, FS_CardinalityType
<1>8. QED
  BY <1>2, <1>5, <1>6, <1>7

LEMMA StepsStayNested ==
  ASSUME prog \in Programs, NEW s \in Stmts(prog), NEW stack \in Seq(Stmts(prog)), Nested(s, stack),
         NEW c \in Steps(prog, s, stack)
  PROVE  Nested(c[1], c[2])
<1> DEFINE n == Len(stack)
<1>1. PICK in \in [0..n -> Node] :
        /\ s \in StmtsOf(prog, in[0])
        /\ \A i \in 1..n : stack[i] \in StmtsOf(prog, in[i])
        /\ \A i, j \in 0..n : i < j => Above(in[j], in[i])
  BY DEF Nested
<1>2. n \in Nat
  OBVIOUS
<1>3. in[0] \in Node /\ prog.next[s] \subseteq StmtsOf(prog, in[0])
  BY <1>1, <1>2, ProgramProperties
<1>4. CASE s \in CallStmts(prog)
  <2> DEFINE callee == prog.callee[s]
  <2>1. PICK ret \in IF prog.next[s] = {} THEN {<<>>} ELSE {<<t>> : t \in prog.next[s]} :
          c = <<Entry(prog, callee), ret \o stack>>
    BY <1>4 DEF Steps
  <2>2. callee \in Node /\ Above(in[0], callee)
    BY <1>1, <1>3, <1>4, CallerIsAbove
  <2>3. \A j \in 0..n : Above(in[j], callee)
    <3> TAKE j \in 0..n
    <3>1. CASE j = 0
      BY <2>2, <3>1
    <3>2. CASE j # 0
      <4>1. Above(in[j], in[0])
        BY <1>1, <1>2, <3>2
      <4>2. QED
        BY <2>2, <4>1, AboveTransitive
    <3>3. QED
      BY <3>1, <3>2
  <2>4. Entry(prog, callee) \in StmtsOf(prog, callee)
    BY <2>2, ProgramProperties
  <2>5. CASE prog.next[s] = {}
    <3> DEFINE g == [i \in 0..n |-> IF i = 0 THEN callee ELSE in[i]]
    <3>1. ret \o stack = stack
      <4>1. ret = <<>>
        BY <2>1, <2>5
      <4>2. QED
        BY <4>1
    <3>2. g \in [0..n -> Node] /\ g[0] = callee /\ \A i \in 1..n : g[i] = in[i]
      BY <1>2, <2>2
    <3>3. \A i, j \in 0..n : i < j => Above(g[j], g[i])
      BY <1>1, <1>2, <2>3, <3>2
    <3> HIDE DEF g
    <3>4. Nested(Entry(prog, callee), stack)
      BY <1>1, <2>4, <3>2, <3>3 DEF Nested
    <3>5. QED
      BY <2>1, <3>1, <3>4
  <2>6. CASE prog.next[s] # {}
    <3>1. PICK t \in prog.next[s] : ret = <<t>>
      BY <2>1, <2>6
    <3> DEFINE st == <<t>> \o stack
               g == [i \in 0..(n + 1) |-> IF i = 0 THEN callee ELSE in[i - 1]]
    <3>2. t \in Stmts(prog)
      BY <3>1, ProgramProperties
    <3>3. Len(st) = n + 1 /\ st[1] = t /\ \A i \in 2..(n + 1) : st[i] = stack[i - 1]
      BY <3>2
    <3>4. g \in [0..(n + 1) -> Node] /\ g[0] = callee /\ \A i \in 1..(n + 1) : g[i] = in[i - 1]
      BY <1>2, <2>2
    <3> HIDE DEF g, st
    <3>5. \A i \in 1..(n + 1) : st[i] \in StmtsOf(prog, g[i])
      <4> TAKE i \in 1..(n + 1)
      <4>1. CASE i = 1
        BY <1>2, <1>3, <3>1, <3>3, <3>4, <4>1
      <4>2. CASE i # 1
        <5>1. i \in 2..(n + 1) /\ i - 1 \in 1..n
          BY <1>2, <4>2
        <5>2. QED
          BY <1>1, <3>3, <3>4, <5>1
      <4>3. QED
        BY <4>1, <4>2
    <3>6. \A i, j \in 0..(n + 1) : i < j => Above(g[j], g[i])
      <4> TAKE i \in 0..(n + 1), j \in 0..(n + 1)
      <4> HAVE i < j
      <4>1. j \in 1..(n + 1) /\ j - 1 \in 0..n
        BY <1>2
      <4>2. CASE i = 0
        BY <2>3, <3>4, <4>1, <4>2
      <4>3. CASE i # 0
        <5>1. i \in 1..(n + 1) /\ i - 1 \in 0..n /\ i - 1 < j - 1
          BY <1>2, <4>3
        <5>2. QED
          BY <1>1, <3>4, <4>1, <5>1
      <4>4. QED
        BY <4>2, <4>3
    <3>7. Nested(Entry(prog, callee), st)
      BY <2>4, <3>3, <3>4, <3>5, <3>6 DEF Nested
    <3>8. QED
      BY <2>1, <3>1, <3>7 DEF st
  <2>7. QED
    BY <2>5, <2>6
<1>5. CASE s \notin CallStmts(prog) /\ c \in prog.next[s] \X {stack}
  BY <1>1, <1>3, <1>5 DEF Nested
<1>6. CASE s \notin CallStmts(prog) /\ stack # <<>> /\ c = <<Head(stack), Tail(stack)>>
  <2> DEFINE g == [i \in 0..(n - 1) |-> in[i + 1]]
  <2>1. n # 0 /\ Head(stack) = stack[1] /\ Len(Tail(stack)) = n - 1
        /\ \A i \in 1..(n - 1) : Tail(stack)[i] = stack[i + 1]
    BY <1>6
  <2>2. g \in [0..(n - 1) -> Node] /\ \A i \in 0..(n - 1) : g[i] = in[i + 1]
    BY <1>2
  <2> HIDE DEF g
  <2>3. Head(stack) \in StmtsOf(prog, g[0])
    BY <1>1, <1>2, <2>1, <2>2
  <2>4. \A i \in 1..(n - 1) : Tail(stack)[i] \in StmtsOf(prog, g[i])
    BY <1>1, <1>2, <2>1, <2>2
  <2>5. \A i, j \in 0..(n - 1) : i < j => Above(g[j], g[i])
    BY <1>1, <1>2, <2>2
  <2>6. Nested(Head(stack), Tail(stack))
    BY <2>1, <2>2, <2>3, <2>4, <2>5 DEF Nested
  <2>7. QED
    BY <1>6, <2>6
<1>7. CASE s \notin CallStmts(prog) /\ stack = <<>> /\ c[1] \in Stmts(prog) /\ c[2] = <<>>
  <2>1. PICK m \in Node : c[1] \in StmtsOf(prog, m)
    BY <1>7, ProgramProperties
  <2> DEFINE g == [i \in 0..0 |-> m]
  <2>2. g \in [0..0 -> Node] /\ g[0] = m
    OBVIOUS
  <2>3. \A i, j \in 0..0 : ~(i < j)
    OBVIOUS
  <2> HIDE DEF g
  <2>4. Len(c[2]) = 0
    BY <1>7
  <2>5. QED
    BY <2>1, <2>2, <2>3, <2>4 DEF Nested
<1>8. QED
  <2>1. c \in Configs
    BY StepsAreConfigs
  <2>2. CASE s \notin CallStmts(prog) /\ c \notin prog.next[s] \X {stack}
    <3>1. c \in IF stack # <<>> THEN {<<Head(stack), Tail(stack)>>}
                ELSE (UNION {prog.next[d] : d \in {e \in CallStmts(prog) : s \in ReturnsFrom(prog, prog.callee[e])}}) \X {<<>>}
      BY <2>2 DEF Steps
    <3>2. QED
      BY <1>6, <1>7, <2>1, <2>2, <3>1 DEF Configs
  <2>3. QED
    BY <1>4, <1>5, <2>2

(***************************************************************************)
(* More steps reach more.                                                  *)
(***************************************************************************)
LEMMA LeastElement ==
  ASSUME NEW S \in SUBSET Nat, S # {}
  PROVE  \E i \in S : \A j \in S : i <= j
<1>1. PICK i \in S : \A j \in S : ~(<<j, i>> \in OpToRel(<, Nat))
  BY NatLessThanWellFounded, WFMin, Zenon
<1>2. ASSUME NEW j \in S
      PROVE  i <= j
  <2>1. i \in Nat /\ j \in Nat
    OBVIOUS
  <2>2. ~(j < i)
    <3>1. SUFFICES ASSUME j < i
                   PROVE  <<j, i>> \in OpToRel(<, Nat)
      BY <1>1
    <3>2. QED
      BY <2>1, <3>1 DEF OpToRel
  <2>3. QED
    BY <2>1, <2>2
<1>3. QED
  BY <1>2

LEMMA OneMoreStep ==
  ASSUME prog \in Programs, NEW s \in Stmts(prog), NEW n \in Nat
  PROVE  /\ Leads(<<s, <<>>>>) \subseteq ExecutedWithin(prog, s)[n + 1]
         /\ \A c \in ExecutedWithin(prog, s)[n] : Leads(c) \subseteq ExecutedWithin(prog, s)[n + 1]
<1>1. n + 1 \in Nat /\ n + 1 # 0 /\ (n + 1) - 1 = n
  OBVIOUS
<1>2. ExecutedWithin(prog, s)[n + 1] =
        Leads(<<s, <<>>>>) \cup UNION {Leads(c) : c \in ExecutedWithin(prog, s)[n]}
  BY <1>1, ExecutedWithinEquation
<1>3. QED
  BY <1>2

LEMMA ExecutedWithinGrows ==
  ASSUME prog \in Programs, NEW s \in Stmts(prog), NEW n \in Nat
  PROVE  ExecutedWithin(prog, s)[n] \subseteq ExecutedWithin(prog, s)[n + 1]
<1> DEFINE w == ExecutedWithin(prog, s)
           Bad == {m \in Nat : ~(w[m] \subseteq w[m + 1])}
<1>1. \A m \in Nat : w[m] = IF m = 0 THEN {} ELSE Leads(<<s, <<>>>>) \cup UNION {Leads(c) : c \in w[m - 1]}
  BY ExecutedWithinEquation
<1>2. \A m \in Nat : w[m + 1] = Leads(<<s, <<>>>>) \cup UNION {Leads(c) : c \in w[m]}
  <2> TAKE m \in Nat
  <2>1. m + 1 \in Nat /\ m + 1 # 0 /\ (m + 1) - 1 = m
    OBVIOUS
  <2>2. QED
    BY <1>1, <2>1
<1> HIDE DEF w
<1>3. ASSUME Bad # {}
      PROVE  FALSE
  <2>1. PICK m \in Bad : \A k \in Bad : m <= k
    BY <1>3, LeastElement
  <2>2. m \in Nat /\ m # 0
    BY <1>1
  <2>3. m - 1 \in Nat /\ (m - 1) + 1 = m
    BY <2>2
  <2>4. w[m - 1] \subseteq w[m]
    <3>1. m - 1 \notin Bad
      BY <2>1, <2>2
    <3>2. QED
      BY <2>3, <3>1
  <2>5. w[m] = Leads(<<s, <<>>>>) \cup UNION {Leads(c) : c \in w[m - 1]}
    BY <1>1, <2>2
  <2>6. w[m] \subseteq w[m + 1]
    BY <1>2, <2>2, <2>4, <2>5
  <2>7. QED
    BY <2>1, <2>6
<1>4. n \notin Bad
  BY <1>3
<1>5. QED
  BY <1>4 DEF w

LEMMA ExecutedWithinMonotonic ==
  ASSUME prog \in Programs, NEW s \in Stmts(prog), NEW k \in Nat, NEW m \in Nat, k <= m
  PROVE  ExecutedWithin(prog, s)[k] \subseteq ExecutedWithin(prog, s)[m]
<1> DEFINE w == ExecutedWithin(prog, s)
           Bad == {i \in Nat : k <= i /\ ~(w[k] \subseteq w[i])}
<1>1. \A i \in Nat : w[i] \subseteq w[i + 1]
  BY ExecutedWithinGrows
<1> HIDE DEF w
<1>2. ASSUME Bad # {}
      PROVE  FALSE
  <2>1. PICK i \in Bad : \A j \in Bad : i <= j
    BY <1>2, LeastElement
  <2>2. i \in Nat /\ k <= i /\ i # k
    OBVIOUS
  <2>3. i - 1 \in Nat /\ k <= i - 1 /\ (i - 1) + 1 = i
    BY <2>2
  <2>4. w[k] \subseteq w[i - 1]
    <3>1. i - 1 \notin Bad
      BY <2>1, <2>2
    <3>2. QED
      BY <2>3, <3>1
  <2>5. w[i - 1] \subseteq w[i]
    BY <1>1, <2>3
  <2>6. QED
    BY <2>1, <2>4, <2>5
<1>3. m \notin Bad
  BY <1>2
<1>4. QED
  BY <1>3 DEF w

(***************************************************************************)
(* The search goes where executions go.                                    *)
(***************************************************************************)
LEMMA ContinuationsAreSteps ==
  ASSUME ConstructInv, Constructed, NEW s \in Stmts(prog), NEW return_to \in Seq(Stmts(prog)),
         NEW c \in Continuations(s, return_to)
  PROVE  <<c.to, c.stack>> \in Steps(prog, s, return_to)
<1>1. prog \in Programs /\ cfgbip = InterproceduralFlow(prog)
  BY InvImpliesFlow DEF CfgBipIsFlow, ConstructInv
<1>2. s \notin CallStmts(prog) => (IsExitStmt(prog, s) <=> IsReturn(prog, s))
  BY <1>1, ExitIsReturn
<1>3. CASE s \in CallStmts(prog)
  <2> DEFINE stack == IF prog.next[s] = {} THEN return_to ELSE <<CHOOSE n \in prog.next[s] : TRUE>> \o return_to
  <2>1. c.to = Entry(prog, prog.callee[s]) /\ c.stack = stack
    <3>1. Continuations(s, return_to) = {[to |-> Entry(prog, prog.callee[s]), stack |-> stack]}
      BY <1>3, Zenon DEF Continuations
    <3> HIDE DEF stack
    <3>2. QED
      BY <3>1
  <2>2. Steps(prog, s, return_to) =
          {<<Entry(prog, prog.callee[s]), ret \o return_to>> : ret \in IF prog.next[s] = {} THEN {<<>>} ELSE {<<t>> : t \in prog.next[s]}}
    BY <1>3 DEF Steps
  <2>3. <<>> \o return_to = return_to
    OBVIOUS
  <2>4. prog.next[s] # {} => (CHOOSE n \in prog.next[s] : TRUE) \in prog.next[s]
    OBVIOUS
  <2>5. QED
    BY <2>1, <2>2, <2>3, <2>4
<1>4. CASE s \notin CallStmts(prog) /\ IsExitStmt(prog, s) /\ return_to # <<>>
  <2>1. \/ c.to = Head(return_to) /\ c.stack = Tail(return_to)
        \/ c.to \in prog.next[s] /\ c.stack = return_to
    BY <1>4 DEF Continuations
  <2>2. QED
    BY <1>2, <1>4, <2>1 DEF Steps
<1>5. CASE s \notin CallStmts(prog) /\ ~(IsExitStmt(prog, s) /\ return_to # <<>>)
  <2>1. c.to \in Successors(cfgbip, s) /\ c.stack = return_to
    BY <1>5 DEF Continuations
  <2>2. <<s, c.to>> \in InterproceduralFlow(prog)
    BY <1>1, <2>1 DEF Successors, InterproceduralFlow, NextEdges
  <2>3. \/ c.to \in prog.next[s]
        \/ \E d \in CallStmts(prog) : s \in ReturnsFrom(prog, prog.callee[d]) /\ c.to \in prog.next[d]
    BY <1>5, <2>2 DEF InterproceduralFlow, NextEdges
  <2>4. CASE c.to \in prog.next[s]
    BY <1>5, <2>1, <2>4 DEF Steps
  <2>5. ASSUME NEW d \in CallStmts(prog), s \in ReturnsFrom(prog, prog.callee[d]), c.to \in prog.next[d]
        PROVE  <<c.to, c.stack>> \in Steps(prog, s, return_to)
    <3>1. IsReturn(prog, s)
      BY <2>5 DEF ReturnsFrom
    <3>2. return_to = <<>>
      BY <1>2, <1>5, <3>1
    <3>3. QED
      BY <1>5, <2>1, <2>5, <3>1, <3>2 DEF Steps
  <2>6. QED
    BY <2>3, <2>4, <2>5
<1>6. QED
  BY <1>3, <1>4, <1>5

LEMMA FiniteImage ==
  ASSUME NEW S, IsFiniteSet(S), NEW f
  PROVE  IsFiniteSet({f[x] : x \in S})
<1> DEFINE T == {f[x] : x \in S}
           g == [x \in S |-> f[x]]
<1>1. g \in Surjection(S, T)
  BY DEF Surjection
<1>2. QED
  BY <1>1, FS_Surjection

LEMMA ContinuationsAreFinite ==
  ASSUME ConstructInv, NEW s \in Stmts(prog), NEW return_to
  PROVE  IsFiniteSet(Continuations(s, return_to))
<1>1. prog \in Programs /\ cfgbip \subseteq Stmts(prog) \X Stmts(prog)
  BY InvImpliesType DEF BipTypeOK, ConstructInv
<1>2. IsFiniteSet(Stmts(prog)) /\ prog.next[s] \subseteq Stmts(prog)
  BY <1>1, ProgramProperties
<1>3. Successors(cfgbip, s) \subseteq Stmts(prog)
  BY <1>1 DEF Successors
<1> DEFINE at == [n \in Stmts(prog) |-> [to |-> n, stack |-> return_to]]
<1>4. ASSUME NEW S \in SUBSET Stmts(prog)
      PROVE  IsFiniteSet({[to |-> n, stack |-> return_to] : n \in S})
  <2>1. IsFiniteSet({at[n] : n \in S})
    <3>1. IsFiniteSet(S)
      BY <1>2, FS_Subset
    <3> HIDE DEF at
    <3>2. QED
      BY <3>1, FiniteImage
  <2>2. {at[n] : n \in S} = {[to |-> n, stack |-> return_to] : n \in S}
    OBVIOUS
  <2>3. QED
    BY <2>1, <2>2
<1>5. \A x : IsFiniteSet({x})
  BY FS_Singleton
<1>6. CASE s \in CallStmts(prog)
  BY <1>5, <1>6 DEF Continuations
<1>7. CASE s \notin CallStmts(prog) /\ IsExitStmt(prog, s) /\ return_to # <<>>
  BY <1>2, <1>4, <1>5, <1>7, FS_Union DEF Continuations
<1>8. CASE s \notin CallStmts(prog) /\ ~(IsExitStmt(prog, s) /\ return_to # <<>>)
  BY <1>3, <1>4, <1>8 DEF Continuations
<1>9. QED
  BY <1>6, <1>7, <1>8

(***************************************************************************)
(* Each step of the search keeps the invariant.                            *)
(***************************************************************************)
LEMMA HopsAreNatural ==
  ASSUME prog \in Programs
  PROVE  NumHops(prog) \in Nat /\ 0 \notin Stmts(prog)
BY BipAssumption DEF IsProgram, NumHops, Stmts

LEMMA ConstructionIsOver ==
  ASSUME ConstructInv, Constructed
  PROVE  ~ConstructNext
<1>1. proc = NoProc /\ queue = {} /\ Ready = {}
  BY DEF ConstructInv, Constructed, Ready
<1>2. QED
  BY <1>1 DEF ConstructNext, StartOperate, Visit, EndOperate

\* What the invariant of the search says of the program alone stays.
LEMMA SameProgram ==
  ASSUME UNCHANGED bipVars
  PROVE  /\ prog' = prog /\ Constructed' = Constructed
         /\ \A s, stack : Nested(s, stack)' = Nested(s, stack)
         /\ Pcbs' = Pcbs
<1>1. prog' = prog /\ exit_stmts' = exit_stmts
  BY DEF bipVars
<1>2. QED
  BY <1>1 DEF Constructed, Operated, Nested, Above, Pcbs

LEMMA InitStartsSearch ==
  ASSUME Init
  PROVE  SearchInv
<1>1. /\ ConstructInit /\ from = 0 /\ pcbs = <<>> /\ times_from_seen = 0 /\ reachable = {}
  BY DEF Init
<1>2. pcbs \in Seq(Pcbs) /\ Len(pcbs) = 0
  BY <1>1
<1>3. SearchTypeInv
  BY <1>1, <1>2 DEF SearchTypeInv
<1>4. QED
  BY <1>1, <1>3, InitEstablishes DEF SearchInv

LEMMA ConstructKeepsSearch ==
  ASSUME SearchInv, ConstructCFGBip
  PROVE  SearchInv'
<1>1. ConstructInv /\ ConstructNext /\ SearchTypeInv
  BY DEF SearchInv, ConstructCFGBip
<1>2. ConstructInv'
  BY <1>1, StartKeeps, VisitKeeps, EndKeeps DEF ConstructNext
<1>3. from = 0
  BY <1>1, ConstructionIsOver DEF SearchTypeInv
<1>4. /\ from' = from /\ pcbs' = pcbs /\ times_from_seen' = times_from_seen /\ reachable' = reachable
      /\ prog' = prog
  BY <1>1 DEF ConstructCFGBip, searchVars, ConstructNext, StartOperate, Visit, EndOperate
<1>5. SearchTypeInv'
  BY <1>1, <1>3, <1>4 DEF SearchTypeInv, Pcbs, Nested, Above
<1>6. QED
  BY <1>2, <1>3, <1>4, <1>5 DEF SearchInv

LEMMA StartKeepsSearch ==
  ASSUME SearchInv, StartSearch
  PROVE  SearchInv'
<1>1. /\ Constructed /\ from = 0 /\ from' \in Stmts(prog)
      /\ pcbs' = <<Pcb(from', <<>>, NumHops(prog))>>
      /\ visits_left' = VisitsAtStart(from')
      /\ UNCHANGED bipVars /\ times_from_seen' = times_from_seen /\ reachable' = reachable
  BY DEF StartSearch
<1>2. ConstructInv /\ SearchTypeInv /\ prog \in Programs
  BY DEF SearchInv, ConstructInv
<1>3. ConstructInv'
  BY <1>1, <1>2, StutterKeeps
<1>4. /\ prog' = prog /\ Constructed' /\ Pcbs' = Pcbs
      /\ \A s, stack : Nested(s, stack)' = Nested(s, stack)
  BY <1>1, SameProgram
<1>5. NumHops(prog) \in Nat /\ 0 \notin Stmts(prog)
  BY <1>2, HopsAreNatural
<1>6. reachable' = {} /\ times_from_seen' = 0
  BY <1>1, <1>2 DEF SearchTypeInv
<1>7. /\ Len(pcbs') = 1 /\ pcbs'[1] = Pcb(from', <<>>, NumHops(prog))
      /\ Pcb(from', <<>>, NumHops(prog)) \in Pcbs
  <2>1. <<>> \in Seq(Stmts(prog))
    OBVIOUS
  <2>2. NumHops(prog) \in -1..NumHops(prog)
    BY <1>5
  <2>3. QED
    BY <1>1, <2>1, <2>2 DEF Pcb, Pcbs
<1>8. Nested(from', <<>>)
  <2>1. PICK m \in Node : from' \in StmtsOf(prog, m)
    BY <1>1, <1>2, ProgramProperties
  <2> DEFINE g == [i \in 0..0 |-> m]
  <2>2. g \in [0..0 -> Node] /\ g[0] = m /\ \A i, j \in 0..0 : ~(i < j)
    OBVIOUS
  <2> HIDE DEF g
  <2>3. QED
    BY <2>1, <2>2 DEF Nested
<1>9. visits_left' \in [Stmts(prog) -> Nat]
  BY <1>1 DEF VisitsAtStart
<1>10. SearchTypeInv'
  <2>1. (pcbs \in Seq(Pcbs))'
    BY <1>1, <1>4, <1>7
  <2>2. (\A i \in 1..Len(pcbs) : Nested(pcbs[i].cur_sn, pcbs[i].return_to))'
    <3>1. pcbs'[1].cur_sn = from' /\ pcbs'[1].return_to = <<>>
      BY <1>7 DEF Pcb
    <3>2. \A i \in 1..Len(pcbs') : i = 1
      BY <1>7
    <3>3. \A i \in 1..Len(pcbs') : Nested(pcbs'[i].cur_sn, pcbs'[i].return_to)
      BY <1>8, <3>1, <3>2
    <3>4. QED
      BY <1>4, <3>3 DEF Nested, Above
  <2>3. QED
    BY <1>1, <1>4, <1>5, <1>6, <1>9, <2>1, <2>2 DEF SearchTypeInv
<1>11. FoundInv'
  BY <1>1, <1>4, <1>6 DEF FoundInv
<1>12. QED
  BY <1>3, <1>10, <1>11 DEF SearchInv

\* A PCB is dropped.
LEMMA DropKeeps ==
  ASSUME SearchInv, pcbs # <<>>, pcbs' = Tail(pcbs), visits_left' \in [Stmts(prog) -> Nat],
         UNCHANGED <<bipVars, from, times_from_seen, reachable>>
  PROVE  SearchInv'
<1>1. /\ from' = from /\ times_from_seen' = times_from_seen /\ reachable' = reachable
      /\ UNCHANGED bipVars
  OBVIOUS
<1>2. ConstructInv /\ SearchTypeInv /\ from # 0 /\ FoundInv
  BY DEF SearchInv, SearchTypeInv
<1>3. ConstructInv'
  BY <1>1, <1>2, StutterKeeps
<1>4. /\ prog' = prog /\ Constructed' = Constructed /\ Pcbs' = Pcbs
  BY <1>1, SameProgram
<1>5. pcbs \in Seq(Pcbs)
  BY <1>2 DEF SearchTypeInv
<1>6. pcbs' \in Seq(Pcbs) /\ Len(pcbs') = Len(pcbs) - 1 /\ \A i \in 1..Len(pcbs') : i + 1 \in 1..Len(pcbs) /\ pcbs'[i] = pcbs[i + 1]
  BY <1>5
<1>7. \A i \in 1..Len(pcbs') : Nested(pcbs'[i].cur_sn, pcbs'[i].return_to)
  BY <1>2, <1>6 DEF SearchTypeInv
<1>8. SearchTypeInv'
  <2>1. (\A i \in 1..Len(pcbs) : Nested(pcbs[i].cur_sn, pcbs[i].return_to))'
    BY <1>4, <1>7 DEF Nested, Above
  <2>2. QED
    BY <1>1, <1>2, <1>4, <1>6, <2>1 DEF SearchTypeInv
<1>9. FoundInv'
  <2>1. (times_from_seen = 0 => pcbs = <<>> \/ pcbs = <<Pcb(from, <<>>, NumHops(prog))>>)'
    <3>1. ASSUME times_from_seen = 0
          PROVE  pcbs' = <<>>
      <4>1. Len(pcbs) = 1
        BY <1>2, <3>1 DEF FoundInv
      <4>2. QED
        BY <1>6, <4>1
    <3>2. QED
      BY <1>1, <3>1
  <2>2. (times_from_seen > 0 => \A i \in 1..Len(pcbs) : Executed(pcbs[i]))'
    BY <1>1, <1>2, <1>4, <1>6 DEF FoundInv, Executed
  <2>3. QED
    BY <1>1, <1>2, <1>4, <2>1, <2>2 DEF FoundInv
<1>10. QED
  BY <1>3, <1>8, <1>9 DEF SearchInv

LEMMA SkipKeeps ==
  ASSUME SearchInv, Skip
  PROVE  SearchInv'
<1>1. /\ pcbs # <<>> /\ pcbs' = Tail(pcbs) /\ visits_left' = visits_left
      /\ UNCHANGED <<bipVars, from, times_from_seen, reachable>>
  BY DEF Skip
<1>2. visits_left \in [Stmts(prog) -> Nat]
  BY <1>1 DEF SearchInv, SearchTypeInv
<1>3. QED
  BY <1>1, <1>2, DropKeeps

LEMMA OutOfHopsKeeps ==
  ASSUME SearchInv, OutOfHops
  PROVE  SearchInv'
<1>1. /\ pcbs # <<>> /\ pcbs' = Tail(pcbs) /\ visits_left[Head(pcbs).cur_sn] > 0
      /\ visits_left' = [visits_left EXCEPT ![Head(pcbs).cur_sn] = @ - 1]
      /\ UNCHANGED <<bipVars, from, times_from_seen, reachable>>
  BY DEF OutOfHops
<1>2. visits_left \in [Stmts(prog) -> Nat]
  BY <1>1 DEF SearchInv, SearchTypeInv
<1>3. visits_left' \in [Stmts(prog) -> Nat]
  <2> DEFINE s == Head(pcbs).cur_sn
  <2>1. Head(pcbs) \in Pcbs
    BY <1>1 DEF SearchInv, SearchTypeInv
  <2>2. s \in Stmts(prog)
    BY <2>1 DEF Pcbs
  <2> HIDE DEF s
  <2>3. visits_left[s] - 1 \in Nat
    BY <1>1, <1>2, <2>2 DEF s
  <2>4. visits_left' = [visits_left EXCEPT ![s] = visits_left[s] - 1]
    BY <1>1 DEF s
  <2>5. QED
    BY <1>2, <2>3, <2>4
<1>4. QED
  BY <1>1, <1>3, DropKeeps

\* Where the PCB on top leads.
LEMMA ContinuationsKeep ==
  ASSUME SearchInv, pcbs # <<>>, Head(pcbs).hops_left >= 0,
         NEW c \in Continuations(Head(pcbs).cur_sn, Head(pcbs).return_to)
  PROVE  LET pcb == Pcb(c.to, c.stack, Head(pcbs).hops_left - 1)
         IN  pcb \in Pcbs /\ Nested(pcb.cur_sn, pcb.return_to) /\ Executed(pcb)
<1> DEFINE s == Head(pcbs).cur_sn
           stack == Head(pcbs).return_to
           hops == Head(pcbs).hops_left
           pcb == Pcb(c.to, c.stack, hops - 1)
           next == <<c.to, c.stack>>
           w == ExecutedWithin(prog, from)
<1>1. ConstructInv /\ SearchTypeInv /\ from # 0 /\ FoundInv /\ prog \in Programs
  BY DEF SearchInv, SearchTypeInv, ConstructInv
<1>2. /\ pcbs \in Seq(Pcbs) /\ Constructed /\ from \in Stmts(prog)
      /\ times_from_seen \in Nat
      /\ \A i \in 1..Len(pcbs) : Nested(pcbs[i].cur_sn, pcbs[i].return_to)
  BY <1>1 DEF SearchTypeInv
<1>3. Len(pcbs) > 0 /\ Head(pcbs) = pcbs[1] /\ 1 \in 1..Len(pcbs) /\ Head(pcbs) \in Pcbs
  BY <1>2
<1>4. NumHops(prog) \in Nat
  BY <1>1, HopsAreNatural
<1>5. s \in Stmts(prog) /\ stack \in Seq(Stmts(prog)) /\ hops \in 0..NumHops(prog)
  BY <1>3, <1>4 DEF Pcbs
<1>6. Nested(s, stack)
  BY <1>2, <1>3
<1>7. c \in Continuations(s, stack)
  OBVIOUS
<1> HIDE DEF s, stack, hops
<1>8. next \in Steps(prog, s, stack)
  BY <1>1, <1>2, <1>5, <1>7, ContinuationsAreSteps
<1>9. next \in Configs
  BY <1>1, <1>5, <1>8, StepsAreConfigs
<1>10. pcb.cur_sn = c.to /\ pcb.return_to = c.stack /\ pcb.hops_left = hops - 1
  BY DEF Pcb
<1>11. pcb \in Pcbs
  <2>1. c.to \in Stmts(prog) /\ c.stack \in Seq(Stmts(prog))
    BY <1>9 DEF Configs
  <2>2. hops - 1 \in -1..NumHops(prog)
    BY <1>4, <1>5
  <2>3. QED
    BY <2>1, <2>2 DEF Pcb, Pcbs
<1>12. Nested(c.to, c.stack)
  <2>1. Nested(next[1], next[2])
    BY <1>1, <1>5, <1>6, <1>8, StepsStayNested
  <2>2. QED
    BY <2>1
<1>13. next \in w[NumHops(prog) - (hops - 1)]
  <2> DEFINE n == NumHops(prog) - hops
  <2>1. n \in Nat /\ NumHops(prog) - (hops - 1) = n + 1
    BY <1>4, <1>5
  <2>2. CASE times_from_seen = 0
    <3>1. Head(pcbs) = Pcb(from, <<>>, NumHops(prog))
      BY <1>1, <2>2 DEF FoundInv
    <3>2. s = from /\ stack = <<>>
      BY <3>1 DEF s, stack, Pcb
    <3>3. next \in Leads(<<from, <<>>>>)
      BY <1>8, <3>2 DEF Leads
    <3>4. QED
      BY <1>1, <1>2, <2>1, <3>3, OneMoreStep
  <2>3. CASE times_from_seen > 0
    <3>1. <<s, stack>> \in w[n]
      BY <1>1, <1>3, <2>3 DEF FoundInv, Executed, s, stack, hops
    <3>2. next \in Leads(<<s, stack>>)
      BY <1>8 DEF Leads
    <3>3. QED
      BY <1>1, <1>2, <2>1, <3>1, <3>2, OneMoreStep
  <2>4. QED
    BY <1>2, <2>2, <2>3
<1>14. Executed(pcb)
  BY <1>10, <1>13 DEF Executed
<1>15. QED
  BY <1>10, <1>11, <1>12, <1>14 DEF hops

LEMMA ConcatElements ==
  ASSUME NEW S, NEW a \in Seq(S), NEW b \in Seq(S)
  PROVE  /\ a \o b \in Seq(S)
         /\ \A i \in 1..Len(a \o b) : \/ \E j \in 1..Len(a) : (a \o b)[i] = a[j]
                                      \/ \E j \in 1..Len(b) : (a \o b)[i] = b[j]
<1>1. a \o b \in Seq(S) /\ Len(a \o b) = Len(a) + Len(b) /\ Len(a) \in Nat /\ Len(b) \in Nat
  OBVIOUS
<1>2. ASSUME NEW i \in 1..Len(a \o b)
      PROVE  \/ \E j \in 1..Len(a) : (a \o b)[i] = a[j]
             \/ \E j \in 1..Len(b) : (a \o b)[i] = b[j]
  <2>1. CASE i <= Len(a)
    BY <1>1, <2>1
  <2>2. CASE i > Len(a)
    <3>1. i - Len(a) \in 1..Len(b) /\ (a \o b)[i] = b[i - Len(a)]
      BY <1>1, <2>2
    <3>2. QED
      BY <3>1
  <2>3. QED
    BY <1>1, <2>1, <2>2
<1>3. QED
  BY <1>1, <1>2

LEMMA ProcessKeeps ==
  ASSUME SearchInv, Process
  PROVE  SearchInv'
<1> DEFINE s == Head(pcbs).cur_sn
           stack == Head(pcbs).return_to
           hops == Head(pcbs).hops_left
           next == {Pcb(c.to, c.stack, hops - 1) : c \in Continuations(s, stack)}
<1>1. /\ pcbs # <<>> /\ visits_left[s] > 0 /\ hops >= 0
      /\ \E pushed \in SetToSeqs(next) : pcbs' = pushed \o Tail(pcbs)
      /\ visits_left' = VisitsAfter(s)
      /\ times_from_seen' = times_from_seen + (IF s = from THEN 1 ELSE 0)
      /\ reachable' = reachable \cup {s}
      /\ UNCHANGED bipVars /\ from' = from
  BY DEF Process
<1>2. ConstructInv /\ SearchTypeInv /\ from # 0 /\ FoundInv /\ prog \in Programs
  BY <1>1 DEF SearchInv, SearchTypeInv, ConstructInv
<1>3. /\ pcbs \in Seq(Pcbs) /\ Constructed /\ from \in Stmts(prog)
      /\ times_from_seen \in Nat /\ reachable \subseteq Stmts(prog)
      /\ from \in reachable <=> times_from_seen > 0
      /\ visits_left \in [Stmts(prog) -> Nat]
      /\ \A i \in 1..Len(pcbs) : Nested(pcbs[i].cur_sn, pcbs[i].return_to)
  BY <1>2 DEF SearchTypeInv
<1>4. Len(pcbs) > 0 /\ Head(pcbs) = pcbs[1] /\ 1 \in 1..Len(pcbs) /\ Head(pcbs) \in Pcbs
  BY <1>1, <1>3
<1>5. NumHops(prog) \in Nat
  BY <1>2, HopsAreNatural
<1>6. s \in Stmts(prog) /\ hops \in 0..NumHops(prog)
  BY <1>1, <1>4, <1>5 DEF Pcbs
<1>7. ConstructInv'
  BY <1>1, <1>2, StutterKeeps
<1>8. prog' = prog /\ Constructed' = Constructed /\ Pcbs' = Pcbs
  BY <1>1, SameProgram
<1>9. IsFiniteSet(next)
  <2> DEFINE C == Continuations(s, stack)
             f == [c \in C |-> Pcb(c.to, c.stack, hops - 1)]
  <2>1. IsFiniteSet(C)
    BY <1>2, <1>6, ContinuationsAreFinite
  <2>2. next = {f[c] : c \in C}
    OBVIOUS
  <2> HIDE DEF C, f, next
  <2>3. QED
    BY <2>1, <2>2, FiniteImage
<1>10. \A x \in next : x \in Pcbs /\ Nested(x.cur_sn, x.return_to) /\ Executed(x)
  BY <1>1, ContinuationsKeep
<1> HIDE DEF next
<1>11. PICK pushed \in SetToSeqs(next) : pcbs' = pushed \o Tail(pcbs)
  BY <1>1
<1>12. pushed \in Seq(Pcbs) /\ \A i \in 1..Len(pushed) : pushed[i] \in next
  <2>1. pushed \in [1..Cardinality(next) -> next]
    BY DEF SetToSeqs
  <2>2. Cardinality(next) \in Nat
    BY <1>9, FS_CardinalityType
  <2>3. pushed \in Seq(next)
    BY <2>1, <2>2
  <2>4. next \subseteq Pcbs
    BY <1>10
  <2>5. QED
    BY <2>3, <2>4
<1>13. /\ Tail(pcbs) \in Seq(Pcbs) /\ Len(Tail(pcbs)) = Len(pcbs) - 1
       /\ \A j \in 1..Len(Tail(pcbs)) : j + 1 \in 1..Len(pcbs) /\ Tail(pcbs)[j] = pcbs[j + 1]
  BY <1>3, <1>4
<1>14. /\ pcbs' \in Seq(Pcbs)
       /\ \A i \in 1..Len(pcbs') : \/ pcbs'[i] \in next
                                   \/ \E j \in 1..Len(pcbs) : pcbs'[i] = pcbs[j] /\ Len(pcbs) > 1
  <2> DEFINE rest == Tail(pcbs)
  <2>1. rest \in Seq(Pcbs) /\ Len(rest) = Len(pcbs) - 1
    BY <1>13
  <2>2. \A j \in 1..Len(rest) : \E k \in 1..Len(pcbs) : rest[j] = pcbs[k] /\ Len(pcbs) > 1
    BY <1>3, <1>13
  <2> HIDE DEF rest
  <2>3. /\ pushed \o rest \in Seq(Pcbs)
        /\ \A i \in 1..Len(pushed \o rest) : \/ \E j \in 1..Len(pushed) : (pushed \o rest)[i] = pushed[j]
                                             \/ \E j \in 1..Len(rest) : (pushed \o rest)[i] = rest[j]
    BY <1>12, <2>1, ConcatElements
  <2> DEFINE all == pushed \o rest
  <2>4. pcbs' = all
    BY <1>11 DEF rest
  <2> HIDE DEF all
  <2>5. ASSUME NEW i \in 1..Len(all)
        PROVE  all[i] \in next \/ \E j \in 1..Len(pcbs) : all[i] = pcbs[j] /\ Len(pcbs) > 1
    BY <1>12, <2>2, <2>3, <2>5 DEF all
  <2>6. all \in Seq(Pcbs)
    BY <2>3 DEF all
  <2>7. QED
    BY <2>4, <2>5, <2>6
<1>15. \A i \in 1..Len(pcbs') : Nested(pcbs'[i].cur_sn, pcbs'[i].return_to)
  BY <1>3, <1>10, <1>14
<1>16. visits_left' \in [Stmts(prog) -> Nat]
  <2> HIDE DEF s
  <2>1. \A t \in Stmts(prog) : visits_left[t] \in Nat /\ (t = s => visits_left[t] > 0)
    BY <1>1, <1>3
  <2>2. QED
    BY <1>1, <2>1 DEF VisitsAfter
<1>17. \/ times_from_seen = 0 /\ Len(pcbs) = 1 /\ s = from
       \/ times_from_seen > 0 /\ s \in ExecutedAfter(prog, from, NumHops(prog))
  <2>1. CASE times_from_seen = 0
    <3>1. pcbs = <<Pcb(from, <<>>, NumHops(prog))>>
      BY <1>1, <1>2, <2>1 DEF FoundInv
    <3>2. Len(pcbs) = 1 /\ Head(pcbs) = Pcb(from, <<>>, NumHops(prog))
      BY <3>1
    <3>3. QED
      BY <2>1, <3>2 DEF Pcb
  <2>2. CASE times_from_seen > 0
    <3> DEFINE n == NumHops(prog) - hops
               w == ExecutedWithin(prog, from)
    <3>1. n \in Nat /\ n <= NumHops(prog)
      BY <1>5, <1>6
    <3>2. <<s, stack>> \in w[n]
      BY <1>2, <1>4, <2>2 DEF FoundInv, Executed
    <3>3. w[n] \subseteq w[NumHops(prog)]
      BY <1>2, <1>3, <1>5, <3>1, ExecutedWithinMonotonic
    <3> HIDE DEF s, stack
    <3>4. <<s, stack>> \in w[NumHops(prog)]
      BY <3>2, <3>3
    <3>5. s \in ExecutedAfter(prog, from, NumHops(prog))
      BY <3>4 DEF ExecutedAfter
    <3>6. QED
      BY <2>2, <3>5
  <2>3. QED
    BY <1>3, <2>1, <2>2
<1> HIDE DEF s, stack, hops
<1>18. times_from_seen' \in Nat /\ times_from_seen' > 0
  BY <1>1, <1>3, <1>17
<1>19. SearchTypeInv'
  <2>1. (\A i \in 1..Len(pcbs) : Nested(pcbs[i].cur_sn, pcbs[i].return_to))'
    BY <1>8, <1>15 DEF Nested, Above
  <2>2. (reachable \subseteq Stmts(prog) /\ (from \in reachable <=> times_from_seen > 0))'
    BY <1>1, <1>3, <1>6, <1>8, <1>17, <1>18
  <2>3. QED
    BY <1>1, <1>2, <1>3, <1>8, <1>14, <1>16, <1>18, <2>1, <2>2 DEF SearchTypeInv
<1>20. FoundInv'
  <2>1. (times_from_seen > 0 => \A i \in 1..Len(pcbs) : Executed(pcbs[i]))'
    <3>1. \A i \in 1..Len(pcbs') : Executed(pcbs'[i])
      <4> TAKE i \in 1..Len(pcbs')
      <4>1. CASE pcbs'[i] \in next
        BY <1>10, <4>1
      <4>2. ASSUME NEW j \in 1..Len(pcbs), pcbs'[i] = pcbs[j], Len(pcbs) > 1
            PROVE  Executed(pcbs'[i])
        <5>1. times_from_seen > 0
          BY <1>3, <1>17, <4>2
        <5>2. \A k \in 1..Len(pcbs) : Executed(pcbs[k])
          BY <1>2, <5>1 DEF FoundInv
        <5>3. QED
          BY <4>2, <5>2
      <4>3. QED
        BY <1>14, <4>1, <4>2
    <3>2. QED
      BY <1>1, <1>8, <3>1 DEF Executed
  <2>2. reachable' \ {from} \subseteq ExecutedAfter(prog, from, NumHops(prog))
    BY <1>1, <1>2, <1>17 DEF FoundInv
  <2>3. times_from_seen' > 1 => from \in ExecutedAfter(prog, from, NumHops(prog))
    BY <1>1, <1>2, <1>3, <1>17 DEF FoundInv
  <2>4. QED
    BY <1>1, <1>8, <1>18, <2>1, <2>2, <2>3 DEF FoundInv
<1>21. QED
  BY <1>7, <1>19, <1>20 DEF SearchInv

LEMMA StutterKeepsSearch ==
  ASSUME SearchInv, UNCHANGED vars
  PROVE  SearchInv'
<1>1. /\ UNCHANGED bipVars
      /\ from' = from /\ pcbs' = pcbs /\ visits_left' = visits_left
      /\ times_from_seen' = times_from_seen /\ reachable' = reachable
  BY DEF vars, searchVars
<1>2. ConstructInv'
  BY <1>1, StutterKeeps DEF SearchInv
<1>3. prog' = prog /\ Constructed' = Constructed
  BY <1>1, SameProgram
<1>4. QED
  BY <1>1, <1>2, <1>3 DEF SearchInv, SearchTypeInv, FoundInv, Executed, Nested, Above, Pcbs

(***************************************************************************)
(* The search of NextBipHandler keeps its invariant.                       *)
(***************************************************************************)
THEOREM SearchInvHolds == Spec => []SearchInv
<1>1. Init => SearchInv
  BY InitStartsSearch
<1>2. SearchInv /\ [Next]_vars => SearchInv'
  BY ConstructKeepsSearch, StartKeepsSearch, SkipKeeps, OutOfHopsKeeps, ProcessKeeps, StutterKeepsSearch DEF Next
<1>3. QED
  BY <1>1, <1>2, PTL DEF Spec

LEMMA SearchInvImpliesType ==
  ASSUME SearchInv
  PROVE  TypeOK
<1>1. ConstructInv /\ SearchTypeInv /\ prog \in Programs
  BY DEF SearchInv, ConstructInv
<1>2. BipTypeOK
  BY <1>1, InvImpliesType
<1>3. ASSUME NEW i \in DOMAIN pcbs
      PROVE  /\ pcbs[i].cur_sn \in Stmts(prog)
             /\ pcbs[i].hops_left \in -1..NumHops(prog)
             /\ Len(pcbs[i].return_to) < Cardinality(Node)
  <2>1. pcbs[i] \in Pcbs /\ Nested(pcbs[i].cur_sn, pcbs[i].return_to)
    BY <1>1, <1>3 DEF SearchTypeInv
  <2>2. pcbs[i].return_to \in Seq(Stmts(prog))
    BY <2>1 DEF Pcbs
  <2>3. Len(pcbs[i].return_to) < Cardinality(Node)
    BY <1>1, <2>1, <2>2, NestedIsShort
  <2>4. QED
    BY <2>1, <2>3 DEF Pcbs
<1>4. QED
  BY <1>1, <1>2, <1>3 DEF TypeOK, SearchTypeInv

LEMMA SearchInvImpliesSound ==
  ASSUME SearchInv
  PROVE  NoNextBipTInvented
<1> SUFFICES ASSUME Done
             PROVE  Inserted \subseteq ExecutedAfter(prog, from, NumHops(prog))
  BY DEF NoNextBipTInvented
<1>1. /\ reachable \ {from} \subseteq ExecutedAfter(prog, from, NumHops(prog))
      /\ times_from_seen > 1 => from \in ExecutedAfter(prog, from, NumHops(prog))
      /\ from \in reachable <=> times_from_seen > 0
      /\ times_from_seen \in Nat
  BY DEF Done, SearchInv, SearchTypeInv, FoundInv
<1>2. QED
  BY <1>1 DEF Inserted

(***************************************************************************)
(* For every program without recursion: the hops of a PCB are never below  *)
(* -1, no statement has fewer than no visits left, and a stack of return   *)
(* points is shorter than the number of procedures.                        *)
(***************************************************************************)
THEOREM SearchTypeCorrect == Spec => []TypeOK
BY SearchInvHolds, SearchInvImpliesType, PTL

(***************************************************************************)
(* What NextBipHandler inserts as NextBip* is executed: an execution with  *)
(* matching calls and returns leads there, in no more steps than the bound *)
(* on hops.                                                                *)
(***************************************************************************)
THEOREM NextBipTIsExecuted == Spec => []NoNextBipTInvented
BY SearchInvHolds, SearchInvImpliesSound, PTL

(***************************************************************************)
(* The searches leave the graph and its construction alone, so what is     *)
(* proved of the construction holds of the two handlers together.          *)
(***************************************************************************)
THEOREM SearchKeepsConstruction == Spec => ConstructSpec
<1>1. Init => ConstructInit
  BY DEF Init
<1>2. [Next]_vars => [ConstructNext]_bipVars
  BY DEF Next, vars, ConstructCFGBip, StartSearch, Skip, OutOfHops, Process
<1>3. QED
  BY <1>1, <1>2, PTL DEF Spec, ConstructSpec

(***************************************************************************)
(* Behind a statement that is no if and no while there is at most one.     *)
(***************************************************************************)
After(ast) ==
  LET after[s \in DOMAIN ast] ==
        IF ~IsLast(ast, s) THEN {Sibling(ast, s)}
        ELSE CASE ast[s].list.in = "procedure" -> {}
               [] ast[s].list.in = "while"     -> {ast[s].list.of}
               [] OTHER                        -> after[ast[s].list.of]
  IN  after

InsideIf(ast, s) == IsLast(ast, s) /\ ast[s].list.in \notin {"procedure", "while"}

\* Where control goes when the end of the list of s is not the end of an if.
AfterHere(ast, s) ==
  IF ~IsLast(ast, s) THEN {Sibling(ast, s)}
  ELSE IF ast[s].list.in = "while" THEN {ast[s].list.of} ELSE {}

IfAround(ast) == {e \in (DOMAIN ast) \X (DOMAIN ast) : InsideIf(ast, e[1]) /\ e[2] = ast[e[1]].list.of}

\* What is around a statement of a list has a smaller number.
LEMMA AroundIsBefore ==
  ASSUME prog \in Programs, NEW s \in Stmts(prog), prog.ast[s].list.in # "procedure"
  PROVE  prog.ast[s].list.of \in Stmts(prog) /\ prog.ast[s].list.of < s
<1> DEFINE q == ParentOf(prog.ast, s)
<1>1. q = prog.ast[s].list.of
  BY DEF ParentOf
<1>2. PICK n \in Node : s \in StmtsOf(prog, n)
  BY ProgramProperties
<1>3. PICK k \in ProceduresOf(prog.ast) :
        \A t \in StmtsOf(prog, n) : prog.ast[t].list = Procedure(k) \/ ParentOf(prog.ast, t) \in StmtsOf(prog, n)
  BY BipAssumption DEF IsProgram
<1>4. prog.ast[s].list # Procedure(k)
  BY DEF Procedure
<1>5. q \in Stmts(prog)
  BY <1>2, <1>3, <1>4, ProgramProperties
<1>6. q # 0 => q < s
  BY BipAssumption DEF IsProgram, IsAst
<1>7. q # 0
  BY <1>5, HopsAreNatural
<1>8. QED
  BY <1>1, <1>5, <1>6, <1>7

LEMMA AfterEquation ==
  ASSUME prog \in Programs, NEW s \in Stmts(prog)
  PROVE  After(prog.ast)[s] = IF InsideIf(prog.ast, s) THEN After(prog.ast)[prog.ast[s].list.of] ELSE AfterHere(prog.ast, s)
<1> DEFINE ast == prog.ast
           N == Stmts(prog)
           E == IfAround(ast)
           R(t) == ReachableFrom(E, N, t)
           f == [t \in N |-> AfterHere(ast, t) \cup UNION {AfterHere(ast, u) : u \in R(t)}]
           Body1(g, t) == IF ~IsLast(ast, t) THEN {Sibling(ast, t)}
                          ELSE CASE ast[t].list.in = "procedure" -> {}
                                 [] ast[t].list.in = "while"     -> {ast[t].list.of}
                                 [] OTHER                        -> g[ast[t].list.of]
           Is(g) == g = [t \in DOMAIN ast |-> Body1(g, t)]
<1>1. DOMAIN ast = N /\ E \subseteq N \X N
  BY BipAssumption DEF IsProgram, IfAround
<1>2. ASSUME NEW t \in N, NEW g
      PROVE  Body1(g, t) = IF InsideIf(ast, t) THEN g[ast[t].list.of] ELSE AfterHere(ast, t)
  BY DEF InsideIf, AfterHere
<1>3. ASSUME NEW t \in N, InsideIf(ast, t)
      PROVE  f[t] = f[ast[t].list.of]
  <2> DEFINE q == ast[t].list.of
  <2>1. q \in N
    BY <1>3, AroundIsBefore DEF InsideIf
  <2>2. \A b \in N : <<t, b>> \in E <=> b = q
    BY <1>1, <1>3, <2>1 DEF IfAround
  <2>3. AfterHere(ast, t) = {}
    BY <1>3 DEF AfterHere, InsideIf
  <2> HIDE DEF E, q
  <2>4. \A u : u \in R(t) <=> u = q \/ u \in R(q)
    <3> HIDE DEF N
    <3>1. \A u : u \in R(t) <=> \E b \in N : <<t, b>> \in E /\ (u = b \/ u \in R(b))
      BY <1>1, ReachableByFirstEdge
    <3>2. QED
      BY <2>1, <2>2, <3>1, Zenon
  <2> HIDE DEF R
  <2>5. f[t] = AfterHere(ast, q) \cup UNION {AfterHere(ast, u) : u \in R(q)}
    BY <2>3, <2>4
  <2>6. f[q] = AfterHere(ast, q) \cup UNION {AfterHere(ast, u) : u \in R(q)}
    BY <2>1
  <2>7. QED
    BY <2>5, <2>6 DEF q
<1>4. ASSUME NEW t \in N, ~InsideIf(ast, t)
      PROVE  f[t] = AfterHere(ast, t)
  <2>1. \A b \in N : <<t, b>> \notin E
    BY <1>4 DEF IfAround
  <2> HIDE DEF E
  <2>2. R(t) = {}
    <3>1. \A u : u \notin R(t)
      BY <1>1, <2>1, ReachableByFirstEdge
    <3>2. QED
      BY <3>1
  <2> HIDE DEF R
  <2>3. QED
    BY <2>2
<1>5. Is(f)
  <2>1. \A t \in N : f[t] = Body1(f, t)
    <3> HIDE DEF f, Body1
    <3>1. QED
      BY <1>2, <1>3, <1>4
  <2>2. f = [t \in N |-> f[t]]
    OBVIOUS
  <2> HIDE DEF f, Body1
  <2>3. f = [t \in N |-> Body1(f, t)]
    BY <2>1, <2>2
  <2>4. QED
    BY <1>1, <2>3
<1>6. After(ast) = CHOOSE g : Is(g)
  BY DEF After
<1>7. Is(After(ast))
  <2> HIDE DEF Is, f
  <2> QED
    BY <1>5, <1>6, Zenon
<1>8. After(ast)[s] = Body1(After(ast), s)
  <2> HIDE DEF Body1
  <2> QED
    BY <1>1, <1>7
<1>9. QED
  BY <1>2, <1>8

\* At most one statement comes after the end of a list.
LEMMA OneComesAfter ==
  ASSUME prog \in Programs, NEW s \in Stmts(prog), NEW t \in After(prog.ast)[s], NEW u \in After(prog.ast)[s]
  PROVE  t = u
<1> DEFINE Bad == {x \in Stmts(prog) : \E y, z \in After(prog.ast)[x] : y # z}
<1>1. Stmts(prog) \subseteq Nat
  BY BipAssumption DEF IsProgram, Stmts
<1>2. ASSUME Bad # {}
      PROVE  FALSE
  <2>1. PICK x \in Bad : \A y \in Bad : x <= y
    <3>1. Bad \in SUBSET Nat
      BY <1>1
    <3> HIDE DEF Bad
    <3>2. QED
      BY <1>2, <3>1, LeastElement
  <2>2. PICK y, z \in After(prog.ast)[x] : y # z
    OBVIOUS
  <2>3. x \in Stmts(prog)
    OBVIOUS
  <2>4. InsideIf(prog.ast, x) /\ After(prog.ast)[x] = After(prog.ast)[prog.ast[x].list.of]
    <3>1. AfterHere(prog.ast, x) = {} \/ \E v : AfterHere(prog.ast, x) = {v}
      BY DEF AfterHere
    <3>2. QED
      BY <2>2, <2>3, <3>1, AfterEquation
  <2>5. prog.ast[x].list.of \in Stmts(prog) /\ prog.ast[x].list.of < x
    BY <2>3, <2>4, AroundIsBefore DEF InsideIf
  <2>6. prog.ast[x].list.of \in Bad
    BY <2>2, <2>4, <2>5
  <2>7. prog.ast[x].list.of \in Nat /\ x \in Nat
    BY <1>1, <2>3, <2>5
  <2>8. QED
    BY <2>1, <2>5, <2>6, <2>7
<1>3. QED
  BY <1>2

\* The assertion behind a call that is no exit: one statement comes behind it.
LEMMA CallLeadsToOne ==
  ASSUME prog \in Programs, NEW s \in CallStmts(prog), NEW t \in prog.next[s], NEW u \in prog.next[s]
  PROVE  t = u
<1>1. s \in Stmts(prog) /\ prog.ast[s].kind = "call" /\ DOMAIN prog.ast = Stmts(prog)
      /\ NextEdges(prog) = ControlFlow(prog.ast)
  BY BipAssumption DEF IsProgram, CallStmts
<1> DEFINE to(x) == CASE prog.ast[x].kind = "if"    -> {FirstStmt(prog.ast, Then(x)), FirstStmt(prog.ast, Else(x))}
                      [] prog.ast[x].kind = "while" -> {FirstStmt(prog.ast, Body(x))} \cup After(prog.ast)[x]
                      [] OTHER                 -> After(prog.ast)[x]
<1>2. ControlFlow(prog.ast) = UNION {{x} \X to(x) : x \in Stmts(prog)}
  BY <1>1 DEF ControlFlow, After
<1>3. <<s, t>> \in NextEdges(prog) /\ <<s, u>> \in NextEdges(prog)
  BY <1>1, ProgramProperties DEF NextEdges
<1>4. to(s) = After(prog.ast)[s]
  BY <1>1
<1> HIDE DEF to
<1>5. t \in to(s) /\ u \in to(s)
  BY <1>1, <1>2, <1>3
<1>6. QED
  BY <1>1, <1>4, <1>5, OneComesAfter

(***************************************************************************)
(* Programs in which nothing is executed twice because of a loop that      *)
(* calls or is called.                                                     *)
(***************************************************************************)
LEMMA ReachableIsTransitive ==
  ASSUME NEW edges, NEW nodes, NEW a, NEW b, NEW c,
         b \in ReachableFrom(edges, nodes, a), c \in ReachableFrom(edges, nodes, b)
  PROVE  c \in ReachableFrom(edges, nodes, a)
<1>1. ASSUME NEW S \in SUBSET nodes, ClosedFrom(edges, a, S)
      PROVE  c \in S
  <2>1. b \in S
    BY <1>1 DEF ReachableFrom
  <2>2. ClosedFrom(edges, b, S)
    BY <1>1, <2>1 DEF ClosedFrom
  <2>3. QED
    BY <2>2 DEF ReachableFrom
<1>2. QED
  BY <1>1 DEF ReachableFrom

LEMMA ReachableByLastEdge ==
  ASSUME NEW edges, NEW nodes, edges \subseteq nodes \X nodes, NEW a \in nodes, NEW n
  PROVE  n \in ReachableFrom(edges, nodes, a) <=>
           \E b \in {a} \cup ReachableFrom(edges, nodes, a) : <<b, n>> \in edges
<1> DEFINE S == {m \in nodes : \E b \in {a} \cup ReachableFrom(edges, nodes, a) : <<b, m>> \in edges}
<1>1. ASSUME NEW b \in {a} \cup ReachableFrom(edges, nodes, a), NEW m, <<b, m>> \in edges
      PROVE  m \in ReachableFrom(edges, nodes, a)
  <2>1. ASSUME NEW T \in SUBSET nodes, ClosedFrom(edges, a, T)
        PROVE  m \in T
    BY <1>1, <2>1 DEF ReachableFrom, ClosedFrom
  <2>2. m \in nodes
    BY <1>1
  <2>3. QED
    BY <2>1, <2>2 DEF ReachableFrom
<1>2. S \subseteq ReachableFrom(edges, nodes, a)
  BY <1>1
<1>3. ClosedFrom(edges, a, S) /\ S \in SUBSET nodes
  <2> SUFFICES ASSUME NEW e \in edges, e[1] = a \/ e[1] \in S
               PROVE  e[2] \in S
    BY DEF ClosedFrom
  <2>1. e = <<e[1], e[2]>> /\ e[2] \in nodes
    OBVIOUS
  <2>2. QED
    BY <1>2, <2>1
<1> HIDE DEF S
<1>4. n \in ReachableFrom(edges, nodes, a) => n \in S
  BY <1>3 DEF ReachableFrom
<1>5. QED
  BY <1>1, <1>4 DEF S

\* Of two nodes that lead to a third, one leads to the other when no node has
\* two predecessors.
LEMMA OneLeadsToTheOther ==
  ASSUME NEW edges, NEW nodes, edges \subseteq nodes \X nodes, NEW a \in nodes, NEW b \in nodes,
         \A x, y, z : <<x, z>> \in edges /\ <<y, z>> \in edges => x = y,
         NEW m, m \in {a} \cup ReachableFrom(edges, nodes, a), m \in {b} \cup ReachableFrom(edges, nodes, b)
  PROVE  a = b \/ a \in ReachableFrom(edges, nodes, b) \/ b \in ReachableFrom(edges, nodes, a)
<1> DEFINE R(x) == ReachableFrom(edges, nodes, x)
           S == R(a) \ ({b} \cup R(b))
<1> SUFFICES ASSUME a # b, a \notin R(b), b \notin R(a)
             PROVE  FALSE
  OBVIOUS
<1>1. ASSUME NEW e \in edges, e[1] = a \/ e[1] \in S
      PROVE  e[2] \in S
  <2>1. <<e[1], e[2]>> \in edges
    OBVIOUS
  <2>2. e[1] \in {a} \cup R(a) /\ e[1] \notin {b} \cup R(b)
    BY <1>1
  <2> HIDE DEF R
  <2>3. e[2] \in R(a)
    <3>1. \A n : n \in R(a) <=> \E c \in {a} \cup R(a) : <<c, n>> \in edges
      BY ReachableByLastEdge DEF R
    <3>2. QED
      BY <2>1, <2>2, <3>1
  <2>4. e[2] # b
    BY <2>3
  <2>5. e[2] \notin R(b)
    <3> SUFFICES ASSUME e[2] \in R(b)
                 PROVE  FALSE
      OBVIOUS
    <3>1. PICK c \in {b} \cup R(b) : <<c, e[2]>> \in edges
      BY ReachableByLastEdge DEF R
    <3>2. c = e[1]
      BY <2>1, <3>1
    <3>3. QED
      BY <2>2, <3>1, <3>2
  <2>6. QED
    BY <2>3, <2>4, <2>5
<1>2. S \in SUBSET nodes /\ ClosedFrom(edges, a, S)
  BY <1>1 DEF ClosedFrom, ReachableFrom
<1> HIDE DEF S
<1>3. R(a) \subseteq S
  BY <1>2 DEF ReachableFrom
<1>4. QED
  BY <1>3 DEF S

\* k is n or below it in the call graph.
AtOrBelow(k, n) == k = n \/ Above(n, k)

LEMMA CallsAreOfNodes == Calls(prog) \subseteq Node \X Node /\ TailCalls(prog) \subseteq Node \X Node
BY DEF Calls, TailCalls

LEMMA BelowBelow ==
  ASSUME NEW a, NEW b, NEW c, AtOrBelow(b, a), AtOrBelow(c, b)
  PROVE  AtOrBelow(c, a)
BY AboveTransitive DEF AtOrBelow

LEMMA TailCallsAreBelow ==
  ASSUME NEW n, NEW k \in ReachableFrom(TailCalls(prog), Node, n)
  PROVE  Above(n, k)
<1>1. TailCalls(prog) \subseteq Calls(prog)
  BY DEF TailCalls, Calls
<1>2. ASSUME NEW S \in SUBSET Node, ClosedFrom(Calls(prog), n, S)
      PROVE  k \in S
  <2>1. ClosedFrom(TailCalls(prog), n, S)
    BY <1>1, <1>2 DEF ClosedFrom
  <2>2. QED
    BY <2>1 DEF ReachableFrom
<1>3. k \in Node
  BY DEF ReachableFrom
<1>4. QED
  BY <1>2, <1>3 DEF Above, ReachableFrom

\* A procedure that is called is called from one place.
LEMMA OneCaller ==
  ASSUME prog \in Programs, IsSimple(prog), NEW x, NEW y, NEW z
  PROVE  /\ <<x, z>> \in Calls(prog) /\ <<y, z>> \in Calls(prog) => x = y
         /\ <<x, z>> \in TailCalls(prog) /\ <<y, z>> \in TailCalls(prog) => x = y
<1>1. ASSUME <<x, z>> \in Calls(prog), <<y, z>> \in Calls(prog)
      PROVE  x = y
  <2>1. x \in Node /\ y \in Node
    BY <1>1, CallsAreOfNodes
  <2>2. PICK s \in CallStmts(prog) : s \in StmtsOf(prog, x) /\ prog.callee[s] = z
    BY <1>1 DEF Calls
  <2>3. PICK t \in CallStmts(prog) : t \in StmtsOf(prog, y) /\ prog.callee[t] = z
    BY <1>1 DEF Calls
  <2>4. s = t
    BY <2>2, <2>3 DEF IsSimple
  <2>5. QED
    BY <2>1, <2>2, <2>3, <2>4, ProgramProperties
<1>2. TailCalls(prog) \subseteq Calls(prog)
  BY DEF TailCalls, Calls
<1>3. QED
  BY <1>1, <1>2

\* What is called from a procedure below n is called there only.
LEMMA CalledFromBelow ==
  ASSUME prog \in Programs, IsSimple(prog), NEW n \in Node, NEW d \in CallStmts(prog), Above(n, prog.callee[d])
  PROVE  \E k \in Node : AtOrBelow(k, n) /\ d \in StmtsOf(prog, k)
<1>1. PICK k \in {n} \cup ReachableFrom(Calls(prog), Node, n) : <<k, prog.callee[d]>> \in Calls(prog)
  BY CallsAreOfNodes, ReachableByLastEdge DEF Above
<1>2. k \in Node /\ AtOrBelow(k, n)
  BY <1>1, CallsAreOfNodes DEF AtOrBelow, Above
<1>3. PICK c \in CallStmts(prog) : c \in StmtsOf(prog, k) /\ prog.callee[c] = prog.callee[d]
  BY <1>1 DEF Calls
<1>4. c = d
  BY <1>3 DEF IsSimple
<1>5. QED
  BY <1>2, <1>3, <1>4

\* Only one call can be returned behind.
LEMMA OneReturnPoint ==
  ASSUME prog \in Programs, IsSimple(prog), NEW s,
         NEW c \in CallStmts(prog), NEW d \in CallStmts(prog),
         s \in ReturnsFrom(prog, prog.callee[c]), s \in ReturnsFrom(prog, prog.callee[d]),
         prog.next[c] # {}, prog.next[d] # {}
  PROVE  c = d
<1> DEFINE E == TailCalls(prog)
           R(n) == ReachableFrom(E, Node, n)
<1>1. prog.callee[c] \in Node /\ prog.callee[d] \in Node
  BY ProgramProperties
<1>2. PICK m \in {prog.callee[c]} \cup R(prog.callee[c]) : s \in StmtsOf(prog, m)
  BY DEF ReturnsFrom
<1>3. PICK k \in {prog.callee[d]} \cup R(prog.callee[d]) : s \in StmtsOf(prog, k)
  BY DEF ReturnsFrom
<1>4. m = k
  <2>1. m \in Node /\ k \in Node
    BY <1>1, <1>2, <1>3 DEF ReachableFrom
  <2>2. QED
    BY <1>2, <1>3, <2>1, ProgramProperties
<1>5. ASSUME NEW a \in CallStmts(prog), NEW b \in CallStmts(prog), prog.callee[a] \in R(prog.callee[b])
      PROVE  prog.next[a] = {}
  <2>1. prog.callee[b] \in Node
    BY ProgramProperties
  <2>2. PICK x \in {prog.callee[b]} \cup R(prog.callee[b]) : <<x, prog.callee[a]>> \in E
    BY <1>5, <2>1, CallsAreOfNodes, ReachableByLastEdge
  <2>3. PICK e \in CallStmts(prog) : prog.next[e] = {} /\ prog.callee[e] = prog.callee[a]
    BY <2>2 DEF TailCalls
  <2>4. e = a
    BY <2>3 DEF IsSimple
  <2>5. QED
    BY <2>3, <2>4
<1>6. prog.callee[c] \notin R(prog.callee[d]) /\ prog.callee[d] \notin R(prog.callee[c])
  BY <1>5
<1>7. \A x, y, z : <<x, z>> \in E /\ <<y, z>> \in E => x = y
  BY OneCaller
<1>8. E \subseteq Node \X Node
  BY CallsAreOfNodes
<1> HIDE DEF E
<1>9. prog.callee[c] = prog.callee[d]
  BY <1>1, <1>2, <1>3, <1>4, <1>6, <1>7, <1>8, OneLeadsToTheOther
<1>10. QED
  BY <1>9 DEF IsSimple

(***************************************************************************)
(* Where control goes in a simple program: it comes to a procedure through *)
(* its one call, and behind a statement it stays behind it.                *)
(***************************************************************************)
\* t is in n or in a procedure below n.
InBelow(t, n) == \E k \in Node : AtOrBelow(k, n) /\ t \in StmtsOf(prog, k)

LEMMA FlowCases ==
  ASSUME prog \in Programs, NEW x, NEW y
  PROVE  <<x, y>> \in InterproceduralFlow(prog) <=>
           /\ x \in Stmts(prog) /\ y \in Stmts(prog)
           /\ \/ x \notin CallStmts(prog) /\ y \in prog.next[x]
              \/ x \in CallStmts(prog) /\ y = Entry(prog, prog.callee[x])
              \/ \E d \in CallStmts(prog) : x \in ReturnsFrom(prog, prog.callee[d]) /\ y \in prog.next[d]
<1>1. \A s \in Stmts(prog) : prog.next[s] \subseteq Stmts(prog)
  BY ProgramProperties
<1>2. \A s \in CallStmts(prog) : s \in Stmts(prog) /\ Entry(prog, prog.callee[s]) \in Stmts(prog)
  BY ProgramProperties DEF CallStmts
<1>3. \A n : ReturnsFrom(prog, n) \subseteq Stmts(prog)
  BY DEF ReturnsFrom
<1>4. <<x, y>> \in {e \in NextEdges(prog) : e[1] \notin CallStmts(prog)} <=>
        x \in Stmts(prog) /\ x \notin CallStmts(prog) /\ y \in prog.next[x]
  BY <1>1 DEF NextEdges
<1>5. <<x, y>> \in {<<s, Entry(prog, prog.callee[s])>> : s \in CallStmts(prog)} <=>
        x \in CallStmts(prog) /\ y = Entry(prog, prog.callee[x])
  OBVIOUS
<1>6. <<x, y>> \in UNION {ReturnsFrom(prog, prog.callee[s]) \X prog.next[s] : s \in CallStmts(prog)} <=>
        \E d \in CallStmts(prog) : x \in ReturnsFrom(prog, prog.callee[d]) /\ y \in prog.next[d]
  OBVIOUS
<1>7. <<x, y>> \in InterproceduralFlow(prog) <=>
        \/ x \in Stmts(prog) /\ x \notin CallStmts(prog) /\ y \in prog.next[x]
        \/ x \in CallStmts(prog) /\ y = Entry(prog, prog.callee[x])
        \/ \E d \in CallStmts(prog) : x \in ReturnsFrom(prog, prog.callee[d]) /\ y \in prog.next[d]
  BY <1>4, <1>5, <1>6 DEF InterproceduralFlow
<1>8. ASSUME NEW d \in CallStmts(prog), x \in ReturnsFrom(prog, prog.callee[d]), y \in prog.next[d]
      PROVE  x \in Stmts(prog) /\ y \in Stmts(prog)
  BY <1>1, <1>2, <1>3, <1>8
<1>9. QED
  BY <1>1, <1>2, <1>7, <1>8

LEMMA CalleesAreBelow ==
  ASSUME prog \in Programs, NEW n \in Node, NEW d \in CallStmts(prog), d \in StmtsOf(prog, n), NEW m,
         AtOrBelow(m, prog.callee[d])
  PROVE  Above(n, m)
<1>1. Above(n, prog.callee[d])
  BY CallerIsAbove
<1>2. QED
  BY <1>1, AboveTransitive DEF AtOrBelow

LEMMA ReturnsAreBelow ==
  ASSUME prog \in Programs, NEW d \in CallStmts(prog), NEW x \in ReturnsFrom(prog, prog.callee[d])
  PROVE  \E m \in Node : AtOrBelow(m, prog.callee[d]) /\ x \in StmtsOf(prog, m)
<1>1. PICK m \in {prog.callee[d]} \cup ReachableFrom(TailCalls(prog), Node, prog.callee[d]) : x \in StmtsOf(prog, m)
  BY DEF ReturnsFrom
<1>2. m \in Node
  BY <1>1, ProgramProperties DEF ReachableFrom
<1>3. AtOrBelow(m, prog.callee[d])
  BY <1>1, TailCallsAreBelow DEF AtOrBelow
<1>4. QED
  BY <1>1, <1>2, <1>3

\* Control comes to n and what is below it only through the call of n.
LEMMA EnteredByCall ==
  ASSUME prog \in Programs, IsSimple(prog), NEW n \in Node, NEW x, NEW y,
         <<x, y>> \in InterproceduralFlow(prog), InBelow(y, n), ~InBelow(x, n)
  PROVE  x \in CallStmts(prog) /\ prog.callee[x] = n
<1>1. PICK k \in Node : AtOrBelow(k, n) /\ y \in StmtsOf(prog, k)
  BY DEF InBelow
<1>2. x \in Stmts(prog) /\ y \in Stmts(prog)
  BY FlowCases
<1>3. ASSUME NEW z \in Stmts(prog), y \in prog.next[z]
      PROVE  z \in StmtsOf(prog, k)
  <2>1. PICK m \in Node : z \in StmtsOf(prog, m)
    BY ProgramProperties
  <2>2. y \in StmtsOf(prog, m)
    BY <1>3, <2>1, ProgramProperties
  <2>3. m = k
    BY <1>1, <2>2, ProgramProperties
  <2>4. QED
    BY <2>1, <2>3
<1>4. CASE x \notin CallStmts(prog) /\ y \in prog.next[x]
  BY <1>1, <1>2, <1>3, <1>4 DEF InBelow
<1>5. CASE x \in CallStmts(prog) /\ y = Entry(prog, prog.callee[x])
  <2>1. prog.callee[x] \in Node /\ y \in StmtsOf(prog, prog.callee[x])
    BY <1>5, ProgramProperties
  <2>2. prog.callee[x] = k
    BY <1>1, <2>1, ProgramProperties
  <2>3. ~Above(n, prog.callee[x])
    BY <1>5, CalledFromBelow DEF InBelow
  <2>4. QED
    BY <1>1, <1>5, <2>2, <2>3 DEF AtOrBelow
<1>6. ASSUME NEW d \in CallStmts(prog), x \in ReturnsFrom(prog, prog.callee[d]), y \in prog.next[d]
      PROVE  FALSE
  <2>1. d \in StmtsOf(prog, k)
    BY <1>3, <1>6 DEF CallStmts
  <2>2. PICK m \in Node : AtOrBelow(m, prog.callee[d]) /\ x \in StmtsOf(prog, m)
    BY <1>6, ReturnsAreBelow
  <2>3. AtOrBelow(m, k)
    BY <2>1, <2>2, CalleesAreBelow DEF AtOrBelow
  <2>4. QED
    BY <1>1, <2>2, <2>3, BelowBelow DEF InBelow
<1>7. QED
  BY <1>4, <1>5, <1>6, FlowCases

\* The statements behind s in its procedure, and what is called by them or by s.
NextFrom(s) == ReachableFrom(NextEdges(prog), Stmts(prog), s)

Behind(s) ==
  {t \in Stmts(prog) : t \in NextFrom(s) \/ \E c \in CallStmts(prog) : c \in {s} \cup NextFrom(s) /\ InBelow(t, prog.callee[c])}

LEMMA NextStays ==
  ASSUME prog \in Programs, NEW n \in Node, NEW s \in StmtsOf(prog, n)
  PROVE  /\ NextFrom(s) \subseteq StmtsOf(prog, n)
         /\ \A t \in {s} \cup NextFrom(s) : prog.next[t] \subseteq NextFrom(s)
<1>1. /\ StmtsOf(prog, n) \subseteq Stmts(prog)
      /\ \A t \in StmtsOf(prog, n) : prog.next[t] \subseteq StmtsOf(prog, n)
  BY ProgramProperties
<1>2. ClosedFrom(NextEdges(prog), s, StmtsOf(prog, n)) /\ NextEdges(prog) \subseteq Stmts(prog) \X Stmts(prog)
  BY <1>1 DEF ClosedFrom, NextEdges
<1>3. NextFrom(s) \subseteq StmtsOf(prog, n)
  BY <1>1, <1>2 DEF NextFrom, ReachableFrom
<1>4. ASSUME NEW t \in {s} \cup NextFrom(s), NEW u \in prog.next[t]
      PROVE  u \in NextFrom(s)
  <2>1. t \in StmtsOf(prog, n)
    BY <1>3
  <2>2. u \in Stmts(prog) /\ t \in Stmts(prog)
    BY <1>1, <1>4, <2>1
  <2>3. <<t, u>> \in NextEdges(prog)
    BY <2>2 DEF NextEdges
  <2>4. QED
    BY <1>1, <1>2, <2>3, ReachableByLastEdge DEF NextFrom
<1>5. QED
  BY <1>3, <1>4

\* From s control stays behind s until it leaves the procedure.
LEMMA StaysBehind ==
  ASSUME prog \in Programs, IsSimple(prog), NEW n \in Node, NEW s \in StmtsOf(prog, n),
         NEW x \in {s} \cup Behind(s), NEW y, <<x, y>> \in InterproceduralFlow(prog), InBelow(y, n)
  PROVE  y \in Behind(s)
<1> DEFINE IsCallBehind(c) == c \in CallStmts(prog) /\ c \in {s} \cup NextFrom(s)
<1>1. x \in Stmts(prog) /\ y \in Stmts(prog)
  BY FlowCases
<1>2. /\ NextFrom(s) \subseteq StmtsOf(prog, n)
      /\ \A t \in {s} \cup NextFrom(s) : prog.next[t] \subseteq NextFrom(s)
  BY NextStays
<1>3. x \in {s} \cup NextFrom(s) \/ \E c : IsCallBehind(c) /\ InBelow(x, prog.callee[c])
  BY DEF Behind
<1>4. \A t \in Stmts(prog) : t \in Behind(s) <=> t \in NextFrom(s) \/ \E c : IsCallBehind(c) /\ InBelow(t, prog.callee[c])
  BY DEF Behind
<1>5. \A c : IsCallBehind(c) => c \in StmtsOf(prog, n) /\ prog.callee[c] \in Node
  BY <1>2, ProgramProperties
<1> HIDE DEF IsCallBehind
<1>6. CASE x \notin CallStmts(prog) /\ y \in prog.next[x]
  <2>1. CASE x \in {s} \cup NextFrom(s)
    BY <1>1, <1>2, <1>4, <1>6, <2>1
  <2>2. ASSUME NEW c, IsCallBehind(c), InBelow(x, prog.callee[c])
        PROVE  y \in Behind(s)
    <3>1. PICK k \in Node : AtOrBelow(k, prog.callee[c]) /\ x \in StmtsOf(prog, k)
      BY <2>2 DEF InBelow
    <3>2. y \in StmtsOf(prog, k)
      BY <1>6, <3>1, ProgramProperties
    <3>3. QED
      BY <1>1, <1>4, <2>2, <3>1, <3>2 DEF InBelow
  <2>3. QED
    BY <1>3, <2>1, <2>2
<1>7. CASE x \in CallStmts(prog) /\ y = Entry(prog, prog.callee[x])
  <2>1. prog.callee[x] \in Node /\ y \in StmtsOf(prog, prog.callee[x])
    BY <1>7, ProgramProperties
  <2>2. CASE x \in {s} \cup NextFrom(s)
    <3>1. IsCallBehind(x) /\ InBelow(y, prog.callee[x])
      BY <1>7, <2>1, <2>2 DEF InBelow, AtOrBelow, IsCallBehind
    <3>2. QED
      BY <1>1, <1>4, <3>1
  <2>3. ASSUME NEW c, IsCallBehind(c), InBelow(x, prog.callee[c])
        PROVE  y \in Behind(s)
    <3>1. PICK k \in Node : AtOrBelow(k, prog.callee[c]) /\ x \in StmtsOf(prog, k)
      BY <2>3 DEF InBelow
    <3>2. Above(k, prog.callee[x])
      BY <1>7, <3>1, CallerIsAbove
    <3>3. AtOrBelow(prog.callee[x], prog.callee[c])
      BY <3>1, <3>2, BelowBelow DEF AtOrBelow
    <3>4. QED
      BY <1>1, <1>4, <2>1, <2>3, <3>3 DEF InBelow
  <2>4. QED
    BY <1>3, <2>2, <2>3
<1>8. ASSUME NEW d \in CallStmts(prog), x \in ReturnsFrom(prog, prog.callee[d]), y \in prog.next[d]
      PROVE  y \in Behind(s)
  <2>1. PICK q \in Node : AtOrBelow(q, n) /\ y \in StmtsOf(prog, q)
    BY DEF InBelow
  <2>2. d \in StmtsOf(prog, q)
    <3>1. PICK k \in Node : d \in StmtsOf(prog, k)
      BY ProgramProperties DEF CallStmts
    <3>2. y \in StmtsOf(prog, k)
      BY <1>8, <3>1, ProgramProperties
    <3>3. k = q
      BY <2>1, <3>2, ProgramProperties
    <3>4. QED
      BY <3>1, <3>3
  <2>3. PICK m \in Node : AtOrBelow(m, prog.callee[d]) /\ x \in StmtsOf(prog, m)
    BY <1>8, ReturnsAreBelow
  <2>4. Above(q, m)
    BY <2>2, <2>3, CalleesAreBelow
  <2>5. Above(n, m)
    BY <2>1, <2>4, AboveTransitive DEF AtOrBelow
  <2>6. m # n /\ ~Above(n, n)
    BY <2>5, NotAboveItself
  <2>7. x \notin StmtsOf(prog, n)
    BY <2>3, <2>6, ProgramProperties
  <2>8. PICK c : IsCallBehind(c) /\ InBelow(x, prog.callee[c])
    BY <1>2, <1>3, <2>7
  <2>9. c \in CallStmts(prog) /\ c \in StmtsOf(prog, n) /\ prog.callee[c] \in Node
    BY <1>5, <2>8 DEF IsCallBehind
  <2>10. AtOrBelow(m, prog.callee[c])
    <3>1. PICK k \in Node : AtOrBelow(k, prog.callee[c]) /\ x \in StmtsOf(prog, k)
      BY <2>8 DEF InBelow
    <3>2. k = m
      BY <2>3, <3>1, ProgramProperties
    <3>3. QED
      BY <3>1, <3>2
  <2>11. Above(n, prog.callee[c])
    BY <2>9, CallerIsAbove
  <2>12. ASSUME NEW a \in Node, NEW b \in Node, AtOrBelow(m, a), AtOrBelow(m, b)
         PROVE  a = b \/ Above(b, a) \/ Above(a, b)
    <3>1. \A u, v, w : <<u, w>> \in Calls(prog) /\ <<v, w>> \in Calls(prog) => u = v
      BY OneCaller
    <3>2. m \in {a} \cup ReachableFrom(Calls(prog), Node, a) /\ m \in {b} \cup ReachableFrom(Calls(prog), Node, b)
      BY <2>12 DEF AtOrBelow, Above
    <3>3. a = b \/ a \in ReachableFrom(Calls(prog), Node, b) \/ b \in ReachableFrom(Calls(prog), Node, a)
      BY <3>1, <3>2, CallsAreOfNodes, OneLeadsToTheOther
    <3>4. QED
      BY <3>3 DEF Above
  <2>13. CASE q = n
    <3>1. prog.callee[d] \in Node
      BY ProgramProperties
    <3>2. ASSUME NEW a \in CallStmts(prog), NEW b \in CallStmts(prog), a \in StmtsOf(prog, n), b \in StmtsOf(prog, n),
                 Above(prog.callee[a], prog.callee[b])
          PROVE  FALSE
      <4>1. prog.callee[a] \in Node
        BY ProgramProperties
      <4>2. PICK k \in Node : AtOrBelow(k, prog.callee[a]) /\ b \in StmtsOf(prog, k)
        BY <3>2, <4>1, CalledFromBelow
      <4>3. k = n
        BY <3>2, <4>2, ProgramProperties
      <4>4. Above(n, n)
        BY <3>2, <4>2, <4>3, CalleesAreBelow
      <4>5. QED
        BY <4>4, NotAboveItself
    <3>3. prog.callee[c] = prog.callee[d]
      BY <2>2, <2>3, <2>9, <2>10, <2>12, <2>13, <3>1, <3>2
    <3>4. c = d
      BY <2>9, <3>3 DEF IsSimple
    <3>5. QED
      BY <1>1, <1>2, <1>4, <1>8, <2>8, <3>4 DEF IsCallBehind
  <2>14. CASE q # n
    <3>1. Above(n, q)
      BY <2>1, <2>14 DEF AtOrBelow
    <3>2. AtOrBelow(m, q)
      BY <2>4 DEF AtOrBelow
    <3>3. ~Above(q, prog.callee[c])
      <4> SUFFICES ASSUME Above(q, prog.callee[c])
                   PROVE  FALSE
        OBVIOUS
      <4>1. PICK k \in Node : AtOrBelow(k, q) /\ c \in StmtsOf(prog, k)
        BY <2>9, CalledFromBelow
      <4>2. k = n
        BY <2>9, <4>1, ProgramProperties
      <4>3. Above(n, n)
        BY <3>1, <4>1, <4>2, AboveTransitive DEF AtOrBelow
      <4>4. QED
        BY <4>3, NotAboveItself
    <3>4. AtOrBelow(q, prog.callee[c])
      BY <2>9, <2>10, <2>12, <3>2, <3>3 DEF AtOrBelow
    <3>5. QED
      BY <1>1, <1>4, <2>1, <2>8, <3>4 DEF InBelow
  <2>15. QED
    BY <2>13, <2>14
<1>9. QED
  BY <1>6, <1>7, <1>8, FlowCases

(***************************************************************************)
(* A statement that is executed once when nothing returns to it is met once *)
(* on any way: around it there would be a way around the call above it.    *)
(***************************************************************************)
\* What is executed once when nothing returns to it: a call, and what is in a
\* procedure that is called.
IsOnce(s) == s \in CallStmts(prog) \/ \E c \in CallStmts(prog) : s \in StmtsOf(prog, prog.callee[c])

FlowReach(s) == ReachableFrom(InterproceduralFlow(prog), Stmts(prog), s)

LEMMA FlowIsOfStmts == ASSUME prog \in Programs PROVE InterproceduralFlow(prog) \subseteq Stmts(prog) \X Stmts(prog)
<1>1. \A e \in InterproceduralFlow(prog) : e = <<e[1], e[2]>>
  BY DEF InterproceduralFlow, NextEdges
<1>2. QED
  BY <1>1, FlowCases

LEMMA FlowReachGrows ==
  ASSUME prog \in Programs, NEW s \in Stmts(prog), NEW x \in {s} \cup FlowReach(s), NEW y,
         <<x, y>> \in InterproceduralFlow(prog)
  PROVE  y \in FlowReach(s)
BY FlowIsOfStmts, ReachableByLastEdge DEF FlowReach

LEMMA NotBehindItself ==
  ASSUME prog \in Programs, IsSimple(prog), NEW s \in Stmts(prog), IsOnce(s)
  PROVE  s \notin Behind(s)
<1>1. s \notin NextFrom(s)
  BY DEF IsSimple, IsOnce, NextFrom
<1>2. PICK n \in Node : s \in StmtsOf(prog, n)
  BY ProgramProperties
<1>3. ASSUME NEW c \in CallStmts(prog), c \in {s} \cup NextFrom(s), InBelow(s, prog.callee[c])
      PROVE  FALSE
  <2>1. c \in StmtsOf(prog, n)
    BY <1>2, <1>3, NextStays
  <2>2. PICK k \in Node : AtOrBelow(k, prog.callee[c]) /\ s \in StmtsOf(prog, k)
    BY <1>3 DEF InBelow
  <2>3. k = n
    BY <1>2, <2>2, ProgramProperties
  <2>4. QED
    BY <2>1, <2>2, <2>3, CalleesAreBelow, NotAboveItself
<1>4. QED
  BY <1>1, <1>3 DEF Behind

\* A statement that comes again is in a procedure whose call comes again.
LEMMA AgainThroughCall ==
  ASSUME prog \in Programs, IsSimple(prog), NEW n \in Node, NEW s \in StmtsOf(prog, n), IsOnce(s), s \in FlowReach(s)
  PROVE  \E d \in CallStmts(prog) : prog.callee[d] = n /\ d \in FlowReach(d)
<1> DEFINE E == InterproceduralFlow(prog)
           S == {t \in FlowReach(s) : t \in Behind(s) \/ s \notin FlowReach(t)}
<1>1. s \in Stmts(prog) /\ E \subseteq Stmts(prog) \X Stmts(prog)
  BY ProgramProperties, FlowIsOfStmts
<1>2. \A t : FlowReach(t) \subseteq Stmts(prog)
  BY DEF FlowReach, ReachableFrom
<1>3. InBelow(s, n)
  BY DEF InBelow, AtOrBelow
<1>4. ASSUME ~ClosedFrom(E, s, S)
      PROVE  \E d \in CallStmts(prog) : prog.callee[d] = n /\ d \in FlowReach(d)
  <2>1. PICK e \in E : (e[1] = s \/ e[1] \in S) /\ e[2] \notin S
    BY <1>4 DEF ClosedFrom
  <2> DEFINE x == e[1]  y == e[2]
  <2>2. <<x, y>> \in E /\ x \in Stmts(prog) /\ y \in Stmts(prog)
    BY <1>1
  <2>3. x \in {s} \cup FlowReach(s) /\ (x = s \/ x \in Behind(s) \/ s \notin FlowReach(x))
    BY <2>1
  <2> HIDE DEF x, y
  <2>4. y \in FlowReach(s)
    BY <1>1, <2>2, <2>3, FlowReachGrows
  <2>5. y \notin Behind(s) /\ s \in FlowReach(y)
    BY <2>1, <2>4 DEF y
  <2>6. s \in FlowReach(x)
    <3>1. y \in FlowReach(x)
      BY <2>2, FlowReachGrows
    <3>2. QED
      BY <2>5, <3>1, ReachableIsTransitive DEF FlowReach
  <2>7. x \in {s} \cup Behind(s)
    BY <2>3, <2>6
  <2>8. ~InBelow(y, n)
    BY <2>2, <2>5, <2>7, StaysBehind
  <2> DEFINE T == {t \in FlowReach(y) : ~InBelow(t, n) \/ \E d \in CallStmts(prog) :
                                           prog.callee[d] = n /\ d \in {y} \cup FlowReach(y) /\ t \in FlowReach(d)}
  <2>9. ClosedFrom(E, y, T)
    <3> SUFFICES ASSUME NEW g \in E, g[1] = y \/ g[1] \in T
                 PROVE  g[2] \in T
      BY DEF ClosedFrom
    <3> DEFINE u == g[1]  v == g[2]
    <3>1. <<u, v>> \in E /\ u \in Stmts(prog)
      BY <1>1
    <3>2. u \in {y} \cup FlowReach(y)
      OBVIOUS
    <3>3. ~InBelow(u, n) \/ \E d \in CallStmts(prog) :
                              prog.callee[d] = n /\ d \in {y} \cup FlowReach(y) /\ u \in FlowReach(d)
      BY <2>8
    <3> HIDE DEF u, v
    <3>4. v \in FlowReach(y)
      BY <2>2, <3>1, <3>2, FlowReachGrows
    <3>5. CASE InBelow(v, n) /\ ~InBelow(u, n)
      <4>1. u \in CallStmts(prog) /\ prog.callee[u] = n
        BY <3>1, <3>5, EnteredByCall
      <4>2. v \in FlowReach(u)
        BY <3>1, FlowReachGrows
      <4>3. QED
        BY <3>2, <3>4, <4>1, <4>2 DEF v
    <3>6. ASSUME NEW d \in CallStmts(prog), prog.callee[d] = n, d \in {y} \cup FlowReach(y), u \in FlowReach(d)
          PROVE  v \in T
      <4>1. d \in Stmts(prog)
        BY DEF CallStmts
      <4>2. v \in FlowReach(d)
        BY <3>1, <3>6, <4>1, FlowReachGrows
      <4>3. QED
        BY <3>4, <3>6, <4>2
    <3>7. QED
      BY <3>3, <3>4, <3>5, <3>6 DEF v
  <2>10. s \in T
    <3>1. T \in SUBSET Stmts(prog)
      BY <1>2
    <3> HIDE DEF T, E
    <3>2. QED
      BY <2>5, <2>9, <3>1 DEF FlowReach, ReachableFrom, E
  <2>11. PICK d \in CallStmts(prog) : prog.callee[d] = n /\ d \in {y} \cup FlowReach(y) /\ s \in FlowReach(d)
    BY <1>3, <2>10
  <2>12. d \in FlowReach(s)
    BY <2>4, <2>11, ReachableIsTransitive DEF FlowReach
  <2>13. d \in FlowReach(d)
    BY <2>11, <2>12, ReachableIsTransitive DEF FlowReach
  <2>14. QED
    BY <2>11, <2>13
<1>5. ASSUME ClosedFrom(E, s, S)
      PROVE  FALSE
  <2>1. S \in SUBSET Stmts(prog)
    BY <1>2
  <2> HIDE DEF S, E
  <2>2. s \in S
    BY <1>5, <2>1 DEF FlowReach, ReachableFrom, E
  <2>3. s \in Behind(s)
    BY <2>2 DEF S
  <2>4. QED
    BY <1>1, <2>3, NotBehindItself
<1>6. QED
  BY <1>4, <1>5

\* The more procedures are below one, the less are not.
LEMMA MoreAreBelow ==
  ASSUME prog \in Programs, NEW m \in Node, NEW n \in Node, Above(m, n)
  PROVE  LET Size(k) == Cardinality(Node) - Cardinality(ReachableFrom(Calls(prog), Node, k))
         IN  Size(m) \in Nat /\ Size(n) \in Nat /\ Size(m) < Size(n)
<1> DEFINE R(k) == ReachableFrom(Calls(prog), Node, k)
<1>1. n \notin R(n) /\ n \in R(m) /\ R(n) \subseteq R(m) /\ \A k : R(k) \subseteq Node
  <2>1. n \notin R(n) /\ n \in R(m)
    BY NotAboveItself DEF Above
  <2>2. R(n) \subseteq R(m)
    BY <2>1, ReachableIsTransitive
  <2>3. \A k : R(k) \subseteq Node
    BY DEF ReachableFrom
  <2>4. QED
    BY <2>1, <2>2, <2>3
<1> HIDE DEF R
<1>2. IsFiniteSet(R(m)) /\ IsFiniteSet(R(n)) /\ Cardinality(Node) \in Nat
  BY <1>1, NodeAssumption, FS_Subset, FS_CardinalityType
<1>3. /\ Cardinality(R(m)) \in Nat /\ Cardinality(R(n)) \in Nat
      /\ Cardinality(R(m)) <= Cardinality(Node) /\ Cardinality(R(n)) <= Cardinality(Node)
      /\ Cardinality(R(n)) <= Cardinality(R(m)) /\ Cardinality(R(n)) # Cardinality(R(m))
  <2>1. R(n) \in SUBSET R(m) /\ R(n) # R(m) /\ R(n) \in SUBSET Node /\ R(m) \in SUBSET Node
    BY <1>1
  <2>2. QED
    BY <1>2, <2>1, NodeAssumption, FS_Subset, FS_CardinalityType
<1>4. QED
  BY <1>2, <1>3 DEF R

\* Control does not come back to what a simple program executes once.
LEMMA NotAgain ==
  ASSUME prog \in Programs, IsSimple(prog), NEW s \in Stmts(prog), IsOnce(s)
  PROVE  s \notin FlowReach(s)
<1> DEFINE Size(k) == Cardinality(Node) - Cardinality(ReachableFrom(Calls(prog), Node, k))
           Bad == {n \in Node : \E t \in StmtsOf(prog, n) : IsOnce(t) /\ t \in FlowReach(t)}
           Sizes == {Size(n) : n \in Bad}
<1>1. ASSUME NEW n \in Bad
      PROVE  \E m \in Bad : Size(m) \in Nat /\ Size(n) \in Nat /\ Size(m) < Size(n)
  <2>1. PICK t \in StmtsOf(prog, n) : IsOnce(t) /\ t \in FlowReach(t)
    OBVIOUS
  <2>2. PICK d \in CallStmts(prog) : prog.callee[d] = n /\ d \in FlowReach(d)
    BY <2>1, AgainThroughCall
  <2>3. PICK m \in Node : d \in StmtsOf(prog, m)
    BY ProgramProperties DEF CallStmts
  <2>4. Above(m, n)
    BY <2>2, <2>3, CallerIsAbove
  <2>5. m \in Bad
    BY <2>2, <2>3 DEF IsOnce
  <2>6. QED
    BY <2>4, <2>5, MoreAreBelow
<1> HIDE DEF Size, Bad
<1>2. Sizes \subseteq Nat
  BY <1>1
<1>3. Bad = {}
  <2> SUFFICES ASSUME Bad # {}
               PROVE  FALSE
    OBVIOUS
  <2>1. Sizes \in SUBSET Nat /\ Sizes # {}
    BY <1>2
  <2>2. PICK i \in Sizes : \A j \in Sizes : i <= j
    <3> HIDE DEF Sizes
    <3>1. QED
      BY <2>1, LeastElement
  <2>3. PICK n \in Bad : i = Size(n)
    OBVIOUS
  <2>4. PICK m \in Bad : Size(m) \in Nat /\ Size(n) \in Nat /\ Size(m) < Size(n)
    BY <1>1
  <2>5. QED
    BY <2>2, <2>3, <2>4
<1>4. PICK n \in Node : s \in StmtsOf(prog, n)
  BY ProgramProperties
<1>5. QED
  BY <1>3, <1>4 DEF Bad

(***************************************************************************)
(* Stacks that executions make: each return point is behind a call whose   *)
(* callee ends with the procedure below.                                   *)
(***************************************************************************)
EndsWith(d, k) == k = prog.callee[d] \/ k \in ReachableFrom(TailCalls(prog), Node, prog.callee[d])

Proper(s, stack) ==
  \E in \in [0..Len(stack) -> Node] :
    /\ s \in StmtsOf(prog, in[0])
    /\ \A i \in 1..Len(stack) :
         \E d \in CallStmts(prog) : d \in StmtsOf(prog, in[i]) /\ stack[i] \in prog.next[d] /\ EndsWith(d, in[i - 1])

LEMMA EmptyIsProper ==
  ASSUME prog \in Programs, NEW s \in Stmts(prog)
  PROVE  Proper(s, <<>>)
<1>1. PICK m \in Node : s \in StmtsOf(prog, m)
  BY ProgramProperties
<1> DEFINE g == [i \in 0..0 |-> m]
<1>2. g \in [0..0 -> Node] /\ g[0] = m /\ Len(<<>>) = 0
  OBVIOUS
<1>3. \A i \in 1..0 : FALSE
  OBVIOUS
<1> HIDE DEF g
<1>4. QED
  BY <1>1, <1>2, <1>3 DEF Proper

LEMMA ReturnIsToCaller ==
  ASSUME prog \in Programs, NEW s \in Stmts(prog), NEW stack \in Seq(Stmts(prog)), Proper(s, stack),
         IsReturn(prog, s), stack # <<>>
  PROVE  \E d \in CallStmts(prog) : s \in ReturnsFrom(prog, prog.callee[d]) /\ Head(stack) \in prog.next[d]
<1>1. PICK in \in [0..Len(stack) -> Node] :
        /\ s \in StmtsOf(prog, in[0])
        /\ \A i \in 1..Len(stack) :
             \E d \in CallStmts(prog) : d \in StmtsOf(prog, in[i]) /\ stack[i] \in prog.next[d] /\ EndsWith(d, in[i - 1])
  BY DEF Proper
<1>2. 1 \in 1..Len(stack) /\ Head(stack) = stack[1] /\ 1 - 1 = 0
  OBVIOUS
<1>3. PICK d \in CallStmts(prog) : stack[1] \in prog.next[d] /\ EndsWith(d, in[0])
  BY <1>1, <1>2
<1>4. s \in ReturnsFrom(prog, prog.callee[d])
  BY <1>1, <1>3 DEF ReturnsFrom, EndsWith
<1>5. QED
  BY <1>2, <1>3, <1>4

\* A step of an execution follows an edge of the flow between procedures.
LEMMA StepsAreFlow ==
  ASSUME prog \in Programs, NEW s \in Stmts(prog), NEW stack \in Seq(Stmts(prog)), Proper(s, stack),
         NEW c \in Steps(prog, s, stack)
  PROVE  <<s, c[1]>> \in InterproceduralFlow(prog)
<1>1. c[1] \in Stmts(prog)
  BY StepsAreConfigs DEF Configs
<1>2. CASE s \in CallStmts(prog)
  <2>1. PICK ret \in IF prog.next[s] = {} THEN {<<>>} ELSE {<<t>> : t \in prog.next[s]} :
          c = <<Entry(prog, prog.callee[s]), ret \o stack>>
    BY <1>2 DEF Steps
  <2>2. c[1] = Entry(prog, prog.callee[s])
    BY <2>1
  <2>3. QED
    BY <1>1, <1>2, <2>2, FlowCases
<1>3. CASE s \notin CallStmts(prog) /\ c \in prog.next[s] \X {stack}
  <2>1. c[1] \in prog.next[s]
    BY <1>3
  <2>2. QED
    BY <1>1, <1>3, <2>1, FlowCases
<1>4. CASE s \notin CallStmts(prog) /\ c \notin prog.next[s] \X {stack}
  <2>1. /\ IsReturn(prog, s)
        /\ c \in IF stack # <<>> THEN {<<Head(stack), Tail(stack)>>}
                 ELSE (UNION {prog.next[d] : d \in {e \in CallStmts(prog) : s \in ReturnsFrom(prog, prog.callee[e])}}) \X {<<>>}
    BY <1>4 DEF Steps
  <2>2. \E d \in CallStmts(prog) : s \in ReturnsFrom(prog, prog.callee[d]) /\ c[1] \in prog.next[d]
    <3>1. CASE stack # <<>>
      <4>1. c[1] = Head(stack)
        BY <2>1, <3>1
      <4>2. QED
        BY <2>1, <3>1, <4>1, ReturnIsToCaller
    <3>2. CASE stack = <<>>
      <4>1. c[1] \in UNION {prog.next[d] : d \in {e \in CallStmts(prog) : s \in ReturnsFrom(prog, prog.callee[e])}}
        BY <2>1, <3>2
      <4>2. QED
        BY <4>1
    <3>3. QED
      BY <3>1, <3>2
  <2>3. QED
    BY <1>1, <2>2, FlowCases
<1>5. QED
  BY <1>2, <1>3, <1>4

\* The stacks of executions stay proper.
LEMMA StepsStayProper ==
  ASSUME prog \in Programs, NEW s \in Stmts(prog), NEW stack \in Seq(Stmts(prog)), Proper(s, stack),
         NEW c \in Steps(prog, s, stack)
  PROVE  Proper(c[1], c[2])
<1> DEFINE n == Len(stack)
           Fits(k, t, j) == \E d \in CallStmts(prog) : d \in StmtsOf(prog, j) /\ t \in prog.next[d] /\ EndsWith(d, k)
<1>0. \A t, st : Proper(t, st) <=>
        \E in \in [0..Len(st) -> Node] :
          t \in StmtsOf(prog, in[0]) /\ \A i \in 1..Len(st) : Fits(in[i - 1], st[i], in[i])
  BY DEF Proper
<1> HIDE DEF Fits
<1>1. PICK in \in [0..n -> Node] :
        s \in StmtsOf(prog, in[0]) /\ \A i \in 1..n : Fits(in[i - 1], stack[i], in[i])
  BY <1>0
<1>2. n \in Nat
  OBVIOUS
<1>3. in[0] \in Node /\ prog.next[s] \subseteq StmtsOf(prog, in[0])
  BY <1>1, <1>2, ProgramProperties
<1>4. CASE s \in CallStmts(prog)
  <2> DEFINE callee == prog.callee[s]
  <2>1. PICK ret \in IF prog.next[s] = {} THEN {<<>>} ELSE {<<t>> : t \in prog.next[s]} :
          c = <<Entry(prog, callee), ret \o stack>>
    BY <1>4 DEF Steps
  <2>2. callee \in Node /\ Entry(prog, callee) \in StmtsOf(prog, callee)
    BY <1>4, ProgramProperties
  <2>3. CASE prog.next[s] = {}
    <3> DEFINE g == [i \in 0..n |-> IF i = 0 THEN callee ELSE in[i]]
    <3>1. ret \o stack = stack
      <4>1. ret = <<>>
        BY <2>1, <2>3
      <4>2. QED
        BY <4>1
    <3>2. g \in [0..n -> Node] /\ g[0] = callee /\ \A i \in 1..n : g[i] = in[i]
      BY <1>2, <2>2
    <3> HIDE DEF g
    <3>3. ASSUME NEW t, NEW j, Fits(in[0], t, j)
          PROVE  Fits(callee, t, j)
      <4>1. PICK d \in CallStmts(prog) : d \in StmtsOf(prog, j) /\ t \in prog.next[d] /\ EndsWith(d, in[0])
        BY <3>3 DEF Fits
      <4>2. <<in[0], callee>> \in TailCalls(prog)
        BY <1>1, <1>3, <1>4, <2>2, <2>3 DEF TailCalls
      <4>3. prog.callee[d] \in Node
        BY ProgramProperties
      <4>4. callee \in ReachableFrom(TailCalls(prog), Node, prog.callee[d])
        <5> HIDE DEF callee
        <5>1. in[0] \in {prog.callee[d]} \cup ReachableFrom(TailCalls(prog), Node, prog.callee[d])
          BY <4>1 DEF EndsWith
        <5>2. QED
          BY <4>2, <4>3, <5>1, CallsAreOfNodes, ReachableByLastEdge
      <4>5. QED
        BY <4>1, <4>4 DEF EndsWith, Fits
    <3>4. \A i \in 1..n : Fits(g[i - 1], stack[i], g[i])
      <4> TAKE i \in 1..n
      <4>1. Fits(in[i - 1], stack[i], in[i]) /\ g[i] = in[i]
        BY <1>1, <3>2
      <4>2. CASE i = 1
        BY <3>2, <3>3, <4>1, <4>2
      <4>3. CASE i # 1
        <5>1. i - 1 \in 1..n
          BY <1>2, <4>3
        <5>2. QED
          BY <3>2, <4>1, <5>1
      <4>4. QED
        BY <4>2, <4>3
    <3>5. Proper(Entry(prog, callee), stack)
      BY <1>0, <2>2, <3>2, <3>4
    <3>6. QED
      BY <2>1, <3>1, <3>5
  <2>4. CASE prog.next[s] # {}
    <3>1. PICK t \in prog.next[s] : ret = <<t>>
      BY <2>1, <2>4
    <3> DEFINE st == <<t>> \o stack
               g == [i \in 0..(n + 1) |-> IF i = 0 THEN callee ELSE in[i - 1]]
    <3>2. t \in Stmts(prog)
      BY <3>1, ProgramProperties
    <3>3. Len(st) = n + 1 /\ st[1] = t /\ \A i \in 2..(n + 1) : st[i] = stack[i - 1]
      BY <3>2
    <3>4. g \in [0..(n + 1) -> Node] /\ g[0] = callee /\ \A i \in 1..(n + 1) : g[i] = in[i - 1]
      BY <1>2, <2>2
    <3>5. Fits(callee, t, in[0])
      BY <1>1, <1>4, <3>1 DEF Fits, EndsWith
    <3> HIDE DEF g, st
    <3>6. \A i \in 1..(n + 1) : Fits(g[i - 1], st[i], g[i])
      <4> TAKE i \in 1..(n + 1)
      <4>1. CASE i = 1
        BY <1>2, <3>3, <3>4, <3>5, <4>1
      <4>2. CASE i # 1
        <5>1. i \in 2..(n + 1) /\ i - 1 \in 1..n /\ i - 1 \in 1..(n + 1)
          BY <1>2, <4>2
        <5>2. g[i - 1] = in[(i - 1) - 1] /\ g[i] = in[i - 1] /\ st[i] = stack[i - 1]
          BY <3>3, <3>4, <5>1
        <5>3. Fits(in[(i - 1) - 1], stack[i - 1], in[i - 1])
          BY <1>1, <5>1
        <5>4. QED
          BY <5>2, <5>3
      <4>3. QED
        BY <4>1, <4>2
    <3>7. Proper(Entry(prog, callee), st)
      BY <1>0, <2>2, <3>3, <3>4, <3>6
    <3>8. QED
      BY <2>1, <3>1, <3>7 DEF st
  <2>5. QED
    BY <2>3, <2>4
<1>5. CASE s \notin CallStmts(prog) /\ c \in prog.next[s] \X {stack}
  <2>1. c[1] \in StmtsOf(prog, in[0]) /\ c[2] = stack
    BY <1>3, <1>5
  <2>2. QED
    BY <1>0, <1>1, <2>1
<1>6. CASE s \notin CallStmts(prog) /\ stack # <<>> /\ c = <<Head(stack), Tail(stack)>>
  <2> DEFINE g == [i \in 0..(n - 1) |-> in[i + 1]]
  <2>1. n # 0 /\ Head(stack) = stack[1] /\ Len(Tail(stack)) = n - 1
        /\ \A i \in 1..(n - 1) : Tail(stack)[i] = stack[i + 1]
    BY <1>6
  <2>2. g \in [0..(n - 1) -> Node] /\ \A i \in 0..(n - 1) : g[i] = in[i + 1]
    BY <1>2
  <2> HIDE DEF g
  <2>3. Head(stack) \in StmtsOf(prog, g[0])
    <3>1. Fits(in[1 - 1], stack[1], in[1]) /\ in[1] \in Node
      BY <1>1, <1>2, <2>1
    <3>2. PICK d \in CallStmts(prog) : d \in StmtsOf(prog, in[1]) /\ stack[1] \in prog.next[d]
      BY <3>1 DEF Fits
    <3>3. stack[1] \in StmtsOf(prog, in[1])
      BY <3>1, <3>2, ProgramProperties
    <3>4. QED
      BY <1>2, <2>1, <2>2, <3>3
  <2>4. \A i \in 1..(n - 1) : Fits(g[i - 1], Tail(stack)[i], g[i])
    <3> TAKE i \in 1..(n - 1)
    <3>1. i + 1 \in 1..n /\ i - 1 \in 0..(n - 1) /\ i \in 0..(n - 1) /\ (i + 1) - 1 = i /\ (i - 1) + 1 = i
      BY <1>2
    <3>2. g[i - 1] = in[i] /\ g[i] = in[i + 1]
      BY <2>2, <3>1
    <3>3. Fits(in[i], stack[i + 1], in[i + 1])
      BY <1>1, <3>1
    <3>4. QED
      BY <2>1, <3>2, <3>3
  <2>5. Proper(Head(stack), Tail(stack))
    BY <1>0, <2>1, <2>2, <2>3, <2>4
  <2>6. QED
    BY <1>6, <2>5
<1>7. CASE s \notin CallStmts(prog) /\ stack = <<>> /\ c[1] \in Stmts(prog) /\ c[2] = <<>>
  BY <1>7, EmptyIsProper
<1>8. QED
  <2>1. c \in Configs
    BY StepsAreConfigs
  <2>2. CASE s \notin CallStmts(prog) /\ c \notin prog.next[s] \X {stack}
    <3>1. c \in IF stack # <<>> THEN {<<Head(stack), Tail(stack)>>}
                ELSE (UNION {prog.next[d] : d \in {e \in CallStmts(prog) : s \in ReturnsFrom(prog, prog.callee[e])}}) \X {<<>>}
      BY <2>2 DEF Steps
    <3>2. QED
      BY <1>6, <1>7, <2>1, <2>2, <3>1 DEF Configs
  <2>3. QED
    BY <1>4, <1>5, <2>2

\* In a simple program the search goes on to wherever control may go.
LEMMA FlowIsContinued ==
  ASSUME ConstructInv, Constructed, IsSimple(prog), NEW s \in Stmts(prog), NEW stack \in Seq(Stmts(prog)),
         Proper(s, stack), NEW y, <<s, y>> \in InterproceduralFlow(prog)
  PROVE  \E c \in Continuations(s, stack) : c.to = y
<1>1. prog \in Programs /\ cfgbip = InterproceduralFlow(prog)
  BY InvImpliesFlow DEF CfgBipIsFlow, ConstructInv
<1>2. s \notin CallStmts(prog) => (IsExitStmt(prog, s) <=> IsReturn(prog, s))
  BY <1>1, ExitIsReturn
<1>3. CASE s \in CallStmts(prog)
  <2>1. y = Entry(prog, prog.callee[s])
    BY <1>1, <1>3, FlowCases DEF ReturnsFrom, IsReturn
  <2>2. QED
    BY <1>3, <2>1 DEF Continuations
<1>4. CASE s \notin CallStmts(prog) /\ IsExitStmt(prog, s) /\ stack # <<>>
  <2>1. PICK d \in CallStmts(prog) : s \in ReturnsFrom(prog, prog.callee[d]) /\ Head(stack) \in prog.next[d]
    BY <1>1, <1>2, <1>4, ReturnIsToCaller
  <2>2. y \in prog.next[s] \/ y = Head(stack)
    <3>1. ASSUME NEW e \in CallStmts(prog), s \in ReturnsFrom(prog, prog.callee[e]), y \in prog.next[e]
          PROVE  y = Head(stack)
      <4>1. e = d
        BY <1>1, <2>1, <3>1, OneReturnPoint
      <4>2. QED
        BY <1>1, <2>1, <3>1, <4>1, CallLeadsToOne
    <3>2. QED
      BY <1>1, <1>4, <3>1, FlowCases
  <2>3. Continuations(s, stack) = {[to |-> Head(stack), stack |-> Tail(stack)]}
                                  \cup {[to |-> n, stack |-> stack] : n \in prog.next[s]}
    BY <1>4 DEF Continuations
  <2>4. CASE y \in prog.next[s]
    <3>1. [to |-> y, stack |-> stack] \in Continuations(s, stack)
      BY <2>3, <2>4
    <3>2. [to |-> y, stack |-> stack].to = y
      OBVIOUS
    <3>3. QED
      BY <3>1, <3>2
  <2>5. CASE y = Head(stack)
    <3>1. [to |-> y, stack |-> Tail(stack)] \in Continuations(s, stack)
      BY <2>3, <2>5
    <3>2. [to |-> y, stack |-> Tail(stack)].to = y
      OBVIOUS
    <3>3. QED
      BY <3>1, <3>2
  <2>6. QED
    BY <2>2, <2>4, <2>5
<1>5. CASE s \notin CallStmts(prog) /\ ~(IsExitStmt(prog, s) /\ stack # <<>>)
  <2>1. Continuations(s, stack) = {[to |-> n, stack |-> stack] : n \in Successors(cfgbip, s)}
    BY <1>5 DEF Continuations
  <2>2. y \in Successors(cfgbip, s)
    BY <1>1 DEF Successors
  <2>3. [to |-> y, stack |-> stack] \in Continuations(s, stack)
    BY <2>1, <2>2
  <2>4. [to |-> y, stack |-> stack].to = y
    OBVIOUS
  <2>5. QED
    BY <2>3, <2>4
<1>6. QED
  BY <1>3, <1>4, <1>5

(***************************************************************************)
(* The rest of the inductive invariant, for simple programs.  A PCB came   *)
(* along a way on which no statement is met twice but the start, so it is  *)
(* out of hops only when it has no visit left; and what control may reach  *)
(* from what was reached is met, or waits on the stack.                    *)
(***************************************************************************)
Met(t) == t \in reachable /\ (t = from => times_from_seen >= 2)

IsWay(w, k) ==
  /\ w[0] = from
  /\ \A i \in 0..(k - 1) : w[i] \in reachable /\ <<w[i], w[i + 1]>> \in InterproceduralFlow(prog)
  /\ \A i, j \in 1..(k - 1) : w[i] = w[j] => i = j
  /\ (\E i \in 1..(k - 1) : w[i] = from) => times_from_seen >= 2

Came(pcb) ==
  LET k == NumHops(prog) - pcb.hops_left
  IN  \E w \in [0..k -> Stmts(prog)] : IsWay(w, k) /\ w[k] = pcb.cur_sn

VisitsInv ==
  /\ \A s \in Stmts(prog) : s \notin reachable /\ s # from => visits_left[s] >= 1
  /\ visits_left[from] + times_from_seen >= 2
  /\ \A s \in Stmts(prog) : ~IsOnce(s) =>
       visits_left[s] <= IF s = from THEN 2 - times_from_seen ELSE IF s \in reachable THEN 0 ELSE 1

Waits(t) == \E i \in 1..Len(pcbs) : pcbs[i].cur_sn = t

CompleteInv ==
  /\ \A i \in 1..Len(pcbs) : Proper(pcbs[i].cur_sn, pcbs[i].return_to) /\ Came(pcbs[i])
  /\ times_from_seen = 0 => pcbs # <<>> /\ reachable = {}
  /\ VisitsInv
  /\ \A s \in reachable : \A t : <<s, t>> \in InterproceduralFlow(prog) => Met(t) \/ Waits(t)

SimpleSearchInv == SearchInv /\ (from # 0 /\ IsSimple(prog) => CompleteInv)

\* What is later on a way is reached from what is earlier.
LEMMA WayLeads ==
  ASSUME prog \in Programs, NEW k \in Nat, NEW w \in [0..k -> Stmts(prog)],
         \A i \in 0..(k - 1) : <<w[i], w[i + 1]>> \in InterproceduralFlow(prog),
         NEW i \in 0..k, NEW j \in 0..k, i < j
  PROVE  w[j] \in FlowReach(w[i])
<1> DEFINE Bad == {m \in Nat : i < m /\ m <= k /\ w[m] \notin FlowReach(w[i])}
<1>1. ASSUME Bad # {}
      PROVE  FALSE
  <2>1. PICK m \in Bad : \A n \in Bad : m <= n
    <3>1. Bad \in SUBSET Nat
      OBVIOUS
    <3> HIDE DEF Bad
    <3>2. QED
      BY <1>1, <3>1, LeastElement
  <2>2. m \in Nat /\ i < m /\ m <= k /\ w[m] \notin FlowReach(w[i])
    OBVIOUS
  <2>3. m - 1 \in 0..(k - 1) /\ (m - 1) + 1 = m /\ m - 1 \in Nat /\ m - 1 \in 0..k
    BY <2>2
  <2>4. <<w[m - 1], w[m]>> \in InterproceduralFlow(prog)
    BY <2>3
  <2>5. w[m - 1] \in {w[i]} \cup FlowReach(w[i])
    <3>1. CASE m - 1 = i
      BY <3>1
    <3>2. CASE m - 1 # i
      <4>1. m - 1 \notin Bad
        BY <2>1, <2>2
      <4>2. QED
        BY <2>2, <2>3, <3>2, <4>1
    <3>3. QED
      BY <3>1, <3>2
  <2> HIDE DEF Bad
  <2>6. w[m] \in FlowReach(w[i])
    BY <2>4, <2>5, FlowReachGrows
  <2>7. QED
    BY <2>2, <2>6
<1>2. QED
  BY <1>1

\* What is met with a visit left was not met on the way, and the hops last.
LEMMA WayIsNew ==
  ASSUME SearchInv, from # 0, IsSimple(prog), VisitsInv,
         NEW k \in Nat, NEW w \in [0..k -> Stmts(prog)], IsWay(w, k), visits_left[w[k]] > 0
  PROVE  /\ \A i, j \in 1..k : w[i] = w[j] => i = j
         /\ k <= NumHops(prog)
<1>1. /\ prog \in Programs /\ times_from_seen \in Nat /\ visits_left \in [Stmts(prog) -> Nat]
  BY DEF SearchInv, SearchTypeInv, ConstructInv
<1>2. ASSUME NEW i \in 1..(k - 1), w[i] = w[k]
      PROVE  FALSE
  <2>1. w[k] \in Stmts(prog) /\ i \in 0..(k - 1) /\ i \in 0..k /\ k \in 0..k /\ i < k
    OBVIOUS
  <2>2. CASE IsOnce(w[k])
    <3>1. \A j \in 0..(k - 1) : <<w[j], w[j + 1]>> \in InterproceduralFlow(prog)
      BY DEF IsWay
    <3>2. w[k] \in FlowReach(w[i])
      BY <1>1, <2>1, <3>1, WayLeads
    <3>3. QED
      BY <1>1, <1>2, <2>1, <2>2, <3>2, NotAgain
  <2>3. CASE ~IsOnce(w[k])
    <3>1. w[k] \in reachable
      BY <1>2, <2>1 DEF IsWay
    <3>2. w[k] = from => times_from_seen >= 2
      BY <1>2 DEF IsWay
    <3>3. visits_left[w[k]] <= IF w[k] = from THEN 2 - times_from_seen ELSE 0
      BY <2>1, <2>3, <3>1 DEF VisitsInv
    <3>4. visits_left[w[k]] \in Nat
      BY <1>1, <2>1
    <3> DEFINE v == visits_left[w[k]]
               b == IF w[k] = from THEN 2 - times_from_seen ELSE 0
    <3>5. v \in Nat /\ v > 0 /\ v <= b
      BY <3>3, <3>4
    <3>6. b \in Int /\ b <= 0
      BY <1>1, <3>2
    <3> HIDE DEF v, b
    <3>7. QED
      BY <3>5, <3>6
  <2>4. QED
    BY <2>2, <2>3
<1>3. ASSUME NEW i \in 1..k, NEW j \in 1..k, w[i] = w[j]
      PROVE  i = j
  <2>1. CASE i # k /\ j # k
    <3>1. i \in 1..(k - 1) /\ j \in 1..(k - 1)
      BY <2>1
    <3>2. QED
      BY <1>3, <3>1 DEF IsWay
  <2>2. CASE i = k /\ j # k
    <3>1. j \in 1..(k - 1)
      BY <2>2
    <3>2. QED
      BY <1>2, <1>3, <2>2, <3>1
  <2>3. CASE j = k /\ i # k
    <3>1. i \in 1..(k - 1)
      BY <2>3
    <3>2. QED
      BY <1>2, <1>3, <2>3, <3>1
  <2>4. QED
    BY <2>1, <2>2, <2>3
<1>4. k <= NumHops(prog)
  <2> DEFINE g == [i \in 1..k |-> w[i]]
  <2>1. g \in [1..k -> Stmts(prog)] /\ \A i, j \in 1..k : g[i] = g[j] => i = j
    BY <1>3
  <2>2. g \in Injection(1..k, Stmts(prog))
    BY <2>1 DEF Injection, IsInjective
  <2>3. NumHops(prog) \in Nat
    BY <1>1, HopsAreNatural
  <2>4. \A n \in Nat : Cardinality(1..n) = n
    BY FS_Interval
  <2>5. Cardinality(Stmts(prog)) = NumHops(prog)
    BY <2>3, <2>4 DEF Stmts, NumHops
  <2>6. IsFiniteSet(Stmts(prog))
    BY <1>1, ProgramProperties
  <2> HIDE DEF g
  <2>7. Cardinality(1..k) <= Cardinality(Stmts(prog))
    BY <2>2, <2>6, FS_Injection
  <2>8. QED
    BY <2>4, <2>5, <2>7
<1>5. QED
  BY <1>3, <1>4

(***************************************************************************)
(* Each step keeps this invariant.                                         *)
(***************************************************************************)
\* The way that a PCB came stays one.
LEMMA WayStays ==
  ASSUME prog' = prog, from' = from, reachable \subseteq reachable',
         times_from_seen \in Nat, times_from_seen' \in Nat, times_from_seen <= times_from_seen', NEW pcb, Came(pcb)
  PROVE  Came(pcb)'
<1>0. PICK k : k = NumHops(prog) - pcb.hops_left
  OBVIOUS
<1>1. PICK w \in [0..k -> Stmts(prog)] : IsWay(w, k) /\ w[k] = pcb.cur_sn
  BY <1>0 DEF Came
<1>2. (NumHops(prog) - pcb.hops_left)' = k /\ Stmts(prog)' = Stmts(prog)
  BY <1>0 DEF NumHops, Stmts
<1>3. IsWay(w, k)'
  <2>1. \A i \in 0..(k - 1) : w[i] \in reachable' /\ <<w[i], w[i + 1]>> \in InterproceduralFlow(prog)'
    BY <1>1 DEF IsWay
  <2>2. (\E i \in 1..(k - 1) : w[i] = from) => times_from_seen' >= 2
    BY <1>1 DEF IsWay
  <2>3. w[0] = from /\ \A i, j \in 1..(k - 1) : w[i] = w[j] => i = j
    BY <1>1 DEF IsWay
  <2>4. QED
    BY <2>1, <2>2, <2>3 DEF IsWay
<1>4. QED
  BY <1>1, <1>2, <1>3 DEF Came

\* The start has no way behind it.
LEMMA StartIsComplete ==
  ASSUME SearchInv, StartSearch
  PROVE  CompleteInv'
<1>1. /\ from' \in Stmts(prog)
      /\ pcbs' = <<Pcb(from', <<>>, NumHops(prog))>>
      /\ visits_left' = [s \in Stmts(prog) |-> IF s = from' THEN 2 ELSE 1]
      /\ UNCHANGED bipVars /\ times_from_seen' = times_from_seen /\ reachable' = reachable
      /\ from = 0
  BY DEF StartSearch, VisitsAtStart
<1>2. prog \in Programs /\ prog' = prog
  BY <1>1, SameProgram DEF SearchInv, ConstructInv
<1>3. reachable' = {} /\ times_from_seen' = 0
  <2>1. reachable = {} /\ times_from_seen \in Nat /\ (from \in reachable <=> times_from_seen > 0)
    BY <1>1 DEF SearchInv, SearchTypeInv
  <2>2. QED
    BY <1>1, <2>1
<1>4. /\ Len(pcbs') = 1 /\ pcbs'[1].cur_sn = from' /\ pcbs'[1].return_to = <<>>
      /\ pcbs'[1].hops_left = NumHops(prog) /\ \A i \in 1..1 : i = 1
  BY <1>1 DEF Pcb
<1>5. Proper(pcbs[1].cur_sn, pcbs[1].return_to)'
  <2>1. Proper(from', <<>>)
    BY <1>1, <1>2, EmptyIsProper
  <2>2. QED
    BY <1>2, <1>4, <2>1 DEF Proper, EndsWith
<1>6. Came(pcbs[1])'
  <2>0. PICK w : w = [i \in 0..0 |-> from']
    OBVIOUS
  <2>1. NumHops(prog) - pcbs'[1].hops_left = 0
    BY <1>2, <1>4, HopsAreNatural
  <2>2. w \in [0..0 -> Stmts(prog)] /\ w[0] = from'
    BY <1>1, <2>0
  <2>3. 0..(0 - 1) = {} /\ 1..(0 - 1) = {}
    OBVIOUS
  <2>4. IsWay(w, 0)'
    BY <2>2, <2>3 DEF IsWay
  <2>5. (NumHops(prog) - pcbs[1].hops_left)' = 0 /\ Stmts(prog)' = Stmts(prog)
    BY <1>2, <2>1 DEF NumHops, Stmts
  <2>6. QED
    BY <1>4, <2>2, <2>4, <2>5 DEF Came
<1>7. VisitsInv'
  <2>1. \A s \in Stmts(prog) : visits_left'[s] = IF s = from' THEN 2 ELSE 1
    BY <1>1
  <2>2. visits_left'[from'] + times_from_seen' >= 2
    BY <1>1, <1>3, <2>1
  <2>3. \A s \in Stmts(prog) : s # from' => visits_left'[s] >= 1
    BY <2>1
  <2>4. \A s \in Stmts(prog) : visits_left'[s] <= IF s = from' THEN 2 - times_from_seen' ELSE IF s \in reachable' THEN 0 ELSE 1
    BY <1>3, <2>1
  <2>5. Stmts(prog)' = Stmts(prog)
    BY <1>2
  <2>6. QED
    BY <2>2, <2>3, <2>4, <2>5 DEF VisitsInv
<1>8. pcbs' # <<>>
  BY <1>1
<1>9. (\A i \in 1..Len(pcbs) : Proper(pcbs[i].cur_sn, pcbs[i].return_to) /\ Came(pcbs[i]))'
  BY <1>4, <1>5, <1>6
<1>10. QED
  BY <1>3, <1>7, <1>8, <1>9 DEF CompleteInv

\* What is skipped was met before.
LEMMA SkipKeepsComplete ==
  ASSUME SearchInv, from # 0, IsSimple(prog), CompleteInv, Skip
  PROVE  CompleteInv'
<1>1. /\ pcbs # <<>> /\ pcbs' = Tail(pcbs) /\ visits_left[Head(pcbs).cur_sn] <= 0
      /\ UNCHANGED bipVars /\ from' = from /\ visits_left' = visits_left
      /\ times_from_seen' = times_from_seen /\ reachable' = reachable
  BY DEF Skip
<1>2. /\ pcbs \in Seq(Pcbs) /\ times_from_seen \in Nat /\ from \in Stmts(prog)
      /\ visits_left \in [Stmts(prog) -> Nat] /\ FoundInv
  BY DEF SearchInv, SearchTypeInv
<1>3. prog' = prog
  BY <1>1, SameProgram
<1>4. /\ Len(pcbs) > 0 /\ Head(pcbs) = pcbs[1] /\ Head(pcbs) \in Pcbs
      /\ Len(pcbs') = Len(pcbs) - 1 /\ Len(pcbs) \in Nat
      /\ \A i \in 1..Len(pcbs') : i + 1 \in 1..Len(pcbs) /\ pcbs'[i] = pcbs[i + 1]
  BY <1>1, <1>2
<1> DEFINE s == Head(pcbs).cur_sn
<1>5. s \in Stmts(prog)
  BY <1>4 DEF Pcbs
<1>6. Met(s)
  <2> HIDE DEF s
  <2>1. visits_left[s] <= 0 /\ visits_left[s] \in Nat
    BY <1>1, <1>2, <1>5 DEF s
  <2>2. s \in reachable \/ s = from
    BY <1>5, <2>1 DEF CompleteInv, VisitsInv
  <2>3. s = from => times_from_seen >= 2
    <3> SUFFICES ASSUME s = from
                 PROVE  times_from_seen >= 2
      OBVIOUS
    <3>1. visits_left[s] + times_from_seen >= 2
      BY DEF CompleteInv, VisitsInv
    <3> DEFINE v == visits_left[s]
    <3>2. v \in Nat /\ v <= 0 /\ v + times_from_seen >= 2
      BY <2>1, <3>1
    <3> HIDE DEF v
    <3>3. QED
      BY <1>2, <3>2
  <2>4. from \in reachable <=> times_from_seen > 0
    BY DEF SearchInv, SearchTypeInv
  <2>5. QED
    BY <1>2, <2>2, <2>3, <2>4 DEF Met
<1>7. times_from_seen # 0
  <2> SUFFICES ASSUME times_from_seen = 0
               PROVE  FALSE
    OBVIOUS
  <2>1. pcbs = <<Pcb(from, <<>>, NumHops(prog))>>
    BY <1>1, <1>2 DEF FoundInv
  <2>2. s = from
    BY <2>1 DEF Pcb
  <2>3. QED
    BY <1>6, <2>2 DEF Met
<1>8. \A i \in 1..Len(pcbs') : Proper(pcbs'[i].cur_sn, pcbs'[i].return_to) /\ Came(pcbs'[i])
  BY <1>4 DEF CompleteInv
<1>9. \A i \in 1..Len(pcbs') : (Proper(pcbs[i].cur_sn, pcbs[i].return_to) /\ Came(pcbs[i]))'
  <2> TAKE i \in 1..Len(pcbs')
  <2> DEFINE x == pcbs'[i]
  <2>1. Proper(x.cur_sn, x.return_to) /\ Came(x)
    BY <1>8
  <2>2. (Proper(pcbs[i].cur_sn, pcbs[i].return_to))'
    BY <1>3, <2>1 DEF Proper, EndsWith
  <2>3. (Came(pcbs[i]))'
    BY <1>1, <1>3, <2>1 DEF Came, IsWay
  <2>4. QED
    BY <2>2, <2>3
<1>10. \A t : Met(t)' <=> Met(t)
  BY <1>1 DEF Met
<1>11. ASSUME NEW t, Waits(t), t # s
       PROVE  Waits(t)'
  <2>1. PICK i \in 1..Len(pcbs) : pcbs[i].cur_sn = t
    BY <1>11 DEF Waits
  <2>2. i # 1
    BY <1>4, <1>11, <2>1
  <2>3. i - 1 \in 1..Len(pcbs') /\ pcbs'[i - 1] = pcbs[i]
    BY <1>4, <2>2
  <2>4. QED
    BY <2>1, <2>3 DEF Waits
<1>12. \A r \in reachable' : \A t : <<r, t>> \in InterproceduralFlow(prog) => Met(t)' \/ Waits(t)'
  <2> TAKE r \in reachable'
  <2> TAKE t
  <2> HAVE <<r, t>> \in InterproceduralFlow(prog)
  <2>1. Met(t) \/ Waits(t)
    BY <1>1 DEF CompleteInv
  <2> HIDE DEF s
  <2>2. QED
    BY <1>6, <1>10, <1>11, <2>1
<1>13. VisitsInv'
  BY <1>1, <1>3 DEF CompleteInv, VisitsInv, IsOnce
<1>14. QED
  BY <1>1, <1>3, <1>7, <1>9, <1>12, <1>13 DEF CompleteInv

\* In a simple program no path is cut off.
LEMMA NeverOutOfHops ==
  ASSUME SearchInv, from # 0, IsSimple(prog), CompleteInv
  PROVE  ~OutOfHops
<1> SUFFICES ASSUME pcbs # <<>>, visits_left[Head(pcbs).cur_sn] > 0, Head(pcbs).hops_left < 0
             PROVE  FALSE
  BY DEF OutOfHops
<1>1. pcbs \in Seq(Pcbs) /\ prog \in Programs
  BY DEF SearchInv, SearchTypeInv, ConstructInv
<1>2. Len(pcbs) > 0 /\ Head(pcbs) = pcbs[1] /\ Head(pcbs) \in Pcbs /\ 1 \in 1..Len(pcbs)
  BY <1>1
<1> DEFINE hops == Head(pcbs).hops_left
           k == NumHops(prog) - hops
<1>3. hops \in -1..NumHops(prog) /\ NumHops(prog) \in Nat /\ hops < 0
  BY <1>1, <1>2, HopsAreNatural DEF Pcbs
<1>4. Came(Head(pcbs))
  BY <1>2 DEF CompleteInv
<1>5. PICK w \in [0..k -> Stmts(prog)] : IsWay(w, k) /\ w[k] = Head(pcbs).cur_sn
  BY <1>4 DEF Came
<1> HIDE DEF hops
<1>6. k \in Nat /\ k > NumHops(prog)
  BY <1>3
<1> HIDE DEF k
<1>7. k <= NumHops(prog)
  BY <1>5, <1>6, WayIsNew DEF CompleteInv
<1>8. QED
  BY <1>3, <1>6, <1>7

\* All the successors are pushed.
LEMMA PushedElements ==
  ASSUME NEW S, IsFiniteSet(S), NEW f \in SetToSeqs(S)
  PROVE  f \in Seq(S) /\ \A x \in S : \E i \in 1..Len(f) : f[i] = x
<1> DEFINE n == Cardinality(S)
<1>1. n \in Nat
  BY FS_CardinalityType
<1>2. f \in [1..n -> S] /\ \A i, j \in 1..n : i # j => f[i] # f[j]
  BY DEF SetToSeqs
<1>3. Cardinality(1..n) = n
  BY <1>1, FS_Interval
<1> HIDE DEF n
<1>4. f \in Seq(S) /\ Len(f) = n
  BY <1>1, <1>2
<1>5. f \in Injection(1..n, S)
  BY <1>2 DEF Injection, IsInjective
<1>6. f \in Surjection(1..n, S)
  BY <1>3, <1>5, FS_Injection DEF n
<1>7. QED
  BY <1>4, <1>6 DEF Surjection

\* Where the PCB on top leads is proper, and continues the way.
LEMMA ContinuationsCome ==
  ASSUME SearchInv, from # 0, IsSimple(prog), CompleteInv, Process,
         NEW c \in Continuations(Head(pcbs).cur_sn, Head(pcbs).return_to),
         NEW x, x = Pcb(c.to, c.stack, Head(pcbs).hops_left - 1)
  PROVE  Proper(c.to, c.stack) /\ Came(x)'
<1> DEFINE s == Head(pcbs).cur_sn
           stack == Head(pcbs).return_to
           hops == Head(pcbs).hops_left
           to == c.to
<1>1. /\ pcbs # <<>> /\ visits_left[s] > 0 /\ hops >= 0
      /\ times_from_seen' = times_from_seen + (IF s = from THEN 1 ELSE 0)
      /\ reachable' = reachable \cup {s}
      /\ UNCHANGED bipVars /\ from' = from
  BY DEF Process
<1>2. /\ ConstructInv /\ Constructed /\ prog \in Programs /\ pcbs \in Seq(Pcbs)
      /\ times_from_seen \in Nat
      /\ from \in reachable <=> times_from_seen > 0
  BY DEF SearchInv, SearchTypeInv, ConstructInv
<1>3. Len(pcbs) > 0 /\ Head(pcbs) = pcbs[1] /\ Head(pcbs) \in Pcbs /\ 1 \in 1..Len(pcbs)
  BY <1>1, <1>2
<1>4. NumHops(prog) \in Nat /\ prog' = prog
  BY <1>1, <1>2, HopsAreNatural, SameProgram
<1>5. s \in Stmts(prog) /\ stack \in Seq(Stmts(prog)) /\ hops \in 0..NumHops(prog)
  BY <1>1, <1>3, <1>4 DEF Pcbs
<1>6. Proper(s, stack) /\ Came(Head(pcbs))
  BY <1>3 DEF CompleteInv
<1>7. c \in Continuations(s, stack)
  OBVIOUS
<1> HIDE DEF s, stack, hops
<1>8. <<c.to, c.stack>> \in Steps(prog, s, stack)
  BY <1>2, <1>5, <1>7, ContinuationsAreSteps
<1> DEFINE next == <<c.to, c.stack>>
<1>9. next \in Configs /\ <<s, next[1]>> \in InterproceduralFlow(prog) /\ Proper(next[1], next[2])
  BY <1>2, <1>5, <1>6, <1>8, StepsAreConfigs, StepsAreFlow, StepsStayProper
<1>10. to \in Stmts(prog) /\ <<s, to>> \in InterproceduralFlow(prog) /\ Proper(c.to, c.stack)
  BY <1>9 DEF Configs
<1> HIDE DEF to
<1>11. PICK k : k = NumHops(prog) - hops
  OBVIOUS
<1>12. PICK w \in [0..k -> Stmts(prog)] : IsWay(w, k) /\ w[k] = s
  BY <1>6, <1>11 DEF Came, s, hops
<1>13. k \in Nat /\ NumHops(prog) - (hops - 1) = k + 1
  BY <1>4, <1>5, <1>11
<1>14. \A i, j \in 1..k : w[i] = w[j] => i = j
  BY <1>1, <1>12, <1>13, WayIsNew DEF CompleteInv
<1>15. PICK u : u = [i \in 0..(k + 1) |-> IF i = k + 1 THEN to ELSE w[i]]
  OBVIOUS
<1>16. u \in [0..(k + 1) -> Stmts(prog)] /\ u[k + 1] = to /\ \A i \in 0..k : u[i] = w[i]
  BY <1>10, <1>12, <1>13, <1>15
<1>17. ((k + 1) - 1) = k /\ 0 \in 0..k /\ 1..k \subseteq 0..k
  BY <1>13
<1>18. \A i \in 0..k : w[i] \in reachable'
  <2> TAKE i \in 0..k
  <2>1. CASE i = k
    BY <1>1, <1>12, <2>1
  <2>2. CASE i # k
    <3>1. i \in 0..(k - 1)
      BY <1>13, <2>2
    <3>2. QED
      BY <1>1, <1>12, <3>1 DEF IsWay
  <2>3. QED
    BY <2>1, <2>2
<1>19. \A i \in 0..k : <<u[i], u[i + 1]>> \in InterproceduralFlow(prog)
  <2> TAKE i \in 0..k
  <2>1. CASE i = k
    BY <1>10, <1>12, <1>16, <2>1
  <2>2. CASE i # k
    <3>1. i \in 0..(k - 1) /\ i + 1 \in 0..k
      BY <1>13, <2>2
    <3>2. u[i] = w[i] /\ u[i + 1] = w[i + 1]
      BY <1>16, <3>1
    <3>3. QED
      BY <1>12, <3>1, <3>2 DEF IsWay
  <2>3. QED
    BY <2>1, <2>2
<1>20. \A i, j \in 1..k : u[i] = u[j] => i = j
  BY <1>14, <1>16, <1>17
<1>21. ASSUME NEW i \in 1..k, u[i] = from
       PROVE  times_from_seen' >= 2
  <2>1. w[i] = from
    BY <1>16, <1>17, <1>21
  <2>2. CASE i = k
    <3>1. s = from /\ from \in reachable
      <4>1. k >= 1 /\ 0 \in 0..(k - 1)
        BY <1>13, <2>2
      <4>2. QED
        BY <1>12, <2>1, <2>2, <4>1 DEF IsWay
    <3>2. QED
      BY <1>1, <1>2, <3>1
  <2>3. CASE i # k
    <3>1. i \in 1..(k - 1)
      BY <1>13, <2>3
    <3>2. times_from_seen >= 2
      BY <1>12, <2>1, <3>1 DEF IsWay
    <3>3. QED
      BY <1>1, <1>2, <3>2
  <2>4. QED
    BY <2>2, <2>3
<1>22. u[0] = from
  BY <1>12, <1>16, <1>17 DEF IsWay
<1>23. IsWay(u, k + 1)'
  <2>1. \A i \in 0..k : u[i] \in reachable'
    BY <1>16, <1>18
  <2>2. u[0] = from' /\ ((\E i \in 1..k : u[i] = from') => times_from_seen' >= 2)
    BY <1>1, <1>21, <1>22
  <2>3. InterproceduralFlow(prog)' = InterproceduralFlow(prog)
    BY <1>4
  <2>4. QED
    BY <1>17, <1>19, <1>20, <2>1, <2>2, <2>3 DEF IsWay
<1>24. Came(x)'
  <2>1. x.hops_left = hops - 1 /\ x.cur_sn = to
    BY DEF Pcb, to, hops
  <2>2. (NumHops(prog) - x.hops_left)' = k + 1 /\ Stmts(prog)' = Stmts(prog)
    BY <1>4, <1>13, <2>1 DEF NumHops, Stmts
  <2>3. QED
    BY <1>16, <1>23, <2>1, <2>2 DEF Came
<1>25. QED
  BY <1>10, <1>24

LEMMA ConcatContains ==
  ASSUME NEW S, NEW a \in Seq(S), NEW b \in Seq(S)
  PROVE  /\ \A j \in 1..Len(a) : \E i \in 1..Len(a \o b) : (a \o b)[i] = a[j]
         /\ \A j \in 1..Len(b) : \E i \in 1..Len(a \o b) : (a \o b)[i] = b[j]
<1>1. a \o b \in Seq(S) /\ Len(a \o b) = Len(a) + Len(b) /\ Len(a) \in Nat /\ Len(b) \in Nat
  OBVIOUS
<1>2. ASSUME NEW j \in 1..Len(a)
      PROVE  j \in 1..Len(a \o b) /\ (a \o b)[j] = a[j]
  BY <1>1
<1>3. ASSUME NEW j \in 1..Len(b)
      PROVE  Len(a) + j \in 1..Len(a \o b) /\ (a \o b)[Len(a) + j] = b[j]
  BY <1>1
<1>4. QED
  BY <1>2, <1>3

\* A statement that is met loses a visit, and a callee's statements gain one.
LEMMA VisitsStay ==
  ASSUME SearchInv, from # 0, IsSimple(prog), VisitsInv, Process
  PROVE  VisitsInv'
<1> DEFINE s == Head(pcbs).cur_sn
           callee == IF s \in CallStmts(prog) THEN StmtsOf(prog, prog.callee[s]) ELSE {}
<1>1. /\ pcbs # <<>> /\ visits_left[s] > 0
      /\ visits_left' = VisitsAfter(s)
      /\ times_from_seen' = times_from_seen + (IF s = from THEN 1 ELSE 0)
      /\ reachable' = reachable \cup {s}
      /\ UNCHANGED bipVars /\ from' = from
  BY DEF Process
<1>2. /\ pcbs \in Seq(Pcbs) /\ times_from_seen \in Nat /\ from \in Stmts(prog)
      /\ visits_left \in [Stmts(prog) -> Nat]
  BY DEF SearchInv, SearchTypeInv
<1>3. prog' = prog
  BY <1>1, SameProgram
<1>4. s \in Stmts(prog)
  <2>1. Head(pcbs) \in Pcbs
    BY <1>1, <1>2
  <2>2. QED
    BY <2>1 DEF Pcbs
<1>5. \A t \in Stmts(prog) :
        visits_left'[t] = visits_left[t] - (IF t = s THEN 1 ELSE 0) + (IF t \in callee THEN 1 ELSE 0)
  BY <1>1 DEF VisitsAfter
<1>6. \A t \in Stmts(prog) : ~IsOnce(t) => t \notin callee
  BY DEF IsOnce
<1> HIDE DEF s, callee
<1>7. ASSUME NEW t \in Stmts(prog)
      PROVE  /\ visits_left[t] \in Nat /\ visits_left'[t] \in Int
             /\ t # s => visits_left'[t] >= visits_left[t]
             /\ visits_left'[t] >= visits_left[t] - 1
             /\ t \notin callee => visits_left'[t] = visits_left[t] - (IF t = s THEN 1 ELSE 0)
  <2>1. visits_left[t] \in Nat
    BY <1>2
  <2>2. PICK v \in Nat : v = visits_left[t]
    BY <2>1
  <2>3. visits_left'[t] = v - (IF t = s THEN 1 ELSE 0) + (IF t \in callee THEN 1 ELSE 0)
    BY <1>5, <2>2
  <2>4. QED
    BY <2>2, <2>3
<1>8. ASSUME NEW t \in Stmts(prog), t \notin reachable', t # from
      PROVE  visits_left'[t] >= 1
  <2>1. t # s /\ visits_left[t] >= 1
    BY <1>1, <1>8 DEF VisitsInv
  <2>2. visits_left[t] \in Nat /\ visits_left'[t] \in Int /\ visits_left'[t] >= visits_left[t]
    BY <1>7, <2>1
  <2>3. PICK v \in Nat : v = visits_left[t]
    BY <2>2
  <2>4. PICK u \in Int : u = visits_left'[t]
    BY <2>2
  <2>5. u >= v /\ v >= 1
    BY <2>1, <2>2, <2>3, <2>4
  <2>6. QED
    BY <2>4, <2>5
<1>9. visits_left'[from] + times_from_seen' >= 2
  <2>1. visits_left[from] + times_from_seen >= 2
    BY DEF VisitsInv
  <2>2. PICK v \in Nat : v = visits_left[from]
    BY <1>2, <1>7
  <2>3. PICK u \in Int : u = visits_left'[from]
    BY <1>2, <1>7
  <2>4. (from # s => u >= v) /\ u >= v - 1 /\ v + times_from_seen >= 2
    BY <1>2, <1>7, <2>1, <2>2, <2>3
  <2>5. u + times_from_seen' >= 2
    BY <1>1, <1>2, <2>4
  <2>6. QED
    BY <2>3, <2>5
<1>10. ASSUME NEW t \in Stmts(prog), ~IsOnce(t)
       PROVE  visits_left'[t] <= IF t = from THEN 2 - times_from_seen' ELSE IF t \in reachable' THEN 0 ELSE 1
  <2>1. visits_left[t] <= IF t = from THEN 2 - times_from_seen ELSE IF t \in reachable THEN 0 ELSE 1
    BY <1>10 DEF VisitsInv
  <2>2. PICK v \in Nat : v = visits_left[t]
    BY <1>7
  <2>3. visits_left'[t] = v - (IF t = s THEN 1 ELSE 0)
    BY <1>6, <1>7, <1>10, <2>2
  <2>4. PICK u \in Int : u = visits_left'[t]
    BY <1>7
  <2>5. u = v - (IF t = s THEN 1 ELSE 0)
    BY <2>3, <2>4
  <2>6. CASE t = from
    <3>1. v <= 2 - times_from_seen
      BY <2>1, <2>2, <2>6
    <3>2. u <= 2 - times_from_seen'
      BY <1>1, <1>2, <2>5, <2>6, <3>1
    <3>3. QED
      BY <2>4, <2>6, <3>2
  <2>7. CASE t # from
    <3>1. v <= IF t \in reachable THEN 0 ELSE 1
      BY <2>1, <2>2, <2>7
    <3>2. u <= IF t \in reachable' THEN 0 ELSE 1
      BY <1>1, <2>5, <3>1
    <3>3. QED
      BY <2>4, <2>7, <3>2
  <2>8. QED
    BY <2>6, <2>7
<1>11. Stmts(prog)' = Stmts(prog) /\ \A t : IsOnce(t)' <=> IsOnce(t)
  BY <1>3 DEF IsOnce
<1>12. QED
  BY <1>1, <1>8, <1>9, <1>10, <1>11 DEF VisitsInv

\* The successors of what is processed wait on the stack.
LEMMA ProcessKeepsComplete ==
  ASSUME SearchInv, from # 0, IsSimple(prog), CompleteInv, Process
  PROVE  CompleteInv'
<1> DEFINE s == Head(pcbs).cur_sn
           stack == Head(pcbs).return_to
           hops == Head(pcbs).hops_left
           next == {Pcb(c.to, c.stack, hops - 1) : c \in Continuations(s, stack)}
<1>1. /\ pcbs # <<>> /\ visits_left[s] > 0 /\ hops >= 0
      /\ \E pushed \in SetToSeqs(next) : pcbs' = pushed \o Tail(pcbs)
      /\ times_from_seen' = times_from_seen + (IF s = from THEN 1 ELSE 0)
      /\ reachable' = reachable \cup {s}
      /\ UNCHANGED bipVars /\ from' = from
  BY DEF Process
<1>2. /\ ConstructInv /\ FoundInv /\ prog \in Programs
      /\ pcbs \in Seq(Pcbs) /\ Constructed /\ from \in Stmts(prog)
      /\ times_from_seen \in Nat
      /\ from \in reachable <=> times_from_seen > 0
  BY DEF SearchInv, SearchTypeInv, ConstructInv
<1>3. prog' = prog
  BY <1>1, SameProgram
<1>4. /\ Len(pcbs) > 0 /\ Len(pcbs) \in Nat /\ Head(pcbs) = pcbs[1] /\ 1 \in 1..Len(pcbs) /\ Head(pcbs) \in Pcbs
  BY <1>1, <1>2
<1>5. s \in Stmts(prog) /\ stack \in Seq(Stmts(prog)) /\ Proper(s, stack)
  BY <1>4 DEF Pcbs, CompleteInv
<1>6. times_from_seen' \in Nat /\ times_from_seen' > 0 /\ times_from_seen <= times_from_seen'
  <2>1. CASE times_from_seen = 0
    <3>1. Head(pcbs) = Pcb(from, <<>>, NumHops(prog))
      BY <1>1, <1>2, <2>1 DEF FoundInv
    <3>2. s = from
      BY <3>1 DEF Pcb
    <3>3. QED
      BY <1>1, <2>1, <3>2
  <2>2. CASE times_from_seen > 0
    BY <1>1, <1>2, <2>2
  <2>3. QED
    BY <1>2, <2>1, <2>2
<1>7. IsFiniteSet(next)
  <2> DEFINE C == Continuations(s, stack)
             f == [c \in C |-> Pcb(c.to, c.stack, hops - 1)]
  <2>1. IsFiniteSet(C)
    BY <1>2, <1>5, ContinuationsAreFinite
  <2>2. next = {f[c] : c \in C}
    OBVIOUS
  <2> HIDE DEF C, f, next
  <2>3. QED
    BY <2>1, <2>2, FiniteImage
<1>8. \A x \in next : x \in Pcbs
  BY <1>1, ContinuationsKeep
<1>9. \A x \in next : Proper(x.cur_sn, x.return_to) /\ Came(x)'
  <2> TAKE x \in next
  <2>1. PICK c \in Continuations(s, stack) : x = Pcb(c.to, c.stack, hops - 1)
    OBVIOUS
  <2>2. Proper(c.to, c.stack) /\ Came(x)'
    BY <2>1, ContinuationsCome
  <2>3. x.cur_sn = c.to /\ x.return_to = c.stack
    BY <2>1 DEF Pcb
  <2>4. QED
    BY <2>2, <2>3
<1>10. ASSUME NEW y, <<s, y>> \in InterproceduralFlow(prog)
       PROVE  \E x \in next : x.cur_sn = y
  <2>1. PICK c \in Continuations(s, stack) : c.to = y
    BY <1>2, <1>5, <1>10, FlowIsContinued
  <2>2. Pcb(c.to, c.stack, hops - 1) \in next /\ Pcb(c.to, c.stack, hops - 1).cur_sn = y
    BY <2>1 DEF Pcb
  <2>3. QED
    BY <2>2
<1> HIDE DEF next
<1>11. PICK pushed \in SetToSeqs(next) : pcbs' = pushed \o Tail(pcbs)
  BY <1>1
<1>12. pushed \in Seq(next) /\ \A x \in next : \E i \in 1..Len(pushed) : pushed[i] = x
  BY <1>7, PushedElements
<1>13. pushed \in Seq(Pcbs) /\ \A i \in 1..Len(pushed) : pushed[i] \in next
  <2>1. next \subseteq Pcbs
    BY <1>8
  <2>2. QED
    BY <1>12, <2>1
<1>14. PICK rest : rest = Tail(pcbs)
  OBVIOUS
<1>15. /\ rest \in Seq(Pcbs) /\ Len(rest) = Len(pcbs) - 1
       /\ \A j \in 1..Len(rest) : j + 1 \in 1..Len(pcbs) /\ rest[j] = pcbs[j + 1]
  BY <1>2, <1>4, <1>14
<1>16. PICK all : all = pushed \o rest
  OBVIOUS
<1>17. /\ \A i \in 1..Len(all) : (\E j \in 1..Len(pushed) : all[i] = pushed[j]) \/ \E j \in 1..Len(rest) : all[i] = rest[j]
       /\ \A j \in 1..Len(pushed) : \E i \in 1..Len(all) : all[i] = pushed[j]
       /\ \A j \in 1..Len(rest) : \E i \in 1..Len(all) : all[i] = rest[j]
  <2>1. pushed \in Seq(Pcbs) /\ rest \in Seq(Pcbs)
    BY <1>13, <1>15
  <2>2. \A i \in 1..Len(pushed \o rest) : \/ \E j \in 1..Len(pushed) : (pushed \o rest)[i] = pushed[j]
                                          \/ \E j \in 1..Len(rest) : (pushed \o rest)[i] = rest[j]
    BY <2>1, ConcatElements
  <2>3. \A j \in 1..Len(pushed) : \E i \in 1..Len(pushed \o rest) : (pushed \o rest)[i] = pushed[j]
    BY <2>1, ConcatContains
  <2>4. \A j \in 1..Len(rest) : \E i \in 1..Len(pushed \o rest) : (pushed \o rest)[i] = rest[j]
    BY <2>1, ConcatContains
  <2>5. QED
    BY ONLY <1>16, <2>2, <2>3, <2>4, Zenon
<1>18. pcbs' = all
  BY <1>11, <1>14, <1>16
<1>19. /\ \A i \in 1..Len(all) : all[i] \in next \/ \E j \in 1..Len(pcbs) : all[i] = pcbs[j]
       /\ \A x \in next : \E i \in 1..Len(all) : all[i] = x
       /\ \A j \in 1..Len(pcbs) : j # 1 => \E i \in 1..Len(all) : all[i] = pcbs[j]
  <2>1. ASSUME NEW i \in 1..Len(all), all[i] \notin next
        PROVE  \E j \in 1..Len(pcbs) : all[i] = pcbs[j]
    <3>1. \A j \in 1..Len(pushed) : all[i] # pushed[j]
      BY <1>13, <2>1, Zenon
    <3>2. PICK j \in 1..Len(rest) : all[i] = rest[j]
      BY <1>17, <3>1, Zenon
    <3>3. QED
      BY <1>15, <3>2, Zenon
  <2>2. ASSUME NEW x \in next
        PROVE  \E i \in 1..Len(all) : all[i] = x
    <3>1. PICK j \in 1..Len(pushed) : pushed[j] = x
      BY <1>12
    <3>2. PICK i \in 1..Len(all) : all[i] = pushed[j]
      BY <1>17
    <3>3. QED
      BY <3>1, <3>2
  <2>3. ASSUME NEW j \in 1..Len(pcbs), j # 1
        PROVE  \E i \in 1..Len(all) : all[i] = pcbs[j]
    <3>1. j - 1 \in 1..Len(rest) /\ (j - 1) + 1 = j
      BY <1>4, <1>15, <2>3
    <3>2. rest[j - 1] = pcbs[j]
      BY <1>15, <3>1
    <3>3. QED
      BY <1>17, <3>1, <3>2
  <2>4. QED
    BY <2>1, <2>2, <2>3
<1> HIDE DEF s, stack, hops
<1>20. ASSUME NEW i \in 1..Len(pcbs')
       PROVE  (Proper(pcbs[i].cur_sn, pcbs[i].return_to) /\ Came(pcbs[i]))'
  <2>1. PICK x : x = pcbs'[i]
    OBVIOUS
  <2>2. Proper(x.cur_sn, x.return_to) /\ Came(x)'
    <3>1. x \in next \/ \E j \in 1..Len(pcbs) : x = pcbs[j]
      BY <1>18, <1>19, <2>1
    <3>2. CASE x \in next
      BY <1>9, <3>2
    <3>3. ASSUME NEW j \in 1..Len(pcbs), x = pcbs[j]
          PROVE  Proper(x.cur_sn, x.return_to) /\ Came(x)'
      <4>1. Proper(x.cur_sn, x.return_to) /\ Came(x)
        BY <3>3 DEF CompleteInv
      <4>2. reachable \subseteq reachable'
        BY <1>1
      <4>3. QED
        BY <1>1, <1>2, <1>3, <1>6, <4>1, <4>2, WayStays
    <3>4. QED
      BY <3>1, <3>2, <3>3
  <2>3. Proper(x.cur_sn, x.return_to)'
    BY <1>3, <2>2 DEF Proper, EndsWith
  <2>4. QED
    BY <2>1, <2>2, <2>3 DEF Came
<1>21. ASSUME NEW t, \E i \in 1..Len(all) : all[i].cur_sn = t
       PROVE  Waits(t)'
  BY <1>18, <1>21 DEF Waits
<1>22. ASSUME NEW r \in reachable', NEW t, <<r, t>> \in InterproceduralFlow(prog)
       PROVE  Met(t)' \/ Waits(t)'
  <2>1. CASE r = s
    <3>1. PICK x \in next : x.cur_sn = t
      BY <1>10, <1>22, <2>1
    <3>2. QED
      BY <1>19, <1>21, <3>1
  <2>2. CASE r \in reachable
    <3>1. Met(t) \/ Waits(t)
      BY <1>22, <2>2 DEF CompleteInv
    <3>2. times_from_seen > 0
      BY <1>2, <2>2 DEF CompleteInv
    <3>3. CASE Met(t)
      BY <1>1, <1>2, <1>6, <3>3 DEF Met
    <3>4. CASE t = s
      BY <1>1, <1>2, <1>6, <3>2, <3>4 DEF Met
    <3>5. CASE Waits(t) /\ t # s
      <4>1. PICK j \in 1..Len(pcbs) : pcbs[j].cur_sn = t
        BY <3>5 DEF Waits
      <4>2. j # 1
        BY <1>4, <3>5, <4>1 DEF s
      <4>3. QED
        BY <1>19, <1>21, <4>1, <4>2
    <3>6. QED
      BY <3>1, <3>3, <3>4, <3>5
  <2>3. QED
    BY <1>1, <1>22, <2>1, <2>2
<1>23. VisitsInv'
  BY VisitsStay DEF CompleteInv
<1>24. QED
  BY <1>3, <1>6, <1>20, <1>22, <1>23 DEF CompleteInv

LEMMA StutterKeepsComplete ==
  ASSUME CompleteInv, UNCHANGED vars
  PROVE  CompleteInv'
<1>1. /\ UNCHANGED bipVars
      /\ from' = from /\ pcbs' = pcbs /\ visits_left' = visits_left
      /\ times_from_seen' = times_from_seen /\ reachable' = reachable
  BY DEF vars, searchVars
<1>2. prog' = prog
  BY <1>1, SameProgram
<1>3. ASSUME NEW i \in 1..Len(pcbs')
      PROVE  (Proper(pcbs[i].cur_sn, pcbs[i].return_to) /\ Came(pcbs[i]))'
  <2>1. Proper(pcbs[i].cur_sn, pcbs[i].return_to) /\ Came(pcbs[i])
    BY <1>1, <1>3 DEF CompleteInv
  <2>2. Proper(pcbs[i].cur_sn, pcbs[i].return_to)'
    BY <1>1, <1>2, <2>1 DEF Proper, EndsWith
  <2>3. Came(pcbs[i])'
    BY <1>1, <1>2, <2>1 DEF Came, IsWay
  <2>4. QED
    BY <2>2, <2>3
<1>4. VisitsInv'
  BY <1>1, <1>2 DEF CompleteInv, VisitsInv, IsOnce
<1>5. \A t : (Met(t)' <=> Met(t)) /\ (Waits(t)' <=> Waits(t))
  BY <1>1 DEF Met, Waits
<1>6. QED
  BY <1>1, <1>2, <1>3, <1>4, <1>5 DEF CompleteInv

LEMMA SearchStaysComplete ==
  ASSUME SimpleSearchInv, [Next]_vars
  PROVE  SimpleSearchInv'
<1>1. SearchInv /\ SearchInv'
  BY ConstructKeepsSearch, StartKeepsSearch, SkipKeeps, OutOfHopsKeeps, ProcessKeeps, StutterKeepsSearch
     DEF SimpleSearchInv, Next
<1>2. SUFFICES ASSUME from' # 0, IsSimple(prog')
               PROVE  CompleteInv'
  BY <1>1 DEF SimpleSearchInv
<1>3. prog \in Programs
  BY <1>1 DEF SearchInv, ConstructInv
<1>4. CASE StartSearch
  BY <1>1, <1>4, StartIsComplete
<1>5. CASE ConstructCFGBip
  <2>1. from = 0
    BY <1>1, <1>5, ConstructionIsOver DEF SearchInv, SearchTypeInv, ConstructCFGBip
  <2>2. QED
    BY <1>2, <1>5, <2>1 DEF ConstructCFGBip, searchVars
<1>6. ASSUME UNCHANGED bipVars, from' = from
      PROVE  from # 0 /\ IsSimple(prog) /\ CompleteInv
  <2>1. prog' = prog
    BY <1>6, SameProgram
  <2>2. QED
    BY <1>2, <1>6, <2>1 DEF SimpleSearchInv
<1>7. CASE Skip
  BY <1>1, <1>6, <1>7, SkipKeepsComplete DEF Skip
<1>8. CASE OutOfHops
  BY <1>1, <1>6, <1>8, NeverOutOfHops DEF OutOfHops
<1>9. CASE Process
  BY <1>1, <1>6, <1>9, ProcessKeepsComplete DEF Process
<1>10. CASE UNCHANGED vars
  BY <1>6, <1>10, StutterKeepsComplete DEF vars, searchVars
<1>11. QED
  BY <1>4, <1>5, <1>7, <1>8, <1>9, <1>10 DEF Next

(***************************************************************************)
(* The search of NextBipHandler keeps its invariant, and for simple        *)
(* programs the stronger one.                                              *)
(***************************************************************************)
THEOREM SimpleSearchInvHolds == Spec => []SimpleSearchInv
<1>1. Init => SimpleSearchInv
  BY InitStartsSearch DEF Init, SimpleSearchInv
<1>2. SimpleSearchInv /\ [Next]_vars => SimpleSearchInv'
  BY SearchStaysComplete
<1>3. QED
  BY <1>1, <1>2, PTL DEF Spec

\* When nothing waits, all that is executed has been met.
LEMMA ExecutedIsMet ==
  ASSUME SearchInv, Done, IsSimple(prog), CompleteInv, NEW n \in Nat, NEW c \in ExecutedWithin(prog, from)[n]
  PROVE  c \in Configs /\ Proper(c[1], c[2]) /\ Met(c[1])
<1> DEFINE w == ExecutedWithin(prog, from)
           Good(d) == d \in Configs /\ Proper(d[1], d[2]) /\ Met(d[1])
           Bad == {m \in Nat : \E d \in w[m] : ~Good(d)}
<1>1. prog \in Programs /\ from \in Stmts(prog) /\ pcbs = <<>> /\ times_from_seen \in Nat
      /\ (from \in reachable <=> times_from_seen > 0)
  BY DEF SearchInv, SearchTypeInv, ConstructInv, Done
<1>2. from \in reachable
  BY <1>1 DEF CompleteInv
<1>3. ASSUME NEW d \in Configs, Proper(d[1], d[2]), d[1] \in reachable, NEW e \in Leads(d)
      PROVE  Good(e)
  <2>1. d[1] \in Stmts(prog) /\ d[2] \in Seq(Stmts(prog)) /\ e \in Steps(prog, d[1], d[2])
    BY <1>3 DEF Configs, Leads
  <2>2. <<d[1], e[1]>> \in InterproceduralFlow(prog)
    BY <1>1, <1>3, <2>1, StepsAreFlow
  <2>3. Proper(e[1], e[2]) /\ e \in Configs
    BY <1>1, <1>3, <2>1, StepsStayProper, StepsAreConfigs
  <2>4. Met(e[1]) \/ Waits(e[1])
    BY <1>3, <2>2 DEF CompleteInv
  <2>5. ~Waits(e[1])
    <3>1. 1..Len(pcbs) = {}
      BY <1>1
    <3>2. QED
      BY <3>1 DEF Waits
  <2>6. QED
    BY <2>3, <2>4, <2>5
<1>4. \A e \in Leads(<<from, <<>>>>) : Good(e)
  <2> DEFINE d == <<from, <<>>>>
  <2>1. d \in Configs /\ d[1] = from /\ d[2] = <<>>
    <3>1. <<>> \in Seq(Stmts(prog))
      OBVIOUS
    <3>2. QED
      BY <1>1, <3>1 DEF Configs
  <2>2. Proper(from, <<>>)
    BY <1>1, EmptyIsProper
  <2> HIDE DEF d, Good
  <2>3. Proper(d[1], d[2]) /\ d[1] \in reachable
    BY <1>2, <2>1, <2>2
  <2>4. \A e \in Leads(d) : Good(e)
    BY <1>3, <2>1, <2>3
  <2>5. QED
    BY <2>4 DEF d
<1>5. \A m \in Nat : w[m] = IF m = 0 THEN {} ELSE Leads(<<from, <<>>>>) \cup UNION {Leads(d) : d \in w[m - 1]}
  BY <1>1, ExecutedWithinEquation
<1>6. \A d : Good(d) => d \in Configs /\ Proper(d[1], d[2]) /\ d[1] \in reachable
  BY DEF Met
<1> HIDE DEF w, Good
<1>7. ASSUME Bad # {}
      PROVE  FALSE
  <2>1. PICK m \in Bad : \A k \in Bad : m <= k
    <3>1. Bad \in SUBSET Nat
      OBVIOUS
    <3> HIDE DEF Bad
    <3>2. QED
      BY <1>7, <3>1, LeastElement
  <2>2. m \in Nat
    OBVIOUS
  <2>3. PICK e \in w[m] : ~Good(e)
    OBVIOUS
  <2>4. m # 0 /\ e \in Leads(<<from, <<>>>>) \cup UNION {Leads(d) : d \in w[m - 1]}
    BY <1>5, <2>2, <2>3
  <2>5. m - 1 \in Nat /\ ~(m <= m - 1)
    BY <2>2, <2>4
  <2>6. \A d \in w[m - 1] : Good(d)
    BY <2>1, <2>5
  <2>7. PICK d \in w[m - 1] : e \in Leads(d)
    BY <1>4, <2>3, <2>4
  <2>8. QED
    BY <1>3, <1>6, <2>3, <2>6, <2>7
<1>8. Good(c)
  <2>1. c \in w[n]
    BY DEF w
  <2>2. QED
    BY <1>7, <2>1
<1>9. QED
  BY <1>8 DEF Good

\* With nothing waiting, what executions reach is inserted.
LEMMA SimpleSearchInvImpliesComplete ==
  ASSUME SimpleSearchInv
  PROVE  NoNextBipTMissedIfSimple
<1> SUFFICES ASSUME Done, IsSimple(prog), NEW t \in ExecutedAfter(prog, from, 2 * NumHops(prog))
             PROVE  t \in Inserted
  BY DEF NoNextBipTMissedIfSimple, NoNextBipTMissed
<1>1. SearchInv /\ CompleteInv
  BY DEF SimpleSearchInv, Done
<1>2. PICK c \in ExecutedWithin(prog, from)[2 * NumHops(prog)] : t = c[1]
  BY DEF ExecutedAfter
<1>3. 2 * NumHops(prog) \in Nat
  BY <1>1, HopsAreNatural DEF SearchInv, ConstructInv
<1>4. Met(t)
  BY <1>1, <1>2, <1>3, ExecutedIsMet
<1>5. QED
  BY <1>4 DEF Met, Inserted

(***************************************************************************)
(* In a program in which no procedure is called by two statements, no call *)
(* is in a loop and no procedure that is called has one, the bounds on hops *)
(* and visits cut off nothing: everything that an execution with matching  *)
(* calls and returns reaches from a statement is inserted as NextBip* of it. *)
(***************************************************************************)
THEOREM NextBipTIsComplete == Spec => []NoNextBipTMissedIfSimple
BY SimpleSearchInvHolds, SimpleSearchInvImpliesComplete, PTL

(***************************************************************************)
(* The assertions in the search: the number of successors of a statement   *)
(* follows from the tree, and the joined graph adds none unless control    *)
(* leaves the procedure.                                                   *)
(***************************************************************************)
\* What comes after the end of a list is not below the statements in it.
LEMMA AfterIsOutside ==
  ASSUME prog \in Programs, NEW s \in Stmts(prog), NEW t \in After(prog.ast)[s]
  PROVE  t \in Stmts(prog) /\ ParentOf(prog.ast, t) < s
<1> DEFINE ast == prog.ast
           Outside(y, x) == y \in Stmts(prog) /\ ParentOf(ast, y) < x
           Bad == {x \in Stmts(prog) : \E y \in After(ast)[x] : ~Outside(y, x)}
<1>1. Stmts(prog) \subseteq Nat \ {0} /\ DOMAIN ast = Stmts(prog)
  BY BipAssumption DEF IsProgram, Stmts
<1>2. \A x \in Stmts(prog) : ParentOf(ast, x) < x /\ ParentOf(ast, x) \in Nat
  <2> TAKE x \in Stmts(prog)
  <2>1. CASE ast[x].list.in = "procedure"
    BY <1>1, <2>1 DEF ParentOf
  <2>2. CASE ast[x].list.in # "procedure"
    <3>1. ast[x].list.of \in Stmts(prog) /\ ast[x].list.of < x
      BY <2>2, AroundIsBefore
    <3>2. QED
      BY <1>1, <2>2, <3>1 DEF ParentOf
  <2>3. QED
    BY <2>1, <2>2
<1>3. ASSUME NEW x \in Stmts(prog), ~IsLast(ast, x)
      PROVE  Sibling(ast, x) \in Stmts(prog) /\ ast[Sibling(ast, x)].list = ast[x].list
  <2> DEFINE C == Children(ast, ast[x].list)
             Later == {u \in C : u > x}
             IsNext(u) == u > x /\ \A v \in C : v > x => u <= v
  <2>1. C \subseteq Stmts(prog) /\ \A u \in C : ast[u].list = ast[x].list
    BY <1>1 DEF Children
  <2>2. Later # {}
    <3>1. PICK u \in C : ~(u <= x)
      BY <1>3 DEF IsLast
    <3>2. u \in Nat /\ x \in Nat
      BY <1>1, <2>1
    <3>3. QED
      BY <3>1, <3>2
  <2>3. Later \in SUBSET Nat
    BY <1>1, <2>1
  <2>4. \E u \in C : IsNext(u)
    <3>1. PICK u \in Later : \A v \in Later : u <= v
      <4> HIDE DEF Later
      <4> QED
        BY <2>2, <2>3, LeastElement
    <3>2. QED
      BY <3>1
  <2>5. Sibling(ast, x) = CHOOSE u \in C : IsNext(u)
    BY DEF Sibling
  <2> HIDE DEF C, IsNext
  <2>6. Sibling(ast, x) \in C
    BY <2>4, <2>5, Zenon
  <2>7. QED
    BY <2>1, <2>6
<1>4. \A x \in Stmts(prog) : \A y \in AfterHere(ast, x) : Outside(y, x)
  <2> TAKE x \in Stmts(prog)
  <2> TAKE y \in AfterHere(ast, x)
  <2>1. CASE ~IsLast(ast, x)
    <3>1. y \in Stmts(prog) /\ ast[y].list = ast[x].list
      BY <1>3, <2>1 DEF AfterHere
    <3>2. ParentOf(ast, y) = ParentOf(ast, x)
      BY <3>1 DEF ParentOf
    <3>3. QED
      BY <1>2, <3>1, <3>2
  <2>2. CASE IsLast(ast, x)
    <3>1. y = ast[x].list.of /\ ast[x].list.in # "procedure"
      BY <2>2 DEF AfterHere
    <3>2. y \in Stmts(prog) /\ y < x
      BY <3>1, AroundIsBefore
    <3>3. ParentOf(ast, y) < y /\ ParentOf(ast, y) \in Nat
      BY <1>2, <3>2
    <3>4. PICK q \in Nat : q = ParentOf(ast, y)
      BY <3>3
    <3>5. QED
      BY <1>1, <3>2, <3>3, <3>4
  <2>3. QED
    BY <2>1, <2>2
<1>5. ASSUME Bad # {}
      PROVE  FALSE
  <2>1. PICK x \in Bad : \A y \in Bad : x <= y
    <3>1. Bad \in SUBSET Nat
      BY <1>1
    <3> HIDE DEF Bad
    <3>2. QED
      BY <1>5, <3>1, LeastElement
  <2>2. PICK y \in After(ast)[x] : ~Outside(y, x)
    OBVIOUS
  <2>3. x \in Stmts(prog)
    OBVIOUS
  <2> DEFINE q == ast[x].list.of
  <2>4. InsideIf(ast, x) /\ y \in After(ast)[q]
    BY <1>4, <2>2, <2>3, AfterEquation
  <2>5. q \in Stmts(prog) /\ q < x
    BY <2>3, <2>4, AroundIsBefore DEF InsideIf
  <2>6. q \notin Bad
    BY <1>1, <2>1, <2>3, <2>5
  <2>7. y \in Stmts(prog) /\ ParentOf(ast, y) < q
    BY <2>4, <2>5, <2>6
  <2> HIDE DEF q, Bad
  <2>8. PICK z \in Nat : z = ParentOf(ast, y)
    BY <1>2, <2>7
  <2>9. QED
    BY <1>1, <2>2, <2>3, <2>5, <2>7, <2>8
<1>6. QED
  BY <1>5

\* The first statement of a list that is not empty is in it.
LEMMA FirstIsInList ==
  ASSUME prog \in Programs, NEW list, Children(prog.ast, list) # {}
  PROVE  FirstStmt(prog.ast, list) \in Stmts(prog) /\ prog.ast[FirstStmt(prog.ast, list)].list = list
<1> DEFINE C == Children(prog.ast, list)
<1>1. C \in SUBSET Nat /\ \A t : t \in C <=> t \in Stmts(prog) /\ prog.ast[t].list = list
  BY BipAssumption DEF IsProgram, Stmts, Children
<1>2. FirstStmt(prog.ast, list) = CHOOSE s \in C : \A t \in C : s <= t
  BY DEF FirstStmt
<1>3. C # {}
  OBVIOUS
<1> HIDE DEF C
<1>4. \E s \in C : \A t \in C : s <= t
  BY <1>1, <1>3, LeastElement
<1>5. FirstStmt(prog.ast, list) \in C
  BY <1>2, <1>4, Zenon
<1>6. QED
  BY <1>1, <1>5

LEMMA TwoAreTwo == ASSUME NEW t, NEW u, t # u PROVE Cardinality({t, u}) = 2
<1>1. IsFiniteSet({t}) /\ Cardinality({t}) = 1 /\ u \notin {t}
  BY FS_Singleton
<1>2. Cardinality({t} \cup {u}) = Cardinality({t}) + 1
  BY <1>1, FS_AddElement
<1>3. {t} \cup {u} = {t, u}
  OBVIOUS
<1>4. QED
  BY <1>1, <1>2, <1>3

\* How many successors a statement has in its procedure.
LEMMA SuccessorsCounted ==
  ASSUME prog \in Programs, NEW s \in Stmts(prog)
  PROVE  /\ prog.kind[s] \notin {"if", "while"} => prog.next[s] = {} \/ \E t : prog.next[s] = {t}
         /\ prog.kind[s] = "if" => Cardinality(prog.next[s]) = 2
         /\ prog.kind[s] = "while" => Cardinality(prog.next[s]) \in {1, 2}
<1> DEFINE ast == prog.ast
           to(x) == CASE ast[x].kind = "if"    -> {FirstStmt(ast, Then(x)), FirstStmt(ast, Else(x))}
                      [] ast[x].kind = "while" -> {FirstStmt(ast, Body(x))} \cup After(ast)[x]
                      [] OTHER                 -> After(ast)[x]
<1>1. /\ DOMAIN ast = Stmts(prog) /\ prog.kind[s] = ast[s].kind
      /\ NextEdges(prog) = ControlFlow(ast)
      /\ \A k \in DOMAIN ListsBelow(ast, s) : Children(ast, ListsBelow(ast, s)[k]) # {}
      /\ Stmts(prog) \subseteq Nat \ {0}
  <2>1. IsProgram(prog)
    BY BipAssumption
  <2>2. IsAst(ast) /\ DOMAIN ast = Stmts(prog) /\ NextEdges(prog) = ControlFlow(ast) /\ prog.kind[s] = ast[s].kind
    BY <2>1 DEF IsProgram
  <2>3. \A x \in DOMAIN ast : \A k \in DOMAIN ListsBelow(ast, x) : Children(ast, ListsBelow(ast, x)[k]) # {}
    BY <2>2 DEF IsAst
  <2>4. Stmts(prog) \subseteq Nat \ {0}
    <3>1. prog.stmts \in Nat
      BY <2>1 DEF IsProgram
    <3>2. QED
      BY <3>1 DEF Stmts
  <2>5. QED
    BY <2>2, <2>3, <2>4
<1>2. ControlFlow(ast) = UNION {{x} \X to(x) : x \in Stmts(prog)}
  BY <1>1 DEF ControlFlow, After
<1>3. prog.next[s] = to(s)
  <2> HIDE DEF to
  <2>1. \A t : <<s, t>> \in ControlFlow(ast) <=> t \in to(s)
    BY <1>2
  <2>2. \A t : <<s, t>> \in NextEdges(prog) <=> t \in prog.next[s]
    BY ProgramProperties DEF NextEdges
  <2>3. QED
    BY <1>1, <2>1, <2>2
<1>4. After(ast)[s] = {} \/ \E t : After(ast)[s] = {t}
  <2>1. CASE After(ast)[s] = {}
    BY <2>1
  <2>2. ASSUME NEW t \in After(ast)[s]
        PROVE  After(ast)[s] = {t}
    <3>1. \A u \in After(ast)[s] : u = t
      BY OneComesAfter
    <3>2. QED
      BY <3>1
  <2>3. QED
    BY <2>1, <2>2
<1>5. CASE ast[s].kind = "if"
  <2>1. ListsBelow(ast, s) = <<Then(s), Else(s)>>
    BY <1>5 DEF ListsBelow
  <2>2. Children(ast, Then(s)) # {} /\ Children(ast, Else(s)) # {}
    BY <1>1, <2>1
  <2>3. PICK t, u : t = FirstStmt(ast, Then(s)) /\ u = FirstStmt(ast, Else(s))
    OBVIOUS
  <2>4. ast[t].list = Then(s) /\ ast[u].list = Else(s)
    BY <2>2, <2>3, FirstIsInList
  <2>5. t # u
    BY <2>4 DEF Then, Else
  <2>6. prog.next[s] = {t, u}
    BY <1>3, <1>5, <2>3
  <2>7. Cardinality({t, u}) = 2
    BY <2>5, TwoAreTwo
  <2>8. QED
    BY <1>1, <1>5, <2>6, <2>7
<1>6. CASE ast[s].kind = "while"
  <2>1. ListsBelow(ast, s) = <<Body(s)>>
    BY <1>6 DEF ListsBelow
  <2>2. Children(ast, Body(s)) # {}
    BY <1>1, <2>1
  <2>3. PICK t : t = FirstStmt(ast, Body(s))
    OBVIOUS
  <2>4. ParentOf(ast, t) = s
    BY <2>2, <2>3, FirstIsInList DEF Body, ParentOf
  <2>5. prog.next[s] = {t} \cup After(ast)[s]
    BY <1>3, <1>6, <2>3
  <2>6. CASE After(ast)[s] = {}
    <3>1. prog.next[s] = {t}
      BY <2>5, <2>6
    <3>2. QED
      BY <1>1, <1>6, <3>1, FS_Singleton
  <2>7. ASSUME NEW u, After(ast)[s] = {u}
        PROVE  Cardinality(prog.next[s]) = 2
    <3>1. ParentOf(ast, u) < s
      BY <2>7, AfterIsOutside
    <3>2. ~(s < s)
      BY <1>1
    <3>3. t # u
      BY <2>4, <3>1, <3>2
    <3>4. prog.next[s] = {t, u}
      BY <2>5, <2>7
    <3>5. Cardinality({t, u}) = 2
      BY <3>3, TwoAreTwo
    <3>6. QED
      BY <3>4, <3>5
  <2>8. QED
    BY <1>1, <1>4, <1>6, <2>6, <2>7
<1>7. CASE ast[s].kind \notin {"if", "while"}
  BY <1>1, <1>3, <1>4, <1>7
<1>8. QED
  BY <1>5, <1>6, <1>7

LEMMA SearchInvImpliesAssertions ==
  ASSUME SearchInv
  PROVE  NoAssertionFails
<1>1. ConstructInv /\ AssertionsHold
  BY InvImpliesAssertions DEF SearchInv
<1>2. SUFFICES ASSUME from # 0, pcbs # <<>>
               PROVE  LET s == Head(pcbs).cur_sn
                          edges == Cardinality(Successors(cfgbip, s))
                          exit == IsExitStmt(prog, s)
                      IN  /\ s \in CallStmts(prog) => edges = 1 /\ (exit \/ Cardinality(prog.next[s]) = 1)
                          /\ s \notin CallStmts(prog) => exit \/ edges = IF prog.kind[s] \in {"if", "while"} THEN 2 ELSE 1
  BY <1>1 DEF NoAssertionFails, SearchAssertionsHold
<1>3. prog \in Programs /\ pcbs \in Seq(Pcbs) /\ Constructed
  BY <1>1, <1>2 DEF SearchInv, SearchTypeInv, ConstructInv
<1> DEFINE s == Head(pcbs).cur_sn
           out == Successors(cfgbip, s)
<1>4. s \in Stmts(prog)
  <2>1. Head(pcbs) \in Pcbs
    BY <1>2, <1>3
  <2>2. QED
    BY <2>1 DEF Pcbs
<1>5. cfgbip = InterproceduralFlow(prog)
  BY <1>1, <1>3, InvImpliesFlow DEF CfgBipIsFlow
<1>6. cfgbip \subseteq Stmts(prog) \X Stmts(prog)
  BY <1>3, <1>5, FlowIsOfStmts
<1>7. \A t : t \in out <=> <<s, t>> \in InterproceduralFlow(prog)
  BY <1>5, <1>6 DEF Successors
<1> HIDE DEF s, out
<1>8. CASE s \in CallStmts(prog)
  <2>1. \A d \in CallStmts(prog) : s \notin ReturnsFrom(prog, prog.callee[d])
    BY <1>8 DEF ReturnsFrom, IsReturn
  <2>2. Entry(prog, prog.callee[s]) \in Stmts(prog)
    BY <1>3, <1>8, ProgramProperties
  <2>3. out = {Entry(prog, prog.callee[s])}
    BY <1>3, <1>4, <1>7, <1>8, <2>1, <2>2, FlowCases
  <2>4. prog.kind[s] = "call"
    BY <1>8 DEF CallStmts
  <2>5. prog.next[s] = {} \/ \E t : prog.next[s] = {t}
    BY <1>3, <1>4, <2>4, SuccessorsCounted
  <2>6. IsExitStmt(prog, s) <=> prog.next[s] = {}
    BY <1>3, <1>4, <1>8, ExitIsReturn
  <2>7. \A t : Cardinality({t}) = 1
    BY FS_Singleton
  <2>8. QED
    BY <1>8, <2>3, <2>5, <2>6, <2>7 DEF s, out
<1>9. CASE s \notin CallStmts(prog)
  <2> SUFFICES ASSUME ~IsExitStmt(prog, s)
               PROVE  Cardinality(out) = IF prog.kind[s] \in {"if", "while"} THEN 2 ELSE 1
    BY <1>9 DEF s, out
  <2>1. ~IsReturn(prog, s)
    BY <1>3, <1>4, <1>9, ExitIsReturn
  <2>2. \A d \in CallStmts(prog) : s \notin ReturnsFrom(prog, prog.callee[d])
    BY <2>1 DEF ReturnsFrom
  <2>3. prog.next[s] \subseteq Stmts(prog)
    BY <1>3, <1>4, ProgramProperties
  <2>4. out = prog.next[s]
    <3>1. \A t : t \in out <=> t \in prog.next[s]
      BY <1>3, <1>4, <1>7, <1>9, <2>2, <2>3, FlowCases
    <3>2. QED
      BY <3>1
  <2>5. \A t : Cardinality({t}) = 1
    BY FS_Singleton
  <2>6. prog.kind[s] \in {"assign", "read", "print", "call", "while", "if"}
    BY <1>3, <1>4, BipAssumption DEF IsProgram
  <2>7. prog.kind[s] # "call"
    BY <1>4, <1>9 DEF CallStmts
  <2>8. CASE prog.kind[s] = "if"
    BY <1>3, <1>4, <2>4, <2>8, SuccessorsCounted
  <2>9. CASE prog.kind[s] = "while"
    <3>1. Cardinality(prog.next[s]) # 1
      BY <2>9 DEF IsExitStmt
    <3>2. QED
      BY <1>3, <1>4, <2>4, <2>9, <3>1, SuccessorsCounted
  <2>10. CASE prog.kind[s] \in {"assign", "read", "print"}
    <3>1. prog.next[s] # {}
      BY <2>10 DEF IsExitStmt
    <3>2. QED
      BY <1>3, <1>4, <2>4, <2>5, <2>10, <3>1, SuccessorsCounted
  <2>11. QED
    BY <2>6, <2>7, <2>8, <2>9, <2>10
<1>10. QED
  BY <1>8, <1>9 DEF s, out

(***************************************************************************)
(* No assertion stops the two handlers, for any program without recursion: *)
(* the edge into a callee is new, the edges behind a call are there when   *)
(* they are erased, and the search meets only statements with as many      *)
(* successors in the joined graph as their kinds have.                     *)
(***************************************************************************)
THEOREM NoAssertionEverFails == Spec => []NoAssertionFails
BY SearchInvHolds, SearchInvImpliesAssertions, PTL
=============================================================================
