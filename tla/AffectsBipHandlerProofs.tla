---------------------- MODULE AffectsBipHandlerProofs -----------------------
(***************************************************************************)
(* Proofs about GraphExplosion and AffectsBipHandler, for every program of *)
(* procedures without recursion: the exploded graph has the steps of the   *)
(* executions, the walks over it insert the pairs of definitions and uses  *)
(* of copies, and the closure joins statements whose copies are joined.    *)
(*                                                                         *)
(* In this order: reachability; the syntax tree of a procedure and the     *)
(* flow of control in it; the ends of a procedure; the chains of calls;    *)
(* the copies and the steps between them; ExplodeGraph with its stack of   *)
(* activations; the searches and walks; the closure; and the invariant of  *)
(* the three phases together.                                              *)
(***************************************************************************)
EXTENDS AffectsBipHandler, FiniteSetTheorems, WellFoundedInduction, SequenceTheorems, TLAPS

\* Every non-empty set of numbers has a least one; GreatestElement is its
\* counterpart.
LEMMA LeastElement ==
  ASSUME NEW S \in SUBSET Nat, S # {}
  PROVE  \E i \in S : \A j \in S : i <= j
<1>1. PICK i \in S : \A j \in S : ~(<<j, i>> \in OpToRel(<, Nat))
  BY NatLessThanWellFounded, WFMin, Zenon
<1>2. ASSUME NEW j \in S, ~(i <= j)
      PROVE  FALSE
  <2>1. i \in Nat /\ j \in Nat /\ j < i
    BY <1>2
  <2>2. <<j, i>> \in OpToRel(<, Nat)
    BY <2>1 DEF OpToRel
  <2> QED
    BY <1>1, <2>2
<1> QED
  BY <1>2

\* What is in a finite set of numbers has a greatest, too.
LEMMA GreatestElement ==
  ASSUME NEW n \in Nat, NEW S \in SUBSET (0..n), S # {}
  PROVE  \E i \in S : \A j \in S : j <= i
<1> DEFINE T == {n - i : i \in S}
<1>1. T \in SUBSET Nat /\ T # {}
  <2>1. \A i \in S : i \in 0..n
    OBVIOUS
  <2>2. \A i \in 0..n : n - i \in Nat
    OBVIOUS
  <2> QED
    BY <2>1, <2>2
<1>2. PICK t \in T : \A u \in T : t <= u
  <2> HIDE DEF T
  <2> QED
    BY <1>1, LeastElement
<1>3. PICK i \in S : t = n - i
  OBVIOUS
<1>4. \A j \in S : n - i <= n - j
  BY <1>2, <1>3
<1> QED
  BY <1>4

\* A successor is the end of an edge.
LEMMA SuccessorsAreEnds ==
  ASSUME NEW N, NEW E \in SUBSET (N \X N), NEW a, NEW b
  PROVE  b \in Successors(E, a) <=> <<a, b>> \in E
<1>1. ASSUME b \in Successors(E, a)
      PROVE  <<a, b>> \in E
  <2>1. PICK e \in E : e[1] = a /\ b = e[2]
    BY <1>1 DEF Successors
  <2>2. e = <<e[1], e[2]>>
    OBVIOUS
  <2> QED
    BY <2>1, <2>2
<1>2. ASSUME <<a, b>> \in E
      PROVE  b \in Successors(E, a)
  <2>1. <<a, b>>[1] = a /\ <<a, b>>[2] = b
    OBVIOUS
  <2> QED
    BY <1>2, <2>1 DEF Successors
<1> QED
  BY <1>1, <1>2

\* What is reachable from a node holds its successors and those of its
\* members.
LEMMA ReachableIsClosed ==
  ASSUME NEW N, NEW E \in SUBSET (N \X N), NEW a
  PROVE  /\ Successors(E, a) \subseteq ReachableFrom(E, N, a)
         /\ \A m \in ReachableFrom(E, N, a) : Successors(E, m) \subseteq ReachableFrom(E, N, a)
<1>1. \A e \in E : e[1] \in N /\ e[2] \in N
  OBVIOUS
<1>2. Successors(E, a) \subseteq ReachableFrom(E, N, a)
  BY <1>1 DEF Successors, ReachableFrom, ClosedFrom
<1>3. ASSUME NEW m \in ReachableFrom(E, N, a), NEW e \in E, e[1] = m
      PROVE  e[2] \in ReachableFrom(E, N, a)
  BY <1>1, <1>3 DEF ReachableFrom, ClosedFrom
<1> QED
  BY <1>2, <1>3 DEF Successors

\* Whatever holds the successors of a and of its own members holds all of them.
LEMMA ReachableIsLeast ==
  ASSUME NEW N, NEW E, NEW a, NEW S \in SUBSET N,
         Successors(E, a) \subseteq S, \A m \in S : Successors(E, m) \subseteq S
  PROVE  ReachableFrom(E, N, a) \subseteq S
<1>1. ClosedFrom(E, a, S)
  BY DEF ClosedFrom, Successors
<1> QED
  BY <1>1 DEF ReachableFrom

\* What a node reaches are its successors and what they reach.
LEMMA ReachableUnfolds ==
  ASSUME NEW N, NEW E \in SUBSET (N \X N), NEW a
  PROVE  ReachableFrom(E, N, a) = UNION {{b} \cup ReachableFrom(E, N, b) : b \in Successors(E, a)}
<1> DEFINE S == UNION {{b} \cup ReachableFrom(E, N, b) : b \in Successors(E, a)}
<1>1. S \in SUBSET N
  BY DEF Successors, ReachableFrom
<1>2. Successors(E, a) \subseteq S
  OBVIOUS
<1>3. ASSUME NEW m \in S
      PROVE  Successors(E, m) \subseteq S
  <2>1. PICK b \in Successors(E, a) : m \in {b} \cup ReachableFrom(E, N, b)
    OBVIOUS
  <2>2. Successors(E, m) \subseteq ReachableFrom(E, N, b)
    BY <2>1, ReachableIsClosed
  <2> QED
    BY <2>2
<1>4. ASSUME NEW b \in Successors(E, a)
      PROVE  {b} \cup ReachableFrom(E, N, b) \subseteq ReachableFrom(E, N, a)
  <2>1. b \in ReachableFrom(E, N, a) /\ ReachableFrom(E, N, a) \in SUBSET N
    BY ReachableIsClosed DEF ReachableFrom
  <2>2. ReachableFrom(E, N, b) \subseteq ReachableFrom(E, N, a)
    BY <2>1, ReachableIsClosed, ReachableIsLeast
  <2> QED
    BY <2>1, <2>2
<1> HIDE DEF S
<1>5. ReachableFrom(E, N, a) \subseteq S
  BY <1>1, <1>2, <1>3, ReachableIsLeast
<1> QED
  BY <1>4, <1>5 DEF S

(***************************************************************************)
(* A function that collects its own part and what its successors have      *)
(* collected exists, whatever the edges are.                               *)
(***************************************************************************)
Collects(f, N, E, own) == f = [n \in N |-> own[n] \cup UNION {f[m] : m \in Successors(E, n)}]

\* On an acyclic graph of which nothing more is known, a function that
\* collects what the successors have collected exists: that of the paths.
LEMMA CollectingExists ==
  ASSUME NEW N, NEW E \in SUBSET (N \X N), NEW own
  PROVE  \E f : Collects(f, N, E, own)
<1> DEFINE R(n) == ReachableFrom(E, N, n)
           f == [n \in N |-> own[n] \cup UNION {own[m] : m \in R(n)}]
<1>1. \A n \in N : Successors(E, n) \subseteq N
  BY DEF Successors
<1>2. \A n \in N : R(n) = UNION {{b} \cup R(b) : b \in Successors(E, n)}
  BY ReachableUnfolds
<1> HIDE DEF R
<1>3. ASSUME NEW n \in N
      PROVE  f[n] = own[n] \cup UNION {f[m] : m \in Successors(E, n)}
  <2>1. ASSUME NEW x, x \in UNION {own[m] : m \in R(n)}
        PROVE  x \in UNION {f[m] : m \in Successors(E, n)}
    <3>1. PICK m \in R(n) : x \in own[m]
      BY <2>1
    <3>2. PICK b \in Successors(E, n) : m \in {b} \cup R(b)
      BY <1>2
    <3>3. b \in N /\ x \in f[b]
      BY <1>1, <3>1, <3>2
    <3> QED
      BY <3>2, <3>3
  <2>2. ASSUME NEW x, x \in UNION {f[m] : m \in Successors(E, n)}
        PROVE  x \in UNION {own[m] : m \in R(n)}
    <3>1. PICK b \in Successors(E, n) : x \in f[b]
      BY <2>2
    <3>2. b \in N
      BY <1>1
    <3>3. PICK m \in {b} \cup R(b) : x \in own[m]
      BY <3>1, <3>2
    <3>4. m \in R(n)
      BY <1>2
    <3> QED
      BY <3>3, <3>4
  <2> QED
    BY <2>1, <2>2
<1>4. f = [n \in N |-> own[n] \cup UNION {f[m] : m \in Successors(E, n)}]
  BY <1>3
<1> QED
  BY <1>4 DEF Collects

\* A program, with what the proofs use of IsProgram.
LEMMA ProgramProperties ==
  ASSUME NEW p, IsProgram(p)
  PROVE  /\ p.stmts \in Nat /\ Stmts(p) = 1..p.stmts /\ IsFiniteSet(Stmts(p)) /\ DOMAIN p.ast = Stmts(p)
         /\ \A n \in Node : StmtsOf(p, n) \subseteq Stmts(p) /\ Entry(p, n) \in StmtsOf(p, n)
         /\ \A s \in Stmts(p) : \E n \in Node : s \in StmtsOf(p, n)
         /\ \A m, n \in Node : m = n \/ StmtsOf(p, m) \cap StmtsOf(p, n) = {}
         /\ \A n \in Node : \A s \in StmtsOf(p, n) : Entry(p, n) <= s /\ p.next[s] \subseteq StmtsOf(p, n)
         /\ p.callee \in [CallStmts(p) -> Node]
         /\ p.next \in [Stmts(p) -> SUBSET Stmts(p)]
         /\ \A s \in Stmts(p) : p.kind[s] = p.ast[s].kind
<1>1. p.stmts \in Nat /\ Stmts(p) = 1..p.stmts
  BY DEF IsProgram, Stmts
<1>2. IsFiniteSet(Stmts(p))
  BY <1>1, FS_Interval
<1>3. \A n \in Node : StmtsOf(p, n) \subseteq Stmts(p) /\ \A s \in StmtsOf(p, n) : Entry(p, n) <= s
  <2> TAKE n \in Node
  <2>1. p.range[n] \in [first : Stmts(p), last : Stmts(p)]
    BY DEF IsProgram
  <2>2. p.range[n].first \in 1..p.stmts /\ p.range[n].last \in 1..p.stmts
    BY <1>1, <2>1
  <2> QED
    BY <1>1, <2>2 DEF StmtsOf, Entry
<1> QED
  BY <1>1, <1>2, <1>3 DEF IsProgram

(***************************************************************************)
(* The shape of the tree.                                                  *)
(***************************************************************************)
InBody(p, s, q) == q < s /\ p.kind[q] = "while" /\ p.ast[s].list = Body(q)
InBranch(p, s, q) == q < s /\ p.kind[q] = "if" /\ p.ast[s].list \in {Then(q), Else(q)}

\* A list of a procedure, and what is nested in it.
IsTreeOf(p, n, list) ==
  /\ list.in = "procedure"
  /\ Children(p.ast, list) \subseteq StmtsOf(p, n)
  /\ \A s \in StmtsOf(p, n) : p.ast[s].list = list \/ \E q \in StmtsOf(p, n) : InBody(p, s, q) \/ InBranch(p, s, q)

\* The lists below a while statement and below an if statement.
LEMMA ListsBelowAre ==
  ASSUME NEW a, NEW q
  PROVE  /\ \A k \in DOMAIN ListsBelow(a, q) :
              \/ a[q].kind = "while" /\ ListsBelow(a, q)[k] = Body(q)
              \/ a[q].kind = "if" /\ ListsBelow(a, q)[k] \in {Then(q), Else(q)}
         /\ a[q].kind = "while" => \E k \in DOMAIN ListsBelow(a, q) : ListsBelow(a, q)[k] = Body(q)
         /\ a[q].kind = "if" => /\ \E k \in DOMAIN ListsBelow(a, q) : ListsBelow(a, q)[k] = Then(q)
                                /\ \E k \in DOMAIN ListsBelow(a, q) : ListsBelow(a, q)[k] = Else(q)
<1>1. \A x, y : /\ DOMAIN <<x>> = {1} /\ <<x>>[1] = x
                /\ DOMAIN <<x, y>> = {1, 2} /\ <<x, y>>[1] = x /\ <<x, y>>[2] = y
  OBVIOUS
<1>2. CASE a[q].kind = "while"
  <2>1. ListsBelow(a, q) = <<Body(q)>>
    BY <1>2 DEF ListsBelow
  <2> QED
    BY <1>1, <1>2, <2>1
<1>3. CASE a[q].kind = "if"
  <2>1. ListsBelow(a, q) = <<Then(q), Else(q)>>
    BY <1>3 DEF ListsBelow
  <2> QED
    BY <1>1, <1>3, <2>1
<1>4. CASE a[q].kind \notin {"while", "if"}
  <2>1. ListsBelow(a, q) = <<>>
    BY <1>4 DEF ListsBelow
  <2> QED
    BY <1>4, <2>1
<1> QED
  BY <1>2, <1>3, <1>4

\* The statements of a procedure are a tree, whose root is the list that its
\* first statement is in.
LEMMA ProcedureIsTree ==
  ASSUME NEW p, IsProgram(p), NEW n \in Node
  PROVE  \E list : IsTreeOf(p, n, list) /\ Entry(p, n) \in Children(p.ast, list)
<1>1. PICK k : /\ Children(p.ast, Procedure(k)) \subseteq StmtsOf(p, n)
               /\ \A s \in StmtsOf(p, n) : p.ast[s].list = Procedure(k) \/ ParentOf(p.ast, s) \in StmtsOf(p, n)
  BY DEF IsProgram
<1>2. /\ p.stmts \in Nat /\ StmtsOf(p, n) \subseteq 1..p.stmts /\ DOMAIN p.ast = 1..p.stmts
      /\ Entry(p, n) \in StmtsOf(p, n)
      /\ \A s \in StmtsOf(p, n) : Entry(p, n) <= s
      /\ \A s \in StmtsOf(p, n) : p.kind[s] = p.ast[s].kind
  BY ProgramProperties
<1>3. \A s \in DOMAIN p.ast : LET q == ParentOf(p.ast, s) IN
        q # 0 => q < s /\ \E j \in DOMAIN ListsBelow(p.ast, q) : ListsBelow(p.ast, q)[j] = p.ast[s].list
  BY DEF IsProgram, IsAst
<1>4. ASSUME NEW s \in StmtsOf(p, n), p.ast[s].list # Procedure(k)
      PROVE  \E q \in StmtsOf(p, n) : InBody(p, s, q) \/ InBranch(p, s, q)
  <2> DEFINE q == ParentOf(p.ast, s)
  <2>1. q \in StmtsOf(p, n)
    BY <1>1, <1>4
  <2>2. q # 0 /\ s \in DOMAIN p.ast
    BY <1>2, <2>1
  <2>3. q < s /\ \E j \in DOMAIN ListsBelow(p.ast, q) : ListsBelow(p.ast, q)[j] = p.ast[s].list
    BY <1>3, <2>2
  <2> HIDE DEF q
  <2>4. \/ p.ast[q].kind = "while" /\ p.ast[s].list = Body(q)
        \/ p.ast[q].kind = "if" /\ p.ast[s].list \in {Then(q), Else(q)}
    BY <2>3, ListsBelowAre
  <2> QED
    BY <1>2, <2>1, <2>3, <2>4 DEF InBody, InBranch
<1>5. Procedure(k).in = "procedure"
  BY DEF Procedure
<1>6. p.ast[Entry(p, n)].list = Procedure(k)
  <2>1. \A q \in StmtsOf(p, n) : ~(q < Entry(p, n))
    BY <1>2
  <2> QED
    BY <1>2, <1>4, <2>1 DEF InBody, InBranch
<1>7. IsTreeOf(p, n, Procedure(k))
  BY <1>1, <1>4, <1>5 DEF IsTreeOf
<1>8. Entry(p, n) \in Children(p.ast, Procedure(k))
  BY <1>2, <1>6 DEF Children
<1> QED
  BY <1>7, <1>8

\* The first and the last of a list.
LEMMA FirstAndLast ==
  ASSUME NEW p, IsProgram(p), NEW list, Children(p.ast, list) # {}
  PROVE  /\ FirstStmt(p.ast, list) \in Stmts(p) /\ p.ast[FirstStmt(p.ast, list)].list = list
         /\ LastStmt(p.ast, list) \in Stmts(p) /\ p.ast[LastStmt(p.ast, list)].list = list
         /\ \A t \in Stmts(p) : p.ast[t].list = list => t <= LastStmt(p.ast, list)
<1> DEFINE C == Children(p.ast, list)
<1>1. C \in SUBSET (1..p.stmts) /\ p.stmts \in Nat /\ Stmts(p) = 1..p.stmts
  BY ProgramProperties DEF Children
<1>2. \A t : t \in C <=> t \in Stmts(p) /\ p.ast[t].list = list
  BY ProgramProperties DEF Children
<1>3. C # {}
  OBVIOUS
<1>4. FirstStmt(p.ast, list) = CHOOSE s \in C : \A t \in C : s <= t
  BY DEF FirstStmt
<1>5. LastStmt(p.ast, list) = CHOOSE s \in C : \A t \in C : s >= t
  BY DEF LastStmt
<1> HIDE DEF C
<1>6. \E s \in C : \A t \in C : s <= t
  BY <1>1, <1>3, LeastElement
<1>7. \E s \in C : \A t \in C : s >= t
  <2>1. C \in SUBSET (0..p.stmts)
    BY <1>1
  <2>2. PICK s \in C : \A t \in C : t <= s
    BY <1>1, <1>3, <2>1, GreatestElement
  <2> QED
    BY <1>1, <2>2
<1>8. FirstStmt(p.ast, list) \in C
  BY <1>4, <1>6, Zenon
<1>9. LastStmt(p.ast, list) \in C /\ \A t \in C : LastStmt(p.ast, list) >= t
  BY <1>5, <1>7, Zenon
<1> QED
  BY <1>1, <1>2, <1>8, <1>9

\* A container is not empty.
LEMMA ContainersAreFilled ==
  ASSUME NEW p, IsProgram(p), NEW s \in Stmts(p)
  PROVE  /\ p.kind[s] = "while" => Children(p.ast, Body(s)) # {}
         /\ p.kind[s] = "if" => Children(p.ast, Then(s)) # {} /\ Children(p.ast, Else(s)) # {}
<1>1. s \in DOMAIN p.ast /\ p.kind[s] = p.ast[s].kind
  BY ProgramProperties
<1>2. \A k \in DOMAIN ListsBelow(p.ast, s) : Children(p.ast, ListsBelow(p.ast, s)[k]) # {}
  BY <1>1 DEF IsProgram, IsAst
<1>3. ASSUME p.ast[s].kind = "while"
      PROVE  Children(p.ast, Body(s)) # {}
  <2>1. PICK k \in DOMAIN ListsBelow(p.ast, s) : ListsBelow(p.ast, s)[k] = Body(s)
    BY <1>3, ListsBelowAre
  <2> QED
    BY <1>2, <2>1
<1>4. ASSUME p.ast[s].kind = "if"
      PROVE  Children(p.ast, Then(s)) # {}
  <2>1. PICK k \in DOMAIN ListsBelow(p.ast, s) : ListsBelow(p.ast, s)[k] = Then(s)
    BY <1>4, ListsBelowAre
  <2> QED
    BY <1>2, <2>1
<1>5. ASSUME p.ast[s].kind = "if"
      PROVE  Children(p.ast, Else(s)) # {}
  <2>1. PICK k \in DOMAIN ListsBelow(p.ast, s) : ListsBelow(p.ast, s)[k] = Else(s)
    BY <1>5, ListsBelowAre
  <2> QED
    BY <1>2, <2>1
<1> QED
  BY <1>1, <1>3, <1>4, <1>5

\* IsLast finds the last statement of a list.
LEMMA LastIsLast ==
  ASSUME NEW p, IsProgram(p), NEW s \in Stmts(p)
  PROVE  IsLast(p.ast, s) <=> s = LastStmt(p.ast, p.ast[s].list)
<1> DEFINE l == LastStmt(p.ast, p.ast[s].list)
<1>1. s \in Children(p.ast, p.ast[s].list) /\ Stmts(p) \subseteq Nat
  BY ProgramProperties DEF Children
<1>2. l \in Stmts(p) /\ p.ast[l].list = p.ast[s].list /\ \A t \in Stmts(p) : p.ast[t].list = p.ast[s].list => t <= l
  BY <1>1, FirstAndLast
<1>3. IsLast(p.ast, s) <=> \A t \in Stmts(p) : p.ast[t].list = p.ast[s].list => t <= s
  BY ProgramProperties DEF IsLast, Children
<1> HIDE DEF l
<1> QED
  BY <1>1, <1>2, <1>3 DEF l

\* What follows a statement that is not the last follows it in its list.
LEMMA SiblingFollows ==
  ASSUME NEW p, IsProgram(p), NEW s \in Stmts(p), ~IsLast(p.ast, s)
  PROVE  Sibling(p.ast, s) \in Stmts(p) /\ p.ast[Sibling(p.ast, s)].list = p.ast[s].list /\ s < Sibling(p.ast, s)
<1> DEFINE C == Children(p.ast, p.ast[s].list)
           D == {t \in C : t > s}
<1>1. Stmts(p) \subseteq Nat /\ \A t : t \in C <=> t \in Stmts(p) /\ p.ast[t].list = p.ast[s].list
  BY ProgramProperties DEF Children
<1>2. Sibling(p.ast, s) = CHOOSE v \in C : v > s /\ \A u \in C : u > s => v <= u
  BY DEF Sibling
<1>3. \E t \in C : ~(t <= s)
  BY DEF IsLast
<1> HIDE DEF C
<1>4. D \in SUBSET Nat /\ D # {}
  BY <1>1, <1>3
<1>5. PICK t \in D : \A u \in D : t <= u
  <2> HIDE DEF D
  <2> QED
    BY <1>4, LeastElement
<1>6. t \in C /\ t > s /\ \A u \in C : u > s => t <= u
  BY <1>5
<1> HIDE DEF D
<1>7. Sibling(p.ast, s) \in C /\ Sibling(p.ast, s) > s
  BY <1>2, <1>6, Zenon
<1> QED
  BY <1>1, <1>7

(***************************************************************************)
(* Where control goes behind a statement.  What nothing comes behind ends  *)
(* its procedure.                                                          *)
(***************************************************************************)
After(ast) ==
  LET after[s \in DOMAIN ast] ==
        IF ~IsLast(ast, s) THEN {Sibling(ast, s)}
        ELSE CASE ast[s].list.in = "procedure" -> {}
               [] ast[s].list.in = "while"     -> {ast[s].list.of}
               [] OTHER                        -> after[ast[s].list.of]
  IN  after

FlowFrom(ast, s) == CASE ast[s].kind = "if"    -> {FirstStmt(ast, Then(s)), FirstStmt(ast, Else(s))}
                      [] ast[s].kind = "while" -> {FirstStmt(ast, Body(s))} \cup After(ast)[s]
                      [] OTHER                 -> After(ast)[s]

\* The flow of control, statement by statement.
LEMMA FlowIsFromStmts ==
  ASSUME NEW ast
  PROVE  ControlFlow(ast) = UNION {{s} \X FlowFrom(ast, s) : s \in DOMAIN ast}
BY DEF ControlFlow, FlowFrom, After

\* The graph that CFGHandler has built holds the flow of control of the tree.
LEMMA NextIsFlow ==
  ASSUME NEW p, IsProgram(p), NEW s \in Stmts(p)
  PROVE  p.next[s] = FlowFrom(p.ast, s)
<1>1. NextEdges(p) = UNION {{t} \X FlowFrom(p.ast, t) : t \in Stmts(p)}
  BY FlowIsFromStmts, ProgramProperties DEF IsProgram
<1>2. p.next[s] \subseteq Stmts(p)
  BY ProgramProperties
<1>3. \A t : t \in p.next[s] <=> <<s, t>> \in NextEdges(p)
  BY <1>2 DEF NextEdges
<1>4. \A t : <<s, t>> \in UNION {{u} \X FlowFrom(p.ast, u) : u \in Stmts(p)} <=> t \in FlowFrom(p.ast, s)
  OBVIOUS
<1> QED
  BY <1>1, <1>3, <1>4

InsideIf(p, s) == IsLast(p.ast, s) /\ p.ast[s].list.in \notin {"procedure", "while"}

\* An if that a statement is last in.
Outward(p) == {e \in Stmts(p) \X Stmts(p) : InsideIf(p, e[1]) /\ e[2] = p.ast[e[1]].list.of}

\* Where control goes behind a statement: to the next one of the list, from
\* the last one of a body back to the while statement, and behind an if
\* statement to where control goes behind that.
LEMMA AfterIs ==
  ASSUME NEW p, IsProgram(p), NEW s \in Stmts(p)
  PROVE  /\ ~IsLast(p.ast, s) => After(p.ast)[s] = {Sibling(p.ast, s)}
         /\ IsLast(p.ast, s) /\ p.ast[s].list.in = "procedure" => After(p.ast)[s] = {}
         /\ IsLast(p.ast, s) /\ p.ast[s].list.in = "while" => After(p.ast)[s] = {p.ast[s].list.of}
         /\ InsideIf(p, s) => After(p.ast)[s] = After(p.ast)[p.ast[s].list.of]
<1> DEFINE ast == p.ast
           N == Stmts(p)
           Body1(f, t) == IF ~IsLast(ast, t) THEN {Sibling(ast, t)}
                          ELSE CASE ast[t].list.in = "procedure" -> {}
                                 [] ast[t].list.in = "while"     -> {ast[t].list.of}
                                 [] OTHER                        -> f[ast[t].list.of]
           own == [t \in N |-> IF ~IsLast(ast, t) THEN {Sibling(ast, t)}
                               ELSE IF ast[t].list.in = "while" THEN {ast[t].list.of} ELSE {}]
           Is(f) == f = [t \in DOMAIN ast |-> Body1(f, t)]
<1>1. Outward(p) \in SUBSET (N \X N) /\ DOMAIN ast = N
  BY ProgramProperties DEF Outward
<1>2. ASSUME NEW t \in N, InsideIf(p, t)
      PROVE  ast[t].list.of \in N
  <2>1. PICK n \in Node : t \in StmtsOf(p, n)
    BY ProgramProperties
  <2>2. PICK q \in StmtsOf(p, n) : InBody(p, t, q) \/ InBranch(p, t, q)
    BY <1>2, <2>1, ProcedureIsTree DEF IsTreeOf, InsideIf
  <2>3. ast[t].list.of = q
    BY <2>2 DEF InBody, InBranch, Body, Then, Else
  <2> QED
    BY <2>2, <2>3, ProgramProperties
<1>3. ASSUME NEW t \in N
      PROVE  Successors(Outward(p), t) = IF InsideIf(p, t) THEN {ast[t].list.of} ELSE {}
  <2>1. \A b : b \in Successors(Outward(p), t) <=> <<t, b>> \in Outward(p)
    BY <1>1, SuccessorsAreEnds
  <2>2. \A b : <<t, b>> \in Outward(p) <=> InsideIf(p, t) /\ b \in N /\ b = ast[t].list.of
    BY DEF Outward
  <2> QED
    BY <1>2, <2>1, <2>2
<1>4. ASSUME NEW f
      PROVE  Is(f) <=> Collects(f, N, Outward(p), own)
  <2>1. ASSUME NEW t \in N
        PROVE  Body1(f, t) = own[t] \cup UNION {f[m] : m \in Successors(Outward(p), t)}
    <3>1. own[t] = IF ~IsLast(ast, t) THEN {Sibling(ast, t)}
                   ELSE IF ast[t].list.in = "while" THEN {ast[t].list.of} ELSE {}
      OBVIOUS
    <3> HIDE DEF own
    <3>2. CASE InsideIf(p, t)
      <4>1. own[t] = {} /\ Body1(f, t) = f[ast[t].list.of]
        BY <3>1, <3>2 DEF InsideIf
      <4> QED
        BY <1>3, <3>2, <4>1
    <3>3. CASE ~InsideIf(p, t)
      <4>1. Successors(Outward(p), t) = {}
        BY <1>3, <3>3
      <4>2. Body1(f, t) = own[t]
        BY <3>1, <3>3 DEF InsideIf
      <4> HIDE DEF Body1
      <4> QED
        BY <4>1, <4>2
    <3> QED
      BY <3>2, <3>3
  <2> HIDE DEF own, Body1
  <2> QED
    BY <1>1, <2>1 DEF Collects
<1>5. \E f : Is(f)
  BY <1>1, <1>4, CollectingExists
<1>6. After(ast) = CHOOSE f : Is(f)
  BY DEF After
<1>7. Is(After(ast))
  <2> HIDE DEF Is
  <2> QED
    BY <1>5, <1>6, Zenon
<1>8. After(ast)[s] = Body1(After(ast), s)
  <2> HIDE DEF Body1
  <2> QED
    BY <1>1, <1>7
<1> QED
  BY <1>8 DEF InsideIf

\* What the list of a statement belongs to.
LEMMA ListIs ==
  ASSUME NEW p, IsProgram(p), NEW n \in Node, NEW s \in StmtsOf(p, n)
  PROVE  LET q == p.ast[s].list.of IN
         \/ p.ast[s].list.in = "procedure"
         \/ p.ast[s].list.in = "while" /\ q \in StmtsOf(p, n) /\ InBody(p, s, q)
         \/ p.ast[s].list.in \notin {"procedure", "while"} /\ q \in StmtsOf(p, n) /\ InBranch(p, s, q)
<1>1. PICK list : IsTreeOf(p, n, list)
  BY ProcedureIsTree
<1>2. CASE p.ast[s].list = list
  BY <1>1, <1>2 DEF IsTreeOf
<1>3. CASE p.ast[s].list # list
  <2>1. PICK q \in StmtsOf(p, n) : InBody(p, s, q) \/ InBranch(p, s, q)
    BY <1>1, <1>3 DEF IsTreeOf
  <2>2. CASE InBody(p, s, q)
    <3>1. p.ast[s].list.in = "while" /\ p.ast[s].list.of = q
      BY <2>2 DEF InBody, Body
    <3> QED
      BY <2>2, <3>1
  <2>3. CASE InBranch(p, s, q)
    <3>1. p.ast[s].list.in \in {"then", "else"} /\ p.ast[s].list.of = q
      BY <2>3 DEF InBranch, Then, Else
    <3> QED
      BY <2>3, <3>1
  <2> QED
    BY <2>1, <2>2, <2>3
<1> QED
  BY <1>2, <1>3

\* A statement is in the procedure of what its list belongs to.
LEMMA ChildrenAreIn ==
  ASSUME NEW p, IsProgram(p), NEW n \in Node, NEW q \in StmtsOf(p, n), NEW s \in Stmts(p)
  PROVE  /\ p.ast[s].list = Body(q) => q < s /\ s \in StmtsOf(p, n)
         /\ p.ast[s].list \in {Then(q), Else(q)} => q < s /\ s \in StmtsOf(p, n)
<1>1. PICK m \in Node : s \in StmtsOf(p, m)
  BY ProgramProperties
<1>2. ASSUME q \in StmtsOf(p, m)
      PROVE  m = n
  BY <1>2, ProgramProperties
<1>3. ASSUME p.ast[s].list = Body(q)
      PROVE  q < s /\ s \in StmtsOf(p, n)
  <2>1. p.ast[s].list.in = "while" /\ p.ast[s].list.of = q
    BY <1>3 DEF Body
  <2> QED
    BY <1>1, <1>2, <2>1, ListIs DEF InBody
<1>4. ASSUME p.ast[s].list \in {Then(q), Else(q)}
      PROVE  q < s /\ s \in StmtsOf(p, n)
  <2>1. p.ast[s].list.in \in {"then", "else"} /\ p.ast[s].list.of = q
    BY <1>4 DEF Then, Else
  <2> QED
    BY <1>1, <1>2, <2>1, ListIs DEF InBranch
<1> QED
  BY <1>3, <1>4

\* At most one statement comes behind s, and none that is nested in s.
LEMMA OneComesAfter ==
  ASSUME NEW p, IsProgram(p), NEW s \in Stmts(p)
  PROVE  \/ After(p.ast)[s] = {}
         \/ \E t \in Stmts(p) : After(p.ast)[s] = {t} /\ \A w \in Stmts(p) : p.ast[t].list = Body(w) => w < s
<1> DEFINE One(u) == \/ After(p.ast)[u] = {}
                     \/ \E t \in Stmts(p) : After(p.ast)[u] = {t} /\ \A w \in Stmts(p) : p.ast[t].list = Body(w) => w < u
           Bad == {u \in Stmts(p) : ~One(u)}
<1>1. Stmts(p) \subseteq Nat
  BY ProgramProperties
<1>2. ASSUME NEW t \in Stmts(p), NEW w \in Stmts(p), p.ast[t].list = Body(w)
      PROVE  w < t
  BY <1>2, ChildrenAreIn, ProgramProperties
<1>3. Bad = {}
  <2> SUFFICES ASSUME Bad # {} PROVE FALSE
    OBVIOUS
  <2>1. PICK u \in Bad : \A k \in Bad : u <= k
    <3>1. Bad \in SUBSET Nat
      BY <1>1
    <3> HIDE DEF Bad
    <3> QED
      BY <3>1, LeastElement
  <2>2. u \in Stmts(p) /\ u \in Nat /\ ~One(u)
    BY <1>1
  <2>3. PICK n \in Node : u \in StmtsOf(p, n)
    BY <2>2, ProgramProperties
  <2>4. StmtsOf(p, n) \subseteq Stmts(p)
    BY ProgramProperties
  <2> DEFINE q == p.ast[u].list.of
  <2>5. CASE ~IsLast(p.ast, u)
    <3> DEFINE t == Sibling(p.ast, u)
    <3>1. After(p.ast)[u] = {t} /\ t \in Stmts(p) /\ p.ast[t].list = p.ast[u].list
      BY <2>2, <2>5, AfterIs, SiblingFollows
    <3>2. \A w \in Stmts(p) : p.ast[t].list = Body(w) => w < u
      BY <1>2, <2>2, <3>1
    <3> QED
      BY <2>2, <3>1, <3>2
  <2>6. CASE IsLast(p.ast, u) /\ p.ast[u].list.in = "procedure"
    BY <2>2, <2>6, AfterIs
  <2>7. CASE IsLast(p.ast, u) /\ p.ast[u].list.in = "while"
    <3>1. After(p.ast)[u] = {q} /\ q \in Stmts(p) /\ q < u
      BY <2>2, <2>3, <2>4, <2>7, AfterIs, ListIs DEF InBody
    <3>2. \A w \in Stmts(p) : p.ast[q].list = Body(w) => w < u
      <4> TAKE w \in Stmts(p)
      <4>1. p.ast[q].list = Body(w) => w < q
        BY <1>2, <3>1
      <4>2. w \in Nat /\ q \in Nat
        BY <1>1, <3>1
      <4> HIDE DEF q
      <4> QED
        BY <2>2, <3>1, <4>1, <4>2
    <3> QED
      BY <2>2, <3>1, <3>2
  <2>8. CASE InsideIf(p, u)
    <3>1. After(p.ast)[u] = After(p.ast)[q] /\ q \in Stmts(p) /\ q < u
      BY <2>2, <2>3, <2>4, <2>8, AfterIs, ListIs DEF InBranch, InsideIf
    <3>2. q \notin Bad /\ q \in Nat
      <4>1. q \in Nat
        BY <1>1, <3>1
      <4> HIDE DEF q, Bad
      <4> QED
        BY <2>1, <2>2, <3>1, <4>1
    <3>3. One(q)
      BY <3>1, <3>2
    <3>4. \A w \in Stmts(p) : w < q => w < u
      BY <1>1, <2>2, <3>1, <3>2
    <3> HIDE DEF q
    <3> QED
      BY <2>2, <3>1, <3>3, <3>4
  <2> QED
    BY <2>5, <2>6, <2>7, <2>8 DEF InsideIf
<1> QED
  BY <1>3

\* Control leaves the procedure after what is no if and no call and has
\* nothing behind it; a call leads to one statement or to none.
LEMMA ReturnIsEnd ==
  ASSUME NEW p, IsProgram(p), NEW s \in Stmts(p)
  PROVE  /\ IsReturn(p, s) <=> p.kind[s] \notin {"call", "if"} /\ After(p.ast)[s] = {}
         /\ s \in CallStmts(p) => p.next[s] = After(p.ast)[s]
<1>1. p.kind[s] = p.ast[s].kind /\ p.next[s] = FlowFrom(p.ast, s) /\ (s \in CallStmts(p) <=> p.kind[s] = "call")
  BY ProgramProperties, NextIsFlow DEF CallStmts
<1>2. CASE p.kind[s] = "if"
  <2>1. p.next[s] = {FirstStmt(p.ast, Then(s)), FirstStmt(p.ast, Else(s))}
    BY <1>1, <1>2 DEF FlowFrom
  <2> QED
    BY <1>1, <1>2, <2>1 DEF IsReturn
<1>3. CASE p.kind[s] = "while"
  <2> DEFINE f == FirstStmt(p.ast, Body(s))
  <2>1. p.next[s] = {f} \cup After(p.ast)[s]
    BY <1>1, <1>3 DEF FlowFrom
  <2>2. f \in Stmts(p) /\ p.ast[f].list = Body(s)
    BY <1>3, ContainersAreFilled, FirstAndLast
  <2>3. After(p.ast)[s] = {} \/ \E t \in Stmts(p) : After(p.ast)[s] = {t} /\ t # f
    <3>1. ~(s < s)
      BY ProgramProperties
    <3> QED
      BY <2>2, <3>1, OneComesAfter
  <2> HIDE DEF f
  <2>4. p.next[s] # {} /\ ((\E t \in Stmts(p) : p.next[s] = {t}) <=> After(p.ast)[s] = {})
    BY <2>1, <2>2, <2>3
  <2> QED
    BY <1>1, <1>3, <2>4 DEF IsReturn
<1>4. CASE p.kind[s] \notin {"if", "while"}
  <2>1. p.next[s] = After(p.ast)[s]
    BY <1>1, <1>4 DEF FlowFrom
  <2> QED
    BY <1>1, <1>4, <2>1 DEF IsReturn
<1> QED
  BY <1>2, <1>3, <1>4

\* A call has at most one statement behind it.
LEMMA CallLeadsToOne ==
  ASSUME NEW p, IsProgram(p), NEW s \in CallStmts(p)
  PROVE  p.next[s] = {} \/ \E t \in Stmts(p) : p.next[s] = {t}
BY OneComesAfter, ReturnIsEnd DEF CallStmts

(***************************************************************************)
(* The last statements of a procedure, found from the last of its list     *)
(* inwards, are those after which control leaves it.                       *)
(***************************************************************************)
Exits(ast) ==
  LET from[s \in DOMAIN ast] ==
        IF ast[s].kind = "call" THEN {}
        ELSE IF ast[s].kind = "if" THEN from[LastStmt(ast, Then(s))] \cup from[LastStmt(ast, Else(s))]
        ELSE {s}
  IN  from

\* LastExecuted collects from the last statement of the procedure inwards.
LEMMA LastExecutedAreExits ==
  ASSUME NEW n
  PROVE  LastExecuted(n) = Exits(prog.ast)[LastStmt(prog.ast, prog.ast[Entry(prog, n)].list)]
BY DEF LastExecuted, Exits

\* The last statements of both branches of an if.
Inward(p) ==
  {e \in Stmts(p) \X Stmts(p) : p.kind[e[1]] = "if" /\ e[2] \in {LastStmt(p.ast, Then(e[1])), LastStmt(p.ast, Else(e[1]))}}

\* A branch ends with what is inside the if.
LEMMA BranchesEnd ==
  ASSUME NEW p, IsProgram(p), NEW s \in Stmts(p), p.kind[s] = "if", NEW list \in {Then(s), Else(s)}
  PROVE  LET l == LastStmt(p.ast, list) IN
         /\ l \in Stmts(p) /\ p.ast[l].list = list
         /\ s < l /\ After(p.ast)[l] = After(p.ast)[s]
         /\ \A n \in Node : s \in StmtsOf(p, n) => l \in StmtsOf(p, n)
<1> DEFINE l == LastStmt(p.ast, list)
<1>1. Children(p.ast, list) # {}
  BY ContainersAreFilled
<1>2. l \in Stmts(p) /\ p.ast[l].list = list
  BY <1>1, FirstAndLast
<1>3. p.ast[l].list.of = s /\ p.ast[l].list.in \in {"then", "else"}
  BY <1>2 DEF Then, Else
<1>4. InsideIf(p, l)
  <2>1. IsLast(p.ast, l)
    BY <1>2, LastIsLast
  <2> HIDE DEF l
  <2> QED
    BY <1>3, <2>1 DEF InsideIf
<1>5. After(p.ast)[l] = After(p.ast)[s]
  <2> HIDE DEF l
  <2> QED
    BY <1>2, <1>3, <1>4, AfterIs
<1>6. \A n \in Node : s \in StmtsOf(p, n) => s < l /\ l \in StmtsOf(p, n)
  <2> HIDE DEF l
  <2> QED
    BY <1>2, ChildrenAreIn
<1>7. s < l
  BY <1>6, ProgramProperties
<1> QED
  BY <1>2, <1>5, <1>6, <1>7

\* What LastExecuted collects of a statement, by its kind.
LEMMA ExitsIs ==
  ASSUME NEW p, IsProgram(p), NEW s \in Stmts(p)
  PROVE  /\ p.kind[s] = "call" => Exits(p.ast)[s] = {}
         /\ p.kind[s] = "if" => Exits(p.ast)[s] = Exits(p.ast)[LastStmt(p.ast, Then(s))] \cup Exits(p.ast)[LastStmt(p.ast, Else(s))]
         /\ p.kind[s] \notin {"call", "if"} => Exits(p.ast)[s] = {s}
<1> DEFINE ast == p.ast
           N == Stmts(p)
           Body1(f, t) == IF ast[t].kind = "call" THEN {}
                          ELSE IF ast[t].kind = "if" THEN f[LastStmt(ast, Then(t))] \cup f[LastStmt(ast, Else(t))]
                          ELSE {t}
           own == [t \in N |-> IF ast[t].kind \in {"call", "if"} THEN {} ELSE {t}]
           Is(f) == f = [t \in DOMAIN ast |-> Body1(f, t)]
<1>1. Inward(p) \in SUBSET (N \X N) /\ DOMAIN ast = N /\ \A t \in N : p.kind[t] = ast[t].kind
  BY ProgramProperties DEF Inward
<1>2. ASSUME NEW t \in N, p.kind[t] = "if"
      PROVE  LastStmt(ast, Then(t)) \in N /\ LastStmt(ast, Else(t)) \in N
  BY <1>2, BranchesEnd
<1>3. ASSUME NEW t \in N
      PROVE  Successors(Inward(p), t) =
               IF p.kind[t] = "if" THEN {LastStmt(ast, Then(t)), LastStmt(ast, Else(t))} ELSE {}
  <2>1. \A b : b \in Successors(Inward(p), t) <=> <<t, b>> \in Inward(p)
    BY <1>1, SuccessorsAreEnds
  <2>2. \A b : <<t, b>> \in Inward(p) <=>
                 p.kind[t] = "if" /\ b \in N /\ b \in {LastStmt(ast, Then(t)), LastStmt(ast, Else(t))}
    BY DEF Inward
  <2> QED
    BY <1>2, <2>1, <2>2
<1>4. ASSUME NEW f
      PROVE  Is(f) <=> Collects(f, N, Inward(p), own)
  <2>1. ASSUME NEW t \in N
        PROVE  Body1(f, t) = own[t] \cup UNION {f[m] : m \in Successors(Inward(p), t)}
    <3>1. own[t] = IF ast[t].kind \in {"call", "if"} THEN {} ELSE {t}
      OBVIOUS
    <3> HIDE DEF own
    <3>2. CASE p.kind[t] = "if"
      <4>1. own[t] = {} /\ Body1(f, t) = f[LastStmt(ast, Then(t))] \cup f[LastStmt(ast, Else(t))]
        BY <1>1, <3>1, <3>2
      <4> QED
        BY <1>3, <3>2, <4>1
    <3>3. CASE p.kind[t] # "if"
      <4>1. Successors(Inward(p), t) = {}
        BY <1>3, <3>3
      <4>2. Body1(f, t) = own[t]
        BY <1>1, <3>1, <3>3
      <4> HIDE DEF Body1
      <4> QED
        BY <4>1, <4>2
    <3> QED
      BY <3>2, <3>3
  <2> HIDE DEF own, Body1
  <2> QED
    BY <1>1, <2>1 DEF Collects
<1>5. \E f : Is(f)
  BY <1>1, <1>4, CollectingExists
<1>6. Exits(ast) = CHOOSE f : Is(f)
  BY DEF Exits
<1>7. Is(Exits(ast))
  <2> HIDE DEF Is
  <2> QED
    BY <1>5, <1>6, Zenon
<1>8. Exits(ast)[s] = Body1(Exits(ast), s)
  <2> HIDE DEF Body1
  <2> QED
    BY <1>1, <1>7
<1> QED
  BY <1>1, <1>8

\* What is found in a statement that ends the procedure ends it.
LEMMA ExitsAreEnds ==
  ASSUME NEW p, IsProgram(p), NEW n \in Node, NEW s \in StmtsOf(p, n), After(p.ast)[s] = {}
  PROVE  \A x \in Exits(p.ast)[s] : x \in StmtsOf(p, n) /\ p.kind[x] \notin {"call", "if"} /\ After(p.ast)[x] = {}
<1> DEFINE Fine(u) == \A x \in Exits(p.ast)[u] : x \in StmtsOf(p, n) /\ p.kind[x] \notin {"call", "if"} /\ After(p.ast)[x] = {}
           Bad == {u \in StmtsOf(p, n) : After(p.ast)[u] = {} /\ ~Fine(u)}
<1>1. StmtsOf(p, n) \subseteq 1..p.stmts /\ p.stmts \in Nat /\ Stmts(p) = 1..p.stmts
  BY ProgramProperties
<1>2. Bad = {}
  <2> SUFFICES ASSUME Bad # {} PROVE FALSE
    OBVIOUS
  <2>1. PICK u \in Bad : \A k \in Bad : k <= u
    <3>1. Bad \in SUBSET (0..p.stmts)
      BY <1>1
    <3> HIDE DEF Bad
    <3> QED
      BY <1>1, <3>1, GreatestElement
  <2>2. u \in StmtsOf(p, n) /\ u \in Stmts(p) /\ u \in Nat /\ ~Fine(u) /\ After(p.ast)[u] = {}
    BY <1>1
  <2>3. CASE p.kind[u] = "call"
    BY <2>2, <2>3, ExitsIs
  <2>4. CASE p.kind[u] \notin {"call", "if"}
    BY <2>2, <2>4, ExitsIs
  <2>5. CASE p.kind[u] = "if"
    <3>1. ASSUME NEW list \in {Then(u), Else(u)}
          PROVE  Fine(LastStmt(p.ast, list))
      <4> DEFINE l == LastStmt(p.ast, list)
      <4>1. l \in Stmts(p) /\ u < l /\ After(p.ast)[l] = After(p.ast)[u] /\ l \in StmtsOf(p, n)
        BY <2>2, <2>5, BranchesEnd
      <4> HIDE DEF l
      <4>2. l \notin Bad
        <5>1. l \in Nat
          BY <1>1, <4>1
        <5> HIDE DEF Bad
        <5> QED
          BY <2>1, <2>2, <4>1, <5>1
      <4> QED
        BY <2>2, <4>1, <4>2 DEF l
    <3>2. Exits(p.ast)[u] = Exits(p.ast)[LastStmt(p.ast, Then(u))] \cup Exits(p.ast)[LastStmt(p.ast, Else(u))]
      BY <2>2, <2>5, ExitsIs
    <3>3. Fine(LastStmt(p.ast, Then(u))) /\ Fine(LastStmt(p.ast, Else(u)))
      BY <3>1
    <3> QED
      BY <2>2, <3>2, <3>3
  <2> QED
    BY <2>3, <2>4, <2>5
<1> QED
  BY <1>2

\* What is found in a statement that ends the procedure is found in the last
\* of its list.
LEMMA EndsAreExits ==
  ASSUME NEW p, IsProgram(p), NEW n \in Node, NEW list, IsTreeOf(p, n, list),
         NEW s \in StmtsOf(p, n), After(p.ast)[s] = {}
  PROVE  Exits(p.ast)[s] \subseteq Exits(p.ast)[LastStmt(p.ast, list)]
<1> DEFINE last == LastStmt(p.ast, list)
           Bad == {u \in StmtsOf(p, n) : After(p.ast)[u] = {} /\ ~(Exits(p.ast)[u] \subseteq Exits(p.ast)[last])}
<1>1. StmtsOf(p, n) \subseteq Nat /\ StmtsOf(p, n) \subseteq Stmts(p)
  <2>1. StmtsOf(p, n) \subseteq Stmts(p) /\ Stmts(p) = 1..p.stmts
    BY ProgramProperties
  <2> QED
    BY <2>1
<1>2. Bad = {}
  <2> SUFFICES ASSUME Bad # {} PROVE FALSE
    OBVIOUS
  <2>1. PICK u \in Bad : \A k \in Bad : u <= k
    <3>1. Bad \in SUBSET Nat
      BY <1>1
    <3> HIDE DEF Bad
    <3> QED
      BY <3>1, LeastElement
  <2>2. u \in StmtsOf(p, n) /\ u \in Stmts(p) /\ u \in Nat /\ ~(Exits(p.ast)[u] \subseteq Exits(p.ast)[last]) /\ After(p.ast)[u] = {}
    BY <1>1
  <2>3. IsLast(p.ast, u) /\ p.ast[u].list.in # "while"
    <3> HIDE DEF Bad, last
    <3>1. ASSUME ~IsLast(p.ast, u)
          PROVE  FALSE
      BY <2>2, <3>1, AfterIs
    <3>2. ASSUME IsLast(p.ast, u), p.ast[u].list.in = "while"
          PROVE  FALSE
      BY <2>2, <3>2, AfterIs
    <3> QED
      BY <3>1, <3>2
  <2>4. CASE p.ast[u].list.in = "procedure"
    <3>1. \A q : ~InBody(p, u, q) /\ ~InBranch(p, u, q)
      BY <2>4 DEF InBody, InBranch, Body, Then, Else
    <3>2. p.ast[u].list = list
      BY <2>2, <3>1 DEF IsTreeOf
    <3>3. u = last
      BY <2>2, <2>3, <3>2, LastIsLast
    <3> QED
      BY <2>2, <3>3
  <2>5. CASE p.ast[u].list.in # "procedure"
    <3> DEFINE q == p.ast[u].list.of
    <3>1. InsideIf(p, u)
      BY <2>3, <2>5 DEF InsideIf
    <3>2. q \in StmtsOf(p, n) /\ InBranch(p, u, q) /\ After(p.ast)[q] = {}
      BY <2>2, <2>3, <2>5, <3>1, ListIs, AfterIs
    <3>3. q < u /\ p.kind[q] = "if" /\ p.ast[u].list \in {Then(q), Else(q)} /\ u = LastStmt(p.ast, p.ast[u].list)
      BY <2>2, <2>3, <3>2, LastIsLast DEF InBranch
    <3> HIDE DEF q
    <3>4. q \notin Bad
      <4>1. q \in Nat
        BY <1>1, <3>2
      <4> HIDE DEF Bad
      <4> QED
        BY <2>1, <2>2, <3>3, <4>1
    <3>5. Exits(p.ast)[q] \subseteq Exits(p.ast)[last]
      BY <3>2, <3>4
    <3>6. Exits(p.ast)[q] = Exits(p.ast)[LastStmt(p.ast, Then(q))] \cup Exits(p.ast)[LastStmt(p.ast, Else(q))]
      BY <1>1, <3>2, <3>3, ExitsIs
    <3> HIDE DEF last
    <3> QED
      BY <2>2, <3>3, <3>5, <3>6
  <2> QED
    BY <2>4, <2>5
<1> QED
  BY <1>2

\* Control leaves the procedure behind the last statement of its list.
LEMMA ProcedureHasLast ==
  ASSUME NEW p, IsProgram(p), NEW n \in Node
  PROVE  LET list == p.ast[Entry(p, n)].list
             last == LastStmt(p.ast, list) IN
         IsTreeOf(p, n, list) /\ last \in StmtsOf(p, n) /\ After(p.ast)[last] = {}
<1>1. PICK list : IsTreeOf(p, n, list) /\ Entry(p, n) \in Children(p.ast, list)
  BY ProcedureIsTree
<1>2. list = p.ast[Entry(p, n)].list
  BY <1>1 DEF Children
<1> DEFINE last == LastStmt(p.ast, list)
<1>3. last \in Stmts(p) /\ p.ast[last].list = list
  BY <1>1, FirstAndLast
<1>4. last \in StmtsOf(p, n)
  BY <1>1, <1>3, ProgramProperties DEF IsTreeOf, Children
<1>5. IsLast(p.ast, last)
  BY <1>3, LastIsLast
<1> HIDE DEF last
<1>6. After(p.ast)[last] = {}
  BY <1>1, <1>3, <1>5, AfterIs DEF IsTreeOf
<1> QED
  BY <1>1, <1>2, <1>4, <1>6 DEF last

\* LastExecutedCfgNodes holds the statements, calls aside, after which control
\* leaves the procedure.
LEMMA LastExecutedAreReturns ==
  ASSUME IsProgram(prog), NEW n \in Node
  PROVE  LastExecuted(n) = {s \in StmtsOf(prog, n) : IsReturn(prog, s)}
<1> DEFINE list == prog.ast[Entry(prog, n)].list
           last == LastStmt(prog.ast, list)
<1>1. IsTreeOf(prog, n, list) /\ last \in StmtsOf(prog, n) /\ After(prog.ast)[last] = {}
  BY ProcedureHasLast
<1>2. LastExecuted(n) = Exits(prog.ast)[last]
  BY LastExecutedAreExits
<1>3. StmtsOf(prog, n) \subseteq Stmts(prog)
  BY ProgramProperties
<1> HIDE DEF last, list
<1>4. ASSUME NEW s \in LastExecuted(n)
      PROVE  s \in StmtsOf(prog, n) /\ IsReturn(prog, s)
  BY <1>1, <1>2, <1>3, ExitsAreEnds, ReturnIsEnd
<1>5. ASSUME NEW s \in StmtsOf(prog, n), IsReturn(prog, s)
      PROVE  s \in LastExecuted(n)
  <2>1. prog.kind[s] \notin {"call", "if"} /\ After(prog.ast)[s] = {}
    BY <1>3, <1>5, ReturnIsEnd
  <2>2. s \in Exits(prog.ast)[s]
    BY <1>3, <2>1, ExitsIs
  <2>3. Exits(prog.ast)[s] \subseteq Exits(prog.ast)[last]
    BY <1>1, <2>1, EndsAreExits DEF last
  <2> QED
    BY <1>2, <2>2, <2>3
<1> QED
  BY <1>4, <1>5

\* Every procedure has an end, a return or a call.
LEMMA ProcedureEnds ==
  ASSUME NEW p, IsProgram(p), NEW n \in Node
  PROVE  \E s \in StmtsOf(p, n) : IsReturn(p, s) \/ (s \in CallStmts(p) /\ p.next[s] = {})
<1> DEFINE Ends == {s \in StmtsOf(p, n) : After(p.ast)[s] = {}}
<1>1. StmtsOf(p, n) \subseteq Stmts(p) /\ Stmts(p) = 1..p.stmts /\ p.stmts \in Nat
  BY ProgramProperties
<1>2. Ends # {} /\ Ends \in SUBSET (0..p.stmts)
  BY <1>1, ProcedureHasLast
<1>3. PICK s \in Ends : \A t \in Ends : t <= s
  <2> HIDE DEF Ends
  <2> QED
    BY <1>1, <1>2, GreatestElement
<1>4. s \in Stmts(p) /\ s \in StmtsOf(p, n) /\ After(p.ast)[s] = {}
  BY <1>1
<1>5. p.kind[s] # "if"
  <2> SUFFICES ASSUME p.kind[s] = "if" PROVE FALSE
    OBVIOUS
  <2> DEFINE l == LastStmt(p.ast, Then(s))
  <2>1. l \in Stmts(p) /\ s < l /\ After(p.ast)[l] = {} /\ l \in StmtsOf(p, n)
    BY <1>4, BranchesEnd
  <2> HIDE DEF l
  <2>2. l <= s
    BY <1>3, <2>1
  <2> QED
    BY <1>1, <1>4, <2>1, <2>2
<1>6. CASE p.kind[s] = "call"
  BY <1>4, <1>6, ReturnIsEnd DEF CallStmts
<1>7. CASE p.kind[s] # "call"
  BY <1>4, <1>5, <1>7, ReturnIsEnd
<1> QED
  BY <1>4, <1>6, <1>7

(***************************************************************************)
(* The chains of calls.  There is no recursion, so a chain meets a         *)
(* procedure once, and the bound of Paths leaves no chain out.             *)
(***************************************************************************)
Starts(p, s) == \E m \in StartingProcedures(p) : s \in StmtsOf(p, m)

IsChain(p, path, n) ==
  /\ path \in Seq(CallStmts(p))
  /\ path # <<>> => Starts(p, path[1])
  /\ \A i \in 1..(Len(path) - 1) : path[i + 1] \in StmtsOf(p, p.callee[path[i]])
  /\ n \in Node
  /\ path = <<>> => n \in StartingProcedures(p)
  /\ path # <<>> => n = p.callee[path[Len(path)]]

\* No call has been made to run a procedure that the program starts with.
LEMMA EmptyChain == ASSUME NEW p, NEW n \in StartingProcedures(p) PROVE IsChain(p, <<>>, n)
<1>1. <<>> \in Seq(CallStmts(p)) /\ Len(<<>>) = 0
  BY EmptySeq
<1>2. n \in Node
  BY DEF StartingProcedures
<1> QED
  BY <1>1, <1>2 DEF IsChain

\* A call is an edge between procedures, and leads to none that the program
\* starts with.
LEMMA CallsAreOfProcedures ==
  ASSUME NEW p, IsProgram(p), NEW n \in Node, NEW s \in CallStmts(p), s \in StmtsOf(p, n)
  PROVE  /\ p.callee[s] \in Node /\ <<n, p.callee[s]>> \in Calls(p) /\ Calls(p) \in SUBSET (Node \X Node)
         /\ p.callee[s] \notin StartingProcedures(p)
<1>1. p.callee[s] \in Node
  BY ProgramProperties
<1>2. <<n, p.callee[s]>> \in Calls(p)
  BY <1>1 DEF Calls
<1> QED
  BY <1>1, <1>2 DEF Calls, StartingProcedures

\* The procedures of a chain are different.
LEMMA ChainIsShort ==
  ASSUME NEW p, IsProgram(p), NEW path, NEW n, IsChain(p, path, n)
  PROVE  Len(path) \in Nat /\ Len(path) < Cardinality(Node)
<1> DEFINE k == Len(path)
<1>1. k \in Nat /\ IsFiniteSet(Node) /\ Cardinality(Node) \in Nat /\ n \in Node
  BY NodeAssumption, FS_CardinalityType, LenProperties DEF IsChain
<1>2. \A i \in 1..k : path[i] \in CallStmts(p)
  BY ElementOfSeq DEF IsChain
<1>3. PICK m \in StartingProcedures(p) : path # <<>> => path[1] \in StmtsOf(p, m)
  BY DEF IsChain, Starts
<1>4. m \in Node
  BY DEF StartingProcedures
<1> DEFINE proc == [i \in 0..k |-> IF i = 0 THEN m ELSE p.callee[path[i]]]
<1>5. \A i \in 1..k : p.callee[path[i]] \in Node
  BY <1>2, ProgramProperties
<1>6. proc \in [0..k -> Node]
  BY <1>4, <1>5
<1>7. ASSUME NEW i \in 0..k, i # k
      PROVE  <<proc[i], proc[i + 1]>> \in Calls(p)
  <2>1. i + 1 \in 1..k /\ i + 1 # 0 /\ i + 1 \in 0..k
    BY <1>1, <1>7
  <2>2. path[i + 1] \in CallStmts(p) /\ proc[i + 1] = p.callee[path[i + 1]]
    BY <1>2, <2>1
  <2>3. path[i + 1] \in StmtsOf(p, proc[i])
    <3>1. CASE i = 0
      <4>1. path # <<>>
        BY <1>1, <2>1, EmptySeq
      <4> QED
        BY <1>3, <3>1, <4>1
    <3>2. CASE i # 0
      <4>1. i \in 1..(Len(path) - 1)
        BY <1>1, <1>7, <3>2
      <4> QED
        BY <3>2, <4>1 DEF IsChain
    <3> QED
      BY <3>1, <3>2
  <2> QED
    BY <1>6, <2>2, <2>3, CallsAreOfProcedures
<1> HIDE DEF proc
<1>8. ASSUME NEW i \in 0..k
      PROVE  \A j \in 0..k : i < j => proc[j] \in ReachableFrom(Calls(p), Node, proc[i])
  <2> DEFINE R == ReachableFrom(Calls(p), Node, proc[i])
             Bad == {j \in 0..k : i < j /\ proc[j] \notin R}
  <2>1. Calls(p) \in SUBSET (Node \X Node)
    BY DEF Calls
  <2>2. Bad = {}
    <3> SUFFICES ASSUME Bad # {} PROVE FALSE
      OBVIOUS
    <3>1. PICK j \in Bad : \A l \in Bad : j <= l
      <4>1. Bad \in SUBSET Nat
        OBVIOUS
      <4> HIDE DEF Bad
      <4> QED
        BY <4>1, LeastElement
    <3>2. j \in 0..k /\ i < j /\ proc[j] \notin R /\ j - 1 \in 0..k /\ j - 1 # k /\ (j - 1) + 1 = j /\ ~(j <= j - 1)
      BY <1>1
    <3>3. proc[j] \in Successors(Calls(p), proc[j - 1])
      <4>1. <<proc[j - 1], proc[j]>> \in Calls(p)
        BY <1>7, <3>2
      <4> QED
        BY <2>1, <4>1, SuccessorsAreEnds
    <3>4. CASE j - 1 = i
      BY <2>1, <3>2, <3>3, <3>4, ReachableIsClosed
    <3>5. CASE j - 1 # i
      <4>1. i < j - 1
        BY <3>2, <3>5
      <4>2. proc[j - 1] \in R
        BY <3>1, <3>2, <4>1
      <4> QED
        BY <2>1, <3>2, <3>3, <4>2, ReachableIsClosed
    <3> QED
      BY <3>4, <3>5
  <2> QED
    BY <2>2
<1>9. ASSUME NEW i \in 0..k, NEW j \in 0..k, i < j
      PROVE  proc[i] # proc[j]
  <2>1. proc[i] \in Node
    BY <1>6
  <2>2. proc[j] \in ReachableFrom(Calls(p), Node, proc[i])
    BY <1>8, <1>9
  <2> QED
    BY <2>1, <2>2 DEF IsProgram
<1>10. ~(Cardinality(Node) < Cardinality(0..k))
  <2> SUFFICES ASSUME Cardinality(Node) < Cardinality(0..k) PROVE FALSE
    OBVIOUS
  <2>1. IsFiniteSet(0..k)
    BY <1>1, FS_Interval
  <2>2. \E i, j \in 0..k : i # j /\ proc[i] = proc[j]
    BY <1>1, <1>6, <2>1, FS_PigeonHole
  <2>3. PICK i \in 0..k, j \in 0..k : i # j /\ proc[i] = proc[j]
    BY <2>2
  <2>4. i < j \/ j < i
    BY <1>1, <2>3
  <2> QED
    BY <1>9, <2>3, <2>4
<1>11. Cardinality(0..k) = k + 1
  BY <1>1, FS_Interval
<1> QED
  BY <1>1, <1>10, <1>11

\* The sequences of calls to a procedure are the chains to it.
LEMMA PathsAreChains ==
  ASSUME NEW p, IsProgram(p), NEW n \in Node, NEW path
  PROVE  path \in Paths(p, n) <=> IsChain(p, path, n)
<1> DEFINE lasts == IF path = <<>> THEN StartingProcedures(p) ELSE {p.callee[path[Len(path)]]}
           chained == \A i \in 1..(Len(path) - 1) : path[i + 1] \in StmtsOf(p, p.callee[path[i]])
           started == path = <<>> \/ \E m \in StartingProcedures(p) : path[1] \in StmtsOf(p, m)
           short == path \in UNION {[1..k -> CallStmts(p)] : k \in 0..(Cardinality(Node) - 1)}
<1>1. path \in Paths(p, n) <=> short /\ started /\ chained /\ n \in lasts
  BY DEF Paths
<1>2. IsChain(p, path, n) <=> path \in Seq(CallStmts(p)) /\ started /\ chained /\ n \in lasts
  BY DEF IsChain, Starts
<1>3. short => path \in Seq(CallStmts(p))
  <2> SUFFICES ASSUME NEW k \in 0..(Cardinality(Node) - 1), path \in [1..k -> CallStmts(p)]
               PROVE  path \in Seq(CallStmts(p))
    OBVIOUS
  <2>1. k \in Nat
    OBVIOUS
  <2> QED
    BY <2>1, SeqDef
<1>4. IsChain(p, path, n) => short
  <2> SUFFICES ASSUME IsChain(p, path, n) PROVE short
    OBVIOUS
  <2>1. Len(path) \in Nat /\ Len(path) < Cardinality(Node) /\ Cardinality(Node) \in Nat
    BY ChainIsShort, NodeAssumption, FS_CardinalityType
  <2>2. path \in [1..Len(path) -> CallStmts(p)]
    BY LenProperties DEF IsChain
  <2>3. Len(path) \in 0..(Cardinality(Node) - 1)
    BY <2>1
  <2> QED
    BY <2>2, <2>3
<1> QED
  BY <1>1, <1>2, <1>3, <1>4

\* A further call makes a longer chain.
LEMMA ChainGrows ==
  ASSUME NEW p, IsProgram(p), NEW path, NEW n, IsChain(p, path, n),
         NEW s \in CallStmts(p), s \in StmtsOf(p, n)
  PROVE  IsChain(p, Append(path, s), p.callee[s])
<1> DEFINE q == Append(path, s)
<1>1. path \in Seq(CallStmts(p)) /\ Len(path) \in Nat /\ path \in [1..Len(path) -> CallStmts(p)] /\ n \in Node
  BY LenProperties DEF IsChain
<1>2. /\ q \in Seq(CallStmts(p)) /\ q # <<>> /\ Len(q) = Len(path) + 1
      /\ \A i \in 1..Len(path) : q[i] = path[i]
      /\ q[Len(path) + 1] = s
  BY <1>1, AppendProperties
<1>3. p.callee[s] \in Node
  BY ProgramProperties
<1> HIDE DEF q
<1>4. Starts(p, q[1])
  <2>1. CASE path = <<>>
    <3>1. Len(path) = 0
      BY <2>1, EmptySeq
    <3>2. q[1] = s /\ n \in StartingProcedures(p)
      BY <1>2, <2>1, <3>1 DEF IsChain
    <3> QED
      BY <3>2 DEF Starts
  <2>2. CASE path # <<>>
    <3>1. 1 \in 1..Len(path)
      BY <1>1, <2>2, EmptySeq
    <3> QED
      BY <1>2, <2>2, <3>1 DEF IsChain
  <2> QED
    BY <2>1, <2>2
<1>5. ASSUME NEW i \in 1..(Len(q) - 1)
      PROVE  q[i + 1] \in StmtsOf(p, p.callee[q[i]])
  <2>1. i \in 1..Len(path) /\ q[i] = path[i] /\ path # <<>>
    <3>1. i \in 1..Len(path)
      BY <1>1, <1>2
    <3> QED
      BY <1>2, <3>1, EmptySeq
  <2>2. CASE i = Len(path)
    <3>1. q[i + 1] = s
      BY <1>2, <2>2
    <3>2. n = p.callee[path[i]]
      BY <2>1, <2>2 DEF IsChain
    <3> QED
      BY <2>1, <3>1, <3>2
  <2>3. CASE i # Len(path)
    <3>1. i \in 1..(Len(path) - 1) /\ i + 1 \in 1..Len(path)
      <4>1. PICK k \in Nat : k = Len(path)
        BY <1>1
      <4>2. i \in 1..k /\ i # k
        BY <2>1, <2>3, <4>1
      <4>3. i \in 1..(k - 1) /\ i + 1 \in 1..k
        BY ONLY <4>1, <4>2
      <4> QED
        BY <4>1, <4>3
    <3>2. q[i + 1] = path[i + 1]
      BY <1>2, <3>1
    <3> QED
      BY <2>1, <3>1, <3>2 DEF IsChain
  <2> QED
    BY <2>2, <2>3
<1>6. q[Len(q)] = s
  BY <1>2
<1>7. IsChain(p, q, p.callee[s])
  BY <1>2, <1>3, <1>4, <1>5, <1>6 DEF IsChain
<1> QED
  BY <1>7 DEF q

\* The beginning of a chain is one, and leads to the procedure of the next call.
LEMMA ChainShrinks ==
  ASSUME NEW p, IsProgram(p), NEW path, NEW n, IsChain(p, path, n), NEW i \in 1..Len(path)
  PROVE  \E m \in Node : IsChain(p, SubSeq(path, 1, i - 1), m) /\ path[i] \in StmtsOf(p, m)
<1> DEFINE q == SubSeq(path, 1, i - 1)
<1>1. path \in Seq(CallStmts(p)) /\ Len(path) \in Nat /\ i \in Int /\ path # <<>>
  BY LenProperties, EmptySeq DEF IsChain
<1>2. \A j \in 1..(i - 1) : path[j] \in CallStmts(p)
  <2>1. \A j \in 1..(i - 1) : j \in 1..Len(path)
    BY <1>1
  <2> QED
    BY <1>1, <2>1, ElementOfSeq
<1>3. q \in Seq(CallStmts(p)) /\ Len(q) = i - 1 /\ \A j \in 1..(i - 1) : q[j] = path[j]
  BY <1>1, <1>2, SubSeqProperties
<1>4. CASE i = 1
  <2>1. q = <<>>
    BY <1>3, <1>4, EmptySeq
  <2>2. PICK m \in StartingProcedures(p) : path[1] \in StmtsOf(p, m)
    BY <1>1 DEF IsChain, Starts
  <2>3. IsChain(p, q, m) /\ m \in Node
    BY <2>1, EmptyChain DEF StartingProcedures
  <2> QED
    BY <1>4, <2>2, <2>3
<1>5. CASE i # 1
  <2>1. i - 1 \in 1..(Len(path) - 1) /\ i - 1 \in 1..(i - 1) /\ 1 \in 1..(i - 1) /\ (i - 1) + 1 = i
    BY <1>1, <1>5
  <2> DEFINE m == p.callee[path[i - 1]]
  <2>2. path[i] \in StmtsOf(p, m)
    BY <2>1 DEF IsChain
  <2>3. m \in Node
    BY <1>2, <2>1, ProgramProperties
  <2>4. q # <<>>
    BY <1>3, <2>1, EmptySeq
  <2>5. q[1] = path[1] /\ q[Len(q)] = path[i - 1]
    BY <1>3, <2>1
  <2>6. \A j \in 1..(Len(q) - 1) : q[j + 1] \in StmtsOf(p, p.callee[q[j]])
    <3> TAKE j \in 1..(Len(q) - 1)
    <3>1. j \in 1..(i - 1) /\ j + 1 \in 1..(i - 1) /\ j \in 1..(Len(path) - 1)
      BY <1>1, <1>3
    <3> QED
      BY <1>3, <3>1 DEF IsChain
  <2> HIDE DEF q
  <2>7. IsChain(p, q, m)
    BY <1>1, <1>3, <2>3, <2>4, <2>5, <2>6 DEF IsChain
  <2> QED
    BY <2>2, <2>3, <2>7 DEF q
<1> QED
  BY <1>4, <1>5

(***************************************************************************)
(* Where the last call of a chain returns to.                              *)
(***************************************************************************)
LEMMA NothingReturnsFromStart == ASSUME NEW p PROVE Returned(p, <<>>) = {}
<1>1. DOMAIN <<>> = {}
  OBVIOUS
<1> QED
  BY <1>1 DEF Returned

\* Where control returns to behind a further call: behind the call, and behind
\* that one's procedure when nothing comes behind the call.
LEMMA ReturnedGrows ==
  ASSUME NEW p, IsProgram(p), NEW path \in Seq(CallStmts(p)), NEW s \in CallStmts(p)
  PROVE  Returned(p, Append(path, s)) = IF p.next[s] = {} THEN Returned(p, path) ELSE {path} \X p.next[s]
<1> DEFINE q == Append(path, s)
           P(r) == {i \in DOMAIN r : p.next[r[i]] # {}}
           Last(r) == CHOOSE i \in P(r) : \A j \in P(r) : j <= i
<1>1. Len(path) \in Nat /\ DOMAIN path = 1..Len(path) /\ path \in [1..Len(path) -> CallStmts(p)]
  BY LenProperties
<1>2. /\ q \in Seq(CallStmts(p)) /\ Len(q) = Len(path) + 1
      /\ \A i \in 1..Len(path) : q[i] = path[i]
      /\ q[Len(path) + 1] = s
  BY AppendProperties
<1>3. DOMAIN q = 1..(Len(path) + 1)
  BY <1>2, LenProperties
<1>4. \A r : Returned(p, r) = IF P(r) = {} THEN {} ELSE {SubSeq(r, 1, Last(r) - 1)} \X p.next[r[Last(r)]]
  BY DEF Returned
<1>5. ASSUME NEW l \in 0..Len(path)
      PROVE  SubSeq(q, 1, l) = SubSeq(path, 1, l)
  <2>1. \A i \in 1..l : i \in 1..Len(path)
    BY <1>1
  <2>2. \A i \in 1..l : q[i] = path[i] /\ path[i] \in CallStmts(p)
    BY <1>1, <1>2, <2>1
  <2> HIDE DEF q
  <2>3. l \in Int /\ 1 \in Int /\ (l - 1) + 1 = l
    OBVIOUS
  <2>4. /\ SubSeq(q, 1, l) \in Seq(CallStmts(p)) /\ Len(SubSeq(q, 1, l)) = l
        /\ \A i \in 1..l : SubSeq(q, 1, l)[i] = q[i]
    BY <2>2, <2>3, SubSeqProperties
  <2>5. /\ SubSeq(path, 1, l) \in Seq(CallStmts(p)) /\ Len(SubSeq(path, 1, l)) = l
        /\ \A i \in 1..l : SubSeq(path, 1, l)[i] = path[i]
    BY <2>2, <2>3, SubSeqProperties
  <2> QED
    BY <2>2, <2>4, <2>5, SeqEqual
<1>6. SubSeq(path, 1, Len(path)) = path
  BY SubSeqFull
<1> HIDE DEF q
<1>7. CASE p.next[s] = {}
  <2>1. P(q) = P(path)
    BY <1>1, <1>2, <1>3, <1>7
  <2>2. Last(q) = Last(path)
    BY <2>1
  <2>3. CASE P(path) = {}
    BY <1>4, <1>7, <2>1, <2>3 DEF q
  <2>4. CASE P(path) # {}
    <3>1. P(path) \in SUBSET (0..Len(path))
      BY <1>1
    <3>2. \E i \in P(path) : \A j \in P(path) : j <= i
      <4> HIDE DEF P
      <4> QED
        BY <1>1, <2>4, <3>1, GreatestElement
    <3>3. Last(path) \in P(path)
      BY <3>2, Zenon
    <3> DEFINE l == Last(path)
    <3>4. l \in 1..Len(path) /\ l - 1 \in 0..Len(path)
      <4>1. l \in DOMAIN path
        BY <3>3
      <4> HIDE DEF l
      <4> QED
        BY <1>1, <4>1
    <3>5. q[l] = path[l] /\ SubSeq(q, 1, l - 1) = SubSeq(path, 1, l - 1)
      <4> HIDE DEF l
      <4> QED
        BY <1>2, <1>5, <3>4
    <3>6. Last(q) = l
      BY <2>2
    <3> HIDE DEF l, P, Last
    <3>7. Returned(p, q) = {SubSeq(q, 1, l - 1)} \X p.next[q[l]]
      BY <1>4, <2>1, <2>4, <3>6
    <3>8. Returned(p, path) = {SubSeq(path, 1, l - 1)} \X p.next[path[l]]
      BY <1>4, <2>4 DEF l
    <3> QED
      BY <1>7, <3>5, <3>7, <3>8 DEF q
  <2> QED
    BY <2>3, <2>4
<1>8. CASE p.next[s] # {}
  <2> DEFINE k == Len(path) + 1
  <2>1. k \in P(q) /\ \A j \in P(q) : j \in 1..k
    BY <1>1, <1>2, <1>3, <1>8
  <2>2. \A j \in P(q) : j <= k
    BY <1>1, <2>1
  <2>3. \E i \in P(q) : \A j \in P(q) : j <= i
    BY <2>1, <2>2
  <2>4. Last(q) \in P(q) /\ \A j \in P(q) : j <= Last(q)
    BY <2>3, Zenon
  <2>5. Last(q) = k
    <3> DEFINE l == Last(q)
    <3>1. l \in 1..k /\ k <= l
      BY <2>1, <2>4
    <3> HIDE DEF l
    <3>2. l = k
      BY <1>1, <3>1
    <3> QED
      BY <3>2 DEF l
  <2>6. k - 1 = Len(path)
    BY <1>1
  <2>7. SubSeq(q, 1, k - 1) = path
    BY <1>1, <1>5, <1>6, <2>6
  <2> HIDE DEF P, Last
  <2>8. Returned(p, q) = {SubSeq(q, 1, k - 1)} \X p.next[q[k]]
    BY <1>4, <2>1, <2>5
  <2> QED
    BY <1>2, <1>8, <2>7, <2>8 DEF q
<1> QED
  BY <1>7, <1>8

(***************************************************************************)
(* The copies, and the steps between them.                                 *)
(***************************************************************************)
LEMMA FunctionsAreFinite ==
  ASSUME NEW k \in Nat, NEW S, IsFiniteSet(S)
  PROVE  IsFiniteSet([1..k -> S])
<1> DEFINE X == (1..k) \X S
           G == SUBSET X
           Read(g) == [i \in 1..k |-> CHOOSE s : <<i, s>> \in g]
           f == [g \in G |-> Read(g)]
           T == {f[g] : g \in G}
<1>1. IsFiniteSet(G)
  <2>1. IsFiniteSet(1..k)
    BY FS_Interval
  <2>2. IsFiniteSet(X)
    BY <2>1, FS_Product
  <2> HIDE DEF X
  <2> QED
    BY <2>2, FS_SUBSET
<1>2. f \in Surjection(G, T)
  BY DEF Surjection
<1>3. IsFiniteSet(T)
  <2> HIDE DEF f, G, T
  <2> QED
    BY <1>1, <1>2, FS_Surjection
<1>4. ASSUME NEW h \in [1..k -> S]
      PROVE  h \in T
  <2> DEFINE g == {<<i, h[i]>> : i \in 1..k}
  <2>1. g \in G
    <3>1. \A i \in 1..k : <<i, h[i]>> \in X
      OBVIOUS
    <3> HIDE DEF X
    <3> QED
      BY <3>1
  <2>2. \A i \in 1..k : (CHOOSE s : <<i, s>> \in g) = h[i]
    <3> TAKE i \in 1..k
    <3>1. \A s : <<i, s>> \in g <=> s = h[i]
      OBVIOUS
    <3> HIDE DEF g
    <3> QED
      BY <3>1, Zenon
  <2>3. Read(g) = h
    <3> HIDE DEF g
    <3> QED
      BY <2>2
  <2>4. f[g] = Read(g)
    <3> HIDE DEF g, Read, G
    <3> QED
      BY <2>1
  <2> HIDE DEF f, g, G, Read
  <2> QED
    BY <2>1, <2>3, <2>4
<1>5. [1..k -> S] \subseteq T
  <2> HIDE DEF T
  <2> QED
    BY <1>4
<1> HIDE DEF T
<1> QED
  BY <1>3, <1>5, FS_Subset

\* What a copy is.
LEMMA CopyIs ==
  ASSUME NEW p, IsProgram(p), NEW path, NEW s
  PROVE  <<path, s>> \in Copies(p) <=> \E n \in Node : IsChain(p, path, n) /\ s \in StmtsOf(p, n)
BY PathsAreChains DEF Copies

\* A copy is a statement of the procedure that its chain of calls leads to.
LEMMA CopiesAreOfChains ==
  ASSUME NEW p, IsProgram(p), NEW c \in Copies(p)
  PROVE  \E n, path, s : n \in Node /\ s \in StmtsOf(p, n) /\ c = <<path, s>> /\ IsChain(p, path, n)
BY PathsAreChains DEF Copies

\* The procedure of the statement is the one the chain leads to.
LEMMA CopyIsIn ==
  ASSUME NEW p, IsProgram(p), NEW path, NEW n \in Node, NEW s \in StmtsOf(p, n), <<path, s>> \in Copies(p)
  PROVE  IsChain(p, path, n)
<1>1. PICK m \in Node : IsChain(p, path, m) /\ s \in StmtsOf(p, m)
  BY CopyIs
<1>2. m = n
  BY <1>1, ProgramProperties
<1> QED
  BY <1>1, <1>2

\* There are finitely many copies: the statements are finite and the chains
\* are of limited length.
LEMMA CopiesAreFinite ==
  ASSUME NEW p, IsProgram(p)
  PROVE  /\ Copies(p) \in SUBSET (Seq(CallStmts(p)) \X Stmts(p)) /\ IsFiniteSet(Copies(p))
<1> DEFINE Short == UNION {[1..k -> CallStmts(p)] : k \in 0..(Cardinality(Node) - 1)}
<1>1. IsFiniteSet(CallStmts(p)) /\ IsFiniteSet(Stmts(p)) /\ CallStmts(p) \subseteq Stmts(p)
  BY ProgramProperties, FS_Subset DEF CallStmts
<1>2. IsFiniteSet(Short)
  <2> DEFINE K == 0..(Cardinality(Node) - 1)
             f == [k \in K |-> [1..k -> CallStmts(p)]]
             T == {f[k] : k \in K}
  <2>1. IsFiniteSet(K)
    BY FS_Interval, FS_CardinalityType, NodeAssumption
  <2>2. f \in Surjection(K, T)
    BY DEF Surjection
  <2>3. IsFiniteSet(T)
    <3> HIDE DEF f, K, T
    <3> QED
      BY <2>1, <2>2, FS_Surjection
  <2>4. \A k \in K : k \in Nat
    OBVIOUS
  <2>5. \A t \in T : IsFiniteSet(t)
    <3> TAKE t \in T
    <3>1. PICK k \in K : t = [1..k -> CallStmts(p)]
      OBVIOUS
    <3> QED
      BY <1>1, <2>4, <3>1, FunctionsAreFinite
  <2>6. Short = UNION T
    OBVIOUS
  <2> HIDE DEF T, Short
  <2> QED
    BY <2>3, <2>5, <2>6, FS_UNION
<1>3. \A n : Paths(p, n) \subseteq Short
  BY DEF Paths
<1>4. Copies(p) \subseteq Short \X Stmts(p)
  BY <1>3, ProgramProperties DEF Copies
<1>5. IsFiniteSet(Copies(p))
  <2> HIDE DEF Short
  <2>1. IsFiniteSet(Short \X Stmts(p))
    BY <1>1, <1>2, FS_Product
  <2> QED
    BY <1>4, <2>1, FS_Subset
<1>6. ASSUME NEW c \in Copies(p)
      PROVE  c \in Seq(CallStmts(p)) \X Stmts(p)
  <2>1. PICK n, path, s : n \in Node /\ s \in StmtsOf(p, n) /\ c = <<path, s>> /\ IsChain(p, path, n)
    BY CopiesAreOfChains
  <2> QED
    BY <2>1, ProgramProperties DEF IsChain
<1> QED
  BY <1>5, <1>6

\* The steps from a copy: the first are those of the statement, the others
\* the return from the procedure.
StepsInside(p, c) ==
  IF c[2] \in CallStmts(p) THEN {<<Append(c[1], c[2]), Entry(p, p.callee[c[2]])>>} ELSE {c[1]} \X p.next[c[2]]

StepsBack(p, c) == IF IsReturn(p, c[2]) THEN Returned(p, c[1]) ELSE {}

StepsAfter(p, c) == StepsInside(p, c) \cup StepsBack(p, c)

\* The steps of executions, copy by copy.
LEMMA StepsAre ==
  ASSUME NEW p
  PROVE  ExecutionSteps(p) = UNION {{c} \X StepsAfter(p, c) : c \in Copies(p)}
BY DEF ExecutionSteps, StepsAfter, StepsInside, StepsBack, IsReturn

\* Control returns to copies.
LEMMA ReturnsAreCopies ==
  ASSUME NEW p, IsProgram(p), NEW path, NEW n, IsChain(p, path, n)
  PROVE  Returned(p, path) \subseteq Copies(p)
<1> DEFINE P == {i \in DOMAIN path : p.next[path[i]] # {}}
           l == CHOOSE i \in P : \A j \in P : j <= i
<1>1. path \in Seq(CallStmts(p)) /\ Len(path) \in Nat /\ DOMAIN path = 1..Len(path)
  BY LenProperties DEF IsChain
<1>2. CASE P = {}
  BY <1>2 DEF Returned
<1>3. CASE P # {}
  <2>1. P \in SUBSET (0..Len(path))
    BY <1>1
  <2>2. \E i \in P : \A j \in P : j <= i
    <3> HIDE DEF P
    <3> QED
      BY <1>1, <1>3, <2>1, GreatestElement
  <2>3. l \in P
    BY <2>2, Zenon
  <2>4. l \in 1..Len(path)
    <3>1. l \in DOMAIN path
      BY <2>3
    <3> HIDE DEF l
    <3> QED
      BY <1>1, <3>1
  <2>5. Returned(p, path) = {SubSeq(path, 1, l - 1)} \X p.next[path[l]]
    BY <1>3 DEF Returned
  <2> HIDE DEF l
  <2>6. PICK m \in Node : IsChain(p, SubSeq(path, 1, l - 1), m) /\ path[l] \in StmtsOf(p, m)
    BY <2>4, ChainShrinks
  <2>7. \A t \in p.next[path[l]] : <<SubSeq(path, 1, l - 1), t>> \in Copies(p)
    <3>1. p.next[path[l]] \subseteq StmtsOf(p, m)
      BY <2>6, ProgramProperties
    <3> QED
      BY <2>6, <3>1, CopyIs
  <2> QED
    BY <2>5, <2>7
<1> QED
  BY <1>2, <1>3

\* Executions step from copy to copy.
LEMMA StepsAreOfCopies ==
  ASSUME NEW p, IsProgram(p)
  PROVE  /\ \A c \in Copies(p) : StepsAfter(p, c) \subseteq Copies(p)
         /\ ExecutionSteps(p) \in SUBSET (Copies(p) \X Copies(p))
<1>1. ASSUME NEW c \in Copies(p)
      PROVE  StepsAfter(p, c) \subseteq Copies(p)
  <2>1. PICK n, path, s : n \in Node /\ s \in StmtsOf(p, n) /\ c = <<path, s>> /\ IsChain(p, path, n)
    BY CopiesAreOfChains
  <2>2. c[1] = path /\ c[2] = s
    BY <2>1
  <2>3. StepsBack(p, c) \subseteq Copies(p)
    BY <2>1, <2>2, ReturnsAreCopies DEF StepsBack
  <2>4. CASE s \in CallStmts(p)
    <3>1. IsChain(p, Append(path, s), p.callee[s]) /\ p.callee[s] \in Node
      BY <2>1, <2>4, ChainGrows, CallsAreOfProcedures
    <3>2. Entry(p, p.callee[s]) \in StmtsOf(p, p.callee[s])
      BY <3>1, ProgramProperties
    <3>3. <<Append(path, s), Entry(p, p.callee[s])>> \in Copies(p)
      BY <3>1, <3>2, CopyIs
    <3> QED
      BY <2>2, <2>3, <2>4, <3>3 DEF StepsAfter, StepsInside
  <2>5. CASE s \notin CallStmts(p)
    <3>1. p.next[s] \subseteq StmtsOf(p, n)
      BY <2>1, ProgramProperties
    <3>2. {path} \X p.next[s] \subseteq Copies(p)
      BY <2>1, <3>1, CopyIs
    <3> QED
      BY <2>2, <2>3, <2>5, <3>2 DEF StepsAfter, StepsInside
  <2> QED
    BY <2>4, <2>5
<1>2. ExecutionSteps(p) \subseteq Copies(p) \X Copies(p)
  <2>1. ExecutionSteps(p) = UNION {{c} \X StepsAfter(p, c) : c \in Copies(p)}
    BY StepsAre
  <2> QED
    BY <1>1, <2>1
<1> QED
  BY <1>1, <1>2

(***************************************************************************)
(* Stacks.                                                                 *)
(***************************************************************************)
LEMMA TopIsReplaced ==
  ASSUME NEW S, NEW F \in Seq(S), F # <<>>, NEW x \in S
  PROVE  LET G == <<x>> \o Tail(F) IN
         /\ G \in Seq(S) /\ Len(G) = Len(F) /\ Len(F) \in Nat /\ Len(F) >= 1
         /\ G[1] = x /\ \A i \in 2..Len(F) : G[i] = F[i]
<1>1. Tail(F) \in Seq(S) /\ Len(Tail(F)) = Len(F) - 1 /\ \A i \in 1..Len(Tail(F)) : Tail(F)[i] = F[i + 1]
  BY HeadTailProperties
<1>2. <<x>> \in Seq(S) /\ Len(<<x>>) = 1 /\ <<x>>[1] = x
  OBVIOUS
<1>3. Len(F) \in Nat /\ Len(F) >= 1
  BY EmptySeq, LenProperties
<1> DEFINE G == <<x>> \o Tail(F)
<1>4. /\ G \in Seq(S) /\ Len(G) = 1 + (Len(F) - 1)
      /\ \A i \in 1..(1 + (Len(F) - 1)) : G[i] = IF i <= 1 THEN <<x>>[i] ELSE Tail(F)[i - 1]
  BY <1>1, <1>2, ConcatProperties
<1> HIDE DEF G
<1>5. Len(G) = Len(F)
  BY <1>3, <1>4
<1>6. G[1] = x
  BY <1>2, <1>3, <1>4
<1>7. ASSUME NEW i \in 2..Len(F)
      PROVE  G[i] = F[i]
  <2>1. i \in 1..(1 + (Len(F) - 1)) /\ ~(i <= 1) /\ i - 1 \in 1..(Len(F) - 1) /\ (i - 1) + 1 = i
    BY <1>3
  <2>2. Tail(F)[i - 1] = F[(i - 1) + 1]
    BY <1>1, <2>1
  <2> QED
    BY <1>4, <2>1, <2>2
<1>8. /\ G \in Seq(S) /\ Len(G) = Len(F) /\ Len(F) \in Nat /\ Len(F) >= 1
      /\ G[1] = x /\ \A i \in 2..Len(F) : G[i] = F[i]
  BY <1>3, <1>4, <1>5, <1>6, <1>7
<1> QED
  BY <1>8 DEF G

\* What is on a stack after a push.
LEMMA TopIsAdded ==
  ASSUME NEW S, NEW F \in Seq(S), NEW x \in S
  PROVE  LET G == <<x>> \o F IN
         /\ G \in Seq(S) /\ Len(G) = Len(F) + 1 /\ Len(F) \in Nat
         /\ G[1] = x /\ \A i \in 1..Len(F) : G[i + 1] = F[i]
<1>1. <<x>> \in Seq(S) /\ Len(<<x>>) = 1 /\ <<x>>[1] = x /\ Len(F) \in Nat
  BY LenProperties
<1> DEFINE G == <<x>> \o F
<1>2. /\ G \in Seq(S) /\ Len(G) = 1 + Len(F)
      /\ \A i \in 1..(1 + Len(F)) : G[i] = IF i <= 1 THEN <<x>>[i] ELSE F[i - 1]
  BY <1>1, ConcatProperties
<1> HIDE DEF G
<1>3. G[1] = x
  BY <1>1, <1>2
<1>4. ASSUME NEW i \in 1..Len(F)
      PROVE  G[i + 1] = F[i]
  <2>1. i + 1 \in 1..(1 + Len(F)) /\ ~(i + 1 <= 1) /\ (i + 1) - 1 = i
    BY <1>1
  <2> QED
    BY <1>2, <2>1
<1>5. /\ G \in Seq(S) /\ Len(G) = Len(F) + 1 /\ Len(F) \in Nat
      /\ G[1] = x /\ \A i \in 1..Len(F) : G[i + 1] = F[i]
  BY <1>1, <1>2, <1>3, <1>4
<1> QED
  BY <1>5 DEF G

\* What is on a stack after a pop.
LEMMA TopIsRemoved ==
  ASSUME NEW S, NEW F \in Seq(S), Len(F) > 1
  PROVE  LET G == Tail(F) IN
         /\ G \in Seq(S) /\ Len(G) = Len(F) - 1 /\ Len(F) \in Nat /\ G # <<>>
         /\ \A i \in 1..(Len(F) - 1) : G[i] = F[i + 1]
<1>1. Len(F) \in Nat /\ F # <<>>
  BY EmptySeq, LenProperties
<1>2. /\ Tail(F) \in Seq(S) /\ Len(Tail(F)) = Len(F) - 1
      /\ \A i \in 1..Len(Tail(F)) : Tail(F)[i] = F[i + 1]
  BY <1>1, HeadTailProperties
<1>3. Tail(F) # <<>>
  <2>1. Len(<<>>) = 0
    OBVIOUS
  <2>2. Len(Tail(F)) # 0
    BY <1>1, <1>2
  <2> QED
    BY <2>1, <2>2
<1> QED
  BY <1>1, <1>2, <1>3

(***************************************************************************)
(* The activations of ExplodeGraph.                                        *)
(***************************************************************************)
FrameType(p) ==
  [proc : Node, path : Seq(CallStmts(p)), exit : {NoNode} \cup (Seq(CallStmts(p)) \X Stmts(p)), stmt : Nat]

\* The path of an activation leads to its procedure, which it leaves for exit.
IsActivation(p, f) ==
  /\ IsChain(p, f.path, f.proc)
  /\ f.stmt \in StmtsOf(p, f.proc) \cup {p.range[f.proc].last + 1}
  /\ Returned(p, f.path) = IF f.exit = NoNode THEN {} ELSE {f.exit}

\* The activation f was entered at the call that g is at.
IsCallOf(p, f, g) ==
  /\ g.stmt \in CallStmts(p) /\ g.stmt \in StmtsOf(p, g.proc)
  /\ f.path = Append(g.path, g.stmt) /\ f.proc = p.callee[g.stmt]

IsStack(p, F, W) ==
  /\ F \in Seq(FrameType(p))
  /\ \A i \in 1..Len(F) : IsActivation(p, F[i]) /\ Len(F[i].path) = Len(F) - i
  /\ \A i \in 1..(Len(F) - 1) : IsCallOf(p, F[i], F[i + 1])
  /\ F # <<>> => F[Len(F)].proc \notin W

\* path begins with the calls of q.
Extends(path, q) == Len(q) <= Len(path) /\ \A i \in 1..Len(q) : path[i] = q[i]

Has(E, c, steps) == \A d \in steps : <<c, d>> \in E

\* What an activation has left behind: the steps inside of its statements and
\* all that is below its calls.
FrameDone(E, p, f) ==
  \A s \in StmtsOf(p, f.proc) : s < f.stmt =>
    /\ Has(E, <<f.path, s>>, StepsInside(p, <<f.path, s>>))
    /\ s \in CallStmts(p) => \A c \in Copies(p) : Extends(c[1], Append(f.path, s)) => Has(E, c, StepsAfter(p, c))

\* The copies of the graph of m.
StartOf(p, c, m) == (IF c[1] = <<>> THEN c[2] ELSE c[1][1]) \in StmtsOf(p, m)

StartDone(E, p, m) == \A c \in Copies(p) : StartOf(p, c, m) => Has(E, c, StepsAfter(p, c))

\* W: the procedures to begin with.
IsExploding(p, W, F, E) ==
  /\ IsStack(p, F, W)
  /\ E \subseteq ExecutionSteps(p)
  /\ \A i \in 1..Len(F) : FrameDone(E, p, F[i])
  /\ \A m \in StartingProcedures(p) \ W : (F # <<>> => m # F[Len(F)].proc) => StartDone(E, p, m)

\* More edges undo nothing.
LEMMA DoneStaysDone ==
  ASSUME NEW p, NEW E, NEW D, E \subseteq D
  PROVE  /\ \A f : FrameDone(E, p, f) => FrameDone(D, p, f)
         /\ \A m : StartDone(E, p, m) => StartDone(D, p, m)
<1>1. \A c, steps : Has(E, c, steps) => Has(D, c, steps)
  BY DEF Has
<1> QED
  BY <1>1 DEF FrameDone, StartDone

\* A procedure's statements are consecutive numbers, from its entry to its
\* last.
LEMMA RangesAreOfNumbers ==
  ASSUME NEW p, IsProgram(p), NEW n \in Node
  PROVE  /\ p.range[n].first \in Nat /\ p.range[n].last \in Nat
         /\ Entry(p, n) \in StmtsOf(p, n) /\ StmtsOf(p, n) \subseteq Nat
         /\ \A s \in StmtsOf(p, n) : Entry(p, n) <= s /\ s <= p.range[n].last
         /\ \A s \in StmtsOf(p, n) : s + 1 \in StmtsOf(p, n) \cup {p.range[n].last + 1}
<1>1. p.range \in [Node -> [first : Stmts(p), last : Stmts(p)]] /\ Stmts(p) \subseteq Nat
  <2>1. p.stmts \in Nat /\ Stmts(p) = 1..p.stmts
    BY ProgramProperties
  <2>2. Stmts(p) \subseteq Nat
    BY <2>1
  <2>3. p.range \in [Node -> [first : Stmts(p), last : Stmts(p)]]
    BY DEF IsProgram
  <2> QED
    BY <2>2, <2>3
<1>2. p.range[n].first \in Nat /\ p.range[n].last \in Nat
  BY <1>1
<1>3. Entry(p, n) \in StmtsOf(p, n)
  BY ProgramProperties
<1> QED
  BY <1>2, <1>3 DEF StmtsOf, Entry

\* An activation that goes on to its next statement.
LEMMA ActivationAdvances ==
  ASSUME NEW p, IsProgram(p), NEW f \in FrameType(p), IsActivation(p, f), f.stmt \in StmtsOf(p, f.proc)
  PROVE  LET g == [f EXCEPT !.stmt = @ + 1] IN
         /\ g \in FrameType(p) /\ IsActivation(p, g)
         /\ g.path = f.path /\ g.proc = f.proc /\ g.stmt = f.stmt + 1 /\ f.stmt \in Nat
         /\ \A s \in StmtsOf(p, f.proc) : s < g.stmt => s < f.stmt \/ s = f.stmt
<1> DEFINE g == [f EXCEPT !.stmt = @ + 1]
<1>1. f.stmt \in Nat /\ f.proc \in Node
  BY DEF FrameType
<1>2. g \in FrameType(p) /\ g.path = f.path /\ g.proc = f.proc /\ g.stmt = f.stmt + 1 /\ g.exit = f.exit
  BY <1>1 DEF FrameType
<1> HIDE DEF g
<1>3. IsActivation(p, g)
  BY <1>1, <1>2, RangesAreOfNumbers DEF IsActivation
<1>4. \A s \in StmtsOf(p, f.proc) : s < g.stmt => s < f.stmt \/ s = f.stmt
  BY <1>1, <1>2, RangesAreOfNumbers
<1>5. /\ g \in FrameType(p) /\ IsActivation(p, g)
      /\ g.path = f.path /\ g.proc = f.proc /\ g.stmt = f.stmt + 1 /\ f.stmt \in Nat
      /\ \A s \in StmtsOf(p, f.proc) : s < g.stmt => s < f.stmt \/ s = f.stmt
  BY <1>1, <1>2, <1>3, <1>4
<1> QED
  BY <1>5 DEF g

(***************************************************************************)
(* The steps of ExplodeGraph.                                              *)
(***************************************************************************)
LEMMA ProcedureIsBegun ==
  ASSUME NEW p, IsProgram(p), NEW W \in SUBSET StartingProcedures(p), NEW E, IsExploding(p, W, <<>>, E),
         NEW n \in W, NEW f,
         f = [proc |-> n, path |-> <<>>, exit |-> NoNode, stmt |-> Entry(p, n)]
  PROVE  IsExploding(p, W \ {n}, <<f>>, E)
<1>1. n \in Node /\ n \in StartingProcedures(p)
  BY DEF StartingProcedures
<1>2. IsChain(p, <<>>, n) /\ <<>> \in Seq(CallStmts(p)) /\ Len(<<>>) = 0
  BY <1>1, EmptyChain, EmptySeq
<1>3. f \in FrameType(p)
  BY <1>1, <1>2, RangesAreOfNumbers DEF FrameType
<1>4. IsActivation(p, f)
  BY <1>1, <1>2, RangesAreOfNumbers, NothingReturnsFromStart DEF IsActivation
<1>5. FrameDone(E, p, f)
  BY <1>1, RangesAreOfNumbers DEF FrameDone
<1> DEFINE F == <<f>>
<1>6. F \in Seq(FrameType(p)) /\ Len(F) = 1 /\ F[1] = f /\ F # <<>> /\ \A i \in 1..1 : i = 1
  BY <1>3
<1> HIDE DEF F
<1>7. IsStack(p, F, W \ {n})
  <2>1. \A i \in 1..Len(F) : IsActivation(p, F[i]) /\ Len(F[i].path) = Len(F) - i
    BY <1>2, <1>4, <1>6
  <2>2. 1..(Len(F) - 1) = {}
    BY <1>6
  <2>3. F[Len(F)].proc \notin W \ {n}
    BY <1>6
  <2> QED
    BY <1>6, <2>1, <2>2, <2>3 DEF IsStack
<1>8. ASSUME NEW m \in StartingProcedures(p) \ (W \ {n}), m # F[Len(F)].proc
      PROVE  StartDone(E, p, m)
  <2>1. m # n
    BY <1>6, <1>8
  <2> QED
    BY <2>1 DEF IsExploding
<1>9. IsExploding(p, W \ {n}, F, E)
  BY <1>5, <1>6, <1>7, <1>8 DEF IsExploding
<1> QED
  BY <1>9 DEF F

\* What is known of an activation on the stack.
LEMMA FramesAre ==
  ASSUME NEW p, NEW W, NEW F, IsStack(p, F, W), NEW i \in 1..Len(F)
  PROVE  /\ Len(F) \in Nat /\ F[i] \in FrameType(p) /\ IsActivation(p, F[i]) /\ IsChain(p, F[i].path, F[i].proc)
         /\ F[i].proc \in Node /\ F[i].path \in Seq(CallStmts(p)) /\ F[i].stmt \in Nat
<1>1. F[i] \in FrameType(p) /\ Len(F) \in Nat
  BY ElementOfSeq, LenProperties DEF IsStack
<1>2. F[i].proc \in Node /\ F[i].path \in Seq(CallStmts(p)) /\ F[i].stmt \in Nat
  BY <1>1 DEF FrameType
<1> QED
  BY <1>1, <1>2 DEF IsStack, IsActivation

\* ExplodeGraph connects a statement that is no call, and goes on to the next.
LEMMA StatementIsConnected ==
  ASSUME NEW p, IsProgram(p), NEW W, NEW F, NEW E, IsExploding(p, W, F, E), F # <<>>,
         F[1].stmt \in StmtsOf(p, F[1].proc), F[1].stmt \notin CallStmts(p),
         NEW D, D = E \cup {<<(<<F[1].path, F[1].stmt>>), (<<F[1].path, t>>)>> : t \in p.next[F[1].stmt]}
  PROVE  IsExploding(p, W, <<[F[1] EXCEPT !.stmt = @ + 1]>> \o Tail(F), D)
<1> DEFINE f == F[1]
           g == [f EXCEPT !.stmt = @ + 1]
           G == <<g>> \o Tail(F)
           c == <<f.path, f.stmt>>
<1>1. IsStack(p, F, W) /\ F \in Seq(FrameType(p))
  BY DEF IsExploding, IsStack
<1>2. Len(F) \in Nat /\ 1 \in 1..Len(F)
  BY <1>1, EmptySeq, LenProperties
<1>3. /\ f \in FrameType(p) /\ IsActivation(p, f) /\ IsChain(p, f.path, f.proc)
      /\ f.proc \in Node /\ f.path \in Seq(CallStmts(p)) /\ f.stmt \in Nat
  BY <1>1, <1>2, FramesAre
<1>4. /\ g \in FrameType(p) /\ IsActivation(p, g)
      /\ g.path = f.path /\ g.proc = f.proc
      /\ \A s \in StmtsOf(p, f.proc) : s < g.stmt => s < f.stmt \/ s = f.stmt
  BY <1>3, ActivationAdvances
<1>5. /\ G \in Seq(FrameType(p)) /\ Len(G) = Len(F) /\ Len(F) >= 1
      /\ G[1] = g /\ \A i \in 2..Len(F) : G[i] = F[i]
  BY <1>1, <1>4, TopIsReplaced
<1>6. f.stmt \in StmtsOf(p, f.proc) /\ f.stmt \notin CallStmts(p)
  OBVIOUS
<1>7. D = E \cup {<<c, <<f.path, t>>>> : t \in p.next[f.stmt]}
  OBVIOUS
<1> HIDE DEF f, g, G
<1>8. c \in Copies(p)
  BY <1>3, <1>6, CopyIs
<1>9. StepsInside(p, c) = {f.path} \X p.next[f.stmt]
  BY <1>6 DEF StepsInside
<1>10. D \subseteq ExecutionSteps(p)
  <2>1. ASSUME NEW t \in p.next[f.stmt]
        PROVE  <<c, <<f.path, t>>>> \in ExecutionSteps(p)
    <3>1. <<f.path, t>> \in StepsAfter(p, c)
      BY <1>9 DEF StepsAfter
    <3> QED
      BY <1>8, <3>1, StepsAre
  <2>2. E \subseteq ExecutionSteps(p)
    BY DEF IsExploding
  <2> QED
    BY <1>7, <2>1, <2>2
<1>11. Has(D, c, StepsInside(p, c))
  BY <1>7, <1>9 DEF Has
<1>12. FrameDone(E, p, f)
  BY <1>2 DEF IsExploding, f
<1>13. FrameDone(D, p, g)
  <2>1. FrameDone(D, p, f)
    BY <1>7, <1>12, DoneStaysDone
  <2> QED
    BY <1>4, <1>6, <1>11, <2>1 DEF FrameDone
<1>14. \A i \in 1..Len(F) : i = 1 \/ i \in 2..Len(F)
  BY <1>2
<1>15. ASSUME NEW i \in 1..Len(F)
       PROVE  /\ FrameDone(D, p, G[i]) /\ IsActivation(p, G[i]) /\ G[i].path = F[i].path /\ G[i].proc = F[i].proc
  <2>1. CASE i = 1
    BY <1>4, <1>5, <1>13, <2>1 DEF f
  <2>2. CASE i # 1
    <3>1. G[i] = F[i]
      BY <1>5, <1>14, <2>2
    <3>2. FrameDone(D, p, F[i])
      BY <1>7, DoneStaysDone DEF IsExploding
    <3> QED
      BY <1>1, <3>1, <3>2 DEF IsStack
  <2> QED
    BY <2>1, <2>2
<1>16. IsStack(p, G, W)
  <2>1. \A i \in 1..Len(G) : IsActivation(p, G[i]) /\ Len(G[i].path) = Len(G) - i
    BY <1>1, <1>5, <1>15 DEF IsStack
  <2>2. ASSUME NEW i \in 1..(Len(G) - 1)
        PROVE  IsCallOf(p, G[i], G[i + 1])
    <3>1. i \in 1..Len(F) /\ i + 1 \in 2..Len(F) /\ i \in 1..(Len(F) - 1)
      BY <1>2, <1>5
    <3>2. IsCallOf(p, F[i], F[i + 1])
      BY <1>1, <3>1 DEF IsStack
    <3> QED
      BY <1>5, <1>15, <3>1, <3>2 DEF IsCallOf
  <2>3. G[Len(G)].proc \notin W
    <3>1. Len(F) \in 1..Len(F)
      BY <1>2
    <3> QED
      BY <1>1, <1>5, <1>15, <3>1 DEF IsStack
  <2> QED
    BY <1>5, <2>1, <2>2, <2>3 DEF IsStack
<1>17. ASSUME NEW m \in StartingProcedures(p) \ W, m # G[Len(G)].proc
       PROVE  StartDone(D, p, m)
  <2>1. Len(F) \in 1..Len(F)
    BY <1>2
  <2>2. m # F[Len(F)].proc
    BY <1>5, <1>15, <1>17, <2>1
  <2> QED
    BY <1>7, <2>2, DoneStaysDone DEF IsExploding
<1>18. G # <<>>
  BY <1>2, <1>5
<1>19. IsExploding(p, W, G, D)
  BY <1>5, <1>10, <1>15, <1>16, <1>17, <1>18 DEF IsExploding
<1> QED
  BY <1>19 DEF G, g, f

\* ExplodeGraph meets a call, and begins with the procedure that is called.
\* Its exit is the statement behind the call, or where the caller returns to
\* when there is none.
LEMMA CallIsEntered ==
  ASSUME NEW p, IsProgram(p), NEW W, NEW F, NEW E, IsExploding(p, W, F, E), F # <<>>,
         NoNode \notin Seq(CallStmts(p)) \X Stmts(p),
         NEW s, s = F[1].stmt, s \in StmtsOf(p, F[1].proc), s \in CallStmts(p),
         NEW f,
         f = [proc |-> p.callee[s], path |-> Append(F[1].path, s),
              exit |-> IF p.next[s] = {} THEN F[1].exit ELSE <<F[1].path, CHOOSE t \in p.next[s] : TRUE>>,
              stmt |-> Entry(p, p.callee[s])]
  PROVE  IsExploding(p, W, <<f>> \o F, E)
<1> DEFINE G == <<f>> \o F
           top == F[1]
           n == p.callee[s]
           q == Append(top.path, s)
           next == CHOOSE t \in p.next[s] : TRUE
<1>1. IsStack(p, F, W) /\ F \in Seq(FrameType(p))
  BY DEF IsExploding, IsStack
<1>2. Len(F) \in Nat /\ 1 \in 1..Len(F)
  BY <1>1, EmptySeq, LenProperties
<1>3. /\ top \in FrameType(p) /\ IsActivation(p, top) /\ IsChain(p, top.path, top.proc)
      /\ top.proc \in Node /\ top.path \in Seq(CallStmts(p)) /\ top.stmt \in Nat
  BY <1>1, <1>2, FramesAre
<1>4. IsChain(p, q, n) /\ n \in Node /\ q \in Seq(CallStmts(p)) /\ Len(q) = Len(top.path) + 1
  <2>1. n \in Node
    BY <1>3, CallsAreOfProcedures
  <2>2. q \in Seq(CallStmts(p)) /\ Len(q) = Len(top.path) + 1
    <3> HIDE DEF top
    <3> QED
      BY <1>3, AppendProperties
  <2>3. IsChain(p, q, n)
    BY <1>3, ChainGrows
  <2> QED
    BY <2>1, <2>2, <2>3
<1>5. Entry(p, n) \in Nat /\ Entry(p, n) \in StmtsOf(p, n) /\ \A t \in StmtsOf(p, n) : ~(t < Entry(p, n))
  <2>1. Entry(p, n) \in Nat /\ Entry(p, n) \in StmtsOf(p, n)
    BY <1>4, RangesAreOfNumbers
  <2>2. \A t \in StmtsOf(p, n) : t \in Nat /\ Entry(p, n) <= t
    BY <1>4, RangesAreOfNumbers
  <2> QED
    BY <2>1, <2>2
<1>6. top.exit \in {NoNode} \cup (Seq(CallStmts(p)) \X Stmts(p))
  BY <1>3 DEF FrameType
<1>7. Returned(p, top.path) = IF top.exit = NoNode THEN {} ELSE {top.exit}
  BY <1>3 DEF IsActivation
<1>8. Returned(p, q) = IF p.next[s] = {} THEN Returned(p, top.path) ELSE {top.path} \X p.next[s]
  BY <1>3, ReturnedGrows
<1>9. f.proc = n /\ f.path = q /\ f.stmt = Entry(p, n) /\ f.exit = IF p.next[s] = {} THEN top.exit ELSE <<top.path, next>>
  OBVIOUS
<1>10. f.exit \in {NoNode} \cup (Seq(CallStmts(p)) \X Stmts(p)) /\ Returned(p, q) = IF f.exit = NoNode THEN {} ELSE {f.exit}
  <2>1. CASE p.next[s] = {}
    BY <1>6, <1>7, <1>8, <1>9, <2>1
  <2>2. CASE p.next[s] # {}
    <3>1. PICK t \in Stmts(p) : p.next[s] = {t}
      BY <2>2, CallLeadsToOne
    <3>2. next = t
      BY <3>1
    <3>3. f.exit = <<top.path, t>> /\ <<top.path, t>> \in Seq(CallStmts(p)) \X Stmts(p)
      BY <1>3, <1>9, <2>2, <3>1, <3>2
    <3>4. f.exit # NoNode
      BY <3>3
    <3>5. Returned(p, q) = {<<top.path, t>>}
      BY <1>8, <2>2, <3>1
    <3> QED
      BY <3>3, <3>4, <3>5
  <2> QED
    BY <2>1, <2>2
<1>11. f \in FrameType(p)
  <2>1. f = [proc |-> n, path |-> q, exit |-> f.exit, stmt |-> Entry(p, n)]
    OBVIOUS
  <2> HIDE DEF n, q
  <2> QED
    BY <1>4, <1>5, <1>10, <2>1 DEF FrameType
<1>12. s \in StmtsOf(p, top.proc) /\ s = top.stmt /\ s \in CallStmts(p)
  OBVIOUS
<1> HIDE DEF G, top, n, q, next
<1>13. /\ G \in Seq(FrameType(p)) /\ Len(G) = Len(F) + 1
       /\ G[1] = f /\ \A i \in 1..Len(F) : G[i + 1] = F[i]
  BY <1>1, <1>11, TopIsAdded DEF G
<1>14. IsActivation(p, f)
  BY <1>4, <1>5, <1>9, <1>10 DEF IsActivation
<1>15. FrameDone(E, p, f)
  BY <1>5, <1>9 DEF FrameDone
<1>16. \A i \in 1..Len(G) : i = 1 \/ (i - 1 \in 1..Len(F) /\ (i - 1) + 1 = i)
  BY <1>2, <1>13
<1>17. Len(top.path) = Len(F) - 1
  BY <1>1, <1>2 DEF IsStack, top
<1>18. ASSUME NEW i \in 1..Len(G)
       PROVE  FrameDone(E, p, G[i]) /\ IsActivation(p, G[i]) /\ Len(G[i].path) = Len(G) - i
  <2>1. CASE i = 1
    <3>1. G[i] = f /\ Len(f.path) = Len(G) - i
      BY <1>2, <1>4, <1>9, <1>13, <1>17, <2>1
    <3> QED
      BY <1>14, <1>15, <3>1
  <2>2. CASE i # 1
    <3>1. i - 1 \in 1..Len(F) /\ G[i] = F[i - 1]
      <4>1. i - 1 \in 1..Len(F) /\ (i - 1) + 1 = i
        BY <1>16, <2>2
      <4>2. G[(i - 1) + 1] = F[i - 1]
        BY <1>13, <4>1
      <4> QED
        BY <4>1, <4>2
    <3>2. Len(F[i - 1].path) = Len(F) - (i - 1)
      BY <1>1, <3>1 DEF IsStack
    <3>3. Len(F) - (i - 1) = Len(G) - i
      BY <1>2, <1>13
    <3> QED
      BY <1>1, <3>1, <3>2, <3>3 DEF IsStack, IsExploding
  <2> QED
    BY <2>1, <2>2
<1>19. ASSUME NEW i \in 1..(Len(G) - 1)
       PROVE  IsCallOf(p, G[i], G[i + 1])
  <2>1. i \in 1..Len(F) /\ G[i + 1] = F[i]
    <3>1. i \in 1..Len(F)
      BY <1>2, <1>13
    <3> QED
      BY <1>13, <3>1
  <2>2. CASE i = 1
    <3>1. G[i] = f /\ G[i + 1] = top
      BY <1>13, <2>1, <2>2 DEF top
    <3> QED
      BY <1>9, <1>12, <3>1 DEF IsCallOf, q, n
  <2>3. CASE i # 1
    <3>1. i - 1 \in 1..(Len(F) - 1) /\ i - 1 \in 1..Len(F) /\ (i - 1) + 1 = i
      BY <1>2, <2>1, <2>3
    <3>2. G[(i - 1) + 1] = F[i - 1]
      BY <1>13, <3>1
    <3>3. IsCallOf(p, F[i - 1], F[(i - 1) + 1])
      BY <1>1, <3>1 DEF IsStack
    <3> QED
      BY <2>1, <3>1, <3>2, <3>3
  <2> QED
    BY <2>2, <2>3
<1>20. G # <<>> /\ G[Len(G)] = F[Len(F)]
  <2>1. Len(F) \in 1..Len(F)
    BY <1>2
  <2>2. Len(<<>>) = 0
    OBVIOUS
  <2> QED
    BY <1>2, <1>13, <2>1, <2>2
<1>21. IsStack(p, G, W)
  BY <1>1, <1>13, <1>18, <1>19, <1>20 DEF IsStack
<1>22. IsExploding(p, W, G, E)
  BY <1>18, <1>20, <1>21 DEF IsExploding
<1> QED
  BY <1>22 DEF G

\* An activation that has run out of statements has connected all of them.
LEMMA ActivationIsOver ==
  ASSUME NEW p, IsProgram(p), NEW f \in FrameType(p), IsActivation(p, f), f.stmt \notin StmtsOf(p, f.proc)
  PROVE  \A s \in StmtsOf(p, f.proc) : s < f.stmt
<1>1. f.proc \in Node /\ f.stmt = p.range[f.proc].last + 1
  BY DEF IsActivation, FrameType
<1>2. p.range[f.proc].last \in Nat /\ \A s \in StmtsOf(p, f.proc) : s \in Nat /\ s <= p.range[f.proc].last
  BY <1>1, RangesAreOfNumbers
<1> QED
  BY <1>1, <1>2

\* What is below an activation that is over: its own copies, and those of
\* the calls it has made.
LEMMA CopiesBelow ==
  ASSUME NEW p, IsProgram(p), NEW q, NEW n, IsChain(p, q, n), q # <<>>,
         NEW c \in Copies(p), Extends(c[1], q)
  PROVE  \/ c[1] = q /\ c[2] \in StmtsOf(p, n)
         \/ \E t \in StmtsOf(p, n) : t \in CallStmts(p) /\ Extends(c[1], Append(q, t))
<1>1. PICK m, path, s : m \in Node /\ s \in StmtsOf(p, m) /\ c = <<path, s>> /\ IsChain(p, path, m)
  BY CopiesAreOfChains
<1>2. c[1] = path /\ c[2] = s
  BY <1>1
<1>3. /\ path \in Seq(CallStmts(p)) /\ q \in Seq(CallStmts(p))
      /\ n = p.callee[q[Len(q)]] /\ (path # <<>> => m = p.callee[path[Len(path)]])
  BY <1>1 DEF IsChain
<1>4. Len(path) \in Nat /\ Len(q) \in Nat /\ Len(q) >= 1
  BY <1>3, EmptySeq, LenProperties
<1>5. Len(q) <= Len(path) /\ \A i \in 1..Len(q) : path[i] = q[i]
  BY <1>2 DEF Extends
<1>6. CASE Len(path) = Len(q)
  <2>1. path = q
    BY <1>3, <1>5, <1>6, SeqEqual
  <2> QED
    BY <1>1, <1>2, <1>3, <2>1
<1>7. CASE Len(path) # Len(q)
  <2> DEFINE k == Len(q)
             t == path[k + 1]
  <2>1. k \in 1..(Len(path) - 1) /\ k + 1 \in 1..Len(path) /\ k \in 1..k
    BY <1>4, <1>5, <1>7
  <2>2. t \in StmtsOf(p, p.callee[path[k]])
    BY <1>1, <2>1 DEF IsChain
  <2>3. path[k] = q[k]
    BY <1>5, <2>1
  <2>4. t \in CallStmts(p)
    BY <1>3, <2>1, ElementOfSeq
  <2> HIDE DEF t
  <2>5. /\ Len(Append(q, t)) = k + 1 /\ Append(q, t)[k + 1] = t
        /\ \A i \in 1..k : Append(q, t)[i] = q[i]
    BY <1>3, <2>4, AppendProperties
  <2>6. \A i \in 1..(k + 1) : i \in 1..k \/ i = k + 1
    BY <1>4
  <2>7. ASSUME NEW i \in 1..(k + 1)
        PROVE  path[i] = Append(q, t)[i]
    <3>1. CASE i \in 1..k
      BY <1>5, <2>5, <3>1
    <3>2. CASE i = k + 1
      BY <2>5, <3>2 DEF t
    <3> QED
      BY <2>6, <3>1, <3>2
  <2>8. k + 1 <= Len(path)
    BY <1>4, <2>1
  <2>9. Extends(path, Append(q, t))
    BY <2>5, <2>7, <2>8 DEF Extends
  <2> QED
    BY <1>2, <1>3, <2>2, <2>3, <2>4, <2>9
<1> QED
  BY <1>6, <1>7

\* The procedure that was called is finished: the call is connected to its
\* copy, and its last statements to its exit.
LEMMA CallIsLeft ==
  ASSUME NEW p, IsProgram(p), NEW W, NEW F, NEW E, IsExploding(p, W, F, E), Len(F) > 1,
         F[1].stmt \notin StmtsOf(p, F[1].proc),
         NEW D,
         D = E \cup {<<(<<F[2].path, F[2].stmt>>), (<<F[1].path, Entry(p, F[1].proc)>>)>>}
               \cup (IF F[1].exit = NoNode THEN {}
                     ELSE {<<(<<F[1].path, s>>), F[1].exit>> : s \in {s \in StmtsOf(p, F[1].proc) : IsReturn(p, s)}})
  PROVE  IsExploding(p, W, <<[F[2] EXCEPT !.stmt = @ + 1]>> \o Tail(Tail(F)), D)
<1> DEFINE f == F[1]
           h == F[2]
           R == Tail(F)
           g == [h EXCEPT !.stmt = @ + 1]
           G == <<g>> \o Tail(R)
           n == f.proc
           c == <<h.path, h.stmt>>
<1>1. IsStack(p, F, W) /\ F \in Seq(FrameType(p))
  BY DEF IsExploding, IsStack
<1>2. Len(F) \in Nat /\ 1 \in 1..Len(F) /\ 2 \in 1..Len(F) /\ 1 \in 1..(Len(F) - 1)
  <2>1. Len(F) \in Nat
    BY <1>1, LenProperties
  <2> QED
    BY <2>1
<1>3. /\ f \in FrameType(p) /\ IsActivation(p, f) /\ IsChain(p, f.path, n)
      /\ n \in Node /\ f.path \in Seq(CallStmts(p)) /\ f.stmt \in Nat
  BY <1>1, <1>2, FramesAre
<1>4. /\ h \in FrameType(p) /\ IsActivation(p, h) /\ IsChain(p, h.path, h.proc)
      /\ h.proc \in Node /\ h.path \in Seq(CallStmts(p)) /\ h.stmt \in Nat
  BY <1>1, <1>2, FramesAre
<1>5. /\ h.stmt \in CallStmts(p) /\ h.stmt \in StmtsOf(p, h.proc)
      /\ f.path = Append(h.path, h.stmt) /\ n = p.callee[h.stmt]
  <2>1. IsCallOf(p, F[1], F[1 + 1])
    BY <1>1, <1>2 DEF IsStack
  <2> QED
    BY <2>1 DEF IsCallOf
<1>6. /\ g \in FrameType(p) /\ IsActivation(p, g)
      /\ g.path = h.path /\ g.proc = h.proc
      /\ \A s \in StmtsOf(p, h.proc) : s < g.stmt => s < h.stmt \/ s = h.stmt
  BY <1>4, <1>5, ActivationAdvances
<1>7. FrameDone(E, p, f) /\ FrameDone(E, p, h)
  BY <1>2 DEF IsExploding
<1>8. f.stmt \notin StmtsOf(p, n)
  OBVIOUS
<1> DEFINE back == IF f.exit = NoNode THEN {} ELSE {<<(<<f.path, s>>), f.exit>> : s \in {s \in StmtsOf(p, n) : IsReturn(p, s)}}
<1>9. D = E \cup {<<c, <<f.path, Entry(p, n)>>>>} \cup back
  OBVIOUS
<1>10. E \subseteq ExecutionSteps(p)
  BY DEF IsExploding
<1>11. /\ R \in Seq(FrameType(p)) /\ Len(R) = Len(F) - 1 /\ R # <<>>
       /\ \A i \in 1..(Len(F) - 1) : R[i] = F[i + 1]
  BY <1>1, TopIsRemoved
<1> HIDE DEF f, h, g, R, G, n, c
<1>12. /\ G \in Seq(FrameType(p)) /\ Len(G) = Len(R) /\ Len(R) >= 1
       /\ G[1] = g /\ \A i \in 2..Len(R) : G[i] = R[i]
  BY <1>6, <1>11, TopIsReplaced DEF G
<1>13. \A s \in StmtsOf(p, n) : s < f.stmt
  BY <1>3, <1>8, ActivationIsOver DEF n
<1>14. Returned(p, f.path) = IF f.exit = NoNode THEN {} ELSE {f.exit}
  BY <1>3 DEF IsActivation
<1>15. c \in Copies(p) /\ StepsInside(p, c) = {<<f.path, Entry(p, n)>>}
  <2>1. c[1] = h.path /\ c[2] = h.stmt
    BY DEF c
  <2> QED
    BY <1>4, <1>5, <2>1, CopyIs DEF c, StepsInside
<1>16. D \subseteq ExecutionSteps(p)
  <2>1. <<c, <<f.path, Entry(p, n)>>>> \in ExecutionSteps(p)
    <3>1. <<f.path, Entry(p, n)>> \in StepsAfter(p, c)
      BY <1>15 DEF StepsAfter
    <3> QED
      BY <1>15, <3>1, StepsAre
  <2>2. ASSUME NEW s \in StmtsOf(p, n), IsReturn(p, s), f.exit # NoNode
        PROVE  <<(<<f.path, s>>), f.exit>> \in ExecutionSteps(p)
    <3>1. <<f.path, s>> \in Copies(p)
      BY <1>3, CopyIs
    <3>2. f.exit \in StepsAfter(p, <<f.path, s>>)
      BY <1>14, <2>2 DEF StepsAfter, StepsBack
    <3> QED
      BY <3>1, <3>2, StepsAre
  <2>3. back \subseteq ExecutionSteps(p)
    BY <2>2
  <2> HIDE DEF back
  <2> QED
    BY <1>9, <1>10, <2>1, <2>3
<1>17. Has(D, c, StepsInside(p, c))
  BY <1>9, <1>15 DEF Has
<1>18. ASSUME NEW b \in Copies(p), Extends(b[1], f.path)
       PROVE  Has(D, b, StepsAfter(p, b))
  <2>1. f.path # <<>>
    BY <1>4, <1>5, AppendProperties
  <2>2. E \subseteq D
    BY <1>9
  <2>3. ASSUME NEW t \in StmtsOf(p, n), t \in CallStmts(p), Extends(b[1], Append(f.path, t))
        PROVE  Has(D, b, StepsAfter(p, b))
    <3>1. Has(E, b, StepsAfter(p, b))
      BY <1>7, <1>13, <2>3 DEF FrameDone, n
    <3> QED
      BY <2>2, <3>1 DEF Has
  <2>4. ASSUME b[1] = f.path, b[2] \in StmtsOf(p, n)
        PROVE  Has(D, b, StepsAfter(p, b))
    <3>1. b = <<f.path, b[2]>>
      BY <2>4, CopiesAreFinite
    <3>2. Has(E, b, StepsInside(p, b))
      BY <1>7, <1>13, <2>4, <3>1 DEF FrameDone, n
    <3>3. Has(D, b, StepsBack(p, b))
      <4>1. CASE IsReturn(p, b[2]) /\ f.exit # NoNode
        <5>1. <<b, f.exit>> \in back
          BY <2>4, <3>1, <4>1
        <5>2. StepsBack(p, b) = {f.exit}
          BY <1>14, <2>4, <4>1 DEF StepsBack
        <5> HIDE DEF back
        <5> QED
          BY <1>9, <5>1, <5>2 DEF Has
      <4>2. CASE ~(IsReturn(p, b[2]) /\ f.exit # NoNode)
        <5>1. StepsBack(p, b) = {}
          BY <1>14, <2>4, <4>2 DEF StepsBack
        <5> QED
          BY <5>1 DEF Has
      <4> QED
        BY <4>1, <4>2
    <3> QED
      BY <2>2, <3>2, <3>3 DEF Has, StepsAfter
  <2> QED
    BY <1>3, <1>18, <2>1, <2>3, <2>4, CopiesBelow
<1> HIDE DEF back
<1>19. FrameDone(D, p, g)
  <2>1. FrameDone(D, p, h)
    BY <1>7, <1>9, DoneStaysDone
  <2>2. ASSUME NEW s \in StmtsOf(p, h.proc), s = h.stmt
        PROVE  /\ Has(D, <<h.path, s>>, StepsInside(p, <<h.path, s>>))
               /\ \A b \in Copies(p) : Extends(b[1], Append(h.path, s)) => Has(D, b, StepsAfter(p, b))
    BY <1>5, <1>17, <1>18, <2>2 DEF c
  <2> QED
    BY <1>6, <2>1, <2>2 DEF FrameDone
<1>20. ASSUME NEW i \in 1..Len(G)
       PROVE  /\ i + 1 \in 1..Len(F)
              /\ FrameDone(D, p, G[i]) /\ IsActivation(p, G[i]) /\ Len(G[i].path) = Len(G) - i
              /\ G[i].path = F[i + 1].path /\ G[i].proc = F[i + 1].proc
  <2>1. i \in 1..(Len(F) - 1) /\ i + 1 \in 1..Len(F) /\ Len(F) - (i + 1) = Len(G) - i
    BY <1>2, <1>11, <1>12
  <2>2. Len(F[i + 1].path) = Len(G) - i
    BY <1>1, <2>1 DEF IsStack
  <2>3. CASE i = 1
    <3>1. G[i] = g /\ F[i + 1] = h
      BY <1>12, <2>3 DEF h
    <3> QED
      BY <1>6, <1>19, <2>1, <2>2, <3>1
  <2>4. CASE i # 1
    <3>1. i \in 2..Len(R)
      BY <1>2, <1>11, <2>1, <2>4
    <3>2. G[i] = F[i + 1]
      BY <1>11, <1>12, <2>1, <3>1
    <3>3. FrameDone(D, p, F[i + 1])
      BY <1>9, <2>1, DoneStaysDone DEF IsExploding
    <3> QED
      BY <1>1, <2>1, <2>2, <3>2, <3>3 DEF IsStack
  <2> QED
    BY <2>3, <2>4
<1>21. ASSUME NEW i \in 1..(Len(G) - 1)
       PROVE  IsCallOf(p, G[i], G[i + 1])
  <2>1. i + 1 \in 1..(Len(F) - 1) /\ i + 1 \in 2..Len(R) /\ i \in 1..Len(G) /\ i + 1 \in 1..Len(G)
    BY <1>2, <1>11, <1>12
  <2>2. IsCallOf(p, F[i + 1], F[(i + 1) + 1])
    BY <1>1, <2>1 DEF IsStack
  <2>3. G[i + 1] = F[(i + 1) + 1]
    BY <1>11, <1>12, <2>1
  <2> QED
    BY <1>20, <2>1, <2>2, <2>3 DEF IsCallOf
<1>22. G # <<>> /\ G[Len(G)].proc = F[Len(F)].proc
  <2>1. Len(G) \in 1..Len(G) /\ Len(G) + 1 = Len(F)
    BY <1>2, <1>11, <1>12
  <2>2. Len(<<>>) = 0
    OBVIOUS
  <2>3. G # <<>>
    BY <1>11, <1>12, <2>2
  <2> QED
    BY <1>20, <2>1, <2>3
<1>23. F # <<>>
  BY <1>2
<1>24. IsStack(p, G, W)
  BY <1>1, <1>12, <1>20, <1>21, <1>22, <1>23 DEF IsStack
<1>25. ASSUME NEW m \in StartingProcedures(p) \ W, m # G[Len(G)].proc
       PROVE  StartDone(D, p, m)
  BY <1>9, <1>22, <1>25, DoneStaysDone DEF IsExploding
<1>26. IsExploding(p, W, G, D)
  BY <1>16, <1>20, <1>22, <1>24, <1>25 DEF IsExploding
<1> QED
  BY <1>26 DEF G, g, h, R

\* A procedure that the program starts with is finished.
LEMMA ProcedureIsFinished ==
  ASSUME NEW p, IsProgram(p), NEW W, NEW F, NEW E, IsExploding(p, W, F, E), Len(F) = 1,
         F[1].stmt \notin StmtsOf(p, F[1].proc)
  PROVE  IsExploding(p, W, <<>>, E)
<1> DEFINE f == F[1]
           n == f.proc
<1>1. IsStack(p, F, W) /\ F \in Seq(FrameType(p)) /\ 1 \in 1..Len(F)
  BY DEF IsExploding, IsStack
<1>2. /\ f \in FrameType(p) /\ IsActivation(p, f) /\ IsChain(p, f.path, n)
      /\ n \in Node /\ f.path \in Seq(CallStmts(p)) /\ f.stmt \in Nat
  BY <1>1, FramesAre
<1>3. f.path = <<>>
  <2>1. Len(f.path) = 0
    BY <1>1 DEF IsStack
  <2> HIDE DEF f
  <2> QED
    BY <1>2, <2>1, EmptySeq
<1>4. FrameDone(E, p, f)
  BY <1>1 DEF IsExploding
<1>5. f.stmt \notin StmtsOf(p, n)
  OBVIOUS
<1> HIDE DEF f, n
<1>6. \A s \in StmtsOf(p, n) : s < f.stmt
  BY <1>2, <1>5, ActivationIsOver DEF n
<1>7. ASSUME NEW c \in Copies(p), StartOf(p, c, n)
      PROVE  Has(E, c, StepsAfter(p, c))
  <2>1. c = <<c[1], c[2]>> /\ c[1] \in Seq(CallStmts(p))
    BY CopiesAreFinite
  <2>2. CASE c[1] = <<>>
    <3>1. c[2] \in StmtsOf(p, n)
      BY <1>7, <2>2 DEF StartOf
    <3>2. Has(E, c, StepsInside(p, c))
      BY <1>3, <1>4, <1>6, <2>1, <2>2, <3>1 DEF FrameDone, n
    <3>3. StepsBack(p, c) = {}
      BY <2>2, NothingReturnsFromStart DEF StepsBack
    <3> QED
      BY <3>2, <3>3 DEF StepsAfter
  <2>3. CASE c[1] # <<>>
    <3> DEFINE t == c[1][1]
    <3>1. Len(c[1]) \in Nat \ {0} /\ 1 \in 1..Len(c[1])
      BY <2>1, <2>3, EmptySeq
    <3>2. t \in StmtsOf(p, n) /\ t \in CallStmts(p)
      BY <1>7, <2>1, <2>3, <3>1, ElementOfSeq DEF StartOf
    <3>3. Extends(c[1], Append(<<>>, t))
      <4> HIDE DEF t
      <4>1. Append(<<>>, t) = <<t>> /\ Len(<<t>>) = 1 /\ <<t>>[1] = t
        OBVIOUS
      <4>2. \A i \in 1..1 : i = 1
        OBVIOUS
      <4>3. \A i \in 1..1 : c[1][i] = <<t>>[i]
        BY <4>1, <4>2 DEF t
      <4>4. 1 <= Len(c[1])
        BY <3>1
      <4> QED
        BY <4>1, <4>3, <4>4 DEF Extends
    <3> HIDE DEF t
    <3> QED
      BY <1>3, <1>4, <1>6, <3>2, <3>3 DEF FrameDone, n
  <2> QED
    BY <2>2, <2>3
<1>8. StartDone(E, p, n)
  BY <1>7 DEF StartDone
<1>9. F # <<>>
  OBVIOUS
<1>10. \A m \in StartingProcedures(p) \ W : StartDone(E, p, m)
  BY <1>8, <1>9 DEF IsExploding, n, f
<1>11. <<>> \in Seq(FrameType(p)) /\ Len(<<>>) = 0 /\ 1..0 = {} /\ 1..(0 - 1) = {}
  OBVIOUS
<1>12. IsStack(p, <<>>, W)
  BY <1>11 DEF IsStack
<1> QED
  BY <1>10, <1>11, <1>12 DEF IsExploding

\* When no procedure is left the edges are the steps of executions.
LEMMA StepsAreTaken ==
  ASSUME NEW p, IsProgram(p), NEW E, IsExploding(p, {}, <<>>, E)
  PROVE  E = ExecutionSteps(p)
<1>1. \A m \in StartingProcedures(p) : StartDone(E, p, m)
  BY DEF IsExploding
<1>2. ASSUME NEW c \in Copies(p)
      PROVE  Has(E, c, StepsAfter(p, c))
  <2>1. PICK n, path, s : n \in Node /\ s \in StmtsOf(p, n) /\ c = <<path, s>> /\ IsChain(p, path, n)
    BY CopiesAreOfChains
  <2>2. \E m \in StartingProcedures(p) : StartOf(p, c, m)
    <3>1. CASE path = <<>>
      BY <2>1, <3>1 DEF IsChain, StartOf
    <3>2. CASE path # <<>>
      BY <2>1, <3>2 DEF IsChain, StartOf, Starts
    <3> QED
      BY <3>1, <3>2
  <2> QED
    BY <1>1, <2>2 DEF StartDone
<1>3. ExecutionSteps(p) \subseteq E
  BY <1>2, StepsAre DEF Has
<1> QED
  BY <1>3 DEF IsExploding

\* The explosion so far: every procedure that is begun has its root, and its
\* graph, as far as the activations have come.
ExplosionInv ==
  /\ prog \in Programs
  /\ starting \subseteq StartingProcedures(prog)
  /\ graphs = {<<(<<>>), Entry(prog, n)>> : n \in StartingProcedures(prog) \ starting}
  /\ IsExploding(prog, starting, frames, edges)

\* The assumption on the programs.
LEMMA ProgramsAre ==
  ASSUME NEW p \in Programs
  PROVE  IsProgram(p) /\ NoNode \notin Seq(CallStmts(p)) \X Stmts(p)
BY ExplosionAssumption

\* Nothing is exploded in the beginning.
LEMMA ExplosionStarts == ExplosionInit => ExplosionInv
<1> SUFFICES ASSUME ExplosionInit
             PROVE  ExplosionInv
  OBVIOUS
<1>1. <<>> \in Seq(FrameType(prog)) /\ Len(<<>>) = 0 /\ 1..0 = {} /\ 1..(0 - 1) = {}
  OBVIOUS
<1>2. IsStack(prog, <<>>, starting)
  BY <1>1 DEF IsStack
<1>3. IsExploding(prog, starting, frames, edges)
  BY <1>1, <1>2 DEF IsExploding, ExplosionInit
<1> QED
  BY <1>3 DEF ExplosionInit, ExplosionInv

\* Every step of the explosion keeps its invariant.
LEMMA ExplosionGoesOn == ExplosionInv /\ Explode => ExplosionInv'
<1> SUFFICES ASSUME ExplosionInv, Explode
             PROVE  ExplosionInv'
  OBVIOUS
<1> DEFINE p == prog
           F == frames
<1>1. p \in Programs /\ IsProgram(p) /\ NoNode \notin Seq(CallStmts(p)) \X Stmts(p)
  BY ProgramsAre DEF ExplosionInv
<1>2. IsExploding(p, starting, F, edges) /\ starting \in SUBSET StartingProcedures(p) /\ IsStack(p, F, starting)
  BY DEF ExplosionInv, IsExploding
<1>3. F \in Seq(FrameType(p)) /\ Len(F) \in Nat /\ (F # <<>> => Len(F) \in Nat \ {0} /\ Current = F[1])
  BY <1>2, EmptySeq, LenProperties DEF IsStack, Current
<1>4. prog' = p
  BY DEF Explode, ExplodeProcedure, ConnectStatement, EnterCall, LeaveCall, FinishProcedure
<1>5. F # <<>> => 1 \in 1..Len(F)
  BY <1>3
<1>6. F # <<>> => F[1] \in FrameType(p) /\ IsActivation(p, F[1]) /\ F[1].proc \in Node
  BY <1>2, <1>5, FramesAre
<1>7. CASE ExplodeProcedure
  <2>1. PICK n \in starting :
          /\ starting' = starting \ {n}
          /\ frames' = <<Activation(n, <<>>, NoNode)>>
          /\ graphs' = graphs \cup {<<(<<>>), Entry(prog, n)>>}
    BY <1>7 DEF ExplodeProcedure
  <2>2. F = <<>> /\ edges' = edges
    BY <1>7 DEF ExplodeProcedure, Exploding
  <2>3. IsExploding(p, starting', frames', edges')
    <3> DEFINE f == Activation(n, <<>>, NoNode)
    <3>1. f = [proc |-> n, path |-> <<>>, exit |-> NoNode, stmt |-> Entry(p, n)]
      BY DEF Activation
    <3> HIDE DEF f
    <3>2. IsExploding(p, starting, <<>>, edges)
      BY <1>2, <2>2
    <3>3. IsExploding(p, starting \ {n}, <<f>>, edges)
      BY <1>1, <1>2, <3>1, <3>2, ProcedureIsBegun
    <3> QED
      BY <2>1, <2>2, <3>3 DEF f
  <2>4. n \in StartingProcedures(p) /\ n \in starting
    BY <1>2
  <2>5. graphs' = {<<(<<>>), Entry(p, m)>> : m \in StartingProcedures(p) \ starting'}
    BY <2>1, <2>4 DEF ExplosionInv
  <2>6. starting' \subseteq StartingProcedures(p)
    BY <1>2, <2>1
  <2> QED
    BY <1>1, <1>4, <2>3, <2>5, <2>6 DEF ExplosionInv
<1>8. CASE ConnectStatement
  <2>1. F # <<>> /\ F[1].stmt \in StmtsOf(p, F[1].proc) /\ F[1].stmt \notin CallStmts(p)
    BY <1>3, <1>8 DEF ConnectStatement, Exploding, AtEnd
  <2>2. /\ edges' = edges \cup {<<(<<F[1].path, F[1].stmt>>), (<<F[1].path, t>>)>> : t \in p.next[F[1].stmt]}
        /\ frames' = <<[F[1] EXCEPT !.stmt = @ + 1]>> \o Tail(F)
    BY <1>3, <1>8, <2>1 DEF ConnectStatement, Advanced, NodeOf
  <2>3. UNCHANGED <<starting, graphs>>
    BY <1>8 DEF ConnectStatement
  <2>4. IsExploding(p, starting, frames', edges')
    <3> DEFINE D == edges \cup {<<(<<F[1].path, F[1].stmt>>), (<<F[1].path, t>>)>> : t \in p.next[F[1].stmt]}
    <3>1. IsExploding(p, starting, <<[F[1] EXCEPT !.stmt = @ + 1]>> \o Tail(F), D)
      BY <1>1, <1>2, <2>1, StatementIsConnected
    <3> HIDE DEF D
    <3>2. edges' = D
      BY <2>2 DEF D
    <3> QED
      BY <2>2, <3>1, <3>2
  <2> QED
    BY <1>1, <1>2, <1>4, <2>3, <2>4 DEF ExplosionInv
<1>9. CASE EnterCall
  <2> DEFINE s == F[1].stmt
             f == [proc |-> p.callee[s], path |-> Append(F[1].path, s),
                   exit |-> IF p.next[s] = {} THEN F[1].exit ELSE <<F[1].path, CHOOSE t \in p.next[s] : TRUE>>,
                   stmt |-> Entry(p, p.callee[s])]
  <2>1. F # <<>> /\ s \in StmtsOf(p, F[1].proc) /\ s \in CallStmts(p)
    BY <1>3, <1>9 DEF EnterCall, Exploding, AtEnd
  <2>2. f = Activation(p.callee[s], Append(F[1].path, s), ExitNode(F[1], s))
    BY DEF Activation, ExitNode, NodeOf
  <2>3. frames' = <<f>> \o F /\ UNCHANGED <<starting, edges, graphs>>
    <3> HIDE DEF f
    <3> QED
      BY <1>3, <1>9, <2>1, <2>2 DEF EnterCall
  <2>4. IsExploding(p, starting, <<f>> \o F, edges)
    BY <1>1, <1>2, <2>1, CallIsEntered
  <2> HIDE DEF f
  <2> QED
    BY <1>1, <1>2, <1>4, <2>3, <2>4 DEF ExplosionInv
<1>10. CASE LeaveCall
  <2> DEFINE to_callee == <<(<<F[2].path, F[2].stmt>>), (<<F[1].path, Entry(p, F[1].proc)>>)>>
             to_exit == IF F[1].exit = NoNode THEN {}
                        ELSE {<<(<<F[1].path, s>>), F[1].exit>> : s \in {s \in StmtsOf(p, F[1].proc) : IsReturn(p, s)}}
             D == edges \cup {to_callee} \cup to_exit
  <2>1. F # <<>> /\ Len(F) > 1 /\ F[1].stmt \notin StmtsOf(p, F[1].proc)
    BY <1>3, <1>10 DEF LeaveCall, Exploding, AtEnd
  <2>2. LastExecuted(F[1].proc) = {s \in StmtsOf(p, F[1].proc) : IsReturn(p, s)}
    BY <1>1, <1>6, <2>1, LastExecutedAreReturns
  <2>3. frames' = <<[F[2] EXCEPT !.stmt = @ + 1]>> \o Tail(Tail(F)) /\ UNCHANGED <<starting, graphs>>
    BY <1>3, <1>10, <2>1 DEF LeaveCall
  <2>4. edges' = edges \cup {to_callee} \cup
                 (IF F[1].exit = NoNode THEN {} ELSE {<<(<<F[1].path, s>>), F[1].exit>> : s \in LastExecuted(F[1].proc)})
    <3> HIDE DEF F
    <3> QED
      BY <1>3, <1>10, <2>1 DEF LeaveCall, NodeOf, F
  <2>5. edges' = D
    BY <2>2, <2>4
  <2>6. IsExploding(p, starting, <<[F[2] EXCEPT !.stmt = @ + 1]>> \o Tail(Tail(F)), D)
    BY <1>1, <1>2, <2>1, CallIsLeft
  <2> HIDE DEF D
  <2>7. IsExploding(p, starting, frames', edges')
    BY <2>3, <2>5, <2>6
  <2> QED
    BY <1>1, <1>2, <1>4, <2>3, <2>7 DEF ExplosionInv
<1>11. CASE FinishProcedure
  <2>1. F # <<>> /\ Len(F) = 1 /\ F[1].stmt \notin StmtsOf(p, F[1].proc)
    BY <1>3, <1>11 DEF FinishProcedure, Exploding, AtEnd
  <2>2. frames' = <<>> /\ UNCHANGED <<starting, edges, graphs>>
    BY <1>11 DEF FinishProcedure
  <2>3. IsExploding(p, starting, <<>>, edges)
    BY <1>1, <1>2, <2>1, ProcedureIsFinished
  <2> QED
    BY <1>1, <1>2, <1>4, <2>2, <2>3 DEF ExplosionInv
<1> QED
  BY <1>7, <1>8, <1>9, <1>10, <1>11 DEF Explode

\* When nothing is left to explode, the edges are the steps of executions.
LEMMA ExplosionIsOver ==
  ASSUME ExplosionInv, Exploded
  PROVE  edges = ExecutionSteps(prog)
<1>1. IsExploding(prog, {}, <<>>, edges) /\ IsProgram(prog)
  BY ProgramsAre DEF ExplosionInv, Exploded, Exploding
<1> QED
  BY <1>1, StepsAreTaken

\* The invariant of the explosion implies the types of its state.
LEMMA ExplosionTypes == ExplosionInv => ExplosionTypeOK
<1> SUFFICES ASSUME ExplosionInv
             PROVE  ExplosionTypeOK
  OBVIOUS
<1>1. IsProgram(prog) /\ IsStack(prog, frames, starting) /\ edges \subseteq ExecutionSteps(prog)
  BY ProgramsAre DEF ExplosionInv, IsExploding
<1>2. ASSUME Exploding
      PROVE  Len(frames) <= Cardinality(Node) /\ Current.path \in Paths(prog, Current.proc)
  <2>1. frames \in Seq(FrameType(prog)) /\ frames # <<>>
    BY <1>1, <1>2 DEF IsStack, Exploding
  <2>2. Len(frames) \in Nat /\ 1 \in 1..Len(frames) /\ Current = frames[1]
    BY <2>1, EmptySeq DEF Current
  <2>3. IsChain(prog, Current.path, Current.proc) /\ Current.proc \in Node /\ Len(Current.path) = Len(frames) - 1
    BY <1>1, <2>2, FramesAre DEF IsStack
  <2>4. Len(Current.path) < Cardinality(Node) /\ Cardinality(Node) \in Nat
    BY <1>1, <2>3, ChainIsShort, NodeAssumption, FS_CardinalityType
  <2>5. Len(frames) <= Cardinality(Node)
    BY <2>2, <2>3, <2>4
  <2> QED
    BY <1>1, <2>3, <2>5, PathsAreChains
<1>3. edges \subseteq Copies(prog) \X Copies(prog)
  BY <1>1, StepsAreOfCopies
<1> QED
  BY <1>2, <1>3 DEF ExplosionTypeOK, ExplosionInv

(***************************************************************************)
(* Sets that grow by the successors of their members, as many times as     *)
(* there are nodes, are closed.                                            *)
(***************************************************************************)
Widened(S, E) == S \cup UNION {Successors(E, m) : m \in S}

Widens(w, k, A, E) == w = [n \in 1..k |-> IF n = 1 THEN A ELSE Widened(w[n - 1], E)]

\* The sequence of the sets exists.
LEMMA WideningExists ==
  ASSUME NEW k \in Nat, NEW A, NEW E
  PROVE  \E w : Widens(w, k, A, E)
<1> DEFINE Bad == {n \in Nat : ~\E w : Widens(w, n, A, E)}
<1>1. Bad = {}
  <2> SUFFICES ASSUME Bad # {} PROVE FALSE
    OBVIOUS
  <2>1. PICK n \in Bad : \A m \in Bad : n <= m
    <3>1. Bad \in SUBSET Nat
      OBVIOUS
    <3> HIDE DEF Bad
    <3> QED
      BY <3>1, LeastElement
  <2>2. n \in Nat /\ ~\E w : Widens(w, n, A, E)
    OBVIOUS
  <2>3. n # 0
    <3>1. Widens([i \in 1..0 |-> A], 0, A, E)
      BY DEF Widens
    <3> QED
      BY <2>2, <3>1
  <2>4. n - 1 \in Nat /\ ~(n <= n - 1)
    BY <2>2, <2>3
  <2>5. PICK g : Widens(g, n - 1, A, E)
    BY <2>1, <2>4
  <2> DEFINE h == [i \in 1..n |-> IF i = 1 THEN A ELSE Widened(g[i - 1], E)]
  <2>6. ASSUME NEW i \in 1..n, i # 1
        PROVE  h[i - 1] = g[i - 1]
    <3>1. i - 1 \in 1..(n - 1) /\ i - 1 \in 1..n
      BY <2>2, <2>6
    <3>2. g[i - 1] = IF i - 1 = 1 THEN A ELSE Widened(g[(i - 1) - 1], E)
      <4>1. g = [j \in 1..(n - 1) |-> IF j = 1 THEN A ELSE Widened(g[j - 1], E)]
        BY <2>5 DEF Widens
      <4>2. [j \in 1..(n - 1) |-> IF j = 1 THEN A ELSE Widened(g[j - 1], E)][i - 1] = IF i - 1 = 1 THEN A ELSE Widened(g[(i - 1) - 1], E)
        BY <3>1
      <4> QED
        BY <4>1, <4>2
    <3>3. h[i - 1] = IF i - 1 = 1 THEN A ELSE Widened(g[(i - 1) - 1], E)
      BY <3>1
    <3> QED
      BY <3>2, <3>3
  <2>7. h = [i \in 1..n |-> IF i = 1 THEN A ELSE Widened(h[i - 1], E)]
    <3> DEFINE hh == [i \in 1..n |-> IF i = 1 THEN A ELSE Widened(h[i - 1], E)]
    <3>1. \A i \in 1..n : (IF i = 1 THEN A ELSE Widened(h[i - 1], E)) = (IF i = 1 THEN A ELSE Widened(g[i - 1], E))
      BY <2>6
    <3>2. hh = h
      <4>1. \A i \in 1..n : hh[i] = h[i]
        <5> TAKE i \in 1..n
        <5>1. hh[i] = (IF i = 1 THEN A ELSE Widened(h[i - 1], E))
          <6> HIDE DEF h
          <6> QED
            OBVIOUS
        <5>2. h[i] = (IF i = 1 THEN A ELSE Widened(g[i - 1], E))
          OBVIOUS
        <5> QED
          BY <3>1, <5>1, <5>2
      <4>2. DOMAIN hh = 1..n /\ DOMAIN h = 1..n /\ hh = [i \in DOMAIN hh |-> hh[i]] /\ h = [i \in DOMAIN h |-> h[i]]
        OBVIOUS
      <4> HIDE DEF hh, h
      <4> QED
        BY <4>1, <4>2
    <3> QED
      BY <3>2
  <2>8. Widens(h, n, A, E)
    <3> HIDE DEF h
    <3> QED
      BY <2>7 DEF Widens
  <2> QED
    BY <2>2, <2>8
<1> QED
  <2> HIDE DEF Bad
  <2>1. k \notin Bad
    BY <1>1
  <2> QED
    BY <2>1 DEF Bad

\* The sets one by one.
LEMMA WideningIs ==
  ASSUME NEW k, NEW A, NEW E, NEW w, Widens(w, k, A, E)
  PROVE  \A n \in 1..k : w[n] = IF n = 1 THEN A ELSE Widened(w[n - 1], E)
<1> DEFINE v == [n \in 1..k |-> IF n = 1 THEN A ELSE Widened(w[n - 1], E)]
<1>1. w = v
  BY DEF Widens
<1>2. \A n \in 1..k : v[n] = IF n = 1 THEN A ELSE Widened(w[n - 1], E)
  OBVIOUS
<1> HIDE DEF v
<1> QED
  BY <1>1, <1>2

IsClosed(S, E) == \A m \in S : Successors(E, m) \subseteq S

\* As many sets as there are nodes are enough: the last is the least closed
\* set around the first.
LEMMA WideningCloses ==
  ASSUME NEW N, IsFiniteSet(N), N # {}, NEW E \in SUBSET (N \X N), NEW A \in SUBSET N,
         NEW w, Widens(w, Cardinality(N), A, E)
  PROVE  LET S == w[Cardinality(N)] IN
         /\ S \subseteq N /\ A \subseteq S /\ IsClosed(S, E)
         /\ \A T : A \subseteq T /\ IsClosed(T, E) => S \subseteq T
<1> DEFINE k == Cardinality(N)
           Fine(n) == /\ w[n] \subseteq N /\ A \subseteq w[n]
                      /\ IsClosed(w[n], E) \/ n <= Cardinality(w[n])
                      /\ \A T : A \subseteq T /\ IsClosed(T, E) => w[n] \subseteq T
           Bad == {n \in 1..k : ~Fine(n)}
<1>1. k \in Nat /\ k # 0
  BY FS_CardinalityType, FS_EmptySet
<1>2. \A n \in 1..k : w[n] = IF n = 1 THEN A ELSE Widened(w[n - 1], E)
  BY WideningIs
<1>3. \A S : S \subseteq N => Widened(S, E) \subseteq N /\ S \subseteq Widened(S, E)
  BY DEF Widened, Successors
<1>4. \A S : S \subseteq N => IsFiniteSet(S) /\ Cardinality(S) \in Nat
  BY FS_Subset, FS_CardinalityType
<1>5. \A S : Widened(S, E) = S => IsClosed(S, E)
  BY DEF Widened, IsClosed
<1>6. \A S, T : S \subseteq T /\ IsClosed(T, E) => Widened(S, E) \subseteq T
  BY DEF Widened, IsClosed
<1>7. \A S : IsClosed(S, E) => Widened(S, E) = S
  BY DEF Widened, IsClosed
<1> HIDE DEF k
<1>8. Bad = {}
  <2> SUFFICES ASSUME Bad # {} PROVE FALSE
    OBVIOUS
  <2>1. PICK n \in Bad : \A m \in Bad : n <= m
    <3>1. Bad \in SUBSET Nat
      BY <1>1
    <3> HIDE DEF Bad
    <3> QED
      BY <3>1, LeastElement
  <2>2. n \in 1..k /\ ~Fine(n)
    OBVIOUS
  <2>3. CASE n = 1
    <3>1. w[n] = A
      BY <1>2, <2>2, <2>3
    <3>2. IsClosed(A, E) \/ 1 <= Cardinality(A)
      <4>1. CASE A = {}
        BY <4>1 DEF IsClosed
      <4>2. CASE A # {}
        <5>1. Cardinality(A) \in Nat /\ Cardinality(A) # 0
          BY <1>4, <4>2, FS_EmptySet
        <5> QED
          BY <5>1
      <4> QED
        BY <4>1, <4>2
    <3> QED
      BY <2>2, <2>3, <3>1, <3>2
  <2>4. CASE n # 1
    <3> DEFINE S == w[n - 1]
    <3>1. n - 1 \in 1..k /\ ~(n <= n - 1) /\ n \in Nat
      BY <1>1, <2>2, <2>4
    <3>2. Fine(n - 1)
      BY <2>1, <3>1
    <3>3. w[n] = Widened(S, E)
      BY <1>2, <2>2, <2>4
    <3>4. S \subseteq N /\ A \subseteq S
      BY <3>2
    <3>5. w[n] \subseteq N /\ A \subseteq w[n] /\ S \subseteq w[n]
      <4> HIDE DEF S
      <4> QED
        BY <1>3, <3>3, <3>4
    <3>6. \A T : A \subseteq T /\ IsClosed(T, E) => w[n] \subseteq T
      <4>1. \A T : A \subseteq T /\ IsClosed(T, E) => S \subseteq T
        BY <3>2
      <4> HIDE DEF S
      <4> QED
        BY <1>6, <3>3, <4>1
    <3>7. IsClosed(w[n], E) \/ n <= Cardinality(w[n])
      <4>1. CASE IsClosed(S, E)
        BY <1>7, <3>3, <4>1
      <4>2. CASE ~IsClosed(S, E)
        <5>1. n - 1 <= Cardinality(S)
          BY <3>2, <4>2
        <5> HIDE DEF S
        <5>2. w[n] # S
          BY <1>5, <3>3, <4>2
        <5>3. IsFiniteSet(w[n]) /\ Cardinality(w[n]) \in Nat /\ Cardinality(S) \in Nat
          BY <1>4, <3>4, <3>5
        <5>4. Cardinality(S) <= Cardinality(w[n]) /\ (Cardinality(S) = Cardinality(w[n]) => S = w[n])
          BY <3>5, <5>3, FS_Subset
        <5> QED
          BY <3>1, <5>1, <5>2, <5>3, <5>4
      <4> QED
        BY <4>1, <4>2
    <3> QED
      BY <2>2, <3>5, <3>6, <3>7
  <2> QED
    BY <2>3, <2>4
<1>9. k \in 1..k
  BY <1>1
<1>10. Fine(k)
  <2> HIDE DEF Fine
  <2> QED
    BY <1>8, <1>9
<1>11. IsClosed(w[k], E)
  <2> DEFINE S == w[k]
  <2>1. S \subseteq N /\ (IsClosed(S, E) \/ k <= Cardinality(S))
    BY <1>10
  <2> HIDE DEF S
  <2>2. ASSUME k <= Cardinality(S)
        PROVE  S = N
    <3>1. Cardinality(S) <= Cardinality(N) /\ (Cardinality(N) = Cardinality(S) => N = S)
      BY <2>1, FS_Subset
    <3>2. Cardinality(S) \in Nat
      BY <1>4, <2>1
    <3> QED
      BY <1>1, <2>2, <3>1, <3>2 DEF k
  <2>3. IsClosed(N, E)
    BY DEF IsClosed, Successors
  <2>4. IsClosed(S, E)
    BY <2>1, <2>2, <2>3
  <2> QED
    BY <2>4 DEF S
<1> HIDE DEF Bad
<1>12. /\ w[k] \subseteq N /\ A \subseteq w[k] /\ IsClosed(w[k], E)
       /\ \A T : A \subseteq T /\ IsClosed(T, E) => w[k] \subseteq T
  BY <1>10, <1>11
<1> QED
  BY <1>12 DEF k

(***************************************************************************)
(* What DefinitionReaches and Chained find.                                *)
(***************************************************************************)
\* The copies that the definition of v in a reaches, used there or not.
IsReach(S, a, v) ==
  /\ S \subseteq Copies(prog)
  /\ Successors(ExecutionSteps(prog), a) \subseteq S
  /\ \A m \in S : Redefines(m, v) \/ Successors(ExecutionSteps(prog), m) \subseteq S
  /\ \A T : /\ Successors(ExecutionSteps(prog), a) \subseteq T
            /\ \A m \in T : Redefines(m, v) \/ Successors(ExecutionSteps(prog), m) \subseteq T
            => S \subseteq T

\* DefinitionReaches finds the assignments that use the variable in the least
\* set that holds what comes behind a, and behind each of its members that
\* does not modify the variable.
LEMMA DefinitionReachesIs ==
  ASSUME IsProgram(prog), NEW a \in Copies(prog), NEW v \in Variable, prog.modifies[a[2]] = {v}
  PROVE  \E S : IsReach(S, a, v) /\ DefinitionReaches(a) = {m \in S : IsAssign(m) /\ v \in prog.uses[m[2]]}
<1> DEFINE N == Copies(prog)
           steps == ExecutionSteps(prog)
           clean == {e \in steps : ~Redefines(e[1], v)}
           k == Cardinality(N)
           A == Successors(steps, a)
           Is(w, u) == w = [n \in 1..k |-> IF n = 1 THEN A
                                           ELSE w[n - 1] \cup UNION {Successors(steps, m) : m \in {x \in w[n - 1] : ~Redefines(x, u)}}]
           within == CHOOSE w : Is(w, v)
           S == within[k]
<1>1. IsFiniteSet(N) /\ N # {} /\ k \in Nat
  BY CopiesAreFinite, FS_CardinalityType
<1>2. steps \in SUBSET (N \X N)
  BY StepsAreOfCopies
<1>3. clean \in SUBSET (N \X N) /\ A \in SUBSET N
  <2> HIDE DEF N, steps
  <2> QED
    BY <1>2 DEF Successors
<1>4. \A m : Successors(clean, m) = IF Redefines(m, v) THEN {} ELSE Successors(steps, m)
  <2> HIDE DEF steps
  <2> QED
    BY DEF Successors
<1>5. (CHOOSE w \in Variable : prog.modifies[a[2]] = {w}) = v
  <2>1. \A w \in Variable : prog.modifies[a[2]] = {w} <=> w = v
    OBVIOUS
  <2> QED
    BY <2>1, Zenon
<1>6. \A X : Widened(X, clean) = X \cup UNION {Successors(steps, m) : m \in {x \in X : ~Redefines(x, v)}}
  <2> HIDE DEF steps, clean
  <2> TAKE X
  <2>1. UNION {Successors(clean, m) : m \in X} = UNION {Successors(steps, m) : m \in {x \in X : ~Redefines(x, v)}}
    BY <1>4
  <2> QED
    BY <2>1 DEF Widened
<1>7. \A w : Widens(w, k, A, clean) <=> Is(w, v)
  <2> DEFINE Wider(X) == X \cup UNION {Successors(steps, m) : m \in {x \in X : ~Redefines(x, v)}}
  <2>1. \A X : Widened(X, clean) = Wider(X)
    BY <1>6
  <2>2. \A w : Is(w, v) <=> w = [n \in 1..k |-> IF n = 1 THEN A ELSE Wider(w[n - 1])]
    OBVIOUS
  <2> HIDE DEF Wider, Is, clean, A, k
  <2>3. ASSUME NEW w
        PROVE  [n \in 1..k |-> IF n = 1 THEN A ELSE Wider(w[n - 1])] = [n \in 1..k |-> IF n = 1 THEN A ELSE Widened(w[n - 1], clean)]
    BY <2>1
  <2>4. \A w : Widens(w, k, A, clean) <=> w = [n \in 1..k |-> IF n = 1 THEN A ELSE Widened(w[n - 1], clean)]
    BY DEF Widens
  <2>5. ASSUME NEW w
        PROVE  Widens(w, k, A, clean) <=> Is(w, v)
    <3>1. PICK f : f = [n \in 1..k |-> IF n = 1 THEN A ELSE Wider(w[n - 1])]
      OBVIOUS
    <3>2. f = [n \in 1..k |-> IF n = 1 THEN A ELSE Widened(w[n - 1], clean)]
      BY <2>3, <3>1
    <3>3. Widens(w, k, A, clean) <=> w = f
      BY <2>4, <3>2
    <3>4. Is(w, v) <=> w = f
      BY <2>2, <3>1
    <3> QED
      BY <3>3, <3>4
  <2> QED
    BY <2>5
<1>8. Is(within, v)
  <2>1. \E w : Is(w, v)
    <3> HIDE DEF Is, clean, A, k, N
    <3> QED
      BY <1>1, <1>7, WideningExists
  <2> HIDE DEF Is
  <2> QED
    BY <2>1, Zenon
<1>9. DefinitionReaches(a) = {m \in S : IsAssign(m) /\ v \in prog.uses[m[2]]}
  <2> DEFINE D(u) == {m \in (CHOOSE w : Is(w, u))[k] : IsAssign(m) /\ u \in prog.uses[m[2]]}
  <2>1. DefinitionReaches(a) = D(CHOOSE w \in Variable : prog.modifies[a[2]] = {w})
    BY DEF DefinitionReaches
  <2>2. D(v) = {m \in S : IsAssign(m) /\ v \in prog.uses[m[2]]}
    OBVIOUS
  <2> HIDE DEF D
  <2>3. DefinitionReaches(a) = D(v)
    BY <1>5, <2>1
  <2> QED
    BY <2>2, <2>3
<1>10. Widens(within, k, A, clean)
  <2> HIDE DEF within, Is, k, A, clean
  <2> QED
    BY <1>7, <1>8
<1>11. /\ S \subseteq N /\ A \subseteq S /\ IsClosed(S, clean)
       /\ \A T : A \subseteq T /\ IsClosed(T, clean) => S \subseteq T
  <2> HIDE DEF within, Is, A, clean, N
  <2> QED
    BY <1>1, <1>3, <1>10, WideningCloses
<1>12. \A T : IsClosed(T, clean) <=> \A m \in T : Redefines(m, v) \/ Successors(steps, m) \subseteq T
  <2> HIDE DEF steps, clean
  <2> QED
    BY <1>4 DEF IsClosed
<1>13. IsReach(S, a, v)
  <2> HIDE DEF within, Is, clean, k, S
  <2> QED
    BY <1>11, <1>12 DEF IsReach
<1> HIDE DEF S
<1> QED
  BY <1>9, <1>13

\* Chained finds what the pairs of the graph lead to.
LEMMA ChainedIs ==
  ASSUME IsProgram(prog), NEW a, Copies(prog) # {}, affects_bip_graph \subseteq Copies(prog) \X Copies(prog)
  PROVE  Chained(a) = ReachableFrom(affects_bip_graph, Copies(prog), a)
<1> DEFINE N == Copies(prog)
           E == affects_bip_graph
           k == Cardinality(N)
           A == Successors(E, a)
           Is(w) == w = [n \in 1..k |-> IF n = 1 THEN A ELSE w[n - 1] \cup UNION {Successors(E, m) : m \in w[n - 1]}]
           within == CHOOSE w : Is(w)
           S == within[k]
<1>1. IsFiniteSet(N) /\ N # {} /\ k \in Nat /\ E \in SUBSET (N \X N)
  BY CopiesAreFinite, FS_CardinalityType
<1>2. A \in SUBSET N
  <2> HIDE DEF N, E
  <2> QED
    BY <1>1 DEF Successors
<1>3. \A w : Widens(w, k, A, E) <=> Is(w)
  <2> HIDE DEF A, k, N
  <2> QED
    BY DEF Widens, Widened
<1>4. Is(within)
  <2>1. \E w : Is(w)
    <3> HIDE DEF Is, A, k, N
    <3> QED
      BY <1>1, <1>3, WideningExists
  <2> HIDE DEF Is
  <2> QED
    BY <2>1, Zenon
<1>5. Chained(a) = S
  BY DEF Chained
<1>6. Widens(within, k, A, E)
  <2> HIDE DEF within, Is, k, A
  <2> QED
    BY <1>3, <1>4
<1>7. /\ S \subseteq N /\ A \subseteq S /\ IsClosed(S, E)
      /\ \A T : A \subseteq T /\ IsClosed(T, E) => S \subseteq T
  <2> HIDE DEF within, Is, A, N, E
  <2> QED
    BY <1>1, <1>2, <1>6, WideningCloses
<1> DEFINE R == ReachableFrom(E, N, a)
<1>8. R \subseteq S
  <2> HIDE DEF S, N, E
  <2> QED
    BY <1>7, ReachableIsLeast DEF IsClosed
<1>9. S \subseteq R
  <2>1. A \subseteq R /\ \A m \in R : Successors(E, m) \subseteq R
    <3> HIDE DEF N, E
    <3> QED
      BY <1>1, ReachableIsClosed
  <2> HIDE DEF S, A, R
  <2> QED
    BY <1>7, <2>1 DEF IsClosed
<1> QED
  BY <1>5, <1>8, <1>9

(***************************************************************************)
(* Executions that begin in the procedures that are not called reach every *)
(* copy: what is called is left again, so that what follows the call is    *)
(* reached, too.                                                           *)
(***************************************************************************)
Root(p, n) == <<(<<>>), Entry(p, n)>>

\* T holds what is entered, and every step from its members.
HoldsExecutions(p, T) ==
  /\ T \subseteq Copies(p)
  /\ \A n \in StartingProcedures(p) : Root(p, n) \in T
  /\ \A c \in T : StepsAfter(p, c) \subseteq T

\* All of the activation of n, and what it returns to, are in T.
IsWhole(p, T, path, n) ==
  /\ \A s \in StmtsOf(p, n) : <<path, s>> \in T
  /\ Returned(p, path) \subseteq T

\* With the entry of a procedure, and what comes behind every call in it that
\* is entered, all statements of that activation are in the set.
LEMMA CalledIsWhole ==
  ASSUME NEW p, IsProgram(p), NEW T, HoldsExecutions(p, T), NEW path, NEW n, IsChain(p, path, n),
         <<path, Entry(p, n)>> \in T,
         \A s \in CallStmts(p) : s \in StmtsOf(p, n) /\ <<Append(path, s), Entry(p, p.callee[s])>> \in T
                                   => Returned(p, Append(path, s)) \subseteq T
  PROVE  IsWhole(p, T, path, n)
<1> DEFINE S == {s \in StmtsOf(p, n) : <<path, s>> \in T}
<1>1. n \in Node /\ path \in Seq(CallStmts(p))
  BY DEF IsChain
<1>2. StmtsOf(p, n) \subseteq Stmts(p) /\ Entry(p, n) \in StmtsOf(p, n)
  BY <1>1, ProgramProperties
<1>3. ASSUME NEW s \in S
      PROVE  \A t \in StepsAfter(p, <<path, s>>) : t \in T
  BY DEF HoldsExecutions
<1>4. ASSUME NEW s \in S, s \in CallStmts(p)
      PROVE  Returned(p, Append(path, s)) \subseteq T
  <2>1. <<Append(path, s), Entry(p, p.callee[s])>> \in StepsAfter(p, <<path, s>>)
    BY <1>4 DEF StepsAfter, StepsInside
  <2> QED
    BY <1>3, <1>4, <2>1
<1>5. ASSUME NEW s \in S, NEW t \in p.next[s]
      PROVE  t \in S
  <2>1. t \in StmtsOf(p, n)
    BY <1>1, ProgramProperties
  <2>2. CASE s \notin CallStmts(p)
    <3>1. <<path, t>> \in StepsAfter(p, <<path, s>>)
      BY <2>2 DEF StepsAfter, StepsInside
    <3> QED
      BY <1>3, <2>1, <3>1
  <2>3. CASE s \in CallStmts(p)
    <3>1. Returned(p, Append(path, s)) = {path} \X p.next[s]
      BY <1>1, <2>3, ReturnedGrows
    <3> QED
      BY <1>4, <2>1, <2>3, <3>1
  <2> QED
    BY <2>2, <2>3
<1>6. Entry(p, n) \in S
  BY <1>2
<1>7. \A s : s \in S => s \in Stmts(p)
  BY <1>2
<1>8. \A s \in Stmts(p) : Successors(NextEdges(p), s) = p.next[s]
  <2>1. \A s \in Stmts(p) : p.next[s] \subseteq Stmts(p)
    BY ProgramProperties
  <2>2. ASSUME NEW s \in Stmts(p), NEW t
        PROVE  t \in Successors(NextEdges(p), s) <=> t \in p.next[s]
    <3>1. NextEdges(p) \in SUBSET (Stmts(p) \X Stmts(p))
      BY DEF NextEdges
    <3>2. <<s, t>> \in NextEdges(p) <=> t \in p.next[s]
      BY <2>1 DEF NextEdges
    <3> QED
      BY <3>1, <3>2, SuccessorsAreEnds
  <2> QED
    BY <2>2
<1> HIDE DEF S
<1>9. ReachableFrom(NextEdges(p), Stmts(p), Entry(p, n)) \subseteq S
  <2>1. S \in SUBSET Stmts(p)
    BY <1>7
  <2>2. \A s \in S : Successors(NextEdges(p), s) \subseteq S
    BY <1>5, <1>7, <1>8
  <2> QED
    BY <1>6, <2>1, <2>2, ReachableIsLeast
<1>10. \A s \in StmtsOf(p, n) : s \in S
  BY <1>1, <1>6, <1>9 DEF IsProgram
<1>11. PICK s \in StmtsOf(p, n) : IsReturn(p, s) \/ (s \in CallStmts(p) /\ p.next[s] = {})
  BY <1>1, ProcedureEnds
<1>12. Returned(p, path) \subseteq T
  <2>1. CASE IsReturn(p, s)
    <3>1. Returned(p, path) \subseteq StepsAfter(p, <<path, s>>)
      BY <2>1 DEF StepsAfter, StepsBack
    <3> QED
      BY <1>3, <1>10, <3>1
  <2>2. CASE s \in CallStmts(p) /\ p.next[s] = {}
    <3>1. Returned(p, Append(path, s)) = Returned(p, path)
      BY <1>1, <2>2, ReturnedGrows
    <3> QED
      BY <1>4, <1>10, <2>2, <3>1
  <2> QED
    BY <1>11, <2>1, <2>2
<1> QED
  BY <1>10, <1>12 DEF IsWhole, S

\* With the entry of a procedure, all statements of its activation are in the
\* set, and so is what comes behind it: by induction along the calls, callees
\* first.
LEMMA EnteredIsWhole ==
  ASSUME NEW p, IsProgram(p), NEW T, HoldsExecutions(p, T), NEW path, NEW n, IsChain(p, path, n),
         <<path, Entry(p, n)>> \in T
  PROVE  IsWhole(p, T, path, n)
<1> DEFINE Bad(q, m) == IsChain(p, q, m) /\ <<q, Entry(p, m)>> \in T /\ ~IsWhole(p, T, q, m)
           k == Cardinality(Node)
           Lengths == {i \in 0..k : \E q, m : Bad(q, m) /\ Len(q) = i}
<1>1. k \in Nat
  BY NodeAssumption, FS_CardinalityType
<1>2. ASSUME NEW q, NEW m, Bad(q, m)
      PROVE  Len(q) \in Lengths
  <2>1. Len(q) \in Nat /\ Len(q) < k
    BY <1>2, ChainIsShort
  <2>2. Len(q) \in 0..k
    BY <1>1, <2>1
  <2> QED
    BY <1>2, <2>2
<1>3. ASSUME Lengths # {}
      PROVE  FALSE
  <2>1. PICK i \in Lengths : \A j \in Lengths : j <= i
    <3>1. Lengths \in SUBSET (0..k)
      OBVIOUS
    <3> HIDE DEF Lengths, k
    <3> QED
      BY <1>1, <1>3, <3>1, GreatestElement
  <2>2. PICK q, m : Bad(q, m) /\ Len(q) = i
    OBVIOUS
  <2> HIDE DEF Lengths, k
  <2>3. IsChain(p, q, m) /\ <<q, Entry(p, m)>> \in T /\ ~IsWhole(p, T, q, m) /\ q \in Seq(CallStmts(p)) /\ m \in Node
    BY <2>2 DEF IsChain
  <2>4. ASSUME NEW s \in CallStmts(p), s \in StmtsOf(p, m), <<Append(q, s), Entry(p, p.callee[s])>> \in T
        PROVE  Returned(p, Append(q, s)) \subseteq T
    <3>1. IsChain(p, Append(q, s), p.callee[s])
      BY <2>3, <2>4, ChainGrows
    <3>2. Len(Append(q, s)) = i + 1 /\ i \in Nat
      BY <2>2, <2>3, AppendProperties, LenProperties
    <3>3. ~Bad(Append(q, s), p.callee[s])
      <4>1. ~(i + 1 <= i)
        BY <3>2
      <4> HIDE DEF Bad
      <4> QED
        BY <1>2, <2>1, <3>2, <4>1
    <3> QED
      BY <2>4, <3>1, <3>3 DEF IsWhole
  <2> QED
    BY <2>3, <2>4, CalledIsWhole
<1> QED
  BY <1>2, <1>3

\* A set that holds the first statements of the program and follows executions
\* holds every copy. So a search from the roots misses no assignment.
LEMMA EveryCopyIsReached ==
  ASSUME NEW p, IsProgram(p), NEW T, HoldsExecutions(p, T)
  PROVE  Copies(p) \subseteq T
<1> DEFINE Bad(q, m) == IsChain(p, q, m) /\ <<q, Entry(p, m)>> \notin T
           Lengths == {i \in Nat : \E q, m : Bad(q, m) /\ Len(q) = i}
<1>1. ASSUME NEW q, NEW m, Bad(q, m)
      PROVE  Len(q) \in Lengths
  <2>1. Len(q) \in Nat
    BY <1>1, ChainIsShort
  <2> QED
    BY <1>1, <2>1
<1>2. ASSUME Lengths # {}
      PROVE  FALSE
  <2>1. PICK i \in Lengths : \A j \in Lengths : i <= j
    <3>1. Lengths \in SUBSET Nat
      OBVIOUS
    <3> HIDE DEF Lengths
    <3> QED
      BY <1>2, <3>1, LeastElement
  <2>2. PICK q, m : Bad(q, m) /\ Len(q) = i
    OBVIOUS
  <2> HIDE DEF Lengths
  <2>3. IsChain(p, q, m) /\ <<q, Entry(p, m)>> \notin T /\ q \in Seq(CallStmts(p)) /\ m \in Node
    BY <2>2 DEF IsChain
  <2>4. q # <<>>
    BY <2>3 DEF IsChain, HoldsExecutions, Root
  <2>5. i \in Nat /\ i \in 1..i /\ i - 1 \in Nat /\ ~(i <= i - 1) /\ Len(q) = i
    <3>1. i \in Nat \ {0} /\ Len(q) = i
      BY <2>2, <2>3, <2>4, EmptySeq
    <3> QED
      BY <3>1
  <2> DEFINE u == SubSeq(q, 1, i - 1)
             s == q[i]
  <2>6. PICK l \in Node : IsChain(p, u, l) /\ s \in StmtsOf(p, l)
    BY <2>3, <2>5, ChainShrinks
  <2>7. s \in CallStmts(p)
    BY <2>3, <2>5, ElementOfSeq
  <2>8. u \in Seq(CallStmts(p)) /\ Len(u) = i - 1 /\ \A j \in 1..(i - 1) : u[j] = q[j]
    <3>1. \A j \in 1..(i - 1) : j \in 1..Len(q)
      BY <2>5
    <3>2. \A j \in 1..(i - 1) : q[j] \in CallStmts(p)
      BY <2>3, <3>1, ElementOfSeq
    <3>3. 1 \in Int /\ i - 1 \in Int
      BY <2>5
    <3> QED
      BY <2>5, <3>2, <3>3, SubSeqProperties
  <2> HIDE DEF u, s
  <2>9. Append(u, s) = q
    <3>1. /\ Append(u, s) \in Seq(CallStmts(p)) /\ Len(Append(u, s)) = (i - 1) + 1
          /\ \A j \in 1..(i - 1) : Append(u, s)[j] = u[j]
          /\ Append(u, s)[(i - 1) + 1] = s
      BY <2>7, <2>8, AppendProperties
    <3>2. (i - 1) + 1 = i /\ \A j \in 1..i : j \in 1..(i - 1) \/ j = i
      BY <2>5
    <3>3. ASSUME NEW j \in 1..i
          PROVE  Append(u, s)[j] = q[j]
      BY <2>8, <3>1, <3>2 DEF s
    <3> QED
      BY <2>3, <2>5, <3>1, <3>2, <3>3, SeqEqual
  <2>10. ~Bad(u, l)
    <3> HIDE DEF Bad
    <3> QED
      BY <1>1, <2>1, <2>5, <2>8
  <2>11. IsWhole(p, T, u, l)
    BY <2>6, <2>10, EnteredIsWhole
  <2>12. <<u, s>> \in T
    BY <2>6, <2>11 DEF IsWhole
  <2>13. <<q, Entry(p, p.callee[s])>> \in StepsAfter(p, <<u, s>>)
    BY <2>7, <2>9 DEF StepsAfter, StepsInside
  <2>14. m = p.callee[s]
    BY <2>3, <2>4, <2>5 DEF IsChain, s
  <2> QED
    BY <2>3, <2>12, <2>13, <2>14 DEF HoldsExecutions
<1>3. ASSUME NEW c \in Copies(p)
      PROVE  c \in T
  <2>1. PICK n, path, s : n \in Node /\ s \in StmtsOf(p, n) /\ c = <<path, s>> /\ IsChain(p, path, n)
    BY CopiesAreOfChains
  <2>2. ~Bad(path, n)
    <3> HIDE DEF Bad
    <3> QED
      BY <1>1, <1>2
  <2> QED
    BY <2>1, <2>2, EnteredIsWhole DEF IsWhole
<1> QED
  BY <1>3

(***************************************************************************)
(* The searches through the graphs and the walks from assignments.         *)
(***************************************************************************)
Steps == ExecutionSteps(prog)

DefUse == UNION {{a} \X DefinitionReaches(a) : a \in {c \in Copies(prog) : IsAssign(c)}}

\* The pairs of a are all found, or the walk from a goes on.
Found(a) == {a} \X DefinitionReaches(a) \subseteq affects_bip_graph

Walked(m) == IsAssign(m) => (pending # {} /\ src = m) \/ Found(m)

Searched(r) == \A m \in {r} \cup ReachableFrom(Steps, Copies(prog), r) : Walked(m)

\* The search from r: whatever is met and not in the queue is walked, and its
\* successors are met.
InSearch(r) ==
  /\ queue \subseteq seen \cup {r}
  /\ \A m \in (seen \cup {r}) \ queue : Walked(m) /\ Successors(Steps, m) \subseteq seen

SearchInv ==
  /\ to_search \subseteq graphs
  /\ queue \subseteq Copies(prog) /\ seen \subseteq Copies(prog)
  /\ \A r \in graphs \ to_search : Searched(r) \/ InSearch(r)

\* The walk from src for v, with S what it is to reach.
IsWalk(v, S) ==
  /\ reachable \subseteq S
  /\ \/ pending = {src} /\ reachable = {}
     \/ /\ Successors(Steps, src) \subseteq reachable
        /\ pending \subseteq reachable
        /\ \A m \in reachable \ pending :
             /\ Redefines(m, v) \/ Successors(Steps, m) \subseteq reachable
             /\ IsAssign(m) /\ v \in prog.uses[m[2]] => <<src, m>> \in affects_bip_graph

WalkInv ==
  pending # {} =>
    /\ src \in Copies(prog) /\ IsAssign(src)
    /\ \E v \in Variable : prog.modifies[src[2]] = {v} /\ \E S : IsReach(S, src, v) /\ IsWalk(v, S)

\* The state of the walks.
WalksInv ==
  /\ Exploded
  /\ keys = {} /\ ahead = {} /\ affectsBipT = {}
  /\ affects_bip_graph \subseteq DefUse
  /\ SearchInv
  /\ WalkInv

\* What a copy consists of.
LEMMA CopiesAre ==
  ASSUME NEW p, IsProgram(p), NEW c \in Copies(p)
  PROVE  c[2] \in Stmts(p) /\ c[1] \in Seq(CallStmts(p)) /\ c = <<c[1], c[2]>>
BY CopiesAreFinite

\* An assignment modifies one variable.
LEMMA AssignmentDefinesOne ==
  ASSUME prog \in Programs, NEW a \in Copies(prog), IsAssign(a)
  PROVE  \E v \in Variable : prog.modifies[a[2]] = {v}
<1>1. a[2] \in Stmts(prog)
  BY CopiesAre, ProgramsAre
<1> QED
  BY <1>1, EffectsAssumption DEF IsAssign

\* There is one set that a definition reaches.
LEMMA ReachIsOne ==
  ASSUME IsProgram(prog), NEW a \in Copies(prog), NEW v \in Variable, prog.modifies[a[2]] = {v},
         NEW S, IsReach(S, a, v)
  PROVE  DefinitionReaches(a) = {m \in S : IsAssign(m) /\ v \in prog.uses[m[2]]}
<1>1. PICK T : IsReach(T, a, v) /\ DefinitionReaches(a) = {m \in T : IsAssign(m) /\ v \in prog.uses[m[2]]}
  BY DefinitionReachesIs
<1>2. S \subseteq T /\ T \subseteq S
  BY <1>1 DEF IsReach
<1>3. S = T
  BY <1>2
<1> QED
  BY <1>1, <1>3

\* A pair of definition and use.
LEMMA DefUseIs ==
  /\ \A a, m : <<a, m>> \in DefUse <=> a \in Copies(prog) /\ IsAssign(a) /\ m \in DefinitionReaches(a)
  /\ \A e \in DefUse : e = <<e[1], e[2]>>
BY DEF DefUse

\* The steps as a graph over the copies.
LEMMA StepsArePairs ==
  ASSUME IsProgram(prog)
  PROVE  /\ Steps \in SUBSET (Copies(prog) \X Copies(prog))
         /\ \A m : Successors(Steps, m) \subseteq Copies(prog)
         /\ \A m \in Copies(prog) : Successors(Steps, m) = StepsAfter(prog, m)
<1>1. Steps \in SUBSET (Copies(prog) \X Copies(prog))
  BY StepsAreOfCopies DEF Steps
<1>2. ASSUME NEW m, NEW d
      PROVE  d \in Successors(Steps, m) <=> <<m, d>> \in Steps
  BY <1>1, SuccessorsAreEnds
<1>3. \A m, d : <<m, d>> \in Steps => d \in Copies(prog)
  BY <1>1
<1>4. \A m \in Copies(prog) : \A d : <<m, d>> \in Steps <=> d \in StepsAfter(prog, m)
  BY StepsAre DEF Steps
<1> QED
  BY <1>1, <1>2, <1>3, <1>4

\* The graphs that are searched: their roots are copies, and each procedure
\* that the program starts with has one.
LEMMA RootsAre ==
  ASSUME ExplosionInv
  PROVE  /\ \A r \in graphs : r \in Copies(prog)
         /\ Exploded => \A n \in StartingProcedures(prog) : Root(prog, n) \in graphs
<1>1. IsProgram(prog)
  BY ProgramsAre DEF ExplosionInv
<1>2. ASSUME NEW n \in StartingProcedures(prog)
      PROVE  <<(<<>>), Entry(prog, n)>> \in Copies(prog)
  <2>1. n \in Node
    BY DEF StartingProcedures
  <2>2. IsChain(prog, <<>>, n) /\ Entry(prog, n) \in StmtsOf(prog, n)
    BY <1>1, <2>1, EmptyChain, ProgramProperties
  <2> QED
    BY <1>1, <2>1, <2>2, CopyIs
<1> QED
  BY <1>2 DEF ExplosionInv, Exploded, Root

\* What a search leaves behind when its queue is empty.
LEMMA SearchIsOver ==
  ASSUME IsProgram(prog), SearchInv, queue = {}
  PROVE  \A r \in graphs \ to_search : Searched(r)
<1> SUFFICES ASSUME NEW r \in graphs \ to_search, InSearch(r)
             PROVE  Searched(r)
  BY DEF SearchInv
<1> DEFINE S == seen \cup {r}
<1>1. \A m \in S : Walked(m) /\ Successors(Steps, m) \subseteq seen
  BY DEF InSearch
<1>2. ReachableFrom(Steps, Copies(prog), r) \subseteq seen
  <2>1. seen \in SUBSET Copies(prog)
    BY DEF SearchInv
  <2> QED
    BY <1>1, <2>1, ReachableIsLeast
<1> QED
  BY <1>1, <1>2 DEF Searched

\* The assignments of all copies are walked when all graphs are searched.
LEMMA AllAreWalked ==
  ASSUME ExplosionInv, WalksInv, WalksDone
  PROVE  affects_bip_graph = DefUse
<1>1. IsProgram(prog)
  BY ProgramsAre DEF ExplosionInv
<1>2. queue = {} /\ to_search = {} /\ pending = {} /\ SearchInv
  BY DEF WalksDone, WalksInv
<1>3. \A r \in graphs : Searched(r)
  BY <1>1, <1>2, SearchIsOver
<1> DEFINE T == {m \in Copies(prog) : \E r \in graphs : m \in {r} \cup ReachableFrom(Steps, Copies(prog), r)}
<1>4. HoldsExecutions(prog, T)
  <2>1. \A n \in StartingProcedures(prog) : Root(prog, n) \in T
    BY RootsAre DEF WalksInv
  <2>2. ASSUME NEW c \in T
        PROVE  StepsAfter(prog, c) \subseteq T
    <3>1. PICK r \in graphs : c \in {r} \cup ReachableFrom(Steps, Copies(prog), r)
      OBVIOUS
    <3>2. Successors(Steps, c) \subseteq ReachableFrom(Steps, Copies(prog), r)
      BY <1>1, <3>1, StepsArePairs, ReachableIsClosed
    <3>3. StepsAfter(prog, c) \subseteq ReachableFrom(Steps, Copies(prog), r)
      BY <1>1, <3>2, StepsArePairs
    <3>4. ReachableFrom(Steps, Copies(prog), r) \subseteq Copies(prog)
      BY DEF ReachableFrom
    <3> QED
      BY <3>3, <3>4
  <2>3. T \subseteq Copies(prog)
    OBVIOUS
  <2> HIDE DEF T
  <2> QED
    BY <2>1, <2>2, <2>3 DEF HoldsExecutions
<1>5. \A m \in Copies(prog) : Walked(m)
  <2>1. Copies(prog) \subseteq T
    <3> HIDE DEF T
    <3> QED
      BY <1>1, <1>4, EveryCopyIsReached
  <2> QED
    BY <1>3, <2>1 DEF Searched
<1>6. \A m \in Copies(prog) : IsAssign(m) => Found(m)
  BY <1>2, <1>5 DEF Walked
<1>7. DefUse \subseteq affects_bip_graph
  BY <1>6 DEF DefUse, Found
<1> QED
  BY <1>7 DEF WalksInv

\* ExtractAffectsBip begins: nothing is searched, and every graph remains.
LEMMA WalksBegin ==
  ASSUME ExplosionInv, ExtractAffectsBip,
         queue = {}, seen = {}, pending = {}, keys = {}, ahead = {}, affects_bip_graph = {}, affectsBipT = {}
  PROVE  WalksInv'
<1>1. /\ Exploded /\ to_search' = graphs
      /\ UNCHANGED <<explosionVars, queue, seen, src, pending, reachable, affects_bip_graph, keys, ahead, affectsBipT>>
  BY DEF ExtractAffectsBip
<1>2. Exploded'
  BY <1>1 DEF Exploded, Exploding, explosionVars
<1>3. SearchInv' /\ WalkInv'
  BY <1>1 DEF SearchInv, WalkInv, explosionVars
<1> QED
  BY <1>1, <1>2, <1>3 DEF WalksInv

\* A search begins at the root of a graph.
LEMMA SearchGraphStep ==
  ASSUME ExplosionInv, WalksInv, SearchGraph
  PROVE  WalksInv'
<1>1. PICK root \in to_search : to_search' = to_search \ {root} /\ queue' = {root} /\ seen' = {}
  BY DEF SearchGraph
<1>2. /\ queue = {} /\ pending = {}
      /\ UNCHANGED <<prog, starting, frames, edges, graphs, src, pending, reachable, affects_bip_graph, keys, ahead, affectsBipT>>
  BY DEF SearchGraph, explosionVars
<1>3. IsProgram(prog)
  BY ProgramsAre DEF ExplosionInv
<1>4. \A r \in graphs \ to_search : Searched(r)
  BY <1>2, <1>3, SearchIsOver DEF WalksInv
<1>5. \A m : Walked(m) <=> Walked(m)'
  BY <1>2 DEF Walked, Found, IsAssign, DefinitionReaches, Redefines
<1>6. \A r : Searched(r) => Searched(r)'
  BY <1>2, <1>5 DEF Searched, Steps
<1>7. InSearch(root)'
  BY <1>1 DEF InSearch
<1>8. root \in Copies(prog) /\ to_search \subseteq graphs
  BY <1>1, RootsAre DEF WalksInv, SearchInv
<1>9. SearchInv'
  <2>1. \A r \in graphs \ to_search' : r = root \/ Searched(r)'
    BY <1>1, <1>4, <1>6
  <2> QED
    BY <1>1, <1>2, <1>7, <1>8, <2>1 DEF SearchInv
<1>10. WalkInv'
  BY <1>2 DEF WalkInv
<1>11. Exploded' /\ DefUse' = DefUse
  BY <1>2 DEF WalksInv, Exploded, Exploding, DefUse, IsAssign, DefinitionReaches, Redefines
<1> QED
  BY <1>2, <1>9, <1>10, <1>11 DEF WalksInv

\* A search takes a node from its queue, and a walk begins at an assignment.
LEMMA TakeNodeStep ==
  ASSUME ExplosionInv, WalksInv, TakeNode
  PROVE  WalksInv'
<1>1. PICK cur \in queue :
        /\ queue' = (queue \ {cur}) \cup (Successors(edges, cur) \ seen)
        /\ seen' = seen \cup Successors(edges, cur)
        /\ IF IsAssign(cur) THEN src' = cur /\ pending' = {cur} /\ reachable' = {}
                            ELSE UNCHANGED <<src, pending, reachable>>
  BY DEF TakeNode
<1>2. /\ pending = {}
      /\ UNCHANGED <<prog, starting, frames, edges, graphs, to_search, affects_bip_graph, keys, ahead, affectsBipT>>
  BY DEF TakeNode, explosionVars
<1>3. IsProgram(prog) /\ prog \in Programs
  BY ProgramsAre DEF ExplosionInv
<1>4. edges = Steps
  BY ExplosionIsOver DEF WalksInv, Steps
<1>5. cur \in Copies(prog) /\ Successors(Steps, cur) \subseteq Copies(prog)
  BY <1>1, <1>3, StepsArePairs DEF WalksInv, SearchInv
<1>6. /\ \A m : IsAssign(m) <=> IsAssign(m)'
      /\ \A m : DefinitionReaches(m) = DefinitionReaches(m)'
      /\ Steps = Steps'
  BY <1>2 DEF IsAssign, DefinitionReaches, Redefines, Steps
<1>7. \A m : Walked(m) => Walked(m)'
  BY <1>2, <1>6 DEF Walked, Found
<1>8. Walked(cur)'
  BY <1>1, <1>6 DEF Walked
<1>9. \A r : Searched(r) => Searched(r)'
  BY <1>2, <1>6, <1>7 DEF Searched
<1>10. ASSUME NEW r, InSearch(r)
       PROVE  InSearch(r)'
  <2>1. queue' \subseteq seen' \cup {r}
    BY <1>1, <1>4, <1>10 DEF InSearch
  <2>2. ASSUME NEW m \in (seen' \cup {r}) \ queue'
        PROVE  Walked(m)' /\ Successors(Steps, m) \subseteq seen'
    <3>1. CASE m = cur
      BY <1>1, <1>4, <1>8, <3>1
    <3>2. CASE m # cur
      <4>1. m \in (seen \cup {r}) \ queue
        BY <1>1, <1>4, <2>2, <3>2
      <4> QED
        BY <1>1, <1>7, <1>10, <4>1 DEF InSearch
    <3> QED
      BY <3>1, <3>2
  <2> QED
    BY <1>6, <2>1, <2>2 DEF InSearch
<1>11. SearchInv'
  <2>1. queue' \subseteq Copies(prog) /\ seen' \subseteq Copies(prog)
    BY <1>1, <1>4, <1>5 DEF WalksInv, SearchInv
  <2> QED
    BY <1>2, <1>9, <1>10, <2>1 DEF WalksInv, SearchInv
<1>12. WalkInv'
  <2>1. CASE ~IsAssign(cur)
    BY <1>1, <1>2, <2>1 DEF WalkInv
  <2>2. CASE IsAssign(cur)
    <3>1. PICK v \in Variable : prog.modifies[cur[2]] = {v}
      BY <1>3, <1>5, <2>2, AssignmentDefinesOne
    <3>2. PICK S : IsReach(S, cur, v)
      BY <1>3, <1>5, <3>1, DefinitionReachesIs
    <3>3. src' = cur /\ pending' = {cur} /\ reachable' = {} /\ prog' = prog
      BY <1>1, <1>2, <2>2
    <3>4. IsReach(S, cur, v)'
      BY <1>2, <3>2 DEF IsReach, Redefines
    <3>5. IsWalk(v, S)'
      BY <3>3 DEF IsWalk
    <3> QED
      BY <1>5, <2>2, <3>1, <3>3, <3>4, <3>5, <1>6 DEF WalkInv
  <2> QED
    BY <2>1, <2>2
<1>13. Exploded' /\ DefUse' = DefUse
  BY <1>2, <1>6 DEF WalksInv, Exploded, Exploding, DefUse
<1> QED
  BY <1>2, <1>11, <1>12, <1>13 DEF WalksInv

\* A walk visits a node, inserts its pair, and goes on behind it unless the
\* variable is modified.
LEMMA VisitStep ==
  ASSUME ExplosionInv, WalksInv, Visit
  PROVE  WalksInv'
<1>1. /\ pending # {}
      /\ UNCHANGED <<prog, starting, frames, edges, graphs, to_search, queue, seen, src, keys, ahead, affectsBipT>>
  BY DEF Visit, explosionVars
<1>2. IsProgram(prog) /\ prog \in Programs
  BY ProgramsAre DEF ExplosionInv
<1>3. edges = Steps
  BY ExplosionIsOver DEF WalksInv, Steps
<1>4. PICK v \in Variable : /\ src \in Copies(prog) /\ IsAssign(src)
                            /\ prog.modifies[src[2]] = {v} /\ \E S : IsReach(S, src, v) /\ IsWalk(v, S)
  BY <1>1 DEF WalksInv, WalkInv
<1>5. PICK S : IsReach(S, src, v) /\ IsWalk(v, S)
  BY <1>4
<1> DEFINE new(cur) == IF cur \in reachable /\ Kills(cur, v) THEN {} ELSE Successors(edges, cur) \ reachable
<1>6. PICK cur \in pending :
        /\ affects_bip_graph' = affects_bip_graph \cup Affected(cur, v)
        /\ pending' = (pending \ {cur}) \cup new(cur)
        /\ reachable' = reachable \cup new(cur)
  BY <1>4 DEF Visit
<1>7. /\ \A m : IsAssign(m) <=> IsAssign(m)'
      /\ \A m : DefinitionReaches(m) = DefinitionReaches(m)'
      /\ Steps = Steps'
      /\ \A m : Redefines(m, v) <=> Redefines(m, v)'
  BY <1>1 DEF IsAssign, DefinitionReaches, Redefines, Steps
<1>8. DefinitionReaches(src) = {m \in S : IsAssign(m) /\ v \in prog.uses[m[2]]}
  BY <1>2, <1>4, <1>5, ReachIsOne
<1>9. \A m : Kills(m, v) <=> Redefines(m, v)
  BY DEF Kills, Redefines
<1>10. cur = src \/ cur \in reachable
  BY <1>5, <1>6 DEF IsWalk
<1>11. Successors(Steps, src) \subseteq S /\ \A m \in S : Redefines(m, v) \/ Successors(Steps, m) \subseteq S
  BY <1>5 DEF IsReach, Steps
<1>12. reachable \subseteq S
  BY <1>5 DEF IsWalk
<1>13. new(cur) \subseteq S
  BY <1>3, <1>9, <1>10, <1>11, <1>12
<1>14. Affected(cur, v) \subseteq {src} \X DefinitionReaches(src)
  BY <1>8, <1>12 DEF Affected
<1>15. affects_bip_graph' \subseteq DefUse
  <2>1. Affected(cur, v) \subseteq DefUse
    BY <1>4, <1>14, DefUseIs
  <2> QED
    BY <1>6, <2>1 DEF WalksInv
<1>16. IsWalk(v, S)'
  <2>1. reachable' \subseteq S
    BY <1>6, <1>12, <1>13
  <2>2. Successors(Steps, src) \subseteq reachable' /\ pending' \subseteq reachable'
    <3>1. CASE pending = {src} /\ reachable = {}
      <4>1. cur = src /\ new(cur) = Successors(Steps, src)
        BY <1>3, <1>6, <3>1
      <4> HIDE DEF new
      <4> QED
        BY <1>6, <3>1, <4>1
    <3>2. CASE ~(pending = {src} /\ reachable = {})
      <4>1. Successors(Steps, src) \subseteq reachable /\ pending \subseteq reachable
        BY <1>5, <3>2 DEF IsWalk
      <4> HIDE DEF new
      <4> QED
        BY <1>6, <4>1
    <3> QED
      BY <3>1, <3>2
  <2>3. ASSUME NEW m \in reachable' \ pending'
        PROVE  /\ Redefines(m, v) \/ Successors(Steps, m) \subseteq reachable'
               /\ IsAssign(m) /\ v \in prog.uses[m[2]] => <<src, m>> \in affects_bip_graph'
    <3>1. m \in reachable /\ (m \notin pending \/ m = cur)
      <4> HIDE DEF new
      <4> QED
        BY <1>6, <2>3
    <3>2. CASE m = cur
      <4>1. Redefines(m, v) \/ Successors(Steps, m) \subseteq reachable'
        BY <1>3, <1>6, <1>9, <3>1, <3>2
      <4>2. IsAssign(m) /\ v \in prog.uses[m[2]] => <<src, m>> \in Affected(cur, v)
        BY <3>1, <3>2 DEF Affected
      <4> HIDE DEF new
      <4> QED
        BY <1>6, <4>1, <4>2
    <3>3. CASE m # cur
      <4>1. m \in reachable \ pending
        BY <3>1, <3>3
      <4>2. ~(pending = {src} /\ reachable = {})
        BY <4>1
      <4>3. /\ Redefines(m, v) \/ Successors(Steps, m) \subseteq reachable
            /\ IsAssign(m) /\ v \in prog.uses[m[2]] => <<src, m>> \in affects_bip_graph
        BY <1>5, <4>1, <4>2 DEF IsWalk
      <4> HIDE DEF new
      <4> QED
        BY <1>6, <4>3
    <3> QED
      BY <3>2, <3>3
  <2> QED
    BY <1>1, <1>7, <2>1, <2>2, <2>3 DEF IsWalk
<1>17. ASSUME pending' = {}
       PROVE  Found(src)'
  <2>1. /\ Successors(Steps, src) \subseteq reachable'
        /\ \A m \in reachable' : /\ Redefines(m, v) \/ Successors(Steps, m) \subseteq reachable'
                                 /\ IsAssign(m) /\ v \in prog.uses[m[2]] => <<src, m>> \in affects_bip_graph'
    BY <1>1, <1>7, <1>16, <1>17 DEF IsWalk
  <2>2. S \subseteq reachable'
    BY <1>5, <2>1 DEF IsReach, Steps
  <2>3. \A m \in DefinitionReaches(src) : <<src, m>> \in affects_bip_graph'
    BY <1>8, <2>1, <2>2
  <2> QED
    BY <1>1, <1>7, <2>3 DEF Found
<1>18. \A m : Walked(m) => Walked(m)'
  <2>1. \A m : Found(m) => Found(m)'
    BY <1>6, <1>7 DEF Found
  <2> QED
    BY <1>1, <1>7, <1>17, <2>1 DEF Walked
<1>19. SearchInv'
  <2>1. \A r : Searched(r) => Searched(r)'
    BY <1>1, <1>7, <1>18 DEF Searched
  <2>2. \A r : InSearch(r) => InSearch(r)'
    BY <1>1, <1>7, <1>18 DEF InSearch
  <2> QED
    BY <1>1, <2>1, <2>2 DEF WalksInv, SearchInv
<1>20. WalkInv'
  <2>1. IsReach(S, src, v)'
    BY <1>1, <1>5 DEF IsReach, Redefines
  <2> QED
    BY <1>1, <1>4, <1>7, <1>16, <2>1 DEF WalkInv
<1>21. Exploded' /\ DefUse' = DefUse
  BY <1>1, <1>7 DEF WalksInv, Exploded, Exploding, DefUse
<1> QED
  BY <1>1, <1>15, <1>19, <1>20, <1>21 DEF WalksInv

(***************************************************************************)
(* ExtractAffectsBipT: a search from every key of the map.                 *)
(***************************************************************************)
Sources == {e[1] : e \in affects_bip_graph}

Leads(a) == ReachableFrom(affects_bip_graph, Copies(prog), a)

Joins(a) == {a[2]} \X {m[2] : m \in Leads(a)}

\* The search from src.
IsFollowed ==
  /\ src \in keys
  /\ reachable \subseteq Leads(src)
  /\ \/ pending = {src} /\ reachable = {}
     \/ /\ Successors(affects_bip_graph, src) \subseteq reachable
        /\ pending \subseteq reachable
        /\ \A m \in reachable \ pending : Successors(affects_bip_graph, m) \subseteq reachable

ClosureInv ==
  /\ Exploded
  /\ affects_bip_graph = DefUse
  /\ to_search = {}
  /\ Sources \subseteq keys /\ keys \subseteq Copies(prog) /\ ahead \subseteq keys
  /\ src = NoNode => pending = {}
  /\ src # NoNode => IsFollowed
  /\ \A a \in Sources : a \in ahead \/ a = src \/ Joins(a) \subseteq affectsBipT
  /\ affectsBipT \subseteq UNION {Joins(a) : a \in Sources}

\* The pairs are of copies of assignments.
LEMMA DefUseIsOfCopies ==
  ASSUME prog \in Programs
  PROVE  DefUse \in SUBSET (Copies(prog) \X Copies(prog)) /\ \A e \in DefUse : IsAssign(e[1]) /\ IsAssign(e[2])
<1>1. IsProgram(prog)
  BY ProgramsAre
<1>2. ASSUME NEW a \in Copies(prog), IsAssign(a)
      PROVE  \A m \in DefinitionReaches(a) : m \in Copies(prog) /\ IsAssign(m)
  <2>1. PICK v \in Variable : prog.modifies[a[2]] = {v}
    BY <1>2, AssignmentDefinesOne
  <2>2. PICK S : IsReach(S, a, v) /\ DefinitionReaches(a) = {m \in S : IsAssign(m) /\ v \in prog.uses[m[2]]}
    BY <1>1, <2>1, DefinitionReachesIs
  <2> QED
    BY <2>2 DEF IsReach
<1>3. ASSUME NEW e \in DefUse
      PROVE  e \in Copies(prog) \X Copies(prog) /\ IsAssign(e[1]) /\ IsAssign(e[2])
  <2>1. PICK a, m : e = <<a, m>> /\ a \in Copies(prog) /\ IsAssign(a) /\ m \in DefinitionReaches(a)
    BY DefUseIs
  <2> QED
    BY <1>2, <2>1
<1> QED
  BY <1>3

\* What is known of Leads: the least set that holds the successors and is
\* closed, and empty for what is no key.
LEMMA LeadsAre ==
  ASSUME affects_bip_graph \in SUBSET (Copies(prog) \X Copies(prog))
  PROVE  /\ Sources \subseteq Copies(prog)
         /\ \A a : Leads(a) \subseteq Copies(prog)
         /\ \A a : Successors(affects_bip_graph, a) \subseteq Leads(a)
         /\ \A a : \A m \in Leads(a) : Successors(affects_bip_graph, m) \subseteq Leads(a)
         /\ \A a : \A S \in SUBSET Copies(prog) :
              Successors(affects_bip_graph, a) \subseteq S /\ (\A m \in S : Successors(affects_bip_graph, m) \subseteq S)
                => Leads(a) \subseteq S
         /\ \A a : a \notin Sources => Leads(a) = {}
<1>1. Sources \subseteq Copies(prog)
  BY DEF Sources
<1>2. \A a : Leads(a) \subseteq Copies(prog)
  BY DEF Leads, ReachableFrom
<1>3. ASSUME NEW a
      PROVE  /\ Successors(affects_bip_graph, a) \subseteq Leads(a)
             /\ \A m \in Leads(a) : Successors(affects_bip_graph, m) \subseteq Leads(a)
  BY ReachableIsClosed DEF Leads
<1>4. ASSUME NEW a, NEW S \in SUBSET Copies(prog), Successors(affects_bip_graph, a) \subseteq S,
             \A m \in S : Successors(affects_bip_graph, m) \subseteq S
      PROVE  Leads(a) \subseteq S
  BY <1>4, ReachableIsLeast DEF Leads
<1>5. ASSUME NEW a, a \notin Sources
      PROVE  Leads(a) = {}
  <2>1. Successors(affects_bip_graph, a) = {}
    BY <1>5 DEF Successors, Sources
  <2>2. Leads(a) \subseteq {}
    BY <1>4, <2>1
  <2> QED
    BY <2>2
<1> QED
  BY <1>1, <1>2, <1>3, <1>4, <1>5

\* The map of pairs is a graph of copies.
LEMMA ClosureIsOfCopies ==
  ASSUME ExplosionInv, ClosureInv
  PROVE  /\ affects_bip_graph \in SUBSET (Copies(prog) \X Copies(prog))
         /\ NoNode \notin Copies(prog)
<1>1. prog \in Programs /\ IsProgram(prog) /\ NoNode \notin Seq(CallStmts(prog)) \X Stmts(prog)
  BY ProgramsAre DEF ExplosionInv
<1>2. Copies(prog) \in SUBSET (Seq(CallStmts(prog)) \X Stmts(prog))
  BY <1>1, CopiesAreFinite
<1> QED
  BY <1>1, <1>2, DefUseIsOfCopies DEF ClosureInv

\* Nothing that the invariant says but the search itself depends on more than
\* these variables.
LEMMA LeadsStay ==
  ASSUME UNCHANGED <<prog, starting, frames, edges, graphs, affects_bip_graph>>
  PROVE  /\ Exploded' = Exploded /\ DefUse' = DefUse /\ Copies(prog)' = Copies(prog) /\ Sources' = Sources
         /\ \A a : Leads(a)' = Leads(a) /\ Joins(a)' = Joins(a)
         /\ \A a : Successors(affects_bip_graph, a)' = Successors(affects_bip_graph, a)
<1>1. Exploded' = Exploded
  BY DEF Exploded, Exploding
<1>2. DefUse' = DefUse
  BY DEF DefUse, IsAssign, DefinitionReaches, Redefines
<1>3. \A a : Leads(a)' = Leads(a)
  BY DEF Leads
<1>4. \A a : Joins(a)' = Joins(a)
  BY <1>3 DEF Joins
<1> QED
  BY <1>1, <1>2, <1>3, <1>4 DEF Sources

\* ExtractAffectsBipT begins: every key is ahead.
LEMMA ClosureBegins ==
  ASSUME ExplosionInv, WalksInv, ExtractAffectsBipT
  PROVE  ClosureInv'
<1>1. /\ WalksDone
      /\ keys' = Sources /\ ahead' = Sources /\ src' = NoNode
      /\ UNCHANGED <<prog, starting, frames, edges, graphs, to_search, pending, affects_bip_graph, affectsBipT>>
  BY DEF ExtractAffectsBipT, explosionVars, Sources
<1>2. affects_bip_graph = DefUse
  BY <1>1, AllAreWalked
<1>3. Exploded /\ affectsBipT = {} /\ to_search = {} /\ pending = {}
  BY <1>1 DEF WalksInv, WalksDone
<1>4. prog \in Programs
  BY DEF ExplosionInv
<1>5. Sources \subseteq Copies(prog)
  BY <1>2, <1>4, DefUseIsOfCopies, LeadsAre
<1>6. Exploded' = Exploded /\ DefUse' = DefUse /\ Sources' = Sources
  BY <1>1, LeadsStay
<1> QED
  BY <1>1, <1>2, <1>3, <1>5, <1>6 DEF ClosureInv

\* A search begins at a key.
LEMMA SearchFromStep ==
  ASSUME ExplosionInv, ClosureInv, SearchFrom
  PROVE  ClosureInv'
<1>1. PICK key \in ahead : ahead' = ahead \ {key} /\ src' = key /\ pending' = {key} /\ reachable' = {}
  BY DEF SearchFrom
<1>2. UNCHANGED <<prog, starting, frames, edges, graphs, to_search, affects_bip_graph, keys, affectsBipT>> /\ src = NoNode
  BY DEF SearchFrom, explosionVars
<1>3. NoNode \notin Copies(prog) /\ affects_bip_graph \in SUBSET (Copies(prog) \X Copies(prog))
  BY ClosureIsOfCopies
<1>4. /\ Exploded' = Exploded /\ DefUse' = DefUse /\ Copies(prog)' = Copies(prog) /\ Sources' = Sources
      /\ \A a : Leads(a)' = Leads(a) /\ Joins(a)' = Joins(a)
  BY <1>2, LeadsStay
<1>5. key \in keys /\ key # NoNode
  BY <1>3 DEF ClosureInv
<1>6. IsFollowed'
  BY <1>1, <1>2, <1>5 DEF IsFollowed
<1>7. \A a \in Sources : a # NoNode
  BY <1>3, LeadsAre
<1>8. \A a \in Sources : a \in ahead' \/ a = src' \/ Joins(a) \subseteq affectsBipT'
  BY <1>1, <1>2, <1>7 DEF ClosureInv
<1>9. ahead' \subseteq keys'
  BY <1>1, <1>2 DEF ClosureInv
<1>10. affectsBipT' \subseteq UNION {Joins(a) : a \in Sources}
  BY <1>2 DEF ClosureInv
<1>11. (UNION {Joins(a) : a \in Sources})' = UNION {Joins(a) : a \in Sources}
  BY <1>4
<1>12. \A a \in Sources' : a \in ahead' \/ a = src' \/ Joins(a)' \subseteq affectsBipT'
  BY <1>4, <1>8
<1>13. src' # NoNode
  BY <1>1, <1>5
<1> QED
  BY <1>2, <1>4, <1>6, <1>9, <1>10, <1>11, <1>12, <1>13 DEF ClosureInv

\* A search follows the pairs from a copy.
LEMMA VisitTStep ==
  ASSUME ExplosionInv, ClosureInv, VisitT
  PROVE  ClosureInv'
<1> DEFINE new(cur) == Successors(affects_bip_graph, cur) \ reachable
<1>1. PICK cur \in pending :
        /\ keys' = keys \cup {cur}
        /\ ahead' \in AheadAfterLookup(cur)
        /\ pending' = (pending \ {cur}) \cup new(cur)
        /\ reachable' = reachable \cup new(cur)
  BY DEF VisitT
<1>2. UNCHANGED <<prog, starting, frames, edges, graphs, to_search, src, affects_bip_graph, affectsBipT>>
  BY DEF VisitT, explosionVars
<1>3. NoNode \notin Copies(prog) /\ affects_bip_graph \in SUBSET (Copies(prog) \X Copies(prog))
  BY ClosureIsOfCopies
<1>4. /\ Exploded' = Exploded /\ DefUse' = DefUse /\ Copies(prog)' = Copies(prog) /\ Sources' = Sources
      /\ \A a : Leads(a)' = Leads(a) /\ Joins(a)' = Joins(a)
      /\ \A a : Successors(affects_bip_graph, a)' = Successors(affects_bip_graph, a)
  BY <1>2, LeadsStay
<1>5. src # NoNode /\ IsFollowed
  BY <1>1 DEF ClosureInv
<1>6. cur = src \/ cur \in reachable
  BY <1>1, <1>5 DEF IsFollowed
<1>7. cur \in Copies(prog) /\ new(cur) \subseteq Leads(src)
  <2>1. src \in Copies(prog) /\ reachable \subseteq Leads(src)
    BY <1>5 DEF IsFollowed, ClosureInv
  <2> QED
    BY <1>3, <1>6, <2>1, LeadsAre
<1>8. ahead \subseteq ahead' /\ ahead' \subseteq keys'
  <2>1. ahead \subseteq keys
    BY DEF ClosureInv
  <2> QED
    BY <1>1, <2>1 DEF AheadAfterLookup
<1>9. reachable' \subseteq Leads(src)
  BY <1>1, <1>5, <1>7 DEF IsFollowed
<1>10. Successors(affects_bip_graph, src) \subseteq reachable' /\ pending' \subseteq reachable'
  <2>1. CASE pending = {src} /\ reachable = {}
    <3>1. cur = src /\ new(cur) = Successors(affects_bip_graph, src)
      BY <1>1, <2>1
    <3> HIDE DEF new
    <3> QED
      BY <1>1, <2>1, <3>1
  <2>2. CASE ~(pending = {src} /\ reachable = {})
    <3>1. Successors(affects_bip_graph, src) \subseteq reachable /\ pending \subseteq reachable
      BY <1>5, <2>2 DEF IsFollowed
    <3> HIDE DEF new
    <3> QED
      BY <1>1, <3>1
  <2> QED
    BY <2>1, <2>2
<1>11. ASSUME NEW m \in reachable' \ pending'
       PROVE  Successors(affects_bip_graph, m) \subseteq reachable'
  <2>1. CASE m = cur
    BY <1>1, <2>1
  <2>2. CASE m # cur
    <3>1. m \in reachable \ pending
      <4> HIDE DEF new
      <4> QED
        BY <1>1, <1>11, <2>2
    <3>2. Successors(affects_bip_graph, m) \subseteq reachable
      BY <1>5, <3>1 DEF IsFollowed
    <3> QED
      BY <1>1, <3>2
  <2> QED
    BY <2>1, <2>2
<1>12. IsFollowed'
  <2>1. src' = src /\ src \in keys'
    BY <1>1, <1>2, <1>5 DEF IsFollowed
  <2> QED
    BY <1>4, <1>9, <1>10, <1>11, <2>1 DEF IsFollowed
<1>13. \A a \in Sources' : a \in ahead' \/ a = src' \/ Joins(a)' \subseteq affectsBipT'
  BY <1>2, <1>4, <1>8 DEF ClosureInv
<1>14. (UNION {Joins(a) : a \in Sources})' = UNION {Joins(a) : a \in Sources}
  BY <1>4
<1>15. Sources \subseteq keys' /\ keys' \subseteq Copies(prog)
  BY <1>1, <1>7 DEF ClosureInv
<1>16. affectsBipT' \subseteq UNION {Joins(a) : a \in Sources}
  BY <1>2 DEF ClosureInv
<1>17. Exploded /\ affects_bip_graph = DefUse /\ to_search = {}
  BY DEF ClosureInv
<1> QED
  BY <1>2, <1>4, <1>5, <1>8, <1>12, <1>13, <1>14, <1>15, <1>16, <1>17 DEF ClosureInv

\* The search from a key is over, and its pairs are inserted without their
\* copies.
LEMMA InsertStep ==
  ASSUME ExplosionInv, ClosureInv, InsertAffectsBipT
  PROVE  ClosureInv'
<1>1. /\ src # NoNode /\ pending = {} /\ src' = NoNode
      /\ affectsBipT' = affectsBipT \cup {<<src[2], n[2]>> : n \in reachable}
      /\ UNCHANGED <<prog, starting, frames, edges, graphs, to_search, pending, affects_bip_graph, keys, ahead>>
  BY DEF InsertAffectsBipT, explosionVars
<1>2. NoNode \notin Copies(prog) /\ affects_bip_graph \in SUBSET (Copies(prog) \X Copies(prog))
  BY ClosureIsOfCopies
<1>3. /\ Exploded' = Exploded /\ DefUse' = DefUse /\ Copies(prog)' = Copies(prog) /\ Sources' = Sources
      /\ \A a : Leads(a)' = Leads(a) /\ Joins(a)' = Joins(a)
  BY <1>1, LeadsStay
<1>4. reachable = Leads(src)
  <2>1. reachable \subseteq Leads(src) /\ Leads(src) \subseteq Copies(prog)
    BY <1>1, <1>2, LeadsAre DEF ClosureInv, IsFollowed
  <2>2. /\ Successors(affects_bip_graph, src) \subseteq reachable
        /\ \A m \in reachable : Successors(affects_bip_graph, m) \subseteq reachable
    BY <1>1 DEF ClosureInv, IsFollowed
  <2>3. reachable \in SUBSET Copies(prog)
    BY <2>1
  <2>4. Leads(src) \subseteq reachable
    BY <1>2, <2>2, <2>3, LeadsAre
  <2> QED
    BY <2>1, <2>4
<1>5. {<<src[2], n[2]>> : n \in reachable} = Joins(src)
  BY <1>4 DEF Joins
<1>6. src \notin Sources => Joins(src) = {}
  BY <1>2, LeadsAre DEF Joins
<1>7. affectsBipT' = affectsBipT \cup Joins(src)
  BY <1>1, <1>5
<1>8. affectsBipT' \subseteq UNION {Joins(a) : a \in Sources}
  BY <1>6, <1>7 DEF ClosureInv
<1>9. (UNION {Joins(a) : a \in Sources})' = UNION {Joins(a) : a \in Sources}
  BY <1>3
<1>10. \A a \in Sources : a \in ahead \/ Joins(a) \subseteq affectsBipT'
  BY <1>7 DEF ClosureInv
<1>11. \A a \in Sources' : a \in ahead' \/ a = src' \/ Joins(a)' \subseteq affectsBipT'
  BY <1>1, <1>3, <1>10
<1>12. /\ Exploded /\ affects_bip_graph = DefUse /\ to_search = {}
       /\ Sources \subseteq keys /\ keys \subseteq Copies(prog) /\ ahead \subseteq keys
  BY DEF ClosureInv
<1> QED
  BY <1>1, <1>3, <1>8, <1>9, <1>11, <1>12 DEF ClosureInv
-----------------------------------------------------------------------------
(***************************************************************************)
(* The inductive invariant: one for each phase, and the explosion, which   *)
(* stays as it is when the walks begin.                                    *)
(***************************************************************************)
NothingFound ==
  /\ to_search = {} /\ queue = {} /\ seen = {}
  /\ pending = {} /\ reachable = {} /\ src = NoNode
  /\ affects_bip_graph = {} /\ keys = {} /\ ahead = {} /\ affectsBipT = {}

Inv ==
  /\ ExplosionInv
  /\ phase \in {"explode", "walk", "closure"}
  /\ phase = "explode" => NothingFound
  /\ phase = "walk" => WalksInv
  /\ phase = "closure" => ClosureInv

\* The invariant holds in the beginning.
LEMMA InitInv == Init => Inv
BY ExplosionStarts DEF Init, Inv, NothingFound

\* What is exploded stays exploded.
LEMMA ExplosionStays ==
  ASSUME ExplosionInv, UNCHANGED explosionVars
  PROVE  ExplosionInv'
BY DEF ExplosionInv, explosionVars

\* A step that changes nothing keeps the invariant.
LEMMA StutterInv ==
  ASSUME Inv, UNCHANGED vars
  PROVE  Inv'
<1>1. UNCHANGED explosionVars /\ UNCHANGED bipVars
  BY DEF vars
<1>2. ExplosionInv'
  BY <1>1, ExplosionStays DEF Inv
<1>3. UNCHANGED <<prog, starting, frames, edges, graphs, affects_bip_graph>>
  BY <1>1 DEF explosionVars, bipVars
<1>4. /\ Exploded' = Exploded /\ DefUse' = DefUse /\ Copies(prog)' = Copies(prog) /\ Sources' = Sources
      /\ \A a : Leads(a)' = Leads(a) /\ Joins(a)' = Joins(a)
      /\ \A a : Successors(affects_bip_graph, a)' = Successors(affects_bip_graph, a)
  BY <1>3, LeadsStay
<1>5. NothingFound => NothingFound'
  BY <1>1 DEF NothingFound, bipVars
<1>6. WalksInv => WalksInv'
  <2>1. Steps = Steps' /\ (\A m : IsAssign(m) <=> IsAssign(m)') /\ (\A m : DefinitionReaches(m)' = DefinitionReaches(m))
    BY <1>3 DEF Steps, IsAssign, DefinitionReaches, Redefines
  <2>2. \A m : Walked(m) <=> Walked(m)'
    BY <1>1, <2>1 DEF Walked, Found, bipVars
  <2>3. SearchInv => SearchInv'
    BY <1>1, <1>3, <2>1, <2>2 DEF SearchInv, Searched, InSearch, bipVars
  <2>4. WalkInv => WalkInv'
    BY <1>1, <1>3, <2>1 DEF WalkInv, IsReach, IsWalk, Redefines, bipVars
  <2> QED
    BY <1>1, <1>4, <2>3, <2>4 DEF WalksInv, bipVars
<1>7. ClosureInv => ClosureInv'
  <2>1. IsFollowed => IsFollowed'
    BY <1>1, <1>4 DEF IsFollowed, bipVars
  <2>2. (UNION {Joins(a) : a \in Sources})' = UNION {Joins(a) : a \in Sources}
    BY <1>4
  <2>3. (\A a \in Sources : a \in ahead \/ a = src \/ Joins(a) \subseteq affectsBipT)
          => (\A a \in Sources' : a \in ahead' \/ a = src' \/ Joins(a)' \subseteq affectsBipT')
    BY <1>1, <1>4 DEF bipVars
  <2> QED
    BY <1>1, <1>4, <2>1, <2>2, <2>3 DEF ClosureInv, bipVars
<1> QED
  BY <1>1, <1>2, <1>5, <1>6, <1>7 DEF Inv, bipVars

\* Every step keeps the invariant.
LEMMA NextInv ==
  ASSUME Inv, Next
  PROVE  Inv'
<1>1. ExplosionInv
  BY DEF Inv
<1>2. CASE ConstructGraphExplosion
  <2>1. phase = "explode" /\ Explode /\ UNCHANGED bipVars
    BY <1>2 DEF ConstructGraphExplosion
  <2>2. ExplosionInv'
    BY <1>1, <2>1, ExplosionGoesOn
  <2>3. NothingFound' /\ phase' = "explode"
    BY <2>1 DEF Inv, NothingFound, bipVars
  <2> QED
    BY <2>2, <2>3 DEF Inv
<1>3. CASE ExtractAffectsBip
  <2>1. phase = "explode" /\ phase' = "walk" /\ UNCHANGED explosionVars
    BY <1>3 DEF ExtractAffectsBip
  <2>2. NothingFound
    BY <2>1 DEF Inv
  <2>3. WalksInv'
    BY <1>1, <1>3, <2>2, WalksBegin DEF NothingFound
  <2>4. ExplosionInv'
    BY <1>1, <2>1, ExplosionStays
  <2> QED
    BY <2>1, <2>3, <2>4 DEF Inv
<1>4. CASE SearchGraph \/ TakeNode \/ Visit
  <2>1. phase = "walk" /\ phase' = "walk" /\ UNCHANGED explosionVars
    BY <1>4 DEF SearchGraph, TakeNode, Visit
  <2>2. WalksInv'
    BY <1>1, <1>4, <2>1, SearchGraphStep, TakeNodeStep, VisitStep DEF Inv
  <2>3. ExplosionInv'
    BY <1>1, <2>1, ExplosionStays
  <2> QED
    BY <2>1, <2>2, <2>3 DEF Inv
<1>5. CASE ExtractAffectsBipT
  <2>1. phase = "walk" /\ phase' = "closure" /\ UNCHANGED explosionVars
    BY <1>5 DEF ExtractAffectsBipT, WalksDone
  <2>2. ClosureInv'
    BY <1>1, <1>5, <2>1, ClosureBegins DEF Inv
  <2>3. ExplosionInv'
    BY <1>1, <2>1, ExplosionStays
  <2> QED
    BY <2>1, <2>2, <2>3 DEF Inv
<1>6. CASE SearchFrom \/ VisitT \/ InsertAffectsBipT
  <2>1. phase = "closure" /\ phase' = "closure" /\ UNCHANGED explosionVars
    BY <1>6 DEF SearchFrom, VisitT, InsertAffectsBipT
  <2>2. ClosureInv'
    BY <1>1, <1>6, <2>1, SearchFromStep, VisitTStep, InsertStep DEF Inv
  <2>3. ExplosionInv'
    BY <1>1, <2>1, ExplosionStays
  <2> QED
    BY <2>1, <2>2, <2>3 DEF Inv
<1> QED
  BY <1>2, <1>3, <1>4, <1>5, <1>6 DEF Next

\* The invariant holds always.
LEMMA InvHolds == Spec => []Inv
<1>1. Inv /\ [Next]_vars => Inv'
  BY NextInv, StutterInv
<1> QED
  BY <1>1, InitInv, PTL DEF Spec

\* The extraction stays inside the program: the graphs and their nodes are of
\* its copies, and pairs are inserted of copies of assignments only, for every
\* program without recursion.
THEOREM TypeCorrect == Spec => []TypeOK
<1>1. ASSUME Inv
      PROVE  TypeOK
  <2>1. prog \in Programs /\ (phase = "explode" => ExplosionTypeOK)
    BY <1>1, ExplosionTypes DEF Inv, ExplosionInv
  <2>2. affects_bip_graph \subseteq DefUse
    BY <1>1 DEF Inv, NothingFound, WalksInv, ClosureInv
  <2>3. \A e \in affects_bip_graph : IsAssign(e[1]) /\ IsAssign(e[2])
    BY <2>1, <2>2, DefUseIsOfCopies
  <2>4. to_search \subseteq graphs /\ ahead \subseteq keys
    BY <1>1 DEF Inv, NothingFound, WalksInv, SearchInv, ClosureInv
  <2>5. phase # "closure" => pending \subseteq reachable \cup {src}
    <3>1. CASE phase = "explode"
      BY <1>1, <3>1 DEF Inv, NothingFound
    <3>2. CASE phase = "walk"
      BY <1>1, <3>2 DEF Inv, WalksInv, WalkInv, IsWalk
    <3> QED
      BY <1>1, <3>1, <3>2 DEF Inv
  <2> QED
    BY <2>1, <2>3, <2>4, <2>5 DEF TypeOK
<1> QED
  BY <1>1, InvHolds, PTL

\* When ExplodeGraph is done, the exploded graph has exactly the steps that
\* executions can make from one statement, with the calls that it is executed
\* in, to another, for every program without recursion: no activation is
\* entered from one call and left behind another.
THEOREM ExplosionIsCorrect == Spec => []ExplosionIsExecution
<1>1. Inv => ExplosionIsExecution
  BY ExplosionIsOver DEF Inv, ExplosionIsExecution, GraphIsExecution
<1> QED
  BY <1>1, InvHolds, PTL

\* When the walks are over, the map holds a pair exactly for each copy of an
\* assignment and each copy of a use that its value reaches, in every program:
\* the searches from the roots find each assignment in each of its
\* activations, and the walks go in and out of procedures with their calls
\* matched.
THEOREM AffectsBipIsCorrect == Spec => []PairsAreDefUse
<1>1. Inv => PairsAreDefUse
  BY AllAreWalked DEF Inv, PairsAreDefUse, WalksDone, DefUse
<1> QED
  BY <1>1, InvHolds, PTL

\* AffectsBip* is the closure of the pairs of copies and not that of the pairs
\* of statements: when ExtractAffectsBipT is done, two statements are in it
\* exactly if some of their copies are joined by a chain, in every program.
THEOREM AffectsBipTIsCorrect == Spec => []ClosureKeepsCopies
<1>1. ASSUME Inv, Done
      PROVE  affectsBipT = UNION {{a[2]} \X {m[2] : m \in Chained(a)} : a \in {e[1] : e \in affects_bip_graph}}
  <2>1. ExplosionInv /\ ClosureInv
    BY <1>1 DEF Inv, Done
  <2>2. affects_bip_graph \in SUBSET (Copies(prog) \X Copies(prog)) /\ NoNode \notin Copies(prog)
    BY <2>1, ClosureIsOfCopies
  <2>3. IsProgram(prog)
    BY <2>1, ProgramsAre DEF ExplosionInv
  <2>4. ASSUME NEW a \in Sources
        PROVE  a # NoNode /\ Joins(a) = {a[2]} \X {m[2] : m \in Chained(a)}
    <3>1. a \in Copies(prog)
      BY <2>2, LeadsAre
    <3>2. Chained(a) = Leads(a)
      BY <2>2, <2>3, <3>1, ChainedIs DEF Leads
    <3> QED
      BY <2>2, <3>1, <3>2 DEF Joins
  <2>5. \A a \in Sources : Joins(a) \subseteq affectsBipT
    BY <1>1, <2>1, <2>4 DEF ClosureInv, Done
  <2>6. affectsBipT = UNION {Joins(a) : a \in Sources}
    BY <2>1, <2>5 DEF ClosureInv
  <2>7. UNION {Joins(a) : a \in Sources} = UNION {{a[2]} \X {m[2] : m \in Chained(a)} : a \in Sources}
    BY <2>4
  <2> QED
    BY <2>6, <2>7 DEF Sources
<1>2. Inv => ClosureKeepsCopies
  BY <1>1 DEF ClosureKeepsCopies
<1> QED
  BY <1>2, InvHolds, PTL
=============================================================================
