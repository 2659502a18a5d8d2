------------------------ MODULE DesignExtractorProofs ------------------------
(***************************************************************************)
(* The two directions of every relation of the PKB agree, whatever tree is *)
(* extracted: each insertion keeps the agreement, and each handler changes *)
(* the tables by insertions only.  And when the extraction is over the     *)
(* tables hold the relations of the program: graphs and sequences first,   *)
(* then the tree, the flow of control, the calls, the two searches over    *)
(* the tree, and what each handler leaves to the next.  They hold the      *)
(* effects of the program too: what a statement does is known without the  *)
(* calls first, and then for more and more procedures, callees first.  Its *)
(* entities they hold because the search that goes to every node enters    *)
(* exactly what is written there.                                          *)
(***************************************************************************)
EXTENDS DesignExtractor, FiniteSetTheorems, WellFoundedInduction, TLAPS

\* A set of pairs is inserted on both sides or on none.
LEMMA InsertPairsAgrees ==
  ASSUME NEW t, NEW pairs, Agree(t)
  PROVE  Agree(InsertPairs(t, pairs))
BY SMTT(30) DEF Agree, InsertPairs, Swapped

\* A name is inserted for a statement that has none.
LEMMA InsertOneAgrees ==
  ASSUME NEW t, NEW key, NEW value, Agree(t), IsSingle(t.table)
  PROVE  Agree(InsertOne(t, key, value)) /\ IsSingle(InsertOne(t, key, value).table)
<1>1. CASE key \in KeysOf(t.table)
  BY <1>1 DEF InsertOne
<1>2. CASE key \notin KeysOf(t.table)
  <2>1. InsertOne(t, key, value) = InsertPairs(t, {<<key, value>>})
    BY <1>2 DEF InsertOne
  <2>2. InsertPairs(t, {<<key, value>>}).table = t.table \cup {<<key, value>>}
    BY DEF InsertPairs
  <2>3. \A p \in t.table : p[1] # key
    BY <1>2 DEF KeysOf
  <2>4. IsSingle(t.table \cup {<<key, value>>})
    BY <2>3 DEF IsSingle
  <2> QED
    BY <2>1, <2>2, <2>4, InsertPairsAgrees
<1> QED
  BY <1>1, <1>2

LEMMA NoneBetween ==
  ASSUME NEW a \in Int, NEW b \in Int, NEW c \in Int, NEW d \in Int, a < b, c < d, a = c \/ b = d,
         ~(a < d /\ d < b), ~(c < b /\ b < d), ~(a < c /\ c < b), ~(c < a /\ a < d)
  PROVE  a = c /\ b = d
OBVIOUS

\* Consecutive statements of a list: of two pairs with the same first or the
\* same second statement neither is between the other two.
LEMMA ConsecutiveIsSingle ==
  ASSUME NEW S \in SUBSET Int,
         NEW pairs, pairs \subseteq {p \in S \X S : p[1] < p[2] /\ ~\E t \in S : p[1] < t /\ t < p[2]}
  PROVE  IsSingle(pairs) /\ IsSingle(Swapped(pairs))
<1>1. ASSUME NEW p \in pairs, NEW q \in pairs, p[1] = q[1] \/ p[2] = q[2]
      PROVE  p = q
  <2>1. p = <<p[1], p[2]>> /\ q = <<q[1], q[2]>> /\ {p[1], p[2], q[1], q[2]} \subseteq S
    OBVIOUS
  <2>2. p[1] < p[2] /\ q[1] < q[2] /\ ~(p[1] < q[2] /\ q[2] < p[2]) /\ ~(q[1] < p[2] /\ p[2] < q[2])
    BY <2>1
  <2>3. ~(p[1] < q[1] /\ q[1] < p[2]) /\ ~(q[1] < p[1] /\ p[1] < q[2])
    BY <2>1
  <2>4. p[1] = q[1] /\ p[2] = q[2]
    BY <1>1, <2>1, <2>2, <2>3, NoneBetween
  <2> QED
    BY <2>1, <2>4
<1>2. \A p \in pairs : p = <<p[1], p[2]>>
  OBVIOUS
<1>3. IsSingle(pairs)
  BY <1>1 DEF IsSingle
<1>4. ASSUME NEW u \in Swapped(pairs), NEW v \in Swapped(pairs), u[1] = v[1]
      PROVE  u = v
  <2>1. PICK p \in pairs : u = <<p[2], p[1]>>
    BY <1>4 DEF Swapped
  <2>2. PICK q \in pairs : v = <<q[2], q[1]>>
    BY <1>4 DEF Swapped
  <2>3. p = q
    BY <1>1, <1>4, <2>1, <2>2
  <2> QED
    BY <2>1, <2>2, <2>3
<1> QED
  BY <1>3, <1>4 DEF IsSingle

\* What is followed or follows already is refused, and the rest is single.
LEMMA InsertFollowsAgrees ==
  ASSUME NEW t, NEW pairs, Agree(t), IsSingle(t.table), IsSingle(t.inverse),
         IsSingle(pairs), IsSingle(Swapped(pairs))
  PROVE  /\ Agree(InsertFollows(t, pairs))
         /\ IsSingle(InsertFollows(t, pairs).table) /\ IsSingle(InsertFollows(t, pairs).inverse)
<1> DEFINE new == {p \in pairs : p[1] \notin KeysOf(t.table) /\ p[2] \notin KeysOf(t.inverse) /\ InTextOrder(p)}
<1>1. InsertFollows(t, pairs) = InsertPairs(t, new)
  BY DEF InsertFollows
<1>2. InsertPairs(t, new).table = t.table \cup new /\ InsertPairs(t, new).inverse = t.inverse \cup Swapped(new \ t.table)
  BY DEF InsertPairs
<1>3. Agree(InsertPairs(t, new))
  BY InsertPairsAgrees
<1>4. IsSingle(t.table \cup new)
  <2>1. \A p \in new, q \in t.table : p[1] # q[1]
    BY DEF KeysOf
  <2> QED
    BY <2>1 DEF IsSingle
<1>5. IsSingle(t.inverse \cup Swapped(new \ t.table))
  <2>1. \A u \in Swapped(new \ t.table) : u \in Swapped(pairs) /\ u[1] \notin KeysOf(t.inverse)
    BY DEF Swapped
  <2>2. \A u \in Swapped(new \ t.table), v \in t.inverse : u[1] # v[1]
    BY <2>1 DEF KeysOf
  <2> QED
    BY <2>1, <2>2 DEF IsSingle
<1> QED
  BY <1>1, <1>2, <1>3, <1>4, <1>5

\* What has a parent already is refused.
LEMMA InsertParentAgrees ==
  ASSUME NEW t, NEW pairs, Agree(t), IsSingle(t.inverse), IsSingle(Swapped(pairs))
  PROVE  Agree(InsertParent(t, pairs)) /\ IsSingle(InsertParent(t, pairs).inverse)
<1> DEFINE new == {p \in pairs : p[2] \notin KeysOf(t.inverse) /\ InTextOrder(p)}
<1>1. InsertParent(t, pairs) = InsertPairs(t, new)
  BY DEF InsertParent
<1>2. InsertPairs(t, new).inverse = t.inverse \cup Swapped(new \ t.table)
  BY DEF InsertPairs
<1>3. IsSingle(t.inverse \cup Swapped(new \ t.table))
  <2>1. \A u \in Swapped(new \ t.table) : u \in Swapped(pairs) /\ u[1] \notin KeysOf(t.inverse)
    BY DEF Swapped
  <2>2. \A u \in Swapped(new \ t.table), v \in t.inverse : u[1] # v[1]
    BY <2>1 DEF KeysOf
  <2> QED
    BY <2>1, <2>2 DEF IsSingle
<1> QED
  BY <1>1, <1>2, <1>3, InsertPairsAgrees

LEMMA AgreesWithoutVariables ==
  ASSUME NEW t, NEW s, NEW r, AgreeOnVariables(t),
         r = [table |-> t.table \cup {<<s, "">>}, inverse |-> t.inverse]
  PROVE  AgreeOnVariables(r)
<1>1. r.table = t.table \cup {<<s, "">>} /\ r.inverse = t.inverse
  OBVIOUS
<1>2. ASSUME NEW e, e = <<s, "">>
      PROVE  {p \in t.table \cup {e} : p[2] # ""} = {p \in t.table : p[2] # ""}
  <2>1. e[2] = ""
    BY <1>2
  <2> QED
    BY <2>1
<1> QED
  BY <1>1, <1>2 DEF AgreeOnVariables

LEMMA AgreesWithVariables ==
  ASSUME NEW t, NEW new, NEW r, AgreeOnVariables(t),
         r = [table |-> t.table \cup new, inverse |-> t.inverse \cup Swapped(new \ t.table)]
  PROVE  AgreeOnVariables(r)
<1>1. r.table = t.table \cup new /\ r.inverse = t.inverse \cup Swapped(new \ t.table)
  OBVIOUS
<1>2. ASSUME NEW pairs
      PROVE  {u \in Swapped(pairs) : u[1] # ""} = Swapped({p \in pairs : p[2] # ""})
  <2>1. \A p : <<p[2], p[1]>>[1] = p[2]
    OBVIOUS
  <2> QED
    BY <2>1 DEF Swapped
<1>3. {p \in t.table \cup new : p[2] # ""} = {p \in t.table : p[2] # ""} \cup {p \in new \ t.table : p[2] # ""}
  OBVIOUS
<1>4. \A pairs, others : Swapped(pairs \cup others) = Swapped(pairs) \cup Swapped(others)
  BY DEF Swapped
<1>5. {u \in r.inverse : u[1] # ""} = {u \in t.inverse : u[1] # ""} \cup {u \in Swapped(new \ t.table) : u[1] # ""}
  BY <1>1
<1> DEFINE old == {p \in t.table : p[2] # ""}
           fresh == {p \in new \ t.table : p[2] # ""}
<1>6. {u \in t.inverse : u[1] # ""} = Swapped(old) /\ {u \in Swapped(new \ t.table) : u[1] # ""} = Swapped(fresh)
  BY <1>2 DEF AgreeOnVariables
<1>7. {u \in r.inverse : u[1] # ""} = Swapped(old \cup fresh)
  <2>1. Swapped(old \cup fresh) = Swapped(old) \cup Swapped(fresh)
    BY <1>4
  <2> DEFINE before == {u \in t.inverse : u[1] # ""}
             added == {u \in Swapped(new \ t.table) : u[1] # ""}
  <2>2. {u \in r.inverse : u[1] # ""} = before \cup added /\ before = Swapped(old) /\ added = Swapped(fresh)
    BY <1>5, <1>6
  <2> HIDE DEF old, fresh, before, added
  <2> QED
    BY <2>1, <2>2
<1>8. {p \in r.table : p[2] # ""} = old \cup fresh
  BY <1>1, <1>3
<1> HIDE DEF old, fresh
<1> QED
  BY <1>7, <1>8 DEF AgreeOnVariables

\* A condition without variables is left out of the inverse map.
LEMMA InsertContainerAgrees ==
  ASSUME NEW t, NEW s, NEW vars, AgreeOnVariables(t)
  PROVE  AgreeOnVariables(InsertContainer(t, s, vars))
<1>1. CASE s <= 0
  BY <1>1 DEF InsertContainer
<1>2. CASE ~(s <= 0) /\ vars = {}
  <2>1. InsertContainer(t, s, vars) = [table |-> t.table \cup {<<s, "">>}, inverse |-> t.inverse]
    BY <1>2 DEF InsertContainer
  <2> QED
    BY <2>1, AgreesWithoutVariables
<1>3. CASE ~(s <= 0) /\ vars # {}
  <2>1. InsertContainer(t, s, vars) = [table |-> t.table \cup ({s} \X vars),
                                       inverse |-> t.inverse \cup Swapped(({s} \X vars) \ t.table)]
    BY <1>3 DEF InsertContainer, InsertPairs
  <2> QED
    BY <2>1, AgreesWithVariables
<1> QED
  BY <1>1, <1>2, <1>3
-----------------------------------------------------------------------------
TableNames == DOMAIN NoTables

Agreeing(k) == DOMAIN k = TableNames /\ TablesAgree(k)

LEMMA NoTablesAgree == Agreeing(NoTables)
<1>1. Agree(NoPairs) /\ AgreeOnVariables(NoPairs) /\ IsSingle(NoPairs.table) /\ IsSingle(NoPairs.inverse)
  BY DEF NoPairs, Agree, AgreeOnVariables, IsSingle, Swapped
<1> QED
  BY <1>1 DEF Agreeing, TableNames, NoTables, TablesAgree

\* Of tables that are never inverted nothing is asked.
LEMMA OtherTables ==
  ASSUME NEW k, Agreeing(k), NEW f \in {"stmt", "var", "const", "read", "print", "proc"}, NEW new
  PROVE  Agreeing([k EXCEPT ![f] = new])
BY DEF Agreeing, TableNames, NoTables, TablesAgree

LEMMA PairTables ==
  ASSUME NEW k, Agreeing(k), NEW new, Agree(new),
         NEW f \in {"followsT", "parentT", "next", "nextT", "calls", "callsT", "uses", "usesP", "modifies", "modifiesP"}
  PROVE  Agreeing([k EXCEPT ![f] = new])
BY DEF Agreeing, TableNames, NoTables, TablesAgree

LEMMA NameTables ==
  ASSUME NEW k, Agreeing(k), NEW f \in {"entity", "callStmts"}, NEW new, Agree(new), IsSingle(new.table)
  PROVE  Agreeing([k EXCEPT ![f] = new])
BY DEF Agreeing, TableNames, NoTables, TablesAgree

LEMMA ContainerTables ==
  ASSUME NEW k, Agreeing(k), NEW f \in {"if", "while"}, NEW new, AgreeOnVariables(new)
  PROVE  Agreeing([k EXCEPT ![f] = new])
BY DEF Agreeing, TableNames, NoTables, TablesAgree

LEMMA AssignTables ==
  ASSUME NEW k, Agreeing(k), NEW s, NEW var, NEW rhs
  PROVE  Agreeing([k EXCEPT !.assign = InsertAssign(k.assign, s, var, rhs)])
<1>1. Agree(k.assign.assigned) /\ IsSingle(k.assign.assigned.table)
  BY DEF Agreeing, TablesAgree
<1> DEFINE new == InsertAssign(k.assign, s, var, rhs)
<1>2. Agree(new.assigned) /\ IsSingle(new.assigned.table)
  <2>1. CASE new = k.assign
    BY <2>1, <1>1
  <2>2. CASE new = [assigned |-> InsertOne(k.assign.assigned, s, var), rhs |-> k.assign.rhs \cup {<<s, rhs>>}]
    <3>1. new.assigned = InsertOne(k.assign.assigned, s, var)
      BY <2>2
    <3> QED
      BY <3>1, <1>1, InsertOneAgrees
  <2> QED
    BY <2>1, <2>2 DEF InsertAssign
<1> QED
  BY <1>2 DEF Agreeing, TableNames, NoTables, TablesAgree

LEMMA FollowsTables ==
  ASSUME NEW k, Agreeing(k), NEW new, Agree(new), IsSingle(new.table), IsSingle(new.inverse)
  PROVE  Agreeing([k EXCEPT !.follows = new])
BY DEF Agreeing, TableNames, NoTables, TablesAgree

LEMMA ParentTables ==
  ASSUME NEW k, Agreeing(k), NEW new, Agree(new), IsSingle(new.inverse)
  PROVE  Agreeing([k EXCEPT !.parent = new])
BY DEF Agreeing, TableNames, NoTables, TablesAgree
-----------------------------------------------------------------------------
(* The handlers *)

LEMMA StmtVarsAgree ==
  ASSUME NEW t, NEW pairs, Agree(t)
  PROVE  /\ Agree(InsertStmtVars(t, pairs)) /\ Agree(InsertNames(t, pairs))
         /\ Agree(InsertNext(t, pairs)) /\ Agree(InsertNextT(t, pairs))
         /\ Agree(InsertFollowsT(t, pairs)) /\ Agree(InsertParentT(t, pairs))
BY InsertPairsAgrees DEF InsertStmtVars, InsertNames, InsertNext, InsertNextT, InsertFollowsT, InsertParentT

LEMMA ProcedureAgrees ==
  ASSUME NEW k, Agreeing(k), NEW n
  PROVE  Agreeing(ExtractCallRelation(ExtractProcedure(k, n), n))
<1>1. \A l : Agreeing(l) => Agreeing(ExtractProcedure(l, n))
  BY OtherTables DEF ExtractProcedure
<1>2. \A l : Agreeing(l) => Agree(l.calls)
  BY DEF Agreeing, TablesAgree
<1>3. \A l : Agreeing(l) => Agreeing(ExtractCallRelation(l, n))
  BY <1>2, PairTables, StmtVarsAgree DEF ExtractCallRelation
<1> QED
  BY <1>1, <1>3

LEMMA FollowsAgrees ==
  ASSUME NEW k, Agreeing(k), NEW list, DOMAIN ast \subseteq Nat
  PROVE  Agreeing(ExtractFollows(k, list))
<1> DEFINE stmts == Children(ast, list)
           ordered == {p \in stmts \X stmts : p[1] < p[2]}
           next == {p \in ordered : ~\E t \in stmts : p[1] < t /\ t < p[2]}
<1>1. stmts \subseteq Int
  BY DEF Children
<1>2. next \subseteq {p \in stmts \X stmts : p[1] < p[2] /\ ~\E t \in stmts : p[1] < t /\ t < p[2]}
  OBVIOUS
<1>3. IsSingle(next) /\ IsSingle(Swapped(next))
  <2> HIDE DEF stmts, next
  <2> QED
    BY <1>1, <1>2, ConsecutiveIsSingle
<1>4. Agree(k.follows) /\ IsSingle(k.follows.table) /\ IsSingle(k.follows.inverse) /\ Agree(k.followsT)
  BY DEF Agreeing, TablesAgree
<1> DEFINE f == InsertFollows(k.follows, next)
           ft == InsertFollowsT(k.followsT, ordered)
           with == [k EXCEPT !.follows = f]
<1>5. Agree(f) /\ IsSingle(f.table) /\ IsSingle(f.inverse)
  BY <1>3, <1>4, InsertFollowsAgrees
<1>6. Agree(ft)
  BY <1>4, StmtVarsAgree
<1>7. ExtractFollows(k, list) = [with EXCEPT !.followsT = ft]
  <2>1. with.followsT = k.followsT
    BY DEF Agreeing, TableNames, NoTables
  <2> QED
    BY <2>1 DEF ExtractFollows
<1>8. Agreeing(with)
  BY <1>5, FollowsTables
<1>9. \A l, new : Agreeing(l) /\ Agree(new) => Agreeing([l EXCEPT !.followsT = new])
  BY PairTables
<1> HIDE DEF with, ft
<1> QED
  BY <1>6, <1>7, <1>8, <1>9

LEMMA AssignIfWhileAgrees ==
  ASSUME NEW k, Agreeing(k), NEW s
  PROVE  Agreeing(ExtractAssignIfWhile(k, s))
<1>2. AgreeOnVariables(k.if) /\ AgreeOnVariables(k.while)
  BY DEF Agreeing, TablesAgree
<1> DEFINE assigned == [k EXCEPT !.assign = InsertAssign(k.assign, s, ast[s].about[1], ast[s].about[2])]
           if == [k EXCEPT !.if = InsertContainer(k.if, s, VariablesIn(s))]
           while == [k EXCEPT !.while = InsertContainer(k.while, s, VariablesIn(s))]
<1>3. Agreeing(assigned)
  BY AssignTables
<1>4. Agreeing(if) /\ Agreeing(while)
  <2>1. AgreeOnVariables(InsertContainer(k.if, s, VariablesIn(s)))
    BY <1>2, InsertContainerAgrees
  <2>2. AgreeOnVariables(InsertContainer(k.while, s, VariablesIn(s)))
    BY <1>2, InsertContainerAgrees
  <2>3. \A new : AgreeOnVariables(new) => Agreeing([k EXCEPT !.if = new]) /\ Agreeing([k EXCEPT !.while = new])
    BY ContainerTables
  <2> QED
    BY <2>1, <2>2, <2>3
<1>5. ExtractAssignIfWhile(k, s) \in {assigned, if, while, k}
  <2>1. CASE ast[s].kind = "assign"
    BY <2>1 DEF ExtractAssignIfWhile
  <2>2. CASE ast[s].kind = "if"
    BY <2>2 DEF ExtractAssignIfWhile
  <2>3. CASE ast[s].kind = "while"
    BY <2>3 DEF ExtractAssignIfWhile
  <2>4. CASE ast[s].kind \notin {"assign", "if", "while"}
    BY <2>4 DEF ExtractAssignIfWhile
  <2> QED
    BY <2>1, <2>2, <2>3, <2>4
<1> QED
  BY <1>3, <1>4, <1>5

LEMMA ReadAndPrintAgrees ==
  ASSUME NEW k, Agreeing(k), NEW s
  PROVE  Agreeing(ExtractReadAndPrint(k, s))
<1>1. \A new : Agreeing([k EXCEPT !.read = new]) /\ Agreeing([k EXCEPT !.print = new])
  BY OtherTables
<1>2. CASE ast[s].kind = "read"
  BY <1>1, <1>2 DEF ExtractReadAndPrint
<1>3. CASE ast[s].kind = "print"
  BY <1>1, <1>3 DEF ExtractReadAndPrint
<1>4. CASE ast[s].kind \notin {"read", "print"}
  BY <1>4 DEF ExtractReadAndPrint
<1> QED
  BY <1>2, <1>3, <1>4

LEMMA EntityAndCallAgrees ==
  ASSUME NEW k, Agreeing(k), NEW s
  PROVE  Agreeing(ExtractEntityAndCall(k, s))
<1>1. \A t, name : Agree(t) /\ IsSingle(t.table) =>
                   Agree(InsertStmtName(t, s, name)) /\ IsSingle(InsertStmtName(t, s, name).table)
  BY InsertOneAgrees DEF InsertStmtName
<1>2. \A l : Agreeing(l) => /\ Agree(l.entity) /\ IsSingle(l.entity.table)
                            /\ Agree(l.callStmts) /\ IsSingle(l.callStmts.table)
  BY DEF Agreeing, TablesAgree
<1>3. \A l, new : Agreeing(l) /\ Agree(new) /\ IsSingle(new.table) =>
                  Agreeing([l EXCEPT !.entity = new]) /\ Agreeing([l EXCEPT !.callStmts = new])
  BY NameTables
<1>4. \A l, name : Agreeing(l) => /\ Agreeing([l EXCEPT !.entity = InsertStmtName(l.entity, s, name)])
                                  /\ Agreeing([l EXCEPT !.callStmts = InsertStmtName(l.callStmts, s, name)])
  BY <1>1, <1>2, <1>3
<1> QED
  BY <1>4 DEF ExtractEntityAndCall

LEMMA UsesAgrees ==
  ASSUME NEW k, Agreeing(k), NEW s
  PROVE  Agreeing(ExtractUses(k, s))
<1>1. \A pairs : Agree(InsertStmtVars(k.uses, pairs))
  BY StmtVarsAgree DEF Agreeing, TablesAgree
<1>2. \A new : Agree(new) => Agreeing([k EXCEPT !.uses = new])
  BY PairTables
<1> QED
  BY <1>1, <1>2 DEF ExtractUses

LEMMA StatementAgrees ==
  ASSUME NEW k, Agreeing(k), NEW s
  PROVE  Agreeing(ExtractStatement(k, s))
BY ReadAndPrintAgrees, AssignIfWhileAgrees, UsesAgrees, EntityAndCallAgrees DEF ExtractStatement

LEMMA LeavesAgree ==
  ASSUME NEW k, Agreeing(k), NEW s
  PROVE  Agreeing(ExtractLeaves(k, s))
<1>1. \A l, new : Agreeing(l) => Agreeing([l EXCEPT !.var = new])
  BY OtherTables
<1>2. \A l, new : Agreeing(l) => Agreeing([l EXCEPT !.const = new])
  BY OtherTables
<1>3. ASSUME NEW v, NEW c
      PROVE  Agreeing([k EXCEPT !.var = v, !.const = c])
  <2>1. [k EXCEPT !.var = v, !.const = c] = [[k EXCEPT !.var = v] EXCEPT !.const = c]
    BY DEF Agreeing, TableNames, NoTables
  <2> QED
    BY <1>1, <1>2, <2>1
<1> QED
  BY <1>3 DEF ExtractLeaves
-----------------------------------------------------------------------------
LEMMA ParentsAgree ==
  ASSUME NEW k, Agreeing(k)
  PROVE  Agreeing([k EXCEPT !.parent = InsertParent(@, ParentEntries), !.parentT = InsertParentT(@, ParentTEntries)])
<1> DEFINE p == InsertParent(k.parent, ParentEntries)
           pt == InsertParentT(k.parentT, ParentTEntries)
           with == [k EXCEPT !.parent = p]
<1>1. IsSingle(Swapped(ParentEntries))
  <2>1. \A u \in Swapped(ParentEntries) : u = <<u[1], ParentOf(ast, u[1])>>
    BY DEF Swapped, ParentEntries
  <2> QED
    BY <2>1 DEF IsSingle
<1>2. Agree(k.parent) /\ IsSingle(k.parent.inverse) /\ Agree(k.parentT)
  BY DEF Agreeing, TablesAgree
<1>3. Agree(p) /\ IsSingle(p.inverse) /\ Agree(pt)
  BY <1>1, <1>2, InsertParentAgrees, StmtVarsAgree
<1>4. Agreeing(with)
  BY <1>3, ParentTables
<1>5. [k EXCEPT !.parent = InsertParent(@, ParentEntries), !.parentT = InsertParentT(@, ParentTEntries)]
      = [with EXCEPT !.parentT = pt]
  BY DEF Agreeing, TableNames, NoTables
<1>6. \A l, new : Agreeing(l) /\ Agree(new) => Agreeing([l EXCEPT !.parentT = new])
  BY PairTables
<1> HIDE DEF with, pt
<1> QED
  BY <1>3, <1>4, <1>5, <1>6

LEMMA NextAgrees ==
  ASSUME NEW k, Agreeing(k), NEW E, NEW F
  PROVE  Agreeing([k EXCEPT !.next = InsertNext(@, E), !.nextT = InsertNextT(@, F)])
<1> DEFINE n == InsertNext(k.next, E)
           nt == InsertNextT(k.nextT, F)
           with == [k EXCEPT !.next = n]
<1>1. Agree(n) /\ Agree(nt)
  BY StmtVarsAgree DEF Agreeing, TablesAgree
<1>2. \A l, new : Agreeing(l) /\ Agree(new) => Agreeing([l EXCEPT !.next = new]) /\ Agreeing([l EXCEPT !.nextT = new])
  BY PairTables
<1>3. [k EXCEPT !.next = InsertNext(@, E), !.nextT = InsertNextT(@, F)] = [with EXCEPT !.nextT = nt]
  BY DEF Agreeing, TableNames, NoTables
<1>4. Agreeing(with)
  BY <1>1, <1>2
<1> HIDE DEF with, nt
<1> QED
  BY <1>1, <1>2, <1>3, <1>4

LEMMA PropagationAgrees ==
  ASSUME NEW k, Agreeing(k), NEW E, NEW F
  PROVE  /\ Agreeing([k EXCEPT !.usesP = InsertNames(@, E), !.uses = InsertStmtVars(@, F)])
         /\ Agreeing([k EXCEPT !.modifiesP = InsertNames(@, E), !.modifies = InsertStmtVars(@, F)])
<1>1. \A l : Agreeing(l) => Agree(l.usesP) /\ Agree(l.uses) /\ Agree(l.modifiesP) /\ Agree(l.modifies)
  BY DEF Agreeing, TablesAgree
<1>2. \A l, new : Agreeing(l) /\ Agree(new) =>
                  /\ Agreeing([l EXCEPT !.usesP = new]) /\ Agreeing([l EXCEPT !.uses = new])
                  /\ Agreeing([l EXCEPT !.modifiesP = new]) /\ Agreeing([l EXCEPT !.modifies = new])
  BY PairTables
<1>3. ASSUME NEW vp, NEW v, Agree(vp), Agree(v)
      PROVE  Agreeing([k EXCEPT !.usesP = vp, !.uses = v]) /\ Agreeing([k EXCEPT !.modifiesP = vp, !.modifies = v])
  <2>1. [k EXCEPT !.usesP = vp, !.uses = v] = [[k EXCEPT !.usesP = vp] EXCEPT !.uses = v]
    BY DEF Agreeing, TableNames, NoTables
  <2>2. [k EXCEPT !.modifiesP = vp, !.modifies = v] = [[k EXCEPT !.modifiesP = vp] EXCEPT !.modifies = v]
    BY DEF Agreeing, TableNames, NoTables
  <2> QED
    BY <1>2, <1>3, <2>1, <2>2
<1>4. /\ Agree(InsertNames(k.usesP, E)) /\ Agree(InsertStmtVars(k.uses, F))
      /\ Agree(InsertNames(k.modifiesP, E)) /\ Agree(InsertStmtVars(k.modifies, F))
  BY <1>1, StmtVarsAgree
<1> QED
  BY <1>3, <1>4
-----------------------------------------------------------------------------
IInv == Agreeing(pkb) /\ (stage \notin Reading \ {"parsed"} => IsParsed)

\* The meaning of a tree is the tree's.
LEMMA SameTreeIsParsed ==
  ASSUME ast' = ast, pnames' = pnames, IsParsed
  PROVE  IsParsed'
<1>1. Stmts' = Stmts
  BY DEF Stmts
<1>2. Calls' = Calls
  BY DEF Calls, CallStmts, ProcOf, Stmts
<1>3. {Procedure(n) : n \in DOMAIN pnames}' = {Procedure(n) : n \in DOMAIN pnames}
  OBVIOUS
<1>4. \A s : (UNION {ToSet(ListsBelow(ast, p)) : p \in 1..(s - 1)})' = UNION {ToSet(ListsBelow(ast, p)) : p \in 1..(s - 1)}
  OBVIOUS
<1>5. (/\ ast \in Seq(ToSet(ast)) /\ pnames \in Seq(ToSet(pnames))
       /\ IsAst(ast)
       /\ ProceduresOf(ast) = DOMAIN pnames
       /\ IsInjective(pnames) /\ "" \notin ToSet(pnames))'
  BY DEF IsParsed
<1>6. (Calls \subseteq ToSet(pnames) \X ToSet(pnames))' /\ (\A p \in ToSet(pnames) : p \notin ReachableFrom(Calls, ToSet(pnames), p))'
  BY <1>2 DEF IsParsed
<1>7. (\A s \in Stmts : ast[s].kind \in {"assign", "read", "print", "call", "while", "if"})'
  BY <1>1 DEF IsParsed
<1>8. (\A s \in Stmts : ast[s].list \in {Procedure(n) : n \in DOMAIN pnames}
                                        \cup UNION {ToSet(ListsBelow(ast, p)) : p \in 1..(s - 1)})'
  <2>1. \A s \in Stmts : ast[s].list \in {Procedure(n) : n \in DOMAIN pnames}
                                        \cup UNION {ToSet(ListsBelow(ast, p)) : p \in 1..(s - 1)}
    BY DEF IsParsed
  <2> QED
    BY <1>1, <1>3, <1>4, <2>1
<1>9. (\A s \in Stmts : "" \notin NamesIn(s) \cup LeavesIn(s))'
  <2>1. \A s : NamesIn(s)' = NamesIn(s) /\ LeavesIn(s)' = LeavesIn(s)
    BY DEF NamesIn, LeavesIn, ExpressionsOf
  <2> QED
    BY <1>1, <2>1 DEF IsParsed
<1> QED
  BY <1>5, <1>6, <1>7, <1>8, <1>9 DEF IsParsed

LEMMA HandlersKeepTree ==
  ASSUME ExtractNextStep
  PROVE  ast' = ast /\ pnames' = pnames /\ stage \notin Reading
<1>1. \A h \in {"StatementHandler", "ParentHandler", "ModifiesHandler", "CFGHandler", "connecting", "NextHandler",
                "BreadthFirstTraversal", "CallHandler", "UsesP", "ModifiesP"} :
        During(h) => ast' = ast /\ pnames' = pnames /\ stage \notin Reading
  BY DEF During, Reading
<1> QED
  BY <1>1 DEF ExtractNextStep, ExtractStmtNums, ExtractParentAndParentT, ExtractModifiesWithoutCalls, BeginCFG,
              ConnectCFG, EndCFG, ExtractNext, TakeProcedure, TakeStatementList, TakeStatement, TakeLeaves, TakeNode,
              ThrowOutOfRange, EndTraversal, ExtractCallT, PropagateUses, PropagateModifies, EndPropagation

\* The handlers keep the tree.
LEMMA HandlersKeepAgreement ==
  ASSUME IInv, ExtractNextStep
  PROVE  IInv'
<1>0. ast' = ast /\ pnames' = pnames /\ IsParsed
  BY HandlersKeepTree DEF IInv
<1>1. IsParsed' /\ DOMAIN ast \subseteq Nat
  <2>1. ast \in Seq(ToSet(ast))
    BY <1>0 DEF IsParsed
  <2> HIDE DEF ToSet
  <2> QED
    BY <1>0, <2>1, SameTreeIsParsed
<1> USE DEF IInv
<1>2. CASE ExtractStmtNums
  <2>1. ast' = ast /\ pkb' = [pkb EXCEPT !.stmt = @ \cup DOMAIN ast]
    BY <1>2 DEF ExtractStmtNums, During
  <2> QED
    BY <1>1, <2>1, OtherTables DEF Agreeing, TableNames
<1>3. CASE ExtractParentAndParentT
  BY <1>1, <1>3, ParentsAgree DEF ExtractParentAndParentT, During, Agreeing, TableNames
<1>4. CASE ExtractModifiesWithoutCalls
  <2> DEFINE new == InsertStmtVars(pkb.modifies, UNION {{s} \X ModifiedBy[s] : s \in DOMAIN ast})
  <2>1. ast' = ast /\ pkb' = [pkb EXCEPT !.modifies = new]
    BY <1>4 DEF ExtractModifiesWithoutCalls, During
  <2>2. Agree(new)
    BY StmtVarsAgree DEF Agreeing, TablesAgree
  <2>3. Agreeing([pkb EXCEPT !.modifies = new])
    BY <2>2, PairTables
  <2> QED
    BY <1>1, <2>1, <2>3 DEF Agreeing, TableNames
<1>5. CASE BeginCFG \/ ConnectCFG \/ EndCFG \/ ThrowOutOfRange \/ EndTraversal \/ EndPropagation
  <2>1. ast' = ast /\ pkb' = pkb
    BY <1>5 DEF BeginCFG, ConnectCFG, EndCFG, ThrowOutOfRange, EndTraversal, EndPropagation, During, Terminate, extractVars
  <2> QED
    BY <1>1, <2>1 DEF Agreeing, TableNames
<1>6. CASE ExtractNext
  BY <1>1, <1>6, NextAgrees DEF ExtractNext, During, Agreeing, TableNames
<1>7. CASE TakeProcedure
  BY <1>1, <1>7, ProcedureAgrees DEF TakeProcedure, TakeNode, During, Agreeing, TableNames
<1>8. CASE TakeStatementList
  BY <1>1, <1>8, FollowsAgrees DEF TakeStatementList, TakeNode, During, Agreeing, TableNames
<1>9. CASE TakeStatement
  BY <1>1, <1>9, StatementAgrees DEF TakeStatement, TakeNode, During, Agreeing, TableNames
<1>10. CASE TakeLeaves
  BY <1>1, <1>10, LeavesAgree DEF TakeLeaves, TakeNode, During, Agreeing, TableNames
<1>11. CASE ExtractCallT
  <2> DEFINE new == InsertNames(pkb.callsT, UNION {{p} \X GetDescendantsOf(p) : p \in KeysOf(call_graph)})
  <2>1. ast' = ast /\ pkb' = [pkb EXCEPT !.callsT = new]
    BY <1>11 DEF ExtractCallT, During
  <2>2. Agree(new)
    BY StmtVarsAgree DEF Agreeing, TablesAgree
  <2>3. Agreeing([pkb EXCEPT !.callsT = new])
    BY <2>2, PairTables
  <2> QED
    BY <1>1, <2>1, <2>3 DEF Agreeing, TableNames
<1>12. CASE PropagateUses
  <2>1. PICK p \in NextOf(left) :
               pkb' = [pkb EXCEPT !.usesP = InsertNames(@, {p} \X VarsOf(pkb.uses, p)),
                                  !.uses = InsertStmtVars(@, WhoCalls(p) \X VarsOf(pkb.uses, p))]
    BY <1>12 DEF PropagateUses
  <2>2. ast' = ast
    BY <1>12 DEF PropagateUses, During
  <2>3. Agreeing([pkb EXCEPT !.usesP = InsertNames(@, {p} \X VarsOf(pkb.uses, p)),
                             !.uses = InsertStmtVars(@, WhoCalls(p) \X VarsOf(pkb.uses, p))])
    BY PropagationAgrees
  <2> QED
    BY <1>1, <2>1, <2>2, <2>3 DEF Agreeing, TableNames
<1>13. CASE PropagateModifies
  <2>1. PICK p \in NextOf(left) :
               pkb' = [pkb EXCEPT !.modifiesP = InsertNames(@, {p} \X VarsOf(pkb.modifies, p)),
                                  !.modifies = InsertStmtVars(@, WhoCalls(p) \X VarsOf(pkb.modifies, p))]
    BY <1>13 DEF PropagateModifies
  <2>2. ast' = ast
    BY <1>13 DEF PropagateModifies, During
  <2>3. Agreeing([pkb EXCEPT !.modifiesP = InsertNames(@, {p} \X VarsOf(pkb.modifies, p)),
                             !.modifies = InsertStmtVars(@, WhoCalls(p) \X VarsOf(pkb.modifies, p))])
    BY PropagationAgrees
  <2> QED
    BY <1>1, <2>1, <2>2, <2>3 DEF Agreeing, TableNames
<1> QED
  BY <1>2, <1>3, <1>4, <1>5, <1>6, <1>7, <1>8, <1>9, <1>10, <1>11, <1>12, <1>13 DEF ExtractNextStep

LEMMA IInvIsKept ==
  ASSUME IInv,
         \/ ExtractNextStep
         \/ stage = "parsed" /\ ExtractDesigns /\ UNCHANGED <<ast, pnames>>
         \/ ReadProgram
         \/ UNCHANGED <<stage, ast, pnames, extractVars, cfgVars>>
  PROVE  IInv'
<1>1. CASE ExtractNextStep
  BY <1>1, HandlersKeepAgreement
<1>2. CASE ReadProgram
  BY <1>2, NoTablesAgree DEF ReadProgram, IInv, Agreeing, TableNames, Reading
<1>3. CASE \/ stage = "parsed" /\ ExtractDesigns /\ UNCHANGED <<ast, pnames>>
           \/ UNCHANGED <<stage, ast, pnames, extractVars, cfgVars>>
  <2>1. ast' = ast /\ pnames' = pnames /\ pkb' = pkb /\ (stage' = stage \/ stage = "parsed")
    BY <1>3 DEF ExtractDesigns, extractVars
  <2>2. stage' \notin Reading \ {"parsed"} => IsParsed
    BY <2>1 DEF IInv, Reading
  <2> QED
    BY <2>1, <2>2, SameTreeIsParsed DEF IInv, Agreeing, TableNames
<1> QED
  BY <1>1, <1>2, <1>3

\* Every relation of the PKB answers the same from both sides, of every program
\* and after every insertion: a handler that is run on tables that agree leaves
\* tables that agree, whatever it finds in the tree.
THEOREM DirectionsAgree == ExtractSpec => []InverseTablesAgree
<1>1. ExtractInit /\ stage = "lexing" => IInv
  BY NoTablesAgree DEF ExtractInit, IInv, Reading
<1>2. IInv /\ [ExtractNextStep \/ (stage = "parsed" /\ ExtractDesigns /\ UNCHANGED <<ast, pnames>>) \/ ReadProgram]_<<stage, ast, pnames, extractVars, cfgVars>>
      => IInv'
  BY IInvIsKept
<1>3. IInv => InverseTablesAgree
  BY DEF IInv, Agreeing, InverseTablesAgree
<1> QED
  BY <1>1, <1>2, <1>3, PTL DEF ExtractSpec

LEMMA ReachableIsClosed ==
  ASSUME NEW N, NEW edges \in SUBSET (N \X N), NEW a
  PROVE  /\ Successors(edges, a) \subseteq ReachableFrom(edges, N, a)
         /\ \A m \in ReachableFrom(edges, N, a) :
              Successors(edges, m) \subseteq ReachableFrom(edges, N, a)
<1>1. \A e \in edges : e[1] \in N /\ e[2] \in N
  OBVIOUS
<1>2. Successors(edges, a) \subseteq ReachableFrom(edges, N, a)
  BY <1>1 DEF Successors, ReachableFrom, ClosedFrom
<1>3. ASSUME NEW m \in ReachableFrom(edges, N, a), NEW e \in edges, e[1] = m
      PROVE  e[2] \in ReachableFrom(edges, N, a)
  BY <1>1, <1>3 DEF ReachableFrom, ClosedFrom
<1> QED
  BY <1>2, <1>3 DEF Successors

LEMMA ReachableIsLeast ==
  ASSUME NEW N, NEW edges, NEW a, NEW S \in SUBSET N,
         Successors(edges, a) \subseteq S, \A m \in S : Successors(edges, m) \subseteq S
  PROVE  ReachableFrom(edges, N, a) \subseteq S
<1>1. ClosedFrom(edges, a, S)
  BY DEF ClosedFrom, Successors
<1> QED
  BY <1>1 DEF ReachableFrom

LEMMA ReachableIsTransitive ==
  ASSUME NEW N, NEW edges \in SUBSET (N \X N), NEW a,
         NEW b \in Successors(edges, a)
  PROVE  {b} \cup ReachableFrom(edges, N, b) \subseteq ReachableFrom(edges, N, a)
<1>1. b \in ReachableFrom(edges, N, a)
  BY ReachableIsClosed
<1>2. ReachableFrom(edges, N, a) \in SUBSET N
  BY DEF ReachableFrom
<1>3. ReachableFrom(edges, N, b) \subseteq ReachableFrom(edges, N, a)
  BY <1>1, <1>2, ReachableIsClosed, ReachableIsLeast
<1> QED
  BY <1>1, <1>3

LEMMA ReachableUnfolds ==
  ASSUME NEW N, NEW edges \in SUBSET (N \X N), NEW a
  PROVE  ReachableFrom(edges, N, a) \subseteq
           UNION {{b} \cup ReachableFrom(edges, N, b) : b \in Successors(edges, a)}
<1> DEFINE S == UNION {{b} \cup ReachableFrom(edges, N, b) : b \in Successors(edges, a)}
<1>1. S \in SUBSET N
  BY DEF Successors, ReachableFrom
<1>2. Successors(edges, a) \subseteq S
  OBVIOUS
<1>3. ASSUME NEW m \in S
      PROVE  Successors(edges, m) \subseteq S
  <2>1. PICK b \in Successors(edges, a) : m \in {b} \cup ReachableFrom(edges, N, b)
    OBVIOUS
  <2>2. Successors(edges, m) \subseteq ReachableFrom(edges, N, b)
    BY <2>1, ReachableIsClosed
  <2> QED
    BY <2>2
<1> HIDE DEF S
<1>4. ReachableFrom(edges, N, a) \subseteq S
  BY <1>1, <1>2, <1>3, ReachableIsLeast
<1> QED
  BY <1>4 DEF S
LEMMA SuccessorsAreEnds ==
  ASSUME NEW N, NEW edges \in SUBSET (N \X N), NEW a, NEW b
  PROVE  b \in Successors(edges, a) <=> <<a, b>> \in edges
<1>1. ASSUME b \in Successors(edges, a)
      PROVE  <<a, b>> \in edges
  <2>1. PICK e \in edges : e[1] = a /\ b = e[2]
    BY <1>1 DEF Successors
  <2>2. e = <<e[1], e[2]>>
    OBVIOUS
  <2> QED
    BY <2>1, <2>2
<1>2. ASSUME <<a, b>> \in edges
      PROVE  b \in Successors(edges, a)
  <2>1. <<a, b>>[1] = a /\ <<a, b>>[2] = b
    OBVIOUS
  <2> QED
    BY <1>2, <2>1 DEF Successors
<1> QED
  BY <1>1, <1>2

LEMMA LeastElement ==
  ASSUME NEW S \in SUBSET Nat, S # {}
  PROVE  \E i \in S : \A j \in S : i <= j
<1>1. PICK i \in S : \A j \in S : ~(<<j, i>> \in OpToRel(<, Nat))
  BY NatLessThanWellFounded, WFMin, Zenon
<1>2. ASSUME NEW j \in S, ~(i <= j)
      PROVE  FALSE
  <2>1. i \in Nat /\ j \in Nat /\ j < i
    BY <1>2
  <2>2. <<j, i>> \in OpToRel(<, Nat)
    BY <2>1 DEF OpToRel
  <2> QED
    BY <1>1, <2>2
<1> QED
  BY <1>2

\* What is in a finite set of numbers has a greatest, too.
LEMMA GreatestElement ==
  ASSUME NEW n \in Nat, NEW S \in SUBSET (1..n), S # {}
  PROVE  \E i \in S : \A j \in S : j <= i
<1> DEFINE T == {n - i : i \in S}
<1>1. T \in SUBSET Nat /\ T # {}
  <2>1. \A i \in S : i \in 1..n
    OBVIOUS
  <2>2. \A i \in 1..n : n - i \in Nat
    OBVIOUS
  <2> QED
    BY <2>1, <2>2
<1>2. PICK t \in T : \A u \in T : t <= u
  <2> HIDE DEF T
  <2> QED
    BY <1>1, LeastElement
<1>3. PICK i \in S : t = n - i
  OBVIOUS
<1>4. \A j \in S : n - i <= n - j
  BY <1>2, <1>3
<1> QED
  BY <1>4

\* A set in which every element has a successor is empty where the edges go
\* from greater to smaller numbers.
HasNoKnot(edges) == \A T : (\A t \in T : Successors(edges, t) \cap T # {}) => T = {}

LEMMA DescendingHasNoKnot ==
  ASSUME NEW edges, \A e \in edges : e[1] \in Nat /\ e[2] \in Nat /\ e[2] < e[1]
  PROVE  HasNoKnot(edges)
<1> SUFFICES ASSUME NEW T, \A t \in T : Successors(edges, t) \cap T # {}, T # {}
             PROVE  FALSE
  BY DEF HasNoKnot
<1>1. \A t \in T : t \in Nat /\ \E u \in T : u \in Nat /\ u < t
  BY DEF Successors
<1>2. PICK i \in T : \A j \in T : i <= j
  BY <1>1, LeastElement
<1> QED
  BY <1>1, <1>2

LEMMA AscendingHasNoKnot ==
  ASSUME NEW n \in Nat, NEW edges, \A e \in edges : e[1] \in 1..n /\ e[2] \in 1..n /\ e[1] < e[2]
  PROVE  HasNoKnot(edges)
<1> SUFFICES ASSUME NEW T, \A t \in T : Successors(edges, t) \cap T # {}, T # {}
             PROVE  FALSE
  BY DEF HasNoKnot
<1>1. \A t \in T : t \in 1..n /\ \E u \in T : u \in 1..n /\ t < u
  BY DEF Successors
<1>2. PICK i \in T : \A j \in T : j <= i
  BY <1>1, GreatestElement
<1> QED
  BY <1>1, <1>2

\* The edges turned round.
LEMMA ReachableTurnedRound ==
  ASSUME NEW N, NEW edges \in SUBSET (N \X N), NEW a \in N, NEW b \in N
  PROVE  a \in ReachableFrom(Swapped(edges), N, b) <=> b \in ReachableFrom(edges, N, a)
<1>1. ASSUME NEW E \in SUBSET (N \X N), NEW F \in SUBSET (N \X N),
             \A x, y : <<x, y>> \in E <=> <<y, x>> \in F,
             NEW x \in N, NEW y \in N, y \in ReachableFrom(E, N, x)
      PROVE  x \in ReachableFrom(F, N, y)
  <2> DEFINE S == {z \in N : x \in ReachableFrom(F, N, z)}
  <2>1. Successors(E, x) \subseteq S
    <3> SUFFICES ASSUME NEW z \in Successors(E, x)
                 PROVE  z \in S
      OBVIOUS
    <3>1. <<x, z>> \in E /\ z \in N
      BY SuccessorsAreEnds
    <3>2. x \in Successors(F, z)
      BY <1>1, <3>1, SuccessorsAreEnds
    <3> QED
      BY <3>1, <3>2, ReachableIsClosed
  <2>2. ASSUME NEW m \in S
        PROVE  Successors(E, m) \subseteq S
    <3> SUFFICES ASSUME NEW z \in Successors(E, m)
                 PROVE  z \in S
      OBVIOUS
    <3>1. <<m, z>> \in E /\ z \in N
      <4>1. <<m, z>> \in E
        BY SuccessorsAreEnds
      <4> QED
        BY <4>1
    <3>2. m \in Successors(F, z)
      BY <1>1, <3>1, SuccessorsAreEnds
    <3> QED
      BY <2>2, <3>1, <3>2, ReachableIsTransitive
  <2>3. ReachableFrom(E, N, x) \subseteq S
    <3>1. S \in SUBSET N
      OBVIOUS
    <3> HIDE DEF S
    <3> QED
      BY <2>1, <2>2, <3>1, ReachableIsLeast
  <2> QED
    BY <1>1, <2>3
<1>2. Swapped(edges) \in SUBSET (N \X N)
  BY DEF Swapped
<1>3. \A x, y : <<x, y>> \in edges <=> <<y, x>> \in Swapped(edges)
  <2> SUFFICES ASSUME NEW x, NEW y
               PROVE  <<x, y>> \in edges <=> <<y, x>> \in Swapped(edges)
    OBVIOUS
  <2>1. <<x, y>> \in edges => <<y, x>> \in Swapped(edges)
    BY DEF Swapped
  <2>2. ASSUME <<y, x>> \in Swapped(edges)
        PROVE  <<x, y>> \in edges
    <3>1. PICK p \in edges : <<y, x>> = <<p[2], p[1]>>
      BY <2>2 DEF Swapped
    <3> QED
      BY <3>1
  <2> QED
    BY <2>1, <2>2
<1> QED
  BY <1>1, <1>2, <1>3

\* A function that collects what a node has and what its successors collect
\* collects what the node has and all that it reaches.
Collects(f, N, edges, own) ==
  f = [n \in N |-> own[n] \cup UNION {f[m] : m \in Successors(edges, n)}]

CollectedFrom(N, edges, own, n) == own[n] \cup UNION {own[m] : m \in ReachableFrom(edges, N, n)}

LEMMA CollectedFromSatisfies ==
  ASSUME NEW N, NEW edges \in SUBSET (N \X N), NEW own
  PROVE  Collects([n \in N |-> CollectedFrom(N, edges, own, n)], N, edges, own)
<1> DEFINE f == [n \in N |-> CollectedFrom(N, edges, own, n)]
<1>1. \A n \in N : Successors(edges, n) \subseteq N
  BY DEF Successors
<1>2. ASSUME NEW n \in N
      PROVE  CollectedFrom(N, edges, own, n) = own[n] \cup UNION {f[m] : m \in Successors(edges, n)}
  <2> DEFINE U == UNION {f[m] : m \in Successors(edges, n)}
  <2>1. ASSUME NEW v, v \in CollectedFrom(N, edges, own, n)
        PROVE  v \in own[n] \cup U
    <3>1. CASE v \in own[n]
      BY <3>1
    <3>2. CASE \E m \in ReachableFrom(edges, N, n) : v \in own[m]
      <4>1. PICK m \in ReachableFrom(edges, N, n) : v \in own[m]
        BY <3>2
      <4>2. PICK b \in Successors(edges, n) : m \in {b} \cup ReachableFrom(edges, N, b)
        BY <4>1, ReachableUnfolds
      <4>3. v \in f[b]
        BY <1>1, <4>1, <4>2 DEF CollectedFrom
      <4> QED
        BY <4>3
    <3> QED
      BY <2>1, <3>1, <3>2 DEF CollectedFrom
  <2>2. ASSUME NEW b \in Successors(edges, n), NEW v \in f[b]
        PROVE  v \in CollectedFrom(N, edges, own, n)
    <3>1. b \in N /\ v \in CollectedFrom(N, edges, own, b)
      BY <1>1
    <3>2. \E m \in {b} \cup ReachableFrom(edges, N, b) : v \in own[m]
      BY <3>1 DEF CollectedFrom
    <3>3. {b} \cup ReachableFrom(edges, N, b) \subseteq ReachableFrom(edges, N, n)
      BY ReachableIsTransitive
    <3> QED
      BY <3>2, <3>3 DEF CollectedFrom
  <2>3. own[n] \subseteq CollectedFrom(N, edges, own, n)
    BY DEF CollectedFrom
  <2> HIDE DEF f
  <2> QED
    BY <2>1, <2>2, <2>3
<1>3. f = [n \in N |-> own[n] \cup UNION {f[m] : m \in Successors(edges, n)}]
  BY <1>2
<1> QED
  BY <1>3 DEF Collects

LEMMA CollectsUniquely ==
  ASSUME NEW N, NEW edges \in SUBSET (N \X N), NEW own, HasNoKnot(edges),
         NEW f, Collects(f, N, edges, own), NEW n \in N
  PROVE  f[n] = CollectedFrom(N, edges, own, n)
<1> DEFINE g == [k \in N |-> CollectedFrom(N, edges, own, k)]
           T == {k \in N : f[k] # g[k]}
<1>1. Collects(g, N, edges, own)
  BY CollectedFromSatisfies
<1>2. \A k \in N : Successors(edges, k) \subseteq N
  BY DEF Successors
<1>3. ASSUME NEW k \in T, Successors(edges, k) \cap T = {}
      PROVE  FALSE
  <2>1. \A m \in Successors(edges, k) : f[m] = g[m]
    BY <1>2, <1>3
  <2> HIDE DEF g
  <2>2. f[k] = own[k] \cup UNION {f[m] : m \in Successors(edges, k)}
    BY DEF Collects
  <2>3. g[k] = own[k] \cup UNION {g[m] : m \in Successors(edges, k)}
    BY <1>1 DEF Collects
  <2>4. {f[m] : m \in Successors(edges, k)} = {g[m] : m \in Successors(edges, k)}
    BY <2>1
  <2> QED
    BY <2>2, <2>3, <2>4
<1>4. T = {}
  <2> HIDE DEF T
  <2> QED
    BY <1>3 DEF HasNoKnot
<1> QED
  BY <1>4

(***************************************************************************)
(* Sequences as the queues of the searches: what is in them.               *)
(***************************************************************************)
LEMMA ElementsOfConcat ==
  ASSUME NEW S, NEW s \in Seq(S), NEW t \in Seq(S)
  PROVE  s \o t \in Seq(S) /\ ToSet(s \o t) = ToSet(s) \cup ToSet(t)
<1>1. s \o t \in Seq(S) /\ Len(s \o t) = Len(s) + Len(t) /\ Len(s) \in Nat /\ Len(t) \in Nat
  OBVIOUS
<1>2. \A i \in 1..(Len(s) + Len(t)) : (s \o t)[i] = IF i <= Len(s) THEN s[i] ELSE t[i - Len(s)]
  OBVIOUS
<1>3. DOMAIN (s \o t) = 1..(Len(s) + Len(t)) /\ DOMAIN s = 1..Len(s) /\ DOMAIN t = 1..Len(t)
  OBVIOUS
<1>4. ASSUME NEW x \in ToSet(s \o t)
      PROVE  x \in ToSet(s) \cup ToSet(t)
  <2>1. PICK i \in 1..(Len(s) + Len(t)) : x = (s \o t)[i]
    BY <1>3 DEF ToSet
  <2>2. CASE i <= Len(s)
    BY <1>1, <1>2, <1>3, <2>1, <2>2 DEF ToSet
  <2>3. CASE ~(i <= Len(s))
    <3>1. i - Len(s) \in 1..Len(t) /\ x = t[i - Len(s)]
      BY <1>1, <1>2, <2>1, <2>3
    <3> QED
      BY <1>3, <3>1 DEF ToSet
  <2> QED
    BY <2>2, <2>3
<1>5. ASSUME NEW i \in 1..Len(s)
      PROVE  s[i] \in ToSet(s \o t)
  <2>1. i \in 1..(Len(s) + Len(t)) /\ (s \o t)[i] = s[i]
    BY <1>1, <1>2
  <2> QED
    BY <1>3, <2>1 DEF ToSet
<1>6. ASSUME NEW i \in 1..Len(t)
      PROVE  t[i] \in ToSet(s \o t)
  <2>1. i + Len(s) \in 1..(Len(s) + Len(t)) /\ ~(i + Len(s) <= Len(s)) /\ (i + Len(s)) - Len(s) = i
    BY <1>1
  <2>2. (s \o t)[i + Len(s)] = t[i]
    BY <1>2, <2>1
  <2> QED
    BY <1>3, <2>1, <2>2 DEF ToSet
<1>7. ToSet(s) \cup ToSet(t) \subseteq ToSet(s \o t)
  BY <1>3, <1>5, <1>6 DEF ToSet
<1> QED
  BY <1>1, <1>4, <1>7

LEMMA ElementsOfTail ==
  ASSUME NEW S, NEW s \in Seq(S), s # <<>>
  PROVE  /\ Tail(s) \in Seq(S) /\ Head(s) \in ToSet(s) /\ Head(s) \in S
         /\ ToSet(s) = {Head(s)} \cup ToSet(Tail(s))
<1>1. Len(s) \in Nat /\ Len(s) # 0 /\ DOMAIN s = 1..Len(s) /\ Head(s) = s[1]
  OBVIOUS
<1>2. Tail(s) \in Seq(S) /\ DOMAIN Tail(s) = 1..(Len(s) - 1) /\ \A i \in 1..(Len(s) - 1) : Tail(s)[i] = s[i + 1]
  OBVIOUS
<1>3. 1 \in 1..Len(s) /\ s[1] \in S
  BY <1>1
<1>4. \A i \in 1..(Len(s) - 1) : i + 1 \in 1..Len(s)
  BY <1>1
<1>5. \A i \in 1..Len(s) : i # 1 => i - 1 \in 1..(Len(s) - 1) /\ (i - 1) + 1 = i
  BY <1>1
<1>6. \A i \in 1..Len(s) : s[i] = Head(s) \/ s[i] \in ToSet(Tail(s))
  BY <1>1, <1>2, <1>5 DEF ToSet
<1>7. \A i \in 1..(Len(s) - 1) : Tail(s)[i] \in ToSet(s)
  BY <1>1, <1>2, <1>4 DEF ToSet
<1> QED
  BY <1>1, <1>2, <1>3, <1>6, <1>7 DEF ToSet

\* A set of numbers in their order has each of them.
LEMMA ElementsInOrder ==
  ASSUME NEW n \in Nat, NEW S \in SUBSET (1..n)
  PROVE  InOrder(S) \in Seq(S) /\ ToSet(InOrder(S)) = S /\ Len(InOrder(S)) = Cardinality(S)
<1> DEFINE Rank(s) == Cardinality({t \in S : t < s})
           m == Cardinality(S)
           rank == [s \in S |-> Rank(s) + 1]
           R == {rank[s] : s \in S}
<1>1. IsFiniteSet(S) /\ m \in Nat
  <2>1. IsFiniteSet(1..n)
    BY FS_Interval
  <2> QED
    BY <2>1, FS_Subset, FS_CardinalityType
<1>2. ASSUME NEW s \in S
      PROVE  Rank(s) \in Nat /\ Rank(s) < m
  <2> DEFINE T == {t \in S : t < s}
  <2>1. T \in SUBSET S /\ T # S
    <3>1. s \notin T
      OBVIOUS
    <3> QED
      BY <3>1
  <2> HIDE DEF T
  <2>2. IsFiniteSet(T) /\ Cardinality(T) \in Nat /\ Cardinality(T) <= m /\ Cardinality(T) # m
    BY <1>1, <2>1, FS_Subset, FS_CardinalityType
  <2>3. Cardinality(T) < m
    BY <1>1, <2>2
  <2> QED
    BY <2>2, <2>3 DEF T
<1>3. ASSUME NEW s \in S, NEW u \in S, s < u
      PROVE  Rank(s) < Rank(u)
  <2> DEFINE T == {t \in S : t < s}
             U == {t \in S : t < u}
  <2>1. T \in SUBSET U /\ T # U
    <3>1. s \in U /\ s \notin T
      BY <1>3
    <3>2. \A t \in S : t < s => t < u
      BY <1>3
    <3> QED
      BY <3>1, <3>2
  <2>2. U \in SUBSET S
    OBVIOUS
  <2> HIDE DEF T, U
  <2>3. IsFiniteSet(U) /\ Cardinality(U) \in Nat
    BY <1>1, <2>2, FS_Subset, FS_CardinalityType
  <2>4. Cardinality(T) \in Nat /\ Cardinality(T) <= Cardinality(U) /\ Cardinality(T) # Cardinality(U)
    BY <2>1, <2>3, FS_Subset, FS_CardinalityType
  <2>5. Cardinality(T) < Cardinality(U)
    BY <2>3, <2>4
  <2> QED
    BY <2>5 DEF T, U
<1> HIDE DEF Rank
<1>4. \A s, u \in S : Rank(s) = Rank(u) => s = u
  <2>1. \A s, u \in S : s < u \/ u < s \/ s = u
    OBVIOUS
  <2> QED
    BY <1>2, <1>3, <2>1
<1>5. R \in SUBSET (1..m)
  BY <1>1, <1>2
<1>6. rank \in Bijection(S, R)
  BY <1>2, <1>4 DEF Bijection, Injection, Surjection, IsInjective
<1> HIDE DEF R, rank, m
<1>7. R = 1..m
  <2>1. Cardinality(R) = m
    BY <1>1, <1>6, FS_Bijection DEF m, ExistsBijection
  <2>2. IsFiniteSet(1..m) /\ Cardinality(1..m) = m
    <3>1. IsFiniteSet(1..m)
      BY <1>1, FS_Interval
    <3>2. Cardinality(1..m) = IF 1 > m THEN 0 ELSE m - 1 + 1
      BY <1>1, FS_Interval
    <3> QED
      BY <1>1, <3>1, <3>2
  <2> QED
    BY <1>5, <2>1, <2>2, FS_Subset
<1>8. ASSUME NEW i \in 1..m
      PROVE  InOrder(S)[i] \in S /\ Rank(InOrder(S)[i]) = i - 1
  <2>1. \E s \in S : Rank(s) = i - 1
    <3>1. i \in R
      BY <1>7
    <3>2. PICK s \in S : i = Rank(s) + 1
      BY <3>1 DEF R, rank
    <3> QED
      BY <1>2, <3>2
  <2>2. InOrder(S)[i] = CHOOSE s \in S : Rank(s) = i - 1
    BY DEF InOrder, Rank, m
  <2> QED
    BY <2>1, <2>2
<1>9. InOrder(S) \in [1..m -> S]
  BY <1>8 DEF InOrder, m
<1>10. InOrder(S) \in Seq(S) /\ Len(InOrder(S)) = m /\ DOMAIN InOrder(S) = 1..m
  BY <1>1, <1>9
<1>11. ASSUME NEW s \in S
       PROVE  s \in ToSet(InOrder(S))
  <2>1. Rank(s) + 1 \in 1..m
    BY <1>1, <1>2 DEF m
  <2>2. InOrder(S)[Rank(s) + 1] \in S /\ Rank(InOrder(S)[Rank(s) + 1]) = Rank(s)
    BY <1>2, <1>8, <2>1
  <2>3. InOrder(S)[Rank(s) + 1] = s
    BY <1>4, <2>2
  <2> QED
    BY <1>10, <2>1, <2>3 DEF ToSet
<1>12. ToSet(InOrder(S)) \subseteq S
  BY <1>8, <1>10 DEF ToSet
<1> QED
  BY <1>10, <1>11, <1>12 DEF m

LEMMA FlattenExists ==
  ASSUME NEW S, NEW q \in Seq(Seq(S))
  PROVE  \E f : f = [i \in 1..Len(q) |-> IF i = 1 THEN q[1] ELSE f[i - 1] \o q[i]]
<1> DEFINE Flat(f, n) == f \in [1..n -> Seq(S)]
                         /\ \A i \in 1..n : f[i] = IF i = 1 THEN q[1] ELSE f[i - 1] \o q[i]
           Bad == {n \in Nat : n <= Len(q) /\ ~\E f : Flat(f, n)}
<1>1. Len(q) \in Nat /\ \A i \in 1..Len(q) : q[i] \in Seq(S)
  OBVIOUS
<1>2. Bad = {}
  <2> SUFFICES ASSUME Bad # {} PROVE FALSE
    OBVIOUS
  <2>1. PICK n \in Bad : \A k \in Bad : n <= k
    <3>1. Bad \in SUBSET Nat
      OBVIOUS
    <3> HIDE DEF Bad
    <3> QED
      BY <3>1, LeastElement
  <2>2. n \in Nat /\ n <= Len(q) /\ ~\E f : Flat(f, n)
    OBVIOUS
  <2>3. n # 0
    <3>1. Flat([i \in 1..0 |-> <<>>], 0)
      OBVIOUS
    <3> QED
      BY <2>2, <3>1
  <2>4. n - 1 \in Nat /\ n - 1 <= Len(q) /\ ~(n <= n - 1)
    BY <1>1, <2>2, <2>3
  <2>5. PICK g : Flat(g, n - 1)
    BY <2>1, <2>4
  <2> DEFINE h == [i \in 1..n |-> IF i = 1 THEN q[1] ELSE g[i - 1] \o q[i]]
  <2>11. \A i \in 1..n : h[i] = IF i = 1 THEN q[1] ELSE g[i - 1] \o q[i]
    OBVIOUS
  <2>12. h = [i \in 1..n |-> h[i]]
    OBVIOUS
  <2> HIDE DEF h
  <2>6. ASSUME NEW i \in 1..n
        PROVE  h[i] \in Seq(S) /\ (i # n => h[i] = g[i])
    <3>1. i \in 1..Len(q) /\ q[i] \in Seq(S)
      BY <1>1, <2>2
    <3>2. CASE i = 1
      <4>1. h[i] = q[i] /\ (i # n => i \in 1..(n - 1))
        BY <2>2, <2>11, <3>2
      <4>2. i # n => g[i] = q[i]
        BY <2>5, <3>2, <4>1
      <4> QED
        BY <3>1, <4>1, <4>2
    <3>3. CASE i # 1
      <4>1. i - 1 \in 1..(n - 1) /\ (i # n => i \in 1..(n - 1))
        BY <2>2, <3>3
      <4>2. g[i - 1] \in Seq(S)
        BY <2>5, <4>1
      <4>3. h[i] = g[i - 1] \o q[i]
        BY <2>11, <3>3
      <4>4. i # n => g[i] = g[i - 1] \o q[i]
        BY <2>5, <3>3, <4>1
      <4>5. g[i - 1] \o q[i] \in Seq(S)
        BY <3>1, <4>2
      <4> QED
        BY <4>3, <4>4, <4>5
    <3> QED
      BY <3>2, <3>3
  <2>7. \A i \in 1..n : i # 1 => i - 1 \in 1..n /\ i - 1 # n
    BY <2>2
  <2>8. \A i \in 1..n : h[i] = IF i = 1 THEN q[1] ELSE h[i - 1] \o q[i]
    BY <2>6, <2>7, <2>11
  <2>9. h \in [1..n -> Seq(S)]
    BY <2>6, <2>12
  <2>10. Flat(h, n)
    BY <2>8, <2>9
  <2> QED
    BY <2>2, <2>10
<1>3. PICK f : Flat(f, Len(q))
  <2>1. Len(q) \in Nat /\ Len(q) <= Len(q)
    BY <1>1
  <2>2. Len(q) \notin Bad
    <3> HIDE DEF Bad
    <3> QED
      BY <1>2
  <2> HIDE DEF Flat
  <2> QED
    BY <2>1, <2>2
<1>4. f = [i \in 1..Len(q) |-> IF i = 1 THEN q[1] ELSE f[i - 1] \o q[i]]
  BY <1>3
<1> QED
  BY <1>4

LEMMA ElementsOfFlatten ==
  ASSUME NEW S, NEW q \in Seq(Seq(S))
  PROVE  FlattenSeq(q) \in Seq(S) /\ ToSet(FlattenSeq(q)) = UNION {ToSet(q[i]) : i \in DOMAIN q}
<1>1. Len(q) \in Nat /\ DOMAIN q = 1..Len(q) /\ \A i \in 1..Len(q) : q[i] \in Seq(S)
  OBVIOUS
<1>2. CASE Len(q) = 0
  <2>1. FlattenSeq(q) = q /\ q = <<>> /\ DOMAIN q = {}
    BY <1>1, <1>2 DEF FlattenSeq
  <2>2. <<>> \in Seq(S) /\ ToSet(<<>>) = {}
    BY DEF ToSet
  <2> QED
    BY <2>1, <2>2
<1>3. CASE Len(q) # 0
  <2> DEFINE f == CHOOSE g : g = [i \in 1..Len(q) |-> IF i = 1 THEN q[1] ELSE g[i - 1] \o q[i]]
             Bad == {i \in 1..Len(q) : ~(f[i] \in Seq(S) /\ ToSet(f[i]) = UNION {ToSet(q[j]) : j \in 1..i})}
  <2>1. f = [i \in 1..Len(q) |-> IF i = 1 THEN q[1] ELSE f[i - 1] \o q[i]]
    BY FlattenExists, Zenon
  <2>2. FlattenSeq(q) = f[Len(q)]
    <3>1. FlattenSeq(q) = (CHOOSE g : g = [i \in 1..Len(q) |-> IF i = 1 THEN q[i] ELSE g[i - 1] \o q[i]])[Len(q)]
      BY <1>3, Zenon DEF FlattenSeq
    <3>2. \A g : [i \in 1..Len(q) |-> IF i = 1 THEN q[i] ELSE g[i - 1] \o q[i]]
                 = [i \in 1..Len(q) |-> IF i = 1 THEN q[1] ELSE g[i - 1] \o q[i]]
      OBVIOUS
    <3> QED
      BY <3>1, <3>2
  <2> HIDE DEF f
  <2>3. Bad = {}
    <3> SUFFICES ASSUME Bad # {} PROVE FALSE
      OBVIOUS
    <3>1. PICK i \in Bad : \A k \in Bad : i <= k
      <4>1. Bad \in SUBSET Nat
        OBVIOUS
      <4> HIDE DEF Bad
      <4> QED
        BY <4>1, LeastElement
    <3>2. i \in 1..Len(q) /\ q[i] \in Seq(S)
      BY <1>1
    <3>3. CASE i = 1
      <4>1. f[i] = q[i] /\ 1..i = {i}
        BY <2>1, <3>2, <3>3
      <4> QED
        BY <3>1, <3>2, <4>1
    <3>4. CASE i # 1
      <4>1. i - 1 \in 1..Len(q) /\ ~(i <= i - 1)
        BY <1>1, <3>2, <3>4
      <4>2. f[i - 1] \in Seq(S) /\ ToSet(f[i - 1]) = UNION {ToSet(q[j]) : j \in 1..(i - 1)}
        BY <3>1, <4>1
      <4>3. f[i] = f[i - 1] \o q[i]
        BY <2>1, <3>2, <3>4
      <4>4. f[i] \in Seq(S) /\ ToSet(f[i]) = ToSet(f[i - 1]) \cup ToSet(q[i])
        BY <3>2, <4>2, <4>3, ElementsOfConcat
      <4>5. 1..i = (1..(i - 1)) \cup {i}
        BY <1>1, <3>2, <3>4
      <4>6. UNION {ToSet(q[j]) : j \in 1..i} = (UNION {ToSet(q[j]) : j \in 1..(i - 1)}) \cup ToSet(q[i])
        BY <4>5
      <4> QED
        BY <3>1, <4>2, <4>4, <4>6
    <3> QED
      BY <3>3, <3>4
  <2>4. Len(q) \in 1..Len(q)
    BY <1>1, <1>3
  <2> QED
    BY <1>1, <2>2, <2>3, <2>4
<1> QED
  BY <1>2, <1>3

(***************************************************************************)
(* The shape of a tree that is parsed.                                     *)
(***************************************************************************)
IsOutermost(s) == /\ ParentOf(ast, s) = 0
                  /\ ast[s].list = Procedure(ast[s].list.of) /\ ast[s].list.of \in DOMAIN pnames
IsInBody(s, p) == ast[p].kind = "while" /\ ast[s].list = Body(p)
IsInBranch(s, p) == ast[p].kind = "if" /\ ast[s].list \in {Then(p), Else(p)}
IsIn(s, p) == /\ ParentOf(ast, s) = p /\ p \in Stmts /\ p < s
              /\ IsInBody(s, p) \/ IsInBranch(s, p)

LEMMA BelowIs ==
  ASSUME NEW p
  PROVE  /\ ast[p].kind = "while" => ListsBelow(ast, p) = <<Body(p)>> /\ ToSet(ListsBelow(ast, p)) = {Body(p)}
         /\ ast[p].kind = "if" => ListsBelow(ast, p) = <<Then(p), Else(p)>> /\ ToSet(ListsBelow(ast, p)) = {Then(p), Else(p)}
         /\ ast[p].kind \notin {"while", "if"} => ListsBelow(ast, p) = <<>> /\ ToSet(ListsBelow(ast, p)) = {}
<1>1. \A a, b : ToSet(<<a>>) = {a} /\ ToSet(<<a, b>>) = {a, b}
  <2> SUFFICES ASSUME NEW a, NEW b
               PROVE  ToSet(<<a>>) = {a} /\ ToSet(<<a, b>>) = {a, b}
    OBVIOUS
  <2>1. DOMAIN <<a>> = {1} /\ DOMAIN <<a, b>> = {1, 2} /\ <<a>>[1] = a /\ <<a, b>>[1] = a /\ <<a, b>>[2] = b
    OBVIOUS
  <2> QED
    BY <2>1 DEF ToSet
<1>2. ToSet(<<>>) = {}
  BY DEF ToSet
<1>3. CASE ast[p].kind = "while"
  <2>1. ListsBelow(ast, p) = <<Body(p)>>
    BY <1>3 DEF ListsBelow
  <2> QED
    BY <1>1, <1>3, <2>1
<1>4. CASE ast[p].kind = "if"
  <2>1. ListsBelow(ast, p) = <<Then(p), Else(p)>>
    BY <1>4 DEF ListsBelow
  <2> QED
    BY <1>1, <1>4, <2>1
<1>5. CASE ast[p].kind \notin {"while", "if"}
  <2>1. ListsBelow(ast, p) = <<>>
    BY <1>5 DEF ListsBelow
  <2> QED
    BY <1>2, <1>5, <2>1
<1> QED
  BY <1>3, <1>4, <1>5

LEMMA StmtsAreNumbered ==
  ASSUME IsParsed
  PROVE  Len(ast) \in Nat /\ Stmts = 1..Len(ast) /\ Len(pnames) \in Nat /\ DOMAIN pnames = 1..Len(pnames)
<1>1. ast \in Seq(ToSet(ast)) /\ pnames \in Seq(ToSet(pnames))
  BY DEF IsParsed
<1> QED
  BY <1>1 DEF Stmts

LEMMA ListOfStmt ==
  ASSUME IsParsed, NEW s \in Stmts
  PROVE  IsOutermost(s) \/ \E p \in Stmts : IsIn(s, p)
<1>1. Len(ast) \in Nat /\ Stmts = 1..Len(ast) /\ Len(pnames) \in Nat /\ DOMAIN pnames = 1..Len(pnames)
  BY StmtsAreNumbered
<1>2. ast[s].list \in {Procedure(n) : n \in DOMAIN pnames} \cup UNION {ToSet(ListsBelow(ast, p)) : p \in 1..(s - 1)}
  BY DEF IsParsed
<1>3. CASE ast[s].list \in {Procedure(n) : n \in DOMAIN pnames}
  <2>1. PICK n \in DOMAIN pnames : ast[s].list = Procedure(n)
    BY <1>3
  <2>2. ast[s].list.in = "procedure" /\ ast[s].list.of = n
    BY <2>1 DEF Procedure
  <2> QED
    BY <2>1, <2>2 DEF IsOutermost, ParentOf
<1>4. CASE ast[s].list \in UNION {ToSet(ListsBelow(ast, p)) : p \in 1..(s - 1)}
  <2>1. PICK p \in 1..(s - 1) : ast[s].list \in ToSet(ListsBelow(ast, p))
    BY <1>4
  <2>2. p \in Stmts /\ p < s /\ p # 0
    BY <1>1
  <2>3. IsInBody(s, p) \/ IsInBranch(s, p)
    BY <2>1, BelowIs DEF IsInBody, IsInBranch
  <2>4. ast[s].list.in # "procedure" /\ ast[s].list.of = p
    BY <2>3 DEF IsInBody, IsInBranch, Body, Then, Else
  <2> QED
    BY <2>2, <2>3, <2>4 DEF IsIn, ParentOf
<1> QED
  BY <1>2, <1>3, <1>4

\* A container is not empty.
LEMMA ContainersAreFilled ==
  ASSUME IsParsed, NEW s \in Stmts
  PROVE  /\ ast[s].kind = "while" => Children(ast, Body(s)) # {}
         /\ ast[s].kind = "if" => Children(ast, Then(s)) # {} /\ Children(ast, Else(s)) # {}
<1>1. \A k \in DOMAIN ListsBelow(ast, s) : Children(ast, ListsBelow(ast, s)[k]) # {}
  BY DEF IsParsed, IsAst, Stmts
<1>2. \A a, b : /\ 1 \in DOMAIN <<a>> /\ 1 \in DOMAIN <<a, b>> /\ 2 \in DOMAIN <<a, b>>
                /\ <<a>>[1] = a /\ <<a, b>>[1] = a /\ <<a, b>>[2] = b
  OBVIOUS
<1>3. ASSUME ast[s].kind = "while"
      PROVE  Children(ast, Body(s)) # {}
  <2>1. ListsBelow(ast, s) = <<Body(s)>>
    BY <1>3, BelowIs
  <2> QED
    BY <1>1, <1>2, <2>1
<1>4. ASSUME ast[s].kind = "if"
      PROVE  Children(ast, Then(s)) # {} /\ Children(ast, Else(s)) # {}
  <2>1. ListsBelow(ast, s) = <<Then(s), Else(s)>>
    BY <1>4, BelowIs
  <2> QED
    BY <1>1, <1>2, <2>1
<1> QED
  BY <1>3, <1>4

\* The statements of a list follow what the list belongs to.
LEMMA ChildrenAreIn ==
  ASSUME IsParsed, NEW c \in Stmts, NEW p
  PROVE  /\ ast[c].list = Body(p) => IsIn(c, p) /\ IsInBody(c, p)
         /\ ast[c].list \in {Then(p), Else(p)} => IsIn(c, p) /\ IsInBranch(c, p)
         /\ ast[c].list = Procedure(p) => IsOutermost(c) /\ p = ast[c].list.of
<1>1. \A n : ast[c].list = Procedure(n) => ast[c].list.in = "procedure" /\ ast[c].list.of = n
  BY DEF Procedure
<1>2. \A n : ast[c].list = Body(n) => ast[c].list.in = "while" /\ ast[c].list.of = n
  BY DEF Body
<1>3. \A n : ast[c].list \in {Then(n), Else(n)} => ast[c].list.in \in {"then", "else"} /\ ast[c].list.of = n
  BY DEF Then, Else
<1>4. CASE IsOutermost(c)
  BY <1>1, <1>2, <1>3, <1>4 DEF IsOutermost
<1>5. CASE \E n \in Stmts : IsIn(c, n)
  BY <1>1, <1>2, <1>3, <1>5 DEF IsIn, IsInBody, IsInBranch
<1> QED
  BY <1>4, <1>5, ListOfStmt

\* The first and the last statement of a list, and the next one.
LEMMA FirstAndLast ==
  ASSUME IsParsed, NEW list, Children(ast, list) # {}
  PROVE  /\ FirstStmt(ast, list) \in Children(ast, list)
         /\ LastStmt(ast, list) \in Children(ast, list)
         /\ \A t \in Children(ast, list) : FirstStmt(ast, list) <= t /\ t <= LastStmt(ast, list)
<1> DEFINE C == Children(ast, list)
<1>1. C \in SUBSET (1..Len(ast)) /\ Len(ast) \in Nat
  BY StmtsAreNumbered DEF Children, Stmts
<1>2. C \in SUBSET Nat
  BY <1>1
<1> HIDE DEF C
<1>3. \E s \in C : \A t \in C : s <= t
  BY <1>2, LeastElement DEF C
<1>4. \E s \in C : \A t \in C : t <= s
  BY <1>1, GreatestElement DEF C
<1>5. \E s \in C : \A t \in C : s >= t
  BY <1>2, <1>4
<1>6. FirstStmt(ast, list) \in C /\ \A t \in C : FirstStmt(ast, list) <= t
  BY <1>3, Zenon DEF FirstStmt, C
<1>7. LastStmt(ast, list) \in C /\ \A t \in C : LastStmt(ast, list) >= t
  BY <1>5, Zenon DEF LastStmt, C
<1> QED
  BY <1>2, <1>6, <1>7 DEF C

LEMMA LastIsLast ==
  ASSUME IsParsed, NEW s \in Stmts
  PROVE  IsLast(ast, s) <=> s = LastStmt(ast, ast[s].list)
<1> DEFINE C == Children(ast, ast[s].list)
<1>1. C \in SUBSET Nat /\ s \in C
  BY StmtsAreNumbered DEF Children, Stmts
<1>2. LastStmt(ast, ast[s].list) \in C /\ \A t \in C : t <= LastStmt(ast, ast[s].list)
  BY <1>1, FirstAndLast
<1>3. IsLast(ast, s) <=> \A t \in C : t <= s
  BY DEF IsLast
<1> DEFINE l == LastStmt(ast, ast[s].list)
<1>4. l \in C /\ (\A t \in C : t <= l)
  BY <1>2
<1> HIDE DEF C, l
<1>5. (\A t \in C : t <= s) <=> s = l
  <2>1. s \in Nat /\ l \in Nat /\ s <= l
    BY <1>1, <1>4
  <2>2. ASSUME \A t \in C : t <= s
        PROVE  s = l
    BY <1>4, <2>1, <2>2
  <2> QED
    BY <1>4, <2>2
<1> QED
  BY <1>3, <1>5 DEF l

LEMMA SiblingIsNext ==
  ASSUME IsParsed, NEW s \in Stmts, ~IsLast(ast, s)
  PROVE  /\ Sibling(ast, s) \in Children(ast, ast[s].list) /\ s < Sibling(ast, s)
         /\ \A u \in Children(ast, ast[s].list) : u > s => Sibling(ast, s) <= u
<1> DEFINE C == Children(ast, ast[s].list)
           D == {t \in C : t > s}
<1>1. C \in SUBSET Nat /\ s \in C
  BY StmtsAreNumbered DEF Children, Stmts
<1>2. \E t \in C : ~(t <= s)
  BY DEF IsLast
<1>3. D \in SUBSET Nat /\ D # {}
  BY <1>1, <1>2
<1>4. PICK t \in D : \A u \in D : t <= u
  <2> HIDE DEF D
  <2> QED
    BY <1>3, LeastElement
<1>5. t \in C /\ t > s /\ \A u \in C : u > s => t <= u
  BY <1>4
<1> HIDE DEF D, C
<1>6. Sibling(ast, s) = CHOOSE v \in C : v > s /\ \A u \in C : u > s => v <= u
  BY DEF Sibling, C
<1>7. Sibling(ast, s) \in C /\ Sibling(ast, s) > s /\ \A u \in C : u > s => Sibling(ast, s) <= u
  BY <1>5, <1>6, Zenon
<1> QED
  BY <1>1, <1>7 DEF C

\* Who has its successors for its own collects what it reaches.
LEMMA CollectingSuccessors ==
  ASSUME NEW N, NEW edges \in SUBSET (N \X N), NEW own, \A n \in N : own[n] = Successors(edges, n), NEW n \in N
  PROVE  CollectedFrom(N, edges, own, n) = ReachableFrom(edges, N, n)
<1> DEFINE R == ReachableFrom(edges, N, n)
           S == CollectedFrom(N, edges, own, n)
<1>1. R \in SUBSET N
  BY DEF ReachableFrom
<1>2. S \subseteq R
  BY <1>1, ReachableIsClosed DEF CollectedFrom
<1>3. Successors(edges, n) \subseteq S /\ \A m \in R : Successors(edges, m) \subseteq S
  BY <1>1 DEF CollectedFrom
<1> HIDE DEF R, S
<1>4. S \in SUBSET N /\ \A m \in S : Successors(edges, m) \subseteq S
  BY <1>1, <1>2, <1>3
<1>5. R \subseteq S
  BY <1>3, <1>4, ReachableIsLeast DEF R
<1> QED
  BY <1>2, <1>5 DEF R, S

-----------------------------------------------------------------------------
(* What a statement is in *)

Up == Swapped(Parents)

LEMMA UpLeadsToParent ==
  ASSUME IsParsed
  PROVE  /\ Parents \in SUBSET (Stmts \X Stmts) /\ Up \in SUBSET (Stmts \X Stmts)
         /\ \A e \in Up : e[2] < e[1]
         /\ \A s \in Stmts : Successors(Up, s) = IF ParentOf(ast, s) = 0 THEN {} ELSE {ParentOf(ast, s)}
<1>1. Stmts = 1..Len(ast) /\ Len(ast) \in Nat
  BY StmtsAreNumbered
<1>2. Parents \in SUBSET (Stmts \X Stmts)
  BY DEF Parents
<1>3. Up \in SUBSET (Stmts \X Stmts)
  BY <1>2 DEF Up, Swapped
<1>4. \A s \in Stmts : ParentOf(ast, s) # 0 => ParentOf(ast, s) \in Stmts /\ ParentOf(ast, s) < s
  BY ListOfStmt DEF IsIn, IsOutermost
<1>5. ASSUME NEW e \in Up
      PROVE  e[1] \in Stmts /\ e[2] \in Stmts /\ e[2] = ParentOf(ast, e[1])
  <2>1. PICK p \in Parents : e = <<p[2], p[1]>>
    BY DEF Up, Swapped
  <2>2. p \in Stmts \X Stmts /\ p[1] = ParentOf(ast, p[2])
    BY DEF Parents
  <2> QED
    BY <2>1, <2>2
<1>6. ASSUME NEW s \in Stmts, ParentOf(ast, s) # 0
      PROVE  <<s, ParentOf(ast, s)>> \in Up
  <2>1. <<ParentOf(ast, s), s>> \in Parents
    BY <1>4, <1>6 DEF Parents
  <2> QED
    BY <2>1 DEF Up, Swapped
<1>7. \A e \in Up : e[2] # 0
  BY <1>1, <1>5
<1>8. ASSUME NEW s \in Stmts
      PROVE  Successors(Up, s) = IF ParentOf(ast, s) = 0 THEN {} ELSE {ParentOf(ast, s)}
  <2>1. \A n \in Successors(Up, s) : n = ParentOf(ast, s) /\ n # 0
    BY <1>5, <1>7 DEF Successors
  <2>2. ParentOf(ast, s) # 0 => ParentOf(ast, s) \in Successors(Up, s)
    BY <1>3, <1>6, SuccessorsAreEnds
  <2> QED
    BY <2>1, <2>2
<1>9. \A e \in Up : e[2] < e[1]
  BY <1>4, <1>5, <1>7
<1> QED
  BY <1>2, <1>3, <1>8, <1>9

LEMMA UpHasNoKnot ==
  ASSUME IsParsed
  PROVE  HasNoKnot(Up)
<1>1. Stmts = 1..Len(ast) /\ Len(ast) \in Nat /\ Up \in SUBSET (Stmts \X Stmts) /\ \A e \in Up : e[2] < e[1]
  BY StmtsAreNumbered, UpLeadsToParent
<1>2. \A e \in Up : e[1] \in Nat /\ e[2] \in Nat /\ e[2] < e[1]
  BY <1>1
<1> QED
  BY <1>2, DescendingHasNoKnot

\* AncestorsOf(ast)[s] is what s reaches going up.
LEMMA AncestorsAreReached ==
  ASSUME IsParsed, NEW s \in Stmts
  PROVE  AncestorsOf(ast)[s] = ReachableFrom(Up, Stmts, s)
<1> DEFINE own == [t \in Stmts |-> Successors(Up, t)]
           Is(f) == f = [t \in DOMAIN ast |-> IF ParentOf(ast, t) = 0 THEN {}
                                              ELSE {ParentOf(ast, t)} \cup f[ParentOf(ast, t)]]
<1>1. \A t \in Stmts : Successors(Up, t) = IF ParentOf(ast, t) = 0 THEN {} ELSE {ParentOf(ast, t)}
  BY UpLeadsToParent
<1>2. Up \in SUBSET (Stmts \X Stmts)
  BY UpLeadsToParent
<1>3. ASSUME NEW f
      PROVE  Is(f) <=> Collects(f, Stmts, Up, own)
  <2>1. ASSUME NEW t \in Stmts
        PROVE  (IF ParentOf(ast, t) = 0 THEN {} ELSE {ParentOf(ast, t)} \cup f[ParentOf(ast, t)])
               = own[t] \cup UNION {f[m] : m \in Successors(Up, t)}
    BY <1>1
  <2> QED
    BY <2>1 DEF Collects, Stmts
<1>4. \E f : Is(f)
  BY <1>2, <1>3, CollectedFromSatisfies
<1>5. AncestorsOf(ast) = CHOOSE f : Is(f)
  BY DEF AncestorsOf
<1>6. Is(AncestorsOf(ast))
  <2> HIDE DEF Is
  <2> QED
    BY <1>4, <1>5, Zenon
<1>7. Collects(AncestorsOf(ast), Stmts, Up, own)
  BY <1>3, <1>6
<1>8. AncestorsOf(ast)[s] = CollectedFrom(Stmts, Up, own, s)
  BY <1>2, <1>7, UpHasNoKnot, CollectsUniquely
<1> QED
  BY <1>2, <1>8, CollectingSuccessors

\* The relations Parent and Parent*, as they are found and as they are meant.
LEMMA ParentEntriesAreParents ==
  ASSUME IsParsed
  PROVE  /\ ParentEntries = Parents
         /\ \A p \in ParentEntries : InTextOrder(p)
<1>1. \A e \in Parents : e \in Stmts \X Stmts /\ e[1] = ParentOf(ast, e[2])
  BY DEF Parents
<1>2. Stmts = 1..Len(ast) /\ Len(ast) \in Nat
  BY StmtsAreNumbered
<1>3. \A s \in Stmts : ParentOf(ast, s) # 0 => ParentOf(ast, s) \in Stmts /\ ParentOf(ast, s) < s
  BY ListOfStmt DEF IsIn, IsOutermost
<1>4. ParentEntries \subseteq Parents
  BY <1>3 DEF ParentEntries, Parents, Stmts
<1>5. ASSUME NEW e \in Parents
      PROVE  e \in ParentEntries
  <2>1. e = <<e[1], e[2]>> /\ e[2] \in Stmts /\ e[1] = ParentOf(ast, e[2]) /\ e[1] # 0
    BY <1>1, <1>2
  <2> QED
    BY <2>1, Zenon DEF ParentEntries, Stmts
<1>6. \A e \in Parents : InTextOrder(e)
  BY <1>1, <1>2, <1>3 DEF InTextOrder
<1> QED
  BY <1>4, <1>5, <1>6

LEMMA ParentTEntriesAreClosure ==
  ASSUME IsParsed
  PROVE  /\ ParentTEntries = TransitiveClosure(Parents, Stmts)
         /\ \A p \in ParentTEntries : InTextOrder(p)
<1>1. Stmts = 1..Len(ast) /\ Len(ast) \in Nat
  BY StmtsAreNumbered
<1>2. Parents \in SUBSET (Stmts \X Stmts) /\ Up \in SUBSET (Stmts \X Stmts)
  BY UpLeadsToParent
<1>3. ParentTEntries = UNION {ReachableFrom(Up, Stmts, s) \X {s} : s \in Stmts}
  BY AncestorsAreReached DEF ParentTEntries, Stmts
<1>4. \A a, s : <<a, s>> \in ParentTEntries <=> s \in Stmts /\ a \in ReachableFrom(Up, Stmts, s)
  BY <1>3
<1>5. \A a, s : <<a, s>> \in TransitiveClosure(Parents, Stmts) <=> a \in Stmts /\ s \in ReachableFrom(Parents, Stmts, a)
  BY DEF TransitiveClosure
<1>6. \A n : ReachableFrom(Up, Stmts, n) \subseteq Stmts /\ ReachableFrom(Parents, Stmts, n) \subseteq Stmts
  BY DEF ReachableFrom
<1>7. \A a, s \in Stmts : a \in ReachableFrom(Up, Stmts, s) <=> s \in ReachableFrom(Parents, Stmts, a)
  BY <1>2, ReachableTurnedRound DEF Up
<1>8. \A a, s : <<a, s>> \in ParentTEntries <=> <<a, s>> \in TransitiveClosure(Parents, Stmts)
  BY <1>4, <1>5, <1>6, <1>7
<1>9. ParentTEntries \subseteq Stmts \X Stmts /\ TransitiveClosure(Parents, Stmts) \subseteq Stmts \X Stmts
  BY <1>3, <1>6 DEF TransitiveClosure
<1>10. ParentTEntries = TransitiveClosure(Parents, Stmts)
  BY <1>8, <1>9
<1>11. ASSUME NEW s \in Stmts
       PROVE  \A a \in ReachableFrom(Up, Stmts, s) : a < s
  <2> DEFINE S == {a \in Stmts : a < s}
  <2>1. \A e \in Up : e[1] \in Stmts /\ e[2] \in Stmts /\ e[2] < e[1]
    BY <1>2, UpLeadsToParent
  <2>2. Successors(Up, s) \subseteq S
    BY <2>1 DEF Successors
  <2>3. \A m \in S : Successors(Up, m) \subseteq S
    BY <1>1, <2>1 DEF Successors
  <2>4. S \in SUBSET Stmts
    OBVIOUS
  <2> HIDE DEF S
  <2>5. ReachableFrom(Up, Stmts, s) \subseteq S
    BY <2>2, <2>3, <2>4, ReachableIsLeast
  <2> QED
    BY <2>5 DEF S
<1>12. \A p \in ParentTEntries : InTextOrder(p)
  <2> SUFFICES ASSUME NEW p \in ParentTEntries
               PROVE  InTextOrder(p)
    OBVIOUS
  <2>1. p = <<p[1], p[2]>> /\ p[1] \in Stmts /\ p[2] \in Stmts
    BY <1>9
  <2>2. p[1] < p[2]
    BY <1>4, <1>11, <2>1
  <2> QED
    BY <1>1, <2>1, <2>2 DEF InTextOrder
<1> QED
  BY <1>10, <1>12

\* The procedure of a statement is that of what it is in.
LEMMA ProcedureOfStmt ==
  ASSUME IsParsed, NEW s \in Stmts
  PROVE  /\ ProcedureOf(ast)[s] \in DOMAIN pnames
         /\ ProcedureOf(ast)[s] = IF ParentOf(ast, s) = 0 THEN ast[s].list.of ELSE ProcedureOf(ast)[ParentOf(ast, s)]
<1> DEFINE own == [t \in Stmts |-> IF ParentOf(ast, t) = 0 THEN {ast[t].list.of} ELSE {}]
           g == [t \in Stmts |-> CollectedFrom(Stmts, Up, own, t)]
           f == [t \in Stmts |-> CHOOSE n : n \in g[t]]
           Is(h) == h = [t \in DOMAIN ast |-> IF ParentOf(ast, t) = 0 THEN ast[t].list.of ELSE h[ParentOf(ast, t)]]
<1>1. \A t \in Stmts : Successors(Up, t) = IF ParentOf(ast, t) = 0 THEN {} ELSE {ParentOf(ast, t)}
  BY UpLeadsToParent
<1>2. \A t \in Stmts : ParentOf(ast, t) # 0 => ParentOf(ast, t) \in Stmts /\ ParentOf(ast, t) < t
  BY ListOfStmt DEF IsIn, IsOutermost
<1>3. g = [t \in Stmts |-> own[t] \cup UNION {g[m] : m \in Successors(Up, t)}]
  <2>1. Up \in SUBSET (Stmts \X Stmts)
    BY UpLeadsToParent
  <2> HIDE DEF own
  <2>2. Collects(g, Stmts, Up, own)
    BY <2>1, CollectedFromSatisfies
  <2> HIDE DEF g
  <2> QED
    BY <2>2 DEF Collects
<1> HIDE DEF g
<1>4. ASSUME NEW t \in Stmts
      PROVE  f[t] = IF ParentOf(ast, t) = 0 THEN ast[t].list.of ELSE f[ParentOf(ast, t)]
  <2>1. g[t] = IF ParentOf(ast, t) = 0 THEN {ast[t].list.of} ELSE g[ParentOf(ast, t)]
    <3>1. g[t] = own[t] \cup UNION {g[m] : m \in Successors(Up, t)}
      BY <1>3
    <3>2. CASE ParentOf(ast, t) = 0
      <4>1. own[t] = {ast[t].list.of} /\ Successors(Up, t) = {}
        BY <1>1, <3>2
      <4> QED
        BY <3>1, <3>2, <4>1
    <3>3. CASE ParentOf(ast, t) # 0
      <4>1. own[t] = {} /\ Successors(Up, t) = {ParentOf(ast, t)}
        BY <1>1, <3>3
      <4> QED
        BY <3>1, <3>3, <4>1
    <3> QED
      BY <3>2, <3>3
  <2>2. CASE ParentOf(ast, t) = 0
    BY <2>1, <2>2
  <2>3. CASE ParentOf(ast, t) # 0
    BY <1>2, <2>1, <2>3
  <2> QED
    BY <2>2, <2>3
<1>5. Is(f)
  BY <1>4 DEF Stmts
<1>6. ProcedureOf(ast) = CHOOSE h : Is(h)
  BY DEF ProcedureOf
<1>7. Is(ProcedureOf(ast))
  <2> HIDE DEF Is, f
  <2> QED
    BY <1>5, <1>6, Zenon
<1> DEFINE proc == ProcedureOf(ast)
           Bad == {t \in Stmts : proc[t] \notin DOMAIN pnames}
<1>8. \A t \in Stmts : proc[t] = IF ParentOf(ast, t) = 0 THEN ast[t].list.of ELSE proc[ParentOf(ast, t)]
  BY <1>7 DEF Stmts
<1> HIDE DEF proc
<1>9. Bad = {}
  <2> SUFFICES ASSUME Bad # {} PROVE FALSE
    OBVIOUS
  <2>1. PICK t \in Bad : \A u \in Bad : t <= u
    <3>1. Bad \in SUBSET Nat
      BY StmtsAreNumbered
    <3> HIDE DEF Bad
    <3> QED
      BY <3>1, LeastElement
  <2>2. t \in Stmts /\ t \in Nat /\ proc[t] \notin DOMAIN pnames
    BY StmtsAreNumbered
  <2>3. CASE ParentOf(ast, t) = 0
    <3>1. Stmts \subseteq Nat \ {0}
      BY StmtsAreNumbered
    <3>2. IsOutermost(t)
      BY <2>2, <2>3, <3>1, ListOfStmt DEF IsIn
    <3> QED
      BY <1>8, <2>2, <2>3, <3>2 DEF IsOutermost
  <2>4. CASE ParentOf(ast, t) # 0
    <3>1. ParentOf(ast, t) \in Bad /\ ParentOf(ast, t) < t /\ ParentOf(ast, t) \in Nat
      BY <1>2, <1>8, <2>2, <2>4, StmtsAreNumbered
    <3> QED
      BY <2>1, <2>2, <3>1
  <2> QED
    BY <2>3, <2>4
<1> QED
  BY <1>8, <1>9 DEF proc

(***************************************************************************)
(* The graph of the control flow.  It is built from a statement to those   *)
(* that are executed last in it; what it means is read from a statement to *)
(* those it is executed last in.                                           *)
(***************************************************************************)
Inward == {e \in Stmts \X Stmts : IsInBranch(e[2], e[1]) /\ IsLast(ast, e[2])}
Outward == Swapped(Inward)

\* What is executed after all of a statement, where its list says it.
NextAfter(s) == IF ~IsLast(ast, s) THEN {Sibling(ast, s)}
                ELSE IF ast[s].list.in = "while" THEN {ast[s].list.of} ELSE {}

After ==
  LET after[s \in DOMAIN ast] ==
        IF ~IsLast(ast, s) THEN {Sibling(ast, s)}
        ELSE CASE ast[s].list.in = "procedure" -> {}
               [] ast[s].list.in = "while"     -> {ast[s].list.of}
               [] OTHER                        -> after[ast[s].list.of]
  IN  after

FlowFrom(s) == CASE ast[s].kind = "if"    -> {FirstStmt(ast, Then(s)), FirstStmt(ast, Else(s))}
                 [] ast[s].kind = "while" -> {FirstStmt(ast, Body(s))} \cup After[s]
                 [] OTHER                 -> After[s]

LEMMA FlowIsFromStmts == ControlFlow(ast) = UNION {{s} \X FlowFrom(s) : s \in Stmts}
BY DEF ControlFlow, FlowFrom, After, Stmts

LEMMA InwardGoesOn ==
  ASSUME IsParsed
  PROVE  /\ Inward \in SUBSET (Stmts \X Stmts) /\ Outward \in SUBSET (Stmts \X Stmts)
         /\ \A e \in Inward : e[1] < e[2]
         /\ \A e \in Outward : e[2] < e[1]
<1>1. Inward \in SUBSET (Stmts \X Stmts)
  BY DEF Inward
<1>2. Outward \in SUBSET (Stmts \X Stmts)
  BY <1>1 DEF Outward, Swapped
<1>3. ASSUME NEW e \in Inward
      PROVE  e[1] < e[2]
  <2>1. e[1] \in Stmts /\ e[2] \in Stmts /\ IsInBranch(e[2], e[1])
    BY DEF Inward
  <2>2. IsIn(e[2], e[1])
    BY <2>1, ChildrenAreIn DEF IsInBranch
  <2> QED
    BY <2>2 DEF IsIn
<1>4. ASSUME NEW e \in Outward
      PROVE  e[2] < e[1]
  <2>1. PICK d \in Inward : e = <<d[2], d[1]>>
    BY DEF Outward, Swapped
  <2> QED
    BY <1>3, <2>1
<1> QED
  BY <1>1, <1>2, <1>3, <1>4

LEMMA NoKnotInwardOrOutward ==
  ASSUME IsParsed
  PROVE  HasNoKnot(Inward) /\ HasNoKnot(Outward)
<1>1. Stmts = 1..Len(ast) /\ Len(ast) \in Nat
  BY StmtsAreNumbered
<1>2. \A e \in Inward : e[1] \in 1..Len(ast) /\ e[2] \in 1..Len(ast) /\ e[1] < e[2]
  BY <1>1, InwardGoesOn
<1>3. \A e \in Outward : e[1] \in Nat /\ e[2] \in Nat /\ e[2] < e[1]
  BY <1>1, InwardGoesOn
<1> QED
  BY <1>1, <1>2, <1>3, AscendingHasNoKnot, DescendingHasNoKnot

LEMMA InwardLeadsToLast ==
  ASSUME IsParsed, NEW s \in Stmts
  PROVE  Successors(Inward, s) = IF ast[s].kind = "if" THEN {LastStmt(ast, Then(s)), LastStmt(ast, Else(s))} ELSE {}
<1>1. \A t : t \in Successors(Inward, s) <=> t \in Stmts /\ IsInBranch(t, s) /\ IsLast(ast, t)
  <2>1. \A t : t \in Successors(Inward, s) <=> <<s, t>> \in Inward
    BY InwardGoesOn, SuccessorsAreEnds
  <2>2. \A t : <<s, t>> \in Inward <=> t \in Stmts /\ IsInBranch(t, s) /\ IsLast(ast, t)
    BY DEF Inward
  <2> QED
    BY <2>1, <2>2
<1>2. CASE ast[s].kind # "if"
  BY <1>1, <1>2 DEF IsInBranch
<1>3. CASE ast[s].kind = "if"
  <2>1. Children(ast, Then(s)) # {} /\ Children(ast, Else(s)) # {}
    BY <1>3, ContainersAreFilled
  <2>2. ASSUME NEW list, Children(ast, list) # {}
        PROVE  /\ LastStmt(ast, list) \in Stmts /\ ast[LastStmt(ast, list)].list = list
               /\ IsLast(ast, LastStmt(ast, list))
               /\ \A t \in Stmts : ast[t].list = list /\ IsLast(ast, t) => t = LastStmt(ast, list)
    <3>1. LastStmt(ast, list) \in Stmts /\ ast[LastStmt(ast, list)].list = list
      BY <2>2, FirstAndLast DEF Children, Stmts
    <3> QED
      BY <3>1, LastIsLast
  <2>3. \A t \in Stmts : IsInBranch(t, s) <=> ast[t].list = Then(s) \/ ast[t].list = Else(s)
    BY <1>3 DEF IsInBranch
  <2>4. \A t : t \in Successors(Inward, s) <=> t \in {LastStmt(ast, Then(s)), LastStmt(ast, Else(s))}
    BY <1>1, <2>1, <2>2, <2>3
  <2> QED
    BY <1>3, <2>4
<1> QED
  BY <1>2, <1>3

LEMMA OutwardLeadsToIf ==
  ASSUME IsParsed, NEW s \in Stmts
  PROVE  Successors(Outward, s) = IF IsLast(ast, s) /\ ast[s].list.in \notin {"procedure", "while"}
                                  THEN {ast[s].list.of} ELSE {}
<1>1. \A p : p \in Successors(Outward, s) <=> p \in Stmts /\ IsInBranch(s, p) /\ IsLast(ast, s)
  <2>1. \A p : p \in Successors(Outward, s) <=> <<s, p>> \in Outward
    BY InwardGoesOn, SuccessorsAreEnds
  <2>2. ASSUME NEW p
        PROVE  <<s, p>> \in Outward <=> <<p, s>> \in Inward
    <3>1. ASSUME <<s, p>> \in Outward
          PROVE  <<p, s>> \in Inward
      <4>1. PICK e \in Inward : <<s, p>> = <<e[2], e[1]>>
        BY <3>1 DEF Outward, Swapped
      <4>2. e = <<e[1], e[2]>>
        BY DEF Inward
      <4> QED
        BY <4>1, <4>2
    <3>2. ASSUME <<p, s>> \in Inward
          PROVE  <<s, p>> \in Outward
      BY <3>2 DEF Outward, Swapped
    <3> QED
      BY <3>1, <3>2
  <2>3. \A p : <<p, s>> \in Inward <=> p \in Stmts /\ IsInBranch(s, p) /\ IsLast(ast, s)
    BY DEF Inward
  <2> QED
    BY <2>1, <2>2, <2>3
<1>2. CASE ast[s].list.in \in {"procedure", "while"}
  <2>1. \A p : ~IsInBranch(s, p)
    BY <1>2 DEF IsInBranch, Then, Else
  <2> QED
    BY <1>1, <1>2, <2>1
<1>3. CASE ast[s].list.in \notin {"procedure", "while"}
  <2>1. ~IsOutermost(s) /\ \A p : ~IsInBody(s, p)
    BY <1>3 DEF IsOutermost, IsInBody, Procedure, Body
  <2>2. PICK p \in Stmts : IsInBranch(s, p)
    BY <2>1, ListOfStmt DEF IsIn
  <2>3. \A n : IsInBranch(s, n) => n = ast[s].list.of
    BY DEF IsInBranch, Then, Else
  <2> QED
    BY <1>1, <1>3, <2>2, <2>3
<1> QED
  BY <1>2, <1>3

\* The statements that are executed last in s.
LEMMA ExitsAreInnermost ==
  ASSUME IsParsed, NEW s \in Stmts, NEW a
  PROVE  a \in Exits[s] <=> a \in {s} \cup ReachableFrom(Inward, Stmts, s) /\ ast[a].kind # "if"
<1> DEFINE own == [t \in Stmts |-> IF ast[t].kind = "if" THEN {} ELSE {t}]
           Is(f) == f = [t \in DOMAIN ast |->
                          IF ast[t].kind = "if" THEN f[LastStmt(ast, Then(t))] \cup f[LastStmt(ast, Else(t))] ELSE {t}]
<1>1. Inward \in SUBSET (Stmts \X Stmts)
  BY InwardGoesOn
<1>2. ASSUME NEW f
      PROVE  Is(f) <=> Collects(f, Stmts, Inward, own)
  <2>1. ASSUME NEW t \in Stmts
        PROVE  (IF ast[t].kind = "if" THEN f[LastStmt(ast, Then(t))] \cup f[LastStmt(ast, Else(t))] ELSE {t})
               = own[t] \cup UNION {f[m] : m \in Successors(Inward, t)}
    <3>1. CASE ast[t].kind = "if"
      <4>1. Successors(Inward, t) = {LastStmt(ast, Then(t)), LastStmt(ast, Else(t))} /\ own[t] = {}
        BY <3>1, InwardLeadsToLast
      <4> HIDE DEF own
      <4> QED
        BY <3>1, <4>1
    <3>2. CASE ast[t].kind # "if"
      <4>1. Successors(Inward, t) = {} /\ own[t] = {t}
        BY <3>2, InwardLeadsToLast
      <4> HIDE DEF own
      <4> QED
        BY <3>2, <4>1
    <3> QED
      BY <3>1, <3>2
  <2> HIDE DEF own
  <2> QED
    BY <2>1 DEF Collects, Stmts
<1>3. \E f : Is(f)
  BY <1>1, <1>2, CollectedFromSatisfies
<1>4. Exits = CHOOSE f : Is(f)
  BY DEF Exits
<1>5. Is(Exits)
  <2> HIDE DEF Is
  <2> QED
    BY <1>3, <1>4, Zenon
<1>6. Collects(Exits, Stmts, Inward, own)
  BY <1>2, <1>5
<1>7. Exits[s] = CollectedFrom(Stmts, Inward, own, s)
  BY <1>1, <1>6, NoKnotInwardOrOutward, CollectsUniquely
<1>8. ReachableFrom(Inward, Stmts, s) \subseteq Stmts
  BY DEF ReachableFrom
<1> QED
  BY <1>7, <1>8 DEF CollectedFrom

\* What is executed after s is after something that s is executed last in.
LEMMA AfterIsOutermost ==
  ASSUME IsParsed, NEW s \in Stmts, NEW b
  PROVE  b \in After[s] <=> \E t \in {s} \cup ReachableFrom(Outward, Stmts, s) : b \in NextAfter(t)
<1> DEFINE own == [t \in Stmts |-> NextAfter(t)]
           Body1(f, t) == IF ~IsLast(ast, t) THEN {Sibling(ast, t)}
                          ELSE CASE ast[t].list.in = "procedure" -> {}
                                 [] ast[t].list.in = "while"     -> {ast[t].list.of}
                                 [] OTHER                        -> f[ast[t].list.of]
           Is(f) == f = [t \in DOMAIN ast |-> Body1(f, t)]
<1>1. Outward \in SUBSET (Stmts \X Stmts)
  BY InwardGoesOn
<1>2. ASSUME NEW f
      PROVE  Is(f) <=> Collects(f, Stmts, Outward, own)
  <2>1. ASSUME NEW t \in Stmts
        PROVE  Body1(f, t) = own[t] \cup UNION {f[m] : m \in Successors(Outward, t)}
    <3>1. own[t] = NextAfter(t)
      OBVIOUS
    <3> HIDE DEF own
    <3>2. CASE IsLast(ast, t) /\ ast[t].list.in \notin {"procedure", "while"}
      <4>1. Successors(Outward, t) = {ast[t].list.of} /\ NextAfter(t) = {}
        BY <3>2, OutwardLeadsToIf DEF NextAfter
      <4> QED
        BY <3>1, <3>2, <4>1
    <3>3. CASE ~(IsLast(ast, t) /\ ast[t].list.in \notin {"procedure", "while"})
      <4>1. Successors(Outward, t) = {}
        BY <3>3, OutwardLeadsToIf
      <4>2. Body1(f, t) = NextAfter(t)
        BY <3>3 DEF NextAfter
      <4> HIDE DEF Body1
      <4> QED
        BY <3>1, <4>1, <4>2
    <3> QED
      BY <3>2, <3>3
  <2> HIDE DEF own, Body1
  <2> QED
    BY <2>1 DEF Collects, Stmts
<1>3. \E f : Is(f)
  BY <1>1, <1>2, CollectedFromSatisfies
<1>4. After = CHOOSE f : Is(f)
  BY DEF After
<1>5. Is(After)
  <2> HIDE DEF Is
  <2> QED
    BY <1>3, <1>4, Zenon
<1>6. Collects(After, Stmts, Outward, own)
  BY <1>2, <1>5
<1>7. After[s] = CollectedFrom(Stmts, Outward, own, s)
  BY <1>1, <1>6, NoKnotInwardOrOutward, CollectsUniquely
<1>8. ReachableFrom(Outward, Stmts, s) \subseteq Stmts
  BY DEF ReachableFrom
<1> QED
  BY <1>7, <1>8 DEF CollectedFrom

\* s is executed last in what it is an exit of, and after it comes what comes
\* after that.
LEMMA ExitsAndAfter ==
  ASSUME IsParsed, NEW a \in Stmts, ast[a].kind # "if", NEW b
  PROVE  b \in After[a] <=> \E s \in Stmts : a \in Exits[s] /\ b \in NextAfter(s)
<1>1. \A s \in Stmts : a \in Exits[s] <=> a = s \/ a \in ReachableFrom(Inward, Stmts, s)
  BY ExitsAreInnermost
<1>2. \A s \in Stmts : a \in ReachableFrom(Inward, Stmts, s) <=> s \in ReachableFrom(Outward, Stmts, a)
  <2>1. Inward \in SUBSET (Stmts \X Stmts)
    BY InwardGoesOn
  <2> QED
    BY <2>1, ReachableTurnedRound DEF Outward
<1>3. b \in After[a] <=> \E s \in {a} \cup ReachableFrom(Outward, Stmts, a) : b \in NextAfter(s)
  BY AfterIsOutermost
<1>4. ReachableFrom(Outward, Stmts, a) \subseteq Stmts
  BY DEF ReachableFrom
<1> QED
  BY <1>1, <1>2, <1>3, <1>4

\* The edges of a statement that is no list's last lead on, those of a loop
\* lead into and back.
EntersFrom(s) == CASE ast[s].kind = "if"    -> {FirstStmt(ast, Then(s)), FirstStmt(ast, Else(s))}
                   [] ast[s].kind = "while" -> {FirstStmt(ast, Body(s))}
                   [] OTHER                 -> {}

LEMMA EdgeIs ==
  ASSUME NEW s, NEW a, NEW b
  PROVE  <<a, b>> \in Edges(s) <=>
           \/ a = s /\ b \in EntersFrom(s)
           \/ ast[s].kind = "while" /\ a \in Exits[LastStmt(ast, Body(s))] /\ b = s
           \/ ~IsLast(ast, s) /\ a \in Exits[s] /\ b = Sibling(ast, s)
<1>1. CASE ast[s].kind = "if"
  BY <1>1 DEF Edges, EntersFrom
<1>2. CASE ast[s].kind = "while"
  BY <1>2 DEF Edges, EntersFrom
<1>3. CASE ast[s].kind \notin {"if", "while"}
  BY <1>3 DEF Edges, EntersFrom
<1> QED
  BY <1>1, <1>2, <1>3

LEMMA FlowIs ==
  ASSUME NEW a \in Stmts, NEW b
  PROVE  b \in FlowFrom(a) <=> b \in EntersFrom(a) \/ (ast[a].kind # "if" /\ b \in After[a])
<1>1. CASE ast[a].kind = "if"
  BY <1>1 DEF FlowFrom, EntersFrom
<1>2. CASE ast[a].kind = "while"
  BY <1>2 DEF FlowFrom, EntersFrom
<1>3. CASE ast[a].kind \notin {"if", "while"}
  BY <1>3 DEF FlowFrom, EntersFrom
<1> QED
  BY <1>1, <1>2, <1>3

LEMMA LoopEndsWith ==
  ASSUME IsParsed
  PROVE  /\ \A w \in Stmts : ast[w].kind = "while" =>
              LET l == LastStmt(ast, Body(w)) IN l \in Stmts /\ IsLast(ast, l) /\ ast[l].list.in = "while" /\ ast[l].list.of = w
         /\ \A l \in Stmts : IsLast(ast, l) /\ ast[l].list.in = "while" =>
              LET w == ast[l].list.of IN w \in Stmts /\ ast[w].kind = "while" /\ l = LastStmt(ast, Body(w)) /\ w < l
<1>1. ASSUME NEW w \in Stmts, ast[w].kind = "while"
      PROVE  LET l == LastStmt(ast, Body(w)) IN l \in Stmts /\ IsLast(ast, l) /\ ast[l].list.in = "while" /\ ast[l].list.of = w
  <2> DEFINE l == LastStmt(ast, Body(w))
  <2>1. Children(ast, Body(w)) # {}
    BY <1>1, ContainersAreFilled
  <2>2. l \in Stmts /\ ast[l].list = Body(w)
    BY <2>1, FirstAndLast DEF Children, Stmts
  <2>3. IsLast(ast, l)
    BY <2>2, LastIsLast
  <2> QED
    BY <2>2, <2>3 DEF Body
<1>2. ASSUME NEW l \in Stmts, IsLast(ast, l), ast[l].list.in = "while"
      PROVE  LET w == ast[l].list.of IN w \in Stmts /\ ast[w].kind = "while" /\ l = LastStmt(ast, Body(w)) /\ w < l
  <2>1. ~IsOutermost(l) /\ \A p : ~IsInBranch(l, p)
    BY <1>2 DEF IsOutermost, IsInBranch, Procedure, Then, Else
  <2>2. PICK p \in Stmts : IsInBody(l, p) /\ p < l
    BY <2>1, ListOfStmt DEF IsIn
  <2>3. p = ast[l].list.of /\ ast[l].list = Body(p) /\ ast[p].kind = "while"
    BY <2>2 DEF IsInBody, Body
  <2> QED
    BY <1>2, <2>2, <2>3, LastIsLast
<1> QED
  BY <1>1, <1>2

\* The graph that is built is the flow of control.
LEMMA EdgesAreFlow ==
  ASSUME IsParsed
  PROVE  UNION {Edges(s) : s \in Stmts} = ControlFlow(ast)
<1>1. \A s \in Stmts : Exits[s] \subseteq Stmts
  BY ExitsAreInnermost DEF ReachableFrom
<1>2. ASSUME NEW s \in Stmts, NEW a, NEW b, <<a, b>> \in Edges(s)
      PROVE  a \in Stmts /\ b \in FlowFrom(a)
  <2>1. CASE a = s /\ b \in EntersFrom(s)
    BY <2>1, FlowIs
  <2>2. CASE ast[s].kind = "while" /\ a \in Exits[LastStmt(ast, Body(s))] /\ b = s
    <3> DEFINE l == LastStmt(ast, Body(s))
    <3>1. l \in Stmts /\ IsLast(ast, l) /\ ast[l].list.in = "while" /\ ast[l].list.of = s
      BY <2>2, LoopEndsWith
    <3>2. b \in NextAfter(l)
      BY <2>2, <3>1 DEF NextAfter
    <3> HIDE DEF l
    <3>3. a \in Exits[l]
      BY <2>2 DEF l
    <3>4. a \in Stmts /\ ast[a].kind # "if"
      BY <1>1, <3>1, <3>3, ExitsAreInnermost
    <3>5. b \in After[a]
      BY <3>1, <3>2, <3>3, <3>4, ExitsAndAfter
    <3> QED
      BY <3>4, <3>5, FlowIs
  <2>3. CASE ~IsLast(ast, s) /\ a \in Exits[s] /\ b = Sibling(ast, s)
    <3>1. b \in NextAfter(s)
      BY <2>3 DEF NextAfter
    <3>2. a \in Stmts /\ ast[a].kind # "if"
      BY <1>1, <2>3, ExitsAreInnermost
    <3>3. b \in After[a]
      BY <2>3, <3>1, <3>2, ExitsAndAfter
    <3> QED
      BY <3>2, <3>3, FlowIs
  <2> QED
    BY <1>2, <2>1, <2>2, <2>3, EdgeIs
<1>3. ASSUME NEW a \in Stmts, NEW b, b \in FlowFrom(a)
      PROVE  \E s \in Stmts : <<a, b>> \in Edges(s)
  <2>1. CASE b \in EntersFrom(a)
    BY <2>1, EdgeIs
  <2>2. CASE ast[a].kind # "if" /\ b \in After[a]
    <3>1. PICK s \in Stmts : a \in Exits[s] /\ b \in NextAfter(s)
      BY <2>2, ExitsAndAfter
    <3>2. CASE ~IsLast(ast, s)
      <4>1. b = Sibling(ast, s)
        BY <3>1, <3>2 DEF NextAfter
      <4> QED
        BY <3>1, <3>2, <4>1, EdgeIs
    <3>3. CASE IsLast(ast, s)
      <4>1. ast[s].list.in = "while" /\ b = ast[s].list.of
        BY <3>1, <3>3 DEF NextAfter
      <4>2. b \in Stmts /\ ast[b].kind = "while" /\ s = LastStmt(ast, Body(b))
        BY <3>3, <4>1, LoopEndsWith
      <4>3. <<a, b>> \in Edges(b)
        BY <3>1, <4>2, EdgeIs
      <4> QED
        BY <4>2, <4>3
    <3> QED
      BY <3>2, <3>3
  <2> QED
    BY <1>3, <2>1, <2>2, FlowIs
<1>4. \A s \in Stmts : \A e \in Edges(s) : e = <<e[1], e[2]>>
  BY DEF Edges
<1>5. \A e \in ControlFlow(ast) : e = <<e[1], e[2]>> /\ e[1] \in Stmts /\ e[2] \in FlowFrom(e[1])
  BY FlowIsFromStmts
<1>6. \A a \in Stmts : \A b \in FlowFrom(a) : <<a, b>> \in ControlFlow(ast)
  BY FlowIsFromStmts
<1>7. UNION {Edges(s) : s \in Stmts} \subseteq ControlFlow(ast)
  <2> SUFFICES ASSUME NEW s \in Stmts, NEW e \in Edges(s)
               PROVE  e \in ControlFlow(ast)
    OBVIOUS
  <2>1. e = <<e[1], e[2]>>
    BY <1>4
  <2>2. e[1] \in Stmts /\ e[2] \in FlowFrom(e[1])
    BY <1>2, <2>1
  <2> QED
    BY <1>6, <2>1, <2>2
<1>8. ControlFlow(ast) \subseteq UNION {Edges(s) : s \in Stmts}
  <2> SUFFICES ASSUME NEW e \in ControlFlow(ast)
               PROVE  \E s \in Stmts : e \in Edges(s)
    OBVIOUS
  <2>1. e = <<e[1], e[2]>> /\ e[1] \in Stmts /\ e[2] \in FlowFrom(e[1])
    BY <1>5
  <2> QED
    BY <1>3, <2>1
<1> QED
  BY <1>7, <1>8

\* Control flows between statements, and from none to itself.
LEMMA FlowIsProper ==
  ASSUME IsParsed
  PROVE  /\ ControlFlow(ast) \in SUBSET (Stmts \X Stmts)
         /\ \A e \in ControlFlow(ast) : e[1] # e[2] /\ ArePositive(e)
<1>1. Stmts \subseteq Nat \ {0}
  BY StmtsAreNumbered
<1>2. ASSUME NEW s \in Stmts, NEW b \in EntersFrom(s)
      PROVE  b \in Stmts /\ s < b
  <2>1. CASE ast[s].kind = "if"
    <3>1. Children(ast, Then(s)) # {} /\ Children(ast, Else(s)) # {}
      BY <2>1, ContainersAreFilled
    <3>2. b \in Children(ast, Then(s)) \/ b \in Children(ast, Else(s))
      BY <2>1, <3>1, FirstAndLast DEF EntersFrom
    <3>3. b \in Stmts /\ ast[b].list \in {Then(s), Else(s)}
      BY <3>2 DEF Children, Stmts
    <3> QED
      BY <3>3, ChildrenAreIn DEF IsIn
  <2>2. CASE ast[s].kind = "while"
    <3>1. b \in Children(ast, Body(s))
      BY <2>2, ContainersAreFilled, FirstAndLast DEF EntersFrom
    <3>2. b \in Stmts /\ ast[b].list = Body(s)
      BY <3>1 DEF Children, Stmts
    <3> QED
      BY <3>2, ChildrenAreIn DEF IsIn
  <2>3. CASE ast[s].kind \notin {"if", "while"}
    BY <2>3 DEF EntersFrom
  <2> QED
    BY <2>1, <2>2, <2>3
<1>3. ASSUME NEW a \in Stmts, ast[a].kind # "if", NEW b \in After[a]
      PROVE  b \in Stmts /\ a # b
  <2>1. PICK s \in {a} \cup ReachableFrom(Outward, Stmts, a) : b \in NextAfter(s)
    BY <1>3, AfterIsOutermost
  <2>2. s \in Stmts
    BY <2>1 DEF ReachableFrom
  <2>3. s = a \/ (s <= ast[a].list.of /\ IsIn(a, ast[a].list.of))
    <3> SUFFICES ASSUME s # a
                 PROVE  s <= ast[a].list.of /\ IsIn(a, ast[a].list.of)
      OBVIOUS
    <3>0. PICK p : p = ast[a].list.of
      OBVIOUS
    <3> DEFINE S == {t \in Stmts : t <= p}
    <3>1. \A e \in Outward : e[1] \in Stmts /\ e[2] \in Stmts /\ e[2] < e[1]
      BY InwardGoesOn
    <3>2. Successors(Outward, a) \subseteq {p} /\ s \in ReachableFrom(Outward, Stmts, a)
      BY <2>1, <3>0, OutwardLeadsToIf
    <3>3. PICK n \in Successors(Outward, a) : TRUE
      BY <3>2, InwardGoesOn, ReachableUnfolds
    <3>4. n = p /\ <<a, p>> \in Outward
      BY <3>2, <3>3, InwardGoesOn, SuccessorsAreEnds
    <3>5. p \in Stmts /\ p < a
      <4>1. <<a, p>>[1] = a /\ <<a, p>>[2] = p
        OBVIOUS
      <4> QED
        BY <3>1, <3>4, <4>1
    <3>6. \A m \in S : Successors(Outward, m) \subseteq S
      <4>1. \A m, q : m \in S /\ q \in Stmts /\ q < m => q \in S
        BY <1>1, <3>5
      <4> QED
        BY <3>1, <4>1 DEF Successors
    <3>7. Successors(Outward, a) \subseteq S
      BY <1>1, <3>2, <3>5
    <3>8. S \in SUBSET Stmts
      OBVIOUS
    <3>9. s <= p
      <4> HIDE DEF S
      <4>1. ReachableFrom(Outward, Stmts, a) \subseteq S
        BY <3>6, <3>7, <3>8, ReachableIsLeast
      <4> QED
        BY <3>2, <4>1 DEF S
    <3>10. ~IsOutermost(a)
      <4>1. ast[a].list.in # "procedure"
        BY <3>3, OutwardLeadsToIf
      <4> QED
        BY <4>1 DEF IsOutermost, Procedure
    <3>11. PICK q \in Stmts : IsIn(a, q)
      BY <3>10, ListOfStmt
    <3>12. q = p
      BY <3>0, <3>11 DEF IsIn, IsInBody, IsInBranch, Body, Then, Else
    <3> QED
      BY <3>0, <3>9, <3>11, <3>12
  <2>4. CASE IsLast(ast, s)
    <3>1. ast[s].list.in = "while" /\ b = ast[s].list.of
      BY <2>1, <2>4 DEF NextAfter
    <3>2. b \in Stmts /\ b < s
      BY <2>2, <2>4, <3>1, LoopEndsWith
    <3>3. CASE s = a
      BY <1>1, <2>2, <3>2, <3>3
    <3>4. CASE s <= ast[a].list.of /\ IsIn(a, ast[a].list.of)
      <4>1. PICK q : q = ast[a].list.of
        OBVIOUS
      <4>2. s <= q /\ IsIn(a, q)
        BY <3>4, <4>1
      <4>3. q \in Stmts /\ q < a
        BY <4>2 DEF IsIn
      <4> QED
        BY <1>1, <2>2, <3>2, <4>2, <4>3
    <3> QED
      BY <2>3, <3>3, <3>4
  <2>5. CASE ~IsLast(ast, s)
    <3>1. b = Sibling(ast, s)
      BY <2>1, <2>5 DEF NextAfter
    <3>2. b \in Stmts /\ s < b /\ ast[b].list = ast[s].list
      BY <2>2, <2>5, <3>1, SiblingIsNext DEF Children, Stmts
    <3>3. CASE s = a
      BY <1>1, <3>2, <3>3
    <3>4. CASE s # a /\ a = b
      <4>1. s <= ast[s].list.of /\ IsIn(a, ast[s].list.of) /\ ast[a].list = ast[s].list
        BY <2>3, <3>2, <3>4
      <4>2. ast[s].list.of < s /\ ast[s].list.of \in Stmts
        <5>1. ParentOf(ast, s) = ParentOf(ast, a)
          BY <4>1 DEF ParentOf
        <5>2. ParentOf(ast, a) = ast[s].list.of /\ ast[s].list.of \in Stmts
          BY <4>1 DEF IsIn
        <5> QED
          BY <1>1, <2>2, <5>1, <5>2, ListOfStmt DEF IsIn, IsOutermost
      <4>3. s \in Nat /\ ast[s].list.of \in Nat
        BY <1>1, <2>2, <4>2
      <4>4. \A x, y \in Nat : x <= y => ~(y < x)
        OBVIOUS
      <4> QED
        BY <4>1, <4>2, <4>3, <4>4, Zenon
    <3> QED
      BY <3>2, <3>3, <3>4
  <2> QED
    BY <2>4, <2>5
<1>4. ASSUME NEW e \in ControlFlow(ast)
      PROVE  e = <<e[1], e[2]>> /\ e[1] \in Stmts /\ e[2] \in Stmts /\ e[1] # e[2]
  <2>1. e = <<e[1], e[2]>> /\ e[1] \in Stmts /\ e[2] \in FlowFrom(e[1])
    BY FlowIsFromStmts
  <2>2. CASE e[2] \in EntersFrom(e[1])
    BY <1>1, <1>2, <2>1, <2>2
  <2>3. CASE ast[e[1]].kind # "if" /\ e[2] \in After[e[1]]
    BY <1>3, <2>1, <2>3
  <2> QED
    BY <2>1, <2>2, <2>3, FlowIs
<1>5. ControlFlow(ast) \subseteq Stmts \X Stmts
  BY <1>4
<1>6. \A e \in ControlFlow(ast) : ArePositive(e)
  BY <1>1, <1>4 DEF ArePositive
<1> QED
  BY <1>4, <1>5, <1>6

(***************************************************************************)
(* The transitive closures: of Next as many steps deep as there are        *)
(* statements, of Calls down a graph without cycles.                       *)
(***************************************************************************)
Goes(f, n, T, first, step) ==
  f \in [0..n -> T] /\ f[0] = first /\ \A i \in 1..n : f[i] = step[f[i - 1]]

LEMMA StepsExist ==
  ASSUME NEW T, NEW first \in T, NEW step \in [T -> T], NEW N \in Nat
  PROVE  \E f : Goes(f, N, T, first, step)
<1> DEFINE Is(f, n) == f \in [0..n -> T] /\ f[0] = first /\ \A i \in 1..n : f[i] = step[f[i - 1]]
           Bad == {n \in Nat : ~\E f : Is(f, n)}
<1>1. Bad = {}
  <2> SUFFICES ASSUME Bad # {} PROVE FALSE
    OBVIOUS
  <2>1. PICK n \in Bad : \A k \in Bad : n <= k
    <3>1. Bad \in SUBSET Nat
      OBVIOUS
    <3> HIDE DEF Bad
    <3> QED
      BY <3>1, LeastElement
  <2>2. n \in Nat /\ ~\E f : Is(f, n)
    OBVIOUS
  <2>3. n # 0
    <3>1. Is([i \in 0..0 |-> first], 0)
      OBVIOUS
    <3> QED
      BY <2>2, <3>1
  <2>4. n - 1 \in Nat /\ ~(n <= n - 1)
    BY <2>2, <2>3
  <2>5. PICK g : Is(g, n - 1)
    BY <2>1, <2>4
  <2> DEFINE h == [i \in 0..n |-> IF i = n THEN step[g[n - 1]] ELSE g[i]]
  <2>6. n - 1 \in 0..(n - 1) /\ g[n - 1] \in T
    BY <2>4, <2>5
  <2>7. \A i \in 0..n : i # n => i \in 0..(n - 1)
    BY <2>2
  <2>8. h \in [0..n -> T]
    BY <2>5, <2>6, <2>7
  <2>9. h[0] = first
    BY <2>2, <2>3, <2>5
  <2>10. ASSUME NEW i \in 1..n
         PROVE  h[i] = step[h[i - 1]]
    <3>1. i - 1 \in 0..n /\ i - 1 # n /\ i \in 0..n /\ (i # n => i \in 1..(n - 1))
      BY <2>2
    <3>2. h[i - 1] = g[i - 1]
      BY <3>1
    <3>3. CASE i = n
      BY <3>1, <3>2, <3>3
    <3>4. CASE i # n
      <4>1. h[i] = g[i]
        BY <3>1, <3>4
      <4>2. g[i] = step[g[i - 1]]
        BY <2>5, <3>1, <3>4
      <4> QED
        BY <3>2, <4>1, <4>2
    <3> QED
      BY <3>3, <3>4
  <2>11. Is(h, n)
    BY <2>8, <2>9, <2>10
  <2> QED
    BY <2>2, <2>11
<1>2. N \notin Bad
  <2> HIDE DEF Bad
  <2> QED
    BY <1>1
<1>3. \E f : Is(f, N)
  <2> HIDE DEF Is
  <2> QED
    BY <1>2
<1> QED
  BY <1>3 DEF Goes

OneFurther(reached, edges) ==
  reached \cup {<<q[1][1], q[2][2]>> : q \in {r \in reached \X edges : r[1][2] = r[2][1]}}

LEMMA OneFurtherIs ==
  ASSUME NEW N, NEW edges \in SUBSET (N \X N), NEW reached \in SUBSET (N \X N)
  PROVE  /\ OneFurther(reached, edges) \in SUBSET (N \X N)
         /\ \A a, b : <<a, b>> \in OneFurther(reached, edges) <=>
                        <<a, b>> \in reached \/ \E m \in N : <<a, m>> \in reached /\ <<m, b>> \in edges
<1>1. ASSUME NEW q \in reached \X edges
      PROVE  /\ q[1] = <<q[1][1], q[1][2]>> /\ q[2] = <<q[2][1], q[2][2]>>
             /\ {q[1][1], q[1][2], q[2][1], q[2][2]} \subseteq N
  OBVIOUS
<1>2. OneFurther(reached, edges) \in SUBSET (N \X N)
  BY <1>1 DEF OneFurther
<1>3. ASSUME NEW a, NEW b, <<a, b>> \in OneFurther(reached, edges), <<a, b>> \notin reached
      PROVE  \E m \in N : <<a, m>> \in reached /\ <<m, b>> \in edges
  <2>1. PICK q \in reached \X edges : q[1][2] = q[2][1] /\ <<a, b>> = <<q[1][1], q[2][2]>>
    BY <1>3 DEF OneFurther
  <2>2. q[1] \in reached /\ q[2] \in edges
    OBVIOUS
  <2>3. q[1] = <<a, q[1][2]>> /\ q[2] = <<q[1][2], b>> /\ q[1][2] \in N
    BY <1>1, <2>1
  <2> QED
    BY <2>2, <2>3
<1>4. ASSUME NEW a, NEW b, NEW m \in N, <<a, m>> \in reached, <<m, b>> \in edges
      PROVE  <<a, b>> \in OneFurther(reached, edges)
  <2> DEFINE q == <<<<a, m>>, <<m, b>>>>
  <2>1. q \in reached \X edges /\ q[1][2] = q[2][1] /\ <<q[1][1], q[2][2]>> = <<a, b>>
    BY <1>4
  <2> HIDE DEF q
  <2> QED
    BY <2>1 DEF OneFurther
<1>5. reached \subseteq OneFurther(reached, edges)
  BY DEF OneFurther
<1> QED
  BY <1>2, <1>3, <1>4, <1>5

LEMMA ReachableIsClosure ==
  ASSUME IsParsed, NEW edges \in SUBSET (Stmts \X Stmts)
  PROVE  Reachable(edges) = TransitiveClosure(edges, Stmts)
<1> DEFINE T == SUBSET (Stmts \X Stmts)
           step == [r \in T |-> OneFurther(r, edges)]
           Is(f) == f = [n \in 0..Len(ast) |-> IF n = 0 THEN edges ELSE OneFurther(f[n - 1], edges)]
<1>1. Len(ast) \in Nat /\ Stmts = 1..Len(ast)
  BY StmtsAreNumbered
<1>2. \A r \in T : OneFurther(r, edges) \in T
  BY OneFurtherIs
<1>3. PICK g : Goes(g, Len(ast), T, edges, step)
  <2>1. edges \in T /\ step \in [T -> T]
    BY <1>2
  <2> HIDE DEF T, step
  <2> QED
    BY <1>1, <2>1, StepsExist
<1>4. Is(g)
  <2>4. g \in [0..Len(ast) -> T] /\ g[0] = edges /\ \A n \in 1..Len(ast) : g[n] = step[g[n - 1]]
    BY <1>3 DEF Goes
  <2>1. \A n \in 0..Len(ast) : n # 0 => n \in 1..Len(ast) /\ n - 1 \in 0..Len(ast)
    BY <1>1
  <2>2. \A n \in 0..Len(ast) : n # 0 => step[g[n - 1]] = OneFurther(g[n - 1], edges)
    <3>1. \A n \in 0..Len(ast) : g[n] \in T
      BY <2>4
    <3>2. \A r \in T : step[r] = OneFurther(r, edges)
      OBVIOUS
    <3> HIDE DEF step, T
    <3> QED
      BY <2>1, <3>1, <3>2
  <2> HIDE DEF step, T
  <2>3. \A n \in 0..Len(ast) : g[n] = IF n = 0 THEN edges ELSE OneFurther(g[n - 1], edges)
    BY <2>1, <2>2, <2>4
  <2> QED
    BY <2>3, <2>4
<1> DEFINE f == CHOOSE h : Is(h)
<1>5. Is(f)
  <2> HIDE DEF Is
  <2> QED
    BY <1>4, Zenon
<1>6. Reachable(edges) = f[Len(ast)]
  BY DEF Reachable, OneFurther
<1> HIDE DEF f
<1>7. /\ f[0] = edges
      /\ \A n \in 1..Len(ast) : f[n] = OneFurther(f[n - 1], edges)
  <2>1. 0 \in 0..Len(ast) /\ \A n \in 1..Len(ast) : n \in 0..Len(ast) /\ n # 0
    BY <1>1
  <2> QED
    BY <1>5, <2>1
\* Nothing else is reached.
<1>8. \A n \in 0..Len(ast) : f[n] \in T /\ f[n] \subseteq TransitiveClosure(edges, Stmts)
  <2> DEFINE Bad == {n \in 0..Len(ast) : ~(f[n] \in T /\ f[n] \subseteq TransitiveClosure(edges, Stmts))}
  <2> SUFFICES ASSUME Bad # {} PROVE FALSE
    OBVIOUS
  <2>1. PICK n \in Bad : \A k \in Bad : n <= k
    <3>1. Bad \in SUBSET Nat
      OBVIOUS
    <3> HIDE DEF Bad
    <3> QED
      BY <3>1, LeastElement
  <2>2. \A a, b : <<a, b>> \in TransitiveClosure(edges, Stmts) <=> a \in Stmts /\ b \in ReachableFrom(edges, Stmts, a)
    BY DEF TransitiveClosure
  <2>3. CASE n = 0
    <3>1. \A a, b : <<a, b>> \in edges => <<a, b>> \in TransitiveClosure(edges, Stmts)
      BY <2>2, ReachableIsClosed, SuccessorsAreEnds
    <3>2. f[n] = edges /\ edges \in T /\ edges \subseteq TransitiveClosure(edges, Stmts)
      BY <1>7, <2>3, <3>1
    <3> QED
      BY <2>1, <3>2
  <2>4. CASE n # 0
    <3>1. n \in 1..Len(ast) /\ n - 1 \in 0..Len(ast) /\ ~(n <= n - 1)
      BY <1>1, <2>4
    <3>2. f[n - 1] \in T /\ f[n - 1] \subseteq TransitiveClosure(edges, Stmts)
      BY <2>1, <3>1
    <3>3. f[n] = OneFurther(f[n - 1], edges)
      BY <1>7, <3>1
    <3>4. f[n] \in T
      BY <3>2, <3>3, OneFurtherIs
    <3>5. ASSUME NEW a, NEW b, <<a, b>> \in f[n]
          PROVE  <<a, b>> \in TransitiveClosure(edges, Stmts)
      <4>3. <<a, b>> \in f[n - 1] \/ \E m \in Stmts : <<a, m>> \in f[n - 1] /\ <<m, b>> \in edges
        <5>1. PICK r \in T : r = f[n - 1]
          BY <3>2
        <5>2. <<a, b>> \in OneFurther(r, edges) => <<a, b>> \in r \/ \E m \in Stmts : <<a, m>> \in r /\ <<m, b>> \in edges
          BY OneFurtherIs
        <5> QED
          BY <3>3, <3>5, <5>1, <5>2
      <4>1. CASE <<a, b>> \in f[n - 1]
        BY <3>2, <4>1
      <4>2. CASE \E m \in Stmts : <<a, m>> \in f[n - 1] /\ <<m, b>> \in edges
        <5>1. PICK m \in Stmts : <<a, m>> \in f[n - 1] /\ <<m, b>> \in edges
          BY <4>2
        <5>2. a \in Stmts /\ m \in ReachableFrom(edges, Stmts, a) /\ b \in Successors(edges, m)
          BY <2>2, <3>2, <5>1, SuccessorsAreEnds
        <5> QED
          BY <2>2, <5>2, ReachableIsClosed
      <4> QED
        BY <4>1, <4>2, <4>3
    <3>6. f[n] \subseteq TransitiveClosure(edges, Stmts)
      BY <3>4, <3>5
    <3> QED
      BY <2>1, <3>4, <3>6
  <2> QED
    BY <2>3, <2>4
\* From one statement: after n steps n are reached, or no step leads further.
<1>9. ASSUME NEW a \in Stmts
      PROVE  ReachableFrom(edges, Stmts, a) \subseteq {b \in Stmts : <<a, b>> \in f[Len(ast)]}
  <2> DEFINE A(n) == {b \in Stmts : <<a, b>> \in f[n]}
             IsClosed(n) == \A m \in A(n) : Successors(edges, m) \subseteq A(n)
             Bad == {n \in 0..Len(ast) : ~(Successors(edges, a) \subseteq A(n) /\ (IsClosed(n) \/ Cardinality(A(n)) >= n))}
  <2>1. IsFiniteSet(Stmts) /\ Cardinality(Stmts) = Len(ast)
    <3>1. IsFiniteSet(1..Len(ast))
      BY <1>1, FS_Interval
    <3>2. Cardinality(1..Len(ast)) = IF 1 > Len(ast) THEN 0 ELSE Len(ast) - 1 + 1
      BY <1>1, FS_Interval
    <3> QED
      BY <1>1, <3>1, <3>2
  <2>2. \A n : A(n) \in SUBSET Stmts
    OBVIOUS
  <2>3. \A n : IsFiniteSet(A(n)) /\ Cardinality(A(n)) \in Nat
    BY <2>1, <2>2, FS_Subset, FS_CardinalityType
  <2>4. \A m : Successors(edges, m) \subseteq Stmts
    BY DEF Successors
  <2>5. ASSUME NEW n \in 1..Len(ast)
        PROVE  \A b \in Stmts : b \in A(n) <=> b \in A(n - 1) \/ \E m \in A(n - 1) : b \in Successors(edges, m)
    <3>1. n - 1 \in 0..Len(ast)
      BY <1>1
    <3>2. f[n - 1] \in SUBSET (Stmts \X Stmts) /\ f[n] = OneFurther(f[n - 1], edges)
      BY <1>7, <1>8, <3>1
    <3>3. \A b : <<a, b>> \in f[n] <=> <<a, b>> \in f[n - 1] \/ \E m \in Stmts : <<a, m>> \in f[n - 1] /\ <<m, b>> \in edges
      <4>1. PICK r \in SUBSET (Stmts \X Stmts) : r = f[n - 1]
        BY <3>2
      <4>2. \A b : <<a, b>> \in OneFurther(r, edges) <=> <<a, b>> \in r \/ \E m \in Stmts : <<a, m>> \in r /\ <<m, b>> \in edges
        BY OneFurtherIs
      <4> QED
        BY <3>2, <4>1, <4>2
    <3>4. \A m, b : b \in Successors(edges, m) <=> <<m, b>> \in edges
      BY SuccessorsAreEnds
    <3> QED
      BY <3>3, <3>4
  <2>6. Successors(edges, a) \subseteq A(0)
    BY <1>7, <2>4, SuccessorsAreEnds
  <2> HIDE DEF A
  <2>7. Bad = {}
    <3> SUFFICES ASSUME Bad # {} PROVE FALSE
      OBVIOUS
    <3>1. PICK n \in Bad : \A k \in Bad : n <= k
      <4>1. Bad \in SUBSET Nat
        OBVIOUS
      <4> HIDE DEF Bad
      <4> QED
        BY <4>1, LeastElement
    <3>2. CASE n = 0
      BY <2>3, <2>6, <3>1, <3>2
    <3>3. CASE n # 0
      <4>1. n \in 1..Len(ast) /\ n - 1 \in 0..Len(ast) /\ ~(n <= n - 1)
        BY <1>1, <3>3
      <4>2. Successors(edges, a) \subseteq A(n - 1) /\ (IsClosed(n - 1) \/ Cardinality(A(n - 1)) >= n - 1)
        BY <3>1, <4>1
      <4>3. A(n - 1) \subseteq A(n)
        BY <2>2, <2>5, <4>1
      <4>4. CASE IsClosed(n - 1)
        <5>1. A(n) = A(n - 1)
          BY <2>2, <2>5, <4>1, <4>4
        <5> QED
          BY <3>1, <4>2, <4>4, <5>1
      <4>5. CASE ~IsClosed(n - 1)
        <5>1. PICK m \in A(n - 1) : \E c \in Successors(edges, m) : c \notin A(n - 1)
          BY <4>5
        <5>7. PICK b \in Successors(edges, m) : b \notin A(n - 1)
          BY <5>1
        <5>2. b \in A(n)
          BY <2>4, <2>5, <4>1, <5>7
        <5>3. A(n - 1) # A(n) /\ A(n - 1) \in SUBSET A(n)
          BY <4>3, <5>2, <5>7
        <5>4. /\ Cardinality(A(n - 1)) <= Cardinality(A(n))
              /\ Cardinality(A(n - 1)) # Cardinality(A(n))
          BY <2>3, <5>3, FS_Subset
        <5>5. Cardinality(A(n - 1)) >= n - 1
          BY <4>2, <4>5
        <5>6. Cardinality(A(n)) >= n
          BY <1>1, <2>3, <4>1, <5>4, <5>5
        <5> QED
          BY <3>1, <4>2, <4>3, <5>6
      <4> QED
        BY <4>4, <4>5
    <3> QED
      BY <3>2, <3>3
  <2>8. Successors(edges, a) \subseteq A(Len(ast)) /\ (IsClosed(Len(ast)) \/ Cardinality(A(Len(ast))) >= Len(ast))
    <3>1. Len(ast) \in 0..Len(ast)
      BY <1>1
    <3> QED
      BY <2>7, <3>1
  <2>9. CASE Cardinality(A(Len(ast))) >= Len(ast)
    <3>1. Cardinality(A(Len(ast))) <= Cardinality(Stmts)
      BY <2>1, <2>2, FS_Subset
    <3>2. Cardinality(A(Len(ast))) = Cardinality(Stmts)
      BY <1>1, <2>1, <2>3, <2>9, <3>1
    <3>3. A(Len(ast)) = Stmts
      BY <2>1, <2>2, <3>2, FS_Subset
    <3> QED
      BY <3>3 DEF ReachableFrom, A
  <2>10. CASE IsClosed(Len(ast))
    <3>1. ReachableFrom(edges, Stmts, a) \subseteq A(Len(ast))
      BY <2>2, <2>8, <2>10, ReachableIsLeast
    <3> QED
      BY <3>1 DEF A
  <2> QED
    BY <2>8, <2>9, <2>10
<1>10. TransitiveClosure(edges, Stmts) \subseteq f[Len(ast)]
  BY <1>9 DEF TransitiveClosure
<1>11. Len(ast) \in 0..Len(ast)
  BY <1>1
<1> QED
  BY <1>6, <1>8, <1>10, <1>11

(***************************************************************************)
(* The calls: a procedure does not reach itself, so that going down from   *)
(* one ends, and collects what it reaches.                                 *)
(***************************************************************************)
LEMMA NamesAreFinite ==
  ASSUME IsParsed
  PROVE  /\ IsFiniteSet(ToSet(pnames))
         /\ Cardinality(ProceduresOf(ast)) = Len(pnames)
<1>1. Len(pnames) \in Nat /\ DOMAIN pnames = 1..Len(pnames)
  BY StmtsAreNumbered
<1>2. IsFiniteSet(1..Len(pnames)) /\ Cardinality(1..Len(pnames)) = Len(pnames)
  <2>1. IsFiniteSet(1..Len(pnames))
    BY <1>1, FS_Interval
  <2>2. Cardinality(1..Len(pnames)) = IF 1 > Len(pnames) THEN 0 ELSE Len(pnames) - 1 + 1
    BY <1>1, FS_Interval
  <2> QED
    BY <1>1, <2>1, <2>2
<1>3. pnames \in Surjection(1..Len(pnames), ToSet(pnames))
  <2>1. pnames \in [1..Len(pnames) -> ToSet(pnames)]
    <3>1. pnames \in Seq(ToSet(pnames))
      BY DEF IsParsed
    <3> HIDE DEF ToSet
    <3> QED
      BY <1>1, <3>1
  <2>2. \A t \in ToSet(pnames) : \E s \in 1..Len(pnames) : pnames[s] = t
    BY <1>1 DEF ToSet
  <2> QED
    BY <2>1, <2>2 DEF Surjection
<1>4. IsFiniteSet(ToSet(pnames))
  BY <1>2, <1>3, FS_Surjection
<1>5. ProceduresOf(ast) = 1..Len(pnames)
  BY <1>1 DEF IsParsed
<1> QED
  BY <1>2, <1>4, <1>5

LEMMA CallsHaveNoKnot ==
  ASSUME IsParsed
  PROVE  /\ Calls \in SUBSET (ToSet(pnames) \X ToSet(pnames))
         /\ HasNoKnot(Calls)
<1> DEFINE P == ToSet(pnames)
           R(p) == ReachableFrom(Calls, P, p)
           Size(p) == Cardinality(R(p))
<1>1. Calls \in SUBSET (P \X P) /\ \A p \in P : p \notin R(p)
  BY DEF IsParsed
<1>2. IsFiniteSet(P)
  BY NamesAreFinite
<1>3. \A p : R(p) \in SUBSET P
  BY DEF ReachableFrom
<1>4. \A p : IsFiniteSet(R(p)) /\ Size(p) \in Nat
  BY <1>2, <1>3, FS_Subset, FS_CardinalityType
<1>5. ASSUME NEW p, NEW q \in Successors(Calls, p)
      PROVE  Size(q) < Size(p)
  <2>1. {q} \cup R(q) \subseteq R(p)
    BY <1>1, ReachableIsTransitive
  <2>2. q \in P
    BY <1>3, <2>1
  <2>3. R(q) \in SUBSET R(p) /\ R(q) # R(p)
    BY <1>1, <2>1, <2>2
  <2> HIDE DEF R
  <2>4. Size(q) <= Size(p) /\ Size(q) # Size(p)
    BY <1>4, <2>3, FS_Subset
  <2> QED
    BY <1>4, <2>4
<1>6. ASSUME NEW T, \A t \in T : Successors(Calls, t) \cap T # {}
      PROVE  T = {}
  <2> SUFFICES ASSUME T # {} PROVE FALSE
    OBVIOUS
  <2> HIDE DEF Size
  <2> DEFINE Sizes == {Size(t) : t \in T}
  <2>1. Sizes \in SUBSET Nat /\ Sizes # {}
    BY <1>4
  <2>2. PICK i \in Sizes : \A j \in Sizes : i <= j
    <3> HIDE DEF Sizes
    <3> QED
      BY <2>1, LeastElement
  <2>3. PICK t \in T : i = Size(t)
    OBVIOUS
  <2>4. PICK u \in T : u \in Successors(Calls, t)
    BY <1>6
  <2>5. Size(u) < Size(t) /\ i <= Size(u)
    BY <1>5, <2>2, <2>4
  <2> QED
    BY <1>4, <2>3, <2>5
<1> QED
  BY <1>1, <1>6 DEF HasNoKnot

\* More nodes than the edges have add nothing.
LEMMA ReachableInMoreNodes ==
  ASSUME NEW M, NEW N, M \subseteq N, NEW edges \in SUBSET (M \X M), NEW a
  PROVE  ReachableFrom(edges, M, a) = ReachableFrom(edges, N, a)
<1>1. ReachableFrom(edges, M, a) \in SUBSET M /\ ReachableFrom(edges, N, a) \in SUBSET N
  BY DEF ReachableFrom
<1>2. edges \in SUBSET (N \X N)
  OBVIOUS
<1>3. ReachableFrom(edges, N, a) \subseteq ReachableFrom(edges, M, a)
  <2>1. /\ Successors(edges, a) \subseteq ReachableFrom(edges, M, a)
        /\ \A m \in ReachableFrom(edges, M, a) : Successors(edges, m) \subseteq ReachableFrom(edges, M, a)
    BY ReachableIsClosed
  <2>2. ReachableFrom(edges, M, a) \in SUBSET N
    BY <1>1
  <2> QED
    BY <2>1, <2>2, ReachableIsLeast
<1>4. ReachableFrom(edges, M, a) \subseteq ReachableFrom(edges, N, a)
  <2> DEFINE S == ReachableFrom(edges, N, a) \cap M
  <2>1. \A n : Successors(edges, n) \subseteq M
    BY DEF Successors
  <2>2. Successors(edges, a) \subseteq S
    BY <1>2, <2>1, ReachableIsClosed
  <2>3. \A m \in S : Successors(edges, m) \subseteq S
    BY <1>2, <2>1, ReachableIsClosed
  <2> QED
    BY <2>2, <2>3, ReachableIsLeast
<1> QED
  BY <1>3, <1>4

\* GetDescendantsOf in the static graph of all calls.
LEMMA DescendantsAreReached ==
  ASSUME IsParsed, call_graph = Calls, NEW p \in KeysOf(call_graph)
  PROVE  GetDescendantsOf(p) = ReachableFrom(Calls, ToSet(pnames), p)
<1> DEFINE M == KeysOf(Calls) \cup {e[2] : e \in Calls}
           own == [q \in M |-> Successors(Calls, q)]
           Is(f) == f = [q \in KeysOf(call_graph) \cup {e[2] : e \in call_graph} |->
                           CalleesIn(call_graph, q) \cup UNION {f[c] : c \in CalleesIn(call_graph, q)}]
           f == CHOOSE h : Is(h)
<1>1. Calls \in SUBSET (ToSet(pnames) \X ToSet(pnames)) /\ HasNoKnot(Calls)
  BY CallsHaveNoKnot
<1>2. Calls \in SUBSET (M \X M) /\ M \subseteq ToSet(pnames)
  BY <1>1 DEF KeysOf
<1>3. ASSUME NEW h
      PROVE  Is(h) <=> Collects(h, M, Calls, own)
  <2>1. \A q : CalleesIn(call_graph, q) = Successors(Calls, q)
    BY DEF CalleesIn, Successors
  <2>2. \A q \in M : CalleesIn(call_graph, q) \cup UNION {h[c] : c \in CalleesIn(call_graph, q)}
                     = own[q] \cup UNION {h[c] : c \in Successors(Calls, q)}
    BY <2>1
  <2> HIDE DEF own
  <2> QED
    BY <2>2 DEF Collects
<1>4. \E h : Is(h)
  <2> HIDE DEF Is, own, M
  <2> QED
    BY <1>2, <1>3, CollectedFromSatisfies
<1>5. Is(f)
  <2> HIDE DEF Is
  <2> QED
    BY <1>4, Zenon
<1>6. GetDescendantsOf(p) = f[p]
  BY DEF GetDescendantsOf
<1>7. Collects(f, M, Calls, own)
  <2> HIDE DEF Is, own, M, f
  <2> QED
    BY <1>3, <1>5
<1>8. p \in M /\ \A q \in M : own[q] = Successors(Calls, q)
  OBVIOUS
<1> HIDE DEF f, own, M
<1>9. f[p] = CollectedFrom(M, Calls, own, p)
  BY <1>1, <1>2, <1>7, <1>8, CollectsUniquely
<1>10. f[p] = ReachableFrom(Calls, M, p)
  BY <1>2, <1>8, <1>9, CollectingSuccessors
<1> QED
  BY <1>2, <1>6, <1>10, ReachableInMoreNodes

\* The relation Calls*, as it is found and as it is meant.
LEMMA DescendantsAreClosure ==
  ASSUME IsParsed, call_graph = Calls
  PROVE  UNION {{p} \X GetDescendantsOf(p) : p \in KeysOf(call_graph)} = TransitiveClosure(Calls, ToSet(pnames))
<1> DEFINE P == ToSet(pnames)
           D == UNION {{p} \X GetDescendantsOf(p) : p \in KeysOf(call_graph)}
<1>1. Calls \in SUBSET (P \X P)
  BY CallsHaveNoKnot
<1>2. \A p \in KeysOf(call_graph) : p \in P /\ GetDescendantsOf(p) = ReachableFrom(Calls, P, p)
  BY <1>1, DescendantsAreReached DEF KeysOf
<1>3. ASSUME NEW p \in P, p \notin KeysOf(call_graph)
      PROVE  ReachableFrom(Calls, P, p) = {}
  <2>1. Successors(Calls, p) = {}
    BY <1>3 DEF Successors, KeysOf
  <2>2. {} \in SUBSET P /\ Successors(Calls, p) \subseteq {} /\ \A m \in {} : Successors(Calls, m) \subseteq {}
    BY <2>1
  <2>3. ReachableFrom(Calls, P, p) \subseteq {}
    BY <2>2, ReachableIsLeast
  <2> QED
    BY <2>3
<1>4. D \subseteq TransitiveClosure(Calls, P)
  BY <1>2 DEF TransitiveClosure
<1>5. TransitiveClosure(Calls, P) \subseteq D
  <2> SUFFICES ASSUME NEW p \in P, NEW e \in {p} \X ReachableFrom(Calls, P, p)
               PROVE  e \in D
    BY DEF TransitiveClosure
  <2>1. p \in KeysOf(call_graph)
    BY <1>3
  <2> QED
    BY <1>2, <2>1
<1> QED
  BY <1>4, <1>5

LEMMA NamedProperly ==
  ASSUME IsParsed
  PROVE  \A e \in Calls \cup TransitiveClosure(Calls, ToSet(pnames)) : e[1] # "" /\ e[2] # ""
<1>1. Calls \subseteq ToSet(pnames) \X ToSet(pnames) /\ "" \notin ToSet(pnames)
  BY DEF IsParsed
<1>2. TransitiveClosure(Calls, ToSet(pnames)) \subseteq ToSet(pnames) \X ToSet(pnames)
  BY DEF TransitiveClosure, ReachableFrom
<1> QED
  BY <1>1, <1>2

(***************************************************************************)
(* A breadth first search: what is to come is in the queue or reached from *)
(* there.                                                                  *)
(***************************************************************************)
ToCome(Q, edges, N) == {x \in N : \E q \in Q : x = q \/ x \in ReachableFrom(edges, N, q)}

LEMMA SearchGoesOn ==
  ASSUME NEW N, NEW edges \in SUBSET (N \X N), NEW q, NEW Rest,
         NEW x \in ToCome({q} \cup Rest, edges, N), x # q
  PROVE  x \in ToCome(Rest \cup Successors(edges, q), edges, N)
<1>1. PICK r \in {q} \cup Rest : x = r \/ x \in ReachableFrom(edges, N, r)
  BY DEF ToCome
<1>2. x \in N
  BY DEF ToCome
<1>3. CASE r \in Rest
  BY <1>1, <1>2, <1>3 DEF ToCome
<1>4. CASE r = q
  <2>1. x \in ReachableFrom(edges, N, q)
    BY <1>1, <1>4
  <2>2. PICK b \in Successors(edges, q) : x \in {b} \cup ReachableFrom(edges, N, b)
    BY <2>1, ReachableUnfolds
  <2> QED
    BY <1>2, <2>2 DEF ToCome
<1> QED
  BY <1>1, <1>3, <1>4

\* What is reached from what is to come is to come.
LEMMA SearchReaches ==
  ASSUME NEW N, NEW edges \in SUBSET (N \X N), NEW Q,
         NEW x \in ToCome(Q, edges, N), NEW y \in Successors(edges, x)
  PROVE  y \in ToCome(Q, edges, N)
<1>1. PICK q \in Q : x = q \/ x \in ReachableFrom(edges, N, q)
  BY DEF ToCome
<1>2. y \in ReachableFrom(edges, N, q)
  BY <1>1, ReachableIsClosed
<1>3. y \in N
  BY <1>2 DEF ReachableFrom
<1> QED
  BY <1>2, <1>3 DEF ToCome
-----------------------------------------------------------------------------
(* The lists of the tree *)
Outermost == {Procedure(n) : n \in DOMAIN pnames}
Lists == Outermost \cup UNION {ToSet(ListsBelow(ast, s)) : s \in Stmts}
ListEdges == {e \in Lists \X Lists : \E s \in Children(ast, e[1]) : e[2] \in ToSet(ListsBelow(ast, s))}

LEMMA ListEdgeIs ==
  ASSUME IsParsed, NEW s \in Stmts, NEW list \in ToSet(ListsBelow(ast, s))
  PROVE  ast[s].list \in Lists /\ list \in Successors(ListEdges, ast[s].list)
<1>1. ast[s].list \in Outermost \cup UNION {ToSet(ListsBelow(ast, p)) : p \in 1..(s - 1)}
  BY DEF IsParsed, Outermost
<1>2. Stmts = 1..Len(ast) /\ Len(ast) \in Nat
  BY StmtsAreNumbered
<1>3. \A p \in 1..(s - 1) : p \in Stmts
  BY <1>2
<1>4. ast[s].list \in Lists /\ list \in Lists
  BY <1>1, <1>3 DEF Lists
<1>5. s \in Children(ast, ast[s].list)
  BY DEF Children, Stmts
<1>6. <<ast[s].list, list>> \in ListEdges
  BY <1>4, <1>5 DEF ListEdges
<1>7. ListEdges \in SUBSET (Lists \X Lists)
  BY DEF ListEdges
<1> QED
  BY <1>4, <1>6, <1>7, SuccessorsAreEnds

LEMMA AllListsCome ==
  ASSUME IsParsed, NEW s \in Stmts
  PROVE  ast[s].list \in ToCome(Outermost, ListEdges, Lists)
<1> DEFINE Bad == {t \in Stmts : ast[t].list \notin ToCome(Outermost, ListEdges, Lists)}
<1> SUFFICES ASSUME Bad # {} PROVE FALSE
  OBVIOUS
<1>1. Stmts = 1..Len(ast) /\ Len(ast) \in Nat
  BY StmtsAreNumbered
<1>2. PICK t \in Bad : \A u \in Bad : t <= u
  <2>1. Bad \in SUBSET Nat
    BY <1>1
  <2> HIDE DEF Bad
  <2> QED
    BY <2>1, LeastElement
<1>3. t \in Stmts /\ ast[t].list \notin ToCome(Outermost, ListEdges, Lists)
  OBVIOUS
<1>4. ast[t].list \in Outermost \cup UNION {ToSet(ListsBelow(ast, p)) : p \in 1..(t - 1)}
  BY <1>3 DEF IsParsed, Outermost
<1>5. ast[t].list \notin Outermost
  <2>1. \A list \in Outermost : list \in ToCome(Outermost, ListEdges, Lists)
    BY DEF ToCome, Lists
  <2> QED
    BY <1>3, <2>1
<1>6. PICK p \in 1..(t - 1) : ast[t].list \in ToSet(ListsBelow(ast, p))
  BY <1>4, <1>5
<1>7. p \in Stmts /\ ~(t <= p)
  BY <1>1, <1>3
<1>8. ast[p].list \in ToCome(Outermost, ListEdges, Lists)
  BY <1>2, <1>7
<1>9. ast[t].list \in Successors(ListEdges, ast[p].list)
  BY <1>6, <1>7, ListEdgeIs
<1>10. ListEdges \in SUBSET (Lists \X Lists)
  BY DEF ListEdges
<1> QED
  BY <1>3, <1>8, <1>9, <1>10, SearchReaches

LEMMA ListsBelowAreLists ==
  ASSUME IsParsed, NEW s \in Stmts
  PROVE  ListsBelow(ast, s) \in Seq(Lists)
<1>1. ToSet(ListsBelow(ast, s)) \subseteq Lists
  BY DEF Lists
<1>2. ListsBelow(ast, s) \in Seq(ToSet(ListsBelow(ast, s)))
  <2>1. ast[s].kind = "while" \/ ast[s].kind = "if" \/ ast[s].kind \notin {"while", "if"}
    OBVIOUS
  <2>2. \A x, y : <<x>> \in Seq({x}) /\ <<x, y>> \in Seq({x, y}) /\ <<>> \in Seq({})
    OBVIOUS
  <2>3. \E x, y : \/ ListsBelow(ast, s) = <<x>> /\ ToSet(ListsBelow(ast, s)) = {x}
                  \/ ListsBelow(ast, s) = <<x, y>> /\ ToSet(ListsBelow(ast, s)) = {x, y}
                  \/ ListsBelow(ast, s) = <<>> /\ ToSet(ListsBelow(ast, s)) = {}
    BY <2>1, BelowIs, Zenon
  <2>4. PICK q, S : q = ListsBelow(ast, s) /\ S = ToSet(ListsBelow(ast, s))
    OBVIOUS
  <2>5. q \in Seq(S)
    <3>1. PICK x, y : \/ q = <<x>> /\ S = {x}
                      \/ q = <<x, y>> /\ S = {x, y}
                      \/ q = <<>> /\ S = {}
      BY <2>3, <2>4
    <3>2. CASE q = <<x>> /\ S = {x}
      BY <3>2
    <3>3. CASE q = <<x, y>> /\ S = {x, y}
      BY <3>3
    <3>4. CASE q = <<>> /\ S = {}
      BY <3>4
    <3> QED
      BY <3>1, <3>2, <3>3, <3>4
  <2> QED
    BY <2>4, <2>5
<1>3. ASSUME NEW S, NEW T, S \subseteq T, NEW q \in Seq(S)
      PROVE  q \in Seq(T)
  BY <1>3
<1> QED
  BY <1>1, <1>2, <1>3

\* What is queued when a list is taken, below its statements.
QueuedBelow(list) == LET stmts == InOrder(Children(ast, list))
                     IN  FlattenSeq([i \in DOMAIN stmts |-> ListsBelow(ast, stmts[i])])

LEMMA QueuedAreBelow ==
  ASSUME IsParsed, NEW list \in Lists
  PROVE  /\ QueuedBelow(list) \in Seq(Lists)
         /\ ToSet(QueuedBelow(list)) = Successors(ListEdges, list)
<1> DEFINE stmts == InOrder(Children(ast, list))
           below == [i \in DOMAIN stmts |-> ListsBelow(ast, stmts[i])]
<1>1. Stmts = 1..Len(ast) /\ Len(ast) \in Nat /\ Children(ast, list) \in SUBSET Stmts
  BY StmtsAreNumbered DEF Children, Stmts
<1>2. stmts \in Seq(Children(ast, list)) /\ ToSet(stmts) = Children(ast, list)
  <2>1. Children(ast, list) \in SUBSET (1..Len(ast))
    BY <1>1
  <2> QED
    BY <1>1, <2>1, ElementsInOrder
<1>3. \A s \in Children(ast, list) : ListsBelow(ast, s) \in Seq(Lists)
  BY <1>1, ListsBelowAreLists
<1> HIDE DEF stmts
<1>4. below \in Seq(Seq(Lists)) /\ DOMAIN below = DOMAIN stmts
  <2>1. DOMAIN stmts = 1..Len(stmts) /\ Len(stmts) \in Nat /\ \A i \in DOMAIN stmts : stmts[i] \in Children(ast, list)
    BY <1>2
  <2>2. \A i \in 1..Len(stmts) : below[i] \in Seq(Lists)
    BY <1>3, <2>1
  <2>3. below \in [1..Len(stmts) -> Seq(Lists)]
    BY <2>1, <2>2
  <2> QED
    BY <2>1, <2>3
<1>5. QueuedBelow(list) = FlattenSeq(below)
  BY DEF QueuedBelow, stmts
<1>6. /\ FlattenSeq(below) \in Seq(Lists)
      /\ ToSet(FlattenSeq(below)) = UNION {ToSet(below[i]) : i \in DOMAIN below}
  <2> HIDE DEF below
  <2> QED
    BY <1>4, ElementsOfFlatten
<1>7. UNION {ToSet(below[i]) : i \in DOMAIN below} = UNION {ToSet(ListsBelow(ast, s)) : s \in Children(ast, list)}
  <2>1. \A i \in DOMAIN stmts : stmts[i] \in Children(ast, list)
    BY <1>2 DEF ToSet
  <2>2. \A s \in Children(ast, list) : \E i \in DOMAIN stmts : stmts[i] = s
    BY <1>2 DEF ToSet
  <2> HIDE DEF Children, ListsBelow, ToSet
  <2>3. \A i \in DOMAIN stmts : below[i] = ListsBelow(ast, stmts[i])
    OBVIOUS
  <2>4. DOMAIN below = DOMAIN stmts
    OBVIOUS
  <2> HIDE DEF below
  <2> QED
    BY <2>1, <2>2, <2>3, <2>4
<1>8. ListEdges \in SUBSET (Lists \X Lists)
  BY DEF ListEdges
<1>9. Successors(ListEdges, list) = UNION {ToSet(ListsBelow(ast, s)) : s \in Children(ast, list)}
  <2>1. ASSUME NEW l \in Successors(ListEdges, list)
        PROVE  l \in UNION {ToSet(ListsBelow(ast, s)) : s \in Children(ast, list)}
    <3>1. <<list, l>> \in ListEdges
      BY <1>8, <2>1, SuccessorsAreEnds
    <3> QED
      BY <3>1 DEF ListEdges
  <2>2. ASSUME NEW s \in Children(ast, list), NEW l \in ToSet(ListsBelow(ast, s))
        PROVE  l \in Successors(ListEdges, list)
    <3>1. s \in Stmts /\ ast[s].list = list
      BY DEF Children, Stmts
    <3> QED
      BY <3>1, ListEdgeIs
  <2> QED
    BY <2>1, <2>2
<1> QED
  BY <1>5, <1>6, <1>7, <1>9

(***************************************************************************)
(* The loop that connects the statements.                                  *)
(***************************************************************************)
\* c holds the edges of a statement, unless the statement is in cur or its
\* list is in q or below one that is.
Connecting(c, q, cur) ==
  /\ c \subseteq ControlFlow(ast)
  /\ q \in Seq(Lists) /\ cur \subseteq Stmts
  /\ \A s \in Stmts : \/ Edges(s) \subseteq c
                      \/ s \in cur
                      \/ ast[s].list \in ToCome(ToSet(q), ListEdges, Lists)

LEMMA ConstructionBegins ==
  ASSUME IsParsed, ConstructCFG
  PROVE  Connecting(cfg', queue', current')
<1>1. cfg' = {} /\ current' = {} /\ queue' = [n \in 1..Cardinality(ProceduresOf(ast)) |-> Procedure(n)]
  BY DEF ConstructCFG
<1>2. Len(pnames) \in Nat /\ DOMAIN pnames = 1..Len(pnames) /\ Cardinality(ProceduresOf(ast)) = Len(pnames)
  BY StmtsAreNumbered, NamesAreFinite
<1>3. \A n \in 1..Len(pnames) : Procedure(n) \in Lists
  BY <1>2 DEF Lists, Outermost
<1>4. queue' = [n \in 1..Len(pnames) |-> Procedure(n)]
  BY <1>1, <1>2
<1>5. queue' \in Seq(Lists)
  <2>1. [n \in 1..Len(pnames) |-> Procedure(n)] \in [1..Len(pnames) -> Lists]
    BY <1>3
  <2> HIDE DEF Procedure
  <2> QED
    BY <1>2, <1>4, <2>1
<1>6. ToSet(queue') = Outermost
  <2>1. ToSet([n \in 1..Len(pnames) |-> Procedure(n)]) = {Procedure(n) : n \in 1..Len(pnames)}
    BY DEF ToSet
  <2> QED
    BY <1>2, <1>4, <2>1 DEF Outermost
<1> QED
  BY <1>1, <1>5, <1>6, AllListsCome DEF Connecting

LEMMA TakeListKeepsConnecting ==
  ASSUME IsParsed, Connecting(cfg, queue, current), TakeList
  PROVE  Connecting(cfg', queue', current')
<1> DEFINE list == Head(queue)
<1>1. /\ queue # <<>> /\ current = {} /\ cfg' = cfg
      /\ current' = Children(ast, list) /\ queue' = Tail(queue) \o QueuedBelow(list)
  BY DEF TakeList, QueuedBelow
<1>2. queue \in Seq(Lists)
  BY DEF Connecting
<1>3. /\ Tail(queue) \in Seq(Lists) /\ list \in Lists
      /\ ToSet(queue) = {list} \cup ToSet(Tail(queue))
  BY <1>1, <1>2, ElementsOfTail
<1>4. /\ QueuedBelow(list) \in Seq(Lists)
      /\ ToSet(QueuedBelow(list)) = Successors(ListEdges, list)
  BY <1>3, QueuedAreBelow
<1>5. /\ queue' \in Seq(Lists)
      /\ ToSet(queue') = ToSet(Tail(queue)) \cup Successors(ListEdges, list)
  <2>1. PICK p, q : p = Tail(queue) /\ q = QueuedBelow(list)
    OBVIOUS
  <2>2. p \in Seq(Lists) /\ q \in Seq(Lists)
    BY <1>3, <1>4, <2>1
  <2>3. p \o q \in Seq(Lists) /\ ToSet(p \o q) = ToSet(p) \cup ToSet(q)
    BY <2>2, ElementsOfConcat
  <2>4. ToSet(q) = Successors(ListEdges, list)
    BY <1>4, <2>1, Zenon
  <2> HIDE DEF list
  <2> QED
    BY <1>1, <2>1, <2>3, <2>4, Zenon
<1>6. ListEdges \in SUBSET (Lists \X Lists)
  BY DEF ListEdges
<1>7. ASSUME NEW s \in Stmts, ~(Edges(s) \subseteq cfg), s \notin Children(ast, list)
      PROVE  ast[s].list \in ToCome(ToSet(queue'), ListEdges, Lists)
  <2>1. ast[s].list # list
    BY <1>7 DEF Children, Stmts
  <2>2. ast[s].list \in ToCome(ToSet(queue), ListEdges, Lists)
    BY <1>1, <1>7 DEF Connecting
  <2>3. ast[s].list \in ToCome({list} \cup ToSet(Tail(queue)), ListEdges, Lists)
    BY <1>3, <2>2
  <2>4. ast[s].list \in ToCome(ToSet(Tail(queue)) \cup Successors(ListEdges, list), ListEdges, Lists)
    <3> HIDE DEF list
    <3> QED
      BY <1>6, <2>1, <2>3, SearchGoesOn
  <2> QED
    BY <1>5, <2>4
<1>8. Children(ast, list) \subseteq Stmts /\ cfg \subseteq ControlFlow(ast)
  BY DEF Children, Stmts, Connecting
<1> QED
  BY <1>1, <1>5, <1>7, <1>8 DEF Connecting

LEMMA ConnectKeepsConnecting ==
  ASSUME IsParsed, Connecting(cfg, queue, current), ConnectStatement
  PROVE  Connecting(cfg', queue', current')
<1>1. PICK s \in current : cfg' = cfg \cup Edges(s) /\ current' = current \ {s} /\ queue' = queue
  BY DEF ConnectStatement
<1>2. s \in Stmts
  BY DEF Connecting
<1>3. Edges(s) \subseteq ControlFlow(ast)
  BY <1>2, EdgesAreFlow
<1> QED
  BY <1>1, <1>2, <1>3 DEF Connecting

LEMMA DoneIsFlow ==
  ASSUME IsParsed, Connecting(cfg, queue, current), CFGDone
  PROVE  cfg = ControlFlow(ast)
<1>1. queue = <<>> /\ current = {}
  BY DEF CFGDone
<1>2. ToCome(ToSet(queue), ListEdges, Lists) = {}
  BY <1>1 DEF ToCome, ToSet
<1>3. \A s \in Stmts : Edges(s) \subseteq cfg
  BY <1>1, <1>2 DEF Connecting
<1>4. UNION {Edges(s) : s \in Stmts} \subseteq cfg
  BY <1>3
<1> QED
  BY <1>4, EdgesAreFlow DEF Connecting

(***************************************************************************)
(* The breadth first traversal of the tree.                                *)
(***************************************************************************)
ProcNode(n) == [type |-> "procedure", list |-> Procedure(n)]
ListNode(list) == [type |-> "list", list |-> list]
StmtNode(s) == [type |-> "statement", stmt |-> s]
LeafNode(s) == [type |-> "leaves", stmt |-> s]

Roots == {ProcNode(n) : n \in DOMAIN pnames}
TreeNodes == Roots \cup {ListNode(list) : list \in Lists} \cup {StmtNode(s) : s \in Stmts} \cup {LeafNode(s) : s \in Stmts}
NodeEdges == {e \in TreeNodes \X TreeNodes : e[2] \in ToSet(ChildrenOf(e[1]))}

LEMMA NodeIs ==
  ASSUME NEW node \in TreeNodes
  PROVE  \/ \E n \in DOMAIN pnames : node = ProcNode(n) /\ node.type = "procedure"
         \/ \E list \in Lists : node = ListNode(list) /\ node.type = "list"
         \/ \E s \in Stmts : node = StmtNode(s) /\ node.type = "statement"
         \/ \E s \in Stmts : node = LeafNode(s) /\ node.type = "leaves"
BY DEF TreeNodes, Roots, ProcNode, ListNode, StmtNode, LeafNode

EachOf(q, Op) == [i \in DOMAIN q |-> Op[q[i]]]

LEMMA ListsOfNodes ==
  ASSUME NEW T, NEW q \in Seq(T), NEW N, NEW Op \in [T -> N]
  PROVE  /\ EachOf(q, Op) \in Seq(N)
         /\ ToSet(EachOf(q, Op)) = {Op[x] : x \in ToSet(q)}
<1>1. \A i \in DOMAIN q : q[i] \in T
  OBVIOUS
<1>2. DOMAIN q = 1..Len(q) /\ Len(q) \in Nat
  OBVIOUS
<1> DEFINE r == [i \in DOMAIN q |-> Op[q[i]]]
<1>3. r \in [1..Len(q) -> N]
  BY <1>1, <1>2
<1>4. r \in Seq(N) /\ DOMAIN r = DOMAIN q
  BY <1>2, <1>3
<1>5. ToSet(r) = {Op[x] : x \in ToSet(q)}
  BY <1>4 DEF ToSet
<1> QED
  BY <1>4, <1>5 DEF EachOf

LEMMA ChildrenAreNodes ==
  ASSUME IsParsed
  PROVE  /\ \A n \in DOMAIN pnames : /\ ChildrenOf(ProcNode(n)) \in Seq(TreeNodes)
                                     /\ ToSet(ChildrenOf(ProcNode(n))) = {ListNode(Procedure(n))}
         /\ \A list \in Lists : /\ ChildrenOf(ListNode(list)) \in Seq(TreeNodes)
                                /\ ToSet(ChildrenOf(ListNode(list))) = {StmtNode(s) : s \in Children(ast, list)}
         /\ \A s \in Stmts : /\ ChildrenOf(StmtNode(s)) \in Seq(TreeNodes)
                             /\ {ListNode(list) : list \in ToSet(ListsBelow(ast, s))} \subseteq ToSet(ChildrenOf(StmtNode(s)))
         /\ \A s \in Stmts : ChildrenOf(LeafNode(s)) \in Seq(TreeNodes)
<1>1. ASSUME NEW n \in DOMAIN pnames
      PROVE  /\ ChildrenOf(ProcNode(n)) \in Seq(TreeNodes)
             /\ ToSet(ChildrenOf(ProcNode(n))) = {ListNode(Procedure(n))}
  <2>1. ChildrenOf(ProcNode(n)) = <<ListNode(Procedure(n))>>
    BY DEF ChildrenOf, ProcNode, ListNode
  <2>2. ListNode(Procedure(n)) \in TreeNodes
    BY DEF TreeNodes, Lists, Outermost
  <2>3. \A x : x \in TreeNodes => <<x>> \in Seq(TreeNodes) /\ ToSet(<<x>>) = {x}
    BY DEF ToSet
  <2> QED
    BY <2>1, <2>2, <2>3
<1>2. ASSUME NEW list \in Lists
      PROVE  /\ ChildrenOf(ListNode(list)) \in Seq(TreeNodes)
             /\ ToSet(ChildrenOf(ListNode(list))) = {StmtNode(s) : s \in Children(ast, list)}
  <2> DEFINE q == InOrder(Children(ast, list))
             Op == [s \in Stmts |-> StmtNode(s)]
  <2>1. Stmts = 1..Len(ast) /\ Len(ast) \in Nat /\ Children(ast, list) \in SUBSET Stmts
    BY StmtsAreNumbered DEF Children, Stmts
  <2>2. /\ q \in Seq(Children(ast, list)) /\ ToSet(q) = Children(ast, list)
        /\ Len(q) = Cardinality(Children(ast, list))
    BY <2>1, ElementsInOrder
  <2> HIDE DEF q
  <2>3. q \in Seq(Stmts) /\ DOMAIN q = 1..Len(q) /\ \A i \in DOMAIN q : q[i] \in Stmts
    BY <2>1, <2>2
  <2>4. ChildrenOf(ListNode(list)) = [i \in DOMAIN q |-> StmtNode(q[i])]
    <3>1. ListNode(list).type = "list" /\ ListNode(list).list = list
      BY DEF ListNode
    <3>2. ChildrenOf(ListNode(list)) = [i \in 1..Cardinality(Children(ast, list)) |-> StmtNode(InOrder(Children(ast, list))[i])]
      BY <3>1 DEF ChildrenOf, StmtNode
    <3> QED
      BY <2>2, <2>3, <3>2 DEF q
  <2>5. \A i \in DOMAIN q : StmtNode(q[i]) = Op[q[i]]
    BY <2>3
  <2>6. ChildrenOf(ListNode(list)) = EachOf(q, Op)
    BY <2>4, <2>5 DEF EachOf
  <2>7. Op \in [Stmts -> TreeNodes]
    BY DEF TreeNodes
  <2> HIDE DEF Op
  <2>8. /\ EachOf(q, Op) \in Seq(TreeNodes)
        /\ ToSet(EachOf(q, Op)) = {Op[x] : x \in ToSet(q)}
    BY <2>3, <2>7, ListsOfNodes
  <2>9. {Op[x] : x \in Children(ast, list)} = {StmtNode(s) : s \in Children(ast, list)}
    BY <2>1 DEF Op
  <2> QED
    BY <2>2, <2>6, <2>8, <2>9
<1>3. ASSUME NEW s \in Stmts
      PROVE  /\ ChildrenOf(StmtNode(s)) \in Seq(TreeNodes)
             /\ {ListNode(list) : list \in ToSet(ListsBelow(ast, s))} \subseteq ToSet(ChildrenOf(StmtNode(s)))
  <2> DEFINE q == ListsBelow(ast, s)
             Op == [list \in Lists |-> ListNode(list)]
             r == [i \in DOMAIN q |-> ListNode(q[i])]
             l == IF ast[s].kind = "call" THEN <<>> ELSE <<LeafNode(s)>>
  <2>1. q \in Seq(Lists)
    BY ListsBelowAreLists
  <2>2. ChildrenOf(StmtNode(s)) = l \o r
    <3>1. StmtNode(s).type = "statement" /\ StmtNode(s).stmt = s
      BY DEF StmtNode
    <3> QED
      BY <3>1 DEF ChildrenOf, LeafNode, ListNode
  <2> HIDE DEF q
  <2>3. l \in Seq(TreeNodes)
    <3>1. LeafNode(s) \in TreeNodes
      BY DEF TreeNodes
    <3>2. \A x \in TreeNodes : <<x>> \in Seq(TreeNodes) /\ <<>> \in Seq(TreeNodes)
      OBVIOUS
    <3> QED
      BY <3>1, <3>2
  <2>4. \A i \in DOMAIN q : q[i] \in Lists
    BY <2>1
  <2>5. r = EachOf(q, Op)
    BY <2>4 DEF EachOf
  <2>6. Op \in [Lists -> TreeNodes]
    BY DEF TreeNodes
  <2>9. {Op[x] : x \in ToSet(q)} = {ListNode(list) : list \in ToSet(q)}
    BY <2>4 DEF ToSet
  <2> HIDE DEF Op, l, r
  <2>7. r \in Seq(TreeNodes) /\ ToSet(r) = {Op[x] : x \in ToSet(q)}
    BY <2>1, <2>5, <2>6, ListsOfNodes
  <2>8. l \o r \in Seq(TreeNodes) /\ ToSet(l \o r) = ToSet(l) \cup ToSet(r)
    BY <2>3, <2>7, ElementsOfConcat
  <2>10. {ListNode(list) : list \in ToSet(q)} \subseteq ToSet(l \o r)
    BY <2>7, <2>8, <2>9
  <2> QED
    BY <2>2, <2>8, <2>10 DEF q
<1>4. ASSUME NEW s \in Stmts
      PROVE  ChildrenOf(LeafNode(s)) \in Seq(TreeNodes)
  <2>1. LeafNode(s).type = "leaves"
    BY DEF LeafNode
  <2>2. ChildrenOf(LeafNode(s)) = <<>>
    BY <2>1 DEF ChildrenOf
  <2> QED
    BY <2>2
<1> QED
  BY <1>1, <1>2, <1>3, <1>4

LEMMA NodeEdgesAre ==
  ASSUME IsParsed, NEW node \in TreeNodes
  PROVE  /\ ChildrenOf(node) \in Seq(TreeNodes)
         /\ ToSet(ChildrenOf(node)) = Successors(NodeEdges, node)
         /\ NodeEdges \in SUBSET (TreeNodes \X TreeNodes)
<1>1. ChildrenOf(node) \in Seq(TreeNodes)
  BY ChildrenAreNodes, NodeIs
<1>2. ToSet(ChildrenOf(node)) \subseteq TreeNodes
  <2>1. PICK q : q = ChildrenOf(node)
    OBVIOUS
  <2>2. q \in Seq(TreeNodes)
    BY <1>1, <2>1
  <2>3. ToSet(q) \subseteq TreeNodes
    BY <2>2 DEF ToSet
  <2> QED
    BY <2>1, <2>3
<1>3. NodeEdges \in SUBSET (TreeNodes \X TreeNodes)
  BY DEF NodeEdges
<1>4. \A x : <<node, x>> \in NodeEdges <=> x \in TreeNodes /\ x \in ToSet(ChildrenOf(node))
  BY DEF NodeEdges
<1>5. \A x : x \in Successors(NodeEdges, node) <=> <<node, x>> \in NodeEdges
  BY <1>3, SuccessorsAreEnds
<1> QED
  BY <1>1, <1>2, <1>3, <1>4, <1>5

\* Below a list comes every list that is in its statements.
LEMMA AllNodesCome ==
  ASSUME IsParsed, NEW s \in Stmts
  PROVE  ListNode(ast[s].list) \in ToCome(Roots, NodeEdges, TreeNodes)
<1> DEFINE Bad == {t \in Stmts : ListNode(ast[t].list) \notin ToCome(Roots, NodeEdges, TreeNodes)}
<1> SUFFICES ASSUME Bad # {} PROVE FALSE
  OBVIOUS
<1>1. Stmts = 1..Len(ast) /\ Len(ast) \in Nat
  BY StmtsAreNumbered
<1>2. PICK t \in Bad : \A u \in Bad : t <= u
  <2>1. Bad \in SUBSET Nat
    BY <1>1
  <2> HIDE DEF Bad
  <2> QED
    BY <2>1, LeastElement
<1>3. t \in Stmts /\ ListNode(ast[t].list) \notin ToCome(Roots, NodeEdges, TreeNodes)
  OBVIOUS
<1>4. ast[t].list \in Outermost \cup UNION {ToSet(ListsBelow(ast, p)) : p \in 1..(t - 1)}
  BY <1>3 DEF IsParsed, Outermost
<1>5. NodeEdges \in SUBSET (TreeNodes \X TreeNodes)
  BY DEF NodeEdges
<1>6. ast[t].list \notin Outermost
  <2> SUFFICES ASSUME NEW n \in DOMAIN pnames, ast[t].list = Procedure(n)
               PROVE  FALSE
    BY DEF Outermost
  <2>1. ProcNode(n) \in TreeNodes /\ ProcNode(n) \in Roots
    BY DEF TreeNodes, Roots
  <2>2. ProcNode(n) \in ToCome(Roots, NodeEdges, TreeNodes)
    BY <2>1 DEF ToCome
  <2>3. ListNode(ast[t].list) \in Successors(NodeEdges, ProcNode(n))
    BY <2>1, ChildrenAreNodes, NodeEdgesAre
  <2> QED
    BY <1>3, <1>5, <2>2, <2>3, SearchReaches
<1>7. PICK p \in 1..(t - 1) : ast[t].list \in ToSet(ListsBelow(ast, p))
  BY <1>4, <1>6
<1>8. p \in Stmts /\ ~(t <= p)
  BY <1>1, <1>3
<1>9. ListNode(ast[p].list) \in ToCome(Roots, NodeEdges, TreeNodes)
  BY <1>2, <1>8
<1>10. ast[p].list \in Lists /\ p \in Children(ast, ast[p].list)
  BY <1>7, <1>8, ListEdgeIs DEF Children, Stmts
<1>11. StmtNode(p) \in Successors(NodeEdges, ListNode(ast[p].list))
  <2>1. ListNode(ast[p].list) \in TreeNodes
    BY <1>10 DEF TreeNodes
  <2>2. ToSet(ChildrenOf(ListNode(ast[p].list))) = {StmtNode(u) : u \in Children(ast, ast[p].list)}
    BY <1>10, ChildrenAreNodes
  <2>3. StmtNode(p) \in ToSet(ChildrenOf(ListNode(ast[p].list)))
    BY <1>10, <2>2
  <2> QED
    BY <2>1, <2>3, NodeEdgesAre
<1>12. StmtNode(p) \in ToCome(Roots, NodeEdges, TreeNodes)
  BY <1>5, <1>9, <1>11, SearchReaches
<1>13. ListNode(ast[t].list) \in Successors(NodeEdges, StmtNode(p))
  <2>1. StmtNode(p) \in TreeNodes
    BY <1>8 DEF TreeNodes
  <2>2. {ListNode(list) : list \in ToSet(ListsBelow(ast, p))} \subseteq ToSet(ChildrenOf(StmtNode(p)))
    BY <1>8, ChildrenAreNodes
  <2>3. ListNode(ast[t].list) \in ToSet(ChildrenOf(StmtNode(p)))
    BY <1>7, <2>2
  <2> QED
    BY <2>1, <2>3, NodeEdgesAre
<1> QED
  BY <1>3, <1>5, <1>12, <1>13, SearchReaches

\* A node is taken: what was to come is still, but for the node.
LEMMA TraversalGoesOn ==
  ASSUME IsParsed, nodes \in Seq(TreeNodes), nodes # <<>>,
         nodes' = Tail(nodes) \o ChildrenOf(Head(nodes))
  PROVE  /\ Head(nodes) \in TreeNodes /\ nodes' \in Seq(TreeNodes)
         /\ \A x \in ToCome(ToSet(nodes), NodeEdges, TreeNodes) :
              x # Head(nodes) => x \in ToCome(ToSet(nodes'), NodeEdges, TreeNodes)
<1>1. PICK node, rest, below : node = Head(nodes) /\ rest = Tail(nodes) /\ below = ChildrenOf(node)
  OBVIOUS
<1>2. rest \in Seq(TreeNodes) /\ node \in TreeNodes /\ ToSet(nodes) = {node} \cup ToSet(rest)
  BY <1>1, ElementsOfTail
<1>3. below \in Seq(TreeNodes) /\ ToSet(below) = Successors(NodeEdges, node) /\ NodeEdges \in SUBSET (TreeNodes \X TreeNodes)
  BY <1>1, <1>2, NodeEdgesAre
<1>4. nodes' = rest \o below
  BY <1>1, Zenon
<1>5. nodes' \in Seq(TreeNodes) /\ ToSet(nodes') = ToSet(rest) \cup Successors(NodeEdges, node)
  <2>1. rest \o below \in Seq(TreeNodes) /\ ToSet(rest \o below) = ToSet(rest) \cup ToSet(below)
    BY <1>2, <1>3, ElementsOfConcat
  <2> QED
    BY <1>3, <1>4, <2>1, Zenon
<1>6. ASSUME NEW x \in ToCome(ToSet(nodes), NodeEdges, TreeNodes), x # node
      PROVE  x \in ToCome(ToSet(nodes'), NodeEdges, TreeNodes)
  BY <1>2, <1>3, <1>5, <1>6, SearchGoesOn
<1> QED
  BY <1>1, <1>2, <1>5, <1>6
-----------------------------------------------------------------------------
(* What comes after what in a list *)
FollowingIn(list) == {p \in Children(ast, list) \X Children(ast, list) : p[1] < p[2]}
ConsecutiveIn(list) == {p \in FollowingIn(list) : ~\E t \in Children(ast, list) : p[1] < t /\ t < p[2]}

Following == {p \in Stmts \X Stmts : Comes(p[1], p[2])}
Consecutive == {p \in Stmts \X Stmts : Comes(p[1], p[2]) /\ ~\E t \in Stmts : Comes(p[1], t) /\ Comes(t, p[2])}

LEMMA FollowingIs ==
  ASSUME IsParsed, NEW p
  PROVE  /\ p \in Following <=> \E s \in Stmts : p \in FollowingIn(ast[s].list)
         /\ p \in Consecutive <=> \E s \in Stmts : p \in ConsecutiveIn(ast[s].list)
         /\ \A list : /\ p \in FollowingIn(list) => p \in Following
                      /\ p \in ConsecutiveIn(list) => p \in Consecutive
         /\ p \in Following \cup Consecutive => InTextOrder(p)
<1>1. Stmts = 1..Len(ast) /\ Len(ast) \in Nat
  BY StmtsAreNumbered
<1>2. \A list, s : s \in Children(ast, list) <=> s \in Stmts /\ ast[s].list = list
  BY DEF Children, Stmts
<1>3. ASSUME NEW list
      PROVE  /\ p \in FollowingIn(list) <=> p \in Following /\ ast[p[1]].list = list
             /\ p \in ConsecutiveIn(list) <=> p \in Consecutive /\ ast[p[1]].list = list
  <2>1. p \in FollowingIn(list) <=> p \in Following /\ ast[p[1]].list = list
    BY <1>2 DEF FollowingIn, Following, Comes
  <2>2. ASSUME p \in Following, ast[p[1]].list = list
        PROVE  \A t \in Stmts : (t \in Children(ast, list) /\ p[1] < t /\ t < p[2]) <=> Comes(p[1], t) /\ Comes(t, p[2])
    BY <1>2, <2>2 DEF Following, Comes
  <2>3. p \in Consecutive <=> p \in Following /\ ~\E t \in Stmts : Comes(p[1], t) /\ Comes(t, p[2])
    BY DEF Consecutive, Following
  <2>4. p \in ConsecutiveIn(list) <=> p \in FollowingIn(list) /\ ~\E t \in Stmts : t \in Children(ast, list) /\ p[1] < t /\ t < p[2]
    BY <1>2 DEF ConsecutiveIn
  <2> QED
    BY <2>1, <2>2, <2>3, <2>4
<1>4. p \in Following => p[1] \in Stmts
  BY DEF Following
<1>5. p \in Consecutive => p \in Following
  BY DEF Consecutive, Following
<1>6. p \in Following => InTextOrder(p)
  BY <1>1 DEF Following, Comes, InTextOrder
<1> QED
  BY <1>3, <1>4, <1>5, <1>6

LEMMA ConsecutiveIsOne ==
  ASSUME IsParsed, NEW p \in Consecutive, NEW q \in Consecutive, p[1] = q[1] \/ p[2] = q[2]
  PROVE  p = q
<1>1. Stmts = 1..Len(ast) /\ Len(ast) \in Nat
  BY StmtsAreNumbered
<1>2. \A r \in Consecutive : /\ r = <<r[1], r[2]>> /\ r[1] \in Stmts /\ r[2] \in Stmts /\ r[1] < r[2]
                             /\ ast[r[1]].list = ast[r[2]].list
                             /\ \A t \in Stmts : ast[t].list = ast[r[1]].list => ~(r[1] < t /\ t < r[2])
  BY DEF Consecutive, Comes
<1>3. /\ ~(p[1] < q[2] /\ q[2] < p[2]) /\ ~(q[1] < p[2] /\ p[2] < q[2])
      /\ ~(p[1] < q[1] /\ q[1] < p[2]) /\ ~(q[1] < p[1] /\ p[1] < q[2])
  BY <1>2
<1>4. p[1] = q[1] /\ p[2] = q[2]
  BY <1>1, <1>2, <1>3, NoneBetween
<1> QED
  BY <1>2, <1>4

(***************************************************************************)
(* The tables of the relations, and who writes them.                       *)
(***************************************************************************)
Relations == {"follows", "followsT", "parent", "parentT", "next", "nextT", "calls", "callsT"}

\* l is k with other entities, effects or patterns.
SameRelations(k, l) == DOMAIN l = TableNames /\ \A f \in Relations : l[f] = k[f]

LEMMA OtherTablesKeepRelations ==
  ASSUME NEW k, DOMAIN k = TableNames, NEW f \in TableNames \ Relations, NEW new
  PROVE  SameRelations(k, [k EXCEPT ![f] = new])
<1>1. Relations \subseteq TableNames
  BY DEF Relations, TableNames, NoTables
<1> HIDE DEF Relations, TableNames
<1> QED
  BY <1>1 DEF SameRelations

LEMMA OtherTableNames ==
  {"stmt", "var", "const", "read", "print", "proc", "entity", "assign", "if", "while", "callStmts",
   "uses", "usesP", "modifies", "modifiesP"} \subseteq TableNames \ Relations
BY DEF Relations, TableNames, NoTables

LEMMA SameRelationsAgain ==
  ASSUME NEW k, NEW l, NEW m, SameRelations(k, l), SameRelations(l, m)
  PROVE  SameRelations(k, m)
BY DEF SameRelations

LEMMA StatementKeepsRelations ==
  ASSUME NEW k, DOMAIN k = TableNames, NEW s
  PROVE  SameRelations(k, ExtractStatement(k, s))
<1>1. \A l : DOMAIN l = TableNames => SameRelations(l, l)
  BY DEF SameRelations
<1>2. \A l, m : SameRelations(l, m) => DOMAIN m = TableNames
  BY DEF SameRelations
<1>3. \A l, new : DOMAIN l = TableNames =>
        /\ SameRelations(l, [l EXCEPT !.read = new]) /\ SameRelations(l, [l EXCEPT !.print = new])
        /\ SameRelations(l, [l EXCEPT !.assign = new]) /\ SameRelations(l, [l EXCEPT !.if = new])
        /\ SameRelations(l, [l EXCEPT !.while = new]) /\ SameRelations(l, [l EXCEPT !.uses = new])
        /\ SameRelations(l, [l EXCEPT !.entity = new]) /\ SameRelations(l, [l EXCEPT !.callStmts = new])
  BY OtherTablesKeepRelations, OtherTableNames
<1>4. \A l : DOMAIN l = TableNames => SameRelations(l, ExtractReadAndPrint(l, s))
  <2>1. ast[s].kind = "read" \/ ast[s].kind = "print" \/ ast[s].kind \notin {"read", "print"}
    OBVIOUS
  <2> HIDE DEF SameRelations, TableNames
  <2> QED
    BY <1>1, <1>3, <2>1 DEF ExtractReadAndPrint
<1>5. \A l : DOMAIN l = TableNames => SameRelations(l, ExtractAssignIfWhile(l, s))
  <2>1. \/ ast[s].kind = "assign" \/ ast[s].kind = "if" \/ ast[s].kind = "while"
        \/ ast[s].kind \notin {"assign", "if", "while"}
    OBVIOUS
  <2> QED
    BY <1>1, <1>3, <2>1 DEF ExtractAssignIfWhile
<1>6. \A l : DOMAIN l = TableNames => SameRelations(l, ExtractUses(l, s))
  BY <1>3 DEF ExtractUses
<1>7. \A l : DOMAIN l = TableNames => SameRelations(l, ExtractEntityAndCall(l, s))
  <2> SUFFICES ASSUME NEW l, DOMAIN l = TableNames PROVE SameRelations(l, ExtractEntityAndCall(l, s))
    OBVIOUS
  <2> DEFINE typed == [l EXCEPT !.entity = InsertStmtName(l.entity, s, ast[s].kind)]
             called == [typed EXCEPT !.callStmts = InsertStmtName(typed.callStmts, s, ast[s].about[1])]
  <2>1. SameRelations(l, typed)
    BY <1>3
  <2> HIDE DEF typed
  <2>2. SameRelations(typed, called)
    BY <1>2, <1>3, <2>1
  <2>3. ExtractEntityAndCall(l, s) = IF ast[s].kind = "call" THEN called ELSE typed
    BY DEF ExtractEntityAndCall, typed
  <2> HIDE DEF called
  <2> QED
    BY <2>1, <2>2, <2>3, SameRelationsAgain
<1> QED
  BY <1>2, <1>4, <1>5, <1>6, <1>7, SameRelationsAgain DEF ExtractStatement

LEMMA LeavesKeepRelations ==
  ASSUME NEW k, DOMAIN k = TableNames, NEW s
  PROVE  SameRelations(k, ExtractLeaves(k, s))
<1> DEFINE v == k.var \cup NamesIn(s) \cup VariablesIn(s)
           c == k.const \cup (LeavesIn(s) \cap Constants)
           with == [k EXCEPT !.var = v]
<1>1. SameRelations(k, with)
  BY OtherTablesKeepRelations, OtherTableNames
<1>2. ExtractLeaves(k, s) = [with EXCEPT !.const = c]
  BY DEF ExtractLeaves, TableNames, NoTables
<1>3. DOMAIN with = TableNames
  BY <1>1 DEF SameRelations
<1> HIDE DEF with, c
<1>4. SameRelations(with, [with EXCEPT !.const = c])
  BY <1>3, OtherTablesKeepRelations, OtherTableNames
<1> QED
  BY <1>1, <1>2, <1>4, SameRelationsAgain

\* A table of Relations is written, and the others stay.
LEMMA WrittenTable ==
  ASSUME NEW k, DOMAIN k = TableNames, NEW f \in Relations, NEW new
  PROVE  LET l == [k EXCEPT ![f] = new]
         IN  DOMAIN l = TableNames /\ l[f] = new /\ \A g \in Relations : g # f => l[g] = k[g]
<1>1. Relations \subseteq TableNames
  BY DEF Relations, TableNames, NoTables
<1> HIDE DEF Relations, TableNames
<1> QED
  BY <1>1

LEMMA ProcedureWritesCalls ==
  ASSUME NEW k, DOMAIN k = TableNames, NEW n
  PROVE  LET l == ExtractCallRelation(ExtractProcedure(k, n), n)
         IN  l.calls = InsertNames(k.calls, CallsIn(n)) /\ \A g \in Relations : g # "calls" => l[g] = k[g]
<1>1. PICK with : with = ExtractProcedure(k, n)
  OBVIOUS
<1>2. SameRelations(k, with)
  BY <1>1, OtherTablesKeepRelations, OtherTableNames DEF ExtractProcedure
<1>3. PICK l : l = ExtractCallRelation(with, n)
  OBVIOUS
<1>4. l = [with EXCEPT !.calls = InsertNames(with.calls, CallsIn(n))]
  BY <1>3 DEF ExtractCallRelation
<1>5. "calls" \in Relations
  BY DEF Relations
<1>6. l.calls = InsertNames(with.calls, CallsIn(n)) /\ \A g \in Relations : g # "calls" => l[g] = with[g]
  BY <1>2, <1>4, <1>5, WrittenTable DEF SameRelations
<1>7. with.calls = k.calls /\ \A g \in Relations : with[g] = k[g]
  BY <1>2, <1>5 DEF SameRelations
<1>8. l.calls = InsertNames(k.calls, CallsIn(n)) /\ \A g \in Relations : g # "calls" => l[g] = k[g]
  BY <1>6, <1>7
<1> QED
  BY <1>1, <1>3, <1>8

LEMMA ListWritesFollows ==
  ASSUME NEW k, DOMAIN k = TableNames, NEW list
  PROVE  LET l == ExtractFollows(k, list)
         IN  /\ l.follows = InsertFollows(k.follows, ConsecutiveIn(list))
             /\ l.followsT = InsertFollowsT(k.followsT, FollowingIn(list))
             /\ \A g \in Relations : g \notin {"follows", "followsT"} => l[g] = k[g]
<1>1. PICK a, b : a = InsertFollows(k.follows, ConsecutiveIn(list)) /\ b = InsertFollowsT(k.followsT, FollowingIn(list))
  OBVIOUS
<1>2. ExtractFollows(k, list) = [k EXCEPT !.follows = a, !.followsT = b]
  BY <1>1 DEF ExtractFollows, ConsecutiveIn, FollowingIn
<1>3. PICK l : l = [k EXCEPT !.follows = a, !.followsT = b]
  OBVIOUS
<1>4. l.follows = a /\ l.followsT = b /\ \A g \in Relations : g \notin {"follows", "followsT"} => l[g] = k[g]
  BY <1>3 DEF Relations, TableNames, NoTables
<1> QED
  BY <1>1, <1>2, <1>3, <1>4

\* What the tables hold after some nodes are taken, of the relations between
\* siblings and procedures, with q for the queue and g for the static graph.
Told(k, list) == ConsecutiveIn(list) \subseteq k.follows.table /\ FollowingIn(list) \subseteq k.followsT.table

Traversing(k, q, g) ==
  /\ q \in Seq(TreeNodes)
  /\ k.calls.table = g /\ g \subseteq Calls
  /\ \A n \in DOMAIN pnames : CallsIn(n) \subseteq g \/ ProcNode(n) \in ToCome(ToSet(q), NodeEdges, TreeNodes)
  /\ k.follows.table \subseteq Consecutive /\ k.followsT.table \subseteq Following
  /\ \A s \in Stmts : Told(k, ast[s].list) \/ ListNode(ast[s].list) \in ToCome(ToSet(q), NodeEdges, TreeNodes)

LEMMA TraversalBegins ==
  ASSUME IsParsed, NEW k, k.calls.table = {}, k.follows.table = {}, k.followsT.table = {},
         NEW q, q = [n \in DOMAIN pnames |-> [type |-> "procedure", list |-> Procedure(n)]]
  PROVE  Traversing(k, q, {})
<1>1. DOMAIN pnames = 1..Len(pnames) /\ Len(pnames) \in Nat
  BY StmtsAreNumbered
<1>2. q = [n \in 1..Len(pnames) |-> ProcNode(n)]
  BY <1>1 DEF ProcNode
<1>3. \A n \in 1..Len(pnames) : ProcNode(n) \in TreeNodes /\ ProcNode(n) \in Roots
  BY <1>1 DEF TreeNodes, Roots
<1>4. q \in Seq(TreeNodes)
  <2>1. q \in [1..Len(pnames) -> TreeNodes]
    BY <1>2, <1>3
  <2> HIDE DEF TreeNodes
  <2> QED
    BY <1>1, <2>1
<1>5. ToSet(q) = Roots
  <2>1. DOMAIN q = DOMAIN pnames /\ \A n \in DOMAIN pnames : q[n] = ProcNode(n)
    BY <1>1, <1>2
  <2> QED
    BY <2>1 DEF ToSet, Roots
<1>6. \A n \in DOMAIN pnames : ProcNode(n) \in ToCome(Roots, NodeEdges, TreeNodes)
  BY <1>1, <1>3 DEF ToCome
<1> QED
  BY <1>4, <1>5, <1>6, AllNodesCome DEF Traversing

\* The names of calls are not empty.
LEMMA CallsInAreCalls ==
  ASSUME IsParsed
  PROVE  /\ \A n : CallsIn(n) \subseteq Calls
         /\ \A e \in Calls : \E n \in DOMAIN pnames : e \in CallsIn(n)
         /\ \A e \in Calls : e[1] # "" /\ e[2] # ""
<1>1. \A n : CallsIn(n) \subseteq Calls
  BY DEF CallsIn, Calls, CallStmts, ProcOf, Stmts
<1>2. ASSUME NEW e \in Calls
      PROVE  \E n \in DOMAIN pnames : e \in CallsIn(n)
  <2>1. PICK s \in CallStmts : e = <<ProcOf(s), ast[s].about[1]>>
    BY DEF Calls
  <2>2. s \in Stmts /\ ast[s].kind = "call"
    BY DEF CallStmts
  <2>3. ProcedureOf(ast)[s] \in DOMAIN pnames
    BY <2>2, ProcedureOfStmt
  <2>4. e \in CallsIn(ProcedureOf(ast)[s])
    BY <2>1, <2>2 DEF CallsIn, ProcOf, Stmts
  <2> QED
    BY <2>3, <2>4
<1> QED
  BY <1>1, <1>2, NamedProperly

LEMMA TakeProcedureKeepsTraversing ==
  ASSUME IsParsed, DOMAIN pkb = TableNames, Traversing(pkb, nodes, call_graph), TakeProcedure
  PROVE  /\ Traversing(pkb', nodes', call_graph')
         /\ \A g \in Relations : g # "calls" => pkb'[g] = pkb[g]
<1>1. /\ nodes \in Seq(TreeNodes) /\ nodes # <<>> /\ nodes' = Tail(nodes) \o ChildrenOf(Head(nodes))
      /\ Head(nodes).type = "procedure"
  BY DEF TakeProcedure, TakeNode, Traversing
<1>2. /\ Head(nodes) \in TreeNodes /\ nodes' \in Seq(TreeNodes)
      /\ \A x \in ToCome(ToSet(nodes), NodeEdges, TreeNodes) :
           x # Head(nodes) => x \in ToCome(ToSet(nodes'), NodeEdges, TreeNodes)
  BY <1>1, TraversalGoesOn
<1>3. PICK n \in DOMAIN pnames : Head(nodes) = ProcNode(n)
  BY <1>1, <1>2, NodeIs
<1>4. Head(nodes).list.of = n
  BY <1>3 DEF ProcNode, Procedure
<1>5. pkb' = ExtractCallRelation(ExtractProcedure(pkb, n), n) /\ call_graph' = call_graph \cup CallsIn(n)
  BY <1>4 DEF TakeProcedure
<1>6. pkb'.calls = InsertNames(pkb.calls, CallsIn(n)) /\ \A g \in Relations : g # "calls" => pkb'[g] = pkb[g]
  BY <1>5, ProcedureWritesCalls
<1>7. CallsIn(n) \subseteq Calls /\ \A e \in CallsIn(n) : e[1] # "" /\ e[2] # ""
  BY CallsInAreCalls
<1>8. pkb'.calls.table = pkb.calls.table \cup CallsIn(n)
  <2>1. PICK c : c = CallsIn(n)
    OBVIOUS
  <2>2. {p \in c : p[1] # "" /\ p[2] # ""} = c
    BY <1>7, <2>1
  <2>3. pkb'.calls = InsertPairs(pkb.calls, c)
    BY <1>6, <2>1, <2>2 DEF InsertNames
  <2> QED
    BY <2>1, <2>3 DEF InsertPairs
<1>9. pkb'.follows = pkb.follows /\ pkb'.followsT = pkb.followsT
  BY <1>6 DEF Relations
<1>10. \A m \in DOMAIN pnames : m # n => ProcNode(m) # ProcNode(n)
  BY DEF ProcNode, Procedure
<1>11. \A list : ListNode(list) # ProcNode(n)
  BY DEF ListNode, ProcNode
<1>12. \A m \in DOMAIN pnames : \/ CallsIn(m) \subseteq call_graph'
                                \/ ProcNode(m) \in ToCome(ToSet(nodes'), NodeEdges, TreeNodes)
  BY <1>2, <1>3, <1>5, <1>10 DEF Traversing
<1>13. \A s \in Stmts : \/ Told(pkb', ast[s].list)
                        \/ ListNode(ast[s].list) \in ToCome(ToSet(nodes'), NodeEdges, TreeNodes)
  BY <1>2, <1>3, <1>9, <1>11 DEF Traversing, Told
<1>14. pkb'.calls.table = call_graph' /\ call_graph' \subseteq Calls
  BY <1>5, <1>7, <1>8 DEF Traversing
<1>15. pkb'.follows.table \subseteq Consecutive /\ pkb'.followsT.table \subseteq Following
  BY <1>9 DEF Traversing
<1> QED
  BY <1>2, <1>6, <1>12, <1>13, <1>14, <1>15 DEF Traversing

\* Of the statements of a list, who follows whom is not refused.
LEMMA FollowsIsInserted ==
  ASSUME IsParsed, NEW t, Agree(t), t.table \subseteq Consecutive, NEW list
  PROVE  InsertFollows(t, ConsecutiveIn(list)).table = t.table \cup ConsecutiveIn(list)
<1> DEFINE new == {p \in ConsecutiveIn(list) : p[1] \notin KeysOf(t.table) /\ p[2] \notin KeysOf(t.inverse) /\ InTextOrder(p)}
<1>1. InsertFollows(t, ConsecutiveIn(list)).table = t.table \cup new
  BY DEF InsertFollows, InsertPairs
<1>2. ASSUME NEW p \in ConsecutiveIn(list), p \notin new
      PROVE  p \in t.table
  <2>1. p \in Consecutive /\ InTextOrder(p)
    BY FollowingIs
  <2>2. p[1] \in KeysOf(t.table) \/ p[2] \in KeysOf(t.inverse)
    BY <1>2, <2>1
  <2>3. CASE p[1] \in KeysOf(t.table)
    <3>1. PICK r \in t.table : r[1] = p[1]
      BY <2>3 DEF KeysOf
    <3>2. r = p
      BY <2>1, <3>1, ConsecutiveIsOne
    <3> QED
      BY <3>2
  <2>4. CASE p[2] \in KeysOf(t.inverse)
    <3>1. PICK u \in t.inverse : u[1] = p[2]
      BY <2>4 DEF KeysOf
    <3>2. PICK r \in t.table : u = <<r[2], r[1]>>
      BY DEF Agree, Swapped
    <3>3. r = p
      BY <2>1, <3>1, <3>2, ConsecutiveIsOne
    <3> QED
      BY <3>3
  <2> QED
    BY <2>2, <2>3, <2>4
<1> QED
  BY <1>1, <1>2

LEMMA TakeListKeepsTraversing ==
  ASSUME IsParsed, Agreeing(pkb), Traversing(pkb, nodes, call_graph), TakeStatementList
  PROVE  /\ Traversing(pkb', nodes', call_graph')
         /\ \A g \in Relations : g \notin {"follows", "followsT"} => pkb'[g] = pkb[g]
<1>1. /\ nodes \in Seq(TreeNodes) /\ nodes # <<>> /\ nodes' = Tail(nodes) \o ChildrenOf(Head(nodes))
      /\ Head(nodes).type = "list"
  BY DEF TakeStatementList, TakeNode, Traversing
<1>2. /\ Head(nodes) \in TreeNodes /\ nodes' \in Seq(TreeNodes)
      /\ \A x \in ToCome(ToSet(nodes), NodeEdges, TreeNodes) :
           x # Head(nodes) => x \in ToCome(ToSet(nodes'), NodeEdges, TreeNodes)
  BY <1>1, TraversalGoesOn
<1>3. PICK list \in Lists : Head(nodes) = ListNode(list)
  BY <1>1, <1>2, NodeIs
<1>4. Head(nodes).list = list
  BY <1>3 DEF ListNode
<1>5. pkb' = ExtractFollows(pkb, list) /\ call_graph' = call_graph
  BY <1>4 DEF TakeStatementList
<1>6. DOMAIN pkb = TableNames /\ Agree(pkb.follows)
  BY DEF Agreeing, TablesAgree
<1>7. /\ pkb'.follows = InsertFollows(pkb.follows, ConsecutiveIn(list))
      /\ pkb'.followsT = InsertFollowsT(pkb.followsT, FollowingIn(list))
      /\ \A g \in Relations : g \notin {"follows", "followsT"} => pkb'[g] = pkb[g]
  BY <1>5, <1>6, ListWritesFollows
<1>8. pkb'.calls = pkb.calls
  BY <1>7 DEF Relations
<1>9. pkb'.follows.table = pkb.follows.table \cup ConsecutiveIn(list)
  BY <1>6, <1>7, FollowsIsInserted DEF Traversing
<1>10. pkb'.followsT.table = pkb.followsT.table \cup FollowingIn(list)
  <2>1. \A p \in FollowingIn(list) : InTextOrder(p)
    BY FollowingIs
  <2> QED
    BY <1>7, <2>1 DEF InsertFollowsT, InsertPairs
<1>11. \A other : other # list => ListNode(other) # ListNode(list)
  BY DEF ListNode
<1>12. \A n : ProcNode(n) # ListNode(list)
  BY DEF ListNode, ProcNode
<1>13. \A s \in Stmts : \/ Told(pkb', ast[s].list)
                        \/ ListNode(ast[s].list) \in ToCome(ToSet(nodes'), NodeEdges, TreeNodes)
  BY <1>2, <1>3, <1>9, <1>10, <1>11 DEF Traversing, Told
<1>14. \A n \in DOMAIN pnames : \/ CallsIn(n) \subseteq call_graph'
                                \/ ProcNode(n) \in ToCome(ToSet(nodes'), NodeEdges, TreeNodes)
  BY <1>2, <1>3, <1>5, <1>12 DEF Traversing
<1>15. ConsecutiveIn(list) \subseteq Consecutive /\ FollowingIn(list) \subseteq Following
  BY FollowingIs
<1>16. pkb'.follows.table \subseteq Consecutive /\ pkb'.followsT.table \subseteq Following
  BY <1>9, <1>10, <1>15 DEF Traversing
<1>17. pkb'.calls.table = call_graph' /\ call_graph' \subseteq Calls
  BY <1>5, <1>8 DEF Traversing
<1> QED
  BY <1>2, <1>7, <1>13, <1>14, <1>16, <1>17 DEF Traversing

LEMMA OtherNodesKeepTraversing ==
  ASSUME IsParsed, DOMAIN pkb = TableNames, Traversing(pkb, nodes, call_graph), TakeStatement \/ TakeLeaves
  PROVE  Traversing(pkb', nodes', call_graph') /\ \A g \in Relations : pkb'[g] = pkb[g]
<1>1. /\ nodes \in Seq(TreeNodes) /\ nodes # <<>> /\ nodes' = Tail(nodes) \o ChildrenOf(Head(nodes))
      /\ Head(nodes).type \in {"statement", "leaves"} /\ call_graph' = call_graph
  BY DEF TakeStatement, TakeLeaves, TakeNode, Traversing
<1>2. /\ nodes' \in Seq(TreeNodes)
      /\ \A x \in ToCome(ToSet(nodes), NodeEdges, TreeNodes) :
           x # Head(nodes) => x \in ToCome(ToSet(nodes'), NodeEdges, TreeNodes)
  BY <1>1, TraversalGoesOn
<1>3. SameRelations(pkb, pkb')
  BY StatementKeepsRelations, LeavesKeepRelations DEF TakeStatement, TakeLeaves
<1>4. \A g \in Relations : pkb'[g] = pkb[g]
  BY <1>3 DEF SameRelations
<1>5. pkb'.follows = pkb.follows /\ pkb'.followsT = pkb.followsT /\ pkb'.calls = pkb.calls
  BY <1>4 DEF Relations
<1>6. \A x : ListNode(x) # Head(nodes) /\ ProcNode(x) # Head(nodes)
  BY <1>1 DEF ListNode, ProcNode
<1>7. \A s \in Stmts : \/ Told(pkb', ast[s].list)
                       \/ ListNode(ast[s].list) \in ToCome(ToSet(nodes'), NodeEdges, TreeNodes)
  BY <1>2, <1>5, <1>6 DEF Traversing, Told
<1>8. \A n \in DOMAIN pnames : \/ CallsIn(n) \subseteq call_graph'
                               \/ ProcNode(n) \in ToCome(ToSet(nodes'), NodeEdges, TreeNodes)
  BY <1>1, <1>2, <1>6 DEF Traversing
<1> QED
  BY <1>1, <1>2, <1>4, <1>5, <1>7, <1>8 DEF Traversing

LEMMA TraversalIsDone ==
  ASSUME IsParsed, NEW k, NEW g, Traversing(k, <<>>, g)
  PROVE  k.follows.table = Consecutive /\ k.followsT.table = Following /\ k.calls.table = Calls /\ g = Calls
<1>1. ToCome(ToSet(<<>>), NodeEdges, TreeNodes) = {}
  BY DEF ToCome, ToSet
<1>2. \A n \in DOMAIN pnames : CallsIn(n) \subseteq g
  BY <1>1 DEF Traversing
<1>3. \A s \in Stmts : Told(k, ast[s].list)
  BY <1>1 DEF Traversing
<1>4. Calls \subseteq g
  BY <1>2, CallsInAreCalls
<1>5. Consecutive \subseteq k.follows.table
  BY <1>3, FollowingIs DEF Told
<1>6. Following \subseteq k.followsT.table
  BY <1>3, FollowingIs DEF Told
<1> QED
  BY <1>4, <1>5, <1>6 DEF Traversing

(***************************************************************************)
(* The tables, stage by stage.                                             *)
(***************************************************************************)
BeforeParents == Reading \cup {"StatementHandler", "ParentHandler"}
BeforeNext == BeforeParents \cup {"ModifiesHandler", "CFGHandler", "connecting", "NextHandler"}
BeforeCalls == BeforeNext \cup {"BreadthFirstTraversal"}
BeforeCallsT == BeforeCalls \cup {"CallHandler"}

Unwritten(k, names) == \A f \in names : k[f] = NoPairs

\* What the tables k and the static graph g hold at the stage st.
Written(st, k, g) ==
  /\ IF st \in BeforeParents THEN Unwritten(k, {"parent", "parentT"})
     ELSE k.parent.table = Parents /\ k.parentT.table = TransitiveClosure(Parents, Stmts)
  /\ IF st \in BeforeNext THEN Unwritten(k, {"next", "nextT", "follows", "followsT", "calls"})
     ELSE k.next.table = ControlFlow(ast) /\ k.nextT.table = TransitiveClosure(ControlFlow(ast), Stmts)
  /\ st \notin BeforeCalls =>
       k.follows.table = Consecutive /\ k.followsT.table = Following /\ k.calls.table = Calls
  /\ IF st \in BeforeCallsT THEN Unwritten(k, {"callsT"})
     ELSE k.callsT.table = TransitiveClosure(Calls, ToSet(pnames))
  /\ st # "BreadthFirstTraversal" => g = IF st = "CallHandler" THEN Calls ELSE {}

Progress(st, k, g, q, c, lists, cur) ==
  /\ st # "thrown" => Written(st, k, g)
  /\ st = "BreadthFirstTraversal" => Traversing(k, q, g)
  /\ st = "connecting" => Connecting(c, lists, cur)
  /\ st = "NextHandler" => c = ControlFlow(ast)

RelationsInv == IInv /\ Progress(stage, pkb, call_graph, nodes, cfg, queue, current)

\* The nodes of a tree are the tree's.
LEMMA SameTreeSameNodes ==
  ASSUME ast' = ast, pnames' = pnames
  PROVE  /\ Stmts' = Stmts /\ Calls' = Calls /\ Parents' = Parents /\ Lists' = Lists
         /\ TreeNodes' = TreeNodes /\ NodeEdges' = NodeEdges
<1>1. Stmts' = Stmts /\ Outermost' = Outermost
  BY DEF Stmts, Outermost
<1>2. Calls' = Calls
  BY DEF Calls, CallStmts, ProcOf, Stmts
<1>3. Parents' = Parents
  BY <1>1 DEF Parents
<1>4. Lists' = Lists
  BY <1>1 DEF Lists
<1>5. Roots' = Roots
  BY DEF Roots, ProcNode
<1>6. TreeNodes' = TreeNodes
  BY <1>1, <1>4, <1>5 DEF TreeNodes, ListNode, StmtNode, LeafNode
<1>7. \A n : ChildrenOf(n)' = ChildrenOf(n)
  BY DEF ChildrenOf
<1>8. NodeEdges' = NodeEdges
  BY <1>6, <1>7 DEF NodeEdges
<1> QED
  BY <1>1, <1>2, <1>3, <1>4, <1>6, <1>8

LEMMA SameTreeMeansTheSame ==
  ASSUME ast' = ast, pnames' = pnames,
         Progress(stage', pkb', call_graph', nodes', cfg', queue', current')
  PROVE  Progress(stage, pkb, call_graph, nodes, cfg, queue, current)'
<1>1. /\ Stmts' = Stmts /\ Calls' = Calls /\ Parents' = Parents /\ Lists' = Lists
      /\ TreeNodes' = TreeNodes /\ NodeEdges' = NodeEdges
  BY SameTreeSameNodes
<1>2. ListEdges' = ListEdges
  BY <1>1 DEF ListEdges
<1>3. Following' = Following
  BY <1>1 DEF Following, Comes
<1>4. Consecutive' = Consecutive
  BY <1>1 DEF Consecutive, Comes
<1>5. \A n : CallsIn(n)' = CallsIn(n)
  BY DEF CallsIn
<1>6. Exits' = Exits
  BY DEF Exits
<1>7. \A s : Edges(s)' = Edges(s)
  BY <1>6 DEF Edges
<1>8. \A s : ConsecutiveIn(s)' = ConsecutiveIn(s) /\ FollowingIn(s)' = FollowingIn(s)
  BY DEF ConsecutiveIn, FollowingIn
<1>9. Written(stage', pkb', call_graph') => Written(stage, pkb, call_graph)'
  BY <1>1, <1>3, <1>4
  DEF Written, BeforeCallsT, BeforeCalls, BeforeNext, BeforeParents, Reading, Unwritten
<1>10. Traversing(pkb', nodes', call_graph') => Traversing(pkb, nodes, call_graph)'
  <2> SUFFICES ASSUME Traversing(pkb', nodes', call_graph')
               PROVE  Traversing(pkb, nodes, call_graph)'
    OBVIOUS
  <2>1. (nodes \in Seq(TreeNodes) /\ pkb.calls.table = call_graph /\ call_graph \subseteq Calls)'
    BY <1>1 DEF Traversing
  <2>2. (\A n \in DOMAIN pnames : CallsIn(n) \subseteq call_graph \/ ProcNode(n) \in ToCome(ToSet(nodes), NodeEdges, TreeNodes))'
    BY <1>1, <1>5 DEF Traversing, ProcNode
  <2>3. (pkb.follows.table \subseteq Consecutive /\ pkb.followsT.table \subseteq Following)'
    BY <1>3, <1>4 DEF Traversing
  <2>4. (\A s \in Stmts : Told(pkb, ast[s].list) \/ ListNode(ast[s].list) \in ToCome(ToSet(nodes), NodeEdges, TreeNodes))'
    BY <1>1, <1>8 DEF Traversing, Told, ListNode
  <2> QED
    BY <2>1, <2>2, <2>3, <2>4 DEF Traversing
<1>11. Connecting(cfg', queue', current') => Connecting(cfg, queue, current)'
  BY <1>1, <1>2, <1>7 DEF Connecting
<1> QED
  BY <1>9, <1>10, <1>11 DEF Progress

LEMMA NextStage ==
  /\ End("StatementHandler") => stage' = "ParentHandler"
  /\ End("ParentHandler") => stage' = "ModifiesHandler"
  /\ End("ModifiesHandler") => stage' = "CFGHandler"
  /\ End("CFGHandler") => stage' = "NextHandler"
  /\ End("NextHandler") => /\ stage' = "BreadthFirstTraversal"
                           /\ nodes' = [n \in DOMAIN pnames |-> [type |-> "procedure", list |-> Procedure(n)]]
  /\ End("BreadthFirstTraversal") => stage' = "CallHandler"
  /\ End("CallHandler") => stage' = "UsesP"
  /\ End("UsesP") => stage' = "ModifiesP"
  /\ End("ModifiesP") => stage' = "extracted"
  /\ ExtractDesigns => stage' = "StatementHandler"
<1>1. DOMAIN Handlers = 1..10
  BY DEF Handlers
<1>2. /\ Handlers[1] = "StatementHandler" /\ Handlers[2] = "ParentHandler" /\ Handlers[3] = "ModifiesHandler"
      /\ Handlers[4] = "CFGHandler" /\ Handlers[5] = "NextHandler" /\ Handlers[6] = "BreadthFirstTraversal"
      /\ Handlers[7] = "CallHandler" /\ Handlers[8] = "UsesP" /\ Handlers[9] = "ModifiesP" /\ Handlers[10] = "extracted"
  BY DEF Handlers
<1>3. ASSUME NEW h, End(h)
      PROVE  \E i \in 1..10 : Handlers[i] = h /\ Begin(Handlers[i + 1])
  BY <1>1, <1>3 DEF End
<1>4. ASSUME NEW i \in 1..9, End(Handlers[i])
      PROVE  Begin(Handlers[i + 1])
  <2>1. PICK j \in 1..10 : Handlers[j] = Handlers[i] /\ Begin(Handlers[j + 1])
    BY <1>3, <1>4
  <2>2. j = i
    BY <1>2, <2>1
  <2> QED
    BY <2>1, <2>2
<1>5. \A h : Begin(h) => /\ stage' = h
                         /\ h = "BreadthFirstTraversal" =>
                              nodes' = [n \in DOMAIN pnames |-> [type |-> "procedure", list |-> Procedure(n)]]
  BY DEF Begin
<1>6. ExtractDesigns => Begin(Handlers[1])
  BY DEF ExtractDesigns
<1>7. /\ End(Handlers[1]) => Begin(Handlers[2])
      /\ End(Handlers[2]) => Begin(Handlers[3])
      /\ End(Handlers[3]) => Begin(Handlers[4])
      /\ End(Handlers[4]) => Begin(Handlers[5])
      /\ End(Handlers[5]) => Begin(Handlers[6])
      /\ End(Handlers[6]) => Begin(Handlers[7])
      /\ End(Handlers[7]) => Begin(Handlers[8])
      /\ End(Handlers[8]) => Begin(Handlers[9])
      /\ End(Handlers[9]) => Begin(Handlers[10])
  BY <1>4
<1> QED
  BY <1>2, <1>5, <1>6, <1>7

LEMMA UnwrittenTables ==
  ASSUME NEW k
  PROVE  /\ Unwritten(k, {"parent", "parentT"}) <=> k.parent = NoPairs /\ k.parentT = NoPairs
         /\ Unwritten(k, {"next", "nextT", "follows", "followsT", "calls"}) <=>
              /\ k.next = NoPairs /\ k.nextT = NoPairs /\ k.follows = NoPairs /\ k.followsT = NoPairs /\ k.calls = NoPairs
         /\ Unwritten(k, {"callsT"}) <=> k.callsT = NoPairs
BY DEF Unwritten

LEMMA SameTablesWritten ==
  ASSUME NEW k, NEW l, \A f \in Relations : l[f] = k[f], NEW st, NEW g, Written(st, k, g)
  PROVE  Written(st, l, g)
<1>1. /\ l.parent = k.parent /\ l.parentT = k.parentT /\ l.next = k.next /\ l.nextT = k.nextT
      /\ l.follows = k.follows /\ l.followsT = k.followsT /\ l.calls = k.calls /\ l.callsT = k.callsT
  BY DEF Relations
<1> QED
  BY <1>1, UnwrittenTables DEF Written

\* Into an empty table all is inserted that is not refused.
LEMMA FirstInsertion ==
  ASSUME NEW pairs
  PROVE  /\ InsertPairs(NoPairs, pairs).table = pairs
         /\ (\A p \in pairs : InTextOrder(p)) => InsertParent(NoPairs, pairs).table = pairs
         /\ (\A p \in pairs : InTextOrder(p)) => InsertParentT(NoPairs, pairs).table = pairs
         /\ (\A p \in pairs : p[1] # p[2] /\ ArePositive(p)) => InsertNext(NoPairs, pairs).table = pairs
         /\ (\A p \in pairs : ArePositive(p)) => InsertNextT(NoPairs, pairs).table = pairs
         /\ (\A p \in pairs : p[1] # "" /\ p[2] # "") => InsertNames(NoPairs, pairs).table = pairs
<1>1. InsertPairs(NoPairs, pairs).table = pairs
  BY DEF InsertPairs, NoPairs
<1>2. KeysOf(NoPairs.inverse) = {}
  BY DEF KeysOf, NoPairs
<1>3. (\A p \in pairs : InTextOrder(p)) =>
        /\ {p \in pairs : p[2] \notin KeysOf(NoPairs.inverse) /\ InTextOrder(p)} = pairs
        /\ {p \in pairs : InTextOrder(p)} = pairs
  BY <1>2
<1>4. (\A p \in pairs : p[1] # p[2] /\ ArePositive(p)) => {p \in pairs : p[1] # p[2] /\ ArePositive(p)} = pairs
  OBVIOUS
<1>5. (\A p \in pairs : ArePositive(p)) => {p \in pairs : ArePositive(p)} = pairs
  OBVIOUS
<1>6. (\A p \in pairs : p[1] # "" /\ p[2] # "") => {p \in pairs : p[1] # "" /\ p[2] # ""} = pairs
  OBVIOUS
<1> QED
  BY <1>1, <1>3, <1>4, <1>5, <1>6 DEF InsertParent, InsertParentT, InsertNext, InsertNextT, InsertNames

Proceeds == Progress(stage', pkb', call_graph', nodes', cfg', queue', current')

\* Where the stages stand.
LEMMA StagesInOrder ==
  /\ {"lexing", "parsed", "StatementHandler", "ParentHandler"} \subseteq BeforeParents
  /\ \A st \in Reading : st \in BeforeParents
  /\ BeforeParents \subseteq BeforeNext /\ BeforeNext \subseteq BeforeCalls /\ BeforeCalls \subseteq BeforeCallsT
  /\ \A st \in {"ModifiesHandler", "CFGHandler", "connecting", "NextHandler"} : st \in BeforeNext /\ st \notin BeforeParents
  /\ "BreadthFirstTraversal" \in BeforeCalls /\ "BreadthFirstTraversal" \notin BeforeNext \cup BeforeParents
  /\ "CallHandler" \in BeforeCallsT /\ "CallHandler" \notin BeforeCalls \cup BeforeNext \cup BeforeParents
  /\ \A st \in {"UsesP", "ModifiesP", "extracted"} : st \notin BeforeCallsT \cup BeforeCalls \cup BeforeNext \cup BeforeParents
  /\ \A st \in BeforeNext : st \notin {"BreadthFirstTraversal", "CallHandler"}
  /\ \A st \in BeforeParents : st \notin {"BreadthFirstTraversal", "CallHandler", "connecting", "NextHandler"}
BY DEF BeforeCallsT, BeforeCalls, BeforeNext, BeforeParents, Reading

\* A step between two stages that the same tables are written at.
LEMMA StageProceeds ==
  ASSUME NEW st, NEW next, NEW k, NEW l, NEW g, Written(st, k, g), \A f \in Relations : l[f] = k[f],
         \/ st \in BeforeParents /\ next \in BeforeParents
         \/ st \in BeforeNext \ BeforeParents /\ next \in BeforeNext \ BeforeParents
         \/ st \notin BeforeCallsT /\ next \notin BeforeCallsT
  PROVE  Written(next, l, g)
<1>1. Written(st, l, g)
  BY SameTablesWritten
<1>2. Written(next, l, g)
  BY <1>1, StagesInOrder DEF Written, BeforeCallsT, BeforeCalls
<1> QED
  BY <1>2

LEMMA OtherHandlersProceed ==
  ASSUME RelationsInv, ExtractStmtNums \/ ExtractModifiesWithoutCalls \/ PropagateUses \/ PropagateModifies \/ EndPropagation
  PROVE  Proceeds
<1>1. DOMAIN pkb = TableNames
  BY DEF RelationsInv, IInv, Agreeing
<1>2. \A new : /\ SameRelations(pkb, [pkb EXCEPT !.stmt = new]) /\ SameRelations(pkb, [pkb EXCEPT !.modifies = new])
  BY <1>1, OtherTablesKeepRelations, OtherTableNames
<1>3. \A new, more : /\ SameRelations(pkb, [pkb EXCEPT !.usesP = new, !.uses = more])
                     /\ SameRelations(pkb, [pkb EXCEPT !.modifiesP = new, !.modifies = more])
  BY <1>1 DEF SameRelations, Relations, TableNames, NoTables
<1>4. \A f \in Relations : pkb'[f] = pkb[f]
  <2>1. CASE ExtractStmtNums
    BY <1>2, <2>1 DEF ExtractStmtNums, SameRelations
  <2>2. CASE ExtractModifiesWithoutCalls
    BY <1>2, <2>2 DEF ExtractModifiesWithoutCalls, SameRelations
  <2>3. CASE PropagateUses
    <3>1. PICK new, more : pkb' = [pkb EXCEPT !.usesP = new, !.uses = more]
      BY <2>3 DEF PropagateUses
    <3>2. SameRelations(pkb, pkb')
      BY <1>3, <3>1, Zenon
    <3> QED
      BY <3>2 DEF SameRelations
  <2>4. CASE PropagateModifies
    <3>1. PICK new, more : pkb' = [pkb EXCEPT !.modifiesP = new, !.modifies = more]
      BY <2>4 DEF PropagateModifies
    <3>2. SameRelations(pkb, pkb')
      BY <1>3, <3>1, Zenon
    <3> QED
      BY <3>2 DEF SameRelations
  <2>5. CASE EndPropagation
    BY <2>5 DEF EndPropagation
  <2> QED
    BY <2>1, <2>2, <2>3, <2>4, <2>5
<1>5. /\ call_graph' = call_graph
      /\ \/ stage = "StatementHandler" /\ stage' = "ParentHandler"
         \/ stage = "ModifiesHandler" /\ stage' = "CFGHandler"
         \/ stage \in {"UsesP", "ModifiesP"} /\ stage' \in {"UsesP", "ModifiesP", "extracted"}
  BY NextStage
  DEF ExtractStmtNums, ExtractModifiesWithoutCalls, PropagateUses, PropagateModifies, EndPropagation, During
<1>6. Written(stage, pkb, call_graph)
  BY <1>5 DEF RelationsInv, Progress
<1>7. Written(stage', pkb', call_graph')
  BY <1>4, <1>5, <1>6, StageProceeds, StagesInOrder
<1>8. stage' \notin {"BreadthFirstTraversal", "connecting", "NextHandler"}
  BY <1>5
<1> QED
  BY <1>7, <1>8 DEF Proceeds, Progress

LEMMA ParentsProceed ==
  ASSUME RelationsInv, ExtractParentAndParentT
  PROVE  Proceeds
<1>1. DOMAIN pkb = TableNames /\ IsParsed
  BY DEF RelationsInv, IInv, Agreeing, ExtractParentAndParentT, During, Reading
<1>2. stage = "ParentHandler" /\ stage' = "ModifiesHandler" /\ call_graph' = call_graph
  BY NextStage DEF ExtractParentAndParentT, During
<1>3. Written("ParentHandler", pkb, call_graph)
  BY <1>2 DEF RelationsInv, Progress
<1>4. /\ pkb.parent = NoPairs /\ pkb.parentT = NoPairs /\ call_graph = {}
      /\ Unwritten(pkb, {"next", "nextT", "follows", "followsT", "calls"}) /\ Unwritten(pkb, {"callsT"})
  BY <1>3, StagesInOrder, UnwrittenTables DEF Written
<1>5. PICK p, pt : p = InsertParent(pkb.parent, ParentEntries) /\ pt = InsertParentT(pkb.parentT, ParentTEntries)
  OBVIOUS
<1>6. pkb' = [pkb EXCEPT !.parent = p, !.parentT = pt]
  BY <1>5 DEF ExtractParentAndParentT
<1>7. pkb'.parent = p /\ pkb'.parentT = pt /\ \A f \in Relations : f \notin {"parent", "parentT"} => pkb'[f] = pkb[f]
  BY <1>1, <1>6 DEF Relations, TableNames, NoTables
<1>8. p.table = Parents
  BY <1>1, <1>4, <1>5, FirstInsertion, ParentEntriesAreParents
<1>9. pt.table = TransitiveClosure(Parents, Stmts)
  BY <1>1, <1>4, <1>5, FirstInsertion, ParentTEntriesAreClosure
<1>10. Unwritten(pkb', {"next", "nextT", "follows", "followsT", "calls"}) /\ Unwritten(pkb', {"callsT"})
  BY <1>4, <1>7 DEF Unwritten, Relations
<1>11. Written("ModifiesHandler", pkb', {})
  BY <1>7, <1>8, <1>9, <1>10, StagesInOrder DEF Written
<1> QED
  BY <1>2, <1>4, <1>11 DEF Proceeds, Progress

LEMMA ConstructionProceeds ==
  ASSUME RelationsInv, BeginCFG \/ ConnectCFG \/ EndCFG
  PROVE  Proceeds
<1>1. IsParsed
  BY DEF RelationsInv, IInv, BeginCFG, ConnectCFG, EndCFG, During, Reading
<1>2. pkb' = pkb /\ call_graph' = call_graph
  BY DEF BeginCFG, ConnectCFG, EndCFG, Terminate, extractVars
<1>3. CASE stage' = "thrown"
  BY <1>3 DEF Proceeds, Progress
<1>4. CASE BeginCFG /\ stage' # "thrown"
  <2>1. stage = "CFGHandler" /\ stage' = "connecting" /\ ConstructCFG
    BY <1>4 DEF BeginCFG, During, Terminate
  <2>2. Connecting(cfg', queue', current')
    BY <1>1, <2>1, ConstructionBegins
  <2>3. Written("connecting", pkb', call_graph')
    BY <1>2, <2>1, StageProceeds, StagesInOrder DEF RelationsInv, Progress
  <2> QED
    BY <2>1, <2>2, <2>3 DEF Proceeds, Progress
<1>5. CASE ConnectCFG
  <2>1. stage = "connecting" /\ stage' = "connecting" /\ (TakeList \/ ConnectStatement)
    BY <1>5 DEF ConnectCFG, During, CFGNext
  <2>2. Connecting(cfg', queue', current')
    BY <1>1, <2>1, TakeListKeepsConnecting, ConnectKeepsConnecting DEF RelationsInv, Progress
  <2>3. Written("connecting", pkb', call_graph')
    BY <1>2, <2>1 DEF RelationsInv, Progress
  <2> QED
    BY <2>1, <2>2, <2>3 DEF Proceeds, Progress
<1>6. CASE EndCFG
  <2>1. stage = "connecting" /\ stage' = "NextHandler" /\ CFGDone /\ cfg' = cfg
    BY <1>6, NextStage DEF EndCFG, During
  <2>2. cfg = ControlFlow(ast)
    BY <1>1, <2>1, DoneIsFlow DEF RelationsInv, Progress
  <2>3. Written("NextHandler", pkb', call_graph')
    BY <1>2, <2>1, StageProceeds, StagesInOrder DEF RelationsInv, Progress
  <2> QED
    BY <2>1, <2>2, <2>3 DEF Proceeds, Progress
<1> QED
  BY <1>3, <1>4, <1>5, <1>6

LEMMA NextProceeds ==
  ASSUME RelationsInv, ExtractNext
  PROVE  Proceeds
<1>1. DOMAIN pkb = TableNames /\ IsParsed
  BY DEF RelationsInv, IInv, Agreeing, ExtractNext, During, Reading
<1>2. /\ stage = "NextHandler" /\ stage' = "BreadthFirstTraversal" /\ call_graph' = call_graph
      /\ nodes' = [n \in DOMAIN pnames |-> [type |-> "procedure", list |-> Procedure(n)]]
  BY NextStage DEF ExtractNext, During
<1>3. Written("NextHandler", pkb, call_graph) /\ cfg = ControlFlow(ast)
  BY <1>2 DEF RelationsInv, Progress
<1>4. /\ pkb.parent.table = Parents /\ pkb.parentT.table = TransitiveClosure(Parents, Stmts) /\ call_graph = {}
      /\ Unwritten(pkb, {"next", "nextT", "follows", "followsT", "calls"}) /\ Unwritten(pkb, {"callsT"})
  BY <1>3, StagesInOrder DEF Written
<1>5. PICK n, nt : n = InsertNext(pkb.next, cfg) /\ nt = InsertNextT(pkb.nextT, Reachable(cfg))
  OBVIOUS
<1>6. pkb' = [pkb EXCEPT !.next = n, !.nextT = nt]
  BY <1>5 DEF ExtractNext
<1>7. pkb'.next = n /\ pkb'.nextT = nt /\ \A f \in Relations : f \notin {"next", "nextT"} => pkb'[f] = pkb[f]
  BY <1>1, <1>6 DEF Relations, TableNames, NoTables
<1>8. /\ ControlFlow(ast) \in SUBSET (Stmts \X Stmts)
      /\ \A e \in ControlFlow(ast) : e[1] # e[2] /\ ArePositive(e)
  BY <1>1, FlowIsProper
<1>9. Reachable(cfg) = TransitiveClosure(ControlFlow(ast), Stmts)
  BY <1>1, <1>3, <1>8, ReachableIsClosure
<1>10. \A e \in TransitiveClosure(ControlFlow(ast), Stmts) : ArePositive(e)
  <2>1. Stmts = 1..Len(ast) /\ Len(ast) \in Nat
    BY <1>1, StmtsAreNumbered
  <2>2. TransitiveClosure(ControlFlow(ast), Stmts) \subseteq Stmts \X Stmts
    BY DEF TransitiveClosure, ReachableFrom
  <2> QED
    BY <2>1, <2>2 DEF ArePositive
<1>11. n.table = ControlFlow(ast) /\ nt.table = TransitiveClosure(ControlFlow(ast), Stmts)
  <2>1. n = InsertNext(NoPairs, ControlFlow(ast)) /\ nt = InsertNextT(NoPairs, TransitiveClosure(ControlFlow(ast), Stmts))
    BY <1>3, <1>4, <1>5, <1>9, UnwrittenTables
  <2>2. PICK E, F : E = ControlFlow(ast) /\ F = TransitiveClosure(ControlFlow(ast), Stmts)
    OBVIOUS
  <2>3. (\A e \in E : e[1] # e[2] /\ ArePositive(e)) /\ (\A e \in F : ArePositive(e))
    BY <1>8, <1>10, <2>2
  <2>4. InsertNext(NoPairs, E).table = E /\ InsertNextT(NoPairs, F).table = F
    BY <2>3, FirstInsertion
  <2> QED
    BY <2>1, <2>2, <2>4, Zenon
<1>12. /\ pkb'.follows = NoPairs /\ pkb'.followsT = NoPairs /\ pkb'.calls = NoPairs /\ pkb'.callsT = NoPairs
       /\ pkb'.parent = pkb.parent /\ pkb'.parentT = pkb.parentT
  BY <1>4, <1>7, UnwrittenTables DEF Relations
<1>13. pkb'.follows.table = {} /\ pkb'.followsT.table = {} /\ pkb'.calls.table = {}
  BY <1>12 DEF NoPairs
<1>14. Traversing(pkb', nodes', {})
  BY <1>1, <1>2, <1>13, TraversalBegins
<1>15. Written("BreadthFirstTraversal", pkb', {})
  BY <1>4, <1>7, <1>11, <1>12, StagesInOrder, UnwrittenTables DEF Written
<1> QED
  BY <1>2, <1>4, <1>14, <1>15 DEF Proceeds, Progress

LEMMA TraversalProceeds ==
  ASSUME RelationsInv, TakeProcedure \/ TakeStatementList \/ TakeStatement \/ TakeLeaves \/ ThrowOutOfRange \/ EndTraversal
  PROVE  Proceeds
<1>1. IsParsed /\ stage = "BreadthFirstTraversal" /\ Agreeing(pkb) /\ DOMAIN pkb = TableNames
  BY DEF RelationsInv, IInv, TakeProcedure, TakeStatementList, TakeStatement, TakeLeaves, TakeNode, ThrowOutOfRange, EndTraversal,
         During, Reading, Agreeing
<1>2. Traversing(pkb, nodes, call_graph) /\ Written("BreadthFirstTraversal", pkb, call_graph)
  BY <1>1 DEF RelationsInv, Progress
<1>3. CASE TakeProcedure \/ TakeStatementList \/ TakeStatement \/ TakeLeaves
  <2>1. stage' = "BreadthFirstTraversal"
    BY <1>1, <1>3 DEF TakeProcedure, TakeStatementList, TakeStatement, TakeLeaves, TakeNode
  <2>2. /\ Traversing(pkb', nodes', call_graph')
        /\ \A f \in Relations : f \notin {"follows", "followsT", "calls"} => pkb'[f] = pkb[f]
    BY <1>1, <1>2, <1>3, TakeProcedureKeepsTraversing, TakeListKeepsTraversing, OtherNodesKeepTraversing
  <2>3. /\ pkb'.parent = pkb.parent /\ pkb'.parentT = pkb.parentT /\ pkb'.next = pkb.next /\ pkb'.nextT = pkb.nextT
        /\ pkb'.callsT = pkb.callsT
    BY <2>2 DEF Relations
  <2>4. Written("BreadthFirstTraversal", pkb', call_graph')
    BY <1>2, <2>3, StagesInOrder, UnwrittenTables DEF Written
  <2> QED
    BY <2>1, <2>2, <2>4 DEF Proceeds, Progress
<1>4. CASE ThrowOutOfRange
  BY <1>4 DEF ThrowOutOfRange, Terminate, Proceeds, Progress
<1>5. CASE EndTraversal
  <2>1. stage' = "CallHandler" /\ nodes = <<>> /\ pkb' = pkb /\ call_graph' = call_graph
    BY <1>5, NextStage DEF EndTraversal
  <2>2. pkb.follows.table = Consecutive /\ pkb.followsT.table = Following /\ pkb.calls.table = Calls /\ call_graph = Calls
    BY <1>1, <1>2, <2>1, TraversalIsDone
  <2>3. Written("CallHandler", pkb', call_graph')
    BY <1>2, <2>1, <2>2, StagesInOrder DEF Written
  <2> QED
    BY <2>1, <2>3 DEF Proceeds, Progress
<1> QED
  BY <1>3, <1>4, <1>5

LEMMA CallTProceeds ==
  ASSUME RelationsInv, ExtractCallT
  PROVE  Proceeds
<1>1. DOMAIN pkb = TableNames /\ IsParsed
  BY DEF RelationsInv, IInv, Agreeing, ExtractCallT, During, Reading
<1>2. stage = "CallHandler" /\ stage' = "UsesP" /\ call_graph' = {}
  BY NextStage DEF ExtractCallT, During
<1>3. Written("CallHandler", pkb, call_graph)
  BY <1>2 DEF RelationsInv, Progress
<1>4. call_graph = Calls /\ pkb.callsT = NoPairs
  BY <1>3, StagesInOrder, UnwrittenTables DEF Written
<1>5. pkb' = [pkb EXCEPT !.callsT = InsertNames(NoPairs, TransitiveClosure(Calls, ToSet(pnames)))]
  BY <1>1, <1>4, DescendantsAreClosure DEF ExtractCallT
<1>6. InsertNames(NoPairs, TransitiveClosure(Calls, ToSet(pnames))).table = TransitiveClosure(Calls, ToSet(pnames))
  <2>1. PICK F : F = TransitiveClosure(Calls, ToSet(pnames))
    OBVIOUS
  <2>2. \A e \in F : e[1] # "" /\ e[2] # ""
    BY <1>1, <2>1, NamedProperly
  <2> QED
    BY <2>1, <2>2, FirstInsertion
<1>7. "callsT" \in Relations
  BY DEF Relations
<1>8. pkb'.callsT.table = TransitiveClosure(Calls, ToSet(pnames)) /\ \A f \in Relations : f # "callsT" => pkb'[f] = pkb[f]
  BY <1>1, <1>5, <1>6, <1>7, WrittenTable
<1>9. /\ pkb'.parent = pkb.parent /\ pkb'.parentT = pkb.parentT /\ pkb'.next = pkb.next /\ pkb'.nextT = pkb.nextT
      /\ pkb'.follows = pkb.follows /\ pkb'.followsT = pkb.followsT /\ pkb'.calls = pkb.calls
  BY <1>8 DEF Relations
<1>10. Written("UsesP", pkb', {})
  BY <1>3, <1>8, <1>9, StagesInOrder DEF Written
<1> QED
  BY <1>2, <1>10 DEF Proceeds, Progress

LEMMA ReadingProceeds ==
  ASSUME RelationsInv, ReadProgram \/ (stage = "parsed" /\ ExtractDesigns)
  PROVE  Proceeds
<1>1. CASE ReadProgram
  <2>1. stage' \in Reading /\ pkb' = NoTables /\ stage' \in BeforeParents
    BY <1>1, StagesInOrder DEF ReadProgram
  <2>2. call_graph' = {}
    <3>1. CASE stage = "thrown"
      BY <1>1, <3>1 DEF ReadProgram
    <3>2. CASE stage \in Reading \cup {"extracted"}
      <4>1. stage \notin {"thrown", "BreadthFirstTraversal", "CallHandler"}
        BY <3>2 DEF Reading
      <4> QED
        BY <1>1, <4>1 DEF ReadProgram, RelationsInv, Progress, Written
    <3> QED
      BY <1>1, <3>1, <3>2 DEF ReadProgram
  <2>3. /\ NoTables.parent = NoPairs /\ NoTables.parentT = NoPairs /\ NoTables.next = NoPairs /\ NoTables.nextT = NoPairs
        /\ NoTables.follows = NoPairs /\ NoTables.followsT = NoPairs /\ NoTables.calls = NoPairs /\ NoTables.callsT = NoPairs
    BY DEF NoTables
  <2>4. Written(stage', NoTables, {})
    BY <2>1, <2>3, StagesInOrder, UnwrittenTables DEF Written
  <2> QED
    BY <2>1, <2>2, <2>4, StagesInOrder DEF Proceeds, Progress
<1>2. CASE stage = "parsed" /\ ExtractDesigns
  <2>1. stage' = "StatementHandler" /\ pkb' = pkb /\ call_graph' = call_graph
    BY <1>2, NextStage DEF ExtractDesigns
  <2>2. Written("StatementHandler", pkb', call_graph')
    BY <1>2, <2>1, StageProceeds, StagesInOrder DEF RelationsInv, Progress
  <2> QED
    BY <2>1, <2>2 DEF Proceeds, Progress
<1> QED
  BY <1>1, <1>2

LEMMA HandlersProceed ==
  ASSUME RelationsInv, ExtractNextStep
  PROVE  Proceeds
BY OtherHandlersProceed, ParentsProceed, ConstructionProceeds, NextProceeds, TraversalProceeds, CallTProceeds
DEF ExtractNextStep

LEMMA ReadingMeansAnything ==
  ASSUME stage' \in Reading, Proceeds
  PROVE  Progress(stage, pkb, call_graph, nodes, cfg, queue, current)'
<1>1. stage' \in BeforeParents /\ stage' \notin {"BreadthFirstTraversal", "connecting", "NextHandler", "CallHandler"}
  BY StagesInOrder
<1>2. Written(stage', pkb', call_graph') => Written(stage, pkb, call_graph)'
  BY <1>1, StagesInOrder
  DEF Written, BeforeCallsT, BeforeCalls, BeforeNext, BeforeParents, Reading, Unwritten
<1> QED
  BY <1>1, <1>2 DEF Proceeds, Progress

\* What holds between the handlers, whatever program is read.
LEMMA RelationsHold == ExtractSpec => []RelationsInv
<1>1. ExtractInit /\ stage = "lexing" => RelationsInv
  <2> SUFFICES ASSUME ExtractInit, stage = "lexing" PROVE RelationsInv
    OBVIOUS
  <2>1. IInv
    BY NoTablesAgree DEF ExtractInit, IInv, Reading
  <2>2. pkb = NoTables /\ call_graph = {}
    BY DEF ExtractInit
  <2>3. /\ NoTables.parent = NoPairs /\ NoTables.parentT = NoPairs /\ NoTables.next = NoPairs /\ NoTables.nextT = NoPairs
        /\ NoTables.follows = NoPairs /\ NoTables.followsT = NoPairs /\ NoTables.calls = NoPairs /\ NoTables.callsT = NoPairs
    BY DEF NoTables
  <2>4. Written("lexing", NoTables, {})
    BY <2>3, StagesInOrder, UnwrittenTables DEF Written
  <2> QED
    BY <2>1, <2>2, <2>4 DEF RelationsInv, Progress
<1>2. RelationsInv /\ [ExtractNextStep \/ (stage = "parsed" /\ ExtractDesigns /\ UNCHANGED <<ast, pnames>>) \/ ReadProgram]_<<stage, ast, pnames, extractVars, cfgVars>>
      => RelationsInv'
  <2> SUFFICES ASSUME RelationsInv,
                      \/ ExtractNextStep
                      \/ stage = "parsed" /\ ExtractDesigns /\ UNCHANGED <<ast, pnames>>
                      \/ ReadProgram
                      \/ UNCHANGED <<stage, ast, pnames, extractVars, cfgVars>>
               PROVE  RelationsInv'
    OBVIOUS
  <2>1. IInv'
    BY IInvIsKept DEF RelationsInv
  <2>2. CASE ExtractNextStep \/ (stage = "parsed" /\ ExtractDesigns /\ UNCHANGED <<ast, pnames>>)
    <3>1. Proceeds
      BY <2>2, HandlersProceed, ReadingProceeds
    <3>2. ast' = ast /\ pnames' = pnames
      BY <2>2, HandlersKeepTree
    <3> QED
      BY <2>1, <3>1, <3>2, SameTreeMeansTheSame DEF RelationsInv, Proceeds
  <2>3. CASE ReadProgram
    <3>1. Proceeds /\ stage' \in Reading
      BY <2>3, ReadingProceeds DEF ReadProgram
    <3> QED
      BY <2>1, <3>1, ReadingMeansAnything DEF RelationsInv
  <2>4. CASE UNCHANGED <<stage, ast, pnames, extractVars, cfgVars>>
    <3>1. /\ stage' = stage /\ pkb' = pkb /\ call_graph' = call_graph /\ nodes' = nodes /\ cfg' = cfg
          /\ queue' = queue /\ current' = current /\ ast' = ast /\ pnames' = pnames
      BY <2>4 DEF extractVars, cfgVars
    <3>2. Progress(stage', pkb', call_graph', nodes', cfg', queue', current')
      BY <3>1 DEF RelationsInv
    <3> QED
      BY <2>1, <3>1, <3>2, SameTreeMeansTheSame DEF RelationsInv
  <2> QED
    BY <2>2, <2>3, <2>4
<1> QED
  BY <1>1, <1>2, PTL DEF ExtractSpec

\* Whatever program is read, after whatever others, and whatever they were
\* rejected for: when the handlers have run the tables hold who follows whom,
\* who is in whom, what is executed after what and who calls whom, with their
\* closures, all of it and nothing else.
THEOREM RelationsAreFound == ExtractSpec => []RelationsAreTheProgram
<1>1. RelationsInv => RelationsAreTheProgram
  <2>1. RelationsInv /\ stage = "extracted" => Written("extracted", pkb, call_graph)
    BY DEF RelationsInv, Progress
  <2> QED
    BY <2>1, StagesInOrder DEF Written, RelationsAreTheProgram, Extracted, Following, Consecutive
<1> QED
  BY <1>1, RelationsHold, PTL
-----------------------------------------------------------------------------
(***************************************************************************)
(* What executing a statement can do: what own says of it, of what is in   *)
(* it, and of the procedures that are called in it.                        *)
(***************************************************************************)
Within(s) == {s} \cup ReachableFrom(Parents, Stmts, s)
Callee(c) == ast[c].about[1]
CallsWithin(s) == CallStmts \cap Within(s)
StmtsOf(name) == {t \in Stmts : ProcOf(t) = name}

Effect(own, s) == CollectedFrom(Stmts, Executes, own, s)
ProcEffect(own, name) == UNION {Effect(own, s) : s \in StmtsOf(name)}

\* What is known of it when the procedures in done are.
InIt(own, s) == UNION {own[t] : t \in Within(s)}
CalledIn(own, s, done) == UNION {ProcEffect(own, p) : p \in done \cap {Callee(c) : c \in CallsWithin(s)}}
Known(own, s, done) == InIt(own, s) \cup CalledIn(own, s, done)

\* What is known is in it, or of what is called in it.
LEMMA KnownHas ==
  ASSUME NEW own, NEW s, NEW done, NEW v
  PROVE  v \in Known(own, s, done) <=>
           \/ \E t \in Within(s) : v \in own[t]
           \/ \E c \in CallsWithin(s) : Callee(c) \in done /\ v \in ProcEffect(own, Callee(c))
<1>1. v \in Known(own, s, done) <=> v \in InIt(own, s) \/ v \in CalledIn(own, s, done)
  BY DEF Known
<1>2. v \in InIt(own, s) <=> \E t \in Within(s) : v \in own[t]
  BY DEF InIt
<1> DEFINE P == {Callee(c) : c \in CallsWithin(s)}
<1>3. v \in CalledIn(own, s, done) <=> \E p : p \in done /\ p \in P /\ v \in ProcEffect(own, p)
  <2>1. CalledIn(own, s, done) = UNION {ProcEffect(own, p) : p \in done \cap P}
    BY DEF CalledIn
  <2> HIDE DEF P
  <2> QED
    BY <2>1
<1>4. \A p : p \in P <=> \E c \in CallsWithin(s) : Callee(c) = p
  BY Zenon
<1>5. v \in CalledIn(own, s, done) <=> \E c \in CallsWithin(s) : Callee(c) \in done /\ v \in ProcEffect(own, Callee(c))
  <2> HIDE DEF P
  <2> QED
    BY <1>3, <1>4, Zenon
<1> QED
  BY <1>1, <1>2, <1>5, Zenon

\* What is in a part of a statement is in the statement.
LEMMA WithinIs ==
  ASSUME IsParsed, NEW s \in Stmts
  PROVE  /\ Within(s) \subseteq Stmts
         /\ \A t \in Within(s) : Successors(Parents, t) \subseteq Within(s) /\ Within(t) \subseteq Within(s)
<1>1. Parents \in SUBSET (Stmts \X Stmts)
  BY UpLeadsToParent
<1>2. Within(s) \subseteq Stmts
  BY DEF Within, ReachableFrom
<1>3. ASSUME NEW t \in Within(s)
      PROVE  Successors(Parents, t) \subseteq Within(s)
  BY <1>1, <1>3, ReachableIsClosed DEF Within
<1>4. ASSUME NEW t \in Within(s)
      PROVE  Within(t) \subseteq Within(s)
  <2>1. ReachableFrom(Parents, Stmts, t) \subseteq Within(s)
    BY <1>2, <1>3, ReachableIsLeast
  <2> QED
    BY <2>1, <1>4 DEF Within
<1> QED
  BY <1>2, <1>3, <1>4

\* A container is of the procedure of its parts.
LEMMA WithinOneProcedure ==
  ASSUME IsParsed, NEW s \in Stmts, NEW t \in Within(s)
  PROVE  ProcOf(t) = ProcOf(s)
<1> DEFINE S == {u \in Stmts : ProcOf(u) = ProcOf(s)}
<1>1. \A e \in Parents : e[1] \in Stmts /\ e[2] \in Stmts /\ e[1] = ParentOf(ast, e[2])
  BY DEF Parents
<1>2. Stmts = 1..Len(ast) /\ Len(ast) \in Nat
  BY StmtsAreNumbered
<1>3. \A e \in Parents : ProcOf(e[2]) = ProcOf(e[1])
  BY <1>1, <1>2, ProcedureOfStmt DEF ProcOf
<1>4. \A m \in S : Successors(Parents, m) \subseteq S
  BY <1>1, <1>3 DEF Successors
<1>5. s \in S /\ S \in SUBSET Stmts
  OBVIOUS
<1>6. ReachableFrom(Parents, Stmts, s) \subseteq S
  <2> HIDE DEF S
  <2> QED
    BY <1>4, <1>5, ReachableIsLeast
<1> QED
  BY <1>6 DEF Within

\* What a call calls is a procedure.
LEMMA CallsAreOfProcedures ==
  ASSUME IsParsed, NEW c \in CallStmts
  PROVE  /\ c \in Stmts /\ Callee(c) \in ToSet(pnames) /\ <<ProcOf(c), Callee(c)>> \in Calls
         /\ Callee(c) # ""
<1>1. c \in Stmts
  BY DEF CallStmts
<1>2. <<ProcOf(c), Callee(c)>> \in Calls
  BY DEF Calls, Callee
<1>3. Calls \subseteq ToSet(pnames) \X ToSet(pnames) /\ "" \notin ToSet(pnames)
  BY DEF IsParsed
<1> QED
  BY <1>1, <1>2, <1>3

\* A statement executes its parts, and a call the procedure that it calls.
LEMMA ExecutesIs ==
  ASSUME IsParsed
  PROVE  /\ Executes \in SUBSET (Stmts \X Stmts)
         /\ \A s \in Stmts : Successors(Executes, s) = Successors(Parents, s)
                                \cup (IF s \in CallStmts THEN StmtsOf(Callee(s)) ELSE {})
<1>1. Parents \in SUBSET (Stmts \X Stmts) /\ CallStmts \subseteq Stmts
  BY UpLeadsToParent DEF CallStmts
<1>2. Executes = Parents \cup UNION {{s} \X StmtsOf(Callee(s)) : s \in CallStmts}
  BY DEF Executes, StmtsOf, Callee
<1>3. \A s : StmtsOf(s) \subseteq Stmts
  BY DEF StmtsOf
<1>4. Executes \in SUBSET (Stmts \X Stmts)
  BY <1>1, <1>2, <1>3
<1>5. ASSUME NEW s \in Stmts, NEW t
      PROVE  <<s, t>> \in Executes <=> <<s, t>> \in Parents \/ (s \in CallStmts /\ t \in StmtsOf(Callee(s)))
  BY <1>2
<1>6. ASSUME NEW s \in Stmts, NEW t
      PROVE  t \in Successors(Executes, s) <=> t \in Successors(Parents, s) \/ (s \in CallStmts /\ t \in StmtsOf(Callee(s)))
  BY <1>1, <1>4, <1>5, SuccessorsAreEnds
<1> QED
  BY <1>4, <1>6

\* What a statement executes is in it, or executed by what it calls.
LEMMA ExecutedIs ==
  ASSUME IsParsed, NEW s \in Stmts, NEW n
  PROVE  n \in {s} \cup ReachableFrom(Executes, Stmts, s) <=>
           \/ n \in Within(s)
           \/ \E c \in CallsWithin(s) : \E t \in StmtsOf(Callee(c)) : n \in {t} \cup ReachableFrom(Executes, Stmts, t)
<1> DEFINE R == {s} \cup ReachableFrom(Executes, Stmts, s)
           Called == {m \in Stmts : \E c \in CallsWithin(s) : \E t \in StmtsOf(Callee(c)) :
                                      m \in {t} \cup ReachableFrom(Executes, Stmts, t)}
<1>1. /\ Executes \in SUBSET (Stmts \X Stmts)
      /\ \A m \in Stmts : Successors(Executes, m) = Successors(Parents, m)
                                \cup (IF m \in CallStmts THEN StmtsOf(Callee(m)) ELSE {})
  BY ExecutesIs
<1>2. R \subseteq Stmts
  BY DEF ReachableFrom
<1>3. \A m \in R : Successors(Executes, m) \subseteq R
  BY <1>1, ReachableIsClosed
<1>4. \A m \in R : Successors(Parents, m) \subseteq R /\ (m \in CallStmts => StmtsOf(Callee(m)) \subseteq R)
  BY <1>1, <1>2, <1>3
<1>5. \A m \in R : ReachableFrom(Executes, Stmts, m) \subseteq R
  <2> HIDE DEF R
  <2> QED
    BY <1>2, <1>3, ReachableIsLeast
<1>6. Within(s) \subseteq R
  <2>1. s \in R
    OBVIOUS
  <2> HIDE DEF R
  <2>2. ReachableFrom(Parents, Stmts, s) \subseteq R
    BY <1>2, <1>4, <2>1, ReachableIsLeast
  <2> QED
    BY <2>1, <2>2 DEF Within
<1>7. Called \subseteq R
  <2> SUFFICES ASSUME NEW m \in Called PROVE m \in R
    OBVIOUS
  <2>1. PICK c \in CallsWithin(s) : \E t \in StmtsOf(Callee(c)) : m \in {t} \cup ReachableFrom(Executes, Stmts, t)
    OBVIOUS
  <2>2. PICK t \in StmtsOf(Callee(c)) : m \in {t} \cup ReachableFrom(Executes, Stmts, t)
    BY <2>1
  <2> HIDE DEF R, Called
  <2>3. c \in R /\ c \in CallStmts
    BY <1>6 DEF CallsWithin
  <2>4. t \in R
    BY <1>4, <2>3
  <2> QED
    BY <1>5, <2>2, <2>4
<1>8. \A m \in Called : Successors(Executes, m) \subseteq Called
  <2> SUFFICES ASSUME NEW m \in Called, NEW k \in Successors(Executes, m) PROVE k \in Called
    OBVIOUS
  <2>1. PICK c \in CallsWithin(s) : \E t \in StmtsOf(Callee(c)) : m \in {t} \cup ReachableFrom(Executes, Stmts, t)
    OBVIOUS
  <2>2. PICK t \in StmtsOf(Callee(c)) : m \in {t} \cup ReachableFrom(Executes, Stmts, t)
    BY <2>1
  <2>3. k \in ReachableFrom(Executes, Stmts, t)
    BY <1>1, <2>2, ReachableIsClosed
  <2>4. k \in Stmts
    BY <2>3 DEF ReachableFrom
  <2> QED
    BY <2>2, <2>3, <2>4
<1>9. ASSUME NEW m \in Within(s)
      PROVE  Successors(Executes, m) \subseteq Within(s) \cup Called
  <2>1. m \in Stmts /\ Successors(Parents, m) \subseteq Within(s)
    BY WithinIs
  <2>2. ASSUME m \in CallStmts, NEW t \in StmtsOf(Callee(m))
        PROVE  t \in Called
    <3>1. m \in CallsWithin(s) /\ t \in Stmts
      BY <2>2 DEF CallsWithin, StmtsOf
    <3> QED
      BY <3>1
  <2> HIDE DEF Called
  <2> QED
    BY <1>1, <2>1, <2>2
<1>10. s \in Within(s) /\ Within(s) \cup Called \in SUBSET Stmts
  BY WithinIs DEF Within
<1>11. R \subseteq Within(s) \cup Called
  <2> HIDE DEF Called
  <2> DEFINE W == Within(s) \cup Called
  <2>1. W \in SUBSET Stmts /\ s \in W /\ \A m \in W : Successors(Executes, m) \subseteq W
    BY <1>8, <1>9, <1>10
  <2> HIDE DEF W
  <2>2. ReachableFrom(Executes, Stmts, s) \subseteq W
    BY <2>1, ReachableIsLeast
  <2> QED
    BY <2>1, <2>2 DEF W
<1>12. n \in Called <=> \E c \in CallsWithin(s) : \E t \in StmtsOf(Callee(c)) : n \in {t} \cup ReachableFrom(Executes, Stmts, t)
  BY DEF StmtsOf, ReachableFrom
<1> QED
  BY <1>6, <1>7, <1>11, <1>12

\* When all is known that is called in it, its effect is.
LEMMA EffectIsKnown ==
  ASSUME IsParsed, NEW own, NEW s \in Stmts, NEW done, \A c \in CallsWithin(s) : Callee(c) \in done
  PROVE  Known(own, s, done) = Effect(own, s)
<1>1. \A n : n \in {s} \cup ReachableFrom(Executes, Stmts, s) <=>
           \/ n \in Within(s)
           \/ \E c \in CallsWithin(s) : \E t \in StmtsOf(Callee(c)) : n \in {t} \cup ReachableFrom(Executes, Stmts, t)
  BY ExecutedIs
<1>2. \A t, v : v \in Effect(own, t) <=> \E n \in {t} \cup ReachableFrom(Executes, Stmts, t) : v \in own[n]
  BY DEF Effect, CollectedFrom
<1>3. \A p, v : v \in ProcEffect(own, p) <=> \E t \in StmtsOf(p) : v \in Effect(own, t)
  BY DEF ProcEffect
<1>4. \A v : v \in Known(own, s, done) <=>
           \/ \E t \in Within(s) : v \in own[t]
           \/ \E c \in CallsWithin(s) : v \in ProcEffect(own, Callee(c))
  BY KnownHas
<1>5. ASSUME NEW v
      PROVE  v \in Known(own, s, done) <=> v \in Effect(own, s)
  <2>1. v \in Known(own, s, done) <=>
           \/ \E t \in Within(s) : v \in own[t]
           \/ \E c \in CallsWithin(s) : \E t \in StmtsOf(Callee(c)) : \E n \in {t} \cup ReachableFrom(Executes, Stmts, t) : v \in own[n]
    BY <1>2, <1>3, <1>4, Zenon
  <2>2. v \in Effect(own, s) <=> \E n \in {s} \cup ReachableFrom(Executes, Stmts, s) : v \in own[n]
    BY <1>2, Zenon
  <2> QED
    BY <1>1, <2>1, <2>2, Zenon
<1> QED
  BY <1>5

\* The tables, for what a relation says of a statement itself.
ReadOf == [s \in Stmts |-> ReadBy(s)]
WrittenOf == [s \in Stmts |-> WrittenBy(s)]

KnownPairs(own, done) == UNION {{s} \X Known(own, s, done) : s \in Stmts}
ProcPairs(own, done) == UNION {{p} \X ProcEffect(own, p) : p \in done}

\* The statements that a call of a procedure is in.
Callers(p) == {s \in Stmts : \E c \in CallsWithin(s) : Callee(c) = p}

IsNamed(own) == \A s \in Stmts : "" \notin own[s]

\* No variable has the empty name, which is the null value of the tables.
LEMMA OwnIsNamed ==
  ASSUME IsParsed
  PROVE  IsNamed(ReadOf) /\ IsNamed(WrittenOf)
<1> SUFFICES ASSUME NEW s \in Stmts
             PROVE  "" \notin ReadBy(s) /\ "" \notin WrittenBy(s)
  BY DEF IsNamed, ReadOf, WrittenOf
<1>1. "" \notin NamesIn(s) /\ "" \notin LeavesIn(s)
  BY DEF IsParsed
<1>2. "" \notin VariablesIn(s)
  BY <1>1 DEF VariablesIn
<1> QED
  BY <1>1, <1>2 DEF ReadBy, WrittenBy, NamesIn

\* Nothing that is to be inserted is refused for its name.
LEMMA EffectsAreNamed ==
  ASSUME IsParsed, NEW own, IsNamed(own), NEW done
  PROVE  /\ \A p : "" \notin ProcEffect(own, p)
         /\ \A e \in KnownPairs(own, done) : e[1] > 0 /\ e[2] # "" /\ e[1] \in Stmts
<1>1. \A s \in Stmts : "" \notin Effect(own, s)
  <2>1. \A s \in Stmts : ReachableFrom(Executes, Stmts, s) \subseteq Stmts
    BY DEF ReachableFrom
  <2> QED
    BY <2>1 DEF Effect, CollectedFrom, IsNamed
<1>2. \A p : "" \notin ProcEffect(own, p)
  BY <1>1 DEF ProcEffect, StmtsOf
<1>3. ASSUME NEW s \in Stmts
      PROVE  "" \notin Known(own, s, done)
  <2>1. "" \in Known(own, s, done) <=>
           \/ \E t \in Within(s) : "" \in own[t]
           \/ \E c \in CallsWithin(s) : Callee(c) \in done /\ "" \in ProcEffect(own, Callee(c))
    BY KnownHas
  <2>2. \A t \in Within(s) : "" \notin own[t]
    BY WithinIs DEF IsNamed
  <2> QED
    BY <1>2, <2>1, <2>2
<1>4. \A s \in Stmts : s > 0
  BY StmtsAreNumbered
<1>5. \A e \in KnownPairs(own, done) : e[1] \in Stmts /\ e[2] \in Known(own, e[1], done)
  BY DEF KnownPairs
<1> QED
  BY <1>2, <1>3, <1>4, <1>5

\* A procedure is added to those that are known.
KnowsMore(own, done, p, more) ==
  /\ KnownPairs(own, more) = KnownPairs(own, done) \cup (Callers(p) \X ProcEffect(own, p))
  /\ ProcPairs(own, more) = ProcPairs(own, done) \cup ({p} \X ProcEffect(own, p))

LEMMA KnownMore ==
  ASSUME NEW own, NEW done, NEW p, NEW more, more = done \cup {p}
  PROVE  KnowsMore(own, done, p, more)
<1>1. \A d, s, v : v \in Known(own, s, d) <=> \/ \E t \in Within(s) : v \in own[t]
                                              \/ \E c \in CallsWithin(s) : Callee(c) \in d /\ v \in ProcEffect(own, Callee(c))
  BY KnownHas
<1>2. \A d, e : e \in KnownPairs(own, d) <=> \E s \in Stmts : \E v \in Known(own, s, d) : e = <<s, v>>
  BY DEF KnownPairs
<1>3. \A s, v : v \in Known(own, s, done \cup {p}) <=>
                  v \in Known(own, s, done) \/ (v \in ProcEffect(own, p) /\ \E c \in CallsWithin(s) : Callee(c) = p)
  <2> SUFFICES ASSUME NEW s, NEW v
               PROVE  v \in Known(own, s, done \cup {p}) <=>
                        v \in Known(own, s, done) \/ (v \in ProcEffect(own, p) /\ \E c \in CallsWithin(s) : Callee(c) = p)
    OBVIOUS
  <2>1. \A c : Callee(c) \in done \cup {p} <=> Callee(c) \in done \/ Callee(c) = p
    OBVIOUS
  <2>2. v \in Known(own, s, done \cup {p}) <=>
           \/ \E t \in Within(s) : v \in own[t]
           \/ \E c \in CallsWithin(s) : Callee(c) \in done \cup {p} /\ v \in ProcEffect(own, Callee(c))
    BY <1>1
  <2>3. v \in Known(own, s, done) <=>
           \/ \E t \in Within(s) : v \in own[t]
           \/ \E c \in CallsWithin(s) : Callee(c) \in done /\ v \in ProcEffect(own, Callee(c))
    BY <1>1
  <2>4. \A c : Callee(c) = p => (v \in ProcEffect(own, Callee(c)) <=> v \in ProcEffect(own, p))
    OBVIOUS
  <2> HIDE DEF Callee
  <2> QED
    BY <2>1, <2>2, <2>3, <2>4, Zenon
<1>4. \A e : e \in Callers(p) \X ProcEffect(own, p) <=>
               \E s \in Stmts : \E v \in ProcEffect(own, p) : e = <<s, v>> /\ \E c \in CallsWithin(s) : Callee(c) = p
  BY DEF Callers
<1>5. ASSUME NEW e
      PROVE  e \in KnownPairs(own, done \cup {p}) <=> e \in KnownPairs(own, done) \/ e \in Callers(p) \X ProcEffect(own, p)
  <2>1. e \in KnownPairs(own, done \cup {p}) <=> \E s \in Stmts : \E v \in Known(own, s, done \cup {p}) : e = <<s, v>>
    BY <1>2
  <2>2. e \in KnownPairs(own, done) <=> \E s \in Stmts : \E v \in Known(own, s, done) : e = <<s, v>>
    BY <1>2
  <2>3. e \in Callers(p) \X ProcEffect(own, p) <=>
               \E s \in Stmts : \E v \in ProcEffect(own, p) : e = <<s, v>> /\ \E c \in CallsWithin(s) : Callee(c) = p
    BY <1>4, Zenon
  <2> HIDE DEF Callee
  <2>4. ASSUME e \in KnownPairs(own, done \cup {p})
        PROVE  e \in KnownPairs(own, done) \/ e \in Callers(p) \X ProcEffect(own, p)
    BY <1>3, <2>1, <2>2, <2>3, <2>4
  <2>5. ASSUME e \in KnownPairs(own, done)
        PROVE  e \in KnownPairs(own, done \cup {p})
    BY <1>3, <2>1, <2>2, <2>5
  <2>6. ASSUME e \in Callers(p) \X ProcEffect(own, p)
        PROVE  e \in KnownPairs(own, done \cup {p})
    BY <1>3, <2>1, <2>3, <2>6
  <2> QED
    BY <2>4, <2>5, <2>6
<1>6. ProcPairs(own, done \cup {p}) = ProcPairs(own, done) \cup ({p} \X ProcEffect(own, p))
  BY DEF ProcPairs
<1>7. KnownPairs(own, done \cup {p}) = KnownPairs(own, done) \cup (Callers(p) \X ProcEffect(own, p))
  BY <1>5
<1> QED
  BY <1>6, <1>7, Zenon DEF KnowsMore

\* What is read out of the range of a procedure.
LEMMA ReadFromRange ==
  ASSUME IsParsed, NEW own, NEW done, NEW p,
         \A c \in CallStmts : ProcOf(c) = p => Callee(c) \in done
  PROVE  {e[2] : e \in {d \in KnownPairs(own, done) : d[1] \in StmtsOf(p)}} = ProcEffect(own, p)
<1>1. ASSUME NEW s \in StmtsOf(p)
      PROVE  s \in Stmts /\ Known(own, s, done) = Effect(own, s)
  <2>1. s \in Stmts /\ ProcOf(s) = p
    BY DEF StmtsOf
  <2>2. \A c \in CallsWithin(s) : Callee(c) \in done
    BY <2>1, WithinOneProcedure DEF CallsWithin
  <2> QED
    BY <2>1, <2>2, EffectIsKnown
<1>2. \A e : e \in KnownPairs(own, done) <=> \E s \in Stmts : \E v \in Known(own, s, done) : e = <<s, v>>
  BY DEF KnownPairs
<1>3. \A v : v \in ProcEffect(own, p) <=> \E s \in StmtsOf(p) : v \in Effect(own, s)
  BY DEF ProcEffect
<1> DEFINE L == {e[2] : e \in {d \in KnownPairs(own, done) : d[1] \in StmtsOf(p)}}
<1>4. \A v : v \in L <=> \E s \in StmtsOf(p) : v \in Known(own, s, done)
  <2>1. ASSUME NEW v \in L
        PROVE  \E s \in StmtsOf(p) : v \in Known(own, s, done)
    <3>1. PICK e \in KnownPairs(own, done) : e[1] \in StmtsOf(p) /\ v = e[2]
      OBVIOUS
    <3>2. PICK s \in Stmts : \E w \in Known(own, s, done) : e = <<s, w>>
      BY <1>2
    <3> QED
      BY <3>1, <3>2
  <2>2. ASSUME NEW s \in StmtsOf(p), NEW v \in Known(own, s, done)
        PROVE  v \in L
    <3>1. PICK e : e = <<s, v>>
      OBVIOUS
    <3>2. e \in KnownPairs(own, done)
      BY <1>1, <1>2, <3>1
    <3>3. e[1] = s /\ e[2] = v
      BY <3>1
    <3> QED
      BY <3>2, <3>3
  <2> QED
    BY <2>1, <2>2
<1>5. \A v : v \in L <=> v \in ProcEffect(own, p)
  BY <1>1, <1>3, <1>4
<1> QED
  BY <1>5

\* When all are known it is what the program means.
LEMMA KnownIsMeant ==
  ASSUME IsParsed
  PROVE  /\ KnownPairs(ReadOf, ToSet(pnames)) = UNION {{s} \X EffectOf(s, ReadBy) : s \in Stmts}
         /\ KnownPairs(WrittenOf, ToSet(pnames)) = UNION {{s} \X EffectOf(s, WrittenBy) : s \in Stmts}
         /\ ProcPairs(ReadOf, ToSet(pnames)) = UNION {{ProcOf(s)} \X EffectOf(s, ReadBy) : s \in Stmts}
         /\ ProcPairs(WrittenOf, ToSet(pnames)) = UNION {{ProcOf(s)} \X EffectOf(s, WrittenBy) : s \in Stmts}
<1>1. \A own : \A s \in Stmts : Known(own, s, ToSet(pnames)) = Effect(own, s)
  <2> SUFFICES ASSUME NEW own, NEW s \in Stmts
               PROVE  Known(own, s, ToSet(pnames)) = Effect(own, s)
    OBVIOUS
  <2>1. \A c \in CallsWithin(s) : Callee(c) \in ToSet(pnames)
    BY CallsAreOfProcedures DEF CallsWithin
  <2> QED
    BY <2>1, EffectIsKnown
<1>2. \A s \in Stmts : ReachableFrom(Executes, Stmts, s) \subseteq Stmts
  BY DEF ReachableFrom
<1>3. ASSUME NEW s \in Stmts
      PROVE  Effect(ReadOf, s) = EffectOf(s, ReadBy)
  <2>1. \A t \in {s} \cup ReachableFrom(Executes, Stmts, s) : ReadOf[t] = ReadBy(t)
    BY <1>2 DEF ReadOf
  <2>2. Effect(ReadOf, s) = UNION {ReadOf[t] : t \in {s} \cup ReachableFrom(Executes, Stmts, s)}
    BY DEF Effect, CollectedFrom
  <2>3. {ReadOf[t] : t \in {s} \cup ReachableFrom(Executes, Stmts, s)} = {ReadBy(t) : t \in {s} \cup ReachableFrom(Executes, Stmts, s)}
    BY <2>1
  <2> QED
    BY <2>2, <2>3 DEF EffectOf
<1>4. ASSUME NEW s \in Stmts
      PROVE  Effect(WrittenOf, s) = EffectOf(s, WrittenBy)
  <2>1. \A t \in {s} \cup ReachableFrom(Executes, Stmts, s) : WrittenOf[t] = WrittenBy(t)
    BY <1>2 DEF WrittenOf
  <2>2. Effect(WrittenOf, s) = UNION {WrittenOf[t] : t \in {s} \cup ReachableFrom(Executes, Stmts, s)}
    BY DEF Effect, CollectedFrom
  <2>3. {WrittenOf[t] : t \in {s} \cup ReachableFrom(Executes, Stmts, s)} = {WrittenBy(t) : t \in {s} \cup ReachableFrom(Executes, Stmts, s)}
    BY <2>1
  <2> QED
    BY <2>2, <2>3 DEF EffectOf
<1>5. \A s \in Stmts : ProcOf(s) \in ToSet(pnames)
  BY ProcedureOfStmt DEF ProcOf, ToSet
<1>6. ASSUME NEW own
      PROVE  /\ KnownPairs(own, ToSet(pnames)) = UNION {{s} \X Effect(own, s) : s \in Stmts}
             /\ ProcPairs(own, ToSet(pnames)) = UNION {{ProcOf(s)} \X Effect(own, s) : s \in Stmts}
  <2>1. KnownPairs(own, ToSet(pnames)) = UNION {{s} \X Effect(own, s) : s \in Stmts}
    BY <1>1 DEF KnownPairs
  <2>2. \A e : e \in ProcPairs(own, ToSet(pnames)) <=> \E p \in ToSet(pnames) : \E v \in ProcEffect(own, p) : e = <<p, v>>
    BY DEF ProcPairs
  <2>3. \A p, v : v \in ProcEffect(own, p) <=> \E s \in Stmts : ProcOf(s) = p /\ v \in Effect(own, s)
    BY DEF ProcEffect, StmtsOf
  <2>4. \A e : e \in UNION {{ProcOf(s)} \X Effect(own, s) : s \in Stmts} <=> \E s \in Stmts : \E v \in Effect(own, s) : e = <<ProcOf(s), v>>
    OBVIOUS
  <2>5. \A e : e \in ProcPairs(own, ToSet(pnames)) <=> e \in UNION {{ProcOf(s)} \X Effect(own, s) : s \in Stmts}
    BY <1>5, <2>2, <2>3, <2>4
  <2> QED
    BY <2>1, <2>5
<1>7. /\ {{s} \X Effect(ReadOf, s) : s \in Stmts} = {{s} \X EffectOf(s, ReadBy) : s \in Stmts}
      /\ {{s} \X Effect(WrittenOf, s) : s \in Stmts} = {{s} \X EffectOf(s, WrittenBy) : s \in Stmts}
      /\ {{ProcOf(s)} \X Effect(ReadOf, s) : s \in Stmts} = {{ProcOf(s)} \X EffectOf(s, ReadBy) : s \in Stmts}
      /\ {{ProcOf(s)} \X Effect(WrittenOf, s) : s \in Stmts} = {{ProcOf(s)} \X EffectOf(s, WrittenBy) : s \in Stmts}
  BY <1>3, <1>4
<1> QED
  BY <1>6, <1>7

\* What is in nothing and what is called is not yet known.
LEMMA KnownWithoutCalls ==
  ASSUME IsParsed, NEW own, NEW s \in Stmts
  PROVE  Known(own, s, {}) = CollectedFrom(Stmts, Parents, own, s)
<1>1. CalledIn(own, s, {}) = {}
  BY DEF CalledIn
<1>2. InIt(own, s) = own[s] \cup UNION {own[t] : t \in ReachableFrom(Parents, Stmts, s)}
  BY DEF InIt, Within
<1> QED
  BY <1>1, <1>2 DEF Known, CollectedFrom

\* Only containers have parts.
LEMMA PartsAre ==
  ASSUME IsParsed, NEW s \in Stmts
  PROVE  /\ Successors(Parents, s) = {u \in Stmts : ParentOf(ast, u) = s}
         /\ ~IsContainer(s) => Successors(Parents, s) = {}
<1>1. Parents \in SUBSET (Stmts \X Stmts)
  BY UpLeadsToParent
<1>2. \A u \in Stmts : <<s, u>> \in Parents <=> s = ParentOf(ast, u)
  BY DEF Parents
<1>3. Successors(Parents, s) = {u \in Stmts : ParentOf(ast, u) = s}
  <2>1. \A u : u \in Successors(Parents, s) <=> <<s, u>> \in Parents
    BY <1>1, SuccessorsAreEnds
  <2>2. \A u : <<s, u>> \in Parents => u \in Stmts
    BY <1>1
  <2> QED
    BY <1>2, <2>1, <2>2
<1>4. ASSUME NEW u \in Stmts, ParentOf(ast, u) = s
      PROVE  IsContainer(s)
  <2>1. s # 0
    BY StmtsAreNumbered
  <2>2. PICK p \in Stmts : IsIn(u, p)
    BY <1>4, <2>1, ListOfStmt DEF IsOutermost
  <2>3. p = s
    BY <1>4, <2>2 DEF IsIn
  <2> QED
    BY <2>2, <2>3 DEF IsIn, IsInBody, IsInBranch, IsContainer
<1> QED
  BY <1>3, <1>4

\* vars_modified_by is what a statement and what is in it write.
LEMMA ModifiedByIsKnown ==
  ASSUME IsParsed, NEW n \in Stmts
  PROVE  ModifiedBy[n] = Known(WrittenOf, n, {})
<1> DEFINE Part(vars, s) == IF ast[s].kind \in {"read", "assign"} THEN {ast[s].about[1]}
                           ELSE IF IsContainer(s) THEN UNION {vars[t] : t \in {u \in DOMAIN ast : ParentOf(ast, u) = s}}
                           ELSE {}
           Is(vars) == vars = [s \in DOMAIN ast |-> Part(vars, s)]
<1>1. Parents \in SUBSET (Stmts \X Stmts) /\ \A e \in Up : e[2] < e[1]
  BY UpLeadsToParent
<1>2. Stmts = 1..Len(ast) /\ Len(ast) \in Nat
  BY StmtsAreNumbered
<1>3. HasNoKnot(Parents)
  <2>1. ASSUME NEW e \in Parents
        PROVE  e[1] \in 1..Len(ast) /\ e[2] \in 1..Len(ast) /\ e[1] < e[2]
    <3>1. e[1] \in Stmts /\ e[2] \in Stmts
      BY <1>1
    <3>2. PICK u : u = <<e[2], e[1]>>
      OBVIOUS
    <3>3. u \in Up
      BY <3>2 DEF Up, Swapped
    <3>4. u[2] < u[1] /\ u[1] = e[2] /\ u[2] = e[1]
      BY <1>1, <3>2, <3>3
    <3> QED
      BY <1>2, <3>1, <3>4
  <2> QED
    BY <1>2, <2>1, AscendingHasNoKnot
<1>4. ASSUME NEW f, NEW t \in Stmts
      PROVE  Part(f, t) = WrittenOf[t] \cup UNION {f[m] : m \in Successors(Parents, t)}
  <2>1. WrittenOf[t] = IF ast[t].kind \in {"read", "assign"} THEN {ast[t].about[1]} ELSE {}
    BY DEF WrittenOf, WrittenBy
  <2>2. /\ Successors(Parents, t) = {u \in DOMAIN ast : ParentOf(ast, u) = t}
        /\ ~IsContainer(t) => Successors(Parents, t) = {}
    BY PartsAre DEF Stmts
  <2>3. CASE ast[t].kind \in {"read", "assign"}
    <3>1. ~IsContainer(t)
      BY <2>3 DEF IsContainer
    <3> QED
      BY <2>1, <2>2, <2>3, <3>1
  <2>4. CASE IsContainer(t)
    <3>1. ast[t].kind \notin {"read", "assign"}
      BY <2>4 DEF IsContainer
    <3>2. WrittenOf[t] = {}
      BY <2>1, <3>1
    <3> QED
      BY <2>2, <2>4, <3>1, <3>2
  <2>5. CASE ~IsContainer(t) /\ ast[t].kind \notin {"read", "assign"}
    BY <2>1, <2>2, <2>5
  <2> QED
    BY <2>3, <2>4, <2>5
<1>5. \A f : Is(f) <=> Collects(f, Stmts, Parents, WrittenOf)
  <2> SUFFICES ASSUME NEW f PROVE Is(f) <=> Collects(f, Stmts, Parents, WrittenOf)
    OBVIOUS
  <2> HIDE DEF Part
  <2> QED
    BY <1>4 DEF Collects, Stmts
<1>6. \E f : Is(f)
  <2> HIDE DEF Is
  <2> QED
    BY <1>1, <1>5, CollectedFromSatisfies
<1>7. ModifiedBy = CHOOSE vars : Is(vars)
  BY DEF ModifiedBy
<1>8. Is(ModifiedBy)
  <2> HIDE DEF Is
  <2> QED
    BY <1>6, <1>7, Zenon
<1>9. Collects(ModifiedBy, Stmts, Parents, WrittenOf)
  <2> HIDE DEF Is
  <2> QED
    BY <1>5, <1>8
<1>10. ModifiedBy[n] = CollectedFrom(Stmts, Parents, WrittenOf, n)
  BY <1>1, <1>3, <1>9, CollectsUniquely
<1> QED
  BY <1>10, KnownWithoutCalls

\* ExtractModifiesWithoutCalls leaves what is known without calls.
LEMMA ModifiesIsFound ==
  ASSUME IsParsed
  PROVE  InsertStmtVars(NoPairs, UNION {{s} \X ModifiedBy[s] : s \in DOMAIN ast}).table = KnownPairs(WrittenOf, {})
<1>1. UNION {{s} \X ModifiedBy[s] : s \in DOMAIN ast} = KnownPairs(WrittenOf, {})
  <2>1. \A s \in Stmts : {s} \X ModifiedBy[s] = {s} \X Known(WrittenOf, s, {})
    BY ModifiedByIsKnown
  <2>2. {{s} \X ModifiedBy[s] : s \in Stmts} = {{s} \X Known(WrittenOf, s, {}) : s \in Stmts}
    BY <2>1
  <2> QED
    BY <2>2 DEF KnownPairs, Stmts
<1>2. PICK pairs : pairs = KnownPairs(WrittenOf, {})
  OBVIOUS
<1>3. \A e \in pairs : e[1] > 0 /\ e[2] # ""
  BY <1>2, OwnIsNamed, EffectsAreNamed
<1>4. {e \in pairs : e[1] > 0 /\ e[2] # ""} = pairs
  BY <1>3
<1>5. InsertStmtVars(NoPairs, pairs).table = pairs
  BY <1>4, FirstInsertion DEF InsertStmtVars
<1> QED
  BY <1>1, <1>2, <1>5

-----------------------------------------------------------------------------
(* The ranges of the procedures *)

InProc(n) == {s \in DOMAIN ast : ProcedureOf(ast)[s] = n}
ProcEntry(n) == [name |-> pnames[n], first |-> Min0(InProc(n)), last |-> Max0(InProc(n))]
ProcEntries == {ProcEntry(n) : n \in DOMAIN pnames}

\* The statements of a procedure are its range.
LEMMA ProcsAreOneAfterAnother ==
  ASSUME IsParsed, NEW n \in DOMAIN pnames
  PROVE  /\ InProc(n) = StmtsOf(pnames[n])
         /\ Min0(InProc(n)) \in InProc(n) /\ Max0(InProc(n)) \in InProc(n)
         /\ \A s \in InProc(n) : Min0(InProc(n)) <= s /\ s <= Max0(InProc(n))
         /\ InProc(n) = Min0(InProc(n))..Max0(InProc(n))
<1>1. Stmts = 1..Len(ast) /\ Len(ast) \in Nat /\ DOMAIN pnames = 1..Len(pnames) /\ Len(pnames) \in Nat
  BY StmtsAreNumbered
<1>2. \A s \in Stmts : ProcedureOf(ast)[s] \in DOMAIN pnames
  BY ProcedureOfStmt
<1>3. \A s, t \in Stmts : s < t => ProcedureOf(ast)[s] <= ProcedureOf(ast)[t]
  BY DEF IsParsed, IsAst, Stmts
<1>4. \A i, j \in DOMAIN pnames : pnames[i] = pnames[j] => i = j
  BY DEF IsParsed, IsInjective
<1>5. InProc(n) = StmtsOf(pnames[n])
  BY <1>2, <1>4 DEF InProc, StmtsOf, ProcOf, Stmts
<1>6. InProc(n) # {}
  <2>1. n \in ProceduresOf(ast)
    BY DEF IsParsed
  <2>2. PICK s \in DOMAIN ast : ast[s].list.in = "procedure" /\ ast[s].list.of = n
    BY <2>1 DEF ProceduresOf
  <2>3. ParentOf(ast, s) = 0 /\ s \in Stmts
    BY <2>2 DEF ParentOf, Stmts
  <2>4. ProcedureOf(ast)[s] = n
    BY <2>2, <2>3, ProcedureOfStmt
  <2> QED
    BY <2>2, <2>4 DEF InProc
<1>7. InProc(n) \in SUBSET (1..Len(ast))
  BY <1>1 DEF InProc, Stmts
<1>8. PICK a \in InProc(n) : \A s \in InProc(n) : a <= s
  <2>1. InProc(n) \in SUBSET Nat
    BY <1>1, <1>7
  <2> QED
    BY <1>6, <2>1, LeastElement
<1>9. PICK b \in InProc(n) : \A s \in InProc(n) : s <= b
  BY <1>1, <1>6, <1>7, GreatestElement
<1>10. Min0(InProc(n)) \in InProc(n) /\ \A s \in InProc(n) : Min0(InProc(n)) <= s
  <2>1. PICK S : S = InProc(n)
    OBVIOUS
  <2>2. \E m \in S : \A t \in S : m <= t
    BY <1>8, <2>1
  <2>3. Min0(S) \in S /\ \A t \in S : Min0(S) <= t
    BY <2>2, Zenon DEF Min0
  <2> QED
    BY <2>1, <2>3
<1>11. Max0(InProc(n)) \in InProc(n) /\ \A s \in InProc(n) : s <= Max0(InProc(n))
  <2>1. PICK S : S = InProc(n)
    OBVIOUS
  <2>2. \E m \in S : \A t \in S : m >= t
    <3>1. \A t \in S : b >= t
      BY <1>1, <1>7, <1>9, <2>1
    <3> QED
      BY <1>9, <2>1, <3>1
  <2>3. Max0(S) \in S /\ \A t \in S : Max0(S) >= t
    BY <2>2, Zenon DEF Max0
  <2>4. \A t \in S : t <= Max0(S)
    BY <1>1, <1>7, <2>1, <2>3
  <2> QED
    BY <2>1, <2>3, <2>4
<1>12. PICK lo, hi : lo = Min0(InProc(n)) /\ hi = Max0(InProc(n))
  OBVIOUS
<1>13. lo \in InProc(n) /\ hi \in InProc(n) /\ \A s \in InProc(n) : lo <= s /\ s <= hi
  BY <1>10, <1>11, <1>12
<1>14. InProc(n) = lo..hi
  <2>1. InProc(n) \subseteq lo..hi
    BY <1>1, <1>7, <1>13
  <2>2. ASSUME NEW s \in lo..hi
        PROVE  s \in InProc(n)
    <3>1. s \in Stmts /\ lo \in Stmts /\ hi \in Stmts /\ lo <= s /\ s <= hi
      BY <1>1, <1>7, <1>13
    <3>2. ProcedureOf(ast)[lo] = n /\ ProcedureOf(ast)[hi] = n
      BY <1>13 DEF InProc
    <3>3. ProcedureOf(ast)[s] \in 1..Len(pnames) /\ n \in 1..Len(pnames)
      BY <1>1, <1>2, <3>1
    <3>4. s = lo \/ lo < s
      BY <1>1, <3>1
    <3>5. s = hi \/ s < hi
      BY <1>1, <3>1
    <3>6. n <= ProcedureOf(ast)[s] /\ ProcedureOf(ast)[s] <= n
      BY <1>1, <1>3, <3>1, <3>2, <3>3, <3>4, <3>5
    <3>7. ProcedureOf(ast)[s] = n
      BY <1>1, <3>3, <3>6
    <3> QED
      BY <3>1, <3>7 DEF InProc, Stmts
  <2> QED
    BY <2>1, <2>2
<1> QED
  BY <1>5, <1>12, <1>13, <1>14

\* The range of a procedure is not refused.
LEMMA ProcIsInserted ==
  ASSUME IsParsed, NEW t, t \subseteq ProcEntries, NEW n \in DOMAIN pnames
  PROVE  InsertProc(t, pnames[n], Min0(InProc(n)), Max0(InProc(n))) = t \cup {ProcEntry(n)}
<1>1. Stmts = 1..Len(ast) /\ Len(ast) \in Nat /\ DOMAIN pnames = 1..Len(pnames) /\ Len(pnames) \in Nat
  BY StmtsAreNumbered
<1>2. \A s, u \in Stmts : s < u => ProcedureOf(ast)[s] <= ProcedureOf(ast)[u]
  BY DEF IsParsed, IsAst, Stmts
<1>3. \A i, j \in DOMAIN pnames : pnames[i] = pnames[j] => i = j
  BY DEF IsParsed, IsInjective
<1>4. \A m \in DOMAIN pnames : /\ Min0(InProc(m)) \in Stmts /\ ProcedureOf(ast)[Min0(InProc(m))] = m
                               /\ Max0(InProc(m)) \in Stmts /\ ProcedureOf(ast)[Max0(InProc(m))] = m
  BY ProcsAreOneAfterAnother DEF InProc, Stmts
<1>5. PICK lo, hi : lo = Min0(InProc(n)) /\ hi = Max0(InProc(n))
  OBVIOUS
<1>6. ProcEntry(n) = [name |-> pnames[n], first |-> lo, last |-> hi]
  BY <1>5 DEF ProcEntry
<1>7. ASSUME NEW p \in t, p.name = pnames[n] \/ (p.first <= hi /\ lo <= p.last)
      PROVE  p = ProcEntry(n)
  <2>1. PICK m \in DOMAIN pnames : p = ProcEntry(m)
    BY DEF ProcEntries
  <2>2. p.name = pnames[m] /\ p.first = Min0(InProc(m)) /\ p.last = Max0(InProc(m))
    BY <2>1 DEF ProcEntry
  <2>3. m \in Nat /\ n \in Nat
    BY <1>1
  <2>4. ASSUME m < n PROVE ~(lo <= p.last)
    <3>1. PICK x, y : x = lo /\ y = p.last
      OBVIOUS
    <3>2. x \in Stmts /\ y \in Stmts /\ ProcedureOf(ast)[x] = n /\ ProcedureOf(ast)[y] = m
      BY <1>4, <1>5, <2>2, <3>1
    <3>3. ~(x < y) /\ x # y
      BY <1>2, <2>3, <2>4, <3>2
    <3> QED
      BY <1>1, <3>1, <3>2, <3>3
  <2>5. ASSUME n < m PROVE ~(p.first <= hi)
    <3>1. PICK x, y : x = p.first /\ y = hi
      OBVIOUS
    <3>2. x \in Stmts /\ y \in Stmts /\ ProcedureOf(ast)[x] = m /\ ProcedureOf(ast)[y] = n
      BY <1>4, <1>5, <2>2, <3>1
    <3>3. ~(x < y) /\ x # y
      BY <1>2, <2>3, <2>5, <3>2
    <3> QED
      BY <1>1, <3>1, <3>2, <3>3
  <2>6. p.name = pnames[n] => m = n
    BY <1>3, <2>2
  <2>7. m = n
    BY <1>7, <2>3, <2>4, <2>5, <2>6
  <2> QED
    BY <2>1, <2>7
<1>8. InsertProc(t, pnames[n], lo, hi) = t \cup {ProcEntry(n)}
  <2>1. CASE \E p \in t : p.name = pnames[n] \/ (p.first <= hi /\ lo <= p.last)
    <3>1. ProcEntry(n) \in t
      BY <1>7, <2>1
    <3>2. InsertProc(t, pnames[n], lo, hi) = t
      BY <2>1 DEF InsertProc
    <3> QED
      BY <3>1, <3>2
  <2>2. CASE ~\E p \in t : p.name = pnames[n] \/ (p.first <= hi /\ lo <= p.last)
    BY <1>6, <2>2 DEF InsertProc
  <2> QED
    BY <2>1, <2>2
<1> QED
  BY <1>5, <1>8

\* GetProcRange gives the statements of the procedure.
LEMMA RangesAreProcedures ==
  ASSUME IsParsed, pkb.proc = ProcEntries, NEW p \in ToSet(pnames)
  PROVE  RangeOf(p) = StmtsOf(p)
<1>1. PICK n \in DOMAIN pnames : p = pnames[n]
  BY DEF ToSet
<1>2. \A i, j \in DOMAIN pnames : pnames[i] = pnames[j] => i = j
  BY DEF IsParsed, IsInjective
<1>3. {q \in pkb.proc : q.name = p} = {ProcEntry(n)}
  <2>1. \A m \in DOMAIN pnames : ProcEntry(m).name = pnames[m]
    BY DEF ProcEntry
  <2>2. \A q \in ProcEntries : q.name = p => q = ProcEntry(n)
    BY <1>1, <1>2, <2>1 DEF ProcEntries
  <2>3. ProcEntry(n) \in ProcEntries /\ ProcEntry(n).name = p
    BY <1>1, <2>1 DEF ProcEntries
  <2> QED
    BY <2>2, <2>3
<1>4. PICK e : e = ProcEntry(n)
  OBVIOUS
<1>5. RangeOf(p) = e.first..e.last
  <2>1. {q.first..q.last : q \in {e}} = {e.first..e.last}
    OBVIOUS
  <2>2. {q \in pkb.proc : q.name = p} = {e}
    BY <1>3, <1>4
  <2>3. RangeOf(p) = UNION {q.first..q.last : q \in {e}}
    BY <2>2 DEF RangeOf
  <2> QED
    BY <2>1, <2>3
<1>6. e.first = Min0(InProc(n)) /\ e.last = Max0(InProc(n))
  BY <1>4 DEF ProcEntry
<1>7. RangeOf(p) = InProc(n)
  BY <1>5, <1>6, ProcsAreOneAfterAnother
<1> QED
  BY <1>1, <1>7, ProcsAreOneAfterAnother

\* The procedures of the table are those of the program.
LEMMA ProcNamesAre ==
  ASSUME IsParsed
  PROVE  {p.name : p \in ProcEntries} = ToSet(pnames)
<1>1. \A m \in DOMAIN pnames : ProcEntry(m).name = pnames[m]
  BY DEF ProcEntry
<1>2. \A p \in ProcEntries : \E m \in DOMAIN pnames : p = ProcEntry(m)
  BY DEF ProcEntries
<1>3. \A m \in DOMAIN pnames : ProcEntry(m) \in ProcEntries
  BY DEF ProcEntries
<1>4. \A x : x \in {p.name : p \in ProcEntries} <=> \E m \in DOMAIN pnames : x = pnames[m]
  BY <1>1, <1>2, <1>3
<1> QED
  BY <1>4 DEF ToSet

-----------------------------------------------------------------------------
(* The tables of the effects *)
Effects == {"uses", "usesP", "modifies", "modifiesP", "callStmts", "proc"}

SameEffects(k, l) == DOMAIN l = TableNames /\ l.parentT = k.parentT /\ \A f \in Effects : l[f] = k[f]

\* Another table is written.
LEMMA OtherTablesKeepEffects ==
  ASSUME NEW k, DOMAIN k = TableNames, NEW f \in TableNames \ (Effects \cup {"parentT"}), NEW new
  PROVE  SameEffects(k, [k EXCEPT ![f] = new])
<1>1. Effects \cup {"parentT"} \subseteq TableNames
  BY DEF Effects, TableNames, NoTables
<1>2. PICK l : l = [k EXCEPT ![f] = new]
  OBVIOUS
<1>3. DOMAIN l = TableNames /\ \A g \in TableNames : g # f => l[g] = k[g]
  BY <1>2
<1>4. l["parentT"] = k["parentT"] /\ \A g \in Effects : l[g] = k[g]
  <2> HIDE DEF Effects, TableNames
  <2> QED
    BY <1>1, <1>3
<1> QED
  BY <1>2, <1>3, <1>4 DEF SameEffects

LEMMA TablesWithoutEffects ==
  {"stmt", "var", "const", "read", "print", "entity", "assign", "if", "while", "follows", "followsT",
   "parent", "next", "nextT", "calls", "callsT"} \subseteq TableNames \ (Effects \cup {"parentT"})
BY DEF Effects, TableNames, NoTables

\* One after the other.
LEMMA SameEffectsAgain ==
  ASSUME NEW k, NEW l, NEW m, SameEffects(k, l), SameEffects(l, m)
  PROVE  SameEffects(k, m)
BY DEF SameEffects

\* What a statement is given.
UsedBy(s) == IF ast[s].kind = "print" THEN {ast[s].about[1]} ELSE VariablesIn(s)
AroundIn(k, s) == {p[2] : p \in {q \in k.parentT.inverse : q[1] = s}}

LEMMA PatternsKeepEffects ==
  ASSUME NEW k, DOMAIN k = TableNames, NEW s
  PROVE  SameEffects(k, ExtractAssignIfWhile(ExtractReadAndPrint(k, s), s))
<1>1. \A l : DOMAIN l = TableNames => SameEffects(l, l)
  BY DEF SameEffects
<1>2. \A l, new : DOMAIN l = TableNames =>
        /\ SameEffects(l, [l EXCEPT !.read = new]) /\ SameEffects(l, [l EXCEPT !.print = new])
        /\ SameEffects(l, [l EXCEPT !.assign = new]) /\ SameEffects(l, [l EXCEPT !.if = new])
        /\ SameEffects(l, [l EXCEPT !.while = new])
  BY OtherTablesKeepEffects, TablesWithoutEffects
<1>3. \A l : DOMAIN l = TableNames => SameEffects(l, ExtractReadAndPrint(l, s))
  <2>1. ast[s].kind = "read" \/ ast[s].kind = "print" \/ ast[s].kind \notin {"read", "print"}
    OBVIOUS
  <2> HIDE DEF SameEffects, TableNames
  <2> QED
    BY <1>1, <1>2, <2>1 DEF ExtractReadAndPrint
<1>4. \A l : DOMAIN l = TableNames => SameEffects(l, ExtractAssignIfWhile(l, s))
  <2>1. \/ ast[s].kind = "assign" \/ ast[s].kind = "if" \/ ast[s].kind = "while"
        \/ ast[s].kind \notin {"assign", "if", "while"}
    OBVIOUS
  <2> QED
    BY <1>1, <1>2, <2>1 DEF ExtractAssignIfWhile
<1>5. \A l, m : SameEffects(l, m) => DOMAIN m = TableNames
  BY DEF SameEffects
<1> QED
  BY <1>3, <1>4, <1>5, SameEffectsAgain

\* l is k with what is extracted of s.
IsGivenTo(k, s, l) ==
  /\ l.uses = InsertStmtVars(k.uses, ({s} \cup AroundIn(k, s)) \X UsedBy(s))
  /\ l.callStmts = IF ast[s].kind = "call" THEN InsertStmtName(k.callStmts, s, Callee(s)) ELSE k.callStmts
  /\ l.proc = k.proc /\ l.usesP = k.usesP /\ l.modifies = k.modifies /\ l.modifiesP = k.modifiesP

\* The handlers of a statement, for the tables of the effects.
LEMMA StatementWritesEffects ==
  ASSUME NEW k, DOMAIN k = TableNames, NEW s
  PROVE  IsGivenTo(k, s, ExtractStatement(k, s))
<1>0. PICK l : l = ExtractStatement(k, s)
  OBVIOUS
<1>1. PICK a : a = ExtractAssignIfWhile(ExtractReadAndPrint(k, s), s)
  OBVIOUS
<1>2. /\ DOMAIN a = TableNames /\ a.parentT = k.parentT /\ a.uses = k.uses /\ a.callStmts = k.callStmts /\ a.proc = k.proc
      /\ a.usesP = k.usesP /\ a.modifies = k.modifies /\ a.modifiesP = k.modifiesP
  <2>1. SameEffects(k, a)
    BY <1>1, PatternsKeepEffects
  <2> QED
    BY <2>1 DEF SameEffects, Effects
<1>3. PICK u : u = InsertStmtVars(a.uses, ({s} \cup AroundIn(a, s)) \X UsedBy(s))
  OBVIOUS
<1>4. PICK b : b = [a EXCEPT !.uses = u]
  OBVIOUS
<1>5. ExtractUses(a, s) = b
  BY <1>3, <1>4 DEF ExtractUses, AroundIn, UsedBy
<1>6. /\ DOMAIN b = TableNames /\ b.uses = u /\ b.callStmts = a.callStmts /\ b.proc = a.proc
      /\ b.usesP = a.usesP /\ b.modifies = a.modifies /\ b.modifiesP = a.modifiesP
  BY <1>2, <1>4 DEF TableNames, NoTables
<1>7. PICK e : e = InsertStmtName(b.entity, s, ast[s].kind)
  OBVIOUS
<1>8. PICK c : c = [b EXCEPT !.entity = e]
  OBVIOUS
<1>9. /\ DOMAIN c = TableNames /\ c.uses = u /\ c.callStmts = a.callStmts /\ c.proc = a.proc
      /\ c.usesP = a.usesP /\ c.modifies = a.modifies /\ c.modifiesP = a.modifiesP
  BY <1>6, <1>8 DEF TableNames, NoTables
<1>10. PICK d : d = InsertStmtName(c.callStmts, s, Callee(s))
  OBVIOUS
<1>11. l = ExtractEntityAndCall(b, s)
  BY <1>0, <1>1, <1>5 DEF ExtractStatement
<1>12. l = IF ast[s].kind = "call" THEN [c EXCEPT !.callStmts = d] ELSE c
  BY <1>7, <1>8, <1>10, <1>11 DEF ExtractEntityAndCall, Callee
<1>13. ASSUME ast[s].kind = "call" PROVE IsGivenTo(k, s, l)
  <2>1. l = [c EXCEPT !.callStmts = d]
    BY <1>12, <1>13
  <2>2. l.uses = u /\ l.callStmts = d /\ l.proc = a.proc /\ l.usesP = a.usesP /\ l.modifies = a.modifies /\ l.modifiesP = a.modifiesP
    BY <1>9, <2>1 DEF TableNames, NoTables
  <2>3. u = InsertStmtVars(k.uses, ({s} \cup AroundIn(k, s)) \X UsedBy(s))
    BY <1>2, <1>3 DEF AroundIn
  <2> QED
    BY <1>2, <1>9, <1>10, <1>13, <2>2, <2>3 DEF IsGivenTo
<1>14. ASSUME ast[s].kind # "call" PROVE IsGivenTo(k, s, l)
  <2>1. l = c
    BY <1>12, <1>14
  <2>3. u = InsertStmtVars(k.uses, ({s} \cup AroundIn(k, s)) \X UsedBy(s))
    BY <1>2, <1>3 DEF AroundIn
  <2> QED
    BY <1>2, <1>9, <1>14, <2>1, <2>3 DEF IsGivenTo
<1> QED
  BY <1>0, <1>13, <1>14

\* The handlers of a procedure, for the tables of the effects.
LEMMA ProcedureWritesRange ==
  ASSUME NEW k, DOMAIN k = TableNames, NEW n, NEW l, l = ExtractCallRelation(ExtractProcedure(k, n), n)
  PROVE  /\ l.proc = InsertProc(k.proc, pnames[n], Min0(InProc(n)), Max0(InProc(n)))
         /\ l.uses = k.uses /\ l.callStmts = k.callStmts /\ l.usesP = k.usesP /\ l.modifies = k.modifies /\ l.modifiesP = k.modifiesP
<1>1. PICK r : r = InsertProc(k.proc, pnames[n], Min0(InProc(n)), Max0(InProc(n)))
  OBVIOUS
<1>2. PICK a : a = [k EXCEPT !.proc = r]
  OBVIOUS
<1>3. a = ExtractProcedure(k, n)
  BY <1>1, <1>2 DEF ExtractProcedure, InProc
<1>4. PICK c : c = InsertNames(a.calls, CallsIn(n))
  OBVIOUS
<1>5. l = [a EXCEPT !.calls = c]
  BY <1>3, <1>4 DEF ExtractCallRelation
<1>6. /\ DOMAIN a = TableNames /\ a.proc = r /\ a.uses = k.uses /\ a.callStmts = k.callStmts
      /\ a.usesP = k.usesP /\ a.modifies = k.modifies /\ a.modifiesP = k.modifiesP
  BY <1>2 DEF TableNames, NoTables
<1> QED
  BY <1>1, <1>5, <1>6 DEF TableNames, NoTables

LEMMA OtherNodesKeepEffects ==
  ASSUME NEW k, DOMAIN k = TableNames, NEW x
  PROVE  SameEffects(k, ExtractFollows(k, x)) /\ SameEffects(k, ExtractLeaves(k, x))
<1>1. \A l, new : DOMAIN l = TableNames =>
        /\ SameEffects(l, [l EXCEPT !.follows = new]) /\ SameEffects(l, [l EXCEPT !.followsT = new])
        /\ SameEffects(l, [l EXCEPT !.var = new]) /\ SameEffects(l, [l EXCEPT !.const = new])
  BY OtherTablesKeepEffects, TablesWithoutEffects
<1>2. \A l, m : SameEffects(l, m) => DOMAIN m = TableNames
  BY DEF SameEffects
<1>3. ASSUME NEW f, NEW g
      PROVE  /\ [k EXCEPT !.follows = f, !.followsT = g] = [[k EXCEPT !.follows = f] EXCEPT !.followsT = g]
             /\ [k EXCEPT !.var = f, !.const = g] = [[k EXCEPT !.var = f] EXCEPT !.const = g]
  BY DEF TableNames, NoTables
<1>4. \A f, g : /\ SameEffects(k, [k EXCEPT !.follows = f, !.followsT = g])
                /\ SameEffects(k, [k EXCEPT !.var = f, !.const = g])
  BY <1>1, <1>2, <1>3, SameEffectsAgain
<1>5. \E f, g : ExtractFollows(k, x) = [k EXCEPT !.follows = f, !.followsT = g]
  BY DEF ExtractFollows
<1>6. \E f, g : ExtractLeaves(k, x) = [k EXCEPT !.var = f, !.const = g]
  BY DEF ExtractLeaves
<1>7. SameEffects(k, ExtractFollows(k, x))
  <2>1. PICK f, g : ExtractFollows(k, x) = [k EXCEPT !.follows = f, !.followsT = g]
    BY <1>5
  <2>2. SameEffects(k, [k EXCEPT !.follows = f, !.followsT = g])
    BY <1>4
  <2> QED
    BY <2>1, <2>2
<1>8. SameEffects(k, ExtractLeaves(k, x))
  <2>1. PICK f, g : ExtractLeaves(k, x) = [k EXCEPT !.var = f, !.const = g]
    BY <1>6
  <2>2. SameEffects(k, [k EXCEPT !.var = f, !.const = g])
    BY <1>4
  <2> QED
    BY <2>1, <2>2
<1> QED
  BY <1>7, <1>8
-----------------------------------------------------------------------------
(* What the traversal finds *)

CallPairs == {<<s, Callee(s)>> : s \in CallStmts}

\* What is found of a statement: for itself and for all that it is in.
IsRead(k, s) == /\ s \in CallStmts => <<s, Callee(s)>> \in k.callStmts.table
                /\ \A a \in Stmts : s \in Within(a) => {a} \X ReadBy(s) \subseteq k.uses.table

\* What the tables hold of the effects after some nodes are taken.
Finding(k, q) ==
  /\ k.callStmts.table \subseteq CallPairs /\ k.uses.table \subseteq KnownPairs(ReadOf, {}) /\ k.proc \subseteq ProcEntries
  /\ \A s \in Stmts : IsRead(k, s) \/ StmtNode(s) \in ToCome(ToSet(q), NodeEdges, TreeNodes)
  /\ \A n \in DOMAIN pnames : ProcEntry(n) \in k.proc \/ ProcNode(n) \in ToCome(ToSet(q), NodeEdges, TreeNodes)

LEMMA KnownPairsHave ==
  ASSUME NEW own, NEW done, NEW s, NEW v
  PROVE  <<s, v>> \in KnownPairs(own, done) <=> s \in Stmts /\ v \in Known(own, s, done)
BY DEF KnownPairs

\* Every pair of the first table is found at a statement.
LEMMA ReadPairsAre ==
  ASSUME IsParsed
  PROVE  /\ \A a, v : <<a, v>> \in KnownPairs(ReadOf, {}) <=> a \in Stmts /\ \E t \in Within(a) : v \in ReadBy(t)
         /\ \A e \in KnownPairs(ReadOf, {}) : e = <<e[1], e[2]>>
<1>1. ASSUME NEW a \in Stmts, NEW v
      PROVE  v \in Known(ReadOf, a, {}) <=> \E t \in Within(a) : v \in ReadBy(t)
  <2>1. v \in Known(ReadOf, a, {}) <=> \E t \in Within(a) : v \in ReadOf[t]
    BY KnownHas
  <2>2. \A t \in Within(a) : ReadOf[t] = ReadBy(t)
    BY WithinIs DEF ReadOf
  <2> QED
    BY <2>1, <2>2
<1>2. \A e \in KnownPairs(ReadOf, {}) : e = <<e[1], e[2]>>
  BY DEF KnownPairs
<1> QED
  BY <1>1, <1>2, KnownPairsHave

\* Every statement comes to the queue.
LEMMA EveryStmtComes ==
  ASSUME IsParsed, NEW s \in Stmts
  PROVE  StmtNode(s) \in ToCome(Roots, NodeEdges, TreeNodes)
<1>1. ListNode(ast[s].list) \in ToCome(Roots, NodeEdges, TreeNodes)
  BY AllNodesCome
<1>2. ListNode(ast[s].list) \in TreeNodes
  BY <1>1 DEF ToCome
<1>3. ast[s].list \in Lists
  <2>1. ast[s].list \in Outermost \cup UNION {ToSet(ListsBelow(ast, p)) : p \in 1..(s - 1)}
    BY DEF IsParsed, Outermost
  <2>2. 1..(s - 1) \subseteq Stmts
    BY StmtsAreNumbered
  <2>3. CASE ast[s].list \in Outermost
    BY <2>3 DEF Lists
  <2>4. CASE ast[s].list \in UNION {ToSet(ListsBelow(ast, p)) : p \in 1..(s - 1)}
    <3>1. PICK p \in 1..(s - 1) : ast[s].list \in ToSet(ListsBelow(ast, p))
      BY <2>4
    <3> QED
      BY <2>2, <3>1 DEF Lists
  <2> QED
    BY <2>1, <2>3, <2>4
<1>4. StmtNode(s) \in Successors(NodeEdges, ListNode(ast[s].list))
  <2>1. ToSet(ChildrenOf(ListNode(ast[s].list))) = {StmtNode(u) : u \in Children(ast, ast[s].list)}
    BY <1>3, ChildrenAreNodes
  <2>2. s \in Children(ast, ast[s].list)
    BY DEF Children, Stmts
  <2>3. StmtNode(s) \in ToSet(ChildrenOf(ListNode(ast[s].list)))
    BY <2>1, <2>2
  <2> QED
    BY <1>2, <2>3, NodeEdgesAre
<1>5. NodeEdges \in SUBSET (TreeNodes \X TreeNodes)
  BY DEF NodeEdges
<1> QED
  BY <1>1, <1>4, <1>5, SearchReaches

\* Before the traversal all is to come.
LEMMA FindingBegins ==
  ASSUME IsParsed, NEW k, k.callStmts.table = {}, k.uses.table = {}, k.proc = {},
         NEW q, q = [n \in DOMAIN pnames |-> [type |-> "procedure", list |-> Procedure(n)]]
  PROVE  Finding(k, q)
<1>1. ToSet(q) = Roots
  <2>1. DOMAIN q = DOMAIN pnames /\ \A n \in DOMAIN pnames : q[n] = ProcNode(n)
    BY DEF ProcNode
  <2> QED
    BY <2>1 DEF ToSet, Roots
<1>2. \A n \in DOMAIN pnames : ProcNode(n) \in ToCome(Roots, NodeEdges, TreeNodes)
  BY DEF ToCome, Roots, TreeNodes
<1> QED
  BY <1>1, <1>2, EveryStmtComes DEF Finding

\* What is around a statement.
LEMMA AroundIs ==
  ASSUME IsParsed, NEW k, Agree(k.parentT), k.parentT.table = TransitiveClosure(Parents, Stmts), NEW s \in Stmts
  PROVE  {s} \cup AroundIn(k, s) = {a \in Stmts : s \in Within(a)}
<1>1. PICK T : T = k.parentT.table
  OBVIOUS
<1>2. k.parentT.inverse = Swapped(T)
  BY <1>1 DEF Agree
<1>3. \A a : <<a, s>> \in T <=> a \in Stmts /\ s \in ReachableFrom(Parents, Stmts, a)
  BY <1>1 DEF TransitiveClosure
<1>4. T \subseteq Stmts \X Stmts
  BY <1>1 DEF TransitiveClosure, ReachableFrom
<1>5. \A a : a \in AroundIn(k, s) <=> <<a, s>> \in T
  <2>1. ASSUME NEW a \in AroundIn(k, s)
        PROVE  <<a, s>> \in T
    <3>1. PICK p \in Swapped(T) : p[1] = s /\ a = p[2]
      BY <1>2 DEF AroundIn
    <3>2. PICK e \in T : p = <<e[2], e[1]>>
      BY DEF Swapped
    <3>3. e = <<e[1], e[2]>> /\ e[2] = s /\ e[1] = a
      BY <1>4, <3>1, <3>2
    <3> QED
      BY <3>3
  <2>2. ASSUME NEW a, <<a, s>> \in T
        PROVE  a \in AroundIn(k, s)
    <3>1. PICK e, p : e = <<a, s>> /\ p = <<s, a>>
      OBVIOUS
    <3>2. e \in T /\ p = <<e[2], e[1]>> /\ p[1] = s /\ p[2] = a
      BY <2>2, <3>1
    <3>3. p \in k.parentT.inverse
      BY <1>2, <3>2 DEF Swapped
    <3> QED
      BY <3>2, <3>3 DEF AroundIn
  <2> QED
    BY <2>1, <2>2
<1>6. \A a \in Stmts : s \in Within(a) <=> a = s \/ s \in ReachableFrom(Parents, Stmts, a)
  BY DEF Within
<1> QED
  BY <1>3, <1>5, <1>6

LEMMA UsedIsRead ==
  ASSUME NEW s
  PROVE  UsedBy(s) = ReadBy(s)
<1>1. CASE ast[s].kind = "print"
  <2>1. ExpressionsOf(s) = {}
    BY <1>1 DEF ExpressionsOf
  <2>2. LeavesIn(s) = {}
    BY <2>1 DEF LeavesIn
  <2> QED
    BY <1>1, <2>2 DEF UsedBy, ReadBy, VariablesIn
<1>2. CASE ast[s].kind # "print"
  BY <1>2 DEF UsedBy, ReadBy
<1> QED
  BY <1>1, <1>2

\* All but the node that is taken is still to come.
LEMMA NodeIsTaken ==
  ASSUME IsParsed, nodes \in Seq(TreeNodes), NEW type, TakeNode(type)
  PROVE  /\ Head(nodes) \in TreeNodes /\ Head(nodes).type = type
         /\ \A x \in ToCome(ToSet(nodes), NodeEdges, TreeNodes) :
              x # Head(nodes) => x \in ToCome(ToSet(nodes'), NodeEdges, TreeNodes)
<1>1. nodes # <<>> /\ Head(nodes).type = type /\ nodes' = Tail(nodes) \o ChildrenOf(Head(nodes))
  BY DEF TakeNode
<1> QED
  BY <1>1, TraversalGoesOn

\* More in the tables is read of no fewer statements.
LEMMA StaysRead ==
  ASSUME NEW k, NEW l, k.callStmts.table \subseteq l.callStmts.table, k.uses.table \subseteq l.uses.table,
         NEW s, IsRead(k, s)
  PROVE  IsRead(l, s)
BY DEF IsRead

\* When its node is taken all is found of a statement, and of others nothing wrong.
LEMMA StatementIsRead ==
  ASSUME IsParsed, Agreeing(pkb), pkb.parentT.table = TransitiveClosure(Parents, Stmts),
         pkb.callStmts.table \subseteq CallPairs, pkb.uses.table \subseteq KnownPairs(ReadOf, {}),
         NEW s \in Stmts, NEW l, l = ExtractStatement(pkb, s)
  PROVE  /\ pkb.callStmts.table \subseteq l.callStmts.table /\ pkb.uses.table \subseteq l.uses.table
         /\ l.callStmts.table \subseteq CallPairs /\ l.uses.table \subseteq KnownPairs(ReadOf, {})
         /\ IsRead(l, s)
         /\ l.proc = pkb.proc /\ l.usesP = pkb.usesP /\ l.modifies = pkb.modifies /\ l.modifiesP = pkb.modifiesP
<1>1. DOMAIN pkb = TableNames /\ Agree(pkb.parentT)
  BY DEF Agreeing, TablesAgree
<1>2. /\ l.uses = InsertStmtVars(pkb.uses, ({s} \cup AroundIn(pkb, s)) \X UsedBy(s))
      /\ l.callStmts = IF ast[s].kind = "call" THEN InsertStmtName(pkb.callStmts, s, Callee(s)) ELSE pkb.callStmts
      /\ l.proc = pkb.proc /\ l.usesP = pkb.usesP /\ l.modifies = pkb.modifies /\ l.modifiesP = pkb.modifiesP
  <2>1. IsGivenTo(pkb, s, l)
    BY <1>1, StatementWritesEffects
  <2> QED
    BY <2>1 DEF IsGivenTo
<1>3. PICK new : new = {a \in Stmts : s \in Within(a)} \X ReadBy(s)
  OBVIOUS
<1>4. l.uses = InsertStmtVars(pkb.uses, new)
  <2>1. {s} \cup AroundIn(pkb, s) = {a \in Stmts : s \in Within(a)}
    BY <1>1, AroundIs
  <2>2. UsedBy(s) = ReadBy(s)
    BY UsedIsRead
  <2> QED
    BY <1>2, <1>3, <2>1, <2>2
<1>5. Stmts = 1..Len(ast) /\ Len(ast) \in Nat
  BY StmtsAreNumbered
<1>6. \A e \in new : e[1] > 0 /\ e[2] # "" /\ e \in KnownPairs(ReadOf, {})
  <2> SUFFICES ASSUME NEW e \in new
               PROVE  e[1] > 0 /\ e[2] # "" /\ e \in KnownPairs(ReadOf, {})
    OBVIOUS
  <2>1. e = <<e[1], e[2]>> /\ e[1] \in Stmts /\ s \in Within(e[1]) /\ e[2] \in ReadBy(s)
    BY <1>3
  <2>2. <<e[1], e[2]>> \in KnownPairs(ReadOf, {})
    BY <2>1, ReadPairsAre
  <2>3. e \in KnownPairs(ReadOf, {})
    BY <2>1, <2>2
  <2> QED
    BY <2>3, OwnIsNamed, EffectsAreNamed
<1>7. l.uses.table = pkb.uses.table \cup new
  <2>1. {p \in new : p[1] > 0 /\ p[2] # ""} = new
    BY <1>6
  <2>2. l.uses = InsertPairs(pkb.uses, new)
    BY <1>4, <2>1 DEF InsertStmtVars
  <2> QED
    BY <2>2 DEF InsertPairs
<1>8. l.uses.table \subseteq KnownPairs(ReadOf, {})
  BY <1>6, <1>7
<1>9. \A a \in Stmts : s \in Within(a) => {a} \X ReadBy(s) \subseteq l.uses.table
  BY <1>3, <1>7
<1>10. CASE s \in CallStmts
  <2>1. Callee(s) # "" /\ ast[s].kind = "call"
    BY <1>10, CallsAreOfProcedures DEF CallStmts
  <2>2. ~(s <= 0)
    BY <1>5
  <2>3. l.callStmts = InsertOne(pkb.callStmts, s, Callee(s))
    BY <1>2, <2>1, <2>2 DEF InsertStmtName
  <2>4. <<s, Callee(s)>> \in CallPairs
    BY <1>10 DEF CallPairs
  <2>5. CASE s \in KeysOf(pkb.callStmts.table)
    <3>1. PICK e \in pkb.callStmts.table : e[1] = s
      BY <2>5 DEF KeysOf
    <3>2. PICK c \in CallStmts : e = <<c, Callee(c)>>
      BY DEF CallPairs
    <3>3. c = s
      BY <3>1, <3>2
    <3>4. <<s, Callee(s)>> \in pkb.callStmts.table
      BY <3>2, <3>3
    <3>5. l.callStmts = pkb.callStmts
      BY <2>3, <2>5 DEF InsertOne
    <3> QED
      BY <1>2, <1>7, <1>8, <1>9, <3>4, <3>5 DEF IsRead
  <2>6. CASE s \notin KeysOf(pkb.callStmts.table)
    <3>1. l.callStmts.table = pkb.callStmts.table \cup {<<s, Callee(s)>>}
      BY <2>3, <2>6 DEF InsertOne, InsertPairs
    <3> QED
      BY <1>2, <1>7, <1>8, <1>9, <2>4, <3>1 DEF IsRead
  <2> QED
    BY <2>5, <2>6
<1>11. CASE s \notin CallStmts
  <2>1. ast[s].kind # "call"
    BY <1>11 DEF CallStmts
  <2>2. l.callStmts = pkb.callStmts
    BY <1>2, <2>1
  <2> QED
    BY <1>2, <1>7, <1>8, <1>9, <1>11, <2>2 DEF IsRead
<1> QED
  BY <1>10, <1>11

\* The tables of the effects that are filled after the traversal.
Later(k, l) == l.usesP = k.usesP /\ l.modifies = k.modifies /\ l.modifiesP = k.modifiesP

\* The three kinds of steps of the traversal.
LEMMA TakeStatementKeepsFinding ==
  ASSUME IsParsed, Agreeing(pkb), pkb.parentT.table = TransitiveClosure(Parents, Stmts),
         nodes \in Seq(TreeNodes), Finding(pkb, nodes), TakeStatement
  PROVE  Finding(pkb', nodes') /\ Later(pkb, pkb')
<1>1. TakeNode("statement")
  BY DEF TakeStatement
<1>2. /\ Head(nodes) \in TreeNodes /\ Head(nodes).type = "statement"
      /\ \A x \in ToCome(ToSet(nodes), NodeEdges, TreeNodes) :
           x # Head(nodes) => x \in ToCome(ToSet(nodes'), NodeEdges, TreeNodes)
  BY <1>1, NodeIsTaken
<1>3. PICK s \in Stmts : Head(nodes) = StmtNode(s)
  BY <1>2, NodeIs
<1>4. Head(nodes).stmt = s
  BY <1>3 DEF StmtNode
<1>5. pkb' = ExtractStatement(pkb, s)
  BY <1>4 DEF TakeStatement
<1>6. pkb.callStmts.table \subseteq CallPairs /\ pkb.uses.table \subseteq KnownPairs(ReadOf, {}) /\ pkb.proc \subseteq ProcEntries
  BY DEF Finding
<1>7. PICK l : l = pkb'
  OBVIOUS
<1>8. /\ pkb.callStmts.table \subseteq l.callStmts.table /\ pkb.uses.table \subseteq l.uses.table
      /\ l.callStmts.table \subseteq CallPairs /\ l.uses.table \subseteq KnownPairs(ReadOf, {})
      /\ IsRead(l, s)
      /\ l.proc = pkb.proc /\ l.usesP = pkb.usesP /\ l.modifies = pkb.modifies /\ l.modifiesP = pkb.modifiesP
  BY <1>5, <1>6, <1>7, StatementIsRead
<1>9. ASSUME NEW t \in Stmts
      PROVE  IsRead(l, t) \/ StmtNode(t) \in ToCome(ToSet(nodes'), NodeEdges, TreeNodes)
  <2>1. CASE t = s
    BY <1>8, <2>1
  <2>2. CASE t # s
    <3>1. StmtNode(t) # StmtNode(s)
      BY <2>2 DEF StmtNode
    <3>2. CASE IsRead(pkb, t)
      BY <1>8, <3>2, StaysRead
    <3>3. CASE StmtNode(t) \in ToCome(ToSet(nodes), NodeEdges, TreeNodes)
      BY <1>2, <1>3, <3>1, <3>3
    <3> QED
      BY <3>2, <3>3 DEF Finding
  <2> QED
    BY <2>1, <2>2
<1>10. \A n \in DOMAIN pnames : ProcEntry(n) \in l.proc \/ ProcNode(n) \in ToCome(ToSet(nodes'), NodeEdges, TreeNodes)
  <2>1. \A n : ProcNode(n) # StmtNode(s)
    BY DEF ProcNode, StmtNode
  <2> QED
    BY <1>2, <1>3, <1>8, <2>1 DEF Finding
<1>11. Finding(l, nodes')
  BY <1>6, <1>8, <1>9, <1>10 DEF Finding
<1> QED
  BY <1>7, <1>8, <1>11 DEF Later

LEMMA TakeProcedureKeepsFinding ==
  ASSUME IsParsed, Agreeing(pkb), nodes \in Seq(TreeNodes), Finding(pkb, nodes), TakeProcedure
  PROVE  Finding(pkb', nodes') /\ Later(pkb, pkb')
<1>1. TakeNode("procedure") /\ DOMAIN pkb = TableNames
  BY DEF TakeProcedure, Agreeing
<1>2. /\ Head(nodes) \in TreeNodes /\ Head(nodes).type = "procedure"
      /\ \A x \in ToCome(ToSet(nodes), NodeEdges, TreeNodes) :
           x # Head(nodes) => x \in ToCome(ToSet(nodes'), NodeEdges, TreeNodes)
  BY <1>1, NodeIsTaken
<1>3. PICK n \in DOMAIN pnames : Head(nodes) = ProcNode(n)
  BY <1>2, NodeIs
<1>4. Head(nodes).list.of = n
  BY <1>3 DEF ProcNode, Procedure
<1>5. pkb' = ExtractCallRelation(ExtractProcedure(pkb, n), n)
  BY <1>4 DEF TakeProcedure
<1>6. PICK l : l = pkb'
  OBVIOUS
<1>7. /\ l.proc = InsertProc(pkb.proc, pnames[n], Min0(InProc(n)), Max0(InProc(n)))
      /\ l.uses = pkb.uses /\ l.callStmts = pkb.callStmts /\ l.usesP = pkb.usesP
      /\ l.modifies = pkb.modifies /\ l.modifiesP = pkb.modifiesP
  BY <1>1, <1>5, <1>6, ProcedureWritesRange
<1>8. pkb.proc \subseteq ProcEntries
  BY DEF Finding
<1>9. l.proc = pkb.proc \cup {ProcEntry(n)} /\ ProcEntry(n) \in ProcEntries
  BY <1>7, <1>8, ProcIsInserted DEF ProcEntries
<1>10. \A m \in DOMAIN pnames : ProcEntry(m) \in l.proc \/ ProcNode(m) \in ToCome(ToSet(nodes'), NodeEdges, TreeNodes)
  <2>1. \A m : m # n => ProcNode(m) # ProcNode(n)
    BY DEF ProcNode, Procedure
  <2> QED
    BY <1>2, <1>3, <1>9, <2>1 DEF Finding
<1>11. ASSUME NEW t \in Stmts
       PROVE  IsRead(l, t) \/ StmtNode(t) \in ToCome(ToSet(nodes'), NodeEdges, TreeNodes)
  <2>1. StmtNode(t) # ProcNode(n)
    BY DEF ProcNode, StmtNode
  <2>2. IsRead(pkb, t) => IsRead(l, t)
    BY <1>7, StaysRead
  <2> QED
    BY <1>2, <1>3, <2>1, <2>2 DEF Finding
<1>12. Finding(l, nodes')
  BY <1>7, <1>8, <1>9, <1>10, <1>11 DEF Finding
<1> QED
  BY <1>6, <1>7, <1>12 DEF Later

LEMMA OtherNodesKeepFinding ==
  ASSUME IsParsed, Agreeing(pkb), nodes \in Seq(TreeNodes), Finding(pkb, nodes), TakeStatementList \/ TakeLeaves
  PROVE  Finding(pkb', nodes') /\ Later(pkb, pkb')
<1>1. (TakeNode("list") \/ TakeNode("leaves")) /\ DOMAIN pkb = TableNames
  BY DEF TakeStatementList, TakeLeaves, Agreeing
<1>2. /\ Head(nodes) \in TreeNodes /\ Head(nodes).type \in {"list", "leaves"}
      /\ \A x \in ToCome(ToSet(nodes), NodeEdges, TreeNodes) :
           x # Head(nodes) => x \in ToCome(ToSet(nodes'), NodeEdges, TreeNodes)
  BY <1>1, NodeIsTaken
<1>3. SameEffects(pkb, pkb')
  BY <1>1, OtherNodesKeepEffects DEF TakeStatementList, TakeLeaves
<1>4. PICK l : l = pkb'
  OBVIOUS
<1>5. /\ l.proc = pkb.proc /\ l.uses = pkb.uses /\ l.callStmts = pkb.callStmts /\ l.usesP = pkb.usesP
      /\ l.modifies = pkb.modifies /\ l.modifiesP = pkb.modifiesP
  BY <1>3, <1>4 DEF SameEffects, Effects
<1>6. \A x : StmtNode(x) # Head(nodes) /\ ProcNode(x) # Head(nodes)
  BY <1>2 DEF StmtNode, ProcNode
<1>7. \A n \in DOMAIN pnames : ProcEntry(n) \in l.proc \/ ProcNode(n) \in ToCome(ToSet(nodes'), NodeEdges, TreeNodes)
  BY <1>2, <1>5, <1>6 DEF Finding
<1>8. \A t \in Stmts : IsRead(l, t) \/ StmtNode(t) \in ToCome(ToSet(nodes'), NodeEdges, TreeNodes)
  <2>1. \A t : IsRead(pkb, t) => IsRead(l, t)
    BY <1>5, StaysRead
  <2> QED
    BY <1>2, <1>6, <2>1 DEF Finding
<1>9. Finding(l, nodes')
  BY <1>5, <1>7, <1>8 DEF Finding
<1> QED
  BY <1>4, <1>5, <1>9 DEF Later

\* When the queue is empty nothing is to come.
LEMMA FindingIsDone ==
  ASSUME IsParsed, NEW k, Finding(k, <<>>)
  PROVE  k.callStmts.table = CallPairs /\ k.uses.table = KnownPairs(ReadOf, {}) /\ k.proc = ProcEntries
<1>1. ToCome(ToSet(<<>>), NodeEdges, TreeNodes) = {}
  BY DEF ToCome, ToSet
<1>2. \A s \in Stmts : IsRead(k, s)
  BY <1>1 DEF Finding
<1>3. ProcEntries \subseteq k.proc
  BY <1>1 DEF Finding, ProcEntries
<1>4. \A s \in CallStmts : <<s, Callee(s)>> \in k.callStmts.table
  BY <1>2, CallsAreOfProcedures DEF IsRead
<1>5. CallPairs \subseteq k.callStmts.table
  BY <1>4 DEF CallPairs
<1>6. ASSUME NEW e \in KnownPairs(ReadOf, {})
      PROVE  e \in k.uses.table
  <2>1. e = <<e[1], e[2]>> /\ <<e[1], e[2]>> \in KnownPairs(ReadOf, {})
    BY ReadPairsAre
  <2>2. PICK t \in Within(e[1]) : e[2] \in ReadBy(t)
    BY <2>1, ReadPairsAre
  <2>3. e[1] \in Stmts
    BY <2>1, ReadPairsAre
  <2>4. t \in Stmts
    BY <2>3, WithinIs
  <2>5. {e[1]} \X ReadBy(t) \subseteq k.uses.table
    BY <1>2, <2>3, <2>4 DEF IsRead
  <2> QED
    BY <2>1, <2>2, <2>5
<1> QED
  BY <1>3, <1>5, <1>6 DEF Finding

-----------------------------------------------------------------------------
(* What calls add *)

\* A procedure that is done has called procedures that are done.
CalleesFirst(lf) == lf \subseteq ToSet(pnames) /\ \A e \in Calls : e[2] \in lf => e[1] \in lf

Done(lf) == ToSet(pnames) \ lf

\* The inverse maps give the calls of a procedure and what is around them.
LEMMA CallersAreFound ==
  ASSUME IsParsed, Agree(pkb.callStmts), pkb.callStmts.table = CallPairs,
         Agree(pkb.parentT), pkb.parentT.table = TransitiveClosure(Parents, Stmts), NEW p
  PROVE  WhoCalls(p) = Callers(p)
<1> DEFINE calls == {q[2] : q \in {r \in pkb.callStmts.inverse : r[1] = p}}
           around == {q[2] : q \in {r \in pkb.parentT.inverse : r[1] \in calls}}
<1>1. \A c : c \in calls <=> c \in CallStmts /\ Callee(c) = p
  <2>1. pkb.callStmts.inverse = Swapped(CallPairs)
    BY DEF Agree
  <2>2. ASSUME NEW c \in calls
        PROVE  c \in CallStmts /\ Callee(c) = p
    <3>1. PICK q \in Swapped(CallPairs) : q[1] = p /\ c = q[2]
      BY <2>1
    <3>2. PICK e \in CallPairs : q = <<e[2], e[1]>>
      BY DEF Swapped
    <3>3. PICK d \in CallStmts : e = <<d, Callee(d)>>
      BY DEF CallPairs
    <3> QED
      BY <3>1, <3>2, <3>3
  <2>3. ASSUME NEW c \in CallStmts, Callee(c) = p
        PROVE  c \in calls
    <3>1. PICK e, q : e = <<c, p>> /\ q = <<p, c>>
      OBVIOUS
    <3>2. e \in CallPairs /\ q = <<e[2], e[1]>> /\ q[1] = p /\ q[2] = c
      BY <2>3, <3>1 DEF CallPairs
    <3>3. q \in pkb.callStmts.inverse
      BY <2>1, <3>2 DEF Swapped
    <3> QED
      BY <3>2, <3>3
  <2> QED
    BY <2>2, <2>3
<1>2. \A c \in calls : c \in Stmts
  BY <1>1 DEF CallStmts
<1>3. \A c \in calls : {c} \cup AroundIn(pkb, c) = {a \in Stmts : c \in Within(a)}
  BY <1>2, AroundIs
<1>4. WhoCalls(p) = calls \cup around
  BY DEF WhoCalls
<1> HIDE DEF calls
<1>5. \A a : a \in around <=> \E c \in calls : a \in AroundIn(pkb, c)
  BY DEF AroundIn
<1> HIDE DEF around
<1>6. \A a : a \in calls \cup around <=> \E c \in calls : a \in {c} \cup AroundIn(pkb, c)
  BY <1>5
<1>7. \A a : a \in WhoCalls(p) <=> a \in Stmts /\ \E c \in calls : c \in Within(a)
  BY <1>3, <1>4, <1>6
<1>8. \A a : a \in Callers(p) <=> a \in Stmts /\ \E c \in calls : c \in Within(a)
  BY <1>1 DEF Callers, CallsWithin
<1> QED
  BY <1>7, <1>8

LEMMA InsertedPairs ==
  ASSUME NEW t, NEW pairs
  PROVE  InsertPairs(t, pairs).table = t.table \cup pairs
BY DEF InsertPairs

\* The tables t of statements and tp of procedures have the effects of all but lf.
IsPropagated(own, t, tp, lf) ==
  t.table = KnownPairs(own, Done(lf)) /\ tp.table = ProcPairs(own, Done(lf)) /\ CalleesFirst(lf)

\* The body of the loop, for one of the two relations.
LEMMA ProcedureIsPropagated ==
  ASSUME IsParsed, NEW own, IsNamed(own), NEW t, NEW tp, NEW lf, IsPropagated(own, t, tp, lf),
         NEW p \in lf, \A e \in Calls : e[1] = p => e[2] \notin lf,
         NEW vars, vars = {e[2] : e \in {d \in t.table : d[1] \in StmtsOf(p)}},
         NEW u, u = InsertStmtVars(t, Callers(p) \X vars), NEW up, up = InsertNames(tp, {p} \X vars)
  PROVE  IsPropagated(own, u, up, lf \ {p})
<1>0. t.table = KnownPairs(own, Done(lf)) /\ tp.table = ProcPairs(own, Done(lf)) /\ CalleesFirst(lf)
  BY DEF IsPropagated
<1>1. p \in ToSet(pnames) /\ Done(lf \ {p}) = Done(lf) \cup {p} /\ p # ""
  BY <1>0 DEF CalleesFirst, Done, IsParsed
<1>2. \A c \in CallStmts : ProcOf(c) = p => Callee(c) \in Done(lf)
  <2> SUFFICES ASSUME NEW c \in CallStmts, ProcOf(c) = p
               PROVE  Callee(c) \in Done(lf)
    OBVIOUS
  <2>1. Callee(c) \in ToSet(pnames) /\ <<p, Callee(c)>> \in Calls
    BY CallsAreOfProcedures
  <2> QED
    BY <2>1 DEF Done
<1>3. vars = ProcEffect(own, p)
  BY <1>0, <1>2, ReadFromRange
<1>4. Stmts = 1..Len(ast) /\ Len(ast) \in Nat
  BY StmtsAreNumbered
<1>5. "" \notin vars
  BY <1>3, EffectsAreNamed
<1>6. InsertStmtVars(t, Callers(p) \X vars).table = t.table \cup (Callers(p) \X vars)
  <2>1. PICK new : new = Callers(p) \X vars
    OBVIOUS
  <2>2. \A s \in Callers(p) : s > 0
    BY <1>4 DEF Callers
  <2>3. {e \in new : e[1] > 0 /\ e[2] # ""} = new
    BY <1>5, <2>1, <2>2
  <2>4. InsertStmtVars(t, new).table = t.table \cup new
    BY <2>3, InsertedPairs DEF InsertStmtVars
  <2> QED
    BY <2>1, <2>4, Zenon
<1>7. InsertNames(tp, {p} \X vars).table = tp.table \cup ({p} \X vars)
  <2>1. PICK new : new = {p} \X vars
    OBVIOUS
  <2>2. {e \in new : e[1] # "" /\ e[2] # ""} = new
    BY <1>1, <1>5, <2>1
  <2>3. InsertNames(tp, new).table = tp.table \cup new
    BY <2>2, InsertedPairs DEF InsertNames
  <2> QED
    BY <2>1, <2>3, Zenon
<1>8. CalleesFirst(lf \ {p})
  BY <1>0 DEF CalleesFirst
<1>9. KnowsMore(own, Done(lf), p, Done(lf \ {p}))
  BY <1>1, KnownMore
<1> QED
  BY <1>0, <1>3, <1>6, <1>7, <1>8, <1>9 DEF KnowsMore, IsPropagated

(***************************************************************************)
(* The effects, stage by stage.                                            *)
(***************************************************************************)
BeforeModifies == BeforeParents \cup {"ModifiesHandler"}
BeforeTraversal == {"CFGHandler", "connecting", "NextHandler"}

\* What the traversal finds is not there yet, and what is propagated.
NothingFound(k) == k.uses = NoPairs /\ k.callStmts = NoPairs /\ k.proc = {}
NothingPropagated(k) == k.usesP = NoPairs /\ k.modifiesP = NoPairs

\* Uses is propagated for the procedures u and Modifies for the procedures m.
EffectsThrough(k, u, m) ==
  /\ k.callStmts.table = CallPairs /\ k.proc = ProcEntries
  /\ k.uses.table = KnownPairs(ReadOf, u) /\ k.usesP.table = ProcPairs(ReadOf, u)
  /\ k.modifies.table = KnownPairs(WrittenOf, m) /\ k.modifiesP.table = ProcPairs(WrittenOf, m)

\* What the tables k hold at the stage st, with the nodes q to be taken and the
\* procedures lf left.
EffectsProgress(st, k, q, lf) ==
  /\ st \in BeforeModifies => k.modifies = NoPairs /\ NothingFound(k) /\ NothingPropagated(k)
  /\ st \in BeforeTraversal => k.modifies.table = KnownPairs(WrittenOf, {}) /\ NothingFound(k) /\ NothingPropagated(k)
  /\ st = "BreadthFirstTraversal" =>
       k.modifies.table = KnownPairs(WrittenOf, {}) /\ Finding(k, q) /\ NothingPropagated(k)
  /\ st = "CallHandler" => EffectsThrough(k, {}, {})
  /\ st = "UsesP" => EffectsThrough(k, Done(lf), {}) /\ CalleesFirst(lf)
  /\ st = "ModifiesP" => EffectsThrough(k, ToSet(pnames), Done(lf)) /\ CalleesFirst(lf)
  /\ st = "extracted" => EffectsThrough(k, ToSet(pnames), ToSet(pnames))

EffectsInv == RelationsInv /\ EffectsProgress(stage, pkb, nodes, left)

EffectsProceed == EffectsProgress(stage', pkb', nodes', left')

\* Where the stages stand.
LEMMA EffectStages ==
  /\ \A st \in BeforeParents : st \in BeforeModifies
  /\ "ModifiesHandler" \in BeforeModifies /\ {"StatementHandler", "ParentHandler"} \subseteq BeforeModifies
  /\ \A st \in BeforeModifies : st \notin BeforeTraversal
  /\ \A st \in BeforeModifies \cup BeforeTraversal :
       st \notin {"BreadthFirstTraversal", "CallHandler", "UsesP", "ModifiesP", "extracted"}
  /\ {"CFGHandler", "connecting", "NextHandler"} \subseteq BeforeTraversal
  /\ "thrown" \notin BeforeModifies \cup BeforeTraversal
BY DEF BeforeModifies, BeforeTraversal, BeforeParents, Reading

\* Of the same tables the same is known.
LEMMA SameEffectsMeanTheSame ==
  ASSUME NEW k, NEW l, \A f \in Effects : l[f] = k[f]
  PROVE  /\ NothingFound(k) => NothingFound(l)
         /\ NothingPropagated(k) => NothingPropagated(l)
         /\ l.modifies = k.modifies /\ l.uses = k.uses /\ l.callStmts = k.callStmts /\ l.proc = k.proc
         /\ l.usesP = k.usesP /\ l.modifiesP = k.modifiesP
         /\ \A u, m : EffectsThrough(k, u, m) => EffectsThrough(l, u, m)
<1>1. /\ l.modifies = k.modifies /\ l.uses = k.uses /\ l.callStmts = k.callStmts /\ l.proc = k.proc
      /\ l.usesP = k.usesP /\ l.modifiesP = k.modifiesP
  BY DEF Effects
<1> QED
  BY <1>1 DEF NothingFound, NothingPropagated, EffectsThrough

\* The handlers that have nothing to do with effects.
LEMMA OtherHandlersKeepEffects ==
  ASSUME DOMAIN pkb = TableNames,
         ExtractStmtNums \/ ExtractParentAndParentT \/ BeginCFG \/ ConnectCFG \/ EndCFG \/ ExtractNext \/ ExtractCallT
  PROVE  \A f \in Effects : pkb'[f] = pkb[f]
<1>1. CASE ExtractStmtNums
  <2>1. PICK new : pkb' = [pkb EXCEPT !.stmt = new]
    BY <1>1 DEF ExtractStmtNums
  <2> QED
    BY <2>1 DEF Effects, TableNames, NoTables
<1>2. CASE ExtractParentAndParentT
  <2>1. PICK new, more : pkb' = [pkb EXCEPT !.parent = new, !.parentT = more]
    BY <1>2 DEF ExtractParentAndParentT
  <2> QED
    BY <2>1 DEF Effects, TableNames, NoTables
<1>3. CASE BeginCFG \/ ConnectCFG \/ EndCFG
  BY <1>3 DEF BeginCFG, ConnectCFG, EndCFG, Terminate, extractVars
<1>4. CASE ExtractNext
  <2>1. PICK new, more : pkb' = [pkb EXCEPT !.next = new, !.nextT = more]
    BY <1>4 DEF ExtractNext
  <2> QED
    BY <2>1 DEF Effects, TableNames, NoTables
<1>5. CASE ExtractCallT
  <2>1. PICK new : pkb' = [pkb EXCEPT !.callsT = new]
    BY <1>5 DEF ExtractCallT
  <2> QED
    BY <2>1 DEF Effects, TableNames, NoTables
<1> QED
  BY <1>1, <1>2, <1>3, <1>4, <1>5

\* Up to the traversal the tables of the effects are empty but for Modifies.
LEMMA BeforeTraversalEffectsProceed ==
  ASSUME EffectsInv, ExtractStmtNums \/ ExtractParentAndParentT \/ BeginCFG \/ ConnectCFG \/ EndCFG
  PROVE  EffectsProceed
<1>1. DOMAIN pkb = TableNames
  BY DEF EffectsInv, RelationsInv, IInv, Agreeing
<1>2. \A f \in Effects : pkb'[f] = pkb[f]
  BY <1>1, OtherHandlersKeepEffects
<1>3. \/ stage = "StatementHandler" /\ stage' = "ParentHandler"
      \/ stage = "ParentHandler" /\ stage' = "ModifiesHandler"
      \/ stage \in BeforeTraversal /\ stage' \in BeforeTraversal
      \/ stage' = "thrown"
  BY NextStage, EffectStages
  DEF ExtractStmtNums, ExtractParentAndParentT, BeginCFG, ConnectCFG, EndCFG, During, Terminate
<1>4. CASE stage \in {"StatementHandler", "ParentHandler"} /\ stage' \in {"ParentHandler", "ModifiesHandler"}
  <2>1. pkb'.modifies = NoPairs /\ NothingFound(pkb') /\ NothingPropagated(pkb')
    BY <1>2, <1>4, EffectStages, SameEffectsMeanTheSame DEF EffectsInv, EffectsProgress
  <2> QED
    BY <1>4, <2>1, EffectStages DEF EffectsProceed, EffectsProgress
<1>5. CASE stage \in BeforeTraversal /\ stage' \in BeforeTraversal
  <2>1. pkb'.modifies.table = KnownPairs(WrittenOf, {}) /\ NothingFound(pkb') /\ NothingPropagated(pkb')
    BY <1>2, <1>5, EffectStages, SameEffectsMeanTheSame DEF EffectsInv, EffectsProgress
  <2> QED
    BY <1>5, <2>1, EffectStages DEF EffectsProceed, EffectsProgress
<1>6. CASE stage' = "thrown"
  BY <1>6, EffectStages DEF EffectsProceed, EffectsProgress
<1> QED
  BY <1>3, <1>4, <1>5, <1>6

LEMMA ModifiesProceeds ==
  ASSUME EffectsInv, ExtractModifiesWithoutCalls
  PROVE  EffectsProceed
<1>1. DOMAIN pkb = TableNames /\ IsParsed
  BY DEF EffectsInv, RelationsInv, IInv, Agreeing, ExtractModifiesWithoutCalls, During, Reading
<1>2. stage = "ModifiesHandler" /\ stage' = "CFGHandler"
  BY NextStage DEF ExtractModifiesWithoutCalls, During
<1>3. pkb.modifies = NoPairs /\ NothingFound(pkb) /\ NothingPropagated(pkb)
  BY <1>2, EffectStages DEF EffectsInv, EffectsProgress
<1>4. PICK new : new = InsertStmtVars(NoPairs, UNION {{s} \X ModifiedBy[s] : s \in DOMAIN ast})
  OBVIOUS
<1>5. pkb' = [pkb EXCEPT !.modifies = new]
  BY <1>3, <1>4 DEF ExtractModifiesWithoutCalls
<1>6. /\ pkb'.modifies = new /\ pkb'.uses = pkb.uses /\ pkb'.callStmts = pkb.callStmts /\ pkb'.proc = pkb.proc
      /\ pkb'.usesP = pkb.usesP /\ pkb'.modifiesP = pkb.modifiesP
  BY <1>1, <1>5 DEF TableNames, NoTables
<1>7. new.table = KnownPairs(WrittenOf, {})
  BY <1>1, <1>4, ModifiesIsFound
<1>8. NothingFound(pkb') /\ NothingPropagated(pkb')
  BY <1>3, <1>6 DEF NothingFound, NothingPropagated
<1> QED
  BY <1>2, <1>6, <1>7, <1>8, EffectStages DEF EffectsProceed, EffectsProgress

\* With the first nodes in the queue.
LEMMA TraversalBeginsEffects ==
  ASSUME EffectsInv, ExtractNext
  PROVE  EffectsProceed
<1>1. DOMAIN pkb = TableNames /\ IsParsed
  BY DEF EffectsInv, RelationsInv, IInv, Agreeing, ExtractNext, During, Reading
<1>2. /\ stage = "NextHandler" /\ stage' = "BreadthFirstTraversal"
      /\ nodes' = [n \in DOMAIN pnames |-> [type |-> "procedure", list |-> Procedure(n)]]
  BY NextStage DEF ExtractNext, During
<1>3. pkb.modifies.table = KnownPairs(WrittenOf, {}) /\ NothingFound(pkb) /\ NothingPropagated(pkb)
  BY <1>2, EffectStages DEF EffectsInv, EffectsProgress
<1>4. pkb'.modifies.table = KnownPairs(WrittenOf, {}) /\ NothingFound(pkb') /\ NothingPropagated(pkb')
  BY <1>1, <1>3, OtherHandlersKeepEffects, SameEffectsMeanTheSame
<1>5. pkb'.callStmts.table = {} /\ pkb'.uses.table = {} /\ pkb'.proc = {}
  BY <1>4 DEF NothingFound, NoPairs
<1>6. Finding(pkb', nodes')
  BY <1>1, <1>2, <1>5, FindingBegins
<1> QED
  BY <1>2, <1>4, <1>6, EffectStages DEF EffectsProceed, EffectsProgress

\* From node to node, and when the queue is empty.
LEMMA TraversalFinds ==
  ASSUME EffectsInv, TakeProcedure \/ TakeStatementList \/ TakeStatement \/ TakeLeaves \/ ThrowOutOfRange \/ EndTraversal
  PROVE  EffectsProceed
<1>1. IsParsed /\ stage = "BreadthFirstTraversal" /\ Agreeing(pkb)
  BY DEF EffectsInv, RelationsInv, IInv, TakeProcedure, TakeStatementList, TakeStatement, TakeLeaves, TakeNode, ThrowOutOfRange,
         EndTraversal, During, Reading
<1>2. Traversing(pkb, nodes, call_graph) /\ Written("BreadthFirstTraversal", pkb, call_graph)
  BY <1>1 DEF EffectsInv, RelationsInv, Progress
<1>3. nodes \in Seq(TreeNodes) /\ pkb.parentT.table = TransitiveClosure(Parents, Stmts)
  BY <1>2, StagesInOrder DEF Traversing, Written
<1>4. pkb.modifies.table = KnownPairs(WrittenOf, {}) /\ Finding(pkb, nodes) /\ NothingPropagated(pkb)
  BY <1>1 DEF EffectsInv, EffectsProgress
<1>5. CASE TakeProcedure \/ TakeStatementList \/ TakeStatement \/ TakeLeaves
  <2>1. stage' = "BreadthFirstTraversal"
    BY <1>1, <1>5 DEF TakeProcedure, TakeStatementList, TakeStatement, TakeLeaves, TakeNode
  <2>2. Agree(pkb.parentT)
    BY <1>1 DEF Agreeing, TablesAgree
  <2>3. Finding(pkb', nodes') /\ Later(pkb, pkb')
    BY <1>1, <1>3, <1>4, <1>5, <2>2, TakeProcedureKeepsFinding, TakeStatementKeepsFinding, OtherNodesKeepFinding
  <2>4. pkb'.modifies.table = KnownPairs(WrittenOf, {}) /\ NothingPropagated(pkb')
    BY <1>4, <2>3 DEF Later, NothingPropagated
  <2> QED
    BY <2>1, <2>3, <2>4, EffectStages DEF EffectsProceed, EffectsProgress
<1>6. CASE ThrowOutOfRange
  BY <1>6, EffectStages DEF ThrowOutOfRange, Terminate, EffectsProceed, EffectsProgress
<1>7. CASE EndTraversal
  <2>1. stage' = "CallHandler" /\ nodes = <<>> /\ pkb' = pkb
    BY <1>7, NextStage DEF EndTraversal
  <2>2. pkb.callStmts.table = CallPairs /\ pkb.uses.table = KnownPairs(ReadOf, {}) /\ pkb.proc = ProcEntries
    BY <1>1, <1>4, <2>1, FindingIsDone
  <2>3. pkb.usesP.table = ProcPairs(ReadOf, {}) /\ pkb.modifiesP.table = ProcPairs(WrittenOf, {})
    BY <1>4 DEF NothingPropagated, NoPairs, ProcPairs
  <2>4. EffectsThrough(pkb', {}, {})
    BY <1>4, <2>1, <2>2, <2>3 DEF EffectsThrough
  <2> QED
    BY <2>1, <2>4, EffectStages DEF EffectsProceed, EffectsProgress
<1> QED
  BY <1>5, <1>6, <1>7

\* The loops begin with every procedure.
LEMMA EveryProcedureIsLeft ==
  ASSUME IsParsed, pkb.proc = ProcEntries, NEW h, End(h), stage' \in {"UsesP", "ModifiesP"}
  PROVE  left' = ToSet(pnames) /\ CalleesFirst(left') /\ Done(left') = {}
<1>1. PICK i \in DOMAIN Handlers : Begin(Handlers[i + 1])
  BY DEF End
<1>2. left' = {p.name : p \in pkb.proc}
  BY <1>1 DEF Begin
<1>3. left' = ToSet(pnames)
  BY <1>2, ProcNamesAre
<1>4. \A e \in Calls : e[1] \in ToSet(pnames)
  BY DEF IsParsed
<1> QED
  BY <1>3, <1>4 DEF CalleesFirst, Done

\* Before the first loop every procedure is left.
LEMMA CallTBeginsUses ==
  ASSUME EffectsInv, ExtractCallT
  PROVE  EffectsProceed
<1>1. DOMAIN pkb = TableNames /\ IsParsed
  BY DEF EffectsInv, RelationsInv, IInv, Agreeing, ExtractCallT, During, Reading
<1>2. stage = "CallHandler" /\ stage' = "UsesP" /\ End("CallHandler")
  BY NextStage DEF ExtractCallT, During
<1>3. EffectsThrough(pkb, {}, {})
  BY <1>2 DEF EffectsInv, EffectsProgress
<1>4. EffectsThrough(pkb', {}, {})
  BY <1>1, <1>3, OtherHandlersKeepEffects, SameEffectsMeanTheSame
<1>5. CalleesFirst(left') /\ Done(left') = {}
  BY <1>1, <1>2, <1>3, EveryProcedureIsLeft DEF EffectsThrough
<1> QED
  BY <1>2, <1>4, <1>5, EffectStages DEF EffectsProceed, EffectsProgress

\* What the loops take is called by nobody left whose effects it lacks.
LEMMA ProcedureIsNext ==
  ASSUME IsParsed, Agreeing(pkb), pkb.calls.table = Calls, pkb.callStmts.table = CallPairs, pkb.proc = ProcEntries,
         pkb.parentT.table = TransitiveClosure(Parents, Stmts), CalleesFirst(left), NEW p \in NextOf(left)
  PROVE  /\ p \in left /\ WhoCalls(p) = Callers(p) /\ RangeOf(p) = StmtsOf(p)
         /\ \A e \in Calls : e[1] = p => e[2] \notin left
<1>1. p \in left /\ p \in ToSet(pnames)
  BY DEF NextOf, CalleesFirst
<1>2. WhoCalls(p) = Callers(p)
  BY CallersAreFound DEF Agreeing, TablesAgree
<1>3. RangeOf(p) = StmtsOf(p)
  BY <1>1, RangesAreProcedures
<1>4. \A e \in Calls : e[1] = p => e[2] \notin left
  BY DEF NextOf, CalleesIn
<1> QED
  BY <1>1, <1>2, <1>3, <1>4

\* An iteration of each loop.
LEMMA PropagateUsesProceeds ==
  ASSUME EffectsInv, PropagateUses
  PROVE  EffectsProceed
<1>1. IsParsed /\ stage = "UsesP" /\ stage' = "UsesP" /\ Agreeing(pkb) /\ DOMAIN pkb = TableNames
  BY DEF EffectsInv, RelationsInv, IInv, PropagateUses, During, Reading, Agreeing
<1>2. pkb.calls.table = Calls /\ pkb.parentT.table = TransitiveClosure(Parents, Stmts)
  BY <1>1, StagesInOrder DEF EffectsInv, RelationsInv, Progress, Written
<1>3. EffectsThrough(pkb, Done(left), {}) /\ CalleesFirst(left)
  BY <1>1 DEF EffectsInv, EffectsProgress
<1>4. PICK p \in NextOf(left) :
        /\ pkb' = [pkb EXCEPT !.usesP = InsertNames(pkb.usesP, {p} \X VarsOf(pkb.uses, p)),
                              !.uses = InsertStmtVars(pkb.uses, WhoCalls(p) \X VarsOf(pkb.uses, p))]
        /\ left' = left \ {p}
  BY DEF PropagateUses
<1>5. /\ p \in left /\ WhoCalls(p) = Callers(p) /\ RangeOf(p) = StmtsOf(p)
      /\ \A e \in Calls : e[1] = p => e[2] \notin left
  BY <1>1, <1>2, <1>3, ProcedureIsNext DEF EffectsThrough
<1>6. PICK vars : vars = {e[2] : e \in {d \in pkb.uses.table : d[1] \in StmtsOf(p)}}
  OBVIOUS
<1>7. VarsOf(pkb.uses, p) = vars
  BY <1>5, <1>6 DEF VarsOf
<1>8. PICK a, b : a = InsertNames(pkb.usesP, {p} \X vars) /\ b = InsertStmtVars(pkb.uses, Callers(p) \X vars)
  OBVIOUS
<1>9. pkb' = [pkb EXCEPT !.usesP = a, !.uses = b]
  BY <1>4, <1>5, <1>7, <1>8
<1>10. /\ pkb'.usesP = a /\ pkb'.uses = b /\ pkb'.callStmts = pkb.callStmts /\ pkb'.proc = pkb.proc
       /\ pkb'.modifies = pkb.modifies /\ pkb'.modifiesP = pkb.modifiesP
  BY <1>1, <1>9 DEF TableNames, NoTables
<1>11. IsPropagated(ReadOf, pkb.uses, pkb.usesP, left)
  BY <1>3 DEF EffectsThrough, IsPropagated
<1>12. IsPropagated(ReadOf, b, a, left \ {p})
  BY <1>1, <1>5, <1>6, <1>8, <1>11, OwnIsNamed, ProcedureIsPropagated
<1>13. EffectsThrough(pkb', Done(left'), {}) /\ CalleesFirst(left')
  BY <1>3, <1>4, <1>10, <1>12 DEF EffectsThrough, IsPropagated
<1> QED
  BY <1>1, <1>13, EffectStages DEF EffectsProceed, EffectsProgress

LEMMA PropagateModifiesProceeds ==
  ASSUME EffectsInv, PropagateModifies
  PROVE  EffectsProceed
<1>1. IsParsed /\ stage = "ModifiesP" /\ stage' = "ModifiesP" /\ Agreeing(pkb) /\ DOMAIN pkb = TableNames
  BY DEF EffectsInv, RelationsInv, IInv, PropagateModifies, During, Reading, Agreeing
<1>2. pkb.calls.table = Calls /\ pkb.parentT.table = TransitiveClosure(Parents, Stmts)
  BY <1>1, StagesInOrder DEF EffectsInv, RelationsInv, Progress, Written
<1>3. EffectsThrough(pkb, ToSet(pnames), Done(left)) /\ CalleesFirst(left)
  BY <1>1 DEF EffectsInv, EffectsProgress
<1>4. PICK p \in NextOf(left) :
        /\ pkb' = [pkb EXCEPT !.modifiesP = InsertNames(pkb.modifiesP, {p} \X VarsOf(pkb.modifies, p)),
                              !.modifies = InsertStmtVars(pkb.modifies, WhoCalls(p) \X VarsOf(pkb.modifies, p))]
        /\ left' = left \ {p}
  BY DEF PropagateModifies
<1>5. /\ p \in left /\ WhoCalls(p) = Callers(p) /\ RangeOf(p) = StmtsOf(p)
      /\ \A e \in Calls : e[1] = p => e[2] \notin left
  BY <1>1, <1>2, <1>3, ProcedureIsNext DEF EffectsThrough
<1>6. PICK vars : vars = {e[2] : e \in {d \in pkb.modifies.table : d[1] \in StmtsOf(p)}}
  OBVIOUS
<1>7. VarsOf(pkb.modifies, p) = vars
  BY <1>5, <1>6 DEF VarsOf
<1>8. PICK a, b : a = InsertNames(pkb.modifiesP, {p} \X vars) /\ b = InsertStmtVars(pkb.modifies, Callers(p) \X vars)
  OBVIOUS
<1>9. pkb' = [pkb EXCEPT !.modifiesP = a, !.modifies = b]
  BY <1>4, <1>5, <1>7, <1>8
<1>10. /\ pkb'.modifiesP = a /\ pkb'.modifies = b /\ pkb'.callStmts = pkb.callStmts /\ pkb'.proc = pkb.proc
       /\ pkb'.uses = pkb.uses /\ pkb'.usesP = pkb.usesP
  BY <1>1, <1>9 DEF TableNames, NoTables
<1>11. IsPropagated(WrittenOf, pkb.modifies, pkb.modifiesP, left)
  BY <1>3 DEF EffectsThrough, IsPropagated
<1>12. IsPropagated(WrittenOf, b, a, left \ {p})
  BY <1>1, <1>5, <1>6, <1>8, <1>11, OwnIsNamed, ProcedureIsPropagated
<1>13. EffectsThrough(pkb', ToSet(pnames), Done(left')) /\ CalleesFirst(left')
  BY <1>3, <1>4, <1>10, <1>12 DEF EffectsThrough, IsPropagated
<1> QED
  BY <1>1, <1>13, EffectStages DEF EffectsProceed, EffectsProgress

\* When nobody is left all are done.
LEMMA PropagationEnds ==
  ASSUME EffectsInv, EndPropagation
  PROVE  EffectsProceed
<1>1. IsParsed /\ pkb' = pkb /\ Done(left) = ToSet(pnames)
  BY DEF EffectsInv, RelationsInv, IInv, EndPropagation, During, Reading, Done
<1>2. CASE stage = "UsesP"
  <2>1. stage' = "ModifiesP" /\ End("UsesP")
    BY <1>2, NextStage DEF EndPropagation, During
  <2>2. EffectsThrough(pkb, ToSet(pnames), {})
    BY <1>1, <1>2 DEF EffectsInv, EffectsProgress
  <2>3. CalleesFirst(left') /\ Done(left') = {}
    BY <1>1, <2>1, <2>2, EveryProcedureIsLeft DEF EffectsThrough
  <2> QED
    BY <1>1, <2>1, <2>2, <2>3, EffectStages DEF EffectsProceed, EffectsProgress
<1>3. CASE stage = "ModifiesP"
  <2>1. stage' = "extracted"
    BY <1>3, NextStage DEF EndPropagation, During
  <2>2. EffectsThrough(pkb', ToSet(pnames), ToSet(pnames))
    BY <1>1, <1>3 DEF EffectsInv, EffectsProgress
  <2> QED
    BY <2>1, <2>2, EffectStages DEF EffectsProceed, EffectsProgress
<1> QED
  BY <1>2, <1>3 DEF EndPropagation, During

LEMMA NoTablesNoEffects == NoTables.modifies = NoPairs /\ NothingFound(NoTables) /\ NothingPropagated(NoTables)
BY DEF NoTables, NothingFound, NothingPropagated

\* Reading empties the tables.
LEMMA ReadingLeavesNoEffects ==
  ASSUME EffectsInv, ReadProgram \/ (stage = "parsed" /\ ExtractDesigns)
  PROVE  EffectsProceed
<1>1. stage' \in BeforeModifies /\ pkb'.modifies = NoPairs /\ NothingFound(pkb') /\ NothingPropagated(pkb')
  <2>1. CASE ReadProgram
    BY <2>1, StagesInOrder, EffectStages, NoTablesNoEffects DEF ReadProgram
  <2>2. CASE stage = "parsed" /\ ExtractDesigns
    BY <2>2, NextStage, StagesInOrder, EffectStages DEF ExtractDesigns, EffectsInv, EffectsProgress
  <2> QED
    BY <2>1, <2>2
<1> QED
  BY <1>1, EffectStages DEF EffectsProceed, EffectsProgress

LEMMA HandlersFindEffects ==
  ASSUME EffectsInv, ExtractNextStep
  PROVE  EffectsProceed
BY BeforeTraversalEffectsProceed, ModifiesProceeds, TraversalBeginsEffects, TraversalFinds, CallTBeginsUses,
   PropagateUsesProceeds, PropagateModifiesProceeds, PropagationEnds
DEF ExtractNextStep

\* What a tree means is the tree's.
LEMMA SameTreeSameEffects ==
  ASSUME ast' = ast, pnames' = pnames
  PROVE  /\ ReadOf' = ReadOf /\ WrittenOf' = WrittenOf /\ CallPairs' = CallPairs /\ ProcEntries' = ProcEntries
         /\ \A own, done : KnownPairs(own, done)' = KnownPairs(own, done) /\ ProcPairs(own, done)' = ProcPairs(own, done)
         /\ \A s : Within(s)' = Within(s)
<1>1. Stmts' = Stmts /\ Parents' = Parents
  BY SameTreeSameNodes
<1>2. CallStmts' = CallStmts
  BY DEF CallStmts, Stmts
<1>3. \A s : ProcOf(s)' = ProcOf(s) /\ Callee(s)' = Callee(s)
  BY DEF ProcOf, Callee
<1>4. \A s : Within(s)' = Within(s)
  BY <1>1 DEF Within
<1>5. \A p : StmtsOf(p)' = StmtsOf(p)
  BY <1>1, <1>3 DEF StmtsOf
<1>6. Executes' = Executes
  BY <1>1, <1>2, <1>3 DEF Executes
<1>7. \A own, s : Effect(own, s)' = Effect(own, s)
  BY <1>1, <1>6 DEF Effect
<1>8. \A own, p : ProcEffect(own, p)' = ProcEffect(own, p)
  BY <1>5, <1>7 DEF ProcEffect
<1>9. \A s : CallsWithin(s)' = CallsWithin(s)
  BY <1>2, <1>4 DEF CallsWithin
<1>10. \A own, s, done : Known(own, s, done)' = Known(own, s, done)
  BY <1>3, <1>4, <1>8, <1>9 DEF Known, InIt, CalledIn
<1>11. \A own, done : KnownPairs(own, done)' = KnownPairs(own, done) /\ ProcPairs(own, done)' = ProcPairs(own, done)
  BY <1>1, <1>8, <1>10 DEF KnownPairs, ProcPairs
<1>12. CallPairs' = CallPairs
  BY <1>2, <1>3 DEF CallPairs
<1>13. ProcEntries' = ProcEntries
  BY DEF ProcEntries, ProcEntry, InProc
<1>14. \A s : ReadBy(s)' = ReadBy(s) /\ WrittenBy(s)' = WrittenBy(s)
  BY DEF ReadBy, WrittenBy, VariablesIn, LeavesIn, ExpressionsOf
<1>15. ReadOf' = ReadOf /\ WrittenOf' = WrittenOf
  BY <1>1, <1>14 DEF ReadOf, WrittenOf
<1> QED
  BY <1>4, <1>11, <1>12, <1>13, <1>15

LEMMA SameTreeSameProgress ==
  ASSUME ast' = ast, pnames' = pnames, EffectsProceed
  PROVE  EffectsProgress(stage, pkb, nodes, left)'
<1>1. /\ ReadOf' = ReadOf /\ WrittenOf' = WrittenOf /\ CallPairs' = CallPairs /\ ProcEntries' = ProcEntries
      /\ \A own, done : KnownPairs(own, done)' = KnownPairs(own, done) /\ ProcPairs(own, done)' = ProcPairs(own, done)
      /\ \A s : Within(s)' = Within(s)
  BY SameTreeSameEffects
<1>2. Stmts' = Stmts /\ Calls' = Calls /\ TreeNodes' = TreeNodes /\ NodeEdges' = NodeEdges
  BY SameTreeSameNodes
<1>3. NothingFound(pkb') <=> NothingFound(pkb)'
  BY DEF NothingFound
<1>4. NothingPropagated(pkb') <=> NothingPropagated(pkb)'
  BY DEF NothingPropagated
<1>5. Done(left') = Done(left)' /\ (CalleesFirst(left') <=> CalleesFirst(left)')
  BY <1>2 DEF Done, CalleesFirst
<1>6. EffectsThrough(pkb', {}, {}) => EffectsThrough(pkb, {}, {})'
  BY <1>1 DEF EffectsThrough
<1>7. EffectsThrough(pkb', Done(left'), {}) => EffectsThrough(pkb, Done(left), {})'
  BY <1>1, <1>5 DEF EffectsThrough
<1>8. EffectsThrough(pkb', ToSet(pnames), Done(left')) => EffectsThrough(pkb, ToSet(pnames), Done(left))'
  BY <1>1, <1>5 DEF EffectsThrough
<1>9. EffectsThrough(pkb', ToSet(pnames), ToSet(pnames)) => EffectsThrough(pkb, ToSet(pnames), ToSet(pnames))'
  BY <1>1 DEF EffectsThrough
<1>10. Finding(pkb', nodes') => Finding(pkb, nodes)'
  <2>1. \A s : ReadBy(s)' = ReadBy(s) /\ Callee(s)' = Callee(s)
    BY DEF ReadBy, VariablesIn, LeavesIn, ExpressionsOf, Callee
  <2>2. CallStmts' = CallStmts
    BY DEF CallStmts, Stmts
  <2>3. \A s : IsRead(pkb', s) => IsRead(pkb, s)'
    BY <1>1, <1>2, <2>1, <2>2 DEF IsRead
  <2>4. \A n \in DOMAIN pnames : ProcEntry(n)' = ProcEntry(n)
    BY DEF ProcEntry, InProc
  <2> QED
    BY <1>1, <1>2, <2>3, <2>4 DEF Finding, StmtNode, ProcNode
<1>11. KnownPairs(WrittenOf, {})' = KnownPairs(WrittenOf, {})
  BY <1>1
<1>12. EffectsProgress(stage', pkb', nodes', left')
  BY DEF EffectsProceed
<1> QED
  BY <1>3, <1>4, <1>5, <1>6, <1>7, <1>8, <1>9, <1>10, <1>11, <1>12
  DEF EffectsProgress, BeforeModifies, BeforeTraversal, BeforeParents, Reading

\* Before a tree there is nothing to know.
LEMMA ReadingKnowsNothing ==
  ASSUME stage' \in Reading, EffectsProceed
  PROVE  EffectsProgress(stage, pkb, nodes, left)'
<1>1. stage' \in BeforeModifies
  BY StagesInOrder, EffectStages
<1>2. pkb'.modifies = NoPairs /\ NothingFound(pkb') /\ NothingPropagated(pkb')
  BY <1>1 DEF EffectsProceed, EffectsProgress
<1>3. stage' \notin {"CFGHandler", "connecting", "NextHandler", "BreadthFirstTraversal", "CallHandler", "UsesP", "ModifiesP", "extracted"}
  BY DEF Reading
<1> QED
  BY <1>2, <1>3 DEF EffectsProgress, NothingFound, NothingPropagated, BeforeTraversal

LEMMA EffectsHold == ExtractSpec => []EffectsInv
<1>1. ExtractInit /\ stage = "lexing" /\ RelationsInv => EffectsInv
  <2> SUFFICES ASSUME ExtractInit, stage = "lexing" PROVE EffectsProgress(stage, pkb, nodes, left)
    BY DEF EffectsInv
  <2>1. pkb = NoTables /\ stage \in BeforeModifies
    BY StagesInOrder, EffectStages DEF ExtractInit
  <2> QED
    BY <2>1, NoTablesNoEffects, EffectStages DEF EffectsProgress
<1>2. EffectsInv /\ RelationsInv' /\ [ExtractNextStep \/ (stage = "parsed" /\ ExtractDesigns /\ UNCHANGED <<ast, pnames>>) \/ ReadProgram]_<<stage, ast, pnames, extractVars, cfgVars>>
      => EffectsInv'
  <2> SUFFICES ASSUME EffectsInv, RelationsInv',
                      \/ ExtractNextStep
                      \/ stage = "parsed" /\ ExtractDesigns /\ UNCHANGED <<ast, pnames>>
                      \/ ReadProgram
                      \/ UNCHANGED <<stage, ast, pnames, extractVars, cfgVars>>
               PROVE  EffectsInv'
    OBVIOUS
  <2>1. CASE ExtractNextStep \/ (stage = "parsed" /\ ExtractDesigns /\ UNCHANGED <<ast, pnames>>)
    <3>1. EffectsProceed
      BY <2>1, HandlersFindEffects, ReadingLeavesNoEffects
    <3>2. ast' = ast /\ pnames' = pnames
      BY <2>1, HandlersKeepTree
    <3> QED
      BY <3>1, <3>2, SameTreeSameProgress DEF EffectsInv
  <2>2. CASE ReadProgram
    <3>1. EffectsProceed /\ stage' \in Reading
      BY <2>2, ReadingLeavesNoEffects DEF ReadProgram
    <3> QED
      BY <3>1, ReadingKnowsNothing DEF EffectsInv
  <2>3. CASE UNCHANGED <<stage, ast, pnames, extractVars, cfgVars>>
    <3>1. stage' = stage /\ pkb' = pkb /\ nodes' = nodes /\ left' = left /\ ast' = ast /\ pnames' = pnames
      BY <2>3 DEF extractVars
    <3>2. EffectsProceed
      BY <3>1 DEF EffectsInv, EffectsProceed
    <3> QED
      BY <3>1, <3>2, SameTreeSameProgress DEF EffectsInv
  <2> QED
    BY <2>1, <2>2, <2>3
<1> QED
  BY <1>1, <1>2, RelationsHold, PTL DEF ExtractSpec

\* Whatever program is read, after whatever others: when the handlers have run
\* a statement and a procedure use and modify what executing them can read and
\* write, through all they contain and all they call, and nothing else; though
\* the sweep over the calls takes the procedures in any order that has the
\* callees first, and each one once.
THEOREM EffectsAreFound == ExtractSpec => []EffectsAreTheProgram
<1>1. EffectsInv => EffectsAreTheProgram
  <2> SUFFICES ASSUME EffectsInv, stage = "extracted" PROVE EffectsAreTheProgram
    BY DEF EffectsAreTheProgram, Extracted
  <2>1. IsParsed
    BY DEF EffectsInv, RelationsInv, IInv, Reading
  <2>2. EffectsThrough(pkb, ToSet(pnames), ToSet(pnames))
    BY DEF EffectsInv, EffectsProgress
  <2>3. /\ pkb.uses.table = UNION {{s} \X EffectOf(s, ReadBy) : s \in Stmts}
        /\ pkb.modifies.table = UNION {{s} \X EffectOf(s, WrittenBy) : s \in Stmts}
        /\ pkb.usesP.table = UNION {{ProcOf(s)} \X EffectOf(s, ReadBy) : s \in Stmts}
        /\ pkb.modifiesP.table = UNION {{ProcOf(s)} \X EffectOf(s, WrittenBy) : s \in Stmts}
    BY <2>1, <2>2, KnownIsMeant, Zenon DEF EffectsThrough
  <2> QED
    BY <2>3 DEF EffectsAreTheProgram
<1> QED
  BY <1>1, EffectsHold, PTL
-----------------------------------------------------------------------------
(***************************************************************************)
(* The entities: what is written at each node of the tree.                 *)
(***************************************************************************)
EntityFields == {"stmt", "entity", "var", "const", "read", "print", "assign", "if", "while"}

SameEntities(k, l) == DOMAIN l = TableNames /\ \A f \in EntityFields : l[f] = k[f]

\* Another table is written.
LEMMA OtherTablesKeepEntities ==
  ASSUME NEW k, DOMAIN k = TableNames, NEW f \in TableNames \ EntityFields, NEW new
  PROVE  SameEntities(k, [k EXCEPT ![f] = new])
<1>1. EntityFields \subseteq TableNames
  BY DEF EntityFields, TableNames, NoTables
<1> HIDE DEF EntityFields, TableNames
<1> QED
  BY <1>1 DEF SameEntities

LEMMA TablesWithoutEntities ==
  {"proc", "callStmts", "uses", "usesP", "modifies", "modifiesP", "follows", "followsT",
   "parent", "parentT", "next", "nextT", "calls", "callsT"} \subseteq TableNames \ EntityFields
BY DEF EntityFields, TableNames, NoTables

LEMMA SameEntitiesAgain ==
  ASSUME NEW k, NEW l, NEW m, SameEntities(k, l), SameEntities(l, m)
  PROVE  SameEntities(k, m)
BY DEF SameEntities

\* l is k with the entities of s: reads, prints and assignments, containers, and
\* types.
IsEnteredIn(k, s, l) ==
  /\ l.entity = InsertStmtName(k.entity, s, ast[s].kind)
  /\ l.read = IF ast[s].kind = "read" THEN k.read \cup {<<s, ast[s].about[1]>>} ELSE k.read
  /\ l.print = IF ast[s].kind = "print" THEN k.print \cup {<<s, ast[s].about[1]>>} ELSE k.print
  /\ l.assign = IF ast[s].kind = "assign" THEN InsertAssign(k.assign, s, ast[s].about[1], ast[s].about[2]) ELSE k.assign
  /\ l.if = IF ast[s].kind = "if" THEN InsertContainer(k.if, s, VariablesIn(s)) ELSE k.if
  /\ l.while = IF ast[s].kind = "while" THEN InsertContainer(k.while, s, VariablesIn(s)) ELSE k.while
  /\ l.stmt = k.stmt /\ l.var = k.var /\ l.const = k.const

LEMMA StatementWritesEntities ==
  ASSUME NEW k, DOMAIN k = TableNames, NEW s
  PROVE  IsEnteredIn(k, s, ExtractStatement(k, s))
<1>0. PICK l : l = ExtractStatement(k, s)
  OBVIOUS
<1>1. PICK a, b, c : a = ExtractReadAndPrint(k, s) /\ b = ExtractAssignIfWhile(a, s) /\ c = ExtractUses(b, s)
  OBVIOUS
<1>2. l = ExtractEntityAndCall(c, s)
  BY <1>0, <1>1 DEF ExtractStatement
<1>3. /\ DOMAIN a = TableNames /\ \A f \in EntityFields \ {"read", "print"} : a[f] = k[f]
      /\ a.read = IF ast[s].kind = "read" THEN k.read \cup {<<s, ast[s].about[1]>>} ELSE k.read
      /\ a.print = IF ast[s].kind = "print" THEN k.print \cup {<<s, ast[s].about[1]>>} ELSE k.print
  <2>1. CASE ast[s].kind = "read"
    BY <1>1, <2>1 DEF ExtractReadAndPrint, TableNames, NoTables, EntityFields
  <2>2. CASE ast[s].kind = "print"
    BY <1>1, <2>2 DEF ExtractReadAndPrint, TableNames, NoTables, EntityFields
  <2>3. CASE ast[s].kind \notin {"read", "print"}
    <3>1. a = k
      BY <1>1, <2>3 DEF ExtractReadAndPrint
    <3> QED
      BY <2>3, <3>1
  <2> QED
    BY <2>1, <2>2, <2>3
<1>4. /\ DOMAIN b = TableNames /\ \A f \in EntityFields \ {"assign", "if", "while"} : b[f] = a[f]
      /\ b.assign = IF ast[s].kind = "assign" THEN InsertAssign(a.assign, s, ast[s].about[1], ast[s].about[2]) ELSE a.assign
      /\ b.if = IF ast[s].kind = "if" THEN InsertContainer(a.if, s, VariablesIn(s)) ELSE a.if
      /\ b.while = IF ast[s].kind = "while" THEN InsertContainer(a.while, s, VariablesIn(s)) ELSE a.while
  <2>1. CASE ast[s].kind = "assign"
    <3>1. PICK new : new = InsertAssign(a.assign, s, ast[s].about[1], ast[s].about[2])
      OBVIOUS
    <3>2. b = [a EXCEPT !.assign = new]
      BY <1>1, <2>1, <3>1 DEF ExtractAssignIfWhile
    <3> QED
      BY <1>3, <2>1, <3>1, <3>2 DEF TableNames, NoTables, EntityFields
  <2>2. CASE ast[s].kind = "if"
    <3>1. PICK new : new = InsertContainer(a.if, s, VariablesIn(s))
      OBVIOUS
    <3>2. b = [a EXCEPT !.if = new]
      BY <1>1, <2>2, <3>1 DEF ExtractAssignIfWhile
    <3> QED
      BY <1>3, <2>2, <3>1, <3>2 DEF TableNames, NoTables, EntityFields
  <2>3. CASE ast[s].kind = "while"
    <3>1. PICK new : new = InsertContainer(a.while, s, VariablesIn(s))
      OBVIOUS
    <3>2. b = [a EXCEPT !.while = new]
      BY <1>1, <2>3, <3>1 DEF ExtractAssignIfWhile
    <3> QED
      BY <1>3, <2>3, <3>1, <3>2 DEF TableNames, NoTables, EntityFields
  <2>4. CASE ast[s].kind \notin {"assign", "if", "while"}
    <3>1. b = a
      BY <1>1, <2>4 DEF ExtractAssignIfWhile
    <3> QED
      BY <1>3, <2>4, <3>1
  <2> QED
    BY <2>1, <2>2, <2>3, <2>4
<1>5. SameEntities(b, c)
  <2>1. PICK new : c = [b EXCEPT !.uses = new]
    BY <1>1 DEF ExtractUses
  <2> QED
    BY <1>4, <2>1, OtherTablesKeepEntities, TablesWithoutEntities
<1>6. DOMAIN l = TableNames /\ l.entity = InsertStmtName(c.entity, s, ast[s].kind) /\ \A f \in EntityFields \ {"entity"} : l[f] = c[f]
  <2>1. PICK e : e = InsertStmtName(c.entity, s, ast[s].kind)
    OBVIOUS
  <2>2. PICK d : d = [c EXCEPT !.entity = e]
    OBVIOUS
  <2>3. DOMAIN d = TableNames /\ d.entity = e /\ \A f \in EntityFields \ {"entity"} : d[f] = c[f]
    BY <1>5, <2>2 DEF SameEntities, TableNames, NoTables, EntityFields
  <2>4. l = d \/ \E new : l = [d EXCEPT !.callStmts = new]
    BY <1>2, <2>1, <2>2 DEF ExtractEntityAndCall
  <2>5. SameEntities(d, l)
    <3>1. SameEntities(d, d)
      BY <2>3 DEF SameEntities
    <3> QED
      BY <2>3, <2>4, <3>1, OtherTablesKeepEntities, TablesWithoutEntities
  <2> QED
    BY <2>1, <2>3, <2>5 DEF SameEntities, EntityFields
<1>7. \A f \in EntityFields \ {"entity"} : l[f] = b[f]
  BY <1>5, <1>6 DEF SameEntities
<1>8. c.entity = k.entity
  BY <1>3, <1>4, <1>5 DEF SameEntities, EntityFields
<1>9. /\ l.read = a.read /\ l.print = a.print /\ l.assign = b.assign /\ l.if = b.if /\ l.while = b.while
      /\ l.stmt = k.stmt /\ l.var = k.var /\ l.const = k.const
      /\ a.assign = k.assign /\ a.if = k.if /\ a.while = k.while
  BY <1>3, <1>4, <1>7 DEF EntityFields
<1>10. IsEnteredIn(k, s, l)
  BY <1>3, <1>4, <1>6, <1>8, <1>9 DEF IsEnteredIn
<1> QED
  BY <1>0, <1>10

EntityTables == {"entity", "var", "const", "read", "print", "assigned", "rhs", "if", "while"}

\* What is in a table of k.
EntriesIn(k, f) ==
  CASE f = "assigned"                  -> k.assign.assigned.table
    [] f = "rhs"                       -> k.assign.rhs
    [] f \in {"entity", "if", "while"} -> k[f].table
    [] OTHER                           -> k[f]

\* What is inserted of a statement, and of its leaves.
StmtEntries(s, f) ==
  CASE f = "entity"            -> {<<s, ast[s].kind>>}
    [] f \in {"read", "print"} -> IF ast[s].kind = f THEN {<<s, ast[s].about[1]>>} ELSE {}
    [] f = "assigned"          -> IF ast[s].kind = "assign" THEN {<<s, ast[s].about[1]>>} ELSE {}
    [] f = "rhs"               -> IF ast[s].kind = "assign" THEN {<<s, ast[s].about[2]>>} ELSE {}
    [] f \in {"if", "while"}   -> IF ast[s].kind = f THEN {s} \X ConditionOf(s) ELSE {}
    [] OTHER                   -> {}

LeafEntries(s, f) ==
  CASE f = "var"   -> NamesIn(s) \cup VariablesIn(s)
    [] f = "const" -> LeavesIn(s) \cap Constants
    [] OTHER       -> {}

EntriesAt(node, f) ==
  IF node.type = "statement" THEN StmtEntries(node.stmt, f)
  ELSE IF node.type = "leaves" THEN LeafEntries(node.stmt, f) ELSE {}

AllEntries(f) == UNION {EntriesAt(node, f) : node \in TreeNodes}

LEMMA TablesOfEntries ==
  ASSUME NEW k
  PROVE  /\ EntriesIn(k, "entity") = k.entity.table /\ EntriesIn(k, "var") = k.var /\ EntriesIn(k, "const") = k.const
         /\ EntriesIn(k, "read") = k.read /\ EntriesIn(k, "print") = k.print
         /\ EntriesIn(k, "assigned") = k.assign.assigned.table /\ EntriesIn(k, "rhs") = k.assign.rhs
         /\ EntriesIn(k, "if") = k.if.table /\ EntriesIn(k, "while") = k.while.table
BY DEF EntriesIn

LEMMA EntriesOfStmt ==
  ASSUME NEW s
  PROVE  /\ StmtEntries(s, "entity") = {<<s, ast[s].kind>>} /\ StmtEntries(s, "var") = {} /\ StmtEntries(s, "const") = {}
         /\ StmtEntries(s, "read") = IF ast[s].kind = "read" THEN {<<s, ast[s].about[1]>>} ELSE {}
         /\ StmtEntries(s, "print") = IF ast[s].kind = "print" THEN {<<s, ast[s].about[1]>>} ELSE {}
         /\ StmtEntries(s, "assigned") = IF ast[s].kind = "assign" THEN {<<s, ast[s].about[1]>>} ELSE {}
         /\ StmtEntries(s, "rhs") = IF ast[s].kind = "assign" THEN {<<s, ast[s].about[2]>>} ELSE {}
         /\ StmtEntries(s, "if") = IF ast[s].kind = "if" THEN {s} \X ConditionOf(s) ELSE {}
         /\ StmtEntries(s, "while") = IF ast[s].kind = "while" THEN {s} \X ConditionOf(s) ELSE {}
BY DEF StmtEntries

LEMMA EntriesOfLeaves ==
  ASSUME NEW s
  PROVE  /\ LeafEntries(s, "var") = NamesIn(s) \cup VariablesIn(s)
         /\ LeafEntries(s, "const") = LeavesIn(s) \cap Constants
         /\ \A f \in EntityTables \ {"var", "const"} : LeafEntries(s, f) = {}
BY DEF LeafEntries

LEMMA EntriesOfNodes ==
  ASSUME NEW f
  PROVE  /\ \A s : EntriesAt(StmtNode(s), f) = StmtEntries(s, f) /\ EntriesAt(LeafNode(s), f) = LeafEntries(s, f)
         /\ \A n : EntriesAt(ProcNode(n), f) = {}
         /\ \A list : EntriesAt(ListNode(list), f) = {}
BY DEF EntriesAt, StmtNode, LeafNode, ProcNode, ListNode

\* Each entry is of a statement.
LEMMA EntriesAre ==
  ASSUME NEW f, NEW e
  PROVE  e \in AllEntries(f) <=> \E s \in Stmts : e \in StmtEntries(s, f) \/ e \in LeafEntries(s, f)
<1>1. e \in AllEntries(f) <=> \E x \in TreeNodes : e \in EntriesAt(x, f)
  BY DEF AllEntries
<1>2. \A s \in Stmts : StmtNode(s) \in TreeNodes /\ LeafNode(s) \in TreeNodes
  BY DEF TreeNodes
<1>3. ASSUME NEW x \in TreeNodes, e \in EntriesAt(x, f)
      PROVE  \E s \in Stmts : e \in StmtEntries(s, f) \/ e \in LeafEntries(s, f)
  BY <1>3, NodeIs, EntriesOfNodes, Zenon
<1>4. ASSUME NEW s \in Stmts, e \in StmtEntries(s, f) \/ e \in LeafEntries(s, f)
      PROVE  \E x \in TreeNodes : e \in EntriesAt(x, f)
  BY <1>2, <1>4, EntriesOfNodes, Zenon
<1> QED
  BY <1>1, <1>3, <1>4

\* An assignment is in both of its tables or in none, and no empty name is found
\* from its own side.
IsProper(k) ==
  /\ KeysOf(k.assign.assigned.table) = KeysOf(k.assign.rhs)
  /\ "" \notin KeysOf(k.if.inverse) /\ "" \notin KeysOf(k.while.inverse)

NothingWrong(k) == \A f \in EntityTables : EntriesIn(k, f) \subseteq AllEntries(f)

\* l is k and what is inserted at the node.
IsInserted(k, node, l) == \A f \in EntityTables : EntriesIn(l, f) = EntriesIn(k, f) \cup EntriesAt(node, f)

LEMMA KeysOfMore ==
  ASSUME NEW pairs, NEW s, NEW x
  PROVE  KeysOf(pairs \cup {<<s, x>>}) = KeysOf(pairs) \cup {s}
<1>1. PICK e : e = <<s, x>>
  OBVIOUS
<1>2. KeysOf(pairs \cup {e}) = KeysOf(pairs) \cup {e[1]}
  BY DEF KeysOf
<1> QED
  BY <1>1, <1>2

LEMMA TableAndInverse ==
  ASSUME NEW a, NEW b, NEW u, u = [table |-> a, inverse |-> b]
  PROVE  u.table = a /\ u.inverse = b
OBVIOUS

LEMMA NamelessPair ==
  ASSUME NEW s
  PROVE  {s} \X {""} = {<<s, "">>}
OBVIOUS

LEMMA StmtsArePositive ==
  ASSUME IsParsed
  PROVE  \A s \in Stmts : ~(s <= 0)
BY StmtsAreNumbered

\* u is t with the container s and the variables of its condition.
HasCondition(t, s, vars, u) ==
  u.table = t.table \cup ({s} \X (IF vars = {} THEN {""} ELSE vars)) /\ "" \notin KeysOf(u.inverse)

LEMMA ContainerIsInserted ==
  ASSUME IsParsed, NEW t, "" \notin KeysOf(t.inverse), NEW s \in Stmts, NEW vars, "" \notin vars,
         NEW u, u = InsertContainer(t, s, vars)
  PROVE  HasCondition(t, s, vars, u)
<1>0. ~(s <= 0)
  BY StmtsArePositive
<1>1. CASE vars = {}
  <2>1. PICK a, b : a = t.table \cup {<<s, "">>} /\ b = t.inverse
    OBVIOUS
  <2>2. u.table = a /\ u.inverse = b
    <3>1. u = [table |-> a, inverse |-> b]
      BY <1>0, <1>1, <2>1 DEF InsertContainer
    <3> QED
      BY <3>1, TableAndInverse
  <2> QED
    BY <1>1, <2>1, <2>2, NamelessPair, Zenon DEF HasCondition
<1>2. CASE vars # {}
  <2>1. PICK new : new = {s} \X vars
    OBVIOUS
  <2>2. PICK a, b : a = t.table \cup new /\ b = t.inverse \cup Swapped(new \ t.table)
    OBVIOUS
  <2>3. u.table = a /\ u.inverse = b
    <3>1. u = [table |-> a, inverse |-> b]
      BY <1>0, <1>2, <2>1, <2>2 DEF InsertContainer, InsertPairs
    <3> QED
      BY <3>1, TableAndInverse
  <2>4. ASSUME NEW p \in Swapped(new \ t.table)
        PROVE  p[1] \in vars
    <3>1. PICK e \in new \ t.table : p = <<e[2], e[1]>>
      BY DEF Swapped
    <3> QED
      BY <2>1, <3>1
  <2>5. "" \notin KeysOf(t.inverse \cup Swapped(new \ t.table))
    BY <2>4 DEF KeysOf
  <2> QED
    BY <1>2, <2>1, <2>2, <2>3, <2>5, Zenon DEF HasCondition
<1> QED
  BY <1>1, <1>2

LEMMA TypeIsInserted ==
  ASSUME IsParsed, NEW s \in Stmts, NEW t, t.table \subseteq {<<c, ast[c].kind>> : c \in Stmts},
         NEW u, u = InsertStmtName(t, s, ast[s].kind)
  PROVE  u.table = t.table \cup {<<s, ast[s].kind>>}
<1>1. ~(s <= 0)
  BY StmtsAreNumbered
<1>2. ast[s].kind # ""
  BY DEF IsParsed
<1>3. u = InsertOne(t, s, ast[s].kind)
  BY <1>1, <1>2 DEF InsertStmtName
<1>4. CASE s \in KeysOf(t.table)
  <2>1. PICK e \in t.table : e[1] = s
    BY <1>4 DEF KeysOf
  <2>2. PICK c \in Stmts : e = <<c, ast[c].kind>>
    OBVIOUS
  <2>3. e = <<s, ast[s].kind>>
    BY <2>1, <2>2
  <2>4. u = t
    BY <1>3, <1>4 DEF InsertOne
  <2> QED
    BY <2>1, <2>3, <2>4
<1>5. CASE s \notin KeysOf(t.table)
  BY <1>3, <1>5, InsertedPairs DEF InsertOne
<1> QED
  BY <1>4, <1>5

LEMMA AssignIsInserted ==
  ASSUME NEW s, ~(s <= 0), NEW var, NEW rhs, NEW t, KeysOf(t.assigned.table) = KeysOf(t.rhs),
         \A e \in t.assigned.table : e[1] = s => e = <<s, var>>,
         \A e \in t.rhs : e[1] = s => e = <<s, rhs>>,
         NEW u, u = InsertAssign(t, s, var, rhs)
  PROVE  /\ u.assigned.table = t.assigned.table \cup {<<s, var>>}
         /\ u.rhs = t.rhs \cup {<<s, rhs>>}
         /\ KeysOf(u.assigned.table) = KeysOf(u.rhs)
<1>1. CASE s \in KeysOf(t.rhs)
  <2>1. u = t
    BY <1>1 DEF InsertAssign
  <2>2. PICK e \in t.assigned.table : e[1] = s
    BY <1>1 DEF KeysOf
  <2>3. PICK d \in t.rhs : d[1] = s
    BY <1>1 DEF KeysOf
  <2>4. <<s, var>> \in t.assigned.table /\ <<s, rhs>> \in t.rhs
    BY <2>2, <2>3
  <2> QED
    BY <2>1, <2>4
<1>2. CASE s \notin KeysOf(t.rhs)
  <2>1. PICK a : a = InsertOne(t.assigned, s, var)
    OBVIOUS
  <2>2. u = [assigned |-> a, rhs |-> t.rhs \cup {<<s, rhs>>}]
    BY <1>2, <2>1 DEF InsertAssign
  <2>3. a.table = t.assigned.table \cup {<<s, var>>}
    BY <1>2, <2>1, InsertedPairs DEF InsertOne
  <2>4. u.assigned.table = t.assigned.table \cup {<<s, var>>} /\ u.rhs = t.rhs \cup {<<s, rhs>>}
    BY <2>2, <2>3
  <2>5. KeysOf(u.assigned.table) = KeysOf(t.assigned.table) \cup {s} /\ KeysOf(u.rhs) = KeysOf(t.rhs) \cup {s}
    <3>1. PICK n, m : n = u.assigned.table /\ m = t.assigned.table
      OBVIOUS
    <3>2. PICK c, d : c = u.rhs /\ d = t.rhs
      OBVIOUS
    <3>3. KeysOf(m \cup {<<s, var>>}) = KeysOf(m) \cup {s} /\ KeysOf(d \cup {<<s, rhs>>}) = KeysOf(d) \cup {s}
      BY KeysOfMore, Zenon
    <3>4. n = m \cup {<<s, var>>} /\ c = d \cup {<<s, rhs>>}
      BY <2>4, <3>1, <3>2
    <3> QED
      BY <3>1, <3>2, <3>3, <3>4, Zenon
  <2> QED
    BY <2>4, <2>5
<1> QED
  BY <1>1, <1>2

LEMMA StatementIsInserted ==
  ASSUME IsParsed, NEW k, DOMAIN k = TableNames, NothingWrong(k), IsProper(k), NEW s \in Stmts, NEW l, l = ExtractStatement(k, s)
  PROVE  IsInserted(k, StmtNode(s), l) /\ IsProper(l) /\ l.stmt = k.stmt
<1>0. IsEnteredIn(k, s, l)
  BY StatementWritesEntities
<1>1. /\ l.entity = InsertStmtName(k.entity, s, ast[s].kind)
      /\ l.read = IF ast[s].kind = "read" THEN k.read \cup {<<s, ast[s].about[1]>>} ELSE k.read
      /\ l.print = IF ast[s].kind = "print" THEN k.print \cup {<<s, ast[s].about[1]>>} ELSE k.print
      /\ l.assign = IF ast[s].kind = "assign" THEN InsertAssign(k.assign, s, ast[s].about[1], ast[s].about[2]) ELSE k.assign
      /\ l.if = IF ast[s].kind = "if" THEN InsertContainer(k.if, s, VariablesIn(s)) ELSE k.if
      /\ l.while = IF ast[s].kind = "while" THEN InsertContainer(k.while, s, VariablesIn(s)) ELSE k.while
      /\ l.stmt = k.stmt /\ l.var = k.var /\ l.const = k.const
  BY <1>0 DEF IsEnteredIn
<1>2. ~(s <= 0)
  BY StmtsAreNumbered
<1>3. "" \notin VariablesIn(s)
  BY DEF IsParsed, VariablesIn
<1>4. \A f \in EntityTables : \A e \in EntriesIn(k, f) : \E c \in Stmts : e \in StmtEntries(c, f) \/ e \in LeafEntries(c, f)
  BY EntriesAre DEF NothingWrong
<1>5. l.entity.table = k.entity.table \cup {<<s, ast[s].kind>>}
  <2>1. k.entity.table \subseteq {<<c, ast[c].kind>> : c \in Stmts}
    <3>1. \A e \in k.entity.table : \E c \in Stmts : e \in StmtEntries(c, "entity")
      BY <1>4, TablesOfEntries, EntriesOfLeaves DEF EntityTables
    <3>2. \A e \in k.entity.table : \E c \in Stmts : e = <<c, ast[c].kind>>
      BY <3>1, EntriesOfStmt
    <3> QED
      BY <3>2
  <2> QED
    BY <1>1, <2>1, TypeIsInserted
<1>6. /\ l.assign.assigned.table = k.assign.assigned.table \cup StmtEntries(s, "assigned")
      /\ l.assign.rhs = k.assign.rhs \cup StmtEntries(s, "rhs")
      /\ KeysOf(l.assign.assigned.table) = KeysOf(l.assign.rhs)
  <2>1. CASE ast[s].kind = "assign"
    <3>1. \A e \in k.assign.assigned.table : \E c \in Stmts : e = <<c, ast[c].about[1]>>
      <4>1. \A e \in k.assign.assigned.table : \E c \in Stmts : e \in StmtEntries(c, "assigned")
        BY <1>4, TablesOfEntries, EntriesOfLeaves DEF EntityTables
      <4> QED
        BY <4>1, EntriesOfStmt
    <3>2. \A e \in k.assign.rhs : \E c \in Stmts : e = <<c, ast[c].about[2]>>
      <4>1. \A e \in k.assign.rhs : \E c \in Stmts : e \in StmtEntries(c, "rhs")
        BY <1>4, TablesOfEntries, EntriesOfLeaves DEF EntityTables
      <4> QED
        BY <4>1, EntriesOfStmt
    <3>3. \A e \in k.assign.assigned.table : e[1] = s => e = <<s, ast[s].about[1]>>
      BY <3>1
    <3>4. \A e \in k.assign.rhs : e[1] = s => e = <<s, ast[s].about[2]>>
      BY <3>2
    <3>5. KeysOf(k.assign.assigned.table) = KeysOf(k.assign.rhs)
      BY DEF IsProper
    <3>6. PICK t, u : t = k.assign /\ u = l.assign
      OBVIOUS
    <3>7. /\ u.assigned.table = t.assigned.table \cup {<<s, ast[s].about[1]>>} /\ u.rhs = t.rhs \cup {<<s, ast[s].about[2]>>}
          /\ KeysOf(u.assigned.table) = KeysOf(u.rhs)
      BY <1>1, <1>2, <2>1, <3>3, <3>4, <3>5, <3>6, AssignIsInserted
    <3> QED
      BY <2>1, <3>6, <3>7, EntriesOfStmt
  <2>2. CASE ast[s].kind # "assign"
    BY <1>1, <2>2, EntriesOfStmt DEF IsProper
  <2> QED
    BY <2>1, <2>2
<1>7. l.if.table = k.if.table \cup StmtEntries(s, "if") /\ "" \notin KeysOf(l.if.inverse)
  <2>1. CASE ast[s].kind = "if"
    <3>1. PICK t, u : t = k.if /\ u = l.if
      OBVIOUS
    <3>2. u = InsertContainer(t, s, VariablesIn(s)) /\ "" \notin KeysOf(t.inverse)
      BY <1>1, <2>1, <3>1 DEF IsProper
    <3>3. u.table = t.table \cup ({s} \X ConditionOf(s)) /\ "" \notin KeysOf(u.inverse)
      <4>1. PICK vars : vars = VariablesIn(s)
        OBVIOUS
      <4>2. ConditionOf(s) = IF vars = {} THEN {""} ELSE vars
        BY <4>1 DEF ConditionOf
      <4>3. u = InsertContainer(t, s, vars) /\ "" \notin vars
        BY <1>3, <3>2, <4>1
      <4>4. HasCondition(t, s, vars, u)
        BY <3>2, <4>3, ContainerIsInserted, Zenon
      <4> QED
        BY <4>2, <4>4, Zenon DEF HasCondition
    <3> QED
      BY <2>1, <3>1, <3>3, EntriesOfStmt
  <2>2. CASE ast[s].kind # "if"
    BY <1>1, <2>2, EntriesOfStmt DEF IsProper
  <2> QED
    BY <2>1, <2>2
<1>8. l.while.table = k.while.table \cup StmtEntries(s, "while") /\ "" \notin KeysOf(l.while.inverse)
  <2>1. CASE ast[s].kind = "while"
    <3>1. PICK t, u : t = k.while /\ u = l.while
      OBVIOUS
    <3>2. u = InsertContainer(t, s, VariablesIn(s)) /\ "" \notin KeysOf(t.inverse)
      BY <1>1, <2>1, <3>1 DEF IsProper
    <3>3. u.table = t.table \cup ({s} \X ConditionOf(s)) /\ "" \notin KeysOf(u.inverse)
      <4>1. PICK vars : vars = VariablesIn(s)
        OBVIOUS
      <4>2. ConditionOf(s) = IF vars = {} THEN {""} ELSE vars
        BY <4>1 DEF ConditionOf
      <4>3. u = InsertContainer(t, s, vars) /\ "" \notin vars
        BY <1>3, <3>2, <4>1
      <4>4. HasCondition(t, s, vars, u)
        BY <3>2, <4>3, ContainerIsInserted, Zenon
      <4> QED
        BY <4>2, <4>4, Zenon DEF HasCondition
    <3> QED
      BY <2>1, <3>1, <3>3, EntriesOfStmt
  <2>2. CASE ast[s].kind # "while"
    BY <1>1, <2>2, EntriesOfStmt DEF IsProper
  <2> QED
    BY <2>1, <2>2
<1>9. l.read = k.read \cup StmtEntries(s, "read") /\ l.print = k.print \cup StmtEntries(s, "print")
  BY <1>1, EntriesOfStmt
<1>10. l.var = k.var \cup StmtEntries(s, "var") /\ l.const = k.const \cup StmtEntries(s, "const")
  BY <1>1, EntriesOfStmt
<1>11. l.entity.table = k.entity.table \cup StmtEntries(s, "entity")
  BY <1>5, EntriesOfStmt
<1>12. \A f \in EntityTables : EntriesIn(l, f) = EntriesIn(k, f) \cup StmtEntries(s, f)
  <2> SUFFICES ASSUME NEW f \in EntityTables PROVE EntriesIn(l, f) = EntriesIn(k, f) \cup StmtEntries(s, f)
    OBVIOUS
  <2>1. \/ f = "entity" \/ f = "var" \/ f = "const" \/ f = "read" \/ f = "print"
        \/ f = "assigned" \/ f = "rhs" \/ f = "if" \/ f = "while"
    BY DEF EntityTables
  <2>2. CASE f = "entity"
    BY <1>11, <2>2, TablesOfEntries
  <2>3. CASE f = "var"
    BY <1>10, <2>3, TablesOfEntries
  <2>4. CASE f = "const"
    BY <1>10, <2>4, TablesOfEntries
  <2>5. CASE f = "read"
    BY <1>9, <2>5, TablesOfEntries
  <2>6. CASE f = "print"
    BY <1>9, <2>6, TablesOfEntries
  <2>7. CASE f = "assigned"
    BY <1>6, <2>7, TablesOfEntries
  <2>8. CASE f = "rhs"
    BY <1>6, <2>8, TablesOfEntries
  <2>9. CASE f = "if"
    BY <1>7, <2>9, TablesOfEntries
  <2>10. CASE f = "while"
    BY <1>8, <2>10, TablesOfEntries
  <2> QED
    BY <2>1, <2>2, <2>3, <2>4, <2>5, <2>6, <2>7, <2>8, <2>9, <2>10
<1> QED
  BY <1>1, <1>6, <1>7, <1>8, <1>12, EntriesOfNodes DEF IsInserted, IsProper

LEMMA LeavesAreInserted ==
  ASSUME NEW k, DOMAIN k = TableNames, IsProper(k), NEW s, NEW l, l = ExtractLeaves(k, s)
  PROVE  IsInserted(k, LeafNode(s), l) /\ IsProper(l) /\ l.stmt = k.stmt
<1>1. PICK v, c : v = k.var \cup NamesIn(s) \cup VariablesIn(s) /\ c = k.const \cup (LeavesIn(s) \cap Constants)
  OBVIOUS
<1>2. l = [k EXCEPT !.var = v, !.const = c]
  BY <1>1 DEF ExtractLeaves
<1>3. /\ l.var = v /\ l.const = c /\ l.stmt = k.stmt /\ l.entity = k.entity /\ l.read = k.read /\ l.print = k.print
      /\ l.assign = k.assign /\ l.if = k.if /\ l.while = k.while
  BY <1>2 DEF TableNames, NoTables
<1>4. l.var = k.var \cup LeafEntries(s, "var") /\ l.const = k.const \cup LeafEntries(s, "const")
  BY <1>1, <1>3, EntriesOfLeaves
<1>5. \A f \in EntityTables : EntriesIn(l, f) = EntriesIn(k, f) \cup LeafEntries(s, f)
  <2> SUFFICES ASSUME NEW f \in EntityTables PROVE EntriesIn(l, f) = EntriesIn(k, f) \cup LeafEntries(s, f)
    OBVIOUS
  <2>1. CASE f = "var" \/ f = "const"
    BY <1>4, <2>1, TablesOfEntries, Zenon
  <2>2. CASE f \notin {"var", "const"}
    <3>1. LeafEntries(s, f) = {}
      BY <2>2, EntriesOfLeaves
    <3>2. \/ f = "entity" \/ f = "read" \/ f = "print" \/ f = "assigned" \/ f = "rhs" \/ f = "if" \/ f = "while"
      BY <2>2 DEF EntityTables
    <3>3. EntriesIn(l, f) = EntriesIn(k, f)
      <4>1. CASE f = "entity"
        BY <1>3, <4>1, TablesOfEntries
      <4>2. CASE f = "read"
        BY <1>3, <4>2, TablesOfEntries
      <4>3. CASE f = "print"
        BY <1>3, <4>3, TablesOfEntries
      <4>4. CASE f = "assigned"
        BY <1>3, <4>4, TablesOfEntries
      <4>5. CASE f = "rhs"
        BY <1>3, <4>5, TablesOfEntries
      <4>6. CASE f = "if"
        BY <1>3, <4>6, TablesOfEntries
      <4>7. CASE f = "while"
        BY <1>3, <4>7, TablesOfEntries
      <4> QED
        BY <3>2, <4>1, <4>2, <4>3, <4>4, <4>5, <4>6, <4>7
    <3> QED
      BY <3>1, <3>3
  <2> QED
    BY <2>1, <2>2
<1> QED
  BY <1>3, <1>5, EntriesOfNodes DEF IsInserted, IsProper

\* Of the same tables the same is known.
LEMMA SameEntries ==
  ASSUME NEW k, NEW l, \A f \in EntityFields : l[f] = k[f]
  PROVE  (\A f \in EntityTables : EntriesIn(l, f) = EntriesIn(k, f)) /\ (IsProper(k) <=> IsProper(l)) /\ l.stmt = k.stmt
<1>1. /\ l.stmt = k.stmt /\ l.entity = k.entity /\ l.var = k.var /\ l.const = k.const /\ l.read = k.read /\ l.print = k.print
      /\ l.assign = k.assign /\ l.if = k.if /\ l.while = k.while
  BY DEF EntityFields
<1>2. \A f \in EntityTables : EntriesIn(l, f) = EntriesIn(k, f)
  BY <1>1, TablesOfEntries DEF EntityTables
<1> QED
  BY <1>1, <1>2 DEF IsProper

\* Procedures and lists have none.
LEMMA OtherNodesInsertNothing ==
  ASSUME NEW k, DOMAIN k = TableNames, NEW n, NEW list
  PROVE  /\ SameEntities(k, ExtractCallRelation(ExtractProcedure(k, n), n))
         /\ SameEntities(k, ExtractFollows(k, list))
<1>1. \A l, new : DOMAIN l = TableNames =>
        /\ SameEntities(l, [l EXCEPT !.proc = new]) /\ SameEntities(l, [l EXCEPT !.calls = new])
        /\ SameEntities(l, [l EXCEPT !.follows = new]) /\ SameEntities(l, [l EXCEPT !.followsT = new])
  BY OtherTablesKeepEntities, TablesWithoutEntities
<1>2. \A l, m : SameEntities(l, m) => DOMAIN m = TableNames
  BY DEF SameEntities
<1>3. SameEntities(k, ExtractCallRelation(ExtractProcedure(k, n), n))
  <2>1. PICK a : a = ExtractProcedure(k, n)
    OBVIOUS
  <2>2. PICK r : a = [k EXCEPT !.proc = r]
    BY <2>1 DEF ExtractProcedure
  <2>3. PICK c : ExtractCallRelation(a, n) = [a EXCEPT !.calls = c]
    BY DEF ExtractCallRelation
  <2>4. SameEntities(k, a)
    BY <1>1, <2>2
  <2>5. SameEntities(a, ExtractCallRelation(a, n))
    <3>1. SameEntities(a, [a EXCEPT !.calls = c])
      BY <1>1, <1>2, <2>4
    <3> QED
      BY <2>3, <3>1, Zenon
  <2> QED
    BY <2>1, <2>4, <2>5, SameEntitiesAgain
<1>4. SameEntities(k, ExtractFollows(k, list))
  <2>1. PICK f, g : ExtractFollows(k, list) = [k EXCEPT !.follows = f, !.followsT = g]
    BY DEF ExtractFollows
  <2>2. PICK m : m = [k EXCEPT !.follows = f]
    OBVIOUS
  <2>3. ExtractFollows(k, list) = [m EXCEPT !.followsT = g]
    BY <2>1, <2>2 DEF TableNames, NoTables
  <2>4. SameEntities(k, m)
    BY <1>1, <2>2
  <2>5. SameEntities(m, ExtractFollows(k, list))
    <3>1. SameEntities(m, [m EXCEPT !.followsT = g])
      BY <1>1, <1>2, <2>4
    <3> QED
      BY <2>3, <3>1, Zenon
  <2> QED
    BY <2>4, <2>5, SameEntitiesAgain
<1> QED
  BY <1>3, <1>4

\* What the tables hold of the entities after some nodes are taken.
IsEntered(k, node) == \A f \in EntityTables : EntriesAt(node, f) \subseteq EntriesIn(k, f)

Entering(k, q) ==
  /\ NothingWrong(k) /\ IsProper(k)
  /\ \A x \in TreeNodes : IsEntered(k, x) \/ x \in ToCome(ToSet(q), NodeEdges, TreeNodes)

\* All is entered of a node that has no entries, and the others come.
LEMMA EveryEntryComes ==
  ASSUME IsParsed, NEW k, NEW x \in TreeNodes
  PROVE  IsEntered(k, x) \/ x \in ToCome(Roots, NodeEdges, TreeNodes)
<1>1. NodeEdges \in SUBSET (TreeNodes \X TreeNodes)
  BY DEF NodeEdges
<1>2. CASE \E n \in DOMAIN pnames : x = ProcNode(n)
  BY <1>2, EntriesOfNodes DEF IsEntered
<1>3. CASE \E list \in Lists : x = ListNode(list)
  BY <1>3, EntriesOfNodes DEF IsEntered
<1>4. CASE \E s \in Stmts : x = StmtNode(s)
  BY <1>4, EveryStmtComes
<1>5. ASSUME NEW s \in Stmts, x = LeafNode(s), ast[s].kind # "call"
      PROVE  x \in ToCome(Roots, NodeEdges, TreeNodes)
  <2>1. StmtNode(s) \in ToCome(Roots, NodeEdges, TreeNodes) /\ StmtNode(s) \in TreeNodes
    BY EveryStmtComes DEF TreeNodes
  <2>2. PICK q : q = [i \in DOMAIN ListsBelow(ast, s) |-> [type |-> "list", list |-> ListsBelow(ast, s)[i]]]
    OBVIOUS
  <2>3. ChildrenOf(StmtNode(s)) = <<LeafNode(s)>> \o q
    BY <1>5, <2>2 DEF ChildrenOf, StmtNode, LeafNode
  <2>4. q \in Seq(TreeNodes)
    <3>1. PICK L : L = ListsBelow(ast, s)
      OBVIOUS
    <3>2. L \in Seq(Lists)
      BY <3>1, ListsBelowAreLists
    <3>3. \A i \in DOMAIN L : ListNode(L[i]) \in TreeNodes
      BY <3>2 DEF TreeNodes
    <3>4. DOMAIN q = DOMAIN L /\ \A i \in DOMAIN L : q[i] = ListNode(L[i])
      BY <2>2, <3>1 DEF ListNode
    <3>5. q \in [1..Len(L) -> TreeNodes] /\ Len(L) \in Nat
      BY <2>2, <3>1, <3>2, <3>3, <3>4
    <3> QED
      BY <3>5
  <2>5. LeafNode(s) \in TreeNodes
    BY DEF TreeNodes
  <2>6. LeafNode(s) \in ToSet(<<LeafNode(s)>> \o q)
    <3>1. PICK y, l : y = LeafNode(s) /\ l = <<y>>
      OBVIOUS
    <3>2. l \in Seq(TreeNodes) /\ y \in ToSet(l)
      BY <2>5, <3>1 DEF ToSet
    <3>3. ToSet(l \o q) = ToSet(l) \cup ToSet(q)
      BY <2>4, <3>2, ElementsOfConcat
    <3> QED
      BY <3>1, <3>2, <3>3
  <2>7. LeafNode(s) \in Successors(NodeEdges, StmtNode(s))
    BY <2>1, <2>3, <2>6, NodeEdgesAre
  <2> QED
    BY <1>1, <1>5, <2>1, <2>7, SearchReaches
<1>6. ASSUME NEW s \in Stmts, x = LeafNode(s), ast[s].kind = "call"
      PROVE  IsEntered(k, x)
  <2>1. NamesIn(s) = {} /\ ExpressionsOf(s) = {}
    BY <1>6 DEF NamesIn, ExpressionsOf
  <2>2. LeavesIn(s) = {} /\ VariablesIn(s) = {}
    BY <2>1 DEF LeavesIn, VariablesIn
  <2>3. \A f : LeafEntries(s, f) = {}
    BY <2>1, <2>2 DEF LeafEntries
  <2> QED
    BY <1>6, <2>3, EntriesOfNodes DEF IsEntered
<1> QED
  BY <1>2, <1>3, <1>4, <1>5, <1>6, NodeIs

\* Before the traversal.
NothingEntered(k) == (\A f \in EntityTables : EntriesIn(k, f) = {}) /\ IsProper(k)

LEMMA EnteringBegins ==
  ASSUME IsParsed, NEW k, NothingEntered(k), NEW q, q = [n \in DOMAIN pnames |-> [type |-> "procedure", list |-> Procedure(n)]]
  PROVE  Entering(k, q)
<1>1. ToSet(q) = Roots
  <2>1. DOMAIN q = DOMAIN pnames /\ \A n \in DOMAIN pnames : q[n] = ProcNode(n)
    BY DEF ProcNode
  <2> QED
    BY <2>1 DEF ToSet, Roots
<1>2. \A x \in TreeNodes : IsEntered(k, x) \/ x \in ToCome(ToSet(q), NodeEdges, TreeNodes)
  BY <1>1, EveryEntryComes
<1> QED
  BY <1>2 DEF Entering, NothingEntered, NothingWrong

\* A node is taken, and what is at it is inserted.
LEMMA EntriesAreTaken ==
  ASSUME IsParsed, nodes \in Seq(TreeNodes), Entering(pkb, nodes), NEW type, TakeNode(type),
         IsInserted(pkb, Head(nodes), pkb'), IsProper(pkb')
  PROVE  Entering(pkb', nodes')
<1>1. /\ Head(nodes) \in TreeNodes
      /\ \A x \in ToCome(ToSet(nodes), NodeEdges, TreeNodes) :
           x # Head(nodes) => x \in ToCome(ToSet(nodes'), NodeEdges, TreeNodes)
  BY NodeIsTaken
<1>2. PICK l, node, q : l = pkb' /\ node = Head(nodes) /\ q = nodes'
  OBVIOUS
<1>3. \A f \in EntityTables : EntriesIn(l, f) = EntriesIn(pkb, f) \cup EntriesAt(node, f)
  BY <1>2 DEF IsInserted
<1>4. NothingWrong(l)
  <2>1. \A f : EntriesAt(node, f) \subseteq AllEntries(f)
    BY <1>1, <1>2 DEF AllEntries
  <2> QED
    BY <1>3, <2>1 DEF NothingWrong, Entering
<1>5. ASSUME NEW x \in TreeNodes
      PROVE  IsEntered(l, x) \/ x \in ToCome(ToSet(q), NodeEdges, TreeNodes)
  <2>1. CASE x = node
    BY <1>3, <2>1 DEF IsEntered
  <2>2. CASE x # node /\ IsEntered(pkb, x)
    BY <1>3, <2>2 DEF IsEntered
  <2>3. CASE x # node /\ x \in ToCome(ToSet(nodes), NodeEdges, TreeNodes)
    BY <1>1, <1>2, <2>3
  <2> QED
    BY <2>1, <2>2, <2>3 DEF Entering
<1>6. Entering(l, q)
  BY <1>2, <1>4, <1>5 DEF Entering
<1> QED
  BY <1>2, <1>6

LEMMA TakingEnters ==
  ASSUME IsParsed, DOMAIN pkb = TableNames, nodes \in Seq(TreeNodes), Entering(pkb, nodes),
         TakeProcedure \/ TakeStatementList \/ TakeStatement \/ TakeLeaves
  PROVE  Entering(pkb', nodes') /\ pkb'.stmt = pkb.stmt
<1>0. NothingWrong(pkb) /\ IsProper(pkb)
  BY DEF Entering
<1>1. \A type : TakeNode(type) => Head(nodes) \in TreeNodes /\ Head(nodes).type = type
  BY NodeIsTaken
<1>2. CASE TakeStatement
  <2>1. TakeNode("statement") /\ pkb' = ExtractStatement(pkb, Head(nodes).stmt)
    BY <1>2 DEF TakeStatement
  <2>2. PICK s \in Stmts : Head(nodes) = StmtNode(s)
    BY <1>1, <2>1, NodeIs
  <2>3. PICK l : l = ExtractStatement(pkb, s)
    OBVIOUS
  <2>4. l = pkb'
    BY <2>1, <2>2, <2>3 DEF StmtNode
  <2>5. IsInserted(pkb, StmtNode(s), l) /\ IsProper(l) /\ l.stmt = pkb.stmt
    BY <1>0, <2>3, StatementIsInserted
  <2> QED
    BY <2>1, <2>2, <2>4, <2>5, EntriesAreTaken
<1>3. CASE TakeLeaves
  <2>1. TakeNode("leaves") /\ pkb' = ExtractLeaves(pkb, Head(nodes).stmt)
    BY <1>3 DEF TakeLeaves
  <2>2. PICK s \in Stmts : Head(nodes) = LeafNode(s)
    BY <1>1, <2>1, NodeIs
  <2>3. PICK l : l = ExtractLeaves(pkb, s)
    OBVIOUS
  <2>4. l = pkb'
    BY <2>1, <2>2, <2>3 DEF LeafNode
  <2>5. IsInserted(pkb, LeafNode(s), l) /\ IsProper(l) /\ l.stmt = pkb.stmt
    BY <1>0, <2>3, LeavesAreInserted
  <2> QED
    BY <2>1, <2>2, <2>4, <2>5, EntriesAreTaken
<1>4. CASE TakeProcedure \/ TakeStatementList
  <2>1. /\ TakeNode("procedure") \/ TakeNode("list")
        /\ SameEntities(pkb, pkb')
    BY <1>4, OtherNodesInsertNothing DEF TakeProcedure, TakeStatementList
  <2>2. \A f : EntriesAt(Head(nodes), f) = {}
    BY <1>1, <2>1 DEF EntriesAt
  <2>3. PICK l : l = pkb'
    OBVIOUS
  <2>4. (\A f \in EntityTables : EntriesIn(l, f) = EntriesIn(pkb, f)) /\ IsProper(l) /\ l.stmt = pkb.stmt
    BY <1>0, <2>1, <2>3, SameEntries DEF SameEntities
  <2>5. IsInserted(pkb, Head(nodes), l)
    BY <2>2, <2>4 DEF IsInserted
  <2> QED
    BY <2>1, <2>3, <2>4, <2>5, EntriesAreTaken
<1> QED
  BY <1>2, <1>3, <1>4

\* When the queue is empty.
AllEntered(k) == (\A f \in EntityTables : EntriesIn(k, f) = AllEntries(f)) /\ IsProper(k)

LEMMA EnteringIsDone ==
  ASSUME NEW k, Entering(k, <<>>)
  PROVE  AllEntered(k)
<1>1. ToCome(ToSet(<<>>), NodeEdges, TreeNodes) = {}
  BY DEF ToCome, ToSet
<1>2. \A x \in TreeNodes : IsEntered(k, x)
  BY <1>1 DEF Entering
<1>3. \A f \in EntityTables : AllEntries(f) \subseteq EntriesIn(k, f)
  BY <1>2 DEF IsEntered, AllEntries
<1> QED
  BY <1>3 DEF Entering, NothingWrong, AllEntered

(***************************************************************************)
(* The entities, stage by stage.                                           *)
(***************************************************************************)
BeforeStmts == Reading \cup {"StatementHandler"}
AfterStmts == {"ParentHandler", "ModifiesHandler", "CFGHandler", "connecting", "NextHandler", "BreadthFirstTraversal",
               "CallHandler", "UsesP", "ModifiesP", "extracted"}
AfterTraversal == {"CallHandler", "UsesP", "ModifiesP", "extracted"}

EntitiesProgress(st, k, q) ==
  /\ st \in BeforeStmts => k.stmt = {}
  /\ st \in AfterStmts => k.stmt = Stmts
  /\ st \in BeforeModifies \cup BeforeTraversal => NothingEntered(k)
  /\ st = "BreadthFirstTraversal" => Entering(k, q)
  /\ st \in AfterTraversal => AllEntered(k)

EntitiesInv == EffectsInv /\ EntitiesProgress(stage, pkb, nodes)

EntitiesProceed == EntitiesProgress(stage', pkb', nodes')

\* Where the stages stand.
LEMMA EntityStages ==
  /\ \A st \in BeforeStmts : st \notin AfterStmts /\ st \notin AfterTraversal /\ st \notin BeforeTraversal
                             /\ st # "BreadthFirstTraversal" /\ st \in BeforeModifies
  /\ \A st \in BeforeModifies \cup BeforeTraversal : st \notin AfterTraversal /\ st # "BreadthFirstTraversal"
  /\ \A st \in AfterTraversal : st \in AfterStmts /\ st # "BreadthFirstTraversal" /\ st \notin BeforeModifies \cup BeforeTraversal
  /\ \A st \in BeforeTraversal : st \in AfterStmts
  /\ "thrown" \notin BeforeStmts \cup AfterStmts \cup AfterTraversal \cup BeforeModifies \cup BeforeTraversal
  /\ \A st \in AfterStmts : st \notin BeforeStmts
BY DEF BeforeStmts, AfterStmts, AfterTraversal, BeforeModifies, BeforeTraversal, BeforeParents, Reading

\* Of the same tables the same is known.
LEMMA SameEntitiesMeanTheSame ==
  ASSUME NEW k, NEW l, \A f \in EntityFields : l[f] = k[f]
  PROVE  /\ l.stmt = k.stmt
         /\ NothingEntered(k) => NothingEntered(l)
         /\ AllEntered(k) => AllEntered(l)
BY SameEntries DEF NothingEntered, AllEntered

\* The handlers that have nothing to do with entities.
LEMMA OtherHandlersKeepEntities ==
  ASSUME DOMAIN pkb = TableNames,
         \/ ExtractParentAndParentT \/ ExtractModifiesWithoutCalls \/ BeginCFG \/ ConnectCFG \/ EndCFG \/ ExtractNext
         \/ ThrowOutOfRange \/ EndTraversal \/ ExtractCallT \/ PropagateUses \/ PropagateModifies \/ EndPropagation
  PROVE  \A f \in EntityFields : pkb'[f] = pkb[f]
<1>1. CASE ExtractParentAndParentT
  <2>1. PICK new, more : pkb' = [pkb EXCEPT !.parent = new, !.parentT = more]
    BY <1>1 DEF ExtractParentAndParentT
  <2> QED
    BY <2>1 DEF EntityFields, TableNames, NoTables
<1>2. CASE ExtractModifiesWithoutCalls
  <2>1. PICK new : pkb' = [pkb EXCEPT !.modifies = new]
    BY <1>2 DEF ExtractModifiesWithoutCalls
  <2> QED
    BY <2>1 DEF EntityFields, TableNames, NoTables
<1>3. CASE BeginCFG \/ ConnectCFG \/ EndCFG \/ ThrowOutOfRange \/ EndTraversal \/ EndPropagation
  BY <1>3 DEF BeginCFG, ConnectCFG, EndCFG, ThrowOutOfRange, EndTraversal, EndPropagation, Terminate, extractVars
<1>4. CASE ExtractNext
  <2>1. PICK new, more : pkb' = [pkb EXCEPT !.next = new, !.nextT = more]
    BY <1>4 DEF ExtractNext
  <2> QED
    BY <2>1 DEF EntityFields, TableNames, NoTables
<1>5. CASE ExtractCallT
  <2>1. PICK new : pkb' = [pkb EXCEPT !.callsT = new]
    BY <1>5 DEF ExtractCallT
  <2> QED
    BY <2>1 DEF EntityFields, TableNames, NoTables
<1>6. CASE PropagateUses
  <2>1. PICK new, more : pkb' = [pkb EXCEPT !.usesP = new, !.uses = more]
    BY <1>6 DEF PropagateUses
  <2> QED
    BY <2>1 DEF EntityFields, TableNames, NoTables
<1>7. CASE PropagateModifies
  <2>1. PICK new, more : pkb' = [pkb EXCEPT !.modifiesP = new, !.modifies = more]
    BY <1>7 DEF PropagateModifies
  <2> QED
    BY <2>1 DEF EntityFields, TableNames, NoTables
<1> QED
  BY <1>1, <1>2, <1>3, <1>4, <1>5, <1>6, <1>7

\* The first handler writes the statements.
LEMMA StmtsProceed ==
  ASSUME EntitiesInv, ExtractStmtNums
  PROVE  EntitiesProceed
<1>1. stage = "StatementHandler" /\ stage' = "ParentHandler" /\ DOMAIN pkb = TableNames
  BY NextStage DEF ExtractStmtNums, During, EntitiesInv, EffectsInv, RelationsInv, IInv, Agreeing
<1>2. pkb.stmt = {} /\ NothingEntered(pkb)
  BY <1>1, EntityStages, EffectStages DEF EntitiesInv, EntitiesProgress, BeforeStmts
<1>3. pkb' = [pkb EXCEPT !.stmt = Stmts]
  BY <1>2 DEF ExtractStmtNums, Stmts
<1>4. PICK l : l = pkb'
  OBVIOUS
<1>5. l.stmt = Stmts /\ l.entity = pkb.entity /\ l.var = pkb.var /\ l.const = pkb.const /\ l.read = pkb.read /\ l.print = pkb.print
      /\ l.assign = pkb.assign /\ l.if = pkb.if /\ l.while = pkb.while
  BY <1>1, <1>3, <1>4 DEF TableNames, NoTables
<1>6. \A f \in EntityTables : EntriesIn(l, f) = EntriesIn(pkb, f)
  BY <1>5, TablesOfEntries DEF EntityTables
<1>7. NothingEntered(l)
  BY <1>2, <1>5, <1>6 DEF NothingEntered, IsProper
<1> QED
  BY <1>1, <1>4, <1>5, <1>7 DEF EntitiesProceed, EntitiesProgress, BeforeStmts, AfterStmts, AfterTraversal, Reading

\* Up to the traversal.
LEMMA BeforeTraversalEntitiesProceed ==
  ASSUME EntitiesInv, ExtractParentAndParentT \/ ExtractModifiesWithoutCalls \/ BeginCFG \/ ConnectCFG \/ EndCFG
  PROVE  EntitiesProceed
<1>1. DOMAIN pkb = TableNames
  BY DEF EntitiesInv, EffectsInv, RelationsInv, IInv, Agreeing
<1>2. /\ pkb'.stmt = pkb.stmt
      /\ NothingEntered(pkb) => NothingEntered(pkb')
  BY <1>1, OtherHandlersKeepEntities, SameEntitiesMeanTheSame
<1>3. \/ stage = "ParentHandler" /\ stage' = "ModifiesHandler"
      \/ stage = "ModifiesHandler" /\ stage' = "CFGHandler"
      \/ stage \in BeforeTraversal /\ stage' \in BeforeTraversal
      \/ stage' = "thrown"
  BY NextStage, EffectStages
  DEF ExtractParentAndParentT, ExtractModifiesWithoutCalls, BeginCFG, ConnectCFG, EndCFG, During, Terminate
<1>4. ASSUME stage' # "thrown"
      PROVE  /\ stage \in BeforeModifies \cup BeforeTraversal /\ stage' \in BeforeModifies \cup BeforeTraversal
             /\ stage \in AfterStmts /\ stage' \in AfterStmts
  BY <1>3, <1>4, EffectStages, EntityStages DEF AfterStmts
<1>5. ASSUME stage' # "thrown"
      PROVE  pkb'.stmt = Stmts /\ NothingEntered(pkb')
  BY <1>2, <1>4, <1>5 DEF EntitiesInv, EntitiesProgress
<1> QED
  BY <1>4, <1>5, EntityStages DEF EntitiesProceed, EntitiesProgress

LEMMA TraversalBeginsEntities ==
  ASSUME EntitiesInv, ExtractNext
  PROVE  EntitiesProceed
<1>1. DOMAIN pkb = TableNames /\ IsParsed
  BY DEF EntitiesInv, EffectsInv, RelationsInv, IInv, Agreeing, ExtractNext, During, Reading
<1>2. /\ stage = "NextHandler" /\ stage' = "BreadthFirstTraversal"
      /\ nodes' = [n \in DOMAIN pnames |-> [type |-> "procedure", list |-> Procedure(n)]]
  BY NextStage DEF ExtractNext, During
<1>3. pkb.stmt = Stmts /\ NothingEntered(pkb)
  BY <1>2, EntityStages, EffectStages DEF EntitiesInv, EntitiesProgress, AfterStmts
<1>4. pkb'.stmt = Stmts /\ NothingEntered(pkb')
  BY <1>1, <1>3, OtherHandlersKeepEntities, SameEntitiesMeanTheSame
<1>5. Entering(pkb', nodes')
  BY <1>1, <1>2, <1>4, EnteringBegins
<1> QED
  BY <1>2, <1>4, <1>5, EntityStages DEF EntitiesProceed, EntitiesProgress

LEMMA TraversalEnters ==
  ASSUME EntitiesInv, TakeProcedure \/ TakeStatementList \/ TakeStatement \/ TakeLeaves \/ ThrowOutOfRange \/ EndTraversal
  PROVE  EntitiesProceed
<1>1. IsParsed /\ stage = "BreadthFirstTraversal" /\ DOMAIN pkb = TableNames
  BY DEF EntitiesInv, EffectsInv, RelationsInv, IInv, Agreeing, TakeProcedure, TakeStatementList, TakeStatement, TakeLeaves, TakeNode,
         ThrowOutOfRange, EndTraversal, During, Reading
<1>2. nodes \in Seq(TreeNodes)
  BY <1>1 DEF EntitiesInv, EffectsInv, RelationsInv, Progress, Traversing
<1>3. pkb.stmt = Stmts /\ Entering(pkb, nodes)
  BY <1>1 DEF EntitiesInv, EntitiesProgress, AfterStmts
<1>4. CASE TakeProcedure \/ TakeStatementList \/ TakeStatement \/ TakeLeaves
  <2>1. stage' = "BreadthFirstTraversal"
    BY <1>1, <1>4 DEF TakeProcedure, TakeStatementList, TakeStatement, TakeLeaves, TakeNode
  <2>2. Entering(pkb', nodes') /\ pkb'.stmt = Stmts
    BY <1>1, <1>2, <1>3, <1>4, TakingEnters
  <2> QED
    BY <2>1, <2>2, EntityStages DEF EntitiesProceed, EntitiesProgress
<1>5. CASE ThrowOutOfRange
  BY <1>5, EntityStages DEF ThrowOutOfRange, Terminate, EntitiesProceed, EntitiesProgress
<1>6. CASE EndTraversal
  <2>1. stage' = "CallHandler" /\ nodes = <<>> /\ pkb' = pkb
    BY <1>6, NextStage DEF EndTraversal
  <2>2. AllEntered(pkb)
    BY <1>3, <2>1, EnteringIsDone
  <2>3. stage' \in AfterTraversal
    BY <2>1 DEF AfterTraversal
  <2> QED
    BY <1>3, <2>1, <2>2, <2>3, EntityStages DEF EntitiesProceed, EntitiesProgress
<1> QED
  BY <1>4, <1>5, <1>6

\* After it.
LEMMA AfterTraversalEntitiesProceed ==
  ASSUME EntitiesInv, ExtractCallT \/ PropagateUses \/ PropagateModifies \/ EndPropagation
  PROVE  EntitiesProceed
<1>1. DOMAIN pkb = TableNames
  BY DEF EntitiesInv, EffectsInv, RelationsInv, IInv, Agreeing
<1>2. /\ pkb'.stmt = pkb.stmt
      /\ AllEntered(pkb) => AllEntered(pkb')
  BY <1>1, OtherHandlersKeepEntities, SameEntitiesMeanTheSame
<1>3. stage \in AfterTraversal /\ stage' \in AfterTraversal
  BY NextStage DEF ExtractCallT, PropagateUses, PropagateModifies, EndPropagation, During, AfterTraversal
<1>4. pkb'.stmt = Stmts /\ AllEntered(pkb')
  BY <1>2, <1>3, EntityStages DEF EntitiesInv, EntitiesProgress
<1> QED
  BY <1>3, <1>4, EntityStages DEF EntitiesProceed, EntitiesProgress

LEMMA NoTablesNoEntities == NoTables.stmt = {} /\ NothingEntered(NoTables)
<1>1. PICK k : k = NoTables
  OBVIOUS
<1>2. /\ k.stmt = {} /\ k.entity.table = {} /\ k.var = {} /\ k.const = {} /\ k.read = {} /\ k.print = {}
      /\ k.assign.assigned.table = {} /\ k.assign.rhs = {} /\ k.if.table = {} /\ k.while.table = {}
      /\ k.if.inverse = {} /\ k.while.inverse = {}
  BY <1>1 DEF NoTables, NoPairs
<1>3. \A f \in EntityTables : EntriesIn(k, f) = {}
  BY <1>2, TablesOfEntries DEF EntityTables
<1>4. IsProper(k)
  BY <1>2 DEF IsProper, KeysOf
<1> QED
  BY <1>1, <1>2, <1>3, <1>4 DEF NothingEntered

LEMMA ReadingLeavesNoEntities ==
  ASSUME EntitiesInv, ReadProgram \/ (stage = "parsed" /\ ExtractDesigns)
  PROVE  EntitiesProceed
<1>1. stage' \in BeforeStmts /\ pkb'.stmt = {} /\ NothingEntered(pkb')
  <2>1. CASE ReadProgram
    BY <2>1, NoTablesNoEntities DEF ReadProgram, BeforeStmts
  <2>2. CASE stage = "parsed" /\ ExtractDesigns
    <3>1. stage' = "StatementHandler" /\ pkb' = pkb /\ stage \in BeforeStmts
      BY <2>2, NextStage DEF ExtractDesigns, BeforeStmts, Reading
    <3> QED
      BY <3>1, EntityStages DEF EntitiesInv, EntitiesProgress, BeforeStmts
  <2> QED
    BY <2>1, <2>2
<1> QED
  BY <1>1, EntityStages DEF EntitiesProceed, EntitiesProgress

LEMMA HandlersEnter ==
  ASSUME EntitiesInv, ExtractNextStep
  PROVE  EntitiesProceed
BY StmtsProceed, BeforeTraversalEntitiesProceed, TraversalBeginsEntities, TraversalEnters, AfterTraversalEntitiesProceed
DEF ExtractNextStep

\* What is entered of a tree is the tree's.
LEMMA SameTreeSameEntities ==
  ASSUME ast' = ast, pnames' = pnames, EntitiesProceed
  PROVE  EntitiesProgress(stage, pkb, nodes)'
<1>1. Stmts' = Stmts /\ TreeNodes' = TreeNodes /\ NodeEdges' = NodeEdges
  BY SameTreeSameNodes
<1>2. \A s : NamesIn(s)' = NamesIn(s) /\ LeavesIn(s)' = LeavesIn(s)
  BY DEF NamesIn, LeavesIn, ExpressionsOf
<1>3. \A s : VariablesIn(s)' = VariablesIn(s) /\ ConditionOf(s)' = ConditionOf(s)
  BY <1>2 DEF VariablesIn, ConditionOf
<1>4. \A s, f : StmtEntries(s, f)' = StmtEntries(s, f)
  BY <1>3 DEF StmtEntries
<1>5. \A s, f : LeafEntries(s, f)' = LeafEntries(s, f)
  BY <1>2, <1>3 DEF LeafEntries
<1>6. \A x, f : EntriesAt(x, f)' = EntriesAt(x, f)
  BY <1>4, <1>5 DEF EntriesAt
<1>7. \A f : AllEntries(f)' = AllEntries(f)
  BY <1>1, <1>6 DEF AllEntries
<1>8. \A f : EntriesIn(pkb', f) = EntriesIn(pkb, f)'
  BY DEF EntriesIn
<1>9. IsProper(pkb') <=> IsProper(pkb)'
  BY DEF IsProper
<1>10. NothingEntered(pkb') => NothingEntered(pkb)'
  BY <1>8, <1>9 DEF NothingEntered
<1>11. AllEntered(pkb') => AllEntered(pkb)'
  BY <1>7, <1>8, <1>9 DEF AllEntered
<1>12. Entering(pkb', nodes') => Entering(pkb, nodes)'
  <2>1. NothingWrong(pkb') => NothingWrong(pkb)'
    BY <1>7, <1>8 DEF NothingWrong
  <2>2. \A x : IsEntered(pkb', x) => IsEntered(pkb, x)'
    BY <1>6, <1>8 DEF IsEntered
  <2> QED
    BY <1>1, <1>9, <2>1, <2>2 DEF Entering
<1>13. EntitiesProgress(stage', pkb', nodes')
  BY DEF EntitiesProceed
<1> QED
  BY <1>1, <1>10, <1>11, <1>12, <1>13
  DEF EntitiesProgress, BeforeStmts, AfterStmts, AfterTraversal, BeforeModifies, BeforeTraversal, BeforeParents, Reading

\* Before a tree there is nothing to know.
LEMMA ReadingEntersNothing ==
  ASSUME stage' \in Reading, EntitiesProceed
  PROVE  EntitiesProgress(stage, pkb, nodes)'
<1>1. stage' \in BeforeStmts
  BY DEF BeforeStmts
<1>2. pkb'.stmt = {} /\ NothingEntered(pkb')
  BY <1>1, EntityStages DEF EntitiesProceed, EntitiesProgress
<1>3. stage' \notin {"ParentHandler", "ModifiesHandler", "CFGHandler", "connecting", "NextHandler", "BreadthFirstTraversal",
                     "CallHandler", "UsesP", "ModifiesP", "extracted"}
  BY DEF Reading
<1>4. NothingEntered(pkb)'
  BY <1>2 DEF NothingEntered, IsProper, EntriesIn
<1> QED
  BY <1>2, <1>3, <1>4 DEF EntitiesProgress, AfterStmts, AfterTraversal

LEMMA EntitiesHold == ExtractSpec => []EntitiesInv
<1>1. ExtractInit /\ stage = "lexing" /\ EffectsInv => EntitiesInv
  <2> SUFFICES ASSUME ExtractInit, stage = "lexing" PROVE EntitiesProgress(stage, pkb, nodes)
    BY DEF EntitiesInv
  <2>1. pkb = NoTables /\ stage \in BeforeStmts
    BY DEF ExtractInit, BeforeStmts, Reading
  <2> QED
    BY <2>1, NoTablesNoEntities, EntityStages DEF EntitiesProgress
<1>2. EntitiesInv /\ EffectsInv' /\ [ExtractNextStep \/ (stage = "parsed" /\ ExtractDesigns /\ UNCHANGED <<ast, pnames>>) \/ ReadProgram]_<<stage, ast, pnames, extractVars, cfgVars>>
      => EntitiesInv'
  <2> SUFFICES ASSUME EntitiesInv, EffectsInv',
                      \/ ExtractNextStep
                      \/ stage = "parsed" /\ ExtractDesigns /\ UNCHANGED <<ast, pnames>>
                      \/ ReadProgram
                      \/ UNCHANGED <<stage, ast, pnames, extractVars, cfgVars>>
               PROVE  EntitiesInv'
    OBVIOUS
  <2>1. CASE ExtractNextStep \/ (stage = "parsed" /\ ExtractDesigns /\ UNCHANGED <<ast, pnames>>)
    <3>1. EntitiesProceed
      BY <2>1, HandlersEnter, ReadingLeavesNoEntities
    <3>2. ast' = ast /\ pnames' = pnames
      BY <2>1, HandlersKeepTree
    <3> QED
      BY <3>1, <3>2, SameTreeSameEntities DEF EntitiesInv
  <2>2. CASE ReadProgram
    <3>1. EntitiesProceed /\ stage' \in Reading
      BY <2>2, ReadingLeavesNoEntities DEF ReadProgram
    <3> QED
      BY <3>1, ReadingEntersNothing DEF EntitiesInv
  <2>3. CASE UNCHANGED <<stage, ast, pnames, extractVars, cfgVars>>
    <3>1. stage' = stage /\ pkb' = pkb /\ nodes' = nodes /\ ast' = ast /\ pnames' = pnames
      BY <2>3 DEF extractVars
    <3>2. EntitiesProceed
      BY <3>1 DEF EntitiesInv, EntitiesProceed
    <3> QED
      BY <3>1, <3>2, SameTreeSameEntities DEF EntitiesInv
  <2> QED
    BY <2>1, <2>2, <2>3
<1> QED
  BY <1>1, <1>2, EffectsHold, PTL DEF ExtractSpec

\* The entries of all nodes are those of all statements.
LEMMA EntriesOfAll ==
  /\ AllEntries("entity") = {<<s, ast[s].kind>> : s \in Stmts}
  /\ AllEntries("var") = UNION {NamesIn(s) \cup VariablesIn(s) : s \in Stmts}
  /\ AllEntries("const") = UNION {LeavesIn(s) \cap Constants : s \in Stmts}
  /\ AllEntries("read") = Naming("read") /\ AllEntries("print") = Naming("print") /\ AllEntries("assigned") = Naming("assign")
  /\ AllEntries("rhs") = {<<s, ast[s].about[2]>> : s \in OfKind("assign")}
  /\ AllEntries("if") = UNION {{s} \X ConditionOf(s) : s \in OfKind("if")}
  /\ AllEntries("while") = UNION {{s} \X ConditionOf(s) : s \in OfKind("while")}
<1>1. \A f, e : e \in AllEntries(f) <=> \E s \in Stmts : e \in StmtEntries(s, f) \/ e \in LeafEntries(s, f)
  BY EntriesAre
<1>2. \A f \in EntityTables \ {"var", "const"} : \A e : e \in AllEntries(f) <=> \E s \in Stmts : e \in StmtEntries(s, f)
  BY <1>1, EntriesOfLeaves
<1>3. \A f \in {"var", "const"} : \A e : e \in AllEntries(f) <=> \E s \in Stmts : e \in LeafEntries(s, f)
  BY <1>1, EntriesOfStmt
<1>4. AllEntries("entity") = {<<s, ast[s].kind>> : s \in Stmts}
  <2>1. \A e : e \in AllEntries("entity") <=> \E s \in Stmts : e \in StmtEntries(s, "entity")
    BY <1>2 DEF EntityTables
  <2> QED
    BY <2>1, EntriesOfStmt
<1>5. AllEntries("var") = UNION {NamesIn(s) \cup VariablesIn(s) : s \in Stmts}
  BY <1>3, EntriesOfLeaves
<1>6. AllEntries("const") = UNION {LeavesIn(s) \cap Constants : s \in Stmts}
  BY <1>3, EntriesOfLeaves
<1>7. AllEntries("read") = Naming("read")
  <2>1. \A e : e \in AllEntries("read") <=> \E s \in Stmts : e \in StmtEntries(s, "read")
    BY <1>2 DEF EntityTables
  <2>2. \A s, e : e \in StmtEntries(s, "read") <=> ast[s].kind = "read" /\ e = <<s, ast[s].about[1]>>
    BY EntriesOfStmt
  <2> QED
    BY <2>1, <2>2 DEF Naming, OfKind
<1>8. AllEntries("print") = Naming("print")
  <2>1. \A e : e \in AllEntries("print") <=> \E s \in Stmts : e \in StmtEntries(s, "print")
    BY <1>2 DEF EntityTables
  <2>2. \A s, e : e \in StmtEntries(s, "print") <=> ast[s].kind = "print" /\ e = <<s, ast[s].about[1]>>
    BY EntriesOfStmt
  <2> QED
    BY <2>1, <2>2 DEF Naming, OfKind
<1>9. AllEntries("assigned") = Naming("assign")
  <2>1. \A e : e \in AllEntries("assigned") <=> \E s \in Stmts : e \in StmtEntries(s, "assigned")
    BY <1>2 DEF EntityTables
  <2>2. \A s, e : e \in StmtEntries(s, "assigned") <=> ast[s].kind = "assign" /\ e = <<s, ast[s].about[1]>>
    BY EntriesOfStmt
  <2> QED
    BY <2>1, <2>2 DEF Naming, OfKind
<1>10. AllEntries("rhs") = {<<s, ast[s].about[2]>> : s \in OfKind("assign")}
  <2>1. \A e : e \in AllEntries("rhs") <=> \E s \in Stmts : e \in StmtEntries(s, "rhs")
    BY <1>2 DEF EntityTables
  <2>2. \A s, e : e \in StmtEntries(s, "rhs") <=> ast[s].kind = "assign" /\ e = <<s, ast[s].about[2]>>
    BY EntriesOfStmt
  <2> QED
    BY <2>1, <2>2 DEF OfKind
<1>11. AllEntries("if") = UNION {{s} \X ConditionOf(s) : s \in OfKind("if")}
  <2>1. \A e : e \in AllEntries("if") <=> \E s \in Stmts : e \in StmtEntries(s, "if")
    BY <1>2 DEF EntityTables
  <2>2. \A s, e : e \in StmtEntries(s, "if") <=> ast[s].kind = "if" /\ e \in {s} \X ConditionOf(s)
    BY EntriesOfStmt
  <2> QED
    BY <2>1, <2>2 DEF OfKind
<1>12. AllEntries("while") = UNION {{s} \X ConditionOf(s) : s \in OfKind("while")}
  <2>1. \A e : e \in AllEntries("while") <=> \E s \in Stmts : e \in StmtEntries(s, "while")
    BY <1>2 DEF EntityTables
  <2>2. \A s, e : e \in StmtEntries(s, "while") <=> ast[s].kind = "while" /\ e \in {s} \X ConditionOf(s)
    BY EntriesOfStmt
  <2> QED
    BY <2>1, <2>2 DEF OfKind
<1> QED
  BY <1>4, <1>5, <1>6, <1>7, <1>8, <1>9, <1>10, <1>11, <1>12

\* A statement is in the range of its procedure only.
LEMMA RangesApart ==
  ASSUME IsParsed, NEW s \in Stmts, NEW p \in ProcEntries
  PROVE  s \in p.first..p.last <=> p.name = ProcOf(s)
<1>1. PICK n \in DOMAIN pnames : p = ProcEntry(n)
  BY DEF ProcEntries
<1>2. p.name = pnames[n] /\ p.first = Min0(InProc(n)) /\ p.last = Max0(InProc(n))
  BY <1>1 DEF ProcEntry
<1>3. p.first..p.last = StmtsOf(pnames[n])
  <2>1. InProc(n) = StmtsOf(pnames[n]) /\ InProc(n) = Min0(InProc(n))..Max0(InProc(n))
    BY ProcsAreOneAfterAnother
  <2> QED
    BY <1>2, <2>1
<1> QED
  BY <1>2, <1>3 DEF StmtsOf

\* A pair of a statement and a name of its condition.
LEMMA ConditionPairs ==
  ASSUME NEW s, NEW e, e \in {s} \X ConditionOf(s)
  PROVE  \E c \in ConditionOf(s) : e = <<s, c>>
<1>1. PICK C : C = ConditionOf(s)
  OBVIOUS
<1>2. e \in {s} \X C
  BY <1>1, Zenon
<1>3. \E c \in C : e = <<s, c>>
  BY <1>2
<1> QED
  BY <1>1, <1>3, Zenon

\* What a statement itself reads or writes is among its effects.
LEMMA OwnIsKnown ==
  ASSUME NEW own, NEW done, NEW s \in Stmts, NEW v \in own[s]
  PROVE  <<s, v>> \in KnownPairs(own, done)
<1>1. s \in Within(s)
  BY DEF Within
<1>2. v \in Known(own, s, done)
  BY <1>1, KnownHas
<1> QED
  BY <1>2, KnownPairsHave

\* Whatever program is read, after whatever others: when the handlers have run
\* each statement is in the table of its type, with what it is about, and in the
\* range of its procedure only, every variable and constant is known, and what a
\* statement is about is among what it uses or modifies; though they are found
\* by two kinds of nodes of one traversal, and Modifies by another handler.
THEOREM EntitiesAreFound == ExtractSpec => []EntitiesAreTheProgram
<1>1. EntitiesInv => EntitiesAreTheProgram
  <2> SUFFICES ASSUME EntitiesInv, stage = "extracted" PROVE EntitiesAreTheProgram
    BY DEF EntitiesAreTheProgram, Extracted
  <2>1. IsParsed
    BY DEF EntitiesInv, EffectsInv, RelationsInv, IInv, Reading
  <2>2. EffectsThrough(pkb, ToSet(pnames), ToSet(pnames))
    BY DEF EntitiesInv, EffectsInv, EffectsProgress
  <2>3. pkb.stmt = Stmts /\ AllEntered(pkb)
    BY DEF EntitiesInv, EntitiesProgress, AfterStmts, AfterTraversal
  <2>4. \A f \in EntityTables : EntriesIn(pkb, f) = AllEntries(f)
    BY <2>3 DEF AllEntered
  <2>5. /\ pkb.entity.table = AllEntries("entity") /\ pkb.var = AllEntries("var") /\ pkb.const = AllEntries("const")
        /\ pkb.read = AllEntries("read") /\ pkb.print = AllEntries("print")
        /\ pkb.assign.assigned.table = AllEntries("assigned") /\ pkb.assign.rhs = AllEntries("rhs")
        /\ pkb.if.table = AllEntries("if") /\ pkb.while.table = AllEntries("while")
    BY <2>4, TablesOfEntries DEF EntityTables
  <2>6. /\ pkb.entity.table = {<<s, ast[s].kind>> : s \in Stmts}
        /\ pkb.var = UNION {NamesIn(s) \cup VariablesIn(s) : s \in Stmts}
        /\ pkb.const = UNION {LeavesIn(s) \cap Constants : s \in Stmts}
        /\ pkb.read = Naming("read") /\ pkb.print = Naming("print") /\ pkb.assign.assigned.table = Naming("assign")
        /\ pkb.assign.rhs = {<<s, ast[s].about[2]>> : s \in OfKind("assign")}
        /\ pkb.if.table = UNION {{s} \X ConditionOf(s) : s \in OfKind("if")}
        /\ pkb.while.table = UNION {{s} \X ConditionOf(s) : s \in OfKind("while")}
    BY <2>5, EntriesOfAll, Zenon
  <2>7. pkb.proc = ProcEntries /\ pkb.callStmts.table = CallPairs
        /\ pkb.uses.table = KnownPairs(ReadOf, ToSet(pnames)) /\ pkb.modifies.table = KnownPairs(WrittenOf, ToSet(pnames))
    BY <2>2 DEF EffectsThrough
  <2>8. {p.name : p \in pkb.proc} = ToSet(pnames) /\ \A s \in Stmts, p \in pkb.proc : s \in p.first..p.last <=> p.name = ProcOf(s)
    BY <2>1, <2>7, ProcNamesAre, RangesApart
  <2>9. pkb.callStmts.table = Naming("call")
    BY <2>7 DEF CallPairs, CallStmts, Callee, Naming, OfKind
  <2>10. pkb.read \cup pkb.assign.assigned.table \subseteq pkb.modifies.table
    <3> SUFFICES ASSUME NEW e \in Naming("read") \cup Naming("assign")
                 PROVE  e \in KnownPairs(WrittenOf, ToSet(pnames))
      BY <2>6, <2>7
    <3>1. PICK s \in Stmts : ast[s].kind \in {"read", "assign"} /\ e = <<s, ast[s].about[1]>>
      BY DEF Naming, OfKind
    <3>2. ast[s].about[1] \in WrittenOf[s]
      BY <3>1 DEF WrittenOf, WrittenBy
    <3> QED
      BY <3>1, <3>2, OwnIsKnown
  <2>11. pkb.print \subseteq pkb.uses.table
    <3> SUFFICES ASSUME NEW e \in Naming("print")
                 PROVE  e \in KnownPairs(ReadOf, ToSet(pnames))
      BY <2>6, <2>7
    <3>1. PICK s \in Stmts : ast[s].kind = "print" /\ e = <<s, ast[s].about[1]>>
      BY DEF Naming, OfKind
    <3>2. ast[s].about[1] \in ReadOf[s]
      BY <3>1 DEF ReadOf, ReadBy
    <3> QED
      BY <3>1, <3>2, OwnIsKnown
  <2>12. \A e \in pkb.if.table \cup pkb.while.table : e[2] # "" => e \in pkb.uses.table
    <3> SUFFICES ASSUME NEW e \in UNION {{s} \X ConditionOf(s) : s \in Stmts}, e[2] # ""
                 PROVE  e \in KnownPairs(ReadOf, ToSet(pnames))
      BY <2>6, <2>7 DEF OfKind
    <3>1. PICK s \in Stmts : e \in {s} \X ConditionOf(s)
      OBVIOUS
    <3>2. PICK c \in ConditionOf(s) : e = <<s, c>>
      BY <3>1, ConditionPairs, Zenon
    <3>3. c # ""
      BY <3>2
    <3>4. c \in VariablesIn(s)
      BY <3>3 DEF ConditionOf
    <3>5. c \in ReadOf[s]
      BY <3>4 DEF ReadOf, ReadBy
    <3>6. <<s, c>> \in KnownPairs(ReadOf, ToSet(pnames))
      BY <3>5, OwnIsKnown
    <3> QED
      BY <3>2, <3>6, Zenon
  <2>13. "" \notin KeysOf(pkb.if.inverse \cup pkb.while.inverse)
    BY <2>3 DEF AllEntered, IsProper, KeysOf
  <2>14. "" \notin {p[2] : p \in pkb.uses.table \cup pkb.modifies.table}
    BY <2>1, <2>7, OwnIsNamed, EffectsAreNamed
  <2> QED
    BY <2>3, <2>6, <2>8, <2>9, <2>10, <2>11, <2>12, <2>13, <2>14 DEF EntitiesAreTheProgram
<1> QED
  BY <1>1, EntitiesHold, PTL
=============================================================================
