------------------------------ MODULE PkbTables ------------------------------
(***************************************************************************)
(* The tables of the PKB (pkb/templates, pkb/abstraction_tables,           *)
(* pkb/entity_tables).  A relation that is asked for in both directions is *)
(* kept twice: a map and an inverse map, here the set of the pairs <<key,  *)
(* value>> of each.  A TableMultiple maps a key to a set of values, a      *)
(* TableSingle to one, and refuses another.  A loop inserts a set of pairs *)
(* that do not exclude each other, so that their order makes no difference.*)
(***************************************************************************)
EXTENDS Integers, SequencesExt

KeysOf(pairs) == {p[1] : p \in pairs}
Swapped(pairs) == {<<p[2], p[1]>> : p \in pairs}

NoPairs == [table |-> {}, inverse |-> {}]

\* Mutant: the inverse map is given the first value of a key only.
InsertPairsOfNewKeys(t, pairs) ==
  [table |-> t.table \cup pairs, inverse |-> t.inverse \cup Swapped({p \in pairs : p[1] \notin KeysOf(t.table)})]

\* table.Insert(a, b) && inverse_table.Insert(b, a): what is there already is
\* not inserted again on the other side.
InsertPairs(t, pairs) == [table |-> t.table \cup pairs, inverse |-> t.inverse \cup Swapped(pairs \ t.table)]

\* The same with a table of single values.
InsertOne(t, key, value) == IF key \in KeysOf(t.table) THEN t ELSE InsertPairs(t, {<<key, value>>})

InTextOrder(p) == 0 < p[1] /\ p[1] < p[2]

\* Both directions are of single values: what is followed, and what follows,
\* already is refused.
InsertFollows(t, pairs) ==
  InsertPairs(t, {p \in pairs : p[1] \notin KeysOf(t.table) /\ p[2] \notin KeysOf(t.inverse) /\ InTextOrder(p)})

InsertFollowsT(t, pairs) == InsertPairs(t, {p \in pairs : InTextOrder(p)})

\* Mutant: a container is refused that is in another one.
InsertParentOfLists(t, pairs) ==
  InsertPairs(t, {p \in pairs : p[2] \notin KeysOf(pairs) /\ p[2] \notin KeysOf(t.inverse) /\ InTextOrder(p)})

\* A statement has one parent.
InsertParent(t, pairs) == InsertPairs(t, {p \in pairs : p[2] \notin KeysOf(t.inverse) /\ InTextOrder(p)})

InsertParentT(t, pairs) == InsertPairs(t, {p \in pairs : InTextOrder(p)})

ArePositive(p) == p[1] > 0 /\ p[2] > 0

\* Mutant: Next is taken to lead forward.
InsertNextForward(t, pairs) == InsertPairs(t, {p \in pairs : InTextOrder(p)})

InsertNext(t, pairs) == InsertPairs(t, {p \in pairs : p[1] # p[2] /\ ArePositive(p)})

\* Mutant: no statement is executed after itself.
InsertNextTDistinct(t, pairs) == InsertPairs(t, {p \in pairs : p[1] # p[2] /\ ArePositive(p)})

InsertNextT(t, pairs) == InsertPairs(t, {p \in pairs : ArePositive(p)})

\* Between procedures, or procedures and variables.
InsertNames(t, pairs) == InsertPairs(t, {p \in pairs : p[1] # "" /\ p[2] # ""})

\* What a statement uses or modifies.
InsertStmtVars(t, pairs) == InsertPairs(t, {p \in pairs : p[1] > 0 /\ p[2] # ""})

\* What a statement is or calls.
InsertStmtName(t, s, name) == IF s <= 0 \/ name = "" THEN t ELSE InsertOne(t, s, name)

\* AssignTable::InsertAssign; the table of right hand sides is never inverted.
InsertAssign(t, s, var, rhs) ==
  IF s <= 0 \/ s \in KeysOf(t.assigned.table) \/ s \in KeysOf(t.rhs) THEN t
  ELSE [assigned |-> InsertOne(t.assigned, s, var), rhs |-> t.rhs \cup {<<s, rhs>>}]

\* Mutant: an empty list leaves no trace.
InsertContainerUnlessEmpty(t, s, vars) == InsertPairs(t, {s} \X vars)

\* ContainerTable::InsertIf and InsertWhile: a condition without variables is
\* remembered with an empty name.
InsertContainer(t, s, vars) ==
  IF s <= 0 THEN t
  ELSE IF vars = {} THEN [table |-> t.table \cup {<<s, "">>}, inverse |-> t.inverse]
  ELSE InsertPairs(t, {s} \X vars)

\* Mutant: a range is refused that begins where another one ends.
InsertProcApart(t, name, first, last) ==
  IF \E p \in t : p.name = name \/ (p.first - 1 <= last /\ first <= p.last + 1) THEN t
  ELSE t \cup {[name |-> name, first |-> first, last |-> last]}

\* ProcTable::InsertProc
InsertProc(t, name, first, last) ==
  IF \E p \in t : p.name = name \/ (p.first <= last /\ first <= p.last) THEN t
  ELSE t \cup {[name |-> name, first |-> first, last |-> last]}

\* ClearAllTables, and the tables of a new PKB.
NoTables ==
  [stmt |-> {}, var |-> {}, const |-> {}, read |-> {}, print |-> {}, proc |-> {},
   entity |-> NoPairs, assign |-> [assigned |-> NoPairs, rhs |-> {}], if |-> NoPairs, while |-> NoPairs,
   follows |-> NoPairs, followsT |-> NoPairs, parent |-> NoPairs, parentT |-> NoPairs,
   next |-> NoPairs, nextT |-> NoPairs, calls |-> NoPairs, callsT |-> NoPairs, callStmts |-> NoPairs,
   uses |-> NoPairs, usesP |-> NoPairs, modifies |-> NoPairs, modifiesP |-> NoPairs]

\* The two directions of a relation say the same.
Agree(t) == t.inverse = Swapped(t.table)

\* For if and while, but for the conditions without variables.
AgreeOnVariables(t) == {p \in t.inverse : p[1] # ""} = Swapped({p \in t.table : p[2] # ""})

\* A statement or procedure has one.
IsSingle(pairs) == \A p, q \in pairs : p[1] = q[1] => p = q

TablesAgree(k) ==
  /\ \A t \in {k.entity, k.assign.assigned, k.callStmts, k.uses, k.modifies} : Agree(t)
  /\ \A t \in {k.follows, k.followsT, k.parent, k.parentT, k.next, k.nextT} : Agree(t)
  /\ \A t \in {k.calls, k.callsT, k.usesP, k.modifiesP} : Agree(t)
  /\ \A t \in {k.if, k.while} : AgreeOnVariables(t)
  /\ \A t \in {k.entity, k.assign.assigned, k.callStmts} : IsSingle(t.table)
  /\ IsSingle(k.follows.table) /\ IsSingle(k.follows.inverse) /\ IsSingle(k.parent.inverse)
=============================================================================
