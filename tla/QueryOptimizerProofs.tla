------------------------ MODULE QueryOptimizerProofs ------------------------
(***************************************************************************)
(* Proofs about QueryOptimizer, for all databases: merging is exact and    *)
(* the groups it produces share no synonym.                                *)
(***************************************************************************)
EXTENDS QueryOptimizer, TLAPS

(***************************************************************************)
(* A join accepts what both of its sides accept.                           *)
(***************************************************************************)
LEMMA JoinIsStored ==
  ASSUME NEW t, NEW u, IsStoredTable(t), IsStoredTable(u)
  PROVE  /\ IsStoredTable(Join(t, u))
         /\ Join(t, u).headers = t.headers \cup u.headers
<1> DEFINE H == t.headers \cup u.headers
<1>1. /\ t.headers \in SUBSET Synonym /\ u.headers \in SUBSET Synonym /\ t.headers # {}
      /\ t.rows \subseteq [t.headers -> Value] /\ u.rows \subseteq [u.headers -> Value]
  BY DEF IsStoredTable
<1>2. ASSUME NEW l \in t.rows, NEW r \in u.rows
      PROVE  MergedRow(l, r) \in [H -> Value]
  <2>1. l \in [t.headers -> Value] /\ r \in [u.headers -> Value]
    BY <1>1
  <2>2. DOMAIN l = t.headers /\ DOMAIN r = u.headers
    BY <2>1
  <2>3. \A s \in H : (IF s \in t.headers THEN l[s] ELSE r[s]) \in Value
    BY <2>1
  <2>4. QED
    BY <2>2, <2>3 DEF MergedRow
<1>3. Join(t, u).headers = H
  BY DEF Join
<1>4. Join(t, u).rows \subseteq [H -> Value]
  BY <1>2 DEF Join
<1>5. Join(t, u) = [headers |-> Join(t, u).headers, rows |-> Join(t, u).rows]
  BY DEF Join
<1>6. QED
  BY <1>1, <1>3, <1>4, <1>5 DEF IsStoredTable

LEMMA JoinAccepts ==
  ASSUME NEW t, NEW u, IsStoredTable(t), IsStoredTable(u), NEW f
  PROVE  Fits(f, Join(t, u)) <=> Fits(f, t) /\ Fits(f, u)
<1> DEFINE H == t.headers \cup u.headers
<1>1. /\ t.rows \subseteq [t.headers -> Value] /\ u.rows \subseteq [u.headers -> Value]
  BY DEF IsStoredTable
<1>2. Join(t, u).headers = H
  BY DEF Join
<1>3. ASSUME Fits(f, Join(t, u))
      PROVE  Fits(f, t) /\ Fits(f, u)
  <2>1. PICK l \in t.rows, r \in u.rows :
          /\ Agree(l, r, t.headers \cap u.headers)
          /\ Project(f, H) = MergedRow(l, r)
    BY <1>2, <1>3 DEF Fits, Join
  <2>2. l \in [t.headers -> Value] /\ r \in [u.headers -> Value]
    BY <1>1
  <2>3. \A s \in H : f[s] = IF s \in t.headers THEN l[s] ELSE r[s]
    BY <2>1, <2>2 DEF Project, MergedRow
  <2>4. l = Project(f, t.headers)
    BY <2>2, <2>3 DEF Project
  <2>5. \A s \in u.headers : f[s] = r[s]
    BY <2>1, <2>3 DEF Agree
  <2>6. r = Project(f, u.headers)
    BY <2>2, <2>5 DEF Project
  <2>7. QED
    BY <2>4, <2>6 DEF Fits
<1>4. ASSUME Fits(f, t), Fits(f, u)
      PROVE  Fits(f, Join(t, u))
  <2> DEFINE l == Project(f, t.headers)
             r == Project(f, u.headers)
  <2>1. l \in t.rows /\ r \in u.rows
    BY <1>4 DEF Fits
  <2>2. Agree(l, r, t.headers \cap u.headers)
    BY DEF Agree, Project
  <2>3. Project(f, H) = MergedRow(l, r)
    BY DEF Project, MergedRow
  <2>4. Project(f, H) \in Join(t, u).rows
    <3>1. <<l, r>> \in t.rows \X u.rows
      BY <2>1
    <3>2. QED
      BY <2>2, <2>3, <3>1 DEF Join
  <2>5. QED
    BY <1>2, <2>4 DEF Fits
<1>5. QED
  BY <1>3, <1>4

LEMMA MergeOfTables ==
  ASSUME NEW t, NEW u, IsStoredTable(t), IsStoredTable(u)
  PROVE  /\ IsStoredTable(MergeTable(t, u))
         /\ MergeTable(t, u).headers = t.headers \cup u.headers
         /\ \A f : Fits(f, MergeTable(t, u)) <=> Fits(f, t) /\ Fits(f, u)
<1>1. MergeTable(t, u) = Join(t, u)
  BY DEF MergeTable, IsEmpty, IsStoredTable
<1>2. QED
  BY <1>1, JoinIsStored, JoinAccepts

LEMMA MergeWithEmpty ==
  ASSUME NEW t
  PROVE  MergeTable(EmptyTable, t) = t
BY DEF MergeTable, IsEmpty, EmptyTable
-----------------------------------------------------------------------------
(***************************************************************************)
(* The invariant.  A synonym of the group comes from a merged table, and a *)
(* merged table that waits neither in the queue nor for its neighbours has *)
(* no neighbour outside: a group is only finished when it is closed.       *)
(***************************************************************************)
GroupTableOK == group_table = EmptyTable \/ IsStoredTable(group_table)

DatabaseOK == \A i \in Node : IsStoredTable(database[i])

Waiting == {queue[k] : k \in DOMAIN queue}

Exact(tables, group, nodes) ==
  \A f : /\ \A k \in DOMAIN tables : Fits(f, tables[k])
         /\ ~IsEmpty(group) => Fits(f, group)
         <=> \A i \in nodes : Fits(f, database[i])

Disjoint(t, u) == t.headers \cap u.headers = {}

FinishedAreApart ==
  \A k \in DOMAIN merged_tables :
    /\ \A m \in DOMAIN merged_tables : k # m => Disjoint(merged_tables[k], merged_tables[m])
    /\ \A i \in Node \ merged : Disjoint(merged_tables[k], database[i])
    /\ Disjoint(merged_tables[k], group_table)

GroupIsMerged == \A s \in group_table.headers : \E i \in merged : s \in database[i].headers

MergedIsClosed == \A i \in merged \ Waiting : Adj(i) \subseteq merged \cup neighbours

IdleBetweenGroups == IsEmpty(group_table) => queue = <<>> /\ neighbours = {}

Inv ==
  /\ TypeOK
  /\ Exact(merged_tables, group_table, merged)
  /\ FinishedAreApart
  /\ GroupIsMerged
  /\ MergedIsClosed
  /\ IdleBetweenGroups
  /\ neighbours \cap merged = {}

LEMMA DatabasesAreStored ==
  ASSUME database \in Databases
  PROVE  DatabaseOK /\ \E n \in Nat : Node = 1..n
<1>1. /\ database = [i \in 1..Len(database) |-> database[i]] /\ Len(database) \in Nat
      /\ \A i \in 1..Len(database) : IsStoredTable(database[i])
  BY OptimizerAssumption
<1>2. Node = 1..Len(database)
  <2>1. DOMAIN [i \in 1..Len(database) |-> database[i]] = 1..Len(database)
    OBVIOUS
  <2>2. QED
    BY <1>1, <2>1 DEF Node
<1>3. QED
  BY <1>1, <1>2 DEF DatabaseOK

LEMMA InitInv == Init => Inv
<1> SUFFICES ASSUME Init PROVE Inv
  OBVIOUS
<1> USE DEF Init, MergeInit
<1>1. TypeOK
  BY DEF TypeOK, EmptyTable
<1>2. Exact(merged_tables, group_table, merged)
  BY DEF Exact, IsEmpty, EmptyTable
<1>3. QED
  BY <1>1, <1>2 DEF Inv, FinishedAreApart, GroupIsMerged, MergedIsClosed, IdleBetweenGroups, EmptyTable

LEMMA StoredTableIsTable ==
  ASSUME NEW t, IsStoredTable(t)
  PROVE  /\ t \in [headers : SUBSET Synonym, rows : SUBSET (UNION {[h -> Value] : h \in SUBSET Synonym})]
         /\ ~IsEmpty(t)
<1>1. /\ t = [headers |-> t.headers, rows |-> t.rows]
      /\ t.headers \in SUBSET Synonym /\ t.headers # {}
      /\ t.rows \subseteq [t.headers -> Value]
  BY DEF IsStoredTable
<1>2. [t.headers -> Value] \subseteq UNION {[h -> Value] : h \in SUBSET Synonym}
  BY <1>1
<1>3. QED
  BY <1>1, <1>2 DEF IsEmpty

\* A first table starts the group; the groups before it are closed.
LEMMA StartGroupStep == Inv /\ StartGroup => Inv'
<1> SUFFICES ASSUME Inv, StartGroup PROVE Inv'
  OBVIOUS
<1>1. DatabaseOK /\ database' = database /\ Node' = Node
  BY DatabasesAreStored DEF Inv, TypeOK, StartGroup, Node
<1>2. PICK node \in Node \ merged :
        /\ group_table' = MergeTable(EmptyTable, database[node])
        /\ merged' = merged \cup {node}
        /\ queue' = <<node>>
  BY DEF StartGroup, Choices
<1>3. /\ group_table' = database[node] /\ IsStoredTable(database[node])
      /\ ~IsEmpty(database[node])
  BY <1>1, <1>2, MergeWithEmpty, StoredTableIsTable DEF DatabaseOK
<1>4. /\ merged_tables' = merged_tables /\ neighbours' = neighbours /\ IsEmpty(group_table)
      /\ queue = <<>> /\ neighbours = {}
  BY DEF StartGroup, Inv, IdleBetweenGroups
<1>5. TypeOK'
  BY <1>1, <1>2, <1>3, <1>4 DEF Inv, TypeOK
<1>6. Exact(merged_tables, group_table, merged)'
  BY <1>1, <1>2, <1>3, <1>4 DEF Inv, Exact
<1>7. FinishedAreApart'
  BY <1>1, <1>2, <1>3, <1>4 DEF Inv, FinishedAreApart
<1>8. GroupIsMerged'
  BY <1>1, <1>2, <1>3 DEF GroupIsMerged
<1>9. MergedIsClosed'
  <2>1. Waiting = {} /\ Waiting' = {node}
    BY <1>2, <1>4 DEF Waiting
  <2>2. \A i : Adj(i)' = Adj(i)
    BY <1>1 DEF Adj
  <2>3. QED
    BY <1>2, <1>4, <2>1, <2>2 DEF Inv, MergedIsClosed
<1>10. QED
  BY <1>3, <1>4, <1>5, <1>6, <1>7, <1>8, <1>9 DEF Inv, IdleBetweenGroups

\* The table taken from the queue has its neighbours merged or at hand.
LEMMA VisitNodeStep == Inv /\ VisitNode => Inv'
<1> SUFFICES ASSUME Inv, VisitNode PROVE Inv'
  OBVIOUS
<1> DEFINE node == queue[Len(queue)]
<1>1. /\ database' = database /\ merged' = merged /\ merged_tables' = merged_tables
      /\ group_table' = group_table /\ Node' = Node
      /\ queue # <<>> /\ neighbours = {} /\ neighbours' = Adj(node) \ merged
      /\ queue' = SubSeq(queue, 1, Len(queue) - 1)
  BY DEF VisitNode, Node
<1>2. queue \in Seq(Node) /\ Len(queue) \in Nat \ {0}
  BY <1>1 DEF Inv, TypeOK
<1>3. queue' \in Seq(Node) /\ Len(queue') = Len(queue) - 1
  <2>1. queue' = [k \in 1..(Len(queue) - 1) |-> queue[k]]
    BY <1>1, <1>2
  <2>2. \A k \in 1..(Len(queue) - 1) : queue[k] \in Node
    BY <1>2
  <2>3. Len(queue) - 1 \in Nat
    BY <1>2
  <2> DEFINE last == Len(queue) - 1
  <2> HIDE DEF last
  <2>4. [k \in 1..last |-> queue[k]] \in Seq(Node) /\ Len([k \in 1..last |-> queue[k]]) = last
    BY <2>2, <2>3 DEF last
  <2>5. QED
    BY <2>1, <2>4 DEF last
<1>4. \A k \in 1..(Len(queue) - 1) : queue'[k] = queue[k]
  BY <1>1, <1>2
<1>5. TypeOK'
  <2>1. Adj(node) \subseteq Node
    BY DEF Adj
  <2>2. QED
    BY <1>1, <1>3, <2>1 DEF Inv, TypeOK
<1>6. Exact(merged_tables, group_table, merged)'
  BY <1>1 DEF Inv, Exact
<1>7. FinishedAreApart' /\ GroupIsMerged'
  BY <1>1 DEF Inv, FinishedAreApart, GroupIsMerged
<1>8. MergedIsClosed'
  <2>1. \A i : Adj(i)' = Adj(i)
    BY <1>1 DEF Adj
  <2>2. Waiting \subseteq Waiting' \cup {node}
    BY <1>2, <1>3, <1>4 DEF Waiting
  <2>3. QED
    BY <1>1, <2>1, <2>2 DEF Inv, MergedIsClosed
<1>9. QED
  BY <1>1, <1>5, <1>6, <1>7, <1>8 DEF Inv, IdleBetweenGroups

\* Whichever side of the join is the left one, the group accepts the
\* assignments both accept, and has the synonyms of both.
LEMMA MergeNeighbourStep == Inv /\ MergeNeighbour => Inv'
<1> SUFFICES ASSUME Inv, MergeNeighbour PROVE Inv'
  OBVIOUS
<1>1. PICK i \in neighbours :
        /\ group_table' = IF Cardinality(group_table.rows) < Height(i)
                            THEN MergeTable(group_table, database[i])
                            ELSE MergeTable(database[i], group_table)
        /\ merged' = merged \cup {i}
        /\ queue' = Append(queue, i)
        /\ neighbours' = neighbours \ {i}
        /\ database' = database /\ merged_tables' = merged_tables
  BY DEF MergeNeighbour, Choices
<1>2. DatabaseOK /\ Node' = Node /\ i \in Node \ merged
  BY <1>1, DatabasesAreStored DEF Inv, TypeOK, Node
<1>3. IsStoredTable(group_table) /\ IsStoredTable(database[i])
  BY <1>2 DEF Inv, IdleBetweenGroups, TypeOK, DatabaseOK, IsEmpty, EmptyTable
<1>4. /\ IsStoredTable(group_table')
      /\ group_table'.headers = group_table.headers \cup database[i].headers
      /\ \A f : Fits(f, group_table') <=> Fits(f, group_table) /\ Fits(f, database[i])
  BY <1>1, <1>3, MergeOfTables
<1>5. ~IsEmpty(group_table) /\ ~IsEmpty(group_table')
  BY <1>3, <1>4, StoredTableIsTable
<1>6. queue \in Seq(Node) /\ queue' \in Seq(Node)
  BY <1>1, <1>2 DEF Inv, TypeOK
<1>7. TypeOK'
  BY <1>1, <1>2, <1>4, <1>6 DEF Inv, TypeOK
<1>8. Exact(merged_tables, group_table, merged)'
  BY <1>1, <1>4, <1>5 DEF Inv, Exact
<1>9. FinishedAreApart'
  <2>1. \A k \in DOMAIN merged_tables : Disjoint(merged_tables[k], group_table')
    BY <1>2, <1>4 DEF Inv, FinishedAreApart, Disjoint
  <2>2. QED
    BY <1>1, <1>2, <2>1 DEF Inv, FinishedAreApart
<1>10. GroupIsMerged'
  BY <1>1, <1>4 DEF Inv, GroupIsMerged
<1>11. MergedIsClosed'
  <2>1. \A j : Adj(j)' = Adj(j)
    BY <1>1 DEF Adj, Node
  <2>2. Waiting \cup {i} \subseteq Waiting'
    <3>1. /\ Len(queue') = Len(queue) + 1 /\ queue'[Len(queue) + 1] = i
          /\ \A k \in 1..Len(queue) : queue'[k] = queue[k]
      BY <1>1, <1>6
    <3>2. Len(queue) \in Nat /\ DOMAIN queue = 1..Len(queue) /\ DOMAIN queue' = 1..(Len(queue) + 1)
      BY <1>6, <3>1
    <3>3. QED
      BY <3>1, <3>2 DEF Waiting
  <2>3. QED
    BY <1>1, <2>1, <2>2 DEF Inv, MergedIsClosed
<1>12. QED
  BY <1>1, <1>5, <1>7, <1>8, <1>9, <1>10, <1>11 DEF Inv, IdleBetweenGroups

\* Nothing waits, so the merged tables are closed: a table outside shares no
\* synonym with the finished group.
LEMMA FinishGroupStep == Inv /\ FinishGroup => Inv'
<1> SUFFICES ASSUME Inv, FinishGroup PROVE Inv'
  OBVIOUS
<1>1. /\ ~IsEmpty(group_table) /\ queue = <<>> /\ neighbours = {}
      /\ merged_tables' = Append(merged_tables, group_table)
      /\ group_table' = EmptyTable /\ IsEmpty(EmptyTable)
      /\ database' = database /\ merged' = merged /\ queue' = queue /\ neighbours' = neighbours
      /\ Node' = Node
  BY DEF FinishGroup, Node, IsEmpty, EmptyTable
<1>2. IsStoredTable(group_table)
  BY <1>1 DEF Inv, TypeOK
<1> DEFINE n == Len(merged_tables)
           Table == [headers : SUBSET Synonym, rows : SUBSET (UNION {[h -> Value] : h \in SUBSET Synonym})]
<1>3. merged_tables \in Seq(Table) /\ group_table \in Table
  BY <1>2, StoredTableIsTable DEF Inv, TypeOK
<1>4. n \in Nat /\ DOMAIN merged_tables = 1..n
  BY <1>3
<1>5. /\ merged_tables' \in Seq(Table) /\ DOMAIN merged_tables' = 1..(n + 1)
      /\ merged_tables'[n + 1] = group_table
      /\ \A k \in 1..n : merged_tables'[k] = merged_tables[k]
  BY <1>1, <1>3
<1> HIDE DEF n, Table
<1>6. \A k \in DOMAIN merged_tables' :
        \/ k \in DOMAIN merged_tables /\ merged_tables'[k] = merged_tables[k]
        \/ k = n + 1 /\ merged_tables'[k] = group_table
  BY <1>4, <1>5
<1>7. TypeOK'
  <2>1. \A k \in DOMAIN merged_tables' : IsStoredTable(merged_tables'[k])
    BY <1>2, <1>6 DEF Inv, TypeOK
  <2>2. QED
    BY <1>1, <1>5, <2>1 DEF Inv, TypeOK, Table
<1>8. Exact(merged_tables, group_table, merged)'
  <2>1. \A k \in DOMAIN merged_tables : k \in DOMAIN merged_tables' /\ merged_tables'[k] = merged_tables[k]
    BY <1>4, <1>5
  <2>2. n + 1 \in DOMAIN merged_tables'
    BY <1>4, <1>5
  <2>3. \A f : (\A k \in DOMAIN merged_tables' : Fits(f, merged_tables'[k]))
                <=> (\A k \in DOMAIN merged_tables : Fits(f, merged_tables[k])) /\ Fits(f, group_table)
    BY <1>5, <1>6, <2>1, <2>2
  <2>4. QED
    BY <1>1, <2>3 DEF Inv, Exact
<1>9. FinishedAreApart'
  <2>1. \A i \in Node \ merged : Disjoint(group_table, database[i])
    <3> SUFFICES ASSUME NEW i \in Node \ merged, NEW s \in group_table.headers \cap database[i].headers
                 PROVE  FALSE
      BY DEF Disjoint
    <3>1. PICK j \in merged : s \in database[j].headers
      BY DEF Inv, GroupIsMerged
    <3>2. i \in Adj(j)
      BY <3>1 DEF Adj
    <3>3. Waiting = {}
      BY <1>1 DEF Waiting
    <3>4. QED
      BY <1>1, <3>2, <3>3 DEF Inv, MergedIsClosed
  <2>2. ASSUME NEW k \in DOMAIN merged_tables'
        PROVE  /\ \A i \in Node \ merged : Disjoint(merged_tables'[k], database[i])
               /\ Disjoint(merged_tables'[k], EmptyTable)
    BY <1>6, <2>1 DEF Inv, FinishedAreApart, Disjoint, EmptyTable
  <2>3. ASSUME NEW k \in DOMAIN merged_tables', NEW m \in DOMAIN merged_tables', k # m
        PROVE  Disjoint(merged_tables'[k], merged_tables'[m])
    BY <1>6, <2>3 DEF Inv, FinishedAreApart, Disjoint
  <2>4. QED
    BY <1>1, <2>2, <2>3 DEF FinishedAreApart
<1>10. GroupIsMerged'
  BY <1>1 DEF GroupIsMerged, EmptyTable
<1>11. MergedIsClosed'
  BY <1>1 DEF Inv, MergedIsClosed, Waiting, Adj, Node
<1>12. QED
  BY <1>1, <1>7, <1>8, <1>9, <1>10, <1>11 DEF Inv, IdleBetweenGroups
-----------------------------------------------------------------------------
LEMMA InvIsInductive == Inv /\ [Next]_vars => Inv'
<1>1. CASE Next
  BY <1>1, StartGroupStep, VisitNodeStep, MergeNeighbourStep, FinishGroupStep DEF Next
<1>2. CASE UNCHANGED vars
  BY <1>2 DEF vars, mergeVars, Inv, TypeOK, Exact, FinishedAreApart, GroupIsMerged, MergedIsClosed,
              IdleBetweenGroups, Waiting, Adj, Node
<1>3. QED
  BY <1>1, <1>2

LEMMA InvHolds == Spec => []Inv
  BY InitInv, InvIsInductive, PTL DEF Spec

\* The tables stay well formed: every row of a merged table has a value for
\* each of its columns (ResultTable::InnerJoin's merged rows).
THEOREM TypeCorrect == Spec => []TypeOK
<1>1. Inv => TypeOK
  BY DEF Inv
<1>2. QED
  BY <1>1, InvHolds, PTL

\* Merging is exact, whatever tables the clauses left, in whatever order the
\* neighbours are merged and whichever side of a join is the smaller one.
THEOREM MergedTablesAreExact == Spec => []MergingIsExact
<1>1. Inv => MergingIsExact
  BY DEF Inv, Exact, MergingIsExact, FitsMerged
<1>2. QED
  BY <1>1, InvHolds, PTL

\* OptimizeMerging's groups are connected components: no synonym is in two.
THEOREM GroupsShareNoSynonym == Spec => []GroupsAreSeparate
<1>1. Inv => GroupsAreSeparate
  BY DEF Inv, FinishedAreApart, GroupsAreSeparate, Disjoint
<1>2. QED
  BY <1>1, InvHolds, PTL
=============================================================================
