--------------------------- MODULE QueryOptimizer ---------------------------
(***************************************************************************)
(* QueryOptimizer::OptimizeMerging and BFSMerge: the tables in the         *)
(* database are merged group by group, a group being a connected component *)
(* of the graph whose edges join tables with a common synonym.  One action *)
(* is one iteration of a loop; the order in which an unordered_set yields  *)
(* a table's neighbours is free.                                           *)
(***************************************************************************)
EXTENDS ResultTable, Sequences

CONSTANTS
  Synonym, Value,
  Databases,         \* the sequences of tables the clauses may have left
  SortBeforeBfs,     \* SORT_TABLES_BEFORE_BFS: start from the smallest table
  SortBeforeMerge    \* SORT_TABLES_BEFORE_MERGE: merge the smallest neighbour first

\* A stored table has columns, and one value per column in every row.
IsStoredTable(table) ==
  /\ table = [headers |-> table.headers, rows |-> table.rows]
  /\ table.headers \in (SUBSET Synonym) \ {{}}
  /\ table.rows \subseteq [table.headers -> Value]

ASSUME OptimizerAssumption ==
  /\ \A db \in Databases : /\ db = [i \in 1..Len(db) |-> db[i]] /\ Len(db) \in Nat
                           /\ \A i \in 1..Len(db) : IsStoredTable(db[i])
  /\ {SortBeforeBfs, SortBeforeMerge} \subseteq BOOLEAN

VARIABLES
  database,         \* the tables to merge, never changed here
  merged,           \* the tables already in a group
  merged_tables,    \* the finished groups
  group_table,      \* the group being merged, EmptyTable between two groups
  queue,            \* its tables whose neighbours are still to be visited
  neighbours        \* those left of the table being visited

mergeVars == <<merged, merged_tables, group_table, queue, neighbours>>
vars == <<database, mergeVars>>

Node == DOMAIN database

Height(i) == Cardinality(database[i].rows)

\* Mutant: only the tables with the very same synonyms are neighbours.
AdjSameHeaders(node) == {i \in Node \ {node} : database[i].headers = database[node].headers}

\* adj_list: the other tables that have a synonym of this one.
Adj(node) == {i \in Node \ {node} : database[i].headers \cap database[node].headers # {}}

\* Mutant: a table is taken only when every other one is larger.
ChoicesStrict(nodes, is_sorted) ==
  {i \in nodes : is_sorted => \A j \in nodes \ {i} : Height(i) < Height(j)}

\* The candidates a loop may take next.
Choices(nodes, is_sorted) ==
  {i \in nodes : is_sorted => \A j \in nodes : Height(i) <= Height(j)}

MergeInit ==
  /\ merged = {}
  /\ merged_tables = <<>>
  /\ group_table = EmptyTable
  /\ queue = <<>>
  /\ neighbours = {}

Init == database \in Databases /\ MergeInit

\* OptimizeMerging calls BFSMerge on a table that is in no group yet.
StartGroup ==
  /\ IsEmpty(group_table)
  /\ \E node \in Choices(Node \ merged, SortBeforeBfs) :
       /\ group_table' = MergeTable(EmptyTable, database[node])
       /\ merged' = merged \cup {node}
       /\ queue' = <<node>>
  /\ UNCHANGED <<database, merged_tables, neighbours>>

\* node = queue.back(); queue.pop_back()
VisitNode ==
  /\ queue # <<>> /\ neighbours = {}
  /\ neighbours' = Adj(queue[Len(queue)]) \ merged
  /\ queue' = SubSeq(queue, 1, Len(queue) - 1)
  /\ UNCHANGED <<database, merged, merged_tables, group_table>>

\* The smaller table is hashed: it becomes the left side of the join.
MergeNeighbour ==
  \E i \in Choices(neighbours, SortBeforeMerge) :
    /\ group_table' = IF Cardinality(group_table.rows) < Height(i)
                        THEN MergeTable(group_table, database[i])
                        ELSE MergeTable(database[i], group_table)
    /\ merged' = merged \cup {i}
    /\ queue' = Append(queue, i)
    /\ neighbours' = neighbours \ {i}
    /\ UNCHANGED <<database, merged_tables>>

FinishGroup ==
  /\ ~IsEmpty(group_table) /\ queue = <<>> /\ neighbours = {}
  /\ merged_tables' = Append(merged_tables, group_table)
  /\ group_table' = EmptyTable
  /\ UNCHANGED <<database, merged, queue, neighbours>>

Next == StartGroup \/ VisitNode \/ MergeNeighbour \/ FinishGroup

Spec == Init /\ [][Next]_vars

\* Nothing but the loop itself runs, so it goes on while it can.
FairSpec == Spec /\ WF_vars(Next)

Done == merged = Node /\ IsEmpty(group_table)
-----------------------------------------------------------------------------
TypeOK ==
  /\ database \in Databases
  /\ merged \subseteq Node /\ neighbours \subseteq Node
  /\ queue \in Seq(Node)
  /\ merged_tables \in Seq([headers : SUBSET Synonym, rows : SUBSET (UNION {[h -> Value] : h \in SUBSET Synonym})])
  /\ \A k \in DOMAIN merged_tables : IsStoredTable(merged_tables[k])
  /\ group_table = EmptyTable \/ IsStoredTable(group_table)

Fits(f, table) == Project(f, table.headers) \in table.rows

FitsMerged(f) ==
  /\ \A k \in DOMAIN merged_tables : Fits(f, merged_tables[k])
  /\ ~IsEmpty(group_table) => Fits(f, group_table)

\* At every moment the tables merged so far accept exactly the assignments
\* that each table put into them accepts, whatever the order of the visits
\* and whichever side of a join was the smaller one.
MergingIsExact ==
  \A f \in [Synonym -> Value] : FitsMerged(f) <=> \A i \in merged : Fits(f, database[i])

\* Two groups share no synonym, so a selected synonym is found in one group
\* only and groups may be combined freely: BFSMerge may not leave a group
\* while a table outside still shares a synonym with it.
GroupsAreSeparate ==
  \A k \in DOMAIN merged_tables :
    /\ \A m \in DOMAIN merged_tables :
         k # m => merged_tables[k].headers \cap merged_tables[m].headers = {}
    /\ \A i \in Node \ merged : merged_tables[k].headers \cap database[i].headers = {}

\* Every table ends up in a group.
EveryTableIsMerged == <>Done
=============================================================================
