----------------------------- MODULE ResultTable -----------------------------
(***************************************************************************)
(* The in-memory tables of the query evaluator (query_evaluator/           *)
(* ResultTable.cpp).  A table maps each of its headers (synonyms) to a     *)
(* column, all columns having the same height.  The model keeps a table as *)
(* its set of headers and its set of rows, a row being a function from the *)
(* headers to values.  The order of rows and how often a row is repeated   *)
(* are left out: an answer is compared as a set of tuples.                 *)
(***************************************************************************)
EXTENDS Integers, FiniteSets

\* The default-constructed table: no columns at all.
EmptyTable == [headers |-> {}, rows |-> {}]

IsEmpty(table) == table.headers = {}

\* GetHeight() == 0: columns without elements, or no columns.
HasNoRows(table) == table.rows = {}

GetColumn(table, synonym) == {row[synonym] : row \in table.rows}

\* A row, or an assignment of values to more synonyms, cut down to some headers.
Project(row, headers) == [s \in headers |-> row[s]]

\* merged_row = left_row; merged_row.insert(right_row...): the left value wins.
MergedRow(left, right) ==
  [s \in DOMAIN left \cup DOMAIN right |-> IF s \in DOMAIN left THEN left[s] ELSE right[s]]

\* Mutant: rows that agree on one of the shared headers are joined.
AgreeOnOne(left, right, shared) == shared = {} \/ \E s \in shared : left[s] = right[s]

\* InnerJoin keeps the pairs of rows that agree on every shared header; with
\* no shared header every pair agrees, which is CrossTable.
Agree(left, right, shared) == \A s \in shared : left[s] = right[s]

\* Mutant: the joined table is created with the columns of one side only.
JoinLeftHeaders(this, other) ==
  [headers |-> this.headers,
   rows    |-> {MergedRow(l, r) : l \in this.rows, r \in other.rows}]

Join(this, other) ==
  LET shared == this.headers \cap other.headers
  IN  [headers |-> this.headers \cup other.headers,
       rows    |-> {MergedRow(pair[1], pair[2]) :
                      pair \in {p \in this.rows \X other.rows : Agree(p[1], p[2], shared)}}]

\* A table without columns is the identity of the merge, not the empty set of rows.
MergeTable(this, other) ==
  IF IsEmpty(this) THEN other ELSE IF IsEmpty(other) THEN this ELSE Join(this, other)
=============================================================================
