---------------------------- MODULE EvaluateQuery ----------------------------
(***************************************************************************)
(* QueryEvaluator::EvaluateQuery from the parsed query to its result: the  *)
(* clause loop (module QueryEvaluator), the merging of the tables it left  *)
(* (module QueryOptimizer) and the selection from the merged tables.       *)
(*                                                                         *)
(* A selection is a sequence of synonyms, each itself or by an attribute,  *)
(* <<>> being Select BOOLEAN.  An answer is a set of tuples: {<<>>} is     *)
(* TRUE, {} is FALSE, no result, or the nothing that is printed when an    *)
(* exception is caught.                                                    *)
(***************************************************************************)
EXTENDS QueryEvaluator

CONSTANTS
  Attribute,     \* what a value is, itself or by an attribute
  Selections,    \* the selections a query may have
  NoAnswer       \* the answer of a query still being evaluated

ASSUME SelectionAssumption ==
  \A sel \in Selections : sel \in Seq([synonym : Synonym, attribute : DOMAIN Attribute])

VARIABLES
  query,         \* the clauses of the query, without repetitions
  selected,      \* its selection
  merged, merged_tables, group_table, queue, neighbours,   \* of OptimizeMerging
  answer

mergeVars == <<merged, merged_tables, group_table, queue, neighbours>>
allVars == <<vars, mergeVars, query, selected, answer>>

Optimizer == INSTANCE QueryOptimizer
               WITH Databases <- {}, SortBeforeBfs <- TRUE, SortBeforeMerge <- FALSE

\* A query has finitely many clauses, at most MaxClauses.
Queries == {q \in SUBSET Clauses : IsFiniteSet(q) /\ Cardinality(q) <= MaxClauses}

EvaluateInit ==
  /\ Init
  /\ query \in Queries
  /\ selected \in Selections
  /\ Optimizer!MergeInit
  /\ answer = NoAnswer

\* The clauses are taken in the order SortClausesByNumberOfSynonyms gives
\* them, which is any order as far as the answer is concerned.
EvaluateNextClause ==
  /\ status = "evaluating"
  /\ \E c \in query \ evaluated : EvaluateClause(c) \/ RejectClause(c)
  /\ UNCHANGED <<query, selected, mergeVars, answer>>

\* A clause is false: QueryResult(false) or an empty QueryResult.  A clause
\* is invalid: BooleanSemanticError, printed as FALSE, or runtime_error,
\* printed as nothing.
AnswerWithoutMerging ==
  /\ status \in {"false", "error"}
  /\ answer = NoAnswer
  /\ answer' = {}
  /\ UNCHANGED <<vars, query, selected, mergeVars>>

AllClausesEvaluated == status = "evaluating" /\ evaluated = query

MergeTables ==
  /\ AllClausesEvaluated
  /\ Optimizer!Next
  /\ UNCHANGED <<evaluated, count, status, query, selected, answer>>
-----------------------------------------------------------------------------
(* The selection *)

AllClausesTrue ==
  database = <<>> \/ \A k \in DOMAIN merged_tables :
                       ~IsEmpty(merged_tables[k]) /\ ~HasNoRows(merged_tables[k])

Entities == {selected[i] : i \in DOMAIN selected}

ColumnTable(synonym) ==
  [headers |-> {synonym}, rows |-> {[s \in {synonym} |-> v] : v \in Domain[synonym]}]

ConvertToAttribute(entity, row) == Attribute[entity.attribute][row[entity.synonym]]

\* tuple_table after the first k merged tables.  The columns a table gives have
\* its height, whichever they are: the rows are kept whole here.
TupleOfTables[k \in 0..Len(merged_tables)] ==
  IF k = 0 THEN EmptyTable
  ELSE IF \E e \in Entities : e.synonym \in merged_tables[k].headers
  THEN MergeTable(TupleOfTables[k - 1], merged_tables[k]) ELSE TupleOfTables[k - 1]

InTables(synonym) == \E k \in DOMAIN merged_tables : synonym \in merged_tables[k].headers

\* The second column of a synonym in no table is added beside the first: as
\* long as everything of its type, or AddColumn throws and nothing is answered.
AddEntity(table, i) ==
  CASE InTables(selected[i].synonym) \/ (\E j \in 1..(i - 1) : selected[j] = selected[i]) -> table
    [] ~InTables(selected[i].synonym) /\ (\A j \in 1..(i - 1) : selected[j].synonym # selected[i].synonym) ->
         MergeTable(table, ColumnTable(selected[i].synonym))
    [] OTHER ->
         IF Cardinality(table.rows) = Cardinality(Domain[selected[i].synonym]) THEN table
         ELSE [table EXCEPT !.rows = {}]

\* ... and after the first i selected entities, those in no table being added.
TupleTable[i \in 0..Len(selected)] ==
  IF i = 0 THEN TupleOfTables[Len(merged_tables)] ELSE AddEntity(TupleTable[i - 1], i)

SelectTuple ==
  {[i \in DOMAIN selected |-> ConvertToAttribute(selected[i], row)] : row \in TupleTable[Len(selected)].rows}

SelectOne ==
  {<<Attribute[selected[1].attribute][v]>> : v \in GetSmallestDesignEntitySet(selected[1].synonym, merged_tables)}

\* Mutant: a single selected entity is looked up although a group is empty.
SelectFromTablesUnchecked ==
  CASE Len(selected) = 0 -> IF AllClausesTrue THEN {<<>>} ELSE {}
    [] Len(selected) = 1 -> SelectOne
    [] OTHER -> SelectTuple

\* A single attribute of a query that is false falls through to an exception.
SelectFromTables ==
  CASE ~AllClausesTrue -> {}
    [] AllClausesTrue /\ Len(selected) = 0 -> {<<>>}
    [] AllClausesTrue /\ Len(selected) = 1 -> SelectOne
    [] OTHER -> SelectTuple

AnswerFromTables ==
  /\ AllClausesEvaluated
  /\ Optimizer!Done
  /\ answer = NoAnswer
  /\ answer' = SelectFromTables
  /\ UNCHANGED <<vars, query, selected, mergeVars>>

EvaluateNext == EvaluateNextClause \/ AnswerWithoutMerging \/ MergeTables \/ AnswerFromTables

EvaluateSpec == EvaluateInit /\ [][EvaluateNext]_allVars /\ WF_allVars(EvaluateNext)
-----------------------------------------------------------------------------
(* Properties *)

\* The values the selection takes over the assignments that satisfy every
\* clause; none when a clause is invalid.
CorrectAnswer(clauses, sel) ==
  LET synonyms == SynonymsOf(clauses) \cup {sel[i].synonym : i \in DOMAIN sel}
      found    == {f \in Assignments(synonyms) : \A c \in clauses : c.valid /\ Holds(c, f)}
  IN  {[i \in DOMAIN sel |-> ConvertToAttribute(sel[i], f)] : f \in found}

\* The program answers every query, once, with the correct answer, although
\* it forgets tables, evaluates clauses in any order, stops at the first
\* false one, and merges and projects tables group by group.
Promise ==
  INSTANCE QueryAnswer
    WITH Query <- Queries \X Selections,
         Correct <- [q \in Queries \X Selections |-> CorrectAnswer(q[1], q[2])],
         query <- <<query, selected>>

AnswersCorrectly == Promise!Spec
=============================================================================
