--------------------------- MODULE QueryEvaluator ---------------------------
(***************************************************************************)
(* The clause loop of QueryEvaluator::EvaluateQuery: clauses are taken one *)
(* at a time, each is evaluated against the PKB and against the tables     *)
(* that earlier clauses left in the database, and its own table is stored. *)
(*                                                                         *)
(* A clause is a record:                                                   *)
(*   kind        which Evaluate...Clause function handles it               *)
(*   valid       what IsValidClause finds of its parameter types           *)
(*   lhs, rhs    its two parameters, each a synonym, a constant or "_";    *)
(*               for a pattern clause the synonym and its first argument   *)
(*   rel         the pairs of values the PKB accepts for the clause        *)
(*   wild        the values "_" stands for (ConvertAbstractionToWildcardType) *)
(*   no_similar  IsDesignAbstractionWithNoSimilarParams                    *)
(*   expr        for an assign pattern, the statements whose right-hand    *)
(*               side matches, or Wildcard when it is "_"                  *)
(***************************************************************************)
EXTENDS ResultTable, Sequences

CONSTANTS
  Synonym,     \* the declared synonyms
  Value,       \* statement numbers, names and constants
  Wildcard,    \* the parameter "_"
  Domain,      \* GetDesignEntityTable: what a synonym ranges over
  Clauses,     \* the clauses a query may be made of
  MaxClauses   \* bound: clauses in one query

ClauseKind == {"suchthat", "pattern", "conditional", "with"}

ASSUME EvaluatorAssumption ==
  /\ Synonym \cap Value = {}
  /\ Wildcard \notin Synonym \cup Value
  /\ Domain \in [Synonym -> SUBSET Value]
  /\ \A c \in Clauses :
       /\ c.kind \in ClauseKind
       /\ {c.lhs, c.rhs} \subseteq Synonym \cup Value \cup {Wildcard}
       /\ c.rel \subseteq Value \X Value
       /\ c.wild \subseteq Value
       /\ {c.valid, c.no_similar} \subseteq BOOLEAN
       /\ c.expr = Wildcard \/ c.expr \subseteq Value
       /\ c.kind \in {"pattern", "conditional"} => c.lhs \in Synonym
       /\ c.kind = "with" => Wildcard \notin {c.lhs, c.rhs}
       /\ c.kind # "pattern" => c.expr = Wildcard
  /\ MaxClauses \in Nat

VARIABLES
  database,    \* the sequence of result tables
  evaluated,   \* the clauses evaluated so far
  count,       \* how many clauses the loop has taken
  status       \* "evaluating", "false" (a clause was false) or "error"

vars == <<database, evaluated, count, status>>
-----------------------------------------------------------------------------
(* The columns a clause works on *)

IsSimilarParams(c) == c.lhs = c.rhs /\ c.lhs # Wildcard

IsWildcardParams(c) == c.lhs = Wildcard /\ c.rhs = Wildcard

\* Mutant: an unevaluated synonym gets the elements of every type.
SmallestOfAnyType(synonym, db) ==
  LET holders == {i \in DOMAIN db : synonym \in db[i].headers}
  IN  IF holders = {} THEN Value
      ELSE GetColumn(db[CHOOSE i \in holders : \A j \in holders : j <= i], synonym)

\* The column of the last table that has the synonym, else everything of its type.
GetSmallestDesignEntitySet(synonym, db) ==
  LET holders == {i \in DOMAIN db : synonym \in db[i].headers}
      last    == CHOOSE i \in holders : \A j \in holders : j <= i
  IN  IF holders = {} THEN Domain[synonym] ELSE GetColumn(db[last], synonym)

ConvertClauseParamToColumn(param, wild, db) ==
  CASE param \in Synonym -> GetSmallestDesignEntitySet(param, db)
    [] param = Wildcard  -> wild
    [] OTHER             -> {param}

\* The tables that contain both parameters, of which the first is used.
TablesOfBoth(c, db) == {i \in DOMAIN db : {c.lhs, c.rhs} \subseteq db[i].headers}

FirstOf(indices) == CHOOSE i \in indices : \A j \in indices : i <= j

\* ConvertClauseToResultTable: the candidate pairs ...
CandidatePairs(c, db) ==
  CASE TablesOfBoth(c, db) # {} ->
         {<<row[c.lhs], row[c.rhs]>> : row \in db[FirstOf(TablesOfBoth(c, db))].rows}
    [] TablesOfBoth(c, db) = {} /\ IsSimilarParams(c) ->
         {<<v, v>> : v \in ConvertClauseParamToColumn(c.lhs, c.wild, db)}
    [] OTHER ->
         ConvertClauseParamToColumn(c.lhs, c.wild, db) \X ConvertClauseParamToColumn(c.rhs, c.wild, db)

Erase(db, i) == [j \in 1..(Len(db) - 1) |-> IF j < i THEN db[j] ELSE db[j + 1]]

\* Mutant: the first table with either synonym goes.
EraseTableOfEither(c, db) ==
  LET either == {i \in DOMAIN db : {c.lhs, c.rhs} \cap db[i].headers # {}}
  IN  IF either = {} THEN db ELSE Erase(db, FirstOf(either))

\* ... and the database it leaves: the table both columns came from is erased.
DatabaseAfterConvert(c, db) ==
  IF TablesOfBoth(c, db) = {} THEN db ELSE Erase(db, FirstOf(TablesOfBoth(c, db)))

\* Mutant: the right column under both headers.
GenerateTableTwiceRight(c, pairs) ==
  LET headers == {c.lhs, c.rhs} \cap Synonym
  IN  [headers |-> headers, rows |-> {[s \in headers |-> p[2]] : p \in pairs}]

\* One column for each parameter that is a synonym.
GenerateTable(c, pairs) ==
  LET headers == {c.lhs, c.rhs} \cap Synonym
  IN  [headers |-> headers,
       rows    |-> {[s \in headers |-> IF s = c.lhs THEN p[1] ELSE p[2]] : p \in pairs}]
-----------------------------------------------------------------------------
Init ==
  /\ database = <<>>
  /\ evaluated = {}
  /\ count = 0
  /\ status = "evaluating"

\* The loop of EvaluateQuery takes the next clause; a false one ends it.
TakeClause(c, is_clause_true) ==
  /\ evaluated' = evaluated \cup {c}
  /\ count' = count + 1
  /\ status' = IF is_clause_true THEN "evaluating" ELSE "false"

\* The common end of the Evaluate functions: store the table of the valid
\* pairs, or keep only their existence when no synonym is involved.
StoreTable(c, valid) ==
  LET table == GenerateTable(c, valid)
      db    == DatabaseAfterConvert(c, database)
  IN  /\ database' = IF IsEmpty(table) THEN db ELSE Append(db, table)
      /\ TakeClause(c, valid # {})

EvaluateSuchThatClause(c) ==
  /\ c.kind = "suchthat"
  /\ \/ /\ c.no_similar /\ IsSimilarParams(c)
        /\ TakeClause(c, FALSE)
        /\ UNCHANGED database
     \/ /\ IsWildcardParams(c)
        /\ TakeClause(c, (c.wild \X c.wild) \cap c.rel # {})
        /\ UNCHANGED database
     \/ /\ ~(c.no_similar /\ IsSimilarParams(c))
        /\ ~IsWildcardParams(c)
        /\ StoreTable(c, CandidatePairs(c, database) \cap c.rel)

\* While and if patterns: rel holds each statement with its control variables.
EvaluateConditionalPatternClause(c) ==
  /\ c.kind = "conditional"
  /\ StoreTable(c, CandidatePairs(c, database) \cap c.rel)

\* Assign patterns: rel is Modifies.  a(_, _) only asks that some a is left.
EvaluatePatternClause(c) ==
  /\ c.kind = "pattern"
  /\ IF c.rhs = Wildcard /\ c.expr = Wildcard
     THEN /\ TakeClause(c, ConvertClauseParamToColumn(c.lhs, c.wild, database) # {})
          /\ UNCHANGED database
     ELSE StoreTable(c, {p \in CandidatePairs(c, database) \cap c.rel :
                           c.expr # Wildcard => p[1] \in c.expr})

\* rel holds the pairs whose attributes are equal; x.attr = x.attr only asks
\* that some x is left.
EvaluateWithClause(c) ==
  /\ c.kind = "with"
  /\ IF IsSimilarParams(c)
     THEN /\ TakeClause(c, ConvertClauseParamToColumn(c.lhs, c.wild, database) # {})
          /\ UNCHANGED database
     ELSE StoreTable(c, CandidatePairs(c, database) \cap c.rel)

\* IsValidClause throws, EvaluateQuery gives up.
RejectClause(c) ==
  /\ ~c.valid
  /\ status' = "error"
  /\ UNCHANGED <<database, evaluated, count>>

EvaluateClause(c) ==
  /\ c.valid
  /\ \/ EvaluateSuchThatClause(c)
     \/ EvaluateConditionalPatternClause(c)
     \/ EvaluatePatternClause(c)
     \/ EvaluateWithClause(c)

Next ==
  /\ status = "evaluating"
  /\ count < MaxClauses
  /\ \E c \in Clauses : EvaluateClause(c) \/ RejectClause(c)

Spec == Init /\ [][Next]_vars
-----------------------------------------------------------------------------
(* What a query means: the assignments of values to its synonyms that      *)
(* satisfy every clause, independently of tables and of evaluation order.  *)

SynonymsOf(clauses) == UNION {{c.lhs, c.rhs} \cap Synonym : c \in clauses}

Assignments(synonyms) == {f \in [synonyms -> Value] : \A s \in synonyms : f[s] \in Domain[s]}

ParamValues(param, wild, f) ==
  CASE param \in Synonym -> {f[param]}
    [] param = Wildcard  -> wild
    [] OTHER             -> {param}

Holds(c, f) ==
  \E v \in ParamValues(c.lhs, c.wild, f), w \in ParamValues(c.rhs, c.wild, f) :
    <<v, w>> \in c.rel /\ (c.expr # Wildcard => v \in c.expr)

Satisfying(clauses) == {f \in Assignments(SynonymsOf(clauses)) : \A c \in clauses : Holds(c, f)}

\* The assignments all tables of a database agree to.
Fits(f, table) == Project(f, table.headers) \in table.rows

Answers(db, synonyms) == {f \in Assignments(synonyms) : \A i \in DOMAIN db : Fits(f, db[i])}

(* Which clauses the shortcuts of the code are right for. *)

ParamRange(param) == IF param \in Synonym THEN Domain[param] ELSE {param}

\* The abstractions that refuse equal parameters relate no value to itself,
\* an attribute equals itself, every assignment modifies a variable.
ShortcutIsSound(c) ==
  /\ c.kind = "suchthat" /\ c.no_similar /\ IsSimilarParams(c) =>
       \A v \in ParamRange(c.lhs) : <<v, v>> \notin c.rel
  /\ c.kind = "with" /\ IsSimilarParams(c) => \A v \in ParamRange(c.lhs) : <<v, v>> \in c.rel
  /\ c.kind = "pattern" /\ c.rhs = Wildcard =>
       \A v \in Domain[c.lhs] : \E w \in c.wild : <<v, w>> \in c.rel

ShortcutsAreSound == \A c \in Clauses : ShortcutIsSound(c)

\* A clause that stores a table and names one synonym twice: Affects(a, a).
RepeatsSynonym(c) ==
  /\ c.lhs = c.rhs /\ c.lhs \in Synonym
  /\ ~(c.kind = "suchthat" /\ c.no_similar)
  /\ c.kind # "with"

NoRepeatedSynonym == \A c \in Clauses : ~RepeatsSynonym(c)
-----------------------------------------------------------------------------
(* Properties *)

Table == [headers : SUBSET Synonym, rows : SUBSET (UNION {[h -> Value] : h \in SUBSET Synonym})]

IsTable(table, synonyms) ==
  /\ table.headers \subseteq synonyms
  /\ \E s, t \in synonyms : table.headers = {s, t}
  /\ table.rows \subseteq Assignments(table.headers)

\* Type correctness: every stored table has one or two columns, over synonyms
\* of clauses already evaluated, with values of the synonyms' own types.
TypeOK ==
  /\ evaluated \subseteq Clauses
  /\ count \in 0..MaxClauses
  /\ status \in {"evaluating", "false", "error"}
  /\ database \in Seq(Table)
  /\ \A i \in DOMAIN database : IsTable(database[i], SynonymsOf(evaluated))

\* No answer is ever lost: whatever satisfies the clauses evaluated so far
\* still fits every table in the database, in whatever order the clauses came
\* (the optimizer sorts them), and a query is declared false only when nothing
\* satisfies its clauses.
NoAnswerLost ==
  /\ status = "evaluating" =>
       Satisfying(evaluated) \subseteq Answers(database, SynonymsOf(evaluated))
  /\ status = "false" => Satisfying(evaluated) = {}

\* And none is invented: the tables, merged, are exactly the clauses'
\* conjunction, although ConvertClauseToResultTable drops a table on the way.
NoAnswerInvented ==
  status = "evaluating" =>
    Answers(database, SynonymsOf(evaluated)) \subseteq Satisfying(evaluated)
=============================================================================
