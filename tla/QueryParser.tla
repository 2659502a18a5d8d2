----------------------------- MODULE QueryParser -----------------------------
(***************************************************************************)
(* SPA::HandleQueries with QueryParser and, of the evaluation, the order   *)
(* of the clauses and the checks of their types.  A session asks two       *)
(* queries: the parser keeps three static flags between them.              *)
(*                                                                         *)
(* The text of a query is the sequence of what the parser's regular        *)
(* expressions match (QueryRegex.cpp): words, signs, attribute references, *)
(* and conditions.  What stands behind a keyword is one token, with a      *)
(* reading for each kind of clause whose form it has: "Follows(x, _)" is   *)
(* also a pattern of a synonym called Follows.  Spaces are left out.       *)
(***************************************************************************)
EXTENDS Integers, Sequences, SequencesExt, FiniteSets, FiniteSetsExt

CONSTANTS
  Names,           \* the words: what may be a synonym
  AttributeRefs,   \* of each attribute reference, its [synonym, attribute]
  Conditions,      \* of each condition, its readings by the keyword before it
  Extensions,      \* those of NextBip and AffectsBip that are switched on
  Texts,           \* the queries that may be asked first
  Again            \* and those that may be asked after another

Statements == {"stmt", "read", "print", "while", "if", "assign", "call"}
Types == Statements \cup {"variable", "constant", "procedure", "prog_line"}

\* "such that" is one keyword.
Keywords == {"suchthat", "pattern", "with"}

StatementRef == {"synonym", "wildcard", "integer"}
EntityRef == {"synonym", "wildcard", "name"}

\* The kinds of parameter that each relation is written with.
ParameterKinds(abstraction) ==
  CASE abstraction \in {"Uses", "Modifies"} -> <<StatementRef \cup EntityRef, EntityRef>>
    [] abstraction \in {"Calls", "Calls*"} -> <<EntityRef, EntityRef>>
    [] OTHER -> <<StatementRef, StatementRef>>

\* A clause is [name, lhs, rhs, third]: the relation or the pattern's synonym
\* and its parameters; third is absent but for a pattern of three parameters.
\* A parameter is [kind, value, attribute].  A quoted text is an expression or
\* malformed, or listed where it has a comma, and a listed part where that text
\* stands between wildcards: the code tells these apart by where it splits.
Absent == [kind |-> "absent", value |-> "", attribute |-> ""]
Wildcard == [kind |-> "wildcard", value |-> "_", attribute |-> ""]

IsClause(keyword, c) ==
  \/ /\ keyword = "suchthat"
     /\ c.lhs.kind \in ParameterKinds(c.name)[1]
     /\ c.rhs.kind \in ParameterKinds(c.name)[2]
  \/ /\ keyword = "pattern"
     /\ c.lhs.kind \in EntityRef
     /\ \/ c.third = Absent /\ c.rhs.kind \in {"expression", "malformed", "listed", "listed part", "wildcard"}
        \/ c.rhs.kind = "wildcard" /\ c.third.kind = "wildcard"
  \/ keyword = "with" /\ {c.lhs.kind, c.rhs.kind} \subseteq {"attribute", "name", "synonym", "integer"}

\* Of the conditions a keyword may stand before, the clause the two make.
Reading(keyword, condition) == Conditions[condition][keyword]

Reads(keyword, condition) ==
  /\ condition \in DOMAIN Conditions
  /\ keyword \in DOMAIN Conditions[condition]
  /\ IsClause(keyword, Reading(keyword, condition))

IsElement(token) == token \in Names \cup DOMAIN AttributeRefs
-----------------------------------------------------------------------------
\* The parser, and the session it is called from.

VARIABLES
  phase,                \* the function at work; "stopped" when nothing catches the exception
  handled,              \* how many queries the session has asked
  text, rest,           \* the query and what the parser has not popped from it
  mappings,             \* the type of each declared synonym
  selected, clauses,    \* the Query object; BOOLEAN selects no element
  most_recent_clause_type,
  todo,                 \* the clauses the evaluator has before it
  is_boolean_query, is_semantic_error, has_declaration_error,
  outcome               \* "answered", "FALSE" for a semantic error, "error" when nothing is returned

flags == <<is_boolean_query, is_semantic_error, has_declaration_error>>
read == <<mappings, selected, clauses, most_recent_clause_type>>
vars == <<phase, handled, text, rest, read, todo, flags, outcome>>

Nothing == [s \in {} |-> ""]

\* The first query of the session has been asked; the flags are what they are initialized to.
Init ==
  /\ phase = "declarations" /\ handled = 1 /\ text \in Texts /\ rest = text
  /\ mappings = Nothing /\ selected = <<>> /\ clauses = <<>> /\ most_recent_clause_type = "undefined"
  /\ todo = {}
  /\ is_boolean_query = FALSE /\ is_semantic_error = FALSE /\ has_declaration_error = FALSE
  /\ outcome = "answered"

\* Mutants: the flags of the last query are still up.
ResetAllButBoolean == is_boolean_query' = is_boolean_query /\ is_semantic_error' = FALSE /\ has_declaration_error' = FALSE
ResetAllButDeclaration == is_boolean_query' = FALSE /\ is_semantic_error' = FALSE /\ UNCHANGED has_declaration_error

ResetBooleans ==
  /\ is_boolean_query' = FALSE
  /\ is_semantic_error' = FALSE
  /\ has_declaration_error' = FALSE

HandleQuery ==
  /\ phase = "idle" /\ handled < 2
  /\ text' \in Again
  /\ rest' = text'
  /\ handled' = handled + 1
  /\ ResetBooleans
  /\ mappings' = Nothing /\ selected' = <<>> /\ clauses' = <<>> /\ most_recent_clause_type' = "undefined"
  /\ phase' = "declarations"
  /\ UNCHANGED <<todo, outcome>>

\* An exception ends the query.  A runtime_error of a Boolean query is FALSE
\* when ThrowSemanticError threw it; out_of_range is no runtime_error.
Throw(error) ==
  /\ is_semantic_error' = (is_semantic_error \/ error = "semantic")
  /\ phase' = IF error = "stop" THEN "stopped" ELSE "idle"
  /\ outcome' = IF error # "stop" /\ is_boolean_query' /\ is_semantic_error' THEN "FALSE" ELSE "error"
  /\ UNCHANGED <<handled, text, todo, has_declaration_error>>

-----------------------------------------------------------------------------
StartsDeclaration == Len(rest) >= 2 /\ rest[1] \in Types /\ rest[2] \in Names

\* How many synonyms follow the first.
OtherSynonyms ==
  Max({k \in 0..Len(rest) : \A i \in 1..k : 2 * i + 2 <= Len(rest) /\ rest[2 * i + 1] = "," /\ rest[2 * i + 2] \in Names})

DeclaredSynonyms == [i \in 1..(OtherSynonyms + 1) |-> rest[2 * i]]

EndsDeclaration == LET k == 2 * OtherSynonyms + 3 IN Len(rest) >= k /\ rest[k] = ";"

\* Mutant: a synonym is looked up among those of earlier clauses only.
RedeclarationsOfEarlier == {i \in DOMAIN DeclaredSynonyms : DeclaredSynonyms[i] \in DOMAIN mappings}

\* Which of the synonyms are declared already, before or in this clause.
Redeclarations ==
  {i \in DOMAIN DeclaredSynonyms :
     DeclaredSynonyms[i] \in DOMAIN mappings \cup {DeclaredSynonyms[j] : j \in 1..(i - 1)}}

\* The first of them ends the insertion.
InsertedSynonyms(redeclarations) ==
  {DeclaredSynonyms[i] : i \in {j \in DOMAIN DeclaredSynonyms : \A k \in redeclarations : j < k}}

ParseDeclarationClause ==
  /\ phase = "declarations" /\ StartsDeclaration /\ EndsDeclaration
  /\ rest' = SubSeq(rest, 2 * OtherSynonyms + 4, Len(rest))
  /\ mappings' = [s \in DOMAIN mappings \cup InsertedSynonyms(Redeclarations) |->
                    IF s \in DOMAIN mappings THEN mappings[s] ELSE rest[1]]
  /\ has_declaration_error' = (has_declaration_error \/ Redeclarations # {})
  /\ phase' = IF has_declaration_error' THEN "select" ELSE "declarations"
  /\ UNCHANGED <<handled, text, selected, clauses, most_recent_clause_type, todo, is_boolean_query, is_semantic_error, outcome>>

RejectDeclaration ==
  /\ phase = "declarations" /\ StartsDeclaration /\ ~EndsDeclaration
  /\ UNCHANGED <<rest, read, is_boolean_query>>
  /\ Throw("syntax")

EndDeclarations ==
  /\ phase = "declarations" /\ ~StartsDeclaration
  /\ phase' = "select"
  /\ UNCHANGED <<handled, text, rest, read, todo, flags, outcome>>

-----------------------------------------------------------------------------
\* How many elements the tuple has that the text goes on with.
TupleSizes ==
  {n \in 1..Len(rest) :
     /\ 2 * n + 2 <= Len(rest) /\ rest[2] = "<" /\ rest[2 * n + 2] = ">"
     /\ \A i \in 1..n : IsElement(rest[2 * i + 1])
     /\ \A i \in 1..(n - 1) : rest[2 * i + 2] = ","}

SelectsOne == Len(rest) >= 2 /\ IsElement(rest[2])

IsSelectPhrase == rest # <<>> /\ rest[1] = "Select" /\ (SelectsOne \/ TupleSizes # {})

Elements ==
  IF SelectsOne THEN <<rest[2]>> ELSE [i \in 1..(CHOOSE n \in TupleSizes : TRUE) |-> rest[2 * i + 1]]

PhraseLength == IF SelectsOne THEN 2 ELSE 2 * Len(Elements) + 2

IsDeclared(element) ==
  (IF element \in DOMAIN AttributeRefs THEN AttributeRefs[element].synonym ELSE element) \in DOMAIN mappings

\* Mutant: BOOLEAN is a synonym where one is declared.
SelectsBooleanUnlessDeclared == SelectsOne /\ rest[2] = "BOOLEAN" /\ ~IsDeclared("BOOLEAN")

SelectsBoolean == SelectsOne /\ rest[2] = "BOOLEAN"

\* A redeclaration is reported only here, where the query is known to be BOOLEAN or not.
MisusesSelect == has_declaration_error \/ (~SelectsBoolean /\ \E i \in DOMAIN Elements : ~IsDeclared(Elements[i]))

ParseSelectPhrase ==
  /\ phase = "select" /\ IsSelectPhrase /\ ~MisusesSelect
  /\ is_boolean_query' = (is_boolean_query \/ SelectsBoolean)
  /\ selected' = IF SelectsBoolean THEN <<>> ELSE Elements
  /\ rest' = SubSeq(rest, PhraseLength + 1, Len(rest))
  /\ phase' = "conditions"
  /\ UNCHANGED <<handled, text, mappings, clauses, most_recent_clause_type, todo, is_semantic_error, has_declaration_error, outcome>>

RejectSelectPhrase ==
  /\ phase = "select" /\ (IsSelectPhrase => MisusesSelect)
  /\ is_boolean_query' = (is_boolean_query \/ (IsSelectPhrase /\ SelectsBoolean))
  /\ Throw(IF IsSelectPhrase THEN "semantic" ELSE "syntax")
  /\ UNCHANGED <<rest, read>>

-----------------------------------------------------------------------------
\* A parameter that names a synonym nobody declared.
IsUndeclared(param) == param.kind \in {"synonym", "attribute"} /\ param.value \notin DOMAIN mappings

IsTooLarge(param) == param.kind = "integer" /\ param.value = "too large"

SuchThatErrors(c) ==
  IF c.name \in {"NextBip", "NextBip*", "AffectsBip", "AffectsBip*"} /\ c.name \notin Extensions THEN {"syntax"}
  ELSE IF IsUndeclared(c.lhs) \/ IsUndeclared(c.rhs) THEN {"semantic"}
  ELSE IF IsTooLarge(c.lhs) \/ IsTooLarge(c.rhs) THEN {"stop"}
  ELSE {}

\* Mutant: the bracket behind the second of two parameters is stripped for an if too.
FitsPatternStripped(c) ==
  LET type == mappings[c.name] IN
  \/ type = "assign"
  \/ type = "while" /\ (IF c.third = Absent THEN c.rhs ELSE c.third).kind = "wildcard"
  \/ type = "if" /\ c.rhs.kind = "wildcard"

\* The parameters the synonym's type allows.  An assignment's third is not looked
\* at, nor is a while's second before a third.  An if needs three: the second of
\* two still has its bracket, and is no wildcard.
FitsPattern(c) ==
  LET type == mappings[c.name] IN
  \/ type = "assign"
  \/ type = "while" /\ (IF c.third = Absent THEN c.rhs ELSE c.third).kind = "wildcard"
  \/ type = "if" /\ c.third.kind = "wildcard" /\ c.rhs.kind = "wildcard"

\* The first match of a parameter between the first two commas: of a listed part
\* that is the wildcard before the quote, the rest is lost.
SecondParameter(c) == IF c.rhs.kind = "listed part" THEN Wildcard ELSE c.rhs

\* In a listed text, which has only one quote before its comma, nothing matches.
PatternErrors(c) ==
  IF c.name \notin DOMAIN mappings \/ ~FitsPattern(c) THEN {"semantic"}
  ELSE IF c.rhs.kind = "listed" THEN {"stop"}
  ELSE IF IsUndeclared(c.lhs) THEN {"semantic"}
  ELSE IF c.rhs.kind = "malformed" THEN {"syntax"}
  ELSE {}

\* The two parameters are created in an order that the compiler chooses.
WithErrors(c) ==
  (IF IsUndeclared(c.lhs) \/ IsUndeclared(c.rhs) THEN {"semantic"} ELSE {})
  \cup (IF IsTooLarge(c.lhs) \/ IsTooLarge(c.rhs) THEN {"stop"} ELSE {})

ClauseErrors(keyword, c) ==
  CASE keyword = "suchthat" -> SuchThatErrors(c)
    [] keyword = "pattern" -> PatternErrors(c)
    [] keyword = "with" -> WithErrors(c)

StartsCondition ==
  /\ Len(rest) >= 2
  /\ \E keyword \in Keywords : rest[1] \in {keyword, "and"} /\ Reads(keyword, rest[2])

\* Mutant: "and" goes on with the first kind of clause there was.
FirstClauseType ==
  IF rest[1] # "and" THEN rest[1] ELSE IF clauses = <<>> THEN most_recent_clause_type ELSE clauses[1].keyword

\* The keyword that "and" stands for.
ReplaceKeywordAnd == IF rest[1] = "and" THEN most_recent_clause_type ELSE rest[1]

Clause(keyword, c) == [keyword |-> keyword, name |-> c.name, lhs |-> c.lhs, rhs |-> SecondParameter(c)]

ParseConditionalClause ==
  /\ phase = "conditions" /\ StartsCondition
  /\ Reads(ReplaceKeywordAnd, rest[2])
  /\ LET c == Reading(ReplaceKeywordAnd, rest[2]) IN
       /\ ClauseErrors(ReplaceKeywordAnd, c) = {}
       /\ clauses' = Append(clauses, Clause(ReplaceKeywordAnd, c))
  /\ most_recent_clause_type' = ReplaceKeywordAnd
  /\ rest' = SubSeq(rest, 3, Len(rest))
  /\ UNCHANGED <<phase, handled, text, mappings, selected, todo, flags, outcome>>

RejectCondition ==
  /\ phase = "conditions" /\ StartsCondition
  /\ Reads(ReplaceKeywordAnd, rest[2])
  /\ UNCHANGED <<rest, read, is_boolean_query>>
  /\ \E error \in ClauseErrors(ReplaceKeywordAnd, Reading(ReplaceKeywordAnd, rest[2])) : Throw(error)

\* "and" before the first clause.
RejectAnd ==
  /\ phase = "conditions" /\ StartsCondition
  /\ ReplaceKeywordAnd = "undefined"
  /\ UNCHANGED <<rest, read, is_boolean_query>>
  /\ Throw("syntax")

\* Mutant: the keyword is put into a copy of the text.
KeepAnd ==
  /\ phase = "conditions" /\ StartsCondition
  /\ ReplaceKeywordAnd \in Keywords /\ ~Reads(ReplaceKeywordAnd, rest[2])
  /\ UNCHANGED vars

\* Behind the keyword put for "and" stands another kind of condition: nothing is popped.
KeepCondition ==
  /\ phase = "conditions" /\ StartsCondition
  /\ ReplaceKeywordAnd \in Keywords /\ ~Reads(ReplaceKeywordAnd, rest[2])
  /\ rest' = [rest EXCEPT ![1] = ReplaceKeywordAnd]
  /\ UNCHANGED <<phase, handled, text, read, todo, flags, outcome>>

RejectRest ==
  /\ phase = "conditions" /\ ~StartsCondition /\ rest # <<>>
  /\ UNCHANGED <<rest, read, is_boolean_query>>
  /\ Throw("syntax")

\* ParseQuery returns; the optimizer removes repeated clauses.
StartEvaluation ==
  /\ phase = "conditions" /\ rest = <<>>
  /\ todo' = ToSet(clauses)
  /\ phase' = "evaluating"
  /\ UNCHANGED <<handled, text, rest, read, flags, outcome>>

-----------------------------------------------------------------------------
RankDesignAbstraction ==
  <<"Calls", "Calls*", "Affects", "Follows", "AffectsBip", "Parent", "Affects*", "Next", "NextBip",
    "Follows*", "Parent*", "Modifies", "Uses", "AffectsBip*", "Next*", "NextBip*">>

Relations == {RankDesignAbstraction[i] : i \in DOMAIN RankDesignAbstraction}

\* The regular expressions admit no other relation.
ASSUME RelationsAssumption ==
  \A condition \in DOMAIN Conditions :
    "suchthat" \in DOMAIN Conditions[condition] => Reading("suchthat", condition).name \in Relations

Rank(c) == CHOOSE i \in DOMAIN RankDesignAbstraction : RankDesignAbstraction[i] = c.name

IsOpen(param) == param.kind \in {"synonym", "attribute", "wildcard"}

\* A pattern's own synonym counts, its expression does not.
NumberOfSynonyms(c) ==
  (IF c.keyword = "pattern" \/ IsOpen(c.lhs) THEN 1 ELSE 0)
  + (IF IsOpen(IF c.keyword = "pattern" THEN c.lhs ELSE c.rhs) THEN 1 ELSE 0)

\* Mutant: the kinds are not compared, and the ranks only where both have one.
PrecedesByRank(c, d) ==
  \/ NumberOfSynonyms(c) < NumberOfSynonyms(d) /\ c.keyword = d.keyword
  \/ c.keyword = "suchthat" /\ d.keyword = "suchthat" /\ Rank(c) < Rank(d)

\* operator< of the clauses, by which they are sorted.
Precedes(c, d) ==
  \/ NumberOfSynonyms(c) < NumberOfSynonyms(d)
  \/ /\ NumberOfSynonyms(c) = NumberOfSynonyms(d)
     /\ \/ c.keyword = "with" /\ d.keyword # "with"
        \/ c.keyword = "pattern" /\ d.keyword = "suchthat"
        \/ c.keyword = "suchthat" /\ d.keyword = "suchthat" /\ Rank(c) < Rank(d)

IsOfType(param, types) == param.kind = "synonym" /\ mappings[param.value] \in types

IsStatementEntity(param) == param.kind = "integer" \/ IsOfType(param, Statements \cup {"prog_line"})
IsAssignEntity(param) == param.kind = "integer" \/ IsOfType(param, {"stmt", "assign", "prog_line"})
IsProcedureEntity(param) == param.kind = "name" \/ IsOfType(param, {"procedure"})
IsVariableEntity(param) == param.kind = "name" \/ IsOfType(param, {"variable"})
IsWildcard(param) == param.kind = "wildcard"

IsValidSuchThat(c) ==
  CASE c.name \in {"Uses", "Modifies"} ->
         /\ IsStatementEntity(c.lhs) \/ IsProcedureEntity(c.lhs)
         /\ IsVariableEntity(c.rhs) \/ IsWildcard(c.rhs)
    [] c.name \in {"Calls", "Calls*"} -> \A param \in {c.lhs, c.rhs} : IsProcedureEntity(param) \/ IsWildcard(param)
    [] c.name \in {"Affects", "Affects*", "AffectsBip", "AffectsBip*"} ->
         \A param \in {c.lhs, c.rhs} : IsAssignEntity(param) \/ IsWildcard(param)
    [] OTHER -> \A param \in {c.lhs, c.rhs} : IsStatementEntity(param) \/ IsWildcard(param)

IsValidAttributeType(type, attribute) ==
  \/ attribute = "stmt#" /\ type \in Statements
  \/ attribute = "varName" /\ type \in {"variable", "read", "print"}
  \/ attribute = "procName" /\ type \in {"procedure", "call"}
  \/ attribute = "value" /\ type = "constant"
  \/ attribute = "none" /\ type = "prog_line"

IsValidWith(c) ==
  \A param \in {c.lhs, c.rhs} :
    param.kind \in {"integer", "name"} \/ IsValidAttributeType(mappings[param.value], param.attribute)

IsValidClause(c) ==
  CASE c.keyword = "suchthat" -> IsValidSuchThat(c)
    [] c.keyword = "pattern" -> IsVariableEntity(c.lhs) \/ IsWildcard(c.lhs)
    [] c.keyword = "with" -> IsValidWith(c)

\* The clause whose turn it is holds for some values, or for none: then the query is answered.
EvaluateClause ==
  /\ phase = "evaluating"
  /\ \E c \in todo :
       /\ \A d \in todo : ~Precedes(d, c)
       /\ IsValidClause(c)
       /\ \/ todo' = todo \ {c} /\ UNCHANGED <<phase, outcome>>
          \/ todo' = {} /\ phase' = "idle" /\ outcome' = "answered"
  /\ UNCHANGED <<handled, text, rest, read, flags>>

\* The evaluator throws BooleanSemanticError itself, whatever the parser's flags say.
RejectClause ==
  /\ phase = "evaluating"
  /\ \E c \in todo : (\A d \in todo : ~Precedes(d, c)) /\ ~IsValidClause(c)
  /\ todo' = {} /\ phase' = "idle"
  /\ outcome' = IF selected = <<>> THEN "FALSE" ELSE "error"
  /\ UNCHANGED <<handled, text, rest, read, flags>>

Answer ==
  /\ phase = "evaluating" /\ todo = {}
  /\ phase' = "idle" /\ outcome' = "answered"
  /\ UNCHANGED <<handled, text, rest, read, todo, flags>>

Next ==
  \/ HandleQuery
  \/ ParseDeclarationClause \/ RejectDeclaration \/ EndDeclarations
  \/ ParseSelectPhrase \/ RejectSelectPhrase
  \/ ParseConditionalClause \/ RejectCondition \/ RejectAnd \/ KeepCondition \/ RejectRest
  \/ StartEvaluation \/ EvaluateClause \/ RejectClause \/ Answer

\* One thread: the loops go on until they end.
Spec == Init /\ [][Next]_vars /\ WF_vars(Next)
=============================================================================
