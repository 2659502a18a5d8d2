----------------------------- MODULE QueryMeaning -----------------------------
(***************************************************************************)
(* What a query means, read off its whole text by position, and what the   *)
(* parser owes it.                                                         *)
(***************************************************************************)
EXTENDS QueryParser, TLAPS

\* How far a position of the declarations is behind the semicolon before it.
Offset(t, i) == i - Max({0} \cup {j \in 1..(i - 1) : t[j] = ";"})

IsDeclarations(t) ==
  /\ t # <<>> => Last(t) = ";"
  /\ \A i \in DOMAIN t :
       IF Offset(t, i) = 1 THEN t[i] \in Types
       ELSE IF Offset(t, i) % 2 = 0 THEN t[i] \in Names
       ELSE t[i] \in {",", ";"}

\* Where the phrase that begins at s can end.
PhraseEnds(t, s) ==
  {e \in (s + 1)..Len(t) :
     \/ e = s + 1 /\ IsElement(t[e])
     \/ /\ t[s + 1] = "<" /\ t[e] = ">" /\ e > s + 2
        /\ \A i \in (s + 2)..(e - 1) : IF (i - s) % 2 = 0 THEN IsElement(t[i]) ELSE t[i] = ","
        /\ (e - s) % 2 = 1}

\* Where "Select" stands and where what it selects ends: one place or none.
Selections(t) ==
  UNION {{<<s, e>> : e \in PhraseEnds(t, s)} :
           s \in {i \in DOMAIN t : t[i] = "Select" /\ IsDeclarations(SubSeq(t, 1, i - 1))}}

SelectOf(t) == CHOOSE p \in Selections(t) : TRUE

DeclarationsOf(t) == SubSeq(t, 1, SelectOf(t)[1] - 1)
SelectedOf(t) == SelectSeq(SubSeq(t, SelectOf(t)[1] + 1, SelectOf(t)[2]), IsElement)
ConditionsOf(t) == SubSeq(t, SelectOf(t)[2] + 1, Len(t))

IsBoolean(t) == t[SelectOf(t)[1] + 1] = "BOOLEAN"

\* Where a synonym is declared.
Places(t) == {i \in DOMAIN DeclarationsOf(t) : Offset(t, i) % 2 = 0}
PlacesOf(t, s) == {i \in Places(t) : t[i] = s}

TypesOf(t, s) == {t[i - Offset(t, i) + 1] : i \in PlacesOf(t, s)}

Redeclares(t) == \E i, j \in Places(t) : i # j /\ t[i] = t[j]

\* A declaration follows the one that repeats a synonym.
RedeclaresEarly(t) ==
  \E i, j, k \in Places(t) : i < j /\ t[i] = t[j] /\ j < k /\ \E l \in (j + 1)..(k - 1) : t[l] = ";"

SelectsUndeclared(t) ==
  \E i \in DOMAIN SelectedOf(t) :
    LET e == SelectedOf(t)[i] IN
    PlacesOf(t, IF e \in DOMAIN AttributeRefs THEN AttributeRefs[e].synonym ELSE e) = {}

-----------------------------------------------------------------------------
\* The k-th condition and the last keyword other than "and" up to it.
KeywordsUpTo(t, k) == {i \in 1..k : ConditionsOf(t)[2 * i - 1] # "and"}
KeywordOf(t, k) == ConditionsOf(t)[2 * Max(KeywordsUpTo(t, k)) - 1]
ConditionOf(t, k) == ConditionsOf(t)[2 * k]

ConditionNumbers(t) == 1..((Len(ConditionsOf(t)) + 1) \div 2)

IsShaped(t, k) ==
  /\ 2 * k <= Len(ConditionsOf(t))
  /\ KeywordsUpTo(t, k) # {}
  /\ Reads(KeywordOf(t, k), ConditionOf(t, k))

ClauseOf(t, k) == Reading(KeywordOf(t, k), ConditionOf(t, k))

Params(c) == {c.lhs, c.rhs, c.third}

\* What a condition can have wrong with it, none of which the other kinds have.
IsForeign(t, k) ==
  KeywordOf(t, k) = "suchthat" /\ ClauseOf(t, k).name \in {"NextBip", "NextBip*", "AffectsBip", "AffectsBip*"} \ Extensions

\* The patterns of containers: the type, and what stands behind the variable.
ContainerForms ==
  {<<"while", "wildcard", "absent">>, <<"while", "wildcard", "wildcard">>, <<"if", "wildcard", "wildcard">>}

Misuses(t, k) ==
  LET c == ClauseOf(t, k) IN
  \/ \E p \in Params(c) : p.kind \in {"synonym", "attribute"} /\ PlacesOf(t, p.value) = {}
  \/ /\ KeywordOf(t, k) = "pattern"
     /\ ~\E type \in TypesOf(t, c.name) : type = "assign" \/ <<type, c.rhs.kind, c.third.kind>> \in ContainerForms

IsMalformed(t, k) == \E p \in Params(ClauseOf(t, k)) : p.kind = "malformed"

\* What the program does not survive: a number that is no int, and the pattern of
\* an assignment with a comma in the quotes.
HasNoInt(t, k) == \E p \in Params(ClauseOf(t, k)) : p.kind = "integer" /\ p.value = "too large"

IsListed(t, k) ==
  KeywordOf(t, k) = "pattern" /\ TypesOf(t, ClauseOf(t, k).name) = {"assign"} /\ ClauseOf(t, k).rhs.kind = "listed"

-----------------------------------------------------------------------------
Lines == Statements \cup {"prog_line"}

\* The types a relation is between; an integer is a line, a name fits where it may stand.
Domains(abstraction) ==
  CASE abstraction \in {"Uses", "Modifies"} -> <<Lines \cup {"procedure"}, {"variable"}>>
    [] abstraction \in {"Calls", "Calls*"} -> <<{"procedure"}, {"procedure"}>>
    [] abstraction \in {"Affects", "Affects*", "AffectsBip", "AffectsBip*"} ->
         <<{"stmt", "assign", "prog_line"}, {"stmt", "assign", "prog_line"}>>
    [] OTHER -> <<Lines, Lines>>

Carriers == [none |-> {"prog_line"}, value |-> {"constant"}, procName |-> {"procedure", "call"},
             varName |-> {"variable", "read", "print"}] @@ ("stmt#" :> Statements)

Fits(t, param, types) == param.kind \in {"synonym", "attribute"} => TypesOf(t, param.value) \subseteq types

IsWellTyped(t, k) ==
  LET c == ClauseOf(t, k) IN
  CASE KeywordOf(t, k) = "pattern" -> Fits(t, c.lhs, {"variable"})
    [] KeywordOf(t, k) = "with" ->
         \A p \in {c.lhs, c.rhs} : p.kind \in {"synonym", "attribute"} => Fits(t, p, Carriers[p.attribute])
    [] OTHER ->
         /\ Fits(t, c.lhs, Domains(c.name)[1]) /\ Fits(t, c.rhs, Domains(c.name)[2])
         /\ c.name \in {"Uses", "Modifies"} => c.lhs.kind # "wildcard"

\* What a semantic error answers.
Refused(t) == IF IsBoolean(t) THEN "FALSE" ELSE "error"

\* What a condition's errors can answer; the sides of "with" are read in either order.
ErrorsOf(t, k) ==
  IF ~IsShaped(t, k) \/ IsForeign(t, k) THEN {"error"}
  ELSE IF IsListed(t, k) THEN {"stop"}
  ELSE IF Misuses(t, k) THEN {Refused(t)} \cup (IF KeywordOf(t, k) = "with" /\ HasNoInt(t, k) THEN {"stop"} ELSE {})
  ELSE IF HasNoInt(t, k) THEN {"stop"}
  ELSE IF IsMalformed(t, k) THEN {"error"}
  ELSE {}

IsFaulty(t, k) == ErrorsOf(t, k) # {}

\* The first error decides: conditions behind a misused synonym are not read.
AnswersOwed(t) ==
  LET faulty == {k \in ConditionNumbers(t) : IsFaulty(t, k)}
      well_typed == {k \in ConditionNumbers(t) : IsWellTyped(t, k)} IN
  IF Selections(t) = {} THEN {"error"}
  ELSE IF Redeclares(t) THEN {IF RedeclaresEarly(t) THEN "error" ELSE Refused(t)}
  ELSE IF ~IsBoolean(t) /\ SelectsUndeclared(t) THEN {"error"}
  ELSE IF faulty # {} THEN ErrorsOf(t, Min(faulty))
  ELSE IF well_typed = ConditionNumbers(t) THEN {"answered"}
  ELSE {Refused(t)} \cup (IF well_typed = {} THEN {} ELSE {"answered"})

-----------------------------------------------------------------------------
(* Every query of a session is answered as its own text asks, whatever was *)
(* asked before it: a query with no error is evaluated, a semantic error   *)
(* makes a Boolean query FALSE and any other query empty, a syntax error   *)
(* leaves nothing, the first error deciding.  Three exceptions are the     *)
(* code's: a declaration behind a redeclared synonym is a syntax error     *)
(* (QueryParser.cpp:128), a number that is no int or a comma in the quotes *)
(* of a pattern stops the program (398, 330), but with a comma between     *)
(* wildcards what is quoted is not looked at: the query is evaluated.      *)
AnswersErrors ==
  /\ phase = "idle" => outcome \in AnswersOwed(text)
  /\ phase = "stopped" => "stop" \in AnswersOwed(text)

\* The clause that a condition writes; a listed part asks for no more than a wildcard.
Asked(t, k) ==
  LET c == ClauseOf(t, k) IN
  [keyword |-> KeywordOf(t, k), name |-> c.name, lhs |-> c.lhs,
   rhs |-> IF c.rhs.kind = "listed part" THEN Wildcard ELSE c.rhs]

Irreflexive(cs) == \A c \in cs : ~Precedes(c, c)
Transitive(cs) == \A c, d, e \in cs : Precedes(c, d) /\ Precedes(d, e) => Precedes(c, e)

\* Clauses neither of which precedes the other are alike for every third.
TiesAreTransitive(cs) ==
  \A c, d, e \in cs : ~Precedes(c, d) /\ ~Precedes(d, c) /\ Precedes(c, e) => Precedes(d, e)

\* What std::sort needs of operator<; it is undefined without it.
IsStrictWeakOrder(cs) == Irreflexive(cs) /\ Transitive(cs) /\ TiesAreTransitive(cs)

ClausesAreSorted == phase = "evaluating" => IsStrictWeakOrder(ToSet(clauses))

(* The query that reaches the evaluator is what the text says: each        *)
(* synonym has its one type, the elements are those selected, and "and"    *)
(* goes on with the kind of clause before it.  One exception is the code's *)
(* (QueryParser.cpp:330): what is quoted between wildcards is any text if  *)
(* it has a comma.  Its clauses are in a strict weak order, without which  *)
(* std::sort is undefined (Clause.cpp:104).                                *)
QueryIsRead ==
  phase = "evaluating" =>
    /\ Selections(text) # {} /\ ~Redeclares(text)
    /\ \A k \in ConditionNumbers(text) : ~IsFaulty(text, k)
    /\ mappings = [s \in {text[i] : i \in Places(text)} |-> CHOOSE type \in TypesOf(text, s) : TRUE]
    /\ selected = IF IsBoolean(text) THEN <<>> ELSE SelectedOf(text)
    /\ clauses = [k \in ConditionNumbers(text) |-> Asked(text, k)]
    /\ ClausesAreSorted

(* Every query ends, in an answer or with the program: although the loop   *)
(* over the conditions can go round without popping one, putting a keyword *)
(* for "and" (QueryParser.cpp:212-232).                                    *)
EveryQueryEnds == [](phase # "idle" => <>(phase \in {"idle", "stopped"}))
-----------------------------------------------------------------------------
\* The clauses that the conditions can be read as.
ReadableClauses ==
  UNION {{Clause(k, Reading(k, condition)) : k \in Keywords \cap DOMAIN Conditions[condition]} :
           condition \in DOMAIN Conditions}

LEMMA ReadableClausesAreRanked ==
  ASSUME NEW c \in ReadableClauses
  PROVE  /\ c.keyword \in Keywords
         /\ NumberOfSynonyms(c) \in 0..2
         /\ c.keyword = "suchthat" => Rank(c) \in 1..16
<1>1. PICK condition \in DOMAIN Conditions : c \in {Clause(k, Reading(k, condition)) : k \in Keywords \cap DOMAIN Conditions[condition]}
  BY DEF ReadableClauses
<1>0. PICK k \in Keywords \cap DOMAIN Conditions[condition] : c = Clause(k, Reading(k, condition))
  BY <1>1
<1>2. c.keyword = k /\ c.name = Reading(k, condition).name
  BY <1>0 DEF Clause
<1>3. NumberOfSynonyms(c) \in 0..2
  BY DEF NumberOfSynonyms
<1>4. ASSUME k = "suchthat"
      PROVE  Rank(c) \in 1..16
  <2>1. c.name \in Relations
    BY <1>1, <1>0, <1>2, <1>4, RelationsAssumption
  <2>2. DOMAIN RankDesignAbstraction = 1..16
    BY DEF RankDesignAbstraction
  <2>3. \E i \in 1..16 : RankDesignAbstraction[i] = c.name
    BY <2>1, <2>2 DEF Relations
  <2> QED
    BY <2>2, <2>3 DEF Rank
<1> QED
  BY <1>2, <1>3, <1>4

\* Whatever clauses a query has: their order is decided by how many synonyms
\* they have, then their kinds, then the ranks of those that have one.
LEMMA OrderIsStrictWeak ==
  ASSUME NEW cs \in SUBSET ReadableClauses
  PROVE  IsStrictWeakOrder(cs)
<1> DEFINE n == [c \in cs |-> NumberOfSynonyms(c)]
           k == [c \in cs |-> c.keyword]
           r == [c \in cs |-> IF c.keyword = "suchthat" THEN Rank(c) ELSE 0]
           less == {p \in cs \X cs : Precedes(p[1], p[2])}
<1>1. n \in [cs -> 0..2] /\ k \in [cs -> Keywords] /\ r \in [cs -> 0..16]
  BY ReadableClausesAreRanked
<1>2. \A c, d \in cs : <<c, d>> \in less <=> Precedes(c, d)
  OBVIOUS
<1>3. \A c, d \in cs : <<c, d>> \in less <=>
        \/ n[c] < n[d]
        \/ /\ n[c] = n[d]
           /\ \/ k[c] = "with" /\ k[d] # "with"
              \/ k[c] = "pattern" /\ k[d] = "suchthat"
              \/ k[c] = "suchthat" /\ k[d] = "suchthat" /\ r[c] < r[d]
  BY DEF Precedes
<1> HIDE DEF n, k, r, less
<1>4. \A c \in cs : <<c, c>> \notin less
  BY ONLY <1>1, <1>3 DEF Keywords
<1>5. \A c, d, e \in cs : <<c, d>> \in less /\ <<d, e>> \in less => <<c, e>> \in less
  BY ONLY <1>1, <1>3 DEF Keywords
<1>6. \A c, d, e \in cs : <<c, d>> \notin less /\ <<d, c>> \notin less /\ <<c, e>> \in less => <<d, e>> \in less
  BY ONLY <1>1, <1>3 DEF Keywords
<1> QED
  BY <1>2, <1>4, <1>5, <1>6, Zenon DEF IsStrictWeakOrder, Irreflexive, Transitive, TiesAreTransitive

ReadsClauses == clauses \in Seq(ReadableClauses)

LEMMA AppendedClauseIsReadable ==
  ASSUME ReadsClauses, ParseConditionalClause
  PROVE  ReadsClauses'
<1> DEFINE k == ReplaceKeywordAnd
           c == Clause(k, Reading(k, rest[2]))
<1>1. Reads(k, rest[2]) /\ clauses' = Append(clauses, c)
  BY DEF ParseConditionalClause
<1>2. k \in Keywords \cap DOMAIN Conditions[rest[2]] /\ rest[2] \in DOMAIN Conditions
  BY <1>1 DEF Reads, IsClause, Keywords
<1>3. c \in ReadableClauses
  BY <1>2 DEF ReadableClauses
<1> QED
  BY <1>1, <1>3 DEF ReadsClauses

(* In every session, whatever is asked, the clauses that std::sort is given *)
(* are in a strict weak order, over their three classes (Clause.cpp:104).   *)
THEOREM ClausesCanBeSorted == Spec => []ClausesAreSorted
<1>1. Init => ReadsClauses
  BY DEF Init, ReadsClauses
<1>2. ReadsClauses /\ [Next]_vars => ReadsClauses'
  <2> SUFFICES ASSUME ReadsClauses, [Next]_vars
               PROVE  ReadsClauses'
    OBVIOUS
  <2>1. CASE HandleQuery
    BY <2>1 DEF HandleQuery, ReadsClauses
  <2>2. CASE ParseConditionalClause
    BY <2>2, AppendedClauseIsReadable
  <2>3. CASE \/ ParseDeclarationClause \/ RejectDeclaration \/ EndDeclarations
             \/ ParseSelectPhrase \/ RejectSelectPhrase
             \/ RejectCondition \/ RejectAnd \/ KeepCondition \/ RejectRest
             \/ StartEvaluation \/ EvaluateClause \/ RejectClause \/ Answer
    BY <2>3 DEF ParseDeclarationClause, RejectDeclaration, EndDeclarations, ParseSelectPhrase, RejectSelectPhrase,
                RejectCondition, RejectAnd, KeepCondition, RejectRest, StartEvaluation, EvaluateClause,
                RejectClause, Answer, read, ReadsClauses
  <2>4. CASE UNCHANGED vars
    BY <2>4 DEF vars, read, ReadsClauses
  <2> QED
    BY <2>1, <2>2, <2>3, <2>4 DEF Next
<1>3. ReadsClauses => ClausesAreSorted
  <2> SUFFICES ASSUME ReadsClauses
               PROVE  IsStrictWeakOrder(ToSet(clauses))
    BY DEF ClausesAreSorted
  <2>1. ToSet(clauses) \in SUBSET ReadableClauses
    BY DEF ToSet, ReadsClauses
  <2> QED
    BY <2>1, OrderIsStrictWeak
<1> QED
  BY <1>1, <1>2, <1>3, PTL DEF Spec
=============================================================================
