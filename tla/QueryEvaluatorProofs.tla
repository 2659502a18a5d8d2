------------------------ MODULE QueryEvaluatorProofs ------------------------
(***************************************************************************)
(* Proofs about QueryEvaluator::EvaluateQuery, for every set of synonyms,  *)
(* values, clauses and selections.  First the clause loop (module          *)
(* QueryEvaluator): type correctness, NoAnswerLost and NoAnswerInvented.   *)
(* Then the whole function (module EvaluateQuery), which composes the loop *)
(* with the merging of tables and the selection: it implements the promise *)
(* of QueryAnswer.                                                         *)
(***************************************************************************)
EXTENDS EvaluateQuery, FiniteSetTheorems, WellFoundedInduction, TLAPS

(***************************************************************************)
(* The two lookups into the database pick a position that is there.        *)
(***************************************************************************)
LEMMA LeastElement ==
  ASSUME NEW S \in SUBSET Nat, S # {}
  PROVE  \E i \in S : \A j \in S : i <= j
<1>1. PICK i \in S : \A j \in S : ~(<<j, i>> \in OpToRel(<, Nat))
  BY NatLessThanWellFounded, WFMin, Zenon
<1>2. ASSUME NEW j \in S
      PROVE  i <= j
  <2>1. i \in Nat /\ j \in Nat
    OBVIOUS
  <2>2. ~(j < i)
    <3>1. SUFFICES ASSUME j < i
                   PROVE  <<j, i>> \in OpToRel(<, Nat)
      BY <1>1
    <3>2. QED
      BY <2>1, <3>1 DEF OpToRel
  <2>3. QED
    BY <2>1, <2>2
<1>3. QED
  BY <1>2

LEMMA FirstOfIsMember ==
  ASSUME NEW S \in SUBSET Nat, S # {}
  PROVE  FirstOf(S) \in S
<1>1. \E i \in S : \A j \in S : i <= j
  BY LeastElement
<1>2. QED
  BY <1>1 DEF FirstOf

LEMMA LastIsMember ==
  ASSUME NEW m \in Nat, NEW S \in SUBSET (1..m), S # {}
  PROVE  \E i \in S : \A j \in S : j <= i
<1> DEFINE Down == {m - i : i \in S}
<1>1. Down \in SUBSET Nat
  <2>1. \A i \in S : m - i \in Nat
    OBVIOUS
  <2>2. QED
    BY <2>1
<1>2. PICK d \in Down : \A e \in Down : d <= e
  <2>1. Down # {}
    OBVIOUS
  <2>2. QED
    BY <1>1, <2>1, LeastElement
<1>3. PICK i \in S : d = m - i
  BY <1>2
<1>4. \A j \in S : m - i <= m - j
  BY <1>2, <1>3
<1>5. \A j \in S : j <= i
  BY <1>4
<1>6. QED
  BY <1>5

(***************************************************************************)
(* Erasing a table keeps every other table and adds none.                  *)
(***************************************************************************)
LEMMA EraseKeepsOthers ==
  ASSUME NEW T, NEW db \in Seq(T), NEW i \in DOMAIN db
  PROVE  /\ Erase(db, i) \in Seq(T)
         /\ \A j \in DOMAIN Erase(db, i) : \E k \in DOMAIN db : Erase(db, i)[j] = db[k]
         /\ \A k \in DOMAIN db : k # i => \E j \in DOMAIN Erase(db, i) : Erase(db, i)[j] = db[k]
<1> DEFINE n == Len(db) - 1
           E == [j \in 1..n |-> IF j < i THEN db[j] ELSE db[j + 1]]
<1>1. /\ n \in Nat /\ i \in 1..(n + 1) /\ DOMAIN db = 1..(n + 1)
      /\ \A k \in 1..(n + 1) : db[k] \in T
  OBVIOUS
<1>2. E \in Seq(T) /\ DOMAIN E = 1..n
  <2>1. \A j \in 1..n : (IF j < i THEN db[j] ELSE db[j + 1]) \in T
    BY <1>1
  <2>2. E \in [1..n -> T]
    BY <2>1
  <2>3. QED
    BY <1>1, <2>2, SMT
<1>3. \A j \in DOMAIN E : \E k \in DOMAIN db : E[j] = db[k]
  <2> TAKE j \in DOMAIN E
  <2>1. CASE j < i
    BY <1>1, <1>2, <2>1
  <2>2. CASE ~(j < i)
    <3>1. j + 1 \in DOMAIN db /\ E[j] = db[j + 1]
      BY <1>1, <1>2, <2>2
    <3>2. QED
      BY <3>1
  <2>3. QED
    BY <2>1, <2>2
<1>4. \A k \in DOMAIN db : k # i => \E j \in DOMAIN E : E[j] = db[k]
  <2> SUFFICES ASSUME NEW k \in DOMAIN db, k # i
               PROVE  \E j \in DOMAIN E : E[j] = db[k]
    OBVIOUS
  <2>1. CASE k < i
    <3>1. k \in DOMAIN E /\ E[k] = db[k]
      BY <1>1, <1>2, <2>1
    <3>2. QED
      BY <3>1
  <2>2. CASE k > i
    <3>1. k - 1 \in DOMAIN E /\ E[k - 1] = db[k]
      BY <1>1, <1>2, <2>2
    <3>2. QED
      BY <3>1
  <2>3. QED
    BY <1>1, <2>1, <2>2
<1>5. QED
  <2>1. Erase(db, i) = E
    BY Zenon DEF Erase
  <2> HIDE DEF E
  <2>2. QED
    BY <1>2, <1>3, <1>4, <2>1

(***************************************************************************)
(* A database whose tables are well formed over a set of synonyms.         *)
(***************************************************************************)
IsDatabase(db, synonyms) ==
  /\ db \in Seq(Table)
  /\ \A i \in DOMAIN db : IsTable(db[i], synonyms)

\* An assignment that agrees with every table and with the synonyms' types.
FitsAll(f, db) == \A i \in DOMAIN db : Fits(f, db[i])

LEMMA RowsAreTyped ==
  ASSUME NEW S, NEW t, IsTable(t, S), NEW row \in t.rows, NEW s \in t.headers
  PROVE  row[s] \in Domain[s]
BY DEF IsTable, Assignments

LEMMA ProjectionValue ==
  ASSUME NEW f, NEW t, Fits(f, t), NEW s \in t.headers
  PROVE  \E row \in t.rows : row = Project(f, t.headers) /\ row[s] = f[s]
BY DEF Fits, Project

(***************************************************************************)
(* GetSmallestDesignEntitySet returns values of the synonym's type, and    *)
(* every value the tables still allow for it.                              *)
(***************************************************************************)
LEMMA SmallestSetProperties ==
  ASSUME NEW S, NEW db, IsDatabase(db, S), NEW s \in Synonym
  PROVE  /\ GetSmallestDesignEntitySet(s, db) \subseteq Domain[s]
         /\ \A f : FitsAll(f, db) /\ f[s] \in Domain[s] => f[s] \in GetSmallestDesignEntitySet(s, db)
<1> DEFINE holders == {i \in DOMAIN db : s \in db[i].headers}
           last    == CHOOSE i \in holders : \A j \in holders : j <= i
<1>1. CASE holders = {}
  BY <1>1 DEF GetSmallestDesignEntitySet
<1>2. CASE holders # {}
  <2>1. Len(db) \in Nat /\ DOMAIN db = 1..Len(db)
    BY DEF IsDatabase
  <2>2. holders \in SUBSET (1..Len(db))
    BY <2>1
  <2>3. \E i \in holders : \A j \in holders : j <= i
    <3> HIDE DEF holders
    <3> QED BY <1>2, <2>1, <2>2, LastIsMember
  <2>4. last \in holders
    BY <2>3
  <2>5. GetSmallestDesignEntitySet(s, db) = GetColumn(db[last], s)
    BY <1>2 DEF GetSmallestDesignEntitySet
  <2>6. IsTable(db[last], S) /\ s \in db[last].headers
    BY <2>4 DEF IsDatabase
  <2>7. GetColumn(db[last], s) \subseteq Domain[s]
    BY <2>6, RowsAreTyped DEF GetColumn
  <2>8. ASSUME NEW f, FitsAll(f, db)
        PROVE  f[s] \in GetColumn(db[last], s)
    <3>1. Fits(f, db[last])
      BY <2>4, <2>8 DEF FitsAll
    <3>2. s \in db[last].headers
      BY <2>6
    <3>3. PICK row \in db[last].rows : row = Project(f, db[last].headers) /\ row[s] = f[s]
      <4> HIDE DEF last
      <4> QED BY ONLY <3>1, <3>2, ProjectionValue, Zenon
    <3>4. QED
      BY <3>3 DEF GetColumn
  <2>9. QED
    BY <2>5, <2>7, <2>8
<1>3. QED
  BY <1>1, <1>2

(***************************************************************************)
(* The column of any parameter.                                            *)
(***************************************************************************)
LEMMA ColumnProperties ==
  ASSUME NEW S, NEW db, IsDatabase(db, S), NEW wild \in SUBSET Value,
         NEW p \in Synonym \cup Value \cup {Wildcard}
  PROVE  /\ ConvertClauseParamToColumn(p, wild, db) \subseteq Value
         /\ p \in Synonym => ConvertClauseParamToColumn(p, wild, db) \subseteq Domain[p]
         /\ \A f : FitsAll(f, db) /\ (p \in Synonym => f[p] \in Domain[p]) =>
                 ParamValues(p, wild, f) \subseteq ConvertClauseParamToColumn(p, wild, db)
<1> USE EvaluatorAssumption DEF ConvertClauseParamToColumn, ParamValues
<1>1. CASE p \in Synonym
  <2>1. Domain[p] \subseteq Value
    BY <1>1
  <2>2. ConvertClauseParamToColumn(p, wild, db) = GetSmallestDesignEntitySet(p, db)
    BY <1>1
  <2>3. \A f : ParamValues(p, wild, f) = {f[p]}
    BY <1>1
  <2>4. QED
    BY <1>1, <2>1, <2>2, <2>3, SmallestSetProperties
<1>2. CASE p = Wildcard
  BY <1>2
<1>3. CASE p \in Value
  <2>1. p \notin Synonym /\ p # Wildcard
    BY <1>3
  <2>2. QED
    BY <1>3, <2>1
<1>4. QED
  BY <1>1, <1>2, <1>3

\* A constant and "_" mean the same whatever the assignment.
LEMMA ConstantColumn ==
  ASSUME NEW db, NEW wild, NEW p, p \notin Synonym, NEW f
  PROVE  ConvertClauseParamToColumn(p, wild, db) = ParamValues(p, wild, f)
<1>1. CASE p = Wildcard
  BY <1>1 DEF ConvertClauseParamToColumn, ParamValues
<1>2. CASE p # Wildcard
  BY <1>2 DEF ConvertClauseParamToColumn, ParamValues
<1>3. QED
  BY <1>1, <1>2

(***************************************************************************)
(* What ConvertClauseToResultTable returns.                                *)
(***************************************************************************)
LEMMA FirstTableOfBoth ==
  ASSUME NEW S, NEW db, IsDatabase(db, S), NEW c, TablesOfBoth(c, db) # {}
  PROVE  /\ FirstOf(TablesOfBoth(c, db)) \in DOMAIN db
         /\ {c.lhs, c.rhs} \subseteq db[FirstOf(TablesOfBoth(c, db))].headers
         /\ IsTable(db[FirstOf(TablesOfBoth(c, db))], S)
<1>1. TablesOfBoth(c, db) \in SUBSET Nat
  <2>1. DOMAIN db = 1..Len(db) /\ Len(db) \in Nat
    BY DEF IsDatabase
  <2>2. QED
    BY <2>1 DEF TablesOfBoth
<1>2. FirstOf(TablesOfBoth(c, db)) \in TablesOfBoth(c, db)
  BY <1>1, FirstOfIsMember
<1>3. QED
  BY <1>2 DEF TablesOfBoth, IsDatabase

\* Every candidate pair has the types of the parameters, and a parameter that
\* is no synonym takes the values it stands for.
LEMMA PairsAreTyped ==
  ASSUME NEW S \in SUBSET Synonym, NEW db, IsDatabase(db, S), NEW c \in Clauses, NEW p \in CandidatePairs(c, db)
  PROVE  /\ p \in Value \X Value
         /\ c.lhs \in Synonym => p[1] \in Domain[c.lhs]
         /\ c.rhs \in Synonym => p[2] \in Domain[c.rhs]
         /\ c.lhs \notin Synonym => \A f : p[1] \in ParamValues(c.lhs, c.wild, f)
         /\ c.rhs \notin Synonym => \A f : p[2] \in ParamValues(c.rhs, c.wild, f)
         /\ c.lhs = c.rhs /\ c.lhs \in Synonym => p[1] = p[2]
<1> DEFINE L == ConvertClauseParamToColumn(c.lhs, c.wild, db)
           R == ConvertClauseParamToColumn(c.rhs, c.wild, db)
<1>1. /\ c.lhs \in Synonym \cup Value \cup {Wildcard}
      /\ c.rhs \in Synonym \cup Value \cup {Wildcard}
      /\ c.wild \in SUBSET Value
      /\ \A s \in Synonym : Domain[s] \subseteq Value
      /\ Synonym \cap Value = {}
      /\ Wildcard \notin Synonym \cup Value
  BY EvaluatorAssumption
<1>2. CASE TablesOfBoth(c, db) # {}
  <2> DEFINE t == db[FirstOf(TablesOfBoth(c, db))]
  <2>1. IsTable(t, S) /\ {c.lhs, c.rhs} \subseteq t.headers
    BY <1>2, FirstTableOfBoth
  <2>2. c.lhs \in Synonym /\ c.rhs \in Synonym
    BY <2>1 DEF IsTable
  <2>3. CandidatePairs(c, db) = {<<row[c.lhs], row[c.rhs]>> : row \in t.rows}
    BY <1>2 DEF CandidatePairs
  <2>4. PICK row \in t.rows : p = <<row[c.lhs], row[c.rhs]>>
    BY <2>3
  <2>5. row[c.lhs] \in Domain[c.lhs] /\ row[c.rhs] \in Domain[c.rhs]
    BY <2>1, RowsAreTyped
  <2>6. QED
    BY <1>1, <2>2, <2>4, <2>5
<1>3. /\ L \subseteq Value /\ R \subseteq Value
      /\ c.lhs \in Synonym => L \subseteq Domain[c.lhs]
      /\ c.rhs \in Synonym => R \subseteq Domain[c.rhs]
  <2>1. ASSUME NEW q \in {c.lhs, c.rhs}
        PROVE  /\ ConvertClauseParamToColumn(q, c.wild, db) \subseteq Value
               /\ q \in Synonym => ConvertClauseParamToColumn(q, c.wild, db) \subseteq Domain[q]
    <3>1. q \in Synonym \cup Value \cup {Wildcard}
      BY <1>1
    <3>2. QED
      BY <1>1, <3>1, ColumnProperties
  <2>2. QED
    BY <2>1
<1>b. /\ c.lhs \notin Synonym => \A f : L = ParamValues(c.lhs, c.wild, f)
      /\ c.rhs \notin Synonym => \A f : R = ParamValues(c.rhs, c.wild, f)
  BY ConstantColumn
<1>4. CASE TablesOfBoth(c, db) = {} /\ IsSimilarParams(c)
  <2>1. CandidatePairs(c, db) = {<<v, v>> : v \in L}
    BY <1>4 DEF CandidatePairs
  <2>2. c.lhs = c.rhs /\ L = R
    BY <1>4 DEF IsSimilarParams
  <2>3. PICK v \in L : p = <<v, v>>
    BY <2>1
  <2>4. QED
    BY <1>3, <1>b, <2>2, <2>3
<1>5. CASE TablesOfBoth(c, db) = {} /\ ~IsSimilarParams(c)
  <2>1. CandidatePairs(c, db) = L \X R
    BY <1>5 DEF CandidatePairs
  <2>2. c.lhs # c.rhs \/ c.lhs \notin Synonym
    BY <1>1, <1>5 DEF IsSimilarParams
  <2>3. p[1] \in L /\ p[2] \in R /\ p \in Value \X Value
    BY <1>3, <2>1
  <2>4. QED
    BY <1>3, <1>b, <2>2, <2>3
<1>6. QED
  BY <1>2, <1>4, <1>5

\* No pair that an assignment still allows is missing from the candidates.
LEMMA PairsAreComplete ==
  ASSUME NEW S \in SUBSET Synonym, NEW db, IsDatabase(db, S), NEW c \in Clauses, NEW f, FitsAll(f, db),
         c.lhs \in Synonym => f[c.lhs] \in Domain[c.lhs],
         c.rhs \in Synonym => f[c.rhs] \in Domain[c.rhs],
         NEW v \in ParamValues(c.lhs, c.wild, f), NEW w \in ParamValues(c.rhs, c.wild, f),
         IsSimilarParams(c) => v = w
  PROVE  <<v, w>> \in CandidatePairs(c, db)
<1> DEFINE L == ConvertClauseParamToColumn(c.lhs, c.wild, db)
           R == ConvertClauseParamToColumn(c.rhs, c.wild, db)
<1>1. /\ c.lhs \in Synonym \cup Value \cup {Wildcard}
      /\ c.rhs \in Synonym \cup Value \cup {Wildcard}
      /\ c.wild \in SUBSET Value
  BY EvaluatorAssumption
<1>2. CASE TablesOfBoth(c, db) # {}
  <2> DEFINE i == FirstOf(TablesOfBoth(c, db))
             row == Project(f, db[i].headers)
  <2>1. i \in DOMAIN db /\ IsTable(db[i], S) /\ {c.lhs, c.rhs} \subseteq db[i].headers
    BY <1>2, FirstTableOfBoth
  <2>2. row \in db[i].rows
    BY <2>1 DEF FitsAll, Fits
  <2>3. row[c.lhs] = f[c.lhs] /\ row[c.rhs] = f[c.rhs]
    BY <2>1 DEF Project
  <2>4. v = f[c.lhs] /\ w = f[c.rhs]
    <3>1. c.lhs \in Synonym /\ c.rhs \in Synonym
      BY <2>1 DEF IsTable
    <3>2. /\ ParamValues(c.lhs, c.wild, f) = {f[c.lhs]}
          /\ ParamValues(c.rhs, c.wild, f) = {f[c.rhs]}
      BY <3>1, EvaluatorAssumption DEF ParamValues
    <3>3. QED
      BY <3>2
  <2>5. CandidatePairs(c, db) = {<<r[c.lhs], r[c.rhs]>> : r \in db[i].rows}
    BY <1>2 DEF CandidatePairs
  <2>6. QED
    BY <2>2, <2>3, <2>4, <2>5
<1>3. v \in L /\ w \in R
  BY <1>1, ColumnProperties
<1>4. CASE TablesOfBoth(c, db) = {} /\ IsSimilarParams(c)
  <2>1. CandidatePairs(c, db) = {<<u, u>> : u \in L}
    BY <1>4 DEF CandidatePairs
  <2>2. QED
    BY <1>3, <1>4, <2>1
<1>5. CASE TablesOfBoth(c, db) = {} /\ ~IsSimilarParams(c)
  <2>1. CandidatePairs(c, db) = L \X R
    BY <1>5 DEF CandidatePairs
  <2>2. QED
    BY <1>3, <2>1
<1>6. QED
  BY <1>2, <1>4, <1>5

\* The lookup only takes tables away, and at most the one it read.
LEMMA DatabaseAfterConvertProperties ==
  ASSUME NEW S, NEW db, IsDatabase(db, S), NEW c
  PROVE  /\ IsDatabase(DatabaseAfterConvert(c, db), S)
         /\ \A f : FitsAll(f, db) => FitsAll(f, DatabaseAfterConvert(c, db))
         /\ \A f : FitsAll(f, DatabaseAfterConvert(c, db))
                    /\ (TablesOfBoth(c, db) # {} => Fits(f, db[FirstOf(TablesOfBoth(c, db))]))
                 => FitsAll(f, db)
<1>1. CASE TablesOfBoth(c, db) = {}
  BY <1>1 DEF DatabaseAfterConvert
<1>2. CASE TablesOfBoth(c, db) # {}
  <2> DEFINE i == FirstOf(TablesOfBoth(c, db))
             rest == Erase(db, i)
  <2>1. i \in DOMAIN db
    BY <1>2, FirstTableOfBoth
  <2>2. DatabaseAfterConvert(c, db) = rest
    BY <1>2 DEF DatabaseAfterConvert
  <2>3. /\ rest \in Seq(Table)
        /\ \A j \in DOMAIN rest : \E k \in DOMAIN db : rest[j] = db[k]
        /\ \A k \in DOMAIN db : k # i => \E j \in DOMAIN rest : rest[j] = db[k]
    BY <2>1, EraseKeepsOthers DEF IsDatabase
  <2> HIDE DEF rest, i
  <2>4. IsDatabase(rest, S)
    BY <2>3 DEF IsDatabase
  <2>5. \A f : FitsAll(f, db) => FitsAll(f, rest)
    BY <2>3 DEF FitsAll
  <2>6. \A f : FitsAll(f, rest) /\ Fits(f, db[i]) => FitsAll(f, db)
    BY <2>3 DEF FitsAll
  <2>7. QED
    BY <2>2, <2>4, <2>5, <2>6, <1>2 DEF i
<1>3. QED
  BY <1>1, <1>2

(***************************************************************************)
(* The meaning of clauses: a clause looks at its own synonyms only, so     *)
(* satisfying more clauses restricts to satisfying fewer.                  *)
(***************************************************************************)
LEMMA SynonymsOfOneMore ==
  ASSUME NEW C, NEW c
  PROVE  /\ SynonymsOf(C) \subseteq SynonymsOf(C \cup {c})
         /\ SynonymsOf(C \cup {c}) \subseteq Synonym
         /\ {c.lhs, c.rhs} \cap Synonym \subseteq SynonymsOf(C \cup {c})
         /\ \A s \in SynonymsOf(C \cup {c}) : s \in SynonymsOf(C) \/ s \in {c.lhs, c.rhs}
BY DEF SynonymsOf

LEMMA HoldsIsLocal ==
  ASSUME NEW c, NEW f, NEW g,
         c.lhs \in Synonym => f[c.lhs] = g[c.lhs],
         c.rhs \in Synonym => f[c.rhs] = g[c.rhs]
  PROVE  Holds(c, f) = Holds(c, g)
<1>1. ParamValues(c.lhs, c.wild, f) = ParamValues(c.lhs, c.wild, g)
  <2>1. CASE c.lhs \in Synonym
    BY <2>1, EvaluatorAssumption DEF ParamValues
  <2>2. CASE c.lhs \notin Synonym
    BY <2>2 DEF ParamValues
  <2>3. QED
    BY <2>1, <2>2
<1>2. ParamValues(c.rhs, c.wild, f) = ParamValues(c.rhs, c.wild, g)
  <2>1. CASE c.rhs \in Synonym
    BY <2>1, EvaluatorAssumption DEF ParamValues
  <2>2. CASE c.rhs \notin Synonym
    BY <2>2 DEF ParamValues
  <2>3. QED
    BY <2>1, <2>2
<1>3. QED
  BY <1>1, <1>2 DEF Holds

LEMMA SynonymInSet ==
  ASSUME NEW C, NEW d \in C
  PROVE  {d.lhs, d.rhs} \cap Synonym \subseteq SynonymsOf(C)
BY DEF SynonymsOf

LEMMA SatisfyingRestricts ==
  ASSUME NEW C, NEW c, NEW g \in Satisfying(C \cup {c})
  PROVE  /\ Project(g, SynonymsOf(C)) \in Satisfying(C)
         /\ Holds(c, g)
         /\ \A s \in {c.lhs, c.rhs} \cap Synonym : g[s] \in Domain[s]
<1> DEFINE S == SynonymsOf(C)
           f == Project(g, S)
<1>1. g \in Assignments(SynonymsOf(C \cup {c})) /\ \A d \in C \cup {c} : Holds(d, g)
  BY DEF Satisfying
<1>2. f \in Assignments(S)
  <2>1. S \subseteq SynonymsOf(C \cup {c})
    BY SynonymsOfOneMore
  <2>2. QED
    BY <1>1, <2>1 DEF Assignments, Project
<1>3. ASSUME NEW d \in C
      PROVE  Holds(d, f)
  <2>1. \A s \in {d.lhs, d.rhs} \cap Synonym : f[s] = g[s]
    BY SynonymInSet DEF Project
  <2>2. Holds(d, f) = Holds(d, g)
    BY <2>1, HoldsIsLocal
  <2>3. QED
    BY <1>1, <2>2
<1>4. \A s \in {c.lhs, c.rhs} \cap Synonym : g[s] \in Domain[s]
  BY <1>1, SynonymsOfOneMore DEF Assignments
<1>5. QED
  BY <1>1, <1>2, <1>3, <1>4 DEF Satisfying

LEMMA FitsAllProject ==
  ASSUME NEW S, NEW db, IsDatabase(db, S), NEW g
  PROVE  FitsAll(Project(g, S), db) <=> FitsAll(g, db)
<1>1. ASSUME NEW i \in DOMAIN db
      PROVE  Project(Project(g, S), db[i].headers) = Project(g, db[i].headers)
  <2>1. db[i].headers \subseteq S
    BY DEF IsDatabase, IsTable
  <2>2. QED
    BY <2>1 DEF Project
<1>2. QED
  BY <1>1 DEF FitsAll, Fits

LEMMA IsDatabaseGrows ==
  ASSUME NEW S, NEW S2, S \subseteq S2, NEW db, IsDatabase(db, S)
  PROVE  IsDatabase(db, S2)
BY DEF IsDatabase, IsTable

(***************************************************************************)
(* The table GenerateTable makes of some of the candidate pairs.           *)
(***************************************************************************)
LEMMA NewTableProperties ==
  ASSUME NEW S \in SUBSET Synonym, NEW db, IsDatabase(db, S), NEW c \in Clauses, NEW C,
         NEW valid \in SUBSET CandidatePairs(c, db)
  PROVE  /\ GenerateTable(c, valid) \in Table
         /\ ~IsEmpty(GenerateTable(c, valid)) => IsTable(GenerateTable(c, valid), SynonymsOf(C \cup {c}))
<1> DEFINE h == {c.lhs, c.rhs} \cap Synonym
           Row(p) == [s \in h |-> IF s = c.lhs THEN p[1] ELSE p[2]]
           t == [headers |-> h, rows |-> {Row(p) : p \in valid}]
<1>1. GenerateTable(c, valid) = t
  BY DEF GenerateTable
<1>2. ASSUME NEW p \in valid
      PROVE  Row(p) \in Assignments(h) /\ Row(p) \in [h -> Value]
  <2>1. /\ p \in Value \X Value
        /\ c.lhs \in Synonym => p[1] \in Domain[c.lhs]
        /\ c.rhs \in Synonym => p[2] \in Domain[c.rhs]
    BY PairsAreTyped
  <2>2. Row(p) \in [h -> Value]
    BY <2>1
  <2>3. \A s \in h : Row(p)[s] \in Domain[s]
    BY <2>1
  <2>4. QED
    BY <2>2, <2>3 DEF Assignments
<1>3. t \in Table
  <2>1. h \in SUBSET Synonym
    OBVIOUS
  <2>2. {Row(p) : p \in valid} \in SUBSET (UNION {[k -> Value] : k \in SUBSET Synonym})
    BY <1>2, <2>1
  <2>3. QED
    BY <2>1, <2>2 DEF Table
<1>4. ASSUME h # {}
      PROVE  IsTable(t, SynonymsOf(C \cup {c}))
  <2>1. h \subseteq SynonymsOf(C \cup {c})
    BY SynonymsOfOneMore
  <2>2. \E s, u \in SynonymsOf(C \cup {c}) : h = {s, u}
    <3>1. CASE c.lhs \in Synonym /\ c.rhs \in Synonym
      BY <2>1, <3>1
    <3>2. CASE c.lhs \in Synonym /\ c.rhs \notin Synonym
      <4>1. h = {c.lhs, c.lhs}
        BY <3>2
      <4>2. QED
        BY <2>1, <4>1
    <3>3. CASE c.lhs \notin Synonym /\ c.rhs \in Synonym
      <4>1. h = {c.rhs, c.rhs}
        BY <3>3
      <4>2. QED
        BY <2>1, <4>1
    <3>4. QED
      BY <1>4, <3>1, <3>2, <3>3
  <2>3. t.rows \subseteq Assignments(t.headers)
    BY <1>2
  <2>4. QED
    BY <2>1, <2>2, <2>3 DEF IsTable
<1>5. QED
  BY <1>1, <1>3, <1>4 DEF IsEmpty

\* An assignment fits the new table exactly when one of its pairs is the
\* assignment's own pair of values.
LEMMA NewTableFits ==
  ASSUME NEW c, NEW valid, NEW f,
         NEW p \in valid, p[1] \in ParamValues(c.lhs, c.wild, f), p[2] \in ParamValues(c.rhs, c.wild, f)
  PROVE  Fits(f, GenerateTable(c, valid))
<1> DEFINE h == {c.lhs, c.rhs} \cap Synonym
           Row(q) == [s \in h |-> IF s = c.lhs THEN q[1] ELSE q[2]]
<1>1. \A s \in h : (IF s = c.lhs THEN p[1] ELSE p[2]) = f[s]
  BY EvaluatorAssumption DEF ParamValues
<1>2. Row(p) = Project(f, h)
  BY <1>1 DEF Project
<1>3. Row(p) \in {Row(q) : q \in valid}
  OBVIOUS
<1>4. QED
  BY <1>2, <1>3 DEF Fits, GenerateTable

LEMMA FitsNewTable ==
  ASSUME NEW c, NEW valid, NEW f, Fits(f, GenerateTable(c, valid))
  PROVE  \E p \in valid : /\ c.lhs \in Synonym => p[1] = f[c.lhs]
                          /\ c.rhs \in Synonym /\ c.rhs # c.lhs => p[2] = f[c.rhs]
<1> DEFINE h == {c.lhs, c.rhs} \cap Synonym
           Row(q) == [s \in h |-> IF s = c.lhs THEN q[1] ELSE q[2]]
<1>1. Project(f, h) \in {Row(q) : q \in valid}
  BY DEF Fits, GenerateTable
<1>2. PICK p \in valid : Row(p) = Project(f, h)
  BY <1>1
<1>3. \A s \in h : Row(p)[s] = f[s]
  BY <1>2 DEF Project
<1>4. /\ c.lhs \in Synonym => p[1] = f[c.lhs]
      /\ c.rhs \in Synonym /\ c.rhs # c.lhs => p[2] = f[c.rhs]
  BY <1>3
<1>5. QED
  BY <1>4

(***************************************************************************)
(* The effect of storing a table, in terms of what fits the database.      *)
(***************************************************************************)
LEMMA StoreTableEffect ==
  ASSUME NEW S \in SUBSET Synonym, IsDatabase(database, S), NEW c \in Clauses, NEW C,
         S \subseteq SynonymsOf(C \cup {c}),
         NEW valid \in SUBSET CandidatePairs(c, database), StoreTable(c, valid)
  PROVE  /\ IsDatabase(database', SynonymsOf(C \cup {c}))
         /\ \A f : FitsAll(f, database) /\ Fits(f, GenerateTable(c, valid)) => FitsAll(f, database')
         /\ \A f : FitsAll(f, database') =>
                 /\ FitsAll(f, DatabaseAfterConvert(c, database))
                 /\ ~IsEmpty(GenerateTable(c, valid)) => Fits(f, GenerateTable(c, valid))
<1> DEFINE db == DatabaseAfterConvert(c, database)
           t == GenerateTable(c, valid)
<1>1. IsDatabase(db, S) /\ IsDatabase(db, SynonymsOf(C \cup {c}))
  BY DatabaseAfterConvertProperties, IsDatabaseGrows
<1>2. \A f : FitsAll(f, database) => FitsAll(f, db)
  BY DatabaseAfterConvertProperties
<1>3. CASE IsEmpty(t)
  <2>1. database' = db
    BY <1>3 DEF StoreTable
  <2>2. QED
    BY <1>1, <1>2, <1>3, <2>1
<1>4. CASE ~IsEmpty(t)
  <2>1. database' = Append(db, t)
    BY <1>4 DEF StoreTable
  <2>2. t \in Table /\ IsTable(t, SynonymsOf(C \cup {c}))
    BY <1>4, NewTableProperties
  <2> HIDE DEF db, t
  <2>3. db \in Seq(Table)
    BY <1>1 DEF IsDatabase
  <2>4. /\ database' \in Seq(Table)
        /\ DOMAIN db = 1..Len(db) /\ Len(db) \in Nat
        /\ DOMAIN database' = 1..(Len(db) + 1)
        /\ \A i \in DOMAIN db : database'[i] = db[i]
        /\ database'[Len(db) + 1] = t
    BY <2>1, <2>2, <2>3
  <2>5. /\ \A i \in DOMAIN database' : i \in DOMAIN db \/ i = Len(db) + 1
        /\ DOMAIN db \subseteq DOMAIN database'
        /\ Len(db) + 1 \in DOMAIN database'
    BY <2>4
  <2>6. IsDatabase(database', SynonymsOf(C \cup {c}))
    BY <1>1, <2>2, <2>4, <2>5 DEF IsDatabase
  <2>7. \A f : FitsAll(f, database') <=> FitsAll(f, db) /\ Fits(f, t)
    BY <2>4, <2>5 DEF FitsAll
  <2>8. QED
    BY <1>2, <2>6, <2>7 DEF db, t
<1>5. QED
  BY <1>3, <1>4

(***************************************************************************)
(* The pairs an Evaluate function stores, whatever the clause's kind.      *)
(***************************************************************************)
ValidPairs(c) ==
  {p \in CandidatePairs(c, database) \cap c.rel : c.expr # Wildcard => p[1] \in c.expr}

\* A clause that answers from its parameters or one column, storing nothing.
AnswersDirectly(c) ==
  \/ c.kind = "suchthat" /\ c.no_similar /\ IsSimilarParams(c)
  \/ c.kind = "suchthat" /\ IsWildcardParams(c)
  \/ c.kind = "pattern" /\ c.rhs = Wildcard /\ c.expr = Wildcard
  \/ c.kind = "with" /\ IsSimilarParams(c)

DirectAnswer(c) ==
  CASE c.kind = "suchthat" /\ IsSimilarParams(c)   -> FALSE
    [] c.kind = "suchthat" /\ ~IsSimilarParams(c)  -> (c.wild \X c.wild) \cap c.rel # {}
    [] OTHER -> ConvertClauseParamToColumn(c.lhs, c.wild, database) # {}

LEMMA ClauseSteps ==
  ASSUME NEW c \in Clauses, EvaluateClause(c)
  PROVE  \/ ~AnswersDirectly(c) /\ StoreTable(c, ValidPairs(c))
         \/ AnswersDirectly(c) /\ TakeClause(c, DirectAnswer(c)) /\ UNCHANGED database
<1>1. /\ c.kind # "pattern" => ValidPairs(c) = CandidatePairs(c, database) \cap c.rel
      /\ IsWildcardParams(c) => ~IsSimilarParams(c)
  BY EvaluatorAssumption DEF ValidPairs, IsWildcardParams, IsSimilarParams
<1>2. CASE EvaluateSuchThatClause(c)
  BY <1>1, <1>2 DEF EvaluateSuchThatClause, AnswersDirectly, DirectAnswer
<1>3. CASE EvaluateConditionalPatternClause(c)
  BY <1>1, <1>3 DEF EvaluateConditionalPatternClause, AnswersDirectly
<1>4. CASE EvaluatePatternClause(c)
  BY <1>4 DEF EvaluatePatternClause, AnswersDirectly, DirectAnswer, ValidPairs
<1>5. CASE EvaluateWithClause(c)
  BY <1>1, <1>5 DEF EvaluateWithClause, AnswersDirectly, DirectAnswer
<1>6. QED
  BY <1>2, <1>3, <1>4, <1>5 DEF EvaluateClause

(***************************************************************************)
(* Type correctness.                                                       *)
(***************************************************************************)
LEMMA TypeOKDatabase ==
  ASSUME TypeOK
  PROVE  /\ IsDatabase(database, SynonymsOf(evaluated))
         /\ SynonymsOf(evaluated) \in SUBSET Synonym
         /\ \A c : SynonymsOf(evaluated) \subseteq SynonymsOf(evaluated \cup {c})
BY DEF TypeOK, IsDatabase, SynonymsOf

LEMMA TypeOKStep ==
  ASSUME TypeOK, [Next]_vars
  PROVE  TypeOK'
<1>1. CASE UNCHANGED vars
  BY <1>1 DEF TypeOK, vars
<1>2. ASSUME Next
      PROVE  TypeOK'
  <2>1. PICK c \in Clauses : EvaluateClause(c) \/ RejectClause(c)
    BY <1>2 DEF Next
  <2>2. count \in 0..MaxClauses /\ count < MaxClauses /\ MaxClauses \in Nat
    BY <1>2, EvaluatorAssumption DEF Next, TypeOK
  <2>3. CASE RejectClause(c)
    BY <2>3 DEF RejectClause, TypeOK
  <2>4. CASE EvaluateClause(c)
    <3>1. evaluated' = evaluated \cup {c} /\ count' = count + 1 /\ status' \in {"evaluating", "false"}
      BY <2>4, ClauseSteps DEF StoreTable, TakeClause
    <3>2. IsDatabase(database', SynonymsOf(evaluated \cup {c}))
      <4>1. CASE StoreTable(c, ValidPairs(c))
        <5>1. ValidPairs(c) \in SUBSET CandidatePairs(c, database)
          BY DEF ValidPairs
        <5>2. QED
          BY <4>1, <5>1, TypeOKDatabase, StoreTableEffect
      <4>2. CASE UNCHANGED database
        BY <4>2, TypeOKDatabase, IsDatabaseGrows
      <4>3. QED
        BY <2>4, <4>1, <4>2, ClauseSteps
    <3>3. evaluated' \subseteq Clauses /\ count' \in 0..MaxClauses
      BY <2>2, <3>1 DEF TypeOK
    <3>4. /\ database' \in Seq(Table)
          /\ \A i \in DOMAIN database' : IsTable(database'[i], SynonymsOf(evaluated'))
      BY <3>1, <3>2, Zenon DEF IsDatabase
    <3>5. QED
      BY <3>1, <3>3, <3>4 DEF TypeOK
  <2>5. QED
    BY <2>1, <2>3, <2>4
<1>3. QED
  BY <1>1, <1>2

\* Every table ever stored has one or two columns, over synonyms of clauses
\* already evaluated, holding values of those synonyms' types.
THEOREM TypeCorrect == Spec => []TypeOK
<1>1. Init => TypeOK
  BY EvaluatorAssumption DEF Init, TypeOK
<1>2. TypeOK /\ [Next]_vars => TypeOK'
  BY TypeOKStep
<1>3. QED
  BY <1>1, <1>2, PTL DEF Spec

(***************************************************************************)
(* No answer is lost.  An assignment that satisfies one clause more fits   *)
(* all tables so far (induction), so its own pair of values is among the   *)
(* candidates and among the valid ones, and it fits the new table.         *)
(***************************************************************************)
LEMMA SatisfyingFitsAll ==
  ASSUME TypeOK, NoAnswerLost, status = "evaluating", NEW c, NEW g \in Satisfying(evaluated \cup {c})
  PROVE  FitsAll(g, database)
<1> DEFINE S == SynonymsOf(evaluated)
<1>1. Project(g, S) \in Satisfying(evaluated)
  BY SatisfyingRestricts
<1>2. FitsAll(Project(g, S), database)
  BY <1>1 DEF NoAnswerLost, Answers, FitsAll
<1>3. QED
  BY <1>2, TypeOKDatabase, FitsAllProject

LEMMA SatisfyingHasValidPair ==
  ASSUME TypeOK, NEW c \in Clauses, NEW g \in Satisfying(evaluated \cup {c}), FitsAll(g, database),
         ~AnswersDirectly(c)
  PROVE  \E p \in ValidPairs(c) : p[1] \in ParamValues(c.lhs, c.wild, g) /\ p[2] \in ParamValues(c.rhs, c.wild, g)
<1>1. /\ c.lhs \in Synonym => g[c.lhs] \in Domain[c.lhs]
      /\ c.rhs \in Synonym => g[c.rhs] \in Domain[c.rhs]
  BY SatisfyingRestricts
<1>2. PICK v \in ParamValues(c.lhs, c.wild, g), w \in ParamValues(c.rhs, c.wild, g) :
        <<v, w>> \in c.rel /\ (c.expr # Wildcard => v \in c.expr)
  BY SatisfyingRestricts DEF Holds
<1>3. IsSimilarParams(c) => v = w
  <2>1. SUFFICES ASSUME c.lhs = c.rhs, c.lhs # Wildcard
                 PROVE  v = w
    BY DEF IsSimilarParams
  <2>2. \E u : ParamValues(c.lhs, c.wild, g) = {u}
    <3>1. CASE c.lhs \in Synonym
      BY <3>1, EvaluatorAssumption DEF ParamValues
    <3>2. CASE c.lhs \notin Synonym
      BY <2>1, <3>2 DEF ParamValues
    <3>3. QED
      BY <3>1, <3>2
  <2>3. QED
    BY <2>1, <2>2
<1>4. <<v, w>> \in CandidatePairs(c, database)
  BY <1>1, <1>3, TypeOKDatabase, PairsAreComplete
<1>5. <<v, w>> \in ValidPairs(c)
  BY <1>2, <1>4 DEF ValidPairs
<1>6. QED
  BY <1>5

\* A direct answer FALSE is right: nothing satisfies the clause.
LEMMA DirectFalseIsSound ==
  ASSUME ShortcutsAreSound, TypeOK, NEW c \in Clauses, AnswersDirectly(c), ~DirectAnswer(c),
         NEW g \in Satisfying(evaluated \cup {c}), FitsAll(g, database)
  PROVE  FALSE
<1>1. ShortcutIsSound(c)
  BY DEF ShortcutsAreSound
<1>2. PICK v \in ParamValues(c.lhs, c.wild, g), w \in ParamValues(c.rhs, c.wild, g) : <<v, w>> \in c.rel
  BY SatisfyingRestricts DEF Holds
<1>3. \A s \in {c.lhs, c.rhs} \cap Synonym : g[s] \in Domain[s]
  BY SatisfyingRestricts
<1>4. CASE c.kind = "suchthat" /\ c.no_similar /\ IsSimilarParams(c)
  <2>1. c.lhs = c.rhs /\ c.lhs # Wildcard
    BY <1>4 DEF IsSimilarParams
  <2>2. CASE c.lhs \in Synonym
    <3>1. ParamValues(c.lhs, c.wild, g) = {g[c.lhs]} /\ g[c.lhs] \in ParamRange(c.lhs)
      BY <1>3, <2>2, EvaluatorAssumption DEF ParamValues, ParamRange
    <3>2. QED
      BY <1>1, <1>2, <1>4, <2>1, <3>1 DEF ShortcutIsSound
  <2>3. CASE c.lhs \notin Synonym
    <3>1. ParamValues(c.lhs, c.wild, g) = {c.lhs} /\ c.lhs \in ParamRange(c.lhs)
      BY <2>1, <2>3 DEF ParamValues, ParamRange
    <3>2. QED
      BY <1>1, <1>2, <1>4, <2>1, <3>1 DEF ShortcutIsSound
  <2>4. QED
    BY <2>2, <2>3
<1>5. CASE c.kind = "suchthat" /\ IsWildcardParams(c)
  <2>1. c.lhs = Wildcard /\ c.rhs = Wildcard /\ Wildcard \notin Synonym
    BY <1>5, EvaluatorAssumption DEF IsWildcardParams
  <2>2. ParamValues(Wildcard, c.wild, g) = c.wild
    BY <2>1 DEF ParamValues
  <2>3. <<v, w>> \in (c.wild \X c.wild) \cap c.rel
    BY <1>2, <2>1, <2>2
  <2>4. DirectAnswer(c)
    BY <1>5, <2>1, <2>3 DEF DirectAnswer, IsSimilarParams
  <2>5. QED
    BY <2>4
<1>6. CASE c.kind \in {"pattern", "with"}
  <2>1. /\ c.lhs \in Synonym \cup Value \cup {Wildcard}
        /\ c.wild \in SUBSET Value
    BY EvaluatorAssumption
  <2>2. v \in ConvertClauseParamToColumn(c.lhs, c.wild, database)
    BY <1>3, <2>1, TypeOKDatabase, ColumnProperties
  <2>3. DirectAnswer(c)
    BY <1>6, <2>2 DEF DirectAnswer
  <2>4. QED
    BY <2>3
<1>7. QED
  BY <1>4, <1>5, <1>6 DEF AnswersDirectly

LEMMA NoAnswerLostStep ==
  ASSUME ShortcutsAreSound, TypeOK, NoAnswerLost, [Next]_vars
  PROVE  NoAnswerLost'
<1>1. CASE UNCHANGED vars
  BY <1>1 DEF NoAnswerLost, vars, Satisfying, Answers, Fits, SynonymsOf, Holds, Assignments, ParamValues
<1>2. ASSUME Next
      PROVE  NoAnswerLost'
  <2>1. PICK c \in Clauses : EvaluateClause(c) \/ RejectClause(c)
    BY <1>2 DEF Next
  <2>2. CASE RejectClause(c)
    BY <2>2 DEF RejectClause, NoAnswerLost
  <2>3. CASE EvaluateClause(c)
    <3> DEFINE C == evaluated \cup {c}
    <3>1. status = "evaluating" /\ evaluated' = C
      BY <1>2, <2>3, ClauseSteps DEF Next, StoreTable, TakeClause
    <3>2. \A g \in Satisfying(C) : FitsAll(g, database)
      BY <3>1, SatisfyingFitsAll
    <3>3. /\ status' = "evaluating" => \A g \in Satisfying(C) : FitsAll(g, database')
          /\ status' = "false" => Satisfying(C) = {}
      <4>1. CASE ~AnswersDirectly(c) /\ StoreTable(c, ValidPairs(c))
        <5>1. ValidPairs(c) \in SUBSET CandidatePairs(c, database)
          BY DEF ValidPairs
        <5>2. \A f : FitsAll(f, database) /\ Fits(f, GenerateTable(c, ValidPairs(c))) => FitsAll(f, database')
          BY <4>1, <5>1, TypeOKDatabase, StoreTableEffect
        <5>3. ASSUME NEW g \in Satisfying(C)
              PROVE  ValidPairs(c) # {} /\ FitsAll(g, database')
          <6>1. PICK p \in ValidPairs(c) : p[1] \in ParamValues(c.lhs, c.wild, g) /\ p[2] \in ParamValues(c.rhs, c.wild, g)
            BY <3>2, <4>1, SatisfyingHasValidPair
          <6>2. Fits(g, GenerateTable(c, ValidPairs(c)))
            BY <6>1, NewTableFits
          <6>3. QED
            BY <3>2, <5>2, <6>1, <6>2
        <5>4. status' = "false" => ValidPairs(c) = {}
          BY <3>1, <4>1 DEF StoreTable, TakeClause
        <5>5. QED
          BY <5>3, <5>4
      <4>2. CASE AnswersDirectly(c) /\ TakeClause(c, DirectAnswer(c)) /\ UNCHANGED database
        <5>1. status' = "false" => ~DirectAnswer(c)
          BY <4>2 DEF TakeClause
        <5>2. ~DirectAnswer(c) => Satisfying(C) = {}
          BY <3>2, <4>2, DirectFalseIsSound
        <5>3. \A g : FitsAll(g, database') <=> FitsAll(g, database)
          BY <4>2 DEF FitsAll
        <5>4. QED
          BY <3>2, <5>1, <5>2, <5>3
      <4>3. QED
        BY <2>3, <4>1, <4>2, ClauseSteps
    <3>4. \A g \in Satisfying(C) : g \in Assignments(SynonymsOf(C))
      BY DEF Satisfying
    <3>5. QED
      BY <3>1, <3>3, <3>4 DEF NoAnswerLost, Answers, FitsAll
  <2>4. QED
    BY <2>1, <2>2, <2>3
<1>3. QED
  BY <1>1, <1>2

\* In whatever order the clauses are evaluated, an assignment that satisfies
\* them fits every stored table, and a false verdict is right.
THEOREM NothingIsLost ==
  ASSUME ShortcutsAreSound
  PROVE  Spec => []NoAnswerLost
<1>1. Init => NoAnswerLost
  BY DEF Init, NoAnswerLost, Satisfying, Answers
<1>2. TypeOK /\ NoAnswerLost /\ [Next]_vars => NoAnswerLost'
  BY NoAnswerLostStep
<1>3. QED
  BY <1>1, <1>2, TypeCorrect, PTL DEF Spec

(***************************************************************************)
(* No answer is invented, when no clause names a synonym twice.  The table *)
(* that the lookup erased had exactly the two columns of the new table,    *)
(* whose rows are some of its rows: what fits the new table fits the old.  *)
(***************************************************************************)
LEMMA ErasedTableIsImplied ==
  ASSUME NEW S \in SUBSET Synonym, NEW db, IsDatabase(db, S), NEW c, c.lhs # c.rhs,
         TablesOfBoth(c, db) # {},
         NEW valid \in SUBSET CandidatePairs(c, db), NEW f, Fits(f, GenerateTable(c, valid))
  PROVE  Fits(f, db[FirstOf(TablesOfBoth(c, db))])
<1> DEFINE t == db[FirstOf(TablesOfBoth(c, db))]
<1>1. IsTable(t, S) /\ {c.lhs, c.rhs} \subseteq t.headers
  BY FirstTableOfBoth
<1>2. t.headers = {c.lhs, c.rhs} /\ c.lhs \in Synonym /\ c.rhs \in Synonym
  BY <1>1 DEF IsTable
<1>3. PICK p \in valid : p[1] = f[c.lhs] /\ p[2] = f[c.rhs]
  <2>1. PICK q \in valid : /\ c.lhs \in Synonym => q[1] = f[c.lhs]
                           /\ c.rhs \in Synonym /\ c.rhs # c.lhs => q[2] = f[c.rhs]
    BY FitsNewTable
  <2>2. q[1] = f[c.lhs]
    BY <1>2, <2>1
  <2>3. q[2] = f[c.rhs]
    BY <1>2, <2>1
  <2>4. QED
    BY <2>2, <2>3
<1>4. CandidatePairs(c, db) = {<<row[c.lhs], row[c.rhs]>> : row \in t.rows}
  BY DEF CandidatePairs
<1>5. PICK row \in t.rows : p = <<row[c.lhs], row[c.rhs]>>
  BY <1>4
<1>6. row[c.lhs] = f[c.lhs] /\ row[c.rhs] = f[c.rhs]
  BY <1>3, <1>5
<1>7. row \in [t.headers -> Value]
  BY <1>1 DEF IsTable, Assignments
<1>8. row = Project(f, t.headers)
  BY <1>2, <1>6, <1>7 DEF Project
<1>9. QED
  BY <1>5, <1>8 DEF Fits

LEMMA EarlierClausesHold ==
  ASSUME TypeOK, NoAnswerInvented, status = "evaluating", NEW c,
         NEW g \in Assignments(SynonymsOf(evaluated \cup {c})), FitsAll(g, database), NEW d \in evaluated
  PROVE  Holds(d, g)
<1> DEFINE S == SynonymsOf(evaluated)
           f == Project(g, S)
<1>1. f \in Assignments(S)
  BY TypeOKDatabase DEF Assignments, Project
<1>2. FitsAll(f, database)
  BY TypeOKDatabase, FitsAllProject
<1>3. f \in Satisfying(evaluated)
  BY <1>1, <1>2 DEF NoAnswerInvented, Answers, FitsAll
<1>4. \A s \in {d.lhs, d.rhs} \cap Synonym : f[s] = g[s]
  BY SynonymInSet DEF Project
<1>5. Holds(d, f) = Holds(d, g)
  BY <1>4, HoldsIsLocal
<1>6. QED
  BY <1>3, <1>5 DEF Satisfying

LEMMA StoredClauseHolds ==
  ASSUME TypeOK, NEW c \in Clauses, c.lhs # c.rhs \/ c.lhs \notin Synonym,
         NEW p \in ValidPairs(c), NEW g,
         c.lhs \in Synonym => p[1] = g[c.lhs],
         c.rhs \in Synonym => p[2] = g[c.rhs]
  PROVE  Holds(c, g)
<1>1. p \in CandidatePairs(c, database) /\ p \in c.rel /\ (c.expr # Wildcard => p[1] \in c.expr)
  BY DEF ValidPairs
<1>2. /\ p = <<p[1], p[2]>>
      /\ c.lhs \notin Synonym => p[1] \in ParamValues(c.lhs, c.wild, g)
      /\ c.rhs \notin Synonym => p[2] \in ParamValues(c.rhs, c.wild, g)
  <2>1. IsDatabase(database, SynonymsOf(evaluated)) /\ SynonymsOf(evaluated) \in SUBSET Synonym
    BY TypeOKDatabase
  <2>2. p \in Value \X Value
    BY <1>1, <2>1, PairsAreTyped
  <2>3. c.lhs \notin Synonym => p[1] \in ParamValues(c.lhs, c.wild, g)
    BY <1>1, <2>1, PairsAreTyped
  <2>4. c.rhs \notin Synonym => p[2] \in ParamValues(c.rhs, c.wild, g)
    BY <1>1, <2>1, PairsAreTyped
  <2>5. QED
    BY <2>2, <2>3, <2>4
<1>3. /\ c.lhs \in Synonym => p[1] \in ParamValues(c.lhs, c.wild, g)
      /\ c.rhs \in Synonym => p[2] \in ParamValues(c.rhs, c.wild, g)
  BY EvaluatorAssumption DEF ParamValues
<1>4. QED
  BY <1>1, <1>2, <1>3 DEF Holds

\* A direct answer TRUE is right: every typed assignment satisfies the clause.
LEMMA DirectTrueIsSound ==
  ASSUME ShortcutsAreSound, NEW c \in Clauses, AnswersDirectly(c), DirectAnswer(c),
         NEW g, \A s \in {c.lhs, c.rhs} \cap Synonym : g[s] \in Domain[s]
  PROVE  Holds(c, g)
<1>1. ShortcutIsSound(c) /\ Wildcard \notin Synonym
  BY EvaluatorAssumption DEF ShortcutsAreSound
<1>2. CASE c.kind = "suchthat"
  <2>1. IsWildcardParams(c)
    BY <1>2 DEF AnswersDirectly, DirectAnswer
  <2>2. c.lhs = Wildcard /\ c.rhs = Wildcard /\ ~IsSimilarParams(c)
    BY <2>1 DEF IsWildcardParams, IsSimilarParams
  <2>3. PICK p \in c.wild \X c.wild : p \in c.rel
    BY <1>2, <2>2 DEF DirectAnswer
  <2>4. ParamValues(Wildcard, c.wild, g) = c.wild
    BY <1>1 DEF ParamValues
  <2>5. c.expr = Wildcard
    BY <1>2, EvaluatorAssumption
  <2>6. QED
    BY <2>2, <2>3, <2>4, <2>5 DEF Holds
<1>3. CASE c.kind = "pattern"
  <2>1. c.rhs = Wildcard /\ c.expr = Wildcard /\ c.lhs \in Synonym
    BY <1>3, EvaluatorAssumption DEF AnswersDirectly
  <2>2. ParamValues(c.rhs, c.wild, g) = c.wild /\ ParamValues(c.lhs, c.wild, g) = {g[c.lhs]}
    BY <1>1, <2>1 DEF ParamValues
  <2>3. PICK w \in c.wild : <<g[c.lhs], w>> \in c.rel
    BY <1>1, <1>3, <2>1 DEF ShortcutIsSound
  <2>4. QED
    BY <2>1, <2>2, <2>3 DEF Holds
<1>4. CASE c.kind = "with"
  <2>1. c.lhs = c.rhs /\ c.lhs # Wildcard /\ IsSimilarParams(c) /\ c.expr = Wildcard
    BY <1>4, EvaluatorAssumption DEF AnswersDirectly, IsSimilarParams
  <2>2. PICK v \in ParamRange(c.lhs) : ParamValues(c.lhs, c.wild, g) = {v}
    <3>1. CASE c.lhs \in Synonym
      BY <1>1, <3>1 DEF ParamValues, ParamRange
    <3>2. CASE c.lhs \notin Synonym
      BY <2>1, <3>2 DEF ParamValues, ParamRange
    <3>3. QED
      BY <3>1, <3>2
  <2>3. <<v, v>> \in c.rel
    BY <1>1, <1>4, <2>1 DEF ShortcutIsSound
  <2>4. QED
    BY <2>1, <2>2, <2>3 DEF Holds
<1>5. QED
  BY <1>2, <1>3, <1>4 DEF AnswersDirectly

LEMMA NoAnswerInventedStep ==
  ASSUME ShortcutsAreSound, NoRepeatedSynonym, TypeOK, NoAnswerInvented, [Next]_vars
  PROVE  NoAnswerInvented'
<1>1. CASE UNCHANGED vars
  BY <1>1 DEF NoAnswerInvented, vars, Satisfying, Answers, Fits, SynonymsOf, Holds, Assignments, ParamValues
<1>2. ASSUME Next
      PROVE  NoAnswerInvented'
  <2>1. PICK c \in Clauses : EvaluateClause(c) \/ RejectClause(c)
    BY <1>2 DEF Next
  <2>2. CASE RejectClause(c)
    BY <2>2 DEF RejectClause, NoAnswerInvented
  <2>3. CASE EvaluateClause(c)
    <3> DEFINE C == evaluated \cup {c}
    <3>1. status = "evaluating" /\ evaluated' = C
      BY <1>2, <2>3, ClauseSteps DEF Next, StoreTable, TakeClause
    <3>2. SUFFICES ASSUME status' = "evaluating",
                          NEW g \in Assignments(SynonymsOf(C)), FitsAll(g, database')
                   PROVE  FitsAll(g, database) /\ Holds(c, g)
      <4>1. SUFFICES ASSUME status' = "evaluating", NEW g \in Assignments(SynonymsOf(C)), FitsAll(g, database')
                     PROVE  \A d \in C : Holds(d, g)
        BY <3>1 DEF NoAnswerInvented, Answers, Satisfying, FitsAll
      <4>2. FitsAll(g, database) /\ Holds(c, g)
        BY <3>2, <4>1
      <4>3. QED
        BY <3>1, <4>2, EarlierClausesHold
    <3>3. CASE ~AnswersDirectly(c) /\ StoreTable(c, ValidPairs(c))
      <4> DEFINE t == GenerateTable(c, ValidPairs(c))
      <4>1. ValidPairs(c) \in SUBSET CandidatePairs(c, database)
        BY DEF ValidPairs
      <4>2. /\ FitsAll(g, DatabaseAfterConvert(c, database))
            /\ ~IsEmpty(t) => Fits(g, t)
        BY <3>2, <3>3, <4>1, TypeOKDatabase, StoreTableEffect
      <4>3. c.lhs # c.rhs \/ c.lhs \notin Synonym
        <5>1. ~RepeatsSynonym(c)
          BY DEF NoRepeatedSynonym
        <5>2. c.lhs = c.rhs /\ c.lhs \in Synonym => IsSimilarParams(c)
          BY EvaluatorAssumption DEF IsSimilarParams
        <5>3. QED
          BY <3>3, <5>1, <5>2 DEF RepeatsSynonym, AnswersDirectly
      <4>4. IsEmpty(t) <=> c.lhs \notin Synonym /\ c.rhs \notin Synonym
        BY DEF IsEmpty, GenerateTable
      <4>5. TablesOfBoth(c, database) # {} => Fits(g, database[FirstOf(TablesOfBoth(c, database))])
        <5>1. SUFFICES ASSUME TablesOfBoth(c, database) # {}
                       PROVE  Fits(g, database[FirstOf(TablesOfBoth(c, database))])
          OBVIOUS
        <5>2. c.lhs \in Synonym /\ c.rhs \in Synonym
          BY <5>1, TypeOKDatabase, FirstTableOfBoth DEF IsTable
        <5>3. Fits(g, t) /\ c.lhs # c.rhs
          BY <4>2, <4>3, <4>4, <5>2
        <5>4. QED
          BY <4>1, <5>1, <5>3, TypeOKDatabase, ErasedTableIsImplied
      <4>6. FitsAll(g, database)
        <5>1. IsDatabase(database, SynonymsOf(evaluated))
          BY TypeOKDatabase
        <5>2. \A f : FitsAll(f, DatabaseAfterConvert(c, database))
                        /\ (TablesOfBoth(c, database) # {} => Fits(f, database[FirstOf(TablesOfBoth(c, database))]))
                     => FitsAll(f, database)
          BY <5>1, DatabaseAfterConvertProperties
        <5>3. QED
          BY <4>2, <4>5, <5>2
      <4>7. \E p \in ValidPairs(c) : /\ c.lhs \in Synonym => p[1] = g[c.lhs]
                                     /\ c.rhs \in Synonym => p[2] = g[c.rhs]
        <5>1. CASE IsEmpty(t)
          <6>1. ValidPairs(c) # {}
            BY <3>2, <3>3 DEF StoreTable, TakeClause
          <6>2. QED
            BY <4>4, <5>1, <6>1
        <5>2. CASE ~IsEmpty(t)
          BY <4>2, <4>3, <5>2, FitsNewTable
        <5>3. QED
          BY <5>1, <5>2
      <4>8. Holds(c, g)
        <5>1. PICK p \in ValidPairs(c) : /\ c.lhs \in Synonym => p[1] = g[c.lhs]
                                         /\ c.rhs \in Synonym => p[2] = g[c.rhs]
          BY <4>7
        <5>2. QED
          BY <4>3, <5>1, StoredClauseHolds
      <4>9. QED
        BY <4>6, <4>8
    <3>4. CASE AnswersDirectly(c) /\ TakeClause(c, DirectAnswer(c)) /\ UNCHANGED database
      <4>1. FitsAll(g, database)
        BY <3>2, <3>4 DEF FitsAll
      <4>2. DirectAnswer(c)
        BY <3>2, <3>4 DEF TakeClause
      <4>3. \A s \in {c.lhs, c.rhs} \cap Synonym : g[s] \in Domain[s]
        BY SynonymsOfOneMore DEF Assignments
      <4>4. QED
        BY <3>4, <4>1, <4>2, <4>3, DirectTrueIsSound
    <3>5. QED
      BY <2>3, <3>3, <3>4, ClauseSteps
  <2>4. QED
    BY <2>1, <2>2, <2>3
<1>3. QED
  BY <1>1, <1>2

\* When no clause names a synonym twice, what fits all the tables satisfies
\* all the clauses: erasing a table never loses a constraint.
THEOREM NothingIsInvented ==
  ASSUME ShortcutsAreSound, NoRepeatedSynonym
  PROVE  Spec => []NoAnswerInvented
<1>1. Init => NoAnswerInvented
  BY DEF Init, NoAnswerInvented, Satisfying, Answers
<1>2. TypeOK /\ NoAnswerInvented /\ [Next]_vars => NoAnswerInvented'
  BY NoAnswerInventedStep
<1>3. QED
  BY <1>1, <1>2, TypeCorrect, PTL DEF Spec
-----------------------------------------------------------------------------
(***************************************************************************)
(* EvaluateQuery.  The tables the clause loop leaves are merged by         *)
(* QueryOptimizer, whose proofs are cited through OptProofs.               *)
(***************************************************************************)
\* What the clause loop hands to the optimizer.
StoredDatabases == {db \in Seq(Table) : \A i \in DOMAIN db : db[i].headers # {} /\ db[i].rows \subseteq [db[i].headers -> Value]}

OptProofs == INSTANCE QueryOptimizerProofs
               WITH Databases <- StoredDatabases, SortBeforeBfs <- TRUE, SortBeforeMerge <- FALSE

\* A table over synonyms of the clauses, with values of the synonyms' types.
IsMergedTable(table) ==
  /\ table.headers \subseteq SynonymsOf(evaluated)
  /\ table.rows \subseteq Assignments(table.headers)

MergeInv ==
  /\ OptProofs!Inv
  /\ \A k \in DOMAIN merged_tables : IsMergedTable(merged_tables[k])
  /\ IsMergedTable(group_table)

QueryInv ==
  /\ query \in Queries /\ selected \in Selections
  /\ evaluated \subseteq query /\ count = Cardinality(evaluated)
  /\ \A c \in evaluated : c.valid
  /\ status = "error" => \E c \in query : ~c.valid
  /\ status = "evaluating" => \A s \in SynonymsOf(evaluated) : Domain[s] # {}

EvalInv ==
  /\ TypeOK /\ NoAnswerLost /\ NoAnswerInvented
  /\ QueryInv
  /\ IF AllClausesEvaluated THEN MergeInv ELSE Optimizer!MergeInit
-----------------------------------------------------------------------------
(***************************************************************************)
(* The tables the clauses leave are what the optimizer's proofs are about. *)
(***************************************************************************)
LEMMA DatabasesAreSuitable ==
  /\ \A db \in StoredDatabases :
       /\ db = [i \in 1..Len(db) |-> db[i]] /\ Len(db) \in Nat
       /\ \A i \in 1..Len(db) : OptProofs!IsStoredTable(db[i])
  /\ {TRUE, FALSE} \subseteq BOOLEAN
<1>1. ASSUME NEW db \in StoredDatabases
      PROVE  /\ db = [i \in 1..Len(db) |-> db[i]] /\ Len(db) \in Nat
             /\ \A i \in 1..Len(db) : OptProofs!IsStoredTable(db[i])
  <2>1. db \in Seq(Table) /\ \A i \in DOMAIN db : db[i].headers # {} /\ db[i].rows \subseteq [db[i].headers -> Value]
    BY DEF StoredDatabases
  <2>2. Len(db) \in Nat /\ DOMAIN db = 1..Len(db) /\ db = [i \in 1..Len(db) |-> db[i]]
    BY <2>1
  <2>3. \A i \in DOMAIN db : db[i] \in Table
    BY <2>1
  <2>4. \A t \in Table : t = [headers |-> t.headers, rows |-> t.rows] /\ t.headers \in SUBSET Synonym
    BY DEF Table
  <2>5. QED
    BY <2>1, <2>2, <2>3, <2>4 DEF OptProofs!IsStoredTable
<1>2. QED
  BY <1>1

LEMMA DatabaseIsStored == TypeOK => database \in StoredDatabases
<1> SUFFICES ASSUME TypeOK PROVE database \in StoredDatabases
  OBVIOUS
<1>1. database \in Seq(Table) /\ \A i \in DOMAIN database : IsTable(database[i], SynonymsOf(evaluated))
  BY DEF TypeOK
<1>2. ASSUME NEW i \in DOMAIN database
      PROVE  database[i].headers # {} /\ database[i].rows \subseteq [database[i].headers -> Value]
  BY <1>1 DEF IsTable, Assignments
<1>3. QED
  BY <1>1, <1>2 DEF StoredDatabases

LEMMA MergeStarts == TypeOK /\ Optimizer!MergeInit => MergeInv
<1> SUFFICES ASSUME TypeOK, Optimizer!MergeInit PROVE MergeInv
  OBVIOUS
<1>1. OptProofs!Init
  BY DatabaseIsStored DEF OptProofs!Init, OptProofs!MergeInit, Optimizer!MergeInit,
                          OptProofs!EmptyTable, Optimizer!EmptyTable
<1>2. OptProofs!Inv
  BY <1>1, DatabasesAreSuitable, OptProofs!InitInv DEF OptProofs!InitInv
<1>3. merged_tables = <<>> /\ group_table.headers = {} /\ group_table.rows = {}
  BY DEF Optimizer!MergeInit, Optimizer!EmptyTable
<1>4. QED
  BY <1>2, <1>3 DEF MergeInv, IsMergedTable

LEMMA MergeStartsNext == (TypeOK /\ Optimizer!MergeInit => MergeInv)'
  BY MergeStarts, PTL

LEMMA SameCardinality == \A S : Optimizer!Cardinality(S) = OptProofs!Cardinality(S)
  BY DEF Optimizer!Cardinality, OptProofs!Cardinality

LEMMA SameMergeTable == \A t, u : Optimizer!MergeTable(t, u) = OptProofs!MergeTable(t, u)
  BY DEF Optimizer!MergeTable, Optimizer!Join, Optimizer!IsEmpty, Optimizer!Agree, Optimizer!MergedRow,
         OptProofs!MergeTable, OptProofs!Join, OptProofs!IsEmpty, OptProofs!Agree, OptProofs!MergedRow

LEMMA SameChoices ==
  ASSUME NEW S, NEW b
  PROVE  Optimizer!Choices(S, b) = OptProofs!Choices(S, b)
BY SameCardinality DEF Optimizer!Choices, Optimizer!Height, OptProofs!Choices, OptProofs!Height

LEMMA SameNext == Optimizer!Next => OptProofs!Next
<1>1. Optimizer!StartGroup => OptProofs!StartGroup
  BY SameMergeTable, SameChoices
    DEF Optimizer!StartGroup, Optimizer!IsEmpty, Optimizer!EmptyTable, Optimizer!Node,
        OptProofs!StartGroup, OptProofs!IsEmpty, OptProofs!EmptyTable, OptProofs!Node
<1>2. Optimizer!VisitNode => OptProofs!VisitNode
  BY DEF Optimizer!VisitNode, Optimizer!Adj, Optimizer!Node, OptProofs!VisitNode, OptProofs!Adj, OptProofs!Node
<1>3. Optimizer!MergeNeighbour => OptProofs!MergeNeighbour
  BY SameMergeTable, SameChoices, SameCardinality
    DEF Optimizer!MergeNeighbour, Optimizer!Height, OptProofs!MergeNeighbour, OptProofs!Height
<1>4. Optimizer!FinishGroup => OptProofs!FinishGroup
  BY DEF Optimizer!FinishGroup, Optimizer!IsEmpty, Optimizer!EmptyTable,
         OptProofs!FinishGroup, OptProofs!IsEmpty, OptProofs!EmptyTable
<1>5. QED
  BY <1>1, <1>2, <1>3, <1>4 DEF Optimizer!Next, OptProofs!Next

LEMMA MergeOfMergedTables ==
  ASSUME NEW t, NEW u, IsMergedTable(t), IsMergedTable(u)
  PROVE  IsMergedTable(OptProofs!MergeTable(t, u))
<1>1. CASE OptProofs!IsEmpty(t) \/ OptProofs!IsEmpty(u)
  BY <1>1 DEF OptProofs!MergeTable
<1>2. CASE ~(OptProofs!IsEmpty(t) \/ OptProofs!IsEmpty(u))
  <2> DEFINE H == t.headers \cup u.headers
  <2>1. OptProofs!MergeTable(t, u) = OptProofs!Join(t, u)
    BY <1>2 DEF OptProofs!MergeTable
  <2>2. ASSUME NEW l \in t.rows, NEW r \in u.rows
        PROVE  OptProofs!MergedRow(l, r) \in Assignments(H)
    <3>1. l \in [t.headers -> Value] /\ \A s \in t.headers : l[s] \in Domain[s]
      BY DEF IsMergedTable, Assignments
    <3>2. r \in [u.headers -> Value] /\ \A s \in u.headers : r[s] \in Domain[s]
      BY DEF IsMergedTable, Assignments
    <3>3. OptProofs!MergedRow(l, r) = [s \in H |-> IF s \in t.headers THEN l[s] ELSE r[s]]
      BY <3>1, <3>2 DEF OptProofs!MergedRow
    <3>4. QED
      BY <3>1, <3>2, <3>3 DEF Assignments
  <2>3. OptProofs!Join(t, u).headers = H /\ OptProofs!Join(t, u).rows \subseteq Assignments(H)
    BY <2>2 DEF OptProofs!Join
  <2>4. H \subseteq SynonymsOf(evaluated)
    BY DEF IsMergedTable
  <2>5. QED
    BY <2>1, <2>3, <2>4 DEF IsMergedTable
<1>3. QED
  BY <1>1, <1>2

LEMMA StoredIsMergedTable ==
  ASSUME TypeOK, NEW i \in DOMAIN database
  PROVE  IsMergedTable(database[i])
BY DEF TypeOK, IsTable, IsMergedTable

\* Whatever the optimizer does next, the tables stay over the clauses' synonyms.
LEMMA MergeInvStep ==
  ASSUME TypeOK, MergeInv, Optimizer!Next, UNCHANGED evaluated
  PROVE  MergeInv' /\ UNCHANGED database
<1>1. OptProofs!Next
  BY SameNext
<1>2. OptProofs!Inv /\ OptProofs!Inv'
  BY <1>1, DatabasesAreSuitable, OptProofs!InvIsInductive DEF MergeInv, OptProofs!InvIsInductive
<1>3. UNCHANGED database
  BY <1>1 DEF OptProofs!Next, OptProofs!StartGroup, OptProofs!VisitNode, OptProofs!MergeNeighbour, OptProofs!FinishGroup
<1>4. \A t : IsMergedTable(t)' <=> IsMergedTable(t)
  BY DEF IsMergedTable
<1>5. (\A k \in DOMAIN merged_tables' : IsMergedTable(merged_tables'[k])) /\ IsMergedTable(group_table')
  <2>1. CASE OptProofs!StartGroup
    <3>1. PICK node \in DOMAIN database : group_table' = OptProofs!MergeTable(OptProofs!EmptyTable, database[node])
      BY <2>1 DEF OptProofs!StartGroup, OptProofs!Choices, OptProofs!Node
    <3>2. IsMergedTable(OptProofs!EmptyTable)
      BY DEF IsMergedTable, OptProofs!EmptyTable
    <3>3. QED
      BY <2>1, <3>1, <3>2, MergeOfMergedTables, StoredIsMergedTable DEF MergeInv, OptProofs!StartGroup
  <2>2. CASE OptProofs!VisitNode
    BY <2>2 DEF MergeInv, OptProofs!VisitNode
  <2>3. CASE OptProofs!MergeNeighbour
    <3>1. PICK i \in neighbours : group_table' \in {OptProofs!MergeTable(group_table, database[i]), OptProofs!MergeTable(database[i], group_table)}
      BY <2>3 DEF OptProofs!MergeNeighbour, OptProofs!Choices
    <3>2. i \in DOMAIN database
      BY <1>2 DEF OptProofs!Inv, OptProofs!TypeOK, OptProofs!Node
    <3>3. QED
      BY <2>3, <3>1, <3>2, MergeOfMergedTables, StoredIsMergedTable DEF MergeInv, OptProofs!MergeNeighbour
  <2>4. CASE OptProofs!FinishGroup
    <3>1. merged_tables' = Append(merged_tables, group_table) /\ group_table' = OptProofs!EmptyTable
      BY <2>4 DEF OptProofs!FinishGroup
    <3>2. merged_tables \in Seq([headers : SUBSET Synonym, rows : SUBSET (UNION {[h -> Value] : h \in SUBSET Synonym})])
      BY <1>2 DEF OptProofs!Inv, OptProofs!TypeOK
    <3>3. \A k \in DOMAIN merged_tables' : merged_tables'[k] = group_table \/ (k \in DOMAIN merged_tables /\ merged_tables'[k] = merged_tables[k])
      BY <3>1, <3>2
    <3>4. IsMergedTable(group_table')
      BY <3>1 DEF IsMergedTable, OptProofs!EmptyTable
    <3>5. QED
      BY <3>3, <3>4 DEF MergeInv
  <2>5. QED
    BY <1>1, <2>1, <2>2, <2>3, <2>4 DEF OptProofs!Next
<1>6. QED
  BY <1>2, <1>3, <1>4, <1>5 DEF MergeInv
-----------------------------------------------------------------------------
(***************************************************************************)
(* The clause loop takes each clause of the query once.                    *)
(***************************************************************************)
LEMMA QueryIsOneLonger ==
  ASSUME QueryInv, TypeOK, NEW c \in query \ evaluated
  PROVE  /\ c \in Clauses /\ evaluated \cup {c} \subseteq query
         /\ Cardinality(evaluated \cup {c}) = count + 1
         /\ count < MaxClauses
<1>1. query \in SUBSET Clauses /\ IsFiniteSet(query) /\ Cardinality(query) <= MaxClauses
  BY DEF QueryInv, Queries
<1>2. IsFiniteSet(evaluated) /\ Cardinality(evaluated) = count
  BY <1>1, FS_Subset DEF QueryInv
<1>3. IsFiniteSet(evaluated \cup {c}) /\ Cardinality(evaluated \cup {c}) = count + 1
  BY <1>2, FS_AddElement
<1>4. evaluated \cup {c} \in SUBSET query
  BY DEF QueryInv
<1>5. Cardinality(evaluated \cup {c}) <= Cardinality(query)
  BY <1>1, <1>4, FS_Subset
<1>6. Cardinality(query) \in Nat /\ count \in Nat /\ MaxClauses \in Nat
  BY <1>1, FS_CardinalityType, EvaluatorAssumption DEF TypeOK
<1>7. QED
  BY <1>1, <1>3, <1>4, <1>5, <1>6

\* A clause that is true leaves something for each of its synonyms.
LEMMA TrueClauseHasValues ==
  ASSUME TypeOK, NEW c \in Clauses, EvaluateClause(c), status' = "evaluating",
         NEW s \in {c.lhs, c.rhs} \cap Synonym
  PROVE  Domain[s] # {}
<1>1. IsDatabase(database, SynonymsOf(evaluated)) /\ SynonymsOf(evaluated) \in SUBSET Synonym
  BY TypeOKDatabase
<1>2. CASE StoreTable(c, ValidPairs(c))
  <2>1. PICK p \in ValidPairs(c) : TRUE
    BY <1>2 DEF StoreTable, TakeClause
  <2>2. p \in CandidatePairs(c, database)
    BY DEF ValidPairs
  <2>3. QED
    BY <1>1, <2>2, PairsAreTyped
<1>3. CASE AnswersDirectly(c) /\ TakeClause(c, DirectAnswer(c))
  <2>1. DirectAnswer(c)
    BY <1>3 DEF TakeClause
  <2>2. CASE c.kind = "suchthat"
    BY <1>3, <2>1, <2>2, EvaluatorAssumption DEF DirectAnswer, AnswersDirectly, IsWildcardParams
  <2>3. CASE c.kind # "suchthat"
    <3>1. ConvertClauseParamToColumn(c.lhs, c.wild, database) # {} /\ s = c.lhs
      BY <1>3, <2>1, <2>3, EvaluatorAssumption DEF DirectAnswer, AnswersDirectly, IsSimilarParams
    <3>2. c.wild \in SUBSET Value /\ c.lhs \in Synonym
      BY <3>1, EvaluatorAssumption
    <3>3. ConvertClauseParamToColumn(c.lhs, c.wild, database) \subseteq Domain[c.lhs]
      BY <1>1, <3>2, ColumnProperties
    <3>4. QED
      BY <3>1, <3>3
  <2>4. QED
    BY <2>2, <2>3
<1>4. QED
  BY <1>2, <1>3, ClauseSteps

LEMMA QueryInvStep ==
  ASSUME TypeOK, QueryInv, EvaluateNextClause
  PROVE  /\ QueryInv'
         /\ [Next]_vars
<1>1. PICK c \in query \ evaluated : EvaluateClause(c) \/ RejectClause(c)
  BY DEF EvaluateNextClause
<1>2. /\ status = "evaluating" /\ query' = query /\ selected' = selected
      /\ c \in Clauses /\ evaluated \cup {c} \subseteq query
      /\ Cardinality(evaluated \cup {c}) = count + 1
      /\ count < MaxClauses
  BY <1>1, QueryIsOneLonger DEF EvaluateNextClause
<1>3. Next
  BY <1>1, <1>2 DEF Next
<1>4. CASE RejectClause(c)
  <2>1. status' = "error" /\ ~c.valid /\ evaluated' = evaluated /\ count' = count
    BY <1>4 DEF RejectClause
  <2>2. QED
    BY <1>1, <1>2, <1>3, <2>1 DEF QueryInv
<1>5. CASE EvaluateClause(c)
  <2>1. evaluated' = evaluated \cup {c} /\ count' = count + 1 /\ status' \in {"evaluating", "false"}
    BY <1>2, <1>5, ClauseSteps DEF StoreTable, TakeClause
  <2>2. c.valid
    BY <1>5 DEF EvaluateClause
  <2>3. ASSUME status' = "evaluating", NEW s \in SynonymsOf(evaluated \cup {c})
        PROVE  Domain[s] # {}
    <3>1. s \in SynonymsOf(evaluated) \/ s \in {c.lhs, c.rhs} \cap Synonym
      BY SynonymsOfOneMore
    <3>2. QED
      BY <1>2, <1>5, <2>3, <3>1, TrueClauseHasValues DEF QueryInv
  <2>4. \A d \in evaluated \cup {c} : d.valid
    BY <2>2 DEF QueryInv
  <2>5. QED
    BY <1>2, <1>3, <2>1, <2>3, <2>4 DEF QueryInv
<1>6. QED
  BY <1>1, <1>3, <1>4, <1>5

LEMMA EvalInvInit == EvaluateInit => EvalInv
<1> SUFFICES ASSUME EvaluateInit PROVE EvalInv
  OBVIOUS
<1>1. /\ database = <<>> /\ evaluated = {} /\ count = 0 /\ status = "evaluating"
      /\ query \in Queries /\ selected \in Selections /\ Optimizer!MergeInit
  BY DEF EvaluateInit, Init
<1>2. TypeOK
  BY <1>1, EvaluatorAssumption DEF TypeOK
<1>3. NoAnswerLost /\ NoAnswerInvented
  BY <1>1 DEF NoAnswerLost, NoAnswerInvented, Satisfying, Answers
<1>4. QueryInv
  BY <1>1, FS_EmptySet DEF QueryInv, SynonymsOf
<1>5. QED
  BY <1>1, <1>2, <1>3, <1>4, MergeStarts DEF EvalInv

LEMMA EvalInvStep ==
  ASSUME ShortcutsAreSound, NoRepeatedSynonym, EvalInv, [EvaluateNext]_allVars
  PROVE  EvalInv'
<1>1. CASE EvaluateNextClause
  <2>1. TypeOK' /\ NoAnswerLost' /\ NoAnswerInvented' /\ QueryInv'
    <3>1. QueryInv' /\ [Next]_vars
      BY <1>1, QueryInvStep DEF EvalInv
    <3>2. QED
      BY <3>1, TypeOKStep, NoAnswerLostStep, NoAnswerInventedStep DEF EvalInv
  <2>2. Optimizer!MergeInit /\ UNCHANGED mergeVars
    BY <1>1 DEF EvaluateNextClause, EvalInv, AllClausesEvaluated
  <2>3. Optimizer!MergeInit'
    BY <2>2 DEF Optimizer!MergeInit, mergeVars, Optimizer!EmptyTable
  <2>4. QED
    BY <2>1, <2>3, MergeStartsNext DEF EvalInv
<1>2. CASE MergeTables
  <2>1. /\ AllClausesEvaluated /\ Optimizer!Next /\ MergeInv
        /\ UNCHANGED <<evaluated, count, status, query, selected>>
    BY <1>2 DEF MergeTables, EvalInv
  <2>2. MergeInv' /\ UNCHANGED database
    BY <2>1, MergeInvStep DEF EvalInv
  <2>3. UNCHANGED vars /\ AllClausesEvaluated'
    BY <2>1, <2>2 DEF vars, AllClausesEvaluated
  <2>4. TypeOK' /\ NoAnswerLost' /\ NoAnswerInvented'
    BY <2>3, TypeOKStep, NoAnswerLostStep, NoAnswerInventedStep DEF EvalInv
  <2>5. QueryInv'
    BY <2>1 DEF EvalInv, QueryInv
  <2>6. QED
    BY <2>2, <2>3, <2>4, <2>5 DEF EvalInv
<1>3. CASE UNCHANGED <<vars, mergeVars, query, selected>>
  <2>1. UNCHANGED vars /\ UNCHANGED <<mergeVars, query, selected>>
    BY <1>3
  <2>2. TypeOK' /\ NoAnswerLost' /\ NoAnswerInvented'
    BY <2>1, TypeOKStep, NoAnswerLostStep, NoAnswerInventedStep DEF EvalInv
  <2>3. QueryInv' /\ (AllClausesEvaluated' <=> AllClausesEvaluated)
    BY <2>1 DEF EvalInv, QueryInv, vars, AllClausesEvaluated
  <2>4. MergeInv => MergeInv'
    <3>1. SUFFICES ASSUME MergeInv PROVE MergeInv'
      OBVIOUS
    <3>2. UNCHANGED OptProofs!vars
      BY <2>1 DEF vars, mergeVars, OptProofs!vars, OptProofs!mergeVars
    <3>3. OptProofs!Inv'
      BY <3>1, <3>2, DatabasesAreSuitable, OptProofs!InvIsInductive DEF MergeInv, OptProofs!InvIsInductive
    <3>4. QED
      BY <2>1, <3>1, <3>3 DEF vars, mergeVars, MergeInv, IsMergedTable
  <2>5. Optimizer!MergeInit => Optimizer!MergeInit'
    BY <2>1 DEF mergeVars, Optimizer!MergeInit, Optimizer!EmptyTable
  <2>6. QED
    BY <2>2, <2>3, <2>4, <2>5 DEF EvalInv
<1>4. QED
  BY <1>1, <1>2, <1>3 DEF EvaluateNext, AnswerWithoutMerging, AnswerFromTables, allVars
-----------------------------------------------------------------------------
(***************************************************************************)
(* What the merged tables say of some synonyms X: the assignments to X     *)
(* that fit every table all of whose synonyms are in X.  Groups share no   *)
(* synonym, so for an X that cuts no group in two these are the rows of    *)
(* the tables of X, merged.                                                *)
(***************************************************************************)
Headers(k) == merged_tables[k].headers

TablesAreApart ==
  /\ merged_tables \in Seq(Table)
  /\ \A k \in DOMAIN merged_tables :
       /\ merged_tables[k] = [headers |-> Headers(k), rows |-> merged_tables[k].rows]
       /\ Headers(k) \in SUBSET Synonym /\ Headers(k) # {}
       /\ merged_tables[k].rows \subseteq Assignments(Headers(k))
  /\ \A k, m \in DOMAIN merged_tables : k # m => Headers(k) \cap Headers(m) = {}

CutsNoGroup(X) == \A k \in DOMAIN merged_tables : Headers(k) \subseteq X \/ Headers(k) \cap X = {}

Over(X) == {g \in Assignments(X) : \A k \in DOMAIN merged_tables : Headers(k) \subseteq X => Fits(g, merged_tables[k])}

OverTable(X) == IF X = {} THEN EmptyTable ELSE [headers |-> X, rows |-> Over(X)]

LEMMA MergeInvTables ==
  ASSUME TypeOK, MergeInv
  PROVE  TablesAreApart /\ \A k \in DOMAIN merged_tables : Headers(k) \subseteq SynonymsOf(evaluated)
<1>1. /\ merged_tables \in Seq(Table)
      /\ \A k \in DOMAIN merged_tables : OptProofs!IsStoredTable(merged_tables[k])
  BY DEF MergeInv, OptProofs!Inv, OptProofs!TypeOK, Table
<1>2. \A k \in DOMAIN merged_tables : IsMergedTable(merged_tables[k])
  BY DEF MergeInv
<1>3. \A k, m \in DOMAIN merged_tables : k # m => Headers(k) \cap Headers(m) = {}
  BY DEF MergeInv, OptProofs!Inv, OptProofs!FinishedAreApart, OptProofs!Disjoint, Headers
<1>4. QED
  BY <1>1, <1>2, <1>3 DEF TablesAreApart, Headers, IsMergedTable, OptProofs!IsStoredTable

LEMMA FitsProject ==
  ASSUME NEW f, NEW X, NEW t, t.headers \subseteq X
  PROVE  Fits(Project(f, X), t) <=> Fits(f, t)
<1>1. Project(Project(f, X), t.headers) = Project(f, t.headers)
  BY DEF Project
<1>2. QED
  BY <1>1 DEF Fits

LEMMA OverOneTable ==
  ASSUME TablesAreApart, NEW k \in DOMAIN merged_tables
  PROVE  OverTable(Headers(k)) = merged_tables[k] /\ CutsNoGroup(Headers(k))
<1>1. Headers(k) # {} /\ merged_tables[k].rows \subseteq Assignments(Headers(k))
  BY DEF TablesAreApart
<1>2. \A m \in DOMAIN merged_tables : Headers(m) \subseteq Headers(k) => m = k
  BY DEF TablesAreApart
<1>3. \A g \in Assignments(Headers(k)) : Fits(g, merged_tables[k]) <=> g \in merged_tables[k].rows
  <2> SUFFICES ASSUME NEW g \in Assignments(Headers(k))
               PROVE  Project(g, Headers(k)) = g
    BY DEF Fits, Headers
  <2> QED
    BY DEF Assignments, Project
<1>4. Over(Headers(k)) = merged_tables[k].rows
  BY <1>1, <1>2, <1>3 DEF Over
<1>5. merged_tables[k] = [headers |-> Headers(k), rows |-> merged_tables[k].rows]
  BY DEF TablesAreApart
<1>6. OverTable(Headers(k)) = merged_tables[k]
  BY <1>1, <1>4, <1>5 DEF OverTable
<1>7. CutsNoGroup(Headers(k))
  BY DEF TablesAreApart, CutsNoGroup
<1>8. QED
  BY <1>6, <1>7

LEMMA OverOneColumn ==
  ASSUME TablesAreApart, NEW s \in Synonym, ~InTables(s)
  PROVE  OverTable({s}) = ColumnTable(s) /\ CutsNoGroup({s})
<1>1. \A k \in DOMAIN merged_tables : s \notin Headers(k) /\ Headers(k) # {}
  BY DEF TablesAreApart, InTables, Headers
<1>2. Over({s}) = Assignments({s})
  BY <1>1 DEF Over
<1>3. Assignments({s}) = {[x \in {s} |-> v] : v \in Domain[s]}
  <2>1. Domain[s] \subseteq Value
    BY EvaluatorAssumption
  <2>2. ASSUME NEW f \in Assignments({s})
        PROVE  f[s] \in Domain[s] /\ f = [x \in {s} |-> f[s]]
    BY DEF Assignments
  <2>3. ASSUME NEW v \in Domain[s]
        PROVE  [x \in {s} |-> v] \in Assignments({s})
    BY <2>1 DEF Assignments
  <2>4. QED
    BY <2>2, <2>3
<1>4. OverTable({s}) = ColumnTable(s)
  BY <1>2, <1>3 DEF OverTable, ColumnTable
<1>5. QED
  BY <1>1, <1>4 DEF CutsNoGroup

LEMMA OverProjects ==
  ASSUME NEW U, NEW X \in SUBSET U, NEW f \in Over(U)
  PROVE  Project(f, X) \in Over(X)
<1>1. Project(f, X) \in Assignments(X)
  BY DEF Over, Assignments, Project
<1>2. ASSUME NEW k \in DOMAIN merged_tables, Headers(k) \subseteq X
      PROVE  Fits(Project(f, X), merged_tables[k])
  <2>1. Fits(f, merged_tables[k])
    BY <1>2 DEF Over
  <2>2. QED
    BY <1>2, <2>1, FitsProject DEF Headers
<1>3. QED
  BY <1>1, <1>2 DEF Over

\* Merging what is known of two sets of groups gives what is known of both.
LEMMA MergeOver ==
  ASSUME TablesAreApart, NEW A, NEW B, A \cap B = {}, CutsNoGroup(A), CutsNoGroup(B)
  PROVE  MergeTable(OverTable(A), OverTable(B)) = OverTable(A \cup B) /\ CutsNoGroup(A \cup B)
<1>1. CutsNoGroup(A \cup B)
  BY DEF CutsNoGroup
<1>2. CASE A = {}
  BY <1>1, <1>2 DEF OverTable, MergeTable, IsEmpty, EmptyTable
<1>3. CASE A # {} /\ B = {}
  BY <1>1, <1>3 DEF OverTable, MergeTable, IsEmpty, EmptyTable
<1>4. CASE A # {} /\ B # {}
  <2> DEFINE H == A \cup B
             t == [headers |-> A, rows |-> Over(A)]
             u == [headers |-> B, rows |-> Over(B)]
             J == {MergedRow(p[1], p[2]) : p \in {q \in Over(A) \X Over(B) : Agree(q[1], q[2], A \cap B)}}
  <2>1. MergeTable(OverTable(A), OverTable(B)) = [headers |-> H, rows |-> J]
    BY <1>4 DEF OverTable, MergeTable, IsEmpty, Join
  <2>2. ASSUME NEW l \in Over(A), NEW r \in Over(B)
        PROVE  MergedRow(l, r) \in Over(H)
    <3> DEFINE g == MergedRow(l, r)
    <3>1. /\ l \in [A -> Value] /\ \A s \in A : l[s] \in Domain[s]
          /\ r \in [B -> Value] /\ \A s \in B : r[s] \in Domain[s]
      BY DEF Over, Assignments
    <3>2. g = [s \in H |-> IF s \in A THEN l[s] ELSE r[s]]
      BY <3>1 DEF MergedRow
    <3>3. g \in Assignments(H)
      BY <3>1, <3>2 DEF Assignments
    <3>4. Project(g, A) = l /\ Project(g, B) = r
      BY <3>1, <3>2 DEF Project
    <3> HIDE DEF g
    <3>5. ASSUME NEW k \in DOMAIN merged_tables, Headers(k) \subseteq H
          PROVE  Fits(g, merged_tables[k])
      <4>1. Headers(k) \subseteq A \/ Headers(k) \subseteq B
        BY <3>5 DEF TablesAreApart, CutsNoGroup
      <4>2. CASE Headers(k) \subseteq A
        <5>1. Fits(l, merged_tables[k])
          BY <4>2 DEF Over
        <5>2. QED
          BY <3>4, <4>2, <5>1, FitsProject DEF Headers
      <4>3. CASE Headers(k) \subseteq B
        <5>1. Fits(r, merged_tables[k])
          BY <4>3 DEF Over
        <5>2. QED
          BY <3>4, <4>3, <5>1, FitsProject DEF Headers
      <4>4. QED
        BY <4>1, <4>2, <4>3
    <3>6. QED
      BY <3>3, <3>5 DEF Over, g
  <2>3. ASSUME NEW g \in Over(H)
        PROVE  g \in J
    <3> DEFINE l == Project(g, A)
               r == Project(g, B)
    <3>1. l \in Over(A) /\ r \in Over(B)
      BY OverProjects
    <3>2. g \in [H -> Value]
      BY DEF Over, Assignments
    <3>3. MergedRow(l, r) = g
      BY <3>2 DEF MergedRow, Project
    <3>4. Agree(l, r, A \cap B)
      BY DEF Agree
    <3> HIDE DEF l, r
    <3>5. <<l, r>> \in {q \in Over(A) \X Over(B) : Agree(q[1], q[2], A \cap B)}
      BY <3>1, <3>4
    <3>6. QED
      BY <3>3, <3>5
  <2>4. J \subseteq Over(H)
    <3>1. ASSUME NEW p \in Over(A) \X Over(B)
          PROVE  MergedRow(p[1], p[2]) \in Over(H)
      BY <2>2
    <3>2. QED
      BY <3>1
  <2>5. QED
    BY <1>1, <1>4, <2>1, <2>3, <2>4 DEF OverTable
<1>5. QED
  BY <1>2, <1>3, <1>4

\* What is known of some groups extends to all, when none is empty.
LEMMA OverExtends ==
  ASSUME TablesAreApart, NEW U \in SUBSET Synonym, NEW X \in SUBSET U, CutsNoGroup(X),
         \A k \in DOMAIN merged_tables : Headers(k) \subseteq U /\ merged_tables[k].rows # {},
         \A s \in U \ X : Domain[s] # {},
         NEW g \in Over(X)
  PROVE  \E f \in Over(U) : Project(f, X) = g
<1> DEFINE Row(k) == CHOOSE row \in merged_tables[k].rows : TRUE
           Group(s) == CHOOSE k \in DOMAIN merged_tables : s \in Headers(k)
           f == [s \in U |-> IF s \in X THEN g[s]
                             ELSE IF InTables(s) THEN Row(Group(s))[s]
                             ELSE CHOOSE v \in Domain[s] : TRUE]
<1>1. \A k \in DOMAIN merged_tables : Row(k) \in merged_tables[k].rows /\ Row(k) \in Assignments(Headers(k))
  BY DEF TablesAreApart
<1>2. \A s : InTables(s) => Group(s) \in DOMAIN merged_tables /\ s \in Headers(Group(s))
  BY DEF InTables, Headers
<1>3. \A k \in DOMAIN merged_tables : \A s \in Headers(k) : InTables(s) /\ Group(s) = k
  <2> SUFFICES ASSUME NEW k \in DOMAIN merged_tables, NEW s \in Headers(k)
               PROVE  InTables(s) /\ Group(s) = k
    OBVIOUS
  <2>1. InTables(s)
    BY DEF InTables, Headers
  <2>2. QED
    BY <1>2, <2>1 DEF TablesAreApart
<1> HIDE DEF Row, Group
<1>4. g \in [X -> Value] /\ \A s \in X : g[s] \in Domain[s]
  BY DEF Over, Assignments
<1>5. \A s \in U : f[s] \in Domain[s] /\ f[s] \in Value
  <2> TAKE s \in U
  <2>1. Domain[s] \subseteq Value
    BY EvaluatorAssumption
  <2>2. CASE s \in X
    BY <1>4, <2>1, <2>2
  <2>3. CASE s \notin X /\ InTables(s)
    BY <1>1, <1>2, <2>1, <2>3 DEF Assignments
  <2>4. CASE s \notin X /\ ~InTables(s)
    BY <2>1, <2>4
  <2>5. QED
    BY <2>2, <2>3, <2>4
<1>6. f \in Assignments(U)
  BY <1>5 DEF Assignments
<1>7. Project(f, X) = g
  BY <1>4 DEF Project
<1>8. ASSUME NEW k \in DOMAIN merged_tables
      PROVE  Fits(f, merged_tables[k])
  <2>1. CASE Headers(k) \subseteq X
    <3>1. Fits(g, merged_tables[k])
      BY <2>1 DEF Over
    <3> HIDE DEF f
    <3>2. QED
      BY <1>7, <2>1, <3>1, FitsProject DEF Headers
  <2>2. CASE Headers(k) \cap X = {}
    <3>1. Headers(k) \subseteq U
      OBVIOUS
    <3>2. \A s \in Headers(k) : f[s] = Row(k)[s]
      BY <1>3, <2>2, <3>1
    <3>3. Row(k) \in [Headers(k) -> Value]
      BY <1>1 DEF Assignments
    <3> HIDE DEF f
    <3>4. Project(f, Headers(k)) = Row(k)
      BY <3>2, <3>3 DEF Project
    <3>5. QED
      BY <1>1, <3>4 DEF Fits, Headers
  <2>3. QED
    BY <2>1, <2>2 DEF CutsNoGroup
<1> HIDE DEF f
<1>9. f \in Over(U)
  BY <1>6, <1>8 DEF Over
<1>10. QED
  BY <1>7, <1>9
-----------------------------------------------------------------------------
(***************************************************************************)
(* SelectTuple's table.  The recursive definitions have the sequences of   *)
(* OverTables as solutions, and no other.                                  *)
(***************************************************************************)
SelectsGroup(k) == \E e \in Entities : e.synonym \in Headers(k)

\* The synonyms in the first k merged tables that the selection needs.
GroupSynonyms(k) == UNION {Headers(j) : j \in {i \in 1..k : SelectsGroup(i)}}

LEMMA GroupSynonymsCutNoGroup ==
  ASSUME TablesAreApart, NEW k \in 0..Len(merged_tables)
  PROVE  CutsNoGroup(GroupSynonyms(k))
<1>1. /\ 1..k \subseteq DOMAIN merged_tables
      /\ \A i, j \in DOMAIN merged_tables : i # j => Headers(i) \cap Headers(j) = {}
  BY DEF TablesAreApart
<1>2. ASSUME NEW m \in DOMAIN merged_tables, ~(Headers(m) \subseteq GroupSynonyms(k))
      PROVE  Headers(m) \cap GroupSynonyms(k) = {}
  <2>1. m \notin {i \in 1..k : SelectsGroup(i)}
    BY <1>2 DEF GroupSynonyms
  <2>2. \A i \in {j \in 1..k : SelectsGroup(j)} : Headers(i) \cap Headers(m) = {}
    BY <1>1, <2>1
  <2>3. QED
    BY <2>2 DEF GroupSynonyms
<1>3. QED
  BY <1>2 DEF CutsNoGroup

LEMMA GroupSynonymsGrow ==
  ASSUME TablesAreApart, NEW k \in 1..Len(merged_tables)
  PROVE  /\ CutsNoGroup(GroupSynonyms(k - 1))
         /\ GroupSynonyms(k - 1) \cap Headers(k) = {}
         /\ GroupSynonyms(k) = IF SelectsGroup(k) THEN GroupSynonyms(k - 1) \cup Headers(k) ELSE GroupSynonyms(k - 1)
<1>1. /\ DOMAIN merged_tables = 1..Len(merged_tables) /\ Len(merged_tables) \in Nat
      /\ \A i, j \in DOMAIN merged_tables : i # j => Headers(i) \cap Headers(j) = {}
  BY DEF TablesAreApart
<1>2. 1..(k - 1) \subseteq DOMAIN merged_tables /\ k \in DOMAIN merged_tables /\ k \notin 1..(k - 1)
  BY <1>1
<1>3. \A i : i \in 1..k <=> i \in 1..(k - 1) \/ i = k
  BY <1>1
<1>4. CutsNoGroup(GroupSynonyms(k - 1))
  BY <1>1, GroupSynonymsCutNoGroup
<1>5. GroupSynonyms(k - 1) \cap Headers(k) = {}
  <2>1. \A i \in 1..(k - 1) : Headers(i) \cap Headers(k) = {}
    BY <1>1, <1>2
  <2>2. QED
    BY <2>1 DEF GroupSynonyms
<1>6. CASE SelectsGroup(k)
  <2>1. {i \in 1..k : SelectsGroup(i)} = {i \in 1..(k - 1) : SelectsGroup(i)} \cup {k}
    BY <1>3, <1>6
  <2>2. QED
    BY <1>4, <1>5, <1>6, <2>1 DEF GroupSynonyms
<1>7. CASE ~SelectsGroup(k)
  <2>1. {i \in 1..k : SelectsGroup(i)} = {i \in 1..(k - 1) : SelectsGroup(i)}
    BY <1>3, <1>7
  <2>2. QED
    BY <1>4, <1>5, <1>7, <2>1 DEF GroupSynonyms
<1>8. QED
  BY <1>6, <1>7

LEMMA TupleOfTablesIsOver ==
  ASSUME TablesAreApart, NEW k \in 0..Len(merged_tables)
  PROVE  TupleOfTables[k] = OverTable(GroupSynonyms(k))
<1> DEFINE n == Len(merged_tables)
           After(h, j) == IF j = 0 THEN EmptyTable
                          ELSE IF SelectsGroup(j) THEN MergeTable(h[j - 1], merged_tables[j]) ELSE h[j - 1]
           over == [j \in 0..n |-> OverTable(GroupSynonyms(j))]
<1>1. n \in Nat /\ DOMAIN merged_tables = 1..n
  BY DEF TablesAreApart
<1>2. \A j \in 0..n : over[j] = After(over, j)
  <2> TAKE j \in 0..n
  <2>1. CASE j = 0
    <3>1. GroupSynonyms(0) = {}
      BY DEF GroupSynonyms
    <3>2. QED
      BY <1>1, <2>1, <3>1 DEF OverTable
  <2>2. CASE j # 0
    <3>1. j \in 1..n /\ j - 1 \in 0..n
      BY <1>1, <2>2
    <3>2. over[j] = OverTable(GroupSynonyms(j)) /\ over[j - 1] = OverTable(GroupSynonyms(j - 1))
      BY <3>1
    <3>3. OverTable(Headers(j)) = merged_tables[j] /\ CutsNoGroup(Headers(j))
      BY <1>1, <3>1, OverOneTable
    <3>4. MergeTable(OverTable(GroupSynonyms(j - 1)), merged_tables[j]) = OverTable(GroupSynonyms(j - 1) \cup Headers(j))
      BY <3>1, <3>3, GroupSynonymsGrow, MergeOver
    <3>5. QED
      BY <2>2, <3>1, <3>2, <3>4, GroupSynonymsGrow
  <2>3. QED
    BY <2>1, <2>2
<1>3. \A j \in 0..n : TupleOfTables[j] = After(TupleOfTables, j)
  <2>1. over = [j \in 0..n |-> After(over, j)]
    BY <1>2
  <2> HIDE DEF over
  <2>2. TupleOfTables = [j \in 0..n |-> After(TupleOfTables, j)]
    BY <2>1 DEF TupleOfTables, SelectsGroup, Headers
  <2> HIDE DEF After
  <2>3. QED
    BY <2>2
<1> DEFINE S == {j \in 0..n : TupleOfTables[j] # over[j]}
<1>4. S = {}
  <2>1. SUFFICES ASSUME S # {} PROVE FALSE
    OBVIOUS
  <2>2. S \in SUBSET Nat
    BY <1>1
  <2>3. PICK i \in S : \A j \in S : i <= j
    BY <2>1, <2>2, LeastElement
  <2>4. i \in 0..n /\ TupleOfTables[i] # over[i]
    OBVIOUS
  <2>5. TupleOfTables[i] = After(TupleOfTables, i) /\ over[i] = After(over, i)
    BY <1>2, <1>3, <2>4
  <2>6. i # 0
    <3>1. After(TupleOfTables, 0) = After(over, 0)
      OBVIOUS
    <3>2. QED
      BY <2>4, <2>5, <3>1
  <2>7. i - 1 \in 0..n /\ ~(i <= i - 1)
    BY <1>1, <2>4, <2>6
  <2>8. i - 1 \notin S
    BY <2>3, <2>7
  <2>9. TupleOfTables[i - 1] = over[i - 1]
    BY <2>7, <2>8
  <2>10. After(TupleOfTables, i) = After(over, i)
    <3> HIDE DEF over
    <3> QED BY <2>9
  <2>11. QED
    BY <2>4, <2>5, <2>10
<1>5. QED
  BY <1>4

\* No selection takes a synonym by two attributes.
NoSecondColumn ==
  \A sel \in Selections : \A i, j \in DOMAIN sel : sel[i].synonym = sel[j].synonym => sel[i] = sel[j]

TupleSynonyms(i) == GroupSynonyms(Len(merged_tables)) \cup {selected[j].synonym : j \in 1..i}

LEMMA SelectedEntities ==
  ASSUME selected \in Selections
  PROVE  /\ Len(selected) \in Nat /\ DOMAIN selected = 1..Len(selected)
         /\ \A i \in DOMAIN selected : selected[i].synonym \in Synonym
<1> DEFINE E == [synonym : Synonym, attribute : DOMAIN Attribute]
<1>1. selected \in Seq(E)
  BY SelectionAssumption
<1>2. \A e \in E : e.synonym \in Synonym
  OBVIOUS
<1> HIDE DEF E
<1>3. QED
  BY <1>1, <1>2

LEMMA SelectedGroupSynonyms ==
  ASSUME TablesAreApart, NEW s \in {selected[i].synonym : i \in DOMAIN selected}
  PROVE  s \in GroupSynonyms(Len(merged_tables)) <=> InTables(s)
<1>1. PICK i \in DOMAIN selected : s = selected[i].synonym
  OBVIOUS
<1>2. selected[i] \in Entities
  BY DEF Entities
<1>3. \A k : s \in Headers(k) => SelectsGroup(k)
  BY <1>1, <1>2 DEF SelectsGroup
<1>4. DOMAIN merged_tables = 1..Len(merged_tables)
  BY DEF TablesAreApart
<1>5. QED
  BY <1>3, <1>4 DEF GroupSynonyms, InTables, Headers

LEMMA AddEntityToOver ==
  ASSUME TablesAreApart, selected \in Selections, NoSecondColumn,
         NEW i \in 1..Len(selected), CutsNoGroup(TupleSynonyms(i - 1))
  PROVE  /\ AddEntity(OverTable(TupleSynonyms(i - 1)), i) = OverTable(TupleSynonyms(i))
         /\ CutsNoGroup(TupleSynonyms(i))
<1> DEFINE s == selected[i].synonym
           T == OverTable(TupleSynonyms(i - 1))
<1>1. s \in Synonym /\ i \in DOMAIN selected /\ 1..i = 1..(i - 1) \cup {i} /\ 1..(i - 1) \subseteq DOMAIN selected /\ i \notin 1..(i - 1)
  BY SelectedEntities
<1>2. TupleSynonyms(i) = TupleSynonyms(i - 1) \cup {s}
  BY <1>1 DEF TupleSynonyms
<1>3. s \in GroupSynonyms(Len(merged_tables)) <=> InTables(s)
  BY <1>1, SelectedGroupSynonyms
<1>4. CASE InTables(s) \/ \E j \in 1..(i - 1) : selected[j] = selected[i]
  <2>1. AddEntity(T, i) = T
    BY <1>4 DEF AddEntity
  <2>2. TupleSynonyms(i) = TupleSynonyms(i - 1)
    BY <1>2, <1>3, <1>4 DEF TupleSynonyms
  <2>3. QED
    BY <2>1, <2>2
<1>5. CASE ~InTables(s) /\ ~(\E j \in 1..(i - 1) : selected[j] = selected[i])
  <2>1. \A j \in 1..(i - 1) : selected[j].synonym # s
    BY <1>1, <1>5 DEF NoSecondColumn
  <2>2. AddEntity(T, i) = MergeTable(T, ColumnTable(s))
    BY <1>5, <2>1 DEF AddEntity
  <2>3. OverTable({s}) = ColumnTable(s) /\ CutsNoGroup({s})
    BY <1>1, <1>5, OverOneColumn
  <2>4. TupleSynonyms(i - 1) \cap {s} = {}
    BY <1>3, <1>5, <2>1 DEF TupleSynonyms
  <2>5. MergeTable(T, OverTable({s})) = OverTable(TupleSynonyms(i - 1) \cup {s}) /\ CutsNoGroup(TupleSynonyms(i - 1) \cup {s})
    BY <2>3, <2>4, MergeOver
  <2>6. QED
    BY <1>2, <2>2, <2>3, <2>5
<1>6. QED
  BY <1>4, <1>5

LEMMA TupleTableIsOver ==
  ASSUME TablesAreApart, selected \in Selections, NoSecondColumn, NEW k \in 0..Len(selected)
  PROVE  TupleTable[k] = OverTable(TupleSynonyms(k)) /\ CutsNoGroup(TupleSynonyms(k))
<1> DEFINE n == Len(selected)
           After(h, j) == IF j = 0 THEN TupleOfTables[Len(merged_tables)] ELSE AddEntity(h[j - 1], j)
           over == [j \in 0..n |-> OverTable(TupleSynonyms(j))]
<1>1. n \in Nat /\ Len(merged_tables) \in 0..Len(merged_tables)
  BY SelectedEntities DEF TablesAreApart
<1>2. TupleSynonyms(0) = GroupSynonyms(Len(merged_tables))
  BY DEF TupleSynonyms
<1>3. \A j \in 0..n : CutsNoGroup(TupleSynonyms(j))
  <2> DEFINE R == {j \in 0..n : ~CutsNoGroup(TupleSynonyms(j))}
  <2>1. SUFFICES ASSUME R # {} PROVE FALSE
    OBVIOUS
  <2>2. PICK i \in R : \A j \in R : i <= j
    <3>1. R \in SUBSET Nat
      BY <1>1
    <3> HIDE DEF R
    <3>2. QED
      BY <2>1, <3>1, LeastElement
  <2>3. i # 0
    BY <1>1, <1>2, GroupSynonymsCutNoGroup
  <2>4. i \in 1..n /\ i - 1 \in 0..n /\ ~(i <= i - 1)
    BY <1>1, <2>3
  <2>5. CutsNoGroup(TupleSynonyms(i - 1))
    BY <2>2, <2>4
  <2>6. QED
    BY <2>4, <2>5, AddEntityToOver
<1>4. \A j \in 0..n : over[j] = After(over, j)
  <2> TAKE j \in 0..n
  <2>1. CASE j = 0
    BY <1>1, <1>2, <2>1, TupleOfTablesIsOver
  <2>2. CASE j # 0
    <3>1. j \in 1..n /\ j - 1 \in 0..n
      BY <1>1, <2>2
    <3>2. over[j] = OverTable(TupleSynonyms(j)) /\ over[j - 1] = OverTable(TupleSynonyms(j - 1))
      BY <3>1
    <3>3. AddEntity(OverTable(TupleSynonyms(j - 1)), j) = OverTable(TupleSynonyms(j))
      BY <1>3, <3>1, AddEntityToOver
    <3>4. QED
      BY <2>2, <3>2, <3>3
  <2>3. QED
    BY <2>1, <2>2
<1>5. \A j \in 0..n : TupleTable[j] = After(TupleTable, j)
  <2>1. over = [j \in 0..n |-> After(over, j)]
    BY <1>4
  <2> HIDE DEF over
  <2>2. TupleTable = [j \in 0..n |-> After(TupleTable, j)]
    BY <2>1 DEF TupleTable
  <2> HIDE DEF After
  <2>3. QED
    BY <2>2
<1> DEFINE S == {j \in 0..n : TupleTable[j] # over[j]}
<1>6. S = {}
  <2>1. SUFFICES ASSUME S # {} PROVE FALSE
    OBVIOUS
  <2>2. S \in SUBSET Nat
    BY <1>1
  <2>3. PICK i \in S : \A j \in S : i <= j
    <3> HIDE DEF S
    <3> QED BY <2>1, <2>2, LeastElement
  <2>4. i \in 0..n /\ TupleTable[i] # over[i]
    OBVIOUS
  <2>5. TupleTable[i] = After(TupleTable, i) /\ over[i] = After(over, i)
    BY <1>4, <1>5, <2>4
  <2>6. i # 0
    <3>1. After(TupleTable, 0) = After(over, 0)
      OBVIOUS
    <3>2. QED
      BY <2>4, <2>5, <3>1
  <2>7. i - 1 \in 0..n /\ ~(i <= i - 1)
    BY <1>1, <2>4, <2>6
  <2>8. i - 1 \notin S
    BY <2>3, <2>7
  <2>9. TupleTable[i - 1] = over[i - 1]
    BY <2>7, <2>8
  <2>10. After(TupleTable, i) = After(over, i)
    <3> HIDE DEF over
    <3> QED BY <2>9
  <2>11. QED
    BY <2>4, <2>5, <2>10
<1>7. QED
  BY <1>3, <1>6
-----------------------------------------------------------------------------
(***************************************************************************)
(* The answer.  An assignment satisfies the query exactly when it fits     *)
(* every merged table, and what is selected of those assignments is        *)
(* selected of the rows over any synonyms that cut no group.               *)
(***************************************************************************)
AllSynonyms == SynonymsOf(query) \cup {selected[i].synonym : i \in DOMAIN selected}

Tuple(f) == [i \in DOMAIN selected |-> ConvertToAttribute(selected[i], f)]

MergingDone == EvalInv /\ AllClausesEvaluated /\ Optimizer!Done

LEMMA MergingDoneProperties ==
  ASSUME MergingDone
  PROVE  /\ TypeOK /\ NoAnswerLost /\ NoAnswerInvented /\ QueryInv /\ MergeInv
         /\ status = "evaluating" /\ evaluated = query
         /\ TablesAreApart
         /\ \A k \in DOMAIN merged_tables : Headers(k) \subseteq SynonymsOf(query)
         /\ \A f : (\A k \in DOMAIN merged_tables : Fits(f, merged_tables[k])) <=> FitsAll(f, database)
<1>1. /\ TypeOK /\ NoAnswerLost /\ NoAnswerInvented /\ QueryInv /\ MergeInv
      /\ status = "evaluating" /\ evaluated = query
  BY DEF MergingDone, EvalInv, AllClausesEvaluated
<1>2. TablesAreApart /\ \A k \in DOMAIN merged_tables : Headers(k) \subseteq SynonymsOf(query)
  BY <1>1, MergeInvTables
<1>3. merged = DOMAIN database /\ OptProofs!IsEmpty(group_table)
  BY DEF MergingDone, Optimizer!Done, Optimizer!Node, Optimizer!IsEmpty, OptProofs!IsEmpty
<1>4. \A f, t : OptProofs!Fits(f, t) <=> Fits(f, t)
  BY DEF OptProofs!Fits, OptProofs!Project, Fits, Project
<1>5. \A f : (\A k \in DOMAIN merged_tables : Fits(f, merged_tables[k])) <=> FitsAll(f, database)
  BY <1>1, <1>3, <1>4 DEF MergeInv, OptProofs!Inv, OptProofs!Exact, FitsAll
<1>6. QED
  BY <1>1, <1>2, <1>5

LEMMA FoundIsOver ==
  ASSUME MergingDone
  PROVE  {f \in Assignments(AllSynonyms) : \A c \in query : c.valid /\ Holds(c, f)} = Over(AllSynonyms)
<1> DEFINE S == SynonymsOf(query)
<1>1. S \subseteq AllSynonyms /\ IsDatabase(database, S)
  BY MergingDoneProperties, TypeOKDatabase DEF AllSynonyms
<1>2. Satisfying(query) = Answers(database, S)
  BY MergingDoneProperties DEF NoAnswerLost, NoAnswerInvented
<1>3. ASSUME NEW f \in Assignments(AllSynonyms)
      PROVE  (\A c \in query : c.valid /\ Holds(c, f)) <=> \A k \in DOMAIN merged_tables : Fits(f, merged_tables[k])
  <2> DEFINE g == Project(f, S)
  <2>1. g \in Assignments(S)
    BY <1>1 DEF Assignments, Project
  <2>2. ASSUME NEW c \in query
        PROVE  Holds(c, g) = Holds(c, f)
    <3>1. \A s \in {c.lhs, c.rhs} \cap Synonym : g[s] = f[s]
      BY SynonymInSet DEF Project
    <3>2. QED
      BY <3>1, HoldsIsLocal
  <2>3. FitsAll(g, database) <=> FitsAll(f, database)
    BY <1>1, FitsAllProject
  <2> HIDE DEF g
  <2>4. (\A c \in query : Holds(c, g)) <=> FitsAll(g, database)
    BY <1>2, <2>1 DEF Satisfying, Answers, FitsAll
  <2>5. \A c \in query : c.valid
    BY MergingDoneProperties DEF QueryInv
  <2>6. QED
    BY <2>2, <2>3, <2>4, <2>5, MergingDoneProperties
<1>4. \A k \in DOMAIN merged_tables : Headers(k) \subseteq AllSynonyms
  BY <1>1, MergingDoneProperties
<1>5. QED
  BY <1>3, <1>4 DEF Over

LEMMA CorrectIsOver ==
  ASSUME MergingDone, \A k \in DOMAIN merged_tables : merged_tables[k].rows # {},
         NEW X \in SUBSET AllSynonyms, CutsNoGroup(X), \A i \in DOMAIN selected : selected[i].synonym \in X
  PROVE  CorrectAnswer(query, selected) = {Tuple(g) : g \in Over(X)}
<1>1. CorrectAnswer(query, selected) = {Tuple(f) : f \in Over(AllSynonyms)}
  BY FoundIsOver DEF CorrectAnswer, AllSynonyms, Tuple
<1>2. ASSUME NEW f
      PROVE  Tuple(Project(f, X)) = Tuple(f)
  BY DEF Tuple, ConvertToAttribute, Project
<1>3. \A f \in Over(AllSynonyms) : Project(f, X) \in Over(X)
  BY OverProjects
<1>4. ASSUME NEW g \in Over(X)
      PROVE  \E f \in Over(AllSynonyms) : Project(f, X) = g
  <2>1. AllSynonyms \in SUBSET Synonym
    <3>1. SynonymsOf(query) \subseteq Synonym
      BY DEF SynonymsOf
    <3>2. selected \in Selections
      BY MergingDoneProperties DEF QueryInv
    <3>3. QED
      BY <3>1, <3>2, SelectedEntities DEF AllSynonyms
  <2>2. \A s \in AllSynonyms \ X : Domain[s] # {}
    BY MergingDoneProperties DEF AllSynonyms, QueryInv
  <2>3. \A k \in DOMAIN merged_tables : Headers(k) \subseteq AllSynonyms /\ merged_tables[k].rows # {}
    BY MergingDoneProperties DEF AllSynonyms
  <2>4. QED
    BY <2>1, <2>2, <2>3, MergingDoneProperties, OverExtends
<1>5. QED
  BY <1>1, <1>2, <1>3, <1>4

LEMMA TrueClausesLeaveRows ==
  ASSUME MergingDone
  PROVE  AllClausesTrue <=> \A k \in DOMAIN merged_tables : merged_tables[k].rows # {}
<1>1. \A k \in DOMAIN merged_tables : ~IsEmpty(merged_tables[k])
  BY MergingDoneProperties DEF TablesAreApart, IsEmpty, Headers
<1>2. ASSUME database = <<>>, NEW k \in DOMAIN merged_tables
      PROVE  merged_tables[k].rows # {}
  <2>1. \A f : FitsAll(f, database)
    BY <1>2 DEF FitsAll
  <2>2. \A f : Fits(f, merged_tables[k])
    BY <2>1, MergingDoneProperties
  <2>3. QED
    BY <2>2 DEF Fits
<1>3. QED
  BY <1>1, <1>2 DEF AllClausesTrue, HasNoRows

LEMMA SelectNothing ==
  ASSUME MergingDone, AllClausesTrue, Len(selected) = 0
  PROVE  CorrectAnswer(query, selected) = {<<>>}
<1>1. DOMAIN selected = {}
  BY MergingDoneProperties, SelectedEntities DEF QueryInv
<1>2. CorrectAnswer(query, selected) = {Tuple(g) : g \in Over({})}
  <2>1. CutsNoGroup({}) /\ {} \in SUBSET AllSynonyms
    BY DEF CutsNoGroup
  <2>2. QED
    BY <1>1, <2>1, TrueClausesLeaveRows, CorrectIsOver
<1>3. [s \in {} |-> s] \in Over({})
  <2>1. \A k \in DOMAIN merged_tables : ~(Headers(k) \subseteq {})
    BY MergingDoneProperties DEF TablesAreApart
  <2>2. QED
    BY <2>1 DEF Over, Assignments
<1>4. \A g : Tuple(g) = <<>>
  BY <1>1 DEF Tuple
<1>5. QED
  BY <1>2, <1>3, <1>4

LEMMA SelectOneIsCorrect ==
  ASSUME MergingDone, AllClausesTrue, Len(selected) = 1
  PROVE  SelectOne = CorrectAnswer(query, selected)
<1> DEFINE s == selected[1].synonym
           Value1(v) == <<Attribute[selected[1].attribute][v]>>
<1>1. DOMAIN selected = {1} /\ s \in Synonym /\ s \in AllSynonyms
  <2>1. selected \in Selections
    BY MergingDoneProperties DEF QueryInv
  <2>2. DOMAIN selected = 1..Len(selected) /\ \A i \in DOMAIN selected : selected[i].synonym \in Synonym
    BY <2>1, SelectedEntities
  <2>3. DOMAIN selected = {1}
    BY <2>2
  <2>4. QED
    BY <2>2, <2>3 DEF AllSynonyms
<1>2. \A g : Tuple(g) = Value1(g[s])
  BY <1>1 DEF Tuple, ConvertToAttribute
<1> HIDE DEF Value1
<1>3. ASSUME NEW X \in SUBSET AllSynonyms, CutsNoGroup(X), s \in X,
             {g[s] : g \in Over(X)} = GetSmallestDesignEntitySet(s, merged_tables)
      PROVE  SelectOne = CorrectAnswer(query, selected)
  <2>1. CorrectAnswer(query, selected) = {Tuple(g) : g \in Over(X)}
    BY <1>1, <1>3, TrueClausesLeaveRows, CorrectIsOver
  <2>2. SelectOne = {Value1(v) : v \in GetSmallestDesignEntitySet(s, merged_tables)}
    BY DEF SelectOne, Value1
  <2>3. SelectOne = {Value1(v) : v \in {g[s] : g \in Over(X)}}
    BY <1>3, <2>2
  <2>4. QED
    BY <1>2, <2>1, <2>3
<1>4. CASE InTables(s)
  <2>1. PICK k \in DOMAIN merged_tables : s \in Headers(k)
    BY <1>4 DEF InTables, Headers
  <2>2. {i \in DOMAIN merged_tables : s \in merged_tables[i].headers} = {k}
    BY <2>1, MergingDoneProperties DEF TablesAreApart, Headers
  <2>3. GetSmallestDesignEntitySet(s, merged_tables) = GetColumn(merged_tables[k], s)
    <3>1. k <= k
      BY <2>1, MergingDoneProperties DEF TablesAreApart
    <3>2. (CHOOSE i \in {k} : \A j \in {k} : j <= i) = k
      BY <3>1
    <3>3. QED
      BY <2>2, <3>2 DEF GetSmallestDesignEntitySet
  <2>4. OverTable(Headers(k)) = merged_tables[k] /\ CutsNoGroup(Headers(k)) /\ Headers(k) # {}
    BY MergingDoneProperties, OverOneTable DEF TablesAreApart
  <2>5. Over(Headers(k)) = merged_tables[k].rows
    BY <2>4 DEF OverTable
  <2>6. Headers(k) \in SUBSET AllSynonyms
    BY MergingDoneProperties DEF AllSynonyms
  <2>7. QED
    BY <1>3, <2>1, <2>3, <2>4, <2>5, <2>6 DEF GetColumn
<1>5. CASE ~InTables(s)
  <2>1. GetSmallestDesignEntitySet(s, merged_tables) = Domain[s]
    BY <1>5 DEF GetSmallestDesignEntitySet, InTables
  <2>2. OverTable({s}) = ColumnTable(s) /\ CutsNoGroup({s})
    BY <1>1, <1>5, MergingDoneProperties, OverOneColumn
  <2>3. Over({s}) = {[x \in {s} |-> v] : v \in Domain[s]}
    BY <2>2 DEF OverTable, ColumnTable
  <2>4. {g[s] : g \in Over({s})} = Domain[s]
    <3> DEFINE Column(v) == [x \in {s} |-> v]
    <3>1. \A v : Column(v)[s] = v
      OBVIOUS
    <3>2. Over({s}) = {Column(v) : v \in Domain[s]}
      BY <2>3
    <3> HIDE DEF Column
    <3>3. ASSUME NEW v \in Domain[s]
          PROVE  \E g \in Over({s}) : g[s] = v
      BY <3>1, <3>2
    <3>4. ASSUME NEW g \in Over({s})
          PROVE  g[s] \in Domain[s]
      BY <3>1, <3>2
    <3>5. QED
      BY <3>3, <3>4
  <2>5. QED
    BY <1>1, <1>3, <2>1, <2>2, <2>4
<1>6. QED
  BY <1>4, <1>5

LEMMA SelectTupleIsCorrect ==
  ASSUME NoSecondColumn, MergingDone, AllClausesTrue, Len(selected) \notin {0, 1}
  PROVE  SelectTuple = CorrectAnswer(query, selected)
<1> DEFINE n == Len(selected)
           X == TupleSynonyms(n)
<1>1. selected \in Selections /\ n \in Nat /\ n # 0 /\ DOMAIN selected = 1..n
  BY MergingDoneProperties, SelectedEntities DEF QueryInv
<1>2. TupleTable[n] = OverTable(X) /\ CutsNoGroup(X)
  BY <1>1, MergingDoneProperties, TupleTableIsOver
<1>3. \A i \in DOMAIN selected : selected[i].synonym \in X
  BY <1>1 DEF TupleSynonyms
<1>4. X \in SUBSET AllSynonyms
  <2>1. GroupSynonyms(Len(merged_tables)) \subseteq SynonymsOf(query)
    <3>1. 1..Len(merged_tables) = DOMAIN merged_tables
      BY MergingDoneProperties DEF TablesAreApart
    <3>2. QED
      BY <3>1, MergingDoneProperties DEF GroupSynonyms
  <2>2. QED
    BY <1>1, <2>1 DEF TupleSynonyms, AllSynonyms
<1>5. X # {}
  BY <1>1, <1>3
<1> HIDE DEF X
<1>6. TupleTable[n].rows = Over(X)
  BY <1>2, <1>5 DEF OverTable
<1>7. SelectTuple = {Tuple(g) : g \in Over(X)}
  BY <1>6 DEF SelectTuple, Tuple
<1>8. QED
  BY <1>2, <1>3, <1>4, <1>7, TrueClausesLeaveRows, CorrectIsOver

LEMMA SelectionIsCorrect ==
  ASSUME NoSecondColumn, MergingDone
  PROVE  SelectFromTables = CorrectAnswer(query, selected)
<1>1. CASE ~AllClausesTrue
  <2>1. PICK k \in DOMAIN merged_tables : merged_tables[k].rows = {}
    BY <1>1, TrueClausesLeaveRows
  <2>2. Headers(k) \subseteq AllSynonyms
    BY MergingDoneProperties DEF AllSynonyms
  <2>3. Over(AllSynonyms) = {}
    BY <2>1, <2>2 DEF Over, Fits
  <2>4. CorrectAnswer(query, selected) = {}
    BY <2>3, FoundIsOver DEF CorrectAnswer, AllSynonyms
  <2>5. QED
    BY <1>1, <2>4 DEF SelectFromTables
<1>2. CASE AllClausesTrue /\ Len(selected) = 0
  BY <1>2, SelectNothing DEF SelectFromTables
<1>3. CASE AllClausesTrue /\ Len(selected) = 1
  BY <1>3, SelectOneIsCorrect DEF SelectFromTables
<1>4. CASE AllClausesTrue /\ Len(selected) \notin {0, 1}
  BY <1>4, SelectTupleIsCorrect DEF SelectFromTables
<1>5. QED
  BY <1>1, <1>2, <1>3, <1>4

\* A query with an invalid clause, or one whose clauses nothing satisfies, has
\* no answer.
LEMMA NothingToSelect ==
  ASSUME EvalInv, status \in {"false", "error"}
  PROVE  CorrectAnswer(query, selected) = {}
<1>1. SUFFICES ASSUME NEW f \in Assignments(AllSynonyms), \A c \in query : c.valid /\ Holds(c, f)
               PROVE  FALSE
  BY DEF CorrectAnswer, AllSynonyms
<1>2. QueryInv /\ NoAnswerLost
  BY DEF EvalInv
<1>3. status = "false" /\ Satisfying(evaluated) = {}
  BY <1>1, <1>2 DEF QueryInv, NoAnswerLost
<1> DEFINE S == SynonymsOf(evaluated)
           g == Project(f, S)
<1>4. g \in Assignments(S)
  <2>1. S \subseteq AllSynonyms
    BY <1>2 DEF QueryInv, SynonymsOf, AllSynonyms
  <2>2. QED
    BY <2>1 DEF Assignments, Project
<1>5. ASSUME NEW c \in evaluated
      PROVE  Holds(c, g)
  <2>1. \A s \in {c.lhs, c.rhs} \cap Synonym : g[s] = f[s]
    BY SynonymInSet DEF Project
  <2>2. Holds(c, g) = Holds(c, f)
    BY <2>1, HoldsIsLocal
  <2>3. QED
    BY <1>1, <1>2, <2>2 DEF QueryInv
<1>6. QED
  BY <1>3, <1>4, <1>5 DEF Satisfying
-----------------------------------------------------------------------------
LEMMA EvalInvHolds ==
  ASSUME ShortcutsAreSound, NoRepeatedSynonym
  PROVE  EvaluateSpec => []EvalInv
<1>1. EvalInv /\ [EvaluateNext]_allVars => EvalInv'
  BY EvalInvStep
<1>2. QED
  BY <1>1, EvalInvInit, PTL DEF EvaluateSpec

\* While tables are merged and the answer is selected the database still means
\* exactly the clauses of the query, evaluated once each in any order.
THEOREM DatabaseMeansTheQuery ==
  ASSUME ShortcutsAreSound, NoRepeatedSynonym
  PROVE  EvaluateSpec => [](TypeOK /\ NoAnswerLost /\ NoAnswerInvented)
<1>1. EvalInv => TypeOK /\ NoAnswerLost /\ NoAnswerInvented
  BY DEF EvalInv
<1>2. QED
  BY <1>1, EvalInvHolds, PTL


LEMMA EvaluateStepIsPromised ==
  ASSUME NoSecondColumn, EvalInv, [EvaluateNext]_allVars
  PROVE  [Promise!GiveAnswer]_<<<<query, selected>>, answer>>
<1> DEFINE correct == CorrectAnswer(query, selected)
           asked == <<query, selected>>
<1>1. [q \in Queries \X Selections |-> CorrectAnswer(q[1], q[2])][asked] = correct
  <2>1. asked \in Queries \X Selections /\ asked[1] = query /\ asked[2] = selected
    BY DEF EvalInv, QueryInv
  <2>2. QED
    BY <2>1
<1>2. ASSUME answer = NoAnswer, answer' = correct, UNCHANGED <<query, selected>>
      PROVE  Promise!GiveAnswer
  BY <1>1, <1>2 DEF Promise!GiveAnswer
<1>3. CASE AnswerWithoutMerging
  <2>1. correct = {}
    BY <1>3, NothingToSelect DEF AnswerWithoutMerging
  <2>2. QED
    BY <1>2, <1>3, <2>1 DEF AnswerWithoutMerging
<1>4. CASE AnswerFromTables
  <2>1. SelectFromTables = correct
    BY <1>4, SelectionIsCorrect DEF AnswerFromTables, MergingDone
  <2>2. QED
    BY <1>2, <1>4, <2>1 DEF AnswerFromTables
<1>5. CASE EvaluateNextClause \/ MergeTables \/ UNCHANGED allVars
  BY <1>5 DEF EvaluateNextClause, MergeTables, allVars
<1>6. QED
  BY <1>3, <1>4, <1>5 DEF EvaluateNext

\* EvaluateQuery gives at most one answer, and it is what the clauses and the
\* selection mean, for every program database, query and selection: clauses in
\* any order, tables dropped, merged by groups and projected notwithstanding.
THEOREM EvaluationIsCorrect ==
  ASSUME ShortcutsAreSound, NoRepeatedSynonym, NoSecondColumn
  PROVE  EvaluateSpec => Promise!SafeSpec
<1>1. EvaluateInit => Promise!Init
  BY DEF EvaluateInit, Promise!Init
<1>2. EvalInv /\ [EvaluateNext]_allVars => [Promise!GiveAnswer]_<<<<query, selected>>, answer>>
  BY EvaluateStepIsPromised
<1>3. QED
  BY <1>1, <1>2, EvalInvHolds, PTL DEF EvaluateSpec, Promise!SafeSpec
=============================================================================
