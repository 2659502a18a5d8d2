-------------------------- MODULE MCQueryEvaluator --------------------------
(***************************************************************************)
(* Small queries for QueryEvaluator.  Three synonyms over statements 1..3  *)
(* (a ranges over the assignments 1..2 only), relations chosen so that      *)
(* clauses overlap, exclude each other and can be false on their own.      *)
(***************************************************************************)
EXTENDS QueryEvaluator

CONSTANTS a, b, n

MCSynonym == {a, b, n}
MCValue == 1..3
MCDomain == [s \in MCSynonym |-> IF s = a THEN 1..2 ELSE 1..3]

Clause(kind, lhs, rhs, rel, no_similar, expr) ==
  [kind |-> kind, valid |-> TRUE, lhs |-> lhs, rhs |-> rhs, rel |-> rel,
   wild |-> 1..3, no_similar |-> no_similar, expr |-> expr]

SuchThat(rel, no_similar, lhs, rhs) == Clause("suchthat", lhs, rhs, rel, no_similar, Wildcard)

Next1 == {<<1, 2>>, <<2, 3>>}
NextT == {<<1, 1>>, <<1, 2>>, <<2, 1>>, <<2, 2>>, <<2, 3>>, <<1, 3>>}
Modifies == {<<1, 2>>, <<2, 3>>}
Same == {<<v, v>> : v \in MCValue}

\* Clauses of every kind, over pairs of synonyms, constants and wildcards.
PlainClauses ==
  {SuchThat(Next1, TRUE, p[1], p[2]) :
     p \in {<<n, b>>, <<b, n>>, <<a, n>>, <<n, n>>, <<n, 2>>, <<Wildcard, b>>, <<1, 2>>, <<1, 1>>}}
  \cup {SuchThat(NextT, FALSE, p[1], p[2]) :
     p \in {<<n, b>>, <<a, b>>, <<a, Wildcard>>, <<Wildcard, Wildcard>>, <<2, 2>>, <<3, 1>>}}
  \cup {Clause("pattern", a, p[1], Modifies, FALSE, p[2]) :
     p \in {<<b, Wildcard>>, <<b, {2}>>, <<Wildcard, Wildcard>>, <<Wildcard, {2}>>}}
  \cup {Clause("conditional", n, p, {<<3, 1>>, <<3, 2>>}, FALSE, Wildcard) : p \in {b, Wildcard, 1}}
  \cup {Clause("with", p[1], p[2], Same, FALSE, Wildcard) :
     p \in {<<a, n>>, <<n, n>>, <<n, 3>>, <<2, 2>>, <<1, 2>>}}
  \cup {[SuchThat(Next1, TRUE, n, b) EXCEPT !.valid = FALSE]}

\* Next*(n, n) and AffectsBip*(a, a), which name a synonym twice; the sort of
\* the clauses puts both behind a Next clause over two synonyms.
RepeatedClauses ==
  {SuchThat(NextT, FALSE, n, n), SuchThat({<<1, 1>>}, FALSE, a, a)}

AllClauses == PlainClauses \cup RepeatedClauses

\* Uses("main", "main"): value 1 is both a procedure and a variable.
SameNameClauses ==
  PlainClauses \cup {SuchThat({<<1, 1>>}, TRUE, 1, 1)}
=============================================================================
