-------------------------- MODULE MCEvaluateQuery --------------------------
(***************************************************************************)
(* Queries of up to three clauses over four synonyms, with every kind of   *)
(* selection: clauses that share synonyms, that share none, that are false *)
(* or invalid, and selected synonyms that no clause names, once, again or  *)
(* by an attribute.                                                        *)
(***************************************************************************)
EXTENDS EvaluateQuery

CONSTANTS a, b, n, v

MCSynonym == {a, b, n, v}
MCValue == 1..2
MCDomain == [s \in MCSynonym |-> IF s = a THEN {1} ELSE 1..2]

Clause(kind, lhs, rhs, rel, no_similar, expr) ==
  [kind |-> kind, valid |-> TRUE, lhs |-> lhs, rhs |-> rhs, rel |-> rel,
   wild |-> 1..2, no_similar |-> no_similar, expr |-> expr]

SuchThat(rel, no_similar, lhs, rhs) == Clause("suchthat", lhs, rhs, rel, no_similar, Wildcard)

Next1 == {<<1, 2>>}
NextT == {<<1, 1>>, <<1, 2>>, <<2, 2>>}
Same == {<<1, 1>>, <<2, 2>>}

MCClauses ==
  {SuchThat(Next1, TRUE, p[1], p[2]) : p \in {<<n, b>>, <<n, n>>, <<1, 1>>, <<2, 1>>, <<Wildcard, 2>>}}
  \cup {SuchThat(NextT, FALSE, p[1], p[2]) :
     p \in {<<b, n>>, <<a, b>>, <<v, Wildcard>>, <<Wildcard, Wildcard>>, <<2, 2>>}}
  \cup {SuchThat({<<2, 1>>, <<2, 2>>}, FALSE, n, v)}
   \* two of these three can hold together, all three cannot
  \cup {Clause("with", n, v, Same, FALSE, Wildcard), Clause("with", n, b, Same, FALSE, Wildcard),
        SuchThat({<<1, 2>>, <<2, 1>>}, FALSE, b, v)}
  \cup {Clause("with", p[1], p[2], Same, FALSE, Wildcard) : p \in {<<b, 2>>, <<n, n>>, <<1, 2>>}}
  \cup {Clause("pattern", a, p[1], {<<1, 2>>}, FALSE, p[2]) :
     p \in {<<Wildcard, Wildcard>>, <<b, {1}>>, <<Wildcard, {2}>>}}
  \cup {Clause("conditional", n, p, {<<2, 1>>}, FALSE, Wildcard) : p \in {Wildcard, b, 1}}
  \cup {[SuchThat(Next1, TRUE, n, n) EXCEPT !.valid = FALSE]}

MCAttribute == [itself |-> [x \in MCValue |-> x], name |-> [x \in MCValue |-> 3 - x]]

Entity(synonym) == [synonym |-> synonym, attribute |-> "itself"]
Name(synonym) == [synonym |-> synonym, attribute |-> "name"]

MCSelections ==
  {<<>>, <<Entity(a)>>, <<Name(n)>>, <<Name(v), Entity(v)>>, <<Entity(n), Entity(v)>>, <<Entity(b), Name(a), Entity(b)>>}

\* Of n a second column behind one of v.
MCSecondColumns == {<<Entity(v), Entity(n), Name(n)>>}

ASSUME MCQueries == ShortcutsAreSound /\ NoRepeatedSynonym
=============================================================================
