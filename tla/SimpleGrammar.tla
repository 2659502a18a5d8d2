---------------------------- MODULE SimpleGrammar ----------------------------
(***************************************************************************)
(* What a text of SIMPLE means, from its grammar: an operator for each     *)
(* nonterminal gives the trees, one or none, that a sequence of lexemes    *)
(* derives.  Words are names whether they are keywords or not; statements  *)
(* are numbered in the order of the text, from n on.                       *)
(***************************************************************************)
EXTENDS SimpleAst, Lexer, Reachability

Before(t, k) == SubSeq(t, 1, k - 1)
Behind(t, k) == SubSeq(t, k + 1, Len(t))
Between(t, i, k) == SubSeq(t, i + 1, k - 1)
Count(t, lexeme) == Cardinality({i \in DOMAIN t : t[i] = lexeme})

\* What a nonterminal derives closes what it opens.
Closed(t) == Count(t, "(") = Count(t, ")") /\ Count(t, "{") = Count(t, "}")

\* Where the lexemes may be what ends a nonterminal that begins behind from.
Positions(t, from, lexemes) ==
  {k \in (from + 1)..(Len(t) - Len(lexemes) + 1) :
     SubSeq(t, k, k + Len(lexemes) - 1) = lexemes /\ Closed(Between(t, from, k))}

RECURSIVE Expr(_)
RECURSIVE Term(_)
RECURSIVE Factor(_)

Factor(t) ==
  CASE Len(t) = 1 /\ t[1] \in Words \cup Numbers -> {t}
    [] Len(t) > 2 /\ t[1] = "(" /\ Last(t) = ")" -> Expr(Between(t, 1, Len(t)))
    [] OTHER -> {}

Term(t) ==
  Factor(t) \cup
  UNION {{<<"*", l, r>> : l \in Term(Before(t, k)), r \in Factor(Behind(t, k))} : k \in Positions(t, 0, <<"*">>)}

Expr(t) ==
  Term(t) \cup
  UNION {{<<"+", l, r>> : l \in Expr(Before(t, k)), r \in Term(Behind(t, k))} : k \in Positions(t, 0, <<"+">>)}

\* A condition gives the sides of its comparisons.
RECURSIVE Cond(_)
Cond(t) ==
  UNION {{<<(<<l, r>>)>> : l \in Expr(Before(t, k)), r \in Expr(Behind(t, k))} : k \in Positions(t, 0, <<"<">>)}
  \cup (IF IsPrefix(<<"!", "(">>, t) /\ Last(t) = ")" THEN Cond(Between(t, 2, Len(t))) ELSE {})
  \cup (IF IsPrefix(<<"(">>, t) /\ Last(t) = ")"
        THEN UNION {{l \o r : l \in Cond(Between(t, 1, k)), r \in Cond(Between(t, k + 2, Len(t)))} :
                      k \in Positions(t, 1, <<")", "&&", "(">>)}
        ELSE {})

Stmt(kind, list, about) == <<[kind |-> kind, list |-> list, about |-> about]>>

RECURSIVE StmtLst(_, _, _)
RECURSIVE Statement(_, _, _)

StmtLst(t, list, n) ==
  Statement(t, list, n) \cup
  UNION {UNION {{s \o r : r \in StmtLst(Behind(t, k), list, n + Len(s))} : s \in Statement(SubSeq(t, 1, k), list, n)} :
           k \in {i \in 1..(Len(t) - 1) : t[i] \in {";", "}"} /\ Closed(SubSeq(t, 1, i))}}

Statement(t, list, n) ==
  LET last == Last(t)
      one_name == Len(t) = 3 /\ t[2] \in Words /\ last = ";"
      while == IF ~IsPrefix(<<"while", "(">>, t) \/ last # "}" THEN {}
               ELSE UNION {{Stmt("while", list, c) \o b : c \in Cond(Between(t, 2, k)),
                              b \in StmtLst(Between(t, k + 1, Len(t)), Body(n), n + 1)} :
                             k \in Positions(t, 2, <<")", "{">>)}
      if == IF ~IsPrefix(<<"if", "(">>, t) \/ last # "}" THEN {}
            ELSE UNION {UNION {UNION {{Stmt("if", list, c) \o b \o e :
                      c \in Cond(Between(t, 2, k)),
                      e \in StmtLst(Between(t, m + 2, Len(t)), Else(n), n + 1 + Len(b))} :
                   b \in StmtLst(Between(t, k + 2, m), Then(n), n + 1)} :
                 m \in Positions(t, k + 2, <<"}", "else", "{">>)} :
               k \in Positions(t, 2, <<")", "then", "{">>)}
  IN  CASE Len(t) < 3 -> {}
        [] one_name /\ t[1] \in {"read", "print", "call"} -> {Stmt(t[1], list, <<t[2]>>)}
        [] Len(t) > 3 /\ t[1] \in Words /\ t[2] = "=" /\ last = ";" ->
             {Stmt("assign", list, <<t[1], e>>) : e \in Expr(Between(t, 2, Len(t)))}
        [] OTHER -> while \cup if

\* A program gives its tree and the procedures in their order.
RECURSIVE Procs(_, _, _)
Procs(t, names, n) ==
  IF t = <<>> THEN {[ast |-> <<>>, names |-> names]}
  ELSE IF Len(t) < 4 \/ t[1] # "procedure" \/ t[2] \notin Words \/ t[3] # "{" THEN {}
  ELSE UNION {UNION {{[p EXCEPT !.ast = s \o @] : p \in Procs(Behind(t, k), Append(names, t[2]), n + Len(s))} :
                       s \in StmtLst(Between(t, 3, k), Procedure(Len(names) + 1), n)} :
                k \in Positions(t, 3, <<"}">>)}

\* Procedures have different names; what is called is there and does not lead
\* back to where it was called.
CallsOf(p) ==
  {<<p.names[ProcedureOf(p.ast)[s]], p.ast[s].about[1]>> : s \in {i \in DOMAIN p.ast : p.ast[i].kind = "call"}}

CallsAreValid(p) ==
  LET names == ToSet(p.names)
  IN  /\ IsInjective(p.names)
      /\ \A e \in CallsOf(p) : e[2] \in names
      /\ \A q \in names : q \notin ReachableFrom(CallsOf(p), names, q)

Programs(t) == {p \in Procs(t, <<>>, 1) : CallsAreValid(p)}
=============================================================================
