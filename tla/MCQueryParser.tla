---------------------------- MODULE MCQueryParser ----------------------------
(***************************************************************************)
(* Queries with every phrase of selection over one or two declarations,    *)
(* with every condition alone and in pairs and triples joined by a keyword *)
(* or "and", and all that is left of some of them when a token is dropped, *)
(* doubled, or changed for another.                                        *)
(***************************************************************************)
EXTENDS QueryMeaning

MCNames == {"a", "i", "s", "v", "w", "x", "BOOLEAN", "Select", "stmt", "Calls"} \cup Types

MCAttributeRefs ==
  ("s.stmt#" :> [synonym |-> "s", attribute |-> "stmt#"]) @@ ("x.varName" :> [synonym |-> "x", attribute |-> "varName"])

Param(kind, value, attribute) == [kind |-> kind, value |-> value, attribute |-> attribute]
Syn(s) == Param("synonym", s, "none")
Attr(s, attribute) == Param("attribute", s, attribute)
Name == Param("name", "main", "")
Number(i) == Param("integer", i, "")
Text(kind) == Param(kind, "", "")

Body(name, lhs, rhs) == [name |-> name, lhs |-> lhs, rhs |-> rhs, third |-> Absent]
SuchThat(name, lhs, rhs) == "suchthat" :> Body(name, lhs, rhs)
Pattern(name, lhs, rhs) == "pattern" :> Body(name, lhs, rhs)
With(lhs, rhs) == "with" :> Body("", lhs, rhs)

MCConditions ==
     "Uses(s, v)" :> SuchThat("Uses", Syn("s"), Syn("v"))
  @@ "Uses(_, v)" :> SuchThat("Uses", Wildcard, Syn("v"))
  @@ "Modifies(w, x)" :> SuchThat("Modifies", Syn("w"), Syn("x"))
  @@ "Next*(s, 9)" :> SuchThat("Next*", Syn("s"), Number("too large"))
  @@ "Next(s, main)" :> SuchThat("Next", Syn("s"), Name)
  @@ "NextBip(s, x)" :> SuchThat("NextBip", Syn("s"), Syn("x"))
  @@ "AffectsBip*(a, w)" :> SuchThat("AffectsBip*", Syn("a"), Syn("w"))
  @@ "Calls(_, _)" :> (SuchThat("Calls", Wildcard, Wildcard) @@ Pattern("Calls", Wildcard, Wildcard))
  @@ "a(v, _)" :> Pattern("a", Syn("v"), Wildcard)
  @@ "a(v, +)" :> Pattern("a", Syn("v"), Text("malformed"))
  @@ "a(x, e)" :> Pattern("a", Syn("x"), Text("expression"))
  @@ "a(v, _, _)" :> ("pattern" :> [Body("a", Syn("v"), Wildcard) EXCEPT !.third = Wildcard])
  @@ "a(x, 'e, e')" :> Pattern("a", Syn("x"), Text("listed"))
  @@ "a(x, _'e, e'_)" :> Pattern("a", Syn("x"), Text("listed part"))
  @@ "a(v, _'e, e'_)" :> Pattern("a", Syn("v"), Text("listed part"))
  @@ "w(_, 'e, e')" :> Pattern("w", Wildcard, Text("listed"))
  @@ "i(v, _)" :> Pattern("i", Syn("v"), Wildcard)
  @@ "i(v, _, _)" :> ("pattern" :> [Body("i", Syn("v"), Wildcard) EXCEPT !.third = Wildcard])
  @@ "i(_, _'e, e'_)" :> Pattern("i", Wildcard, Text("listed part"))
  @@ "w(s, _)" :> Pattern("w", Syn("s"), Wildcard)
  @@ "w(_, e)" :> Pattern("w", Wildcard, Text("expression"))
  @@ "x(_, +)" :> Pattern("x", Wildcard, Text("malformed"))
  @@ "s(_, _)" :> Pattern("s", Wildcard, Wildcard)
  @@ "w(_, _, _)" :> ("pattern" :> [Body("w", Wildcard, Wildcard) EXCEPT !.third = Wildcard])
  @@ "s.stmt# = 1" :> With(Attr("s", "stmt#"), Number("1"))
  @@ "v.stmt# = 1" :> With(Attr("v", "stmt#"), Number("1"))
  @@ "s = main" :> With(Syn("s"), Name)
  @@ "x = 9" :> With(Syn("x"), Number("too large"))

Condition == DOMAIN MCConditions

Declarations == <<"assign", "a", ";", "stmt", "s", ";", "while", "w", ";", "if", "i", ";", "variable", "v", ";">>

Asks(phrase, conditions) == Declarations \o <<"Select">> \o phrase \o conditions

\* Keywords are joined with conditions whether they fit or not.
Keyword == Keywords \cup {"and"}

One == {<<k, c>> : k \in Keyword, c \in Condition}
Fitting == {<<k, c>> \in One : k # "and" /\ k \in DOMAIN MCConditions[c]}

Pairs == {<<p[1], p[2], k, c>> : p \in Fitting, k \in Keyword, c \in Condition}

Threes ==
  {<<"suchthat", "Uses(s, v)">> \o p \o <<k, c>> :
     p \in {<<"and", "Uses(_, v)">>, <<"pattern", "a(v, _)">>, <<"with", "s.stmt# = 1">>, <<"with", "s = main">>},
     k \in Keyword, c \in Condition}

Phrases ==
  {<<"s">>, <<"x">>, <<"s.stmt#">>, <<"x.varName">>, <<"BOOLEAN">>, <<"<", "BOOLEAN", ">">>, <<"<", "s", ",", "v", ">">>,
   <<"<", "s", ",", "x.varName", ">">>, <<"<", "s", "v", ">">>, <<"<", ">">>, <<>>}

\* A synonym may have the name of a word of the language.
Redeclared ==
  {d \o <<"Select">> \o p \o c :
     d \in {<<"stmt", "s", ",", "s", ";">>,
            <<"stmt", "s", ";", "variable", "v", ",", "s", ",", "x", ";">>,
            <<"stmt", "s", ";", "assign", "s", ";", "variable", "v", ";">>,
            <<"stmt", "Select", ";", "procedure", "BOOLEAN", ";">>,
            <<"stmt", "stmt", ",", "s", ";", "assign", "Calls", ";">>,
            <<>>},
     p \in Phrases \cup {<<"Select">>},
     c \in {<<>>, <<"suchthat", "Uses(s, v)">>, <<"pattern", "Calls(_, _)", "and", "Calls(_, _)">>}}

\* Texts with one token dropped, doubled or changed.
Long == Asks(<<"<", "s", ",", "v", ">">>, <<"suchthat", "Uses(s, v)", "and", "Calls(_, _)">>)
Boolean == <<"stmt", "s", ",", "w", ";", "Select", "BOOLEAN", "suchthat", "Uses(s, v)", "pattern", "a(v, _)">>

Damaged(t) ==
  {RemoveAt(t, i) : i \in DOMAIN t}
  \cup {InsertAt(t, i, t[i]) : i \in DOMAIN t}
  \cup {[t EXCEPT ![i] = token] : i \in DOMAIN t, token \in {",", ";", "Select", "s", "and", "stmt", "Uses(s, v)"}}

MCTexts ==
  UNION {
    {Asks(phrase, c) : phrase \in {<<"BOOLEAN">>, <<"v">>}, c \in UNION {{<<>>}, One, Pairs, Threes}},
    {Asks(phrase, <<"suchthat", "Uses(s, v)">>) : phrase \in Phrases},
    Redeclared, Damaged(Long), Damaged(Boolean)}

MCAgain ==
  {Asks(<<"BOOLEAN">>, <<>>), Asks(<<"BOOLEAN">>, <<"and">>), Asks(<<"v">>, <<"with", "v.stmt# = 1">>),
   Asks(<<"v">>, <<"suchthat", "NextBip(s, x)">>), Asks(<<"x">>, <<>>), <<"stmt">>}
=============================================================================
