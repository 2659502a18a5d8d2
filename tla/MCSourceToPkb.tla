---------------------------- MODULE MCSourceToPkb ----------------------------
(***************************************************************************)
(* Texts: programs of every shape up to a size, every short expression and *)
(* condition, statements of every kind in every nesting, calls of every    *)
(* structure, keywords as names, constants that are no int, and texts that *)
(* differ from a program in one lexeme.                                    *)
(***************************************************************************)
EXTENDS SourceToPkb

Kinds == {"assign", "while", "if"}

\* The lists that statement Len(tree) + 1 may be in: the first list of a
\* container that was just opened, or the list of the previous statement or
\* of a statement around it, moving on from then to else, or a new procedure.
Places(tree) ==
  IF tree = <<>> THEN {Procedure(1)}
  ELSE LET n == Len(tree)
       IN  CASE tree[n].kind = "while" -> {Body(n)}
             [] tree[n].kind = "if"    -> {Then(n)}
             [] OTHER ->
                  LET around == {n} \cup AncestorsOf(tree)[n]
                      inThen == {a \in around : tree[a].list.in = "then"}
                      \* a then part is left only for its else part
                      inner == IF inThen = {} THEN around
                               ELSE {a \in around : \A t \in inThen : a >= t}
                      closed == CHOOSE t \in inThen : \A u \in inThen : u <= t
                  IN  {tree[a].list : a \in inner}
                      \cup (IF inThen # {} THEN {Else(tree[closed].list.of)}
                            ELSE {Procedure(ProcedureOf(tree)[n] + 1)})

IsComplete(tree) ==
  \A s \in DOMAIN tree : \A k \in DOMAIN ListsBelow(tree, s) : Children(tree, ListsBelow(tree, s)[k]) # {}

RECURSIVE Openings(_)
Openings(n) ==
  IF n = 0 THEN {<<>>}
  ELSE UNION {{Append(tree, [kind |-> k, list |-> l]) : k \in Kinds, l \in Places(tree)} : tree \in Openings(n - 1)}

\* The programs of 1 to n statements.
Asts(n) == UNION {{tree \in Openings(i) : IsComplete(tree)} : i \in 1..n}
-----------------------------------------------------------------------------

InProcedure(name, stmts) == <<"procedure", name, "{">> \o stmts \o <<"}">>

Assignment == <<"x", "=", "1", ";">>

\* leaf gives the texts of the statements that contain no other.
RECURSIVE TextOf(_, _, _)
TextOf(tree, list, leaf) ==
  LET children == SetToSortSeq(Children(tree, list), <)
      text_of(s) ==
        CASE tree[s].kind = "assign" -> leaf[s]
          [] tree[s].kind = "while"  ->
               <<"while", "(", "x", "<", "1", ")", "{">> \o TextOf(tree, Body(s), leaf) \o <<"}">>
          [] tree[s].kind = "if"     ->
               <<"if", "(", "1", "<", "2", ")", "then", "{">> \o TextOf(tree, Then(s), leaf)
                 \o <<"}", "else", "{">> \o TextOf(tree, Else(s), leaf) \o <<"}">>
  IN  FlattenSeq([i \in DOMAIN children |-> text_of(children[i])])

ProcName == <<"p", "q", "r", "s", "t", "u">>

\* Every tree of up to five statements.
Shapes ==
  {FlattenSeq([n \in 1..Cardinality(ProceduresOf(tree)) |->
       InProcedure(ProcName[n], TextOf(tree, Procedure(n), [s \in DOMAIN tree |-> Assignment]))]) : tree \in Asts(5)}

AssignmentsIn(tree) == {s \in DOMAIN tree : tree[s].kind = "assign"}

\* Every procedure of up to four statements of all kinds, before one that it
\* may call.
Mixed ==
  UNION {
    {InProcedure("p", TextOf(tree, Procedure(1), leaf)) \o InProcedure("q", <<"read", "y", ";", "print", "z", ";">>) :
       leaf \in [AssignmentsIn(tree) ->
                   {<<"x", "=", "y", ";">>, <<"read", "x", ";">>, <<"print", "y", ";">>, <<"call", "q", ";">>}]} :
    tree \in {t \in Asts(4) : Cardinality(ProceduresOf(t)) = 1}}

Pieces(S, n) == {FlattenSeq(pieces) : pieces \in UNION {[1..m -> S] : m \in 0..n}}

Expressions ==
  {InProcedure("p", <<"x", "=">> \o e \o <<";">>) :
     e \in Pieces({<<"x">>, <<"+">>, <<"*">>, <<"(">>, <<")">>, <<"(", "x", "+", "1", ")">>}, 5)}

Conditions ==
  {InProcedure("p", <<"while", "(">> \o c \o <<")", "{">> \o Assignment \o <<"}">>) :
     c \in Pieces({<<"x">>, <<"<">>, <<"x", "<", "1">>, <<"!", "(">>, <<"(">>, <<")">>, <<")", "&&", "(">>}, 5)}

\* The calls of a procedure, in any order, or a statement of its own.
CallsTo(callees, own) ==
  IF callees = {} THEN own
  ELSE FlattenSeq([i \in 1..Cardinality(callees) |-> <<"call", SetToSeq(callees)[i], ";">>])

CallStructures ==
  {InProcedure("p", CallsTo(c[1], <<"read", "x", ";">>)) \o InProcedure("q", CallsTo(c[2], <<"print", "y", ";">>))
     \o InProcedure("r", CallsTo(c[3], <<"z", "=", "y", "+", "x", ";">>)) :
     c \in {d \in [1..3 -> SUBSET {"p", "q", "r", "s"}] : \A i \in 1..3 : Cardinality(d[i]) < 3}}

\* Every name may be a keyword.
Keyworded ==
  {InProcedure(p, <<"call", q, ";", "read", v, ";", v, "=", v, "+", "1", ";">>)
     \o InProcedure(q, <<"if", "(", v, "<", v, ")", "then", "{", "print", v, ";", "}", "else", "{", v, "=", "1", ";", "}">>) :
     p \in Keywords \cup {"p"}, q \in Keywords, v \in Keywords \cup {"x"}}

Without(t, i) == SubSeq(t, 1, i - 1) \o SubSeq(t, i + 1, Len(t))

Corrupted(t) ==
  {Without(t, i) : i \in DOMAIN t}
  \cup {[t EXCEPT ![i] = l] : i \in DOMAIN t, l \in Symbols \cup {"x", "1", "while", "then", "call", "procedure"}}
  \cup {SubSeq(t, 1, i) \o <<t[i]>> \o SubSeq(t, i + 1, Len(t)) : i \in DOMAIN t}

Programs ==
  {InProcedure("p", <<"if", "(", "!", "(", "(", "x", "+", "1", ")", "<", "x", ")", ")", "then", "{", "call", "q", ";", "}",
                      "else", "{", "while", "(", "(", "x", "<", "1", ")", "&&", "(", "1", "<", "(", "x", ")", ")", ")",
                      "{", "read", "x", ";", "}", "}">>)
     \o InProcedure("q", <<"x", "=", "x", "*", "(", "x", "+", "1", ")", "+", "1", ";", "print", "x", ";">>)}

\* A call out of two containers of a procedure that calls out of a container.
CallsFromContainers ==
  {InProcedure("p", <<"while", "(", "z", "<", "1", ")", "{", "if", "(", "1", "<", "2", ")", "then", "{", "call", "q", ";", "}",
                      "else", "{", "x", "=", "1", ";", "}", "}">>)
     \o InProcedure("q", <<"while", "(", "y", "<", "z", ")", "{", "call", "r", ";", "}">>)
     \o InProcedure("r", <<"x", "=", "y", "+", "u", ";">>)}

\* Where a constant that is no int may be.
Overflowing ==
  {InProcedure("p", <<"call", "q", ";">>) \o InProcedure("q", t) :
     t \in {<<"x", "=", "1", "+", "2147483648", ";">>,
            <<"while", "(", "2147483648", "<", "x", ")", "{">> \o Assignment \o <<"}">>}}

\* Parsed after each of the others: one that is accepted and two that are not.
MCAgain ==
  {InProcedure("p", Assignment), InProcedure("p", <<"call", "p", ";">>), InProcedure("p", <<"x", "=", "1">>)}

MCTexts ==
  {<<>>} \cup Shapes \cup Mixed \cup CallsFromContainers \cup Overflowing \cup Expressions \cup Conditions \cup CallStructures \cup Keyworded
  \cup Programs \cup UNION {Corrupted(t) : t \in Programs}
=============================================================================
