--------------------------- MODULE MCProcEffects ---------------------------
EXTENDS ProcEffects

CONSTANTS p1, p2, p3

MCNode == {p1, p2, p3}

First(n) == CASE n = p1 -> 1 [] n = p2 -> 3 [] n = p3 -> 5

\* Two statements, each a call or not; a first statement that is no call may
\* be a container around the second.
Shapes(n) ==
  LET callees == {<<>>} \cup {<<m>> : m \in MCNode \ {n}}
  IN  {sh \in [nested : BOOLEAN, first : callees, second : callees] : sh.nested => sh.first = <<>>}

\* Procedure n modifies the variable n, where its second statement is no call
\* in that, and otherwise in the first, if that is none.
Program(sh) ==
  LET called(n, s) == IF s = First(n) THEN sh[n].first ELSE sh[n].second
      owner(s) == CHOOSE n \in MCNode : s \in First(n)..(First(n) + 1)
  IN  [stmts   |-> 6,
       range   |-> [n \in MCNode |-> [first |-> First(n), last |-> First(n) + 1]],
       callee  |-> [s \in {t \in 1..6 : called(owner(t), t) # <<>>} |-> called(owner(s), s)[1]],
       parentT |-> [s \in 1..6 |-> IF s # First(owner(s)) /\ sh[owner(s)].nested THEN {s - 1} ELSE {}],
       direct  |-> [s \in 1..6 |-> IF called(owner(s), s) # <<>> THEN {}
                                   ELSE IF s # First(owner(s)) \/ sh[owner(s)].nested \/ sh[owner(s)].second # <<>>
                                   THEN {owner(s)} ELSE {}]]

MCPrograms ==
  {p \in {Program([n \in MCNode |-> CASE n = p1 -> a [] n = p2 -> b [] n = p3 -> c]) :
            a \in Shapes(p1), b \in Shapes(p2), c \in Shapes(p3)} :
     \A n \in MCNode : n \notin ReachableFrom(Calls(p), MCNode, n)}
=============================================================================
