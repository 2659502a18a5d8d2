------------------------ MODULE MCAffectsBipHandler ------------------------
EXTENDS AffectsBipHandler, MCBipProgram

CONSTANTS p1, p2, p3

MCNode == {p1, p2, p3}

x == "x"
y == "y"

\* One statement for each procedure: x = x; y = x; x = y; read x.
Choices ==
  {<<Assign(x, {x}, Top), Assign(x, {x}, Top), Assign(y, {x}, Top)>>,
   <<Assign(y, {x}, Top), Assign(x, {y}, Top), Read(x, Top)>>,
   <<Assign(x, {y}, Top), Read(x, Top), Assign(x, {x}, Top)>>}

\* p1 calls p2, once or twice, which calls p3; p3 may end in two statements.
Chains ==
  UNION {{Compose(<<p1, p2, p3>>, <<a, b, c>>) :
            a \in Bodies(s[1], Call(p2, Top)) \cup Bodies(Call(p2, Top), s[1]) \cup Bodies(Call(p2, Top), Call(p2, Top)),
            b \in IF s[3].kind = "read" THEN Bodies(s[2], Call(p3, Top)) ELSE Bodies(Call(p3, Top), s[2]),
            c \in IF s[3].kind = "read"
                  THEN {<<s[3]>>, <<Stmt("if", Top), [s[3] EXCEPT !.list = Then(1)], Stmt("print", Else(1))>>}
                  ELSE {<<s[3]>>}} : s \in Choices}

\* p1 and p2, which nothing calls, call p3.
TwoGraphs ==
  UNION {{Compose(<<p1, p2, p3>>, <<a, <<Call(p3, Top), s[2]>>, <<s[3]>>>>) : a \in Bodies(s[1], Call(p3, Top))} : s \in Choices}

MCPrograms == Chains \cup TwoGraphs
=============================================================================
