-------------------------- MODULE MCNextBipHandler --------------------------
EXTENDS NextBipHandler, MCBipProgram

CONSTANTS p1, p2, p3

MCNode == {p1, p2, p3}

PrintIn(list) == Stmt("print", list)
ReadOnly == <<Stmt("read", Top)>>
Leaves == {ReadOnly, <<Stmt("while", Top), PrintIn(Body(1))>>}
TwoExits == <<Stmt("if", Top), Stmt("assign", Then(1)), Stmt("read", Else(1))>>

\* The bodies with one call of n.
OneCall(n) == Bodies(Call(n, Top), PrintIn(Top)) \cup Bodies(PrintIn(Top), Call(n, Top))

\* No procedure is called by two statements.
MCCalledOnce == {Compose(<<p1, p2, p3>>, <<a, b, c>>) : a \in OneCall(p2), b \in OneCall(p3), c \in Leaves}

\* p2 is called twice, or p3 from p1 and p2.
MCCalledTwice ==
  {Compose(<<p1, p2, p3>>, <<a, b, c>>) :
     a \in Bodies(Call(p2, Top), Call(p2, Top)) \cup Bodies(Call(p2, Top), Call(p3, Top)),
     b \in Bodies(Call(p3, Top), PrintIn(Top)), c \in {ReadOnly}}

\* p1: call p2; call p2; print.  From statement 1 the print is 8 hops away, of
\* which the second walk through p2 and p3 takes 3.
MCTwoCalls ==
  {Compose(<<p1, p2, p3>>, <<<<Call(p2, Top), Call(p2, Top), PrintIn(Top)>>,
                             <<PrintIn(Top), Call(p3, Top)>>, ReadOnly>>)}

\* p3 can end in either of two statements.
MCTwoExits ==
  {Compose(<<p1, p2, p3>>, <<a, b, TwoExits>>) :
     a \in Bodies(Call(p2, Top), Call(p3, Top)), b \in Bodies(PrintIn(Top), Call(p3, Top))}

MCPrograms == MCCalledOnce \cup MCCalledTwice \cup MCTwoExits
=============================================================================
