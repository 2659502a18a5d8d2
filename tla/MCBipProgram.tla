---------------------------- MODULE MCBipProgram ----------------------------
(***************************************************************************)
(* Programs of three procedures put together from bodies.  A body is the   *)
(* syntax tree of one procedure, its statements numbered from 1; a call    *)
(* has its callee, and a statement may have its effects.                   *)
(***************************************************************************)
EXTENDS BipProgram

Stmt(kind, list) == [kind |-> kind, list |-> list]
Call(n, list) == [kind |-> "call", list |-> list, callee |-> n]
Assign(v, uses, list) == [kind |-> "assign", list |-> list, modifies |-> {v}, uses |-> uses]
Read(v, list) == [kind |-> "read", list |-> list, modifies |-> {v}]
Top == Procedure(1)

\* Straight line, an if, a while around everything, in front, at the end: the
\* bodies in which the first two simple statements are x and y.
Bodies(x, y) ==
  LET S(stmt, list) == [stmt EXCEPT !.list = list]
  IN  {<<S(x, Top), S(y, Top)>>,
       <<Stmt("if", Top), S(x, Then(1)), S(y, Else(1))>>,
       <<Stmt("while", Top), S(x, Body(1)), S(y, Body(1))>>,
       <<Stmt("while", Top), S(x, Body(1)), S(y, Top)>>,
       <<S(x, Top), Stmt("while", Top), S(y, Body(2))>>}

\* Three bodies one behind the other.
Compose(order, body) ==
  LET offset(i) == CASE i = 1 -> 0 [] i = 2 -> Len(body[1]) [] i = 3 -> Len(body[1]) + Len(body[2])
      number == [n \in Node |-> CHOOSE i \in 1..3 : order[i] = n]
      last == offset(3) + Len(body[3])
      place(s) == CHOOSE i \in 1..3 : s \in (offset(i) + 1)..(offset(i) + Len(body[i]))
      at(s) == body[place(s)][s - offset(place(s))]
      moved(s) == IF at(s).list = Top THEN Procedure(place(s))
                  ELSE [at(s).list EXCEPT !.of = @ + offset(place(s))]
      ast == [s \in 1..last |-> Stmt(at(s).kind, moved(s))]
      flow == ControlFlow(ast)
  IN  [stmts  |-> last,
       ast    |-> ast,
       range  |-> [n \in Node |-> [first |-> offset(number[n]) + 1,
                                   last |-> offset(number[n]) + Len(body[number[n]])]],
       kind   |-> [s \in 1..last |-> ast[s].kind],
       callee |-> [s \in {t \in 1..last : ast[t].kind = "call"} |-> at(s).callee],
       modifies |-> [s \in {t \in 1..last : "modifies" \in DOMAIN at(t)} |-> at(s).modifies],
       uses   |-> [s \in {t \in 1..last : "uses" \in DOMAIN at(t)} |-> at(s).uses],
       next   |-> [s \in 1..last |-> Successors(flow, s)]]
=============================================================================
