------------------------ MODULE MCAffectsExtraction -------------------------
EXTENDS AffectsExtraction

x == "x"
y == "y"

\* The statements tried: x = x; y = x; x = y; call p, which modifies x; and a
\* while on y whose body modifies x.
MCStatements ==
  {[kind |-> "assign", modifies |-> {x}, uses |-> {x}, assigned |-> x],
   [kind |-> "assign", modifies |-> {x}, uses |-> {y}, assigned |-> x],
   [kind |-> "assign", modifies |-> {y}, uses |-> {x}, assigned |-> y],
   [kind |-> "call",   modifies |-> {x}, uses |-> {x}],
   [kind |-> "while",  modifies |-> {x}, uses |-> {y}]}

Program(n, cfg, stmts) ==
  [last     |-> n,
   cfg      |-> cfg,
   kind     |-> [s \in 1..n |-> stmts[s].kind],
   modifies |-> [s \in 1..n |-> stmts[s].modifies],
   uses     |-> [s \in 1..n |-> stmts[s].uses],
   assigned |-> [s \in {t \in 1..n : stmts[t].kind = "assign"} |-> stmts[s].assigned]]

\* Control flow graphs: straight line, if, loops, a loop with an if in it.
MCGraphs ==
  {<<{2}, {3}, {}>>, <<{2}, {3}, {1}>>, <<{2, 3}, {}, {}>>, <<{2}, {1, 3}, {}>>, <<{2, 3}, {1}, {}>>}

MCLargeGraphs ==
  {<<{2}, {3, 4}, {2}, {}>>, <<{2, 4}, {3}, {1}, {}>>, <<{2, 3}, {4}, {4}, {1}>>}

MCPrograms ==
  {Program(3, g, s) : g \in MCGraphs, s \in [1..3 -> MCStatements]}
  \cup {Program(4, g, s) : g \in MCLargeGraphs, s \in [1..4 -> MCStatements]}
=============================================================================
