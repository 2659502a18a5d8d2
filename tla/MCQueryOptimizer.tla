------------------------- MODULE MCQueryOptimizer -------------------------
(***************************************************************************)
(* Databases of up to three tables of one or two columns over four         *)
(* synonyms, and rings and chains of four tables.                          *)
(***************************************************************************)
EXTENDS QueryOptimizer

CONSTANTS a, b, c, d

MCSynonym == {a, b, c, d}
MCValue == 1..2

One(s, values) == [headers |-> {s}, rows |-> {[x \in {s} |-> v] : v \in values}]
Two(s, t, pairs) ==
  [headers |-> {s, t}, rows |-> {[x \in {s, t} |-> IF x = s THEN p[1] ELSE p[2]] : p \in pairs}]

Equal == {<<1, 1>>, <<2, 2>>}
Below == {<<1, 2>>}
NotBoth == {<<1, 1>>, <<1, 2>>, <<2, 1>>}

Tables ==
  {One(a, {1}), One(a, {1, 2}), One(d, {2}), Two(a, b, Equal), Two(a, b, Below),
   Two(b, c, Equal), Two(b, c, NotBoth), Two(c, d, Below), Two(d, a, NotBoth)}

MCDatabases ==
  UNION {[1..k -> Tables] : k \in 0..3}
  \cup {<<Two(a, b, x), Two(c, d, NotBoth), Two(b, c, y), Two(d, a, Below)>> : x, y \in {Equal, NotBoth}}
  \cup {<<One(a, {1, 2}), Two(c, d, Below), One(d, {2}), Two(a, b, Below)>>}
=============================================================================
