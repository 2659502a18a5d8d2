------------------------------ MODULE SimpleAst ------------------------------
(***************************************************************************)
(* The syntax tree of a SIMPLE program (source_processor/ast/TNode.cpp) as *)
(* the design extractor sees it.  A tree is the sequence of its            *)
(* statements, indexed by statement number.  A statement has its kind and  *)
(* the statement list it is a child of; a list is named by what it belongs *)
(* to: the n-th procedure, the body of while n, the then or else part of   *)
(* if n.  The children of a list are in the order of their numbers, which  *)
(* is how the parser appends them.  Expressions are left out.              *)
(***************************************************************************)
EXTENDS Integers, Sequences, FiniteSets

Procedure(n) == [in |-> "procedure", of |-> n]
Body(s) == [in |-> "while", of |-> s]
Then(s) == [in |-> "then", of |-> s]
Else(s) == [in |-> "else", of |-> s]

\* The statement lists directly below a statement, in the order of its children.
ListsBelow(ast, s) == CASE ast[s].kind = "while" -> <<Body(s)>>
                        [] ast[s].kind = "if"    -> <<Then(s), Else(s)>>
                        [] OTHER                 -> <<>>

Children(ast, list) == {s \in DOMAIN ast : ast[s].list = list}

\* A set of statements in the order of their numbers.
InOrder(S) == [i \in 1..Cardinality(S) |-> CHOOSE s \in S : Cardinality({t \in S : t < s}) = i - 1]

FirstStmt(ast, list) == CHOOSE s \in Children(ast, list) : \A t \in Children(ast, list) : s <= t
LastStmt(ast, list)  == CHOOSE s \in Children(ast, list) : \A t \in Children(ast, list) : s >= t

IsLast(ast, s) == \A t \in Children(ast, ast[s].list) : t <= s

\* The sibling that follows a statement that is not the last of its list.
Sibling(ast, s) == CHOOSE t \in Children(ast, ast[s].list) :
                      t > s /\ \A u \in Children(ast, ast[s].list) : u > s => t <= u

ProceduresOf(ast) == {ast[s].list.of : s \in {t \in DOMAIN ast : ast[t].list.in = "procedure"}}

\* The statements a statement is nested in, outermost last.
ParentOf(ast, s) == IF ast[s].list.in = "procedure" THEN 0 ELSE ast[s].list.of

AncestorsOf(ast) ==
  LET up[s \in DOMAIN ast] == IF ParentOf(ast, s) = 0 THEN {}
                                ELSE {ParentOf(ast, s)} \cup up[ParentOf(ast, s)]
  IN  up

\* The procedure a statement is in.
ProcedureOf(ast) ==
  LET proc[s \in DOMAIN ast] == IF ParentOf(ast, s) = 0 THEN ast[s].list.of
                                  ELSE proc[ParentOf(ast, s)]
  IN  proc

\* The flow of control, read from a statement outwards: what is executed
\* after it, at the end of its list, of the list around that one, ...
ControlFlow(ast) ==
  LET after[s \in DOMAIN ast] ==
        IF ~IsLast(ast, s) THEN {Sibling(ast, s)}
        ELSE CASE ast[s].list.in = "procedure" -> {}
               [] ast[s].list.in = "while"     -> {ast[s].list.of}
               [] OTHER                        -> after[ast[s].list.of]
      to(s) == CASE ast[s].kind = "if"    -> {FirstStmt(ast, Then(s)), FirstStmt(ast, Else(s))}
                 [] ast[s].kind = "while" -> {FirstStmt(ast, Body(s))} \cup after[s]
                 [] OTHER                 -> after[s]
  IN  UNION {{s} \X to(s) : s \in DOMAIN ast}

(***************************************************************************)
(* The trees the parser builds: statements are numbered in the order of    *)
(* the text, no list is empty, and procedures are numbered as they appear. *)
(***************************************************************************)
IsAst(ast) ==
  /\ \A s \in DOMAIN ast : LET p == ParentOf(ast, s) IN
       p # 0 => p < s /\ \E k \in DOMAIN ListsBelow(ast, p) : ListsBelow(ast, p)[k] = ast[s].list
  /\ \A s \in DOMAIN ast : \A k \in DOMAIN ListsBelow(ast, s) :
       Children(ast, ListsBelow(ast, s)[k]) # {}
  /\ \A n \in ProceduresOf(ast) : n \in 1..Cardinality(ProceduresOf(ast))
  /\ LET up == AncestorsOf(ast)  proc == ProcedureOf(ast) IN
       \A s, t \in DOMAIN ast : s < t =>
         /\ proc[s] <= proc[t]
         /\ \A u \in s..t : s \in up[t] => s \in up[u] \cup {u}
         /\ \A i \in DOMAIN ast : ast[i].kind = "if" /\ i \in up[s] /\ i \in up[t]
              => ~(\E a \in up[t] \cup {t} : \E b \in up[s] \cup {s} :
                     ast[a].list = Then(i) /\ ast[b].list = Else(i))
=============================================================================
