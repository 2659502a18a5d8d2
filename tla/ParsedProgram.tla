---------------------------- MODULE ParsedProgram ----------------------------
(***************************************************************************)
(* What the parser leaves to the design extractor (SPA::ParseSourceCode,   *)
(* spa.cpp): the syntax tree and, as the values of its procedure nodes,    *)
(* the names of the procedures in their order.                             *)
(***************************************************************************)
EXTENDS SimpleAst

VARIABLES
  stage,      \* how far the text has got; "rejected" when an exception is thrown
  ast,
  pnames
=============================================================================
