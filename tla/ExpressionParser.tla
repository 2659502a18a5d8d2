--------------------------- MODULE ExpressionParser ---------------------------
(***************************************************************************)
(* ExpressionParser::ParseExpression and ParserUtils (parser_utils): two   *)
(* tests of the pattern of the tokens, the shunting-yard algorithm, and    *)
(* the construction of a tree from its output.  A tree is <<value>> or     *)
(* <<operator, lhs, rhs>>.                                                 *)
(***************************************************************************)
EXTENDS Integers, SequencesExt

IsOperand(token) == token.type \in {"VariableName", "ConstantValue"}
IsOperator(token) == token.type = "ExpressionOp"
IsParenthesis(token, value) == token.type = "Parenthesis" /\ token.value = value

\* What must not be next to what; other tokens throw.
MayPrecede(token, next) ==
  CASE IsOperator(token)         -> ~IsParenthesis(next, ")")
    [] IsOperand(token)          -> ~IsParenthesis(next, "(")
    [] IsParenthesis(token, "(") -> ~IsOperator(next) /\ ~IsParenthesis(next, ")")
    [] token.type = "Parenthesis" /\ token.value # "(" -> ~IsOperand(next) /\ ~IsParenthesis(next, "(")
    [] OTHER                     -> FALSE

HasValidParenthesisPattern(tokens) == \A i \in 1..(Len(tokens) - 1) : MayPrecede(tokens[i], tokens[i + 1])

\* Everything else is passed over.
HasAlternatingOperatorPattern(tokens) ==
  LET terms == SelectSeq(tokens, LAMBDA t : IsOperand(t) \/ IsOperator(t))
  IN  Len(terms) % 2 = 1 /\ \A i \in DOMAIN terms : IsOperand(terms[i]) <=> i % 2 = 1

GetOperatorPrecedence(token) == IF token.value = "+" THEN 1 ELSE 2

\* Mutant: an operator of equal precedence stays on the stack.
YieldsStrictly(top, token) == IsOperator(top) /\ GetOperatorPrecedence(top) > GetOperatorPrecedence(token)

\* The operator on top of the stack is moved to the output before token.
Yields(top, token) == IsOperator(top) /\ GetOperatorPrecedence(top) >= GetOperatorPrecedence(token)

\* The output when the stack above position k has been popped.
Popped(yard, k) == yard.rpn \o Reverse(SubSeq(yard.ops, k + 1, Len(yard.ops)))

PushOperator(yard, token) ==
  LET stay == {k \in 0..Len(yard.ops) : k = 0 \/ ~Yields(yard.ops[k], token)}
      k == CHOOSE m \in stay : \A i \in stay : i <= m
  IN  [yard EXCEPT !.rpn = Popped(yard, k), !.ops = Append(SubSeq(yard.ops, 1, k), token)]

CloseParenthesis(yard) ==
  LET opened == {k \in DOMAIN yard.ops : yard.ops[k].value = "("}
      k == CHOOSE m \in opened : \A i \in opened : i <= m
  IN  IF opened = {} THEN [yard EXCEPT !.ok = FALSE]
      ELSE [yard EXCEPT !.rpn = Popped(yard, k), !.ops = SubSeq(yard.ops, 1, k - 1)]

TakeToken(yard, token) ==
  CASE ~yard.ok                  -> yard
    [] yard.ok /\ IsOperand(token)  -> [yard EXCEPT !.rpn = Append(@, token)]
    [] yard.ok /\ IsOperator(token) -> PushOperator(yard, token)
    [] yard.ok /\ IsParenthesis(token, "(") -> [yard EXCEPT !.ops = Append(@, token)]
    [] yard.ok /\ IsParenthesis(token, ")") -> CloseParenthesis(yard)
    [] yard.ok /\ token.type = "Parenthesis" /\ token.value \notin {"(", ")"} -> yard
    [] OTHER                     -> [yard EXCEPT !.ok = FALSE]

ShuntingYard(tokens) == FoldLeft(TakeToken, [ok |-> TRUE, rpn |-> <<>>, ops |-> <<>>], tokens)

IsExpression(tokens) ==
  /\ HasValidParenthesisPattern(tokens) /\ HasAlternatingOperatorPattern(tokens)
  /\ LET yard == ShuntingYard(tokens)
     IN  yard.ok /\ \A k \in DOMAIN yard.ops : yard.ops[k].type # "Parenthesis"

ParseExpression(tokens) == Popped(ShuntingYard(tokens), 0)

ConstructExpressionAST(rpn) ==
  LET push(stack, token) ==
        IF IsOperand(token) THEN <<<<token.value>>>> \o stack
        ELSE <<<<token.value, stack[2], stack[1]>>>> \o Tail(Tail(stack))
  IN  Head(FoldLeft(push, <<>>, rpn))

ExpressionTree(tokens) == ConstructExpressionAST(ParseExpression(tokens))
=============================================================================
