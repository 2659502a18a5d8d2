----------------------------- MODULE SimpleParser -----------------------------
(***************************************************************************)
(* Parser (source_processor/Parser.cpp).  The recursive descent is a stack *)
(* of what the functions that are running have still to do: a list to      *)
(* parse, the rest of its statements, a condition, tokens to expect.  A    *)
(* statement's record holds its kind, its list and what it is about: the   *)
(* name in a read, print or call, the name and the tree of an assignment,  *)
(* the sides of the comparisons in the condition of a while or an if.      *)
(* Throwing ends it all with the stage "rejected".                         *)
(***************************************************************************)
EXTENDS Lexer, ExpressionParser

VARIABLES
  stack,
  pcalled,              \* pdeclared_to_pcalled
  roots, path, visited, visiting    \* of ValidateNonRecursiveCalls

parseVars == <<tokens, ast, stack, pnames, pcalled>>
validateVars == <<roots, path, visited, visiting>>

ParserInit ==
  /\ tokens = <<>> /\ ast = <<>> /\ stack = <<>>
  /\ pnames = <<>> /\ pcalled = <<>>
  /\ roots = {} /\ path = <<>> /\ visited = {} /\ visiting = {}

\* A call of Parse begins with new variables of its own, and ...
NewLocals == ast' = <<>> /\ pnames' = <<>> /\ stack' = <<>> /\ roots' = {} /\ path' = <<>> /\ visited' = {} /\ visiting' = {}

\* Mutant: the procedures of the program before are still declared.
ResetTokens == NewLocals /\ tokens' = <<>> /\ UNCHANGED pcalled

\* ... resets the static ones, which are as the call before left them, also
\* when it threw.
Reset == NewLocals /\ tokens' = <<>> /\ pcalled' = <<>>

\* What is left to do.
StatementList(list) == [do |-> "statement list", list |-> list]
Statements(list) == [do |-> "statements", list |-> list]
Condition == [do |-> "condition"]
Expect(what) == [do |-> "expect", what |-> what]

Doing(what) == stage = "parsing" /\ stack # <<>> /\ Head(stack).do = what

\* A token is asked for by its type, a parenthesis or an operator by its value.
IsToken(token, what) ==
  \/ token.type = what
  \/ token.type \in {"Parenthesis", "ConditionalExpressionOp"} /\ token.value = what

Expected(whats) == Len(whats) <= Len(tokens) /\ \A i \in DOMAIN whats : IsToken(tokens[i], whats[i])

After(length) == SubSeq(tokens, length + 1, Len(tokens))

Throw == stage' = "rejected" /\ UNCHANGED parseVars

\* The next step of the function on top is to take so many tokens and do rest.
Proceed(length, rest) ==
  /\ tokens' = After(length)
  /\ stack' = rest \o Tail(stack)
  /\ UNCHANGED stage

ParseProcedure ==
  /\ stage = "parsing" /\ stack = <<>> /\ tokens # <<>>
  /\ IF Expected(<<"Procedure", "ProcedureName", "{">>) /\ tokens[2].value \notin DOMAIN pcalled
     THEN /\ pnames' = Append(pnames, tokens[2].value)
          /\ pcalled' = pcalled @@ (tokens[2].value :> {})
          /\ stack' = <<StatementList(Procedure(Cardinality(DOMAIN pcalled) + 1)), Expect(<<"}">>)>>
          /\ tokens' = After(3)
          /\ UNCHANGED <<ast, stage>>
     ELSE Throw

\* An empty list throws.
ParseStatementList ==
  /\ Doing("statement list")
  /\ IF tokens = <<>> \/ Expected(<<"}">>) THEN Throw
     ELSE Proceed(0, <<Statements(Head(stack).list)>>) /\ UNCHANGED <<ast, pnames, pcalled>>

\* A statement has the next number.
AddStatement(kind, about) == ast' = Append(ast, [kind |-> kind, list |-> Head(stack).list, about |-> about])

\* The procedure that is being parsed.
current_pname == Last(pnames)

ParseCallStatement ==
  IF Expected(<<"Call", "ProcedureName", "Semicolon">>)
  THEN /\ AddStatement("call", <<tokens[2].value>>)
       /\ pcalled' = [pcalled EXCEPT ![current_pname] = @ \cup {tokens[2].value}]
       /\ Proceed(3, <<Head(stack)>>)
       /\ UNCHANGED pnames
  ELSE Throw

ParseReadOrPrintStatement(type, kind) ==
  IF Expected(<<type, "VariableName", "Semicolon">>)
  THEN /\ AddStatement(kind, <<tokens[2].value>>)
       /\ Proceed(3, <<Head(stack)>>)
       /\ UNCHANGED <<pnames, pcalled>>
  ELSE Throw

\* The first position at which a token is one of these.
FirstAt(Test(_)) == CHOOSE k \in DOMAIN tokens : Test(tokens[k]) /\ \A i \in 1..(k - 1) : ~Test(tokens[i])

IsSemicolon(token) == token.type = "Semicolon"

ParseAssignStatement ==
  LET ends == \E k \in DOMAIN tokens : IsSemicolon(tokens[k])
      semicolon == FirstAt(IsSemicolon)
      expr == SubSeq(tokens, 3, semicolon - 1)
  IN  IF Expected(<<"VariableName", "AssignmentOp">>) /\ ends /\ IsExpression(expr)
      THEN /\ AddStatement("assign", <<tokens[1].value, ExpressionTree(expr)>>)
           /\ Proceed(semicolon, <<Head(stack)>>)
           /\ UNCHANGED <<pnames, pcalled>>
      ELSE Throw

ParseWhileStatement ==
  IF Expected(<<"While", "(">>)
  THEN /\ AddStatement("while", <<>>)
       /\ Proceed(2, <<Condition, Expect(<<")", "{">>), StatementList(Body(Len(ast) + 1)), Expect(<<"}">>), Head(stack)>>)
       /\ UNCHANGED <<pnames, pcalled>>
  ELSE Throw

ParseIfStatement ==
  IF Expected(<<"If", "(">>)
  THEN /\ AddStatement("if", <<>>)
       /\ Proceed(2, <<Condition, Expect(<<")", "Then", "{">>), StatementList(Then(Len(ast) + 1)),
                       Expect(<<"}", "Else", "{">>), StatementList(Else(Len(ast) + 1)), Expect(<<"}">>), Head(stack)>>)
       /\ UNCHANGED <<pnames, pcalled>>
  ELSE Throw

\* The loop of ParseStatementList and ParseStatement.
ParseStatement ==
  /\ Doing("statements")
  /\ CASE tokens = <<>>      -> Throw
       [] Expected(<<"}">>)  -> Proceed(0, <<>>) /\ UNCHANGED <<ast, pnames, pcalled>>
       [] Expected(<<"Call">>)  -> ParseCallStatement
       [] Expected(<<"Read">>)  -> ParseReadOrPrintStatement("Read", "read")
       [] Expected(<<"Print">>) -> ParseReadOrPrintStatement("Print", "print")
       [] Expected(<<"VariableName">>) -> ParseAssignStatement
       [] Expected(<<"While">>) -> ParseWhileStatement
       [] Expected(<<"If">>)    -> ParseIfStatement
       [] OTHER                 -> Throw

\* PopExpect, once or several times.
ParseExpected ==
  /\ Doing("expect")
  /\ IF Expected(Head(stack).what)
     THEN Proceed(Len(Head(stack).what), <<>>) /\ UNCHANGED <<ast, pnames, pcalled>>
     ELSE Throw
-----------------------------------------------------------------------------
(* Conditions *)

\* How many parentheses are open after the i-th of the tokens behind from.
Depth(from, i) ==
  Cardinality({j \in (from + 1)..i : IsParenthesis(tokens[j], "(")})
    - Cardinality({j \in (from + 1)..i : IsParenthesis(tokens[j], ")")})

Allowed(token) ==
  token.type \in {"VariableName", "ConstantValue", "ExpressionOp", "RelativeExpressionOp", "Parenthesis"}

IsConditionOp(token) == token.type = "ConditionalExpressionOp"

\* Where the scan of IsRelativeExpression stops: at the parenthesis that ends
\* the condition, at an operator on conditions, or at what belongs to neither.
ScanStops ==
  {k \in DOMAIN tokens : ~Allowed(tokens[k]) \/ Depth(0, k) < 0}

Least(S) == CHOOSE k \in S : \A i \in S : k <= i

ScanStop == Least(ScanStops)

\* Mutant: a condition that begins with a parenthesis is not a comparison.
IsRelativeByFirstToken == ~Expected(<<"(">>) /\ ~Expected(<<"!">>)

IsRelativeExpression == Depth(0, ScanStop) < 0

\* ExtractExpressionTokenList up to the comparison, or to the parenthesis that
\* ends the condition; it throws at a token that is not allowed.
LhsStops == {k \in DOMAIN tokens : ~Allowed(tokens[k]) \/ tokens[k].type = "RelativeExpressionOp"}

RhsStops(op) == {k \in (op + 1)..Len(tokens) : ~Allowed(tokens[k]) \/ Depth(op, k) < 0}

ParseRelativeExpression ==
  LET op == Least(LhsStops)
      end == Least(RhsStops(op))
      lhs == SubSeq(tokens, 1, op - 1)
      rhs == SubSeq(tokens, op + 1, end - 1)
      well_formed == /\ LhsStops # {} /\ tokens[op].type = "RelativeExpressionOp"
                     /\ RhsStops(op) # {} /\ Allowed(tokens[end])
                     /\ IsExpression(lhs) /\ IsExpression(rhs)
  IN  IF well_formed
      THEN /\ ast' = [ast EXCEPT ![Len(ast)].about = Append(@, <<ExpressionTree(lhs), ExpressionTree(rhs)>>)]
           /\ Proceed(end - 1, <<>>)
           /\ UNCHANGED <<pnames, pcalled>>
      ELSE Throw

Nested == <<Condition, Expect(<<")", "&&", "(">>), Condition, Expect(<<")">>)>>

ParseConditionalExpression ==
  /\ Doing("condition")
  /\ CASE ScanStops = {} \/ ~(Allowed(tokens[ScanStop]) \/ IsConditionOp(tokens[ScanStop])) -> Throw
       [] IsRelativeExpression -> ParseRelativeExpression
       [] ~IsRelativeExpression /\ Expected(<<"!", "(">>) ->
            Proceed(2, <<Condition, Expect(<<")">>)>>) /\ UNCHANGED <<ast, pnames, pcalled>>
       [] ~IsRelativeExpression /\ Expected(<<"(">>) ->
            Proceed(1, Nested) /\ UNCHANGED <<ast, pnames, pcalled>>
       [] OTHER -> Throw
-----------------------------------------------------------------------------
(* The calls *)

Undeclared == (UNION {pcalled[p] : p \in DOMAIN pcalled}) \ DOMAIN pcalled

\* ParseProgram is through with the tokens: ValidateExistentCalls.
ValidateExistentCalls ==
  /\ stage = "parsing" /\ stack = <<>> /\ tokens = <<>>
  /\ stage' = IF Undeclared = {} THEN "validating" ELSE "rejected"
  /\ roots' = DOMAIN pcalled
  /\ UNCHANGED <<parseVars, path, visited, visiting>>

Visit(proc, below) ==
  /\ visited' = visited \cup {proc}
  /\ visiting' = visiting \cup {proc}
  /\ path' = <<[proc |-> proc, children |-> pcalled[proc]]>> \o below

\* ValidateNonRecursiveCalls goes over the procedures in any order.
ValidateFrom ==
  /\ stage = "validating" /\ path = <<>>
  /\ \E proc \in roots :
       /\ roots' = roots \ {proc}
       /\ IF proc \notin visited THEN Visit(proc, <<>>)
          ELSE UNCHANGED <<path, visited, visiting>>
  /\ UNCHANGED <<parseVars, stage>>

\* ValidateNonRecursiveCallsUtils takes the next of the procedures called.
ValidateChild ==
  /\ stage = "validating" /\ path # <<>>
  /\ \E child \in Head(path).children :
       LET below == <<[Head(path) EXCEPT !.children = @ \ {child}]>> \o Tail(path)
       IN  IF child \notin visited THEN Visit(child, below) /\ UNCHANGED stage
           ELSE /\ stage' = IF child \in visiting THEN "rejected" ELSE stage
                /\ path' = below
                /\ UNCHANGED <<visited, visiting>>
  /\ UNCHANGED <<parseVars, roots>>

\* Mutant: visiting is not cleaned up.
ValidateReturnStill ==
  /\ stage = "validating" /\ path # <<>> /\ Head(path).children = {}
  /\ path' = Tail(path)
  /\ UNCHANGED <<parseVars, stage, roots, visited, visiting>>

ValidateReturn ==
  /\ stage = "validating" /\ path # <<>> /\ Head(path).children = {}
  /\ path' = Tail(path)
  /\ visiting' = visiting \ {Head(path).proc}
  /\ UNCHANGED <<parseVars, stage, roots, visited>>

Accept ==
  /\ stage = "validating" /\ path = <<>> /\ roots = {}
  /\ stage' = "parsed"
  /\ UNCHANGED <<parseVars, validateVars>>

Parse ==
  \/ /\ \/ ParseProcedure \/ ParseStatementList \/ ParseStatement
        \/ ParseConditionalExpression \/ ParseExpected
     /\ UNCHANGED <<text, validateVars>>
  \/ /\ ValidateExistentCalls \/ ValidateFrom \/ ValidateChild \/ ValidateReturn \/ Accept
     /\ UNCHANGED text
=============================================================================
