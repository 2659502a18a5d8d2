-------------------------------- MODULE Lexer --------------------------------
(***************************************************************************)
(* Lexer::Tokenise (source_processor/Lexer.cpp).  The text is a sequence   *)
(* of lexemes: words, numbers and symbols, one of each kind of operator.   *)
(* Keywords are words, and may be names.  An action is a round of the      *)
(* loop: the regular expressions are tried in turn.  Where the length of   *)
(* the white space decides between two of them, both may be taken.         *)
(***************************************************************************)
EXTENDS ParsedProgram, SequencesExt

CONSTANTS Names, Numbers    \* the words that are not keywords, the numbers

Keywords == {"procedure", "call", "read", "print", "while", "if", "then", "else"}
Words == Names \cup Keywords
Symbols == {"{", "}", "(", ")", ";", "=", "+", "*", "<", "!", "&&"}

ASSUME LexemesAssumption ==
  /\ Names \cap (Keywords \cup Symbols) = {}
  /\ Numbers \cap (Words \cup Symbols) = {}

VARIABLES
  text,      \* what is left of the text
  tokens

lexVars == <<text, tokens>>

Token(type, value) == [type |-> type, value |-> value]

KeywordType == [procedure |-> "Procedure", call |-> "Call", read |-> "Read", print |-> "Print",
                then |-> "Then", else |-> "Else"]

\* ParserUtils::TokeniseExpression and TokeniseConditionalExpression
ExpressionType(lexeme) ==
  CASE lexeme \in Words      -> "VariableName"
    [] lexeme \in Numbers    -> "ConstantValue"
    [] lexeme \in {"(", ")"} -> "Parenthesis"
    [] lexeme \in {"+", "*"} -> "ExpressionOp"
    [] OTHER                 -> "Invalid"

ConditionType(lexeme) ==
  CASE lexeme \in {"!", "&&"} -> "ConditionalExpressionOp"
    [] lexeme = "<"           -> "RelativeExpressionOp"
    [] OTHER                  -> ExpressionType(lexeme)

TokeniseExpression(expr) == [i \in DOMAIN expr |-> Token(ExpressionType(expr[i]), expr[i])]

TokeniseConditionalExpression(cond) == [i \in DOMAIN cond |-> Token(ConditionType(cond[i]), cond[i])]

Previous == IF tokens = <<>> THEN "None" ELSE Last(tokens).type

Starts(lexemes) == IsPrefix(lexemes, text)

First(from, lexeme) == CHOOSE k \in from..Len(text) : text[k] = lexeme /\ \A i \in from..(k - 1) : text[i] # lexeme

\* Tokens are pushed; those of a type their value is not valid for throw.
Push(new, length) ==
  IF \E i \in DOMAIN new : new[i].type = "Invalid"
  THEN stage' = "rejected" /\ UNCHANGED lexVars
  ELSE tokens' = tokens \o new /\ text' = SubSeq(text, length + 1, Len(text)) /\ UNCHANGED stage

\* An assignment reaches to the next semicolon.
AssignAhead == Len(text) > 2 /\ text[1] \in Words /\ text[2] = "=" /\ \E k \in 3..Len(text) : text[k] = ";"

LexAssign ==
  /\ AssignAhead
  /\ LET semicolon == First(3, ";")
     IN  /\ semicolon > 3    \* else the expression is empty
         /\ Push(<<Token("VariableName", text[1]), Token("AssignmentOp", "=")>>
                   \o TokeniseExpression(SubSeq(text, 3, semicolon - 1)), semicolon - 1)

LexEmptyAssign ==
  /\ AssignAhead /\ text[3] = ";"
  /\ stage' = "rejected" /\ UNCHANGED lexVars

\* The condition of a while reaches to the next brace, ...
WhileAhead == Starts(<<"while", "(">>) /\ \E k \in DOMAIN text : text[k] = "{"

LexWhile ==
  /\ WhileAhead
  /\ LET brace == First(1, "{")
     IN  Push(<<Token("While", "while")>> \o TokeniseConditionalExpression(SubSeq(text, 2, brace - 1)), brace - 1)

\* ... that of an if to the next 'then {'.
ThenAhead == {k \in 3..(Len(text) - 1) : text[k] = "then" /\ text[k + 1] = "{"}

IfAhead == Starts(<<"if", "(">>) /\ ThenAhead # {}

LexIf ==
  /\ IfAhead
  /\ LET then == CHOOSE k \in ThenAhead : \A i \in ThenAhead : k <= i
     IN  Push(<<Token("If", "if")>> \o TokeniseConditionalExpression(SubSeq(text, 2, then - 1)), then - 1)

Other == ~AssignAhead /\ ~WhileAhead /\ ~IfAhead

\* Mutant: the token before is not looked at.
ReservedTypeAlone(word) == KeywordType[word]

\* A keyword is a name where a name must be.
ReservedType(word) ==
  CASE Previous \in {"Read", "Print"}     -> "VariableName"
    [] Previous \in {"Procedure", "Call"} -> "ProcedureName"
    [] OTHER                              -> KeywordType[word]

\* White space or an opening brace must follow.
LexReserved ==
  /\ Other /\ text # <<>> /\ text[1] \in DOMAIN KeywordType
  /\ Push(<<Token(ReservedType(text[1]), text[1])>>, 1)

NameType == IF Previous \in {"Procedure", "Call"} THEN "ProcedureName" ELSE "VariableName"

LexName ==
  /\ Other /\ text # <<>> /\ text[1] \in Words
  /\ text[1] \in DOMAIN KeywordType =>
       \A i \in {2} \cap DOMAIN text : text[i] \notin Words \cup Numbers \cup {"{"}
  /\ Push(<<Token(NameType, text[1])>>, 1)

\* Numbers, too, are taken for names here, and throw.
LexNumber == Other /\ text # <<>> /\ text[1] \in Numbers /\ Push(<<Token("Invalid", text[1])>>, 1)

LexSymbol ==
  /\ Other /\ text # <<>> /\ text[1] \in Symbols
  /\ Push(<<Token(CASE text[1] \in {"{", "}", "(", ")"} -> "Parenthesis"
                    [] text[1] = ";"                    -> "Semicolon"
                    [] OTHER                            -> "Invalid", text[1])>>, 1)

Tokenise ==
  /\ stage = "lexing"
  /\ \/ LexAssign \/ LexEmptyAssign \/ LexWhile \/ LexIf
     \/ LexReserved \/ LexName \/ LexNumber \/ LexSymbol
=============================================================================
