----------------------------- MODULE SourceToPkb -----------------------------
(***************************************************************************)
(* SPA::ParseSourceCode (spa.cpp): from the text of a program to the PKB,  *)
(* through Lexer::Tokenise, Parser::Parse and                              *)
(* DesignExtractor::ExtractDesigns.                                        *)
(***************************************************************************)
EXTENDS SimpleParser, DesignExtractor

CONSTANTS
  Texts,    \* programs, and what is not one
  Again     \* those that may be given after another

ASSUME NumbersAssumption == Constants = Numbers

VARIABLE source    \* the text as it was given

frontVars == <<source, text, tokens, stack, pcalled, validateVars>>
vars == <<stage, ast, pnames, frontVars, extractVars, cfgVars>>

Init ==
  /\ source \in Texts
  /\ text = source
  /\ stage = "lexing"
  /\ ParserInit
  /\ ExtractInit

\* Parser::Parse has the tokens.
StartParsing ==
  /\ stage = "lexing" /\ text = <<>>
  /\ stage' = "parsing"
  /\ UNCHANGED <<text, parseVars, validateVars>>

ParseSource ==
  /\ \/ Tokenise /\ UNCHANGED <<ast, stack, pnames, pcalled, validateVars>>
     \/ StartParsing
     \/ Parse
  /\ UNCHANGED <<source, extractVars, cfg, queue, current>>

\* Mutant: what the parser throws is caught, and the tree extracted all the same.
ExtractSourceThrown ==
  /\ \/ stage \in {"parsed", "rejected"} /\ ExtractDesigns /\ UNCHANGED <<ast, pnames>>
     \/ ExtractNextStep
  /\ UNCHANGED frontVars

ExtractSource ==
  /\ \/ stage = "parsed" /\ ExtractDesigns /\ UNCHANGED <<ast, pnames>>
     \/ ExtractNextStep
  /\ UNCHANGED frontVars

\* It is called with another text and an empty PKB, in the same process, ...
Done == stage \in {"rejected", "extracted"}

ParseAgain ==
  /\ Done
  /\ source' \in Again /\ text' = source' /\ stage' = "lexing"
  /\ Reset
  /\ pkb' = NoTables
  /\ UNCHANGED <<call_graph, nodes, left, cfg, queue, current>>

\* ... or in a new one, when the old one was terminated.
StartAgain ==
  /\ stage = "thrown"
  /\ source' \in Again /\ text' = source' /\ stage' = "lexing"
  /\ Reset
  /\ pkb' = NoTables /\ call_graph' = {} /\ nodes' = <<>> /\ left' = {}
  /\ cfg' = {} /\ queue' = <<>> /\ current' = {}

Next == ParseSource \/ ExtractSource \/ ParseAgain \/ StartAgain

Spec == Init /\ [][Next]_vars
-----------------------------------------------------------------------------
(* What the text means *)
Grammar == INSTANCE SimpleGrammar

TypeOK ==
  /\ stage \in {"lexing", "parsing", "validating", "parsed", "connecting", "rejected", "thrown"} \cup ToSet(Handlers)
  /\ Len(text) + Len(tokens) <= Len(source)
  /\ stage \in {"validating", "parsed"} => tokens = <<>> /\ stack = <<>>
  /\ visiting \subseteq visited
  /\ stage = "connecting" => CFGTypeOK
  /\ nodes # <<>> => stage \in {"BreadthFirstTraversal", "thrown"}
  /\ left # {} => stage \in {"UsesP", "ModifiesP"} /\ left \subseteq ToSet(pnames)

\* A text is accepted exactly when the grammar derives it, its procedures have
\* different names, and its calls are of procedures and not recursive: though
\* keywords may be names, conditions are told from expressions by a scan, and
\* the procedures are visited in any order.  Its tree is then the one the grammar
\* gives, with the statements numbered in the order of the text and the operators
\* applied from the left, and is extracted to the end unless a constant is no
\* int, or there is no statement; the variables and the constants of the PKB are
\* then those that stand in the text.
AcceptsPrograms ==
  /\ stage = "parsed" => [ast |-> ast, names |-> pnames] \in Grammar!Programs(source)
  /\ stage = "rejected" => Grammar!Programs(source) = {}
  /\ stage = "thrown" => source = <<>> \/ ToSet(source) \cap TooLarge # {}
  /\ stage = "extracted" =>
       /\ source # <<>> /\ ToSet(source) \cap TooLarge = {}
       /\ pkb.const = ToSet(source) \cap Numbers
       /\ pkb.var \cap Names = {source[i] : i \in {k \in 2..Len(source) : /\ source[k] \in Names
                                                                          /\ source[k - 1] \notin {"procedure", "call"}}}
=============================================================================
