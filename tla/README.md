# A TLA+ model of the SIMPLE program analyzer

The program (`src/Code21/src/spa`) reads a program in the toy language SIMPLE,
extracts relations between its statements, procedures and variables into a
knowledge base (PKB), and answers queries in PQL about them. This directory
models its core logic in TLA+, checks the models with TLC and proves theorems
about them with TLAPS. `PROJECT.json` lists the runs, the lines each definition
models, the hazards and the theorems.

## The system

| component | state | operations | who calls it | what makes it correct |
|---|---|---|---|---|
| Lexer, Token(List) | position in the text | `Tokenize` | Parser | tokens in text order |
| Parser | token cursor, statement counter, procedures, calls (static) | `Parse*`, `ValidateExistentCalls`, `ValidateNonRecursiveCalls`, `Reset` | `SPA::ParseSourceCode` | statements numbered in text order; no recursion, no unknown callee reaches the extractor |
| TNode | the tree | typed accessors | all handlers | an accessor is called on its kind of node |
| DesignExtractor | - | `ExtractDesigns`, `BreadthFirstTraversal` | SPA | each handler runs after those whose results it reads |
| Parent, Follows, Procedure, Statement, entity handlers | - | one extraction each | DesignExtractor | closures are closures, ranges are ranges |
| CFGHandler | the graph (static) | `ConstructCFG`, `GetCFG` | Next, Affects, CFGBip, graph explosion | the graph is the flow of control |
| NextHandler | - | `ExtractNextRelation`, `ExtractNextTRelation` | DesignExtractor | Next* is the closure of Next |
| CallHandler | `call_graph` (static) | `ExtractCall*`, `GetInverseCallGraph` | DesignExtractor, Uses, Modifies, CFGBip | Calls* is the closure; terminates |
| UsesHandler, ModifiesHandler | `vars_modified_by` (static) | direct effects, then propagation along the calls | DesignExtractor | a call has all its callee's effects |
| DeUtils | - | `Toposort`, `GetReachableNodes` | Uses, Modifies, CFGBip, Next | topological order; exception only for cycles |
| AffectsHandler | `assign_stmts`, `graph` (static) | `ExtractAffects`, `ExtractAffectsT` | DesignExtractor | exactly the def-use pairs, and their closure |
| CFGBipHandler, NextBipHandler | `cfgbip`, `exit_stmts` (static) | `Operate`, `ConstructCFGBip`, `PopulateNextBip*` | DesignExtractor | paths with matching calls and returns |
| GEHandler, AffectsBipHandler | exploded graph (static) | `ConstructGraphExplosion`, `ExtractAffectsBip*` | DesignExtractor | def-use pairs over such paths |
| PKB | one or two maps per relation | `Insert*`, `Get*`, `Is*` | handlers write, evaluator reads | inverse maps agree; refusals never lose real data |
| QueryParser | three flags (static) | declarations, selection, conditions, each by regular expressions over the rest of the text | QueryProcessor | each query is answered by its own text, whatever was asked before |
| Query, clauses | - | `IsValidClause`, `operator<` | QueryParser, evaluator | a strict weak order |
| QueryEvaluator, ResultTable | the database of result tables | `EvaluateQuery` and one function per kind of clause; `MergeTable` | QueryProcessor | the answer is what the clauses mean |
| QueryOptimizer | - | `OptimizeMerging`, `BFSMerge`, two rewrites of the clause list | QueryEvaluator | merging keeps the meaning |
| QueryProjector, SPA, Extension | flags | formatting, driver | main | - |

The program is sequential: one thread, no persistence, no network. What is hard
is order and accumulation: unordered containers make the order of visits
unpredictable, searches change the container that bounds them, handlers read
what others must have written before, tables stored by one clause are consumed
by a later one, and recursion ends only because an earlier stage excluded
cycles. A nondeterministic choice in a model is always one of those orders, or
an input.

## Modules

### Queries

* `ResultTable` - tables as a set of headers and a set of rows (functions from
  headers to values): `InnerJoin` and `CrossTable` as `Join`, `MergeTable`,
  projection. Rows are a set: the code can hold a row twice, which its results
  (sets, or duplicates within tuples of the same text) do not tell apart.
* `QueryEvaluator` - the clause loop of `EvaluateQuery` up to the merge. A
  clause is a record of what the code asks of it: class, parameters,
  the pairs the PKB holds for it, and whether its types are valid. One action
  per kind of clause (`EvaluateSuchThatClause`, `EvaluatePatternClause`,
  `EvaluateConditionalPatternClause`, `EvaluateWithClause`, `RejectClause`);
  candidate pairs come from the stored tables as in
  `ConvertClauseToResultTable`, which also erases the table it replaces.
  Clauses are taken in any order, which covers both rewrites of the clause list
  (the order of the sort itself is in `QueryParser`).
* `QueryOptimizer` - `OptimizeMerging` and `BFSMerge`, one action per group
  started, node taken and neighbour merged.
* `EvaluateQuery` - both composed, followed by the selection (BOOLEAN, a
  synonym, an attribute, a tuple of synonyms and attributes), with the exception
  `AddColumn` throws for a column of another height. It implements
  `QueryAnswer`, the one-step promise.
* `QueryParser` - `SPA::HandleQueries` and the functions of the parser, one
  action per declaration, selection, condition and error. The text is a sequence
  of what the regular expressions match; a condition is one token, with a
  reading for each keyword it may stand behind. Of the evaluation it has the
  order of the clauses and the checks of their types, which are where the
  parser's work ends in an error of its own. A session asks two queries, because
  three flags are static. `QueryMeaning` is the reference: what a text asks,
  read off the whole of it by position, without popping anything. Of a quoted
  text in a pattern the model tells how the code takes it: an expression, one that
  is malformed, and one with a comma, alone or between wildcards.

### The source text

* `Lexer` - `Lexer::Tokenise`, one action per kind of round: the regular
  expressions tried in their order. The text is a sequence of lexemes (words,
  numbers, symbols); keywords are words and may be names. Each kind of operator
  has one lexeme (`+` and `*` for the two precedences, `<`, `&&`), for the code
  treats the others of a kind alike. Where the white space between two lexemes
  decides which expression matches, both may.
* `ExpressionParser` - the tests of the pattern of an expression, the
  shunting-yard algorithm and the tree made from its output.
* `SimpleParser` - the recursive descent. The call stack is the variable
  `stack`: what the functions that are running have still to do. Then the two
  validations of the calls, the second a search that visits procedures in any
  order. An exception is the stage "rejected".
* `SimpleGrammar` - what a text means: the trees the grammar derives from it,
  and what calls are valid. It is the reference only. Like the code it accepts a
  program without procedures.
* `SourceToPkb` - the composition: `SPA::ParseSourceCode`, from the text through
  the lexer, the parser and the design extractor to the PKB. When a program is
  extracted or refused another text may follow, with a new PKB: the statics of
  the parser and the call graph are as the last one left them. After an
  exception nothing catches the process is a new one.

### The design extractor

Programs come in three forms, each as concrete as its users need: `SimpleAst`
(the tree), `AffectsProgram` (a control flow graph with what each statement
modifies and uses) and `BipProgram` (procedures over a tree, with calls).

* `SimpleAst` - the syntax tree as a sequence of statements, each with its kind
  and the list it is a child of. `IsAst` is what the parser builds.
  `ParsedProgram` is the variables through which the parser hands it on.
* `PkbTables` - the tables of the PKB: a relation is a map and an inverse map,
  and every insertion is what the code's does, with what it refuses.
* `DesignExtractor` - `ExtractDesigns` up to the relations Affects: the handlers
  in their order, the breadth first traversal one node of the tree per step (so
  that a container's effects meet the parents that are known then), the static
  call graph, Calls* by its recursion, and the propagation of Uses and of
  Modifies along the calls one procedure per step. It extends `CFGHandler`, so
  the graph is built in place. `ExtractSpec` is the extractor between its
  callers: any text may be read (`ReadProgram`), and what is handed over was
  accepted (`IsParsed`); `source` checks that the parser and `SPA` implement it.
* `CFGHandler` - `ConstructCFG`, one action per statement list taken from the
  queue and one per statement connected.
* `Reachability` - the definition the searches within a procedure are measured
  against: a node is reachable when every closed set holds it. It is not
  recursive, so it can be reasoned about.
* `AffectsHandler` - `ExtractAffects`: one action starts the walk of an
  assignment, one visits a statement. `AffectsTHandler` - `ExtractAffectsT`:
  the loop over the map of Affects pairs and the search it starts, with the
  insertions that the map's `operator[]` makes on lookup. `AffectsExtraction`
  runs the second on the map the first leaves behind (`Star`, an INSTANCE).
* `Toposort` - Kahn's algorithm of `DeUtils`, one action per node.
  `ProcEffects` extends it: the propagation of Uses and Modifies along the
  calls in the order the sort returned.
* `BipProgram` - procedures, calls and the statements a procedure may return
  from. `MCBipProgram` composes programs from procedure bodies.
* `CFGBipHandler` - `ConstructCFGBip`: the graphs of the procedures joined by
  edges to callees and back, callees first, in any order the sort may return.
* `NextBipHandler` - composes `CFGBipHandler` with the bounded search
  `PopulateNextBipTRelationFromStmt`: one action per entry of its stack, each
  entry with its own stack of return points, hops left and visits left. What
  NextBip* means is `ExecutedAfter`: a step into a callee pushes the call, a
  return goes behind the call on top of the stack, and executions are followed
  for twice as many steps as the search has hops.
* `GraphExplosion` - `GEHandler`: the recursion of `ExplodeGraph` as a sequence
  of stack frames; a node is a statement together with the calls that lead to it.
* `AffectsBipHandler` - extends it by the walks over the exploded graphs and by
  `ExtractAffectsBipT`, whose loop runs over a sorted map that its own lookups
  extend.

## Runs

| run | question | instance |
|---|---|---|
| `evaluator_erased` (violation) | with clauses that name a synonym twice: is anything invented? Yes: the table erased at `QueryEvaluator.cpp:613` | up to three clauses over two synonyms |
| `evaluator_samename` (violation) | a procedure and a variable of one name | one clause suffices |
| `merging` | are connected tables, and only they, merged, without changing the meaning? | databases of up to three tables, rings and chains of four |
| `evaluate_query` | do the stored tables mean exactly the evaluated clauses, and does the whole of `EvaluateQuery` answer once and correctly? (refinement of `QueryAnswer`) | up to three clauses over two synonyms, constants and wildcards; every kind of selection |
| `evaluate_columns` (violation) | a tuple with an attribute of a synonym that is in no clause, behind another synonym: the column has another height | one clause |
| `query_parser` | is each query read as its text says, are its errors those owed, do the clauses have a strict weak order, does every query end? | 8152 first queries: every condition alone, in pairs and behind two others, joined by each keyword and "and"; selections; redeclarations; keywords as synonyms; one token missing, doubled or changed. Six second queries |
| `source` | are exactly the valid programs accepted, with the tree the grammar gives; and when one is extracted, are all relations, effects and entities in the PKB those of the program, the same from both sides? | all shapes of up to five statements (nested ifs and whiles); procedures of four statements of every kind; expressions and conditions of up to five pieces; every structure of calls of three procedures; keywords as names; constants that are no int; a program with one lexeme missing, doubled or replaced; each followed by another text |
| `affects` | are the def-use pairs and their closure exact, and do the walks and the loop whose bound grows end? | eight graphs, five kinds of statement, two variables |
| `effects` | is the order topological, are exactly the cycles refused, and are the effects of procedures, calls and containers exact? | three procedures, each of two statements, every call structure |
| `next_bip` | is CFGBip the interprocedural flow of control; does the search end, find only paths with matching calls and returns, and find all where no procedure has two calls and none that is called a loop? | three procedures that call each other from straight code, ifs and loops |
| `next_bip_hops` (violation) | and all in general? No: a procedure called twice makes the path longer than the bound | 'call p2; call p2; print' |
| `affects_bip` | is the exploded graph the steps of executions, are the pairs over it exact, and is their closure although its map grows? | chains of three procedures, called once and twice, and two roots that share a callee |

Why the bounds are enough: the shortest behaviours that can go wrong need a
table for a pair and a later clause over one of its synonyms (two clauses), three
connected tables, an if nested as last statement of an if or while (four
statements), a loop with a branch (four statements), an Affects pair whose
source is above the number of keys (three statements), a procedure reached
over two paths of calls (three procedures), a last call inside a callee, so
that one return leads through two (three procedures), operators of equal and of
different precedence around a parenthesis (five pieces), a cycle of calls
behind a procedure that is called twice (three procedures), a container around
one that calls a procedure that calls out of a container (`CallsFromContainers`),
a condition behind "and" of another kind than the two before it (three
conditions), and a flag or a graph left over (two queries, two programs). The
mutants listed in
`PROJECT.json` show that each property can fail on its instance.

`CHECK_DEADLOCK FALSE` is set where the modelled function returns: the
behaviour ends there, and in `query_parser`, where a session ends after two
queries or where nothing catches an exception. `source` checks for deadlocks
instead of a liveness property: every step takes tokens, a node, a procedure or
a handler that is left to do, and a behaviour that stopped before the text is
refused or extracted would be a deadlock.

### Fairness

Each model with a liveness property assumes weak fairness of its whole
next-state relation and nothing more: the code is one thread that is never
blocked, so it takes another step as long as there is one. No choice between
alternatives is assumed fair.

## Theorems

All are proved for arbitrary constants (any number of synonyms, statements,
nodes) satisfying the named assumptions.

* `QueryEvaluatorProofs` - `TypeCorrect`, `NothingIsLost`, `NothingIsInvented`.
  The invariant relates the tables to the clauses evaluated so far: an
  assignment of synonyms satisfies the clauses exactly when it fits all tables.
  Losing nothing needs that the shortcuts for equal parameters are right for
  the clauses (`ShortcutsAreSound`); inventing nothing needs that no clause
  names a synonym twice (`NoRepeatedSynonym`). The two violation runs show that
  both assumptions are needed. Then the composition, `EvaluateQuery`:
  `DatabaseMeansTheQuery` (the stored tables mean the evaluated clauses until
  the optimizer has them) and `EvaluationIsCorrect` (it implements
  `QueryAnswer`: one answer, the right one). The evaluator's invariant is
  carried over to the same variables, the optimizer's through its INSTANCE and
  the theorems of `QueryOptimizerProofs`; between the two stands that the
  merged tables of the groups mean together what the tables meant apart. That no
  selection adds a column (`NoSecondColumn`) is the third hypothesis, which
  `evaluate_columns` shows is needed. Of `AnswersCorrectly` the fairness is left
  to TLC.
* `QueryOptimizerProofs` - `TypeCorrect`, `MergedTablesAreExact`,
  `GroupsShareNoSynonym`. The invariant says that the group under construction
  is the join of the tables visited, and that every table that shares a synonym
  with a visited one is visited or waiting.
* `AffectsHandlerProofs` - `TypeCorrect`, `AffectsIsSound`,
  `AffectsIsComplete`. Soundness: everything reached lies in every closed set.
  Completeness: when a walk is over the statements reached are a closed set.
  Of the two stages in a row `ExtractionImplementsAffects` says that the second
  leaves Affects alone, and `ClosureOfExtractedAffects` that the result is the
  closure of the def-use pairs.
  Of `AffectsTHandler`, the instance `Star`: `AffectsTTypeCorrect`,
  `AffectsTIsSound`, `AffectsTIsComplete`. The argument for the loop bound: the
  numbers that the counter has passed are keys, so when it has reached the size
  of the map they are all the keys there are (`StarMissesNothing`). It is needed
  because the bound is the size of a map that the searches grow.
* `ProcEffectsProofs` - `SortTypeCorrect`, `OrderIsTopological`,
  `CyclesAreRefused`. The counters count the edges from nodes not yet sorted; a
  set in which every node has an edge from the set (a knot) is never entered, and
  what is left when the queue is empty is a knot. Then of the pass along the
  order `CallsAreSorted`, `NoExceptionWithoutRecursion`, `PreconditionHolds` and
  `EffectsAreExact`. The invariant of the pass (`PassInv`) says that a procedure
  behind the position has the effects of everything it reaches, and a call
  statement, and what is around it, those of a callee that is through; a
  procedure at the position has only callees behind it, so nothing is missing
  when its range is read.
* `DesignExtractorProofs` - `DirectionsAgree`: at every moment of the extraction
  of any program, and of any number of programs one after the other, each
  relation holds the same pairs in its map and its inverse map, and the tables of
  single values hold one. Each kind of insertion keeps the agreement whatever it
  is given, because it puts into the inverse map what is new in the map, and what
  a table refuses it refuses before either. That is a lemma per insertion and a
  step per handler.
  `RelationsAreFound`: at the end Follows, Parent, Next and Calls and their
  closures are those of the program (`RelationsAreTheProgram`), for every program
  the parser accepts. The invariant (`RelationsInv`) adds to the agreement what
  has been written at each stage (`Written`), and what the two searches over the
  tree still have to do: everything not yet treated can be reached from what is
  queued (`ToCome`), and what was treated has been told (`Connecting`,
  `Traversing`). The statements are the hard part. The code descends to the last
  statements of an if, the language looks outwards from a last statement; the
  two are the same relation turned round (`ExitsAndAfter`), because the graph of
  containers has no knot (`HasNoKnot`: statements are numbered downwards).
  Recursive definitions over the tree (what is around a statement, its
  procedure, the callees of callees) are of the form `Collects`, which has one
  solution in a graph without knots, so each is compared with reachability by
  showing that reachability solves its equation.
  `EffectsAreFound`: at the end Uses and Modifies, of statements and of
  procedures, are what executing the program can read and write
  (`EffectsAreTheProgram`). The invariant (`EffectsInv`) measures the tables with
  one definition, what is `Known` of a statement when the procedures of a set are
  done: what it and its parts do themselves, and the whole effect of those of the
  set that it calls. Modifies is filled with it at once, Uses node by node
  (`Finding`), both for no procedure; each iteration of a loop adds one
  procedure to the set (`ProcedureIsPropagated`). A container's call is no
  special case, because the statements around a call are those it is `Within`.
  That a procedure's range of statement numbers holds its statements and no
  others is `ProcsAreOneAfterAnother`; that nothing is refused on insertion needs
  that no name is the empty one.
  `EntitiesAreFound`: at the end the tables of statements, types, variables,
  constants and of each type hold what stands in the program
  (`EntitiesAreTheProgram`). A node's entries are gathered first, `AllEntries` of
  a table being those of all nodes; the invariant (`EntitiesInv`, over
  `EffectsInv`) is that nothing else was entered and that a node's entries are in
  the tables unless the search still comes to it (`Entering`). What search order,
  nesting of expressions and the handlers that write in between could break is
  with that settled: when the search ends every entry is there. That what a
  statement is about is in Uses and Modifies too follows from `EffectsInv`.
* `NextBipHandlerProofs` - `ConstructTypeCorrect`, `AssertionsNeverFail` and
  `GraphIsFlow` for `CFGBipHandler`: no assertion of the construction fails, and
  the joined graph is the interprocedural flow. The invariant (`ConstructInv`)
  follows the procedures in their order: the calls of those before are replaced
  by an edge in and edges back from the statements the callee may end with, which
  are known because callees come first. `SearchTypeCorrect` and
  `NextBipTIsExecuted` for the search: every pair it inserts is of two
  statements executed one after the other (`SearchInv`: an entry of its stack is
  an execution, its return points are the calls that are open). `SearchKeepsConstruction`
  joins the two. `NoAssertionEverFails` adds the assertions of the search
  (`NextBipHandler.cpp:112`, `113`, `195`, `201`), which count the successors of the
  statement that is processed: from the tree (`SuccessorsCounted`, by
  `OneComesAfter` and `AfterIsOutside`) and the joined graph. That of line 159 is
  what `IsExitStmt` says. `NextBipTIsComplete` is the converse for simple programs
  (`IsSimple`: no procedure is called by two statements, no call is in a loop, no
  called procedure has one): of what executions of any length reach nothing is
  missing, so there the two bounds cut off nothing. The invariant
  (`SimpleSearchInv`) adds to `SearchInv` that where control may go from what was
  reached has been met or waits on the stack; that an entry came along a way
  (`Came`) as long as the hops it has spent; and how many visits a statement has
  left (`VisitsInv`). An entry that still has a visit is at a statement that is
  new on its way (`WayIsNew`), so a way has no more statements than the program
  and an entry is never out of hops (`NeverOutOfHops`). The case that needs the
  hypothesis is a statement whose visits a call has raised: it must not come twice
  on a way (`NotAgain`), which goes up the calls to a procedure that nothing
  calls.
* `AffectsBipHandlerProofs` - `TypeCorrect`, `ExplosionIsCorrect`,
  `AffectsBipIsCorrect` and `AffectsBipTIsCorrect`: the exploded graphs have the
  steps of executions (`ExplosionIsExecution`), the walks insert the pairs of a
  definition and a use of copies (`PairsAreDefUse`), and the closure joins the
  statements of which copies are joined (`ClosureKeepsCopies`), for every program
  without recursion, every order of the graphs, the queues and the stacks, and
  every place where a lookup puts a new key. The invariant has a part for each
  phase. `ExplosionInv` follows the stack: an activation has all steps of its
  statements before the current one, and of everything called by them
  (`FrameDone`); its exit is where control returns to from its chain of calls
  (`IsActivation`); every frame was entered from the statement at which the one
  below it stands (`IsCallOf`); a root whose frame is gone has the steps of all
  copies below it (`StartDone`). When the stack is empty and no procedure is left
  that is every copy. What a last call returns to is the hard part: `ReturnedGrows`
  says how the return point is handed down, and `LastExecutedAreReturns` that the
  search from the last statement of a procedure inwards finds the statements
  after which control leaves it, by the same turning round of the tree as in
  `DesignExtractorProofs`. `WalksInv` says that everything a search has met
  has been walked from or waits (`Searched`), and that a walk stays in every set
  closed under steps without a redefinition (`IsReach`). That the searches from
  the roots meet every copy is `EveryCopyIsReached`: a set that follows
  executions contains what comes behind a call once it contains the callee's
  entry, by induction along the calls, callees first (`EnteredIsWhole`).
  `ClosureInv` is that of `AffectsTHandler` over copies, with the keys that the
  loop has passed in place of the counter. The specification of these
  properties counts steps (`DefinitionReaches`, `Chained`); `WideningCloses` says
  that as many steps as there are copies are enough.
  Of the programs it is used that the nodes of the graphs are not the value for
  no node (`NoNode`), and that a procedure's statements are a list of the tree and
  what is nested in it (`IsProgram`); both are how the parser and GEHandler make
  them.
* `QueryMeaning` - `ClausesCanBeSorted`: `operator<` is a strict weak order on the
  clauses of every query (the last conjunct of `QueryIsRead`), for any conditions
  a text can hold, provided the regular expressions admit no relation that has no
  rank (`RelationsAssumption`). The invariant is that the clauses are readings of
  conditions; their order is that of three numbers.

None of the installed provers does induction over data. Where a proof needs it
over the tree, the statements' numbers or a sequence's length it takes the least
number of a counterexample instead (`LeastElement`), and a recursive function is
used through its equation, whose solution is given first. The liveness
properties (`ExtractionEnds`, `EveryTableIsMerged`, `Finishes`, `SearchEnds`,
`EveryQueryEnds`, and that an answer comes in `AnswersCorrectly`) are out of
reach and stay with TLC.

Only model-checked, of the safety properties: what the lexer and the two
parsers do with a text (`QueryIsRead` but for the order of the clauses,
`AnswersErrors`, and `TypeOK` and `AcceptsPrograms` of `SourceToPkb`, the
variables and constants that stand in the text among it), which are stated beside
a recursive grammar, and with them that reading implements the extractor's
environment (`ExtractSpec`).

## Findings

* `QueryEvaluator.cpp:613` - `Next*(n, n)` after a clause that relates `n` to
  another synonym erases that relation: the run `evaluator_erased`.
* `QueryEvaluator.cpp:314` - `Uses("x", "x")` with a procedure and a variable
  `x` is false: the run `evaluator_samename`.
* `QueryEvaluator.cpp:234` - a tuple with an attribute of a synonym that no
  clause names answers nothing when the table has another height:
  `evaluate_columns`.
* `NextBipHandler.cpp:90` - the bound of n-1 hops, justified by a comment at
  line 50, is too small when a procedure is called twice: `next_bip_hops`.

Met while modelling, and part of the models, but without a run of their own:

* `NextBipHandler.cpp:83` - a visit is spent before the hops are looked at, so
  that a longer path can take the visit of a shorter one. It depends on the order
  of an unordered container. `NoNextBipTMissedIfSimple` says where neither this
  nor the bound matters. One call is enough when it is in a loop: in
  `while { call p2; }` with p2 = `print; print; print; if {t;} else { if {a;} else {b;}
  if {c;} else {d;} e; }` and p3 of one statement, the entries of the second call
  of p2 are out of hops at `e` and take the visits it has, while the entry of the
  first call is still on the stack: from the call, `e` is not found.
* `QueryParser.cpp:128` - a redeclared synonym in a Boolean query is a semantic
  error, FALSE, unless another declaration follows: then the loop was left too
  early, the declaration is taken for the selection, and nothing is answered.
* `QueryParser.cpp:398`, `330` - a number that is no int, and a quoted text with
  a comma as the pattern of an assignment, throw `std::out_of_range`, which
  nothing catches. `ConstantHandler.cpp:14` does the same for a constant of a
  program, and `CFGHandler.cpp:83` ends an empty program with `std::length_error`.
* `QueryParser.cpp:230` - a semantic error of a condition is reported although
  a syntax error follows.
* `QueryParser.cpp:330` - the pattern `_"x, y"_` of an assignment is read as the
  wildcard `_`: the parameters are split at the comma in the quotes, and the first
  match in what is before it is the wildcard in front of the quote. The text is
  never parsed, against the comment at lines 364-366 ("Else, parse and validate
  the pattern expression"), and the query is answered as if `_` had been written.
  The model has it (`SecondParameter`); `QueryIsRead` and `AnswersErrors` state it
  as the one clause that does not reach the evaluator as it was written.
* `QueryParser.cpp:334` - three parameters are accepted for patterns of while and
  assign, whatever the comment at lines 284-300 says. Two for an if match the
  regular expressions too, but the bracket behind the second is not stripped as it
  is for a while (line 341 against 334), so that a wildcard there is none and the
  query has a semantic error.

## Not modelled, and the plan

Done of the plan made at first: queries from their text to the answer, the
parser of programs, the extraction of every relation and entity, CFG, Affects,
effects, CFGBip and NextBip, graph explosion and AffectsBip. What is left, by
importance:

1. The handlers behind Modifies in the pipeline. Affects, NextBip and AffectsBip
   are modelled on programs of their own (`AffectsProgram`, `BipProgram`), which
   are more concrete about effects and calls than trees of a few statements
   would be; in one run with the rest of `source` their state spaces multiply.
2. Proofs: the type of `SourceToPkb` and that it implements `ExtractSpec`.

Left out on purpose:

* characters: what a lexeme is made of, spaces in queries, quoted texts (but that
  they have a comma, at which the parameters of a pattern are split), formatting
  of results (`QueryProjector`);
* the nesting of `!`, `&&` and `||` in the tree of a condition, which nothing
  reads;
* the two flags of `Extension`, read once from the environment: the constant
  `Extensions` is what they switch on;
* `InnerJoin` compares rows by hash only; the model joins on values, and whether
  two names collide is not decided here;
* the drivers and the GUI, the tests and the vendored test framework. They are
  three quarters of the repository's lines: the program itself is about 12000
  of 50000, of which the models stand for a little more than a third.
