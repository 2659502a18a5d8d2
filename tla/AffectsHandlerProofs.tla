------------------------ MODULE AffectsHandlerProofs ------------------------
(***************************************************************************)
(* Proofs about AffectsHandler, for every control flow graph: the walks    *)
(* insert the pairs of Affects, all of them and no other; and about        *)
(* AffectsExtraction, where ExtractAffectsT runs on what they have         *)
(* inserted and leaves the transitive closure of Affects.                  *)
(***************************************************************************)
EXTENDS AffectsExtraction, FiniteSetTheorems, TLAPS

(***************************************************************************)
(* The state of a walk.  What is reachable is really reached; a reachable  *)
(* statement that is no longer pending has had its successors added,       *)
(* unless the path ends there, and its pair inserted.  The source is       *)
(* pending without being reachable only while nothing else has happened.   *)
(***************************************************************************)
Fresh == pending = {src} /\ reachable = {}

Expanded(a, n) == ~Kills(n, prog.assigned[a]) => prog.cfg[n] \subseteq reachable

Inserted(a, n) == <<a, n>> \in AffectsPairs => <<a, n>> \in affects

WalkInv ==
  src # 0 =>
    /\ reachable \subseteq DefinitionReaches(src)
    /\ Fresh \/ (pending \subseteq reachable /\ prog.cfg[src] \subseteq reachable)
    /\ \A n \in reachable \ pending : Expanded(src, n) /\ Inserted(src, n)

Walked(a) == a \notin todo /\ (a = src => pending = {})

WalkedInv == \A a \in AssignStmts : Walked(a) => \A n \in Stmt : Inserted(a, n)

Inv ==
  /\ TypeOK
  /\ NoAffectsInvented
  /\ WalkInv
  /\ WalkedInv
  /\ src \notin todo

\* The reached statements are themselves a set of the kind DefinitionReaches
\* asks for, and so is the set of all statements that can be reached.
LEMMA ReachesIsClosed ==
  ASSUME NEW a \in AssignStmts, IsProgram(prog)
  PROVE  IsClosed(a, DefinitionReaches(a))
<1>1. prog.cfg \in [Stmt -> SUBSET Stmt]
  BY DEF IsProgram, Stmt
<1>2. a \in Stmt
  BY DEF AssignStmts
<1>3. prog.cfg[a] \subseteq DefinitionReaches(a)
  BY <1>1, <1>2 DEF DefinitionReaches, IsClosed
<1>4. ASSUME NEW m \in DefinitionReaches(a), ~Redefines(m, prog.assigned[a])
      PROVE  prog.cfg[m] \subseteq DefinitionReaches(a)
  <2>1. m \in Stmt /\ \A S \in SUBSET Stmt : IsClosed(a, S) => m \in S
    BY DEF DefinitionReaches
  <2>2. \A S \in SUBSET Stmt : IsClosed(a, S) => prog.cfg[m] \subseteq S
    BY <1>4, <2>1 DEF IsClosed
  <2>3. QED
    BY <1>1, <2>1, <2>2 DEF DefinitionReaches
<1>5. QED
  BY <1>3, <1>4 DEF IsClosed

\* The kinds that end a path are those that can redefine a variable.
LEMMA KillsIsRedefines ==
  ASSUME IsProgram(prog), NEW s \in Stmt, NEW v
  PROVE  Kills(s, v) <=> Redefines(s, v)
BY DEF IsProgram, Kills, Redefines, Stmt

LEMMA InitInv == Init => Inv
<1> SUFFICES ASSUME Init PROVE Inv
  OBVIOUS
<1>1. TypeOK
  BY AffectsAssumption DEF Init, TypeOK, AssignStmts, Stmt
<1>2. todo = AssignStmts
  BY DEF Init, AssignStmts, Stmt
<1>3. 0 \notin AssignStmts
  BY <1>1 DEF AssignStmts, Stmt, TypeOK, IsProgram
<1>4. QED
  BY <1>1, <1>2, <1>3 DEF Init, Inv, NoAffectsInvented, WalkInv, WalkedInv, Walked

\* A new walk begins when the one before it has nothing pending.
LEMMA StartWalkStep == Inv /\ StartWalk => Inv'
<1> SUFFICES ASSUME Inv, StartWalk PROVE Inv'
  OBVIOUS
<1>1. PICK s \in todo : /\ todo' = todo \ {s}
                        /\ src' = s
                        /\ pending' = {s}
  BY DEF StartWalk
<1>2. prog' = prog /\ affects' = affects /\ reachable' = {} /\ pending = {}
  BY DEF StartWalk
<1>3. s \in AssignStmts /\ s # 0 /\ s \in Stmt
  BY DEF Inv, TypeOK, AssignStmts, Stmt, IsProgram
<1>4. Stmt' = Stmt /\ AssignStmts' = AssignStmts /\ AffectsPairs' = AffectsPairs
  BY <1>2 DEF Stmt, AssignStmts, AffectsPairs, DefinitionReaches, IsClosed, Redefines
<1>5. TypeOK'
  BY <1>1, <1>2, <1>3, <1>4 DEF Inv, TypeOK
<1>6. NoAffectsInvented'
  BY <1>2, <1>4 DEF Inv, NoAffectsInvented
<1>7. WalkInv'
  BY <1>1, <1>2 DEF WalkInv, Fresh
<1>8. WalkedInv'
  <2> SUFFICES ASSUME NEW a \in AssignStmts, Walked(a)' PROVE \A n \in Stmt : Inserted(a, n)
    BY <1>2, <1>4 DEF WalkedInv, Inserted
  <2>1. a # s /\ a \notin todo
    BY <1>1 DEF Walked
  <2>2. QED
    BY <1>2, <2>1 DEF Inv, WalkedInv, Walked
<1>9. QED
  BY <1>1, <1>5, <1>6, <1>7, <1>8 DEF Inv

LEMMA VisitStep == Inv /\ Visit => Inv'
<1> SUFFICES ASSUME Inv, Visit PROVE Inv'
  OBVIOUS
<1> DEFINE v == prog.assigned[src]
<1>1. PICK cur \in pending :
        /\ affects' = affects \cup Affected(cur, v)
        /\ pending' = (pending \ {cur}) \cup
             (IF ~(Found(cur) /\ Kills(cur, v)) THEN NewlyReached(cur) ELSE {})
        /\ reachable' = reachable \cup
             (IF ~(Found(cur) /\ Kills(cur, v)) THEN NewlyReached(cur) ELSE {})
        /\ prog' = prog /\ todo' = todo /\ src' = src
  BY DEF Visit
<1> DEFINE new == IF ~(Found(cur) /\ Kills(cur, v)) THEN NewlyReached(cur) ELSE {}
<1>2. /\ src \in AssignStmts /\ src # 0 /\ src \in Stmt
      /\ cur \in Stmt
      /\ prog.cfg \in [Stmt -> SUBSET Stmt]
      /\ IsProgram(prog)
  BY DEF Inv, TypeOK, IsProgram, Stmt, AssignStmts
<1>3. /\ Stmt' = Stmt /\ AssignStmts' = AssignStmts /\ AffectsPairs' = AffectsPairs
      /\ \A a : DefinitionReaches(a)' = DefinitionReaches(a)
      /\ \A n, w : Kills(n, w)' = Kills(n, w) /\ Redefines(n, w)' = Redefines(n, w)
  BY <1>1 DEF Stmt, AssignStmts, AffectsPairs, DefinitionReaches, IsClosed, Kills, Redefines
<1>4. new \subseteq Stmt
  BY <1>2 DEF NewlyReached
<1>5. \/ cur = src /\ ~Found(cur) /\ reachable = {} /\ pending = {src}
      \/ Found(cur) /\ pending \subseteq reachable /\ prog.cfg[src] \subseteq reachable
  BY <1>2 DEF Inv, WalkInv, Fresh, Found
<1>6. \A n : n \in DefinitionReaches(src) /\ n \in AssignStmts /\ v \in prog.uses[n] <=> <<src, n>> \in AffectsPairs
  BY <1>2 DEF AffectsPairs
<1>7. Found(cur) => cur \in DefinitionReaches(src)
  BY <1>2 DEF Inv, WalkInv, Found
<1>8. affects' \subseteq AffectsPairs
  BY <1>1, <1>6, <1>7 DEF Inv, NoAffectsInvented, Affected
<1>9. TypeOK'
  <2>1. affects' \subseteq AssignStmts \X AssignStmts
    BY <1>8 DEF AffectsPairs
  <2>2. pending' \subseteq Stmt /\ reachable' \subseteq Stmt
    BY <1>1, <1>4 DEF Inv, TypeOK
  <2>3. QED
    BY <1>1, <1>2, <1>3, <2>1, <2>2 DEF Inv, TypeOK
<1>10. WalkInv'
  <2>1. reachable' \subseteq DefinitionReaches(src)
    <3>1. new \subseteq DefinitionReaches(src)
      <4>1. IsClosed(src, DefinitionReaches(src))
        BY <1>2, ReachesIsClosed
      <4>2. Kills(cur, v) <=> Redefines(cur, v)
        BY <1>2, KillsIsRedefines
      <4>3. QED
        BY <1>5, <1>7, <4>1, <4>2 DEF IsClosed, NewlyReached
    <3>2. QED
      BY <1>1, <1>2, <3>1 DEF Inv, WalkInv
  <2>2. pending' \subseteq reachable' /\ prog.cfg[src] \subseteq reachable'
    BY <1>1, <1>5 DEF NewlyReached
  <2>3. ASSUME NEW n \in reachable' \ pending'
        PROVE  Expanded(src, n)' /\ Inserted(src, n)'
    <3>1. CASE n = cur
      <4>1. Found(cur)
        BY <1>1, <1>5, <3>1 DEF Found
      <4>2. Expanded(src, n)'
        BY <1>1, <3>1, <4>1 DEF Expanded, Kills, NewlyReached
      <4>3. Inserted(src, n)'
        BY <1>1, <1>3, <1>6, <3>1, <4>1 DEF Inserted, Affected
      <4>4. QED
        BY <4>2, <4>3
    <3>2. CASE n # cur
      <4>1. n \in reachable \ pending
        BY <1>1, <3>2
      <4>2. Expanded(src, n) /\ Inserted(src, n)
        BY <1>2, <4>1 DEF Inv, WalkInv
      <4>3. QED
        BY <1>1, <1>3, <4>2 DEF Expanded, Inserted
    <3>3. QED
      BY <3>1, <3>2
  <2>4. QED
    BY <1>1, <1>3, <2>1, <2>2, <2>3 DEF WalkInv
<1>11. WalkedInv'
  <2> SUFFICES ASSUME NEW a \in AssignStmts, Walked(a)', NEW n \in Stmt, <<a, n>> \in AffectsPairs
               PROVE  <<a, n>> \in affects'
    BY <1>3 DEF WalkedInv, Inserted
  <2>1. CASE a = src
    <3>1. pending' = {}
      BY <1>1, <2>1 DEF Walked
    <3>2. /\ prog.cfg[src] \subseteq reachable'
          /\ \A m \in reachable' : Expanded(src, m)' /\ Inserted(src, m)'
      BY <1>1, <1>2, <1>10, <3>1 DEF WalkInv, Fresh
    <3>3. reachable' \subseteq Stmt
      BY <1>3, <1>9 DEF TypeOK
    <3>4. IsClosed(src, reachable')
      <4>1. \A m \in reachable' : Kills(m, v) <=> Redefines(m, v)
        BY <1>2, <3>3, KillsIsRedefines
      <4>2. QED
        BY <1>1, <1>3, <3>2, <4>1 DEF IsClosed, Expanded
    <3>5. n \in reachable'
      BY <2>1, <3>3, <3>4 DEF AffectsPairs, DefinitionReaches
    <3>6. QED
      BY <1>1, <1>3, <2>1, <3>2, <3>5 DEF Inserted
  <2>2. CASE a # src
    <3>1. Walked(a)
      BY <1>1, <2>2 DEF Walked
    <3>2. QED
      BY <1>1, <3>1 DEF Inv, WalkedInv, Inserted
  <2>3. QED
    BY <2>1, <2>2
<1>12. QED
  BY <1>1, <1>3, <1>8, <1>9, <1>10, <1>11 DEF Inv, NoAffectsInvented
-----------------------------------------------------------------------------
LEMMA InvIsInductive == Inv /\ [Next]_vars => Inv'
<1>1. CASE Next
  BY <1>1, StartWalkStep, VisitStep DEF Next
<1>2. CASE UNCHANGED vars
  BY <1>2 DEF vars, Inv, TypeOK, NoAffectsInvented, WalkInv, WalkedInv, Fresh, Expanded, Inserted,
              Walked, AffectsPairs, DefinitionReaches, IsClosed, Kills, Redefines, Stmt, AssignStmts
<1>3. QED
  BY <1>1, <1>2

LEMMA InvHolds == Spec => []Inv
  BY InitInv, InvIsInductive, PTL DEF Spec

\* The walk only ever handles statements of the program.
THEOREM TypeCorrect == Spec => []TypeOK
<1>1. Inv => TypeOK
  BY DEF Inv
<1>2. QED
  BY <1>1, InvHolds, PTL

\* TraverseCFGFromSource inserts Affects(a, b) only when a definition of a's
\* variable reaches b, for every control flow graph and order of the walk.
THEOREM AffectsIsSound == Spec => []NoAffectsInvented
<1>1. Inv => NoAffectsInvented
  BY DEF Inv
<1>2. QED
  BY <1>1, InvHolds, PTL

\* ExtractAffects leaves no pair out, loops and self-affecting assignments
\* included.
THEOREM AffectsIsComplete == Spec => []NoAffectsMissed
<1>1. ASSUME Inv, Done
      PROVE  AffectsPairs \subseteq affects
  <2>1. \A a \in AssignStmts : Walked(a)
    BY <1>1 DEF Walked, Done
  <2>2. \A a, b : <<a, b>> \in AffectsPairs => a \in AssignStmts /\ b \in Stmt
    BY DEF AffectsPairs, AssignStmts
  <2>3. \A p \in AffectsPairs : p = <<p[1], p[2]>>
    BY DEF AffectsPairs
  <2>4. QED
    BY <1>1, <2>1, <2>2, <2>3 DEF Inv, WalkedInv, Inserted
<1>2. Inv => NoAffectsMissed
  BY <1>1 DEF NoAffectsMissed
<1>3. QED
  BY <1>2, InvHolds, PTL
-----------------------------------------------------------------------------
(***************************************************************************)
(* ExtractAffectsT, for every relation Affects: the loop over the growing  *)
(* map computes exactly its transitive closure.                            *)
(***************************************************************************)
StarReached(a) == Star!ReachableFrom(affects, Star!Stmt, a)

StarSearchInv ==
  searching =>
    /\ reachableT \subseteq StarReached(srcT)
    /\ \/ pendingT = {srcT} /\ reachableT = {}
       \/ /\ Star!Successors(affects, srcT) \subseteq reachableT
          /\ pendingT \subseteq reachableT
          /\ srcT \in keys
    /\ \A n \in reachableT \ pendingT : Star!Successors(affects, n) \subseteq reachableT

\* Every number below the counter is a key, and what it reaches is inserted.
StarCountedInv == \A a \in Nat : a < srcT => a \in keys /\ {a} \X StarReached(a) \subseteq affectsT

StarKeysInv == \A e \in affects : e[1] \in keys

StarInv ==
  /\ Star!TypeOK
  /\ Star!NoAffectsTInvented
  /\ StarSearchInv
  /\ StarCountedInv
  /\ StarKeysInv

LEMMA StarReachedIsClosed ==
  ASSUME Star!TypeOK, NEW a
  PROVE  /\ Star!Successors(affects, a) \subseteq StarReached(a)
         /\ \A m \in StarReached(a) : Star!Successors(affects, m) \subseteq StarReached(a)
<1>1. \A e \in affects : e[1] \in Star!Stmt /\ e[2] \in Star!Stmt
  BY DEF Star!TypeOK
<1>2. Star!Successors(affects, a) \subseteq StarReached(a)
  BY <1>1 DEF Star!Successors, StarReached, Star!ReachableFrom, Star!ClosedFrom
<1>3. ASSUME NEW m \in StarReached(a), NEW e \in affects, e[1] = m
      PROVE  e[2] \in StarReached(a)
  BY <1>1, <1>3 DEF StarReached, Star!ReachableFrom, Star!ClosedFrom
<1>4. QED
  BY <1>2, <1>3 DEF Star!Successors

\* Whatever holds the successors of a and of its own members holds all of them.
LEMMA StarReachedIsLeast ==
  ASSUME NEW a, NEW S \in SUBSET Star!Stmt, Star!Successors(affects, a) \subseteq S,
         \A m \in S : Star!Successors(affects, m) \subseteq S
  PROVE  StarReached(a) \subseteq S
<1>1. Star!ClosedFrom(affects, a, S)
  BY DEF Star!ClosedFrom, Star!Successors
<1>2. QED
  BY <1>1 DEF StarReached, Star!ReachableFrom

\* The module instantiates FiniteSets, too: it is the same cardinality.
LEMMA StarCardinality == Star!Cardinality(keys) = Cardinality(keys)
  BY DEF Star!Cardinality, Cardinality

LEMMA StarKeysAreFinite ==
  ASSUME Star!TypeOK
  PROVE  IsFiniteSet(keys) /\ Cardinality(keys) \in Nat /\ Cardinality(keys) <= MaxStmt + 1
<1>1. MaxStmt \in Nat
  BY AffectsAssumption
<1>2. IsFiniteSet(0..MaxStmt) /\ Cardinality(0..MaxStmt) = MaxStmt + 1
  BY <1>1, FS_Interval
<1>3. keys \in SUBSET (0..MaxStmt)
  BY DEF Star!TypeOK
<1>4. QED
  BY <1>2, <1>3, FS_Subset, FS_CardinalityType

LEMMA StarInitInv == Star!Init => StarInv
<1> SUFFICES ASSUME Star!Init PROVE StarInv
  OBVIOUS
<1>1. MaxStmt \in Nat /\ affects \subseteq Star!Stmt \X Star!Stmt
  BY AffectsAssumption DEF Star!Init, Star!Stmt
<1>2. Star!TypeOK
  <2>1. keys \subseteq 0..MaxStmt
    <3>1. \A e \in affects : e[1] \in 1..MaxStmt
      BY <1>1 DEF Star!Stmt
    <3>2. QED
      BY <1>1, <3>1 DEF Star!Init
  <2>2. QED
    BY <1>1, <2>1 DEF Star!Init, Star!TypeOK
<1>3. QED
  BY <1>2 DEF Star!Init, StarInv, Star!NoAffectsTInvented, StarSearchInv, StarCountedInv, StarKeysInv

LEMMA StarStartStep == StarInv /\ Star!StartSearch => StarInv'
<1> SUFFICES ASSUME StarInv, Star!StartSearch PROVE StarInv'
  OBVIOUS
<1> USE DEF Star!StartSearch
<1>1. MaxStmt \in Nat /\ srcT \in Nat
  BY AffectsAssumption DEF StarInv, Star!TypeOK
<1>2. srcT <= MaxStmt
  BY <1>1, StarKeysAreFinite, StarCardinality DEF StarInv
<1>3. Star!TypeOK'
  BY <1>1, <1>2 DEF StarInv, Star!TypeOK
<1>4. StarSearchInv'
  BY DEF StarSearchInv
<1>5. QED
  BY <1>3, <1>4 DEF StarInv, Star!NoAffectsTInvented, StarCountedInv, StarKeysInv, StarReached

LEMMA StarVisitStep == StarInv /\ Star!Visit => StarInv'
<1> SUFFICES ASSUME StarInv, Star!Visit PROVE StarInv'
  OBVIOUS
<1>1. PICK cur \in pendingT :
        /\ keys' = keys \cup {cur}
        /\ pendingT' = (pendingT \ {cur}) \cup (Star!Successors(affects, cur) \ reachableT)
        /\ reachableT' = reachableT \cup (Star!Successors(affects, cur) \ reachableT)
        /\ affects' = affects /\ srcT' = srcT /\ searching' = searching /\ affectsT' = affectsT
  BY DEF Star!Visit, Star!KeysAfterLookup, Star!NewlyReached
<1>2. Star!Successors(affects, cur) \subseteq Star!Stmt
  BY DEF StarInv, Star!TypeOK, Star!Successors
<1>3. Star!Stmt \subseteq 0..MaxStmt
  BY AffectsAssumption DEF Star!Stmt
<1>4. Star!TypeOK'
  BY <1>1, <1>2, <1>3 DEF StarInv, Star!TypeOK
<1>5. StarSearchInv'
  <2> SUFFICES ASSUME searching PROVE StarSearchInv'
    BY <1>1 DEF StarSearchInv
  <2>1. cur = srcT \/ cur \in StarReached(srcT)
    BY DEF StarInv, StarSearchInv
  <2>2. Star!Successors(affects, cur) \subseteq StarReached(srcT)
    BY <2>1, StarReachedIsClosed DEF StarInv
  <2>3. reachableT' \subseteq StarReached(srcT)
    BY <1>1, <2>2 DEF StarInv, StarSearchInv
  <2>4. /\ Star!Successors(affects, srcT) \subseteq reachableT'
        /\ pendingT' \subseteq reachableT'
        /\ srcT \in keys'
    BY <1>1 DEF StarInv, StarSearchInv
  <2>5. \A n \in reachableT' \ pendingT' : Star!Successors(affects, n) \subseteq reachableT'
    BY <1>1 DEF StarInv, StarSearchInv
  <2>6. QED
    BY <1>1, <2>3, <2>4, <2>5 DEF StarSearchInv, StarReached
<1>6. StarCountedInv' /\ StarKeysInv' /\ Star!NoAffectsTInvented'
  BY <1>1 DEF StarInv, StarCountedInv, StarKeysInv, Star!NoAffectsTInvented, StarReached
<1>7. QED
  BY <1>4, <1>5, <1>6 DEF StarInv

LEMMA StarEndStep == StarInv /\ Star!EndSearch => StarInv'
<1> SUFFICES ASSUME StarInv, Star!EndSearch PROVE StarInv'
  OBVIOUS
<1> USE DEF Star!EndSearch
<1>1. srcT \in Nat /\ MaxStmt \in Nat /\ srcT <= MaxStmt
  BY AffectsAssumption DEF StarInv, Star!TypeOK
<1>2. /\ reachableT \subseteq StarReached(srcT)
      /\ Star!Successors(affects, srcT) \subseteq reachableT
      /\ srcT \in keys
      /\ \A n \in reachableT : Star!Successors(affects, n) \subseteq reachableT
  BY DEF StarInv, StarSearchInv
<1>3. reachableT = StarReached(srcT)
  BY <1>2, StarReachedIsLeast DEF StarInv, Star!TypeOK
<1>4. srcT = 0 => reachableT = {}
  <2>1. srcT = 0 => Star!Successors(affects, srcT) = {}
    BY DEF StarInv, Star!TypeOK, Star!Successors, Star!Stmt
  <2>2. {} \in SUBSET Star!Stmt
    OBVIOUS
  <2>3. QED
    BY <1>3, <2>1, <2>2, StarReachedIsLeast
<1>5. affectsT' = affectsT \cup ({srcT} \X StarReached(srcT))
  BY <1>1, <1>3, <1>4 DEF Star!InsertedPairs, Star!Stmt
<1>6. Star!TypeOK'
  <2>1. Star!InsertedPairs \subseteq Star!Stmt \X Star!Stmt
    BY DEF StarInv, Star!TypeOK, Star!InsertedPairs
  <2>2. srcT + 1 \in Nat
    BY <1>1
  <2>3. QED
    BY <2>1, <2>2 DEF StarInv, Star!TypeOK
<1>7. Star!NoAffectsTInvented'
  <2>1. srcT \in Star!Stmt => {srcT} \X StarReached(srcT) \subseteq Star!TransitiveClosure(affects, Star!Stmt)
    BY DEF Star!TransitiveClosure, StarReached
  <2>2. srcT \notin Star!Stmt => {srcT} \X StarReached(srcT) = {}
    BY <1>1, <1>3, <1>4 DEF Star!Stmt
  <2>3. QED
    BY <1>5, <2>1, <2>2 DEF StarInv, Star!NoAffectsTInvented
<1>8. StarCountedInv'
  <2> SUFFICES ASSUME NEW a \in Nat, a < srcT'
               PROVE  a \in keys /\ {a} \X StarReached(a) \subseteq affectsT'
    BY DEF StarCountedInv, StarReached
  <2>1. CASE a = srcT
    BY <1>2, <1>5, <2>1
  <2>2. CASE a # srcT
    <3>1. a < srcT
      BY <1>1, <2>2
    <3>2. QED
      BY <1>5, <3>1 DEF StarInv, StarCountedInv
  <2>3. QED
    BY <2>1, <2>2
<1>9. StarSearchInv' /\ StarKeysInv'
  BY DEF StarInv, StarSearchInv, StarKeysInv
<1>10. QED
  BY <1>6, <1>7, <1>8, <1>9 DEF StarInv
\* When src < graph.size() fails, the size(d) keys 0, ..., src - 1 are all the
\* keys there are: no assignment has been left out, whatever their numbers.
LEMMA StarMissesNothing == StarInv /\ Star!Done => Star!NoAffectsTMissed
<1> SUFFICES ASSUME StarInv, Star!Done PROVE Star!TransitiveClosure(affects, Star!Stmt) \subseteq affectsT
  BY DEF Star!NoAffectsTMissed
<1>1. /\ IsFiniteSet(keys) /\ Cardinality(keys) \in Nat
      /\ srcT \in Nat /\ Cardinality(keys) <= srcT
  BY StarKeysAreFinite, StarCardinality DEF StarInv, Star!Done, Star!TypeOK
<1>2. 0..(srcT - 1) \in SUBSET keys
  BY <1>1 DEF StarInv, StarCountedInv
<1>3. Cardinality(0..(srcT - 1)) = srcT
  <2>1. 0 \in Int /\ srcT - 1 \in Int
    BY <1>1
  <2>2. Cardinality(0..(srcT - 1)) = IF 0 > srcT - 1 THEN 0 ELSE (srcT - 1) - 0 + 1
    BY <2>1, FS_Interval
  <2>3. QED
    BY <1>1, <2>2
<1>4. Cardinality(0..(srcT - 1)) <= Cardinality(keys) /\
      (Cardinality(keys) = Cardinality(0..(srcT - 1)) => keys = 0..(srcT - 1))
  BY <1>1, <1>2, FS_Subset
<1>5. keys = 0..(srcT - 1)
  BY <1>1, <1>3, <1>4
<1>6. ASSUME NEW a \in Star!Stmt
      PROVE  {a} \X StarReached(a) \subseteq affectsT
  <2>1. CASE a < srcT
    BY <2>1 DEF StarInv, StarCountedInv, Star!Stmt
  <2>2. CASE ~(a < srcT)
    <3>1. a \notin keys
      BY <1>1, <1>5, <2>2 DEF Star!Stmt
    <3>2. Star!Successors(affects, a) = {}
      BY <3>1 DEF StarInv, StarKeysInv, Star!Successors
    <3>3. {} \in SUBSET Star!Stmt
      OBVIOUS
    <3>4. StarReached(a) = {}
      BY <3>2, <3>3, StarReachedIsLeast
    <3>5. QED
      BY <3>4
  <2>3. QED
    BY <2>1, <2>2
<1>7. QED
  BY <1>6 DEF Star!TransitiveClosure, StarReached

LEMMA StarInvIsInductive == StarInv /\ [Star!Next]_(Star!vars) => StarInv'
<1>1. CASE Star!Next
  BY <1>1, StarStartStep, StarVisitStep, StarEndStep DEF Star!Next
<1>2. CASE UNCHANGED Star!vars
  BY <1>2 DEF Star!vars, StarInv, Star!TypeOK, Star!NoAffectsTInvented, StarSearchInv,
              StarCountedInv, StarKeysInv, StarReached
<1>3. QED
  BY <1>1, <1>2

LEMMA StarInvHolds == Star!Spec => []StarInv
  BY StarInitInv, StarInvIsInductive, PTL DEF Star!Spec

\* GetReachableNodes never leaves the statements of the program, although it
\* also starts from numbers that are not assignments.
THEOREM AffectsTTypeCorrect == Star!Spec => []Star!TypeOK
<1>1. StarInv => Star!TypeOK
  BY DEF StarInv
<1>2. QED
  BY <1>1, StarInvHolds, PTL

\* Every Affects* pair is a chain of Affects pairs.
THEOREM AffectsTIsSound == Star!Spec => []Star!NoAffectsTInvented
<1>1. StarInv => Star!NoAffectsTInvented
  BY DEF StarInv
<1>2. QED
  BY <1>1, StarInvHolds, PTL

\* The loop over the map that the searches grow leaves no chain out.
THEOREM AffectsTIsComplete == Star!Spec => []Star!NoAffectsTMissed
<1>1. StarInv => Star!NoAffectsTMissed
  BY StarMissesNothing DEF Star!NoAffectsTMissed
<1>2. QED
  BY <1>1, StarInvHolds, PTL
-----------------------------------------------------------------------------
(***************************************************************************)
(* The two extractions one after the other.  The second one starts when    *)
(* the first is done, so that Affects does not change under it, and its    *)
(* own invariant holds of that relation.                                   *)
(***************************************************************************)
NotBegun ==
  /\ keys = {} /\ srcT = 0 /\ searching = FALSE
  /\ pendingT = {} /\ reachableT = {} /\ affectsT = {}

ExtractInv ==
  /\ Inv
  /\ prog.last <= MaxStmt
  /\ extractingT \in BOOLEAN
  /\ IF extractingT THEN Done /\ StarInv ELSE NotBegun

\* Every step is a step of ExtractAffects or leaves its state alone.
LEMMA ExtractStepIsStep == [ExtractNext]_<<vars, extractingT, starVars>> => [Next]_vars
<1>1. ExtractAffects => Next
  BY DEF ExtractAffects
<1>2. BuildGraph => UNCHANGED vars
  BY DEF BuildGraph
<1>3. ExtractAffectsT => UNCHANGED vars
  BY DEF ExtractAffectsT, Star!Next, Star!StartSearch, Star!Visit, Star!EndSearch, vars
<1>4. QED
  BY <1>1, <1>2, <1>3 DEF ExtractNext

LEMMA ProgramIsConstant == [Next]_vars => prog' = prog
  BY DEF Next, StartWalk, Visit, vars

LEMMA ExtractInitInv == ExtractInit => ExtractInv
<1> SUFFICES ASSUME ExtractInit PROVE ExtractInv
  OBVIOUS
<1>1. Inv
  BY InitInv DEF ExtractInit
<1>2. prog.last <= MaxStmt
  BY AffectsAssumption DEF ExtractInit, Init
<1>3. QED
  BY <1>1, <1>2 DEF ExtractInit, ExtractInv, NotBegun

\* A walk that can go on is not done.
LEMMA ExtractAffectsStep == ExtractInv /\ ExtractAffects => ExtractInv'
<1> SUFFICES ASSUME ExtractInv, ExtractAffects PROVE ExtractInv'
  OBVIOUS
<1>1. Next /\ extractingT' = extractingT /\ starVars' = starVars
  BY DEF ExtractAffects
<1>2. ~Done
  BY <1>1 DEF Next, StartWalk, Visit, Done
<1>3. ~extractingT /\ NotBegun
  BY <1>2 DEF ExtractInv
<1>4. Inv' /\ prog' = prog
  BY <1>1, InvIsInductive, ProgramIsConstant DEF ExtractInv
<1>5. NotBegun'
  BY <1>1, <1>3 DEF NotBegun, starVars
<1>6. QED
  BY <1>1, <1>3, <1>4, <1>5 DEF ExtractInv

\* The keys that the map starts with are statements.
LEMMA BuildGraphStep == ExtractInv /\ BuildGraph => ExtractInv'
<1> SUFFICES ASSUME ExtractInv, BuildGraph PROVE ExtractInv'
  OBVIOUS
<1>1. /\ ~extractingT /\ NotBegun /\ Inv /\ prog.last <= MaxStmt
      /\ Done /\ extractingT' = TRUE /\ keys' = {e[1] : e \in affects}
      /\ UNCHANGED <<vars, srcT, searching, pendingT, reachableT, affectsT>>
  BY DEF ExtractInv, BuildGraph
<1>2. Inv' /\ prog' = prog /\ affects' = affects /\ Done'
  <2>1. [Next]_vars
    BY <1>1
  <2>2. QED
    BY <1>1, <2>1, InvIsInductive DEF vars, Done
<1>3. \A e \in affects : e[1] \in 1..MaxStmt /\ e[2] \in 1..MaxStmt
  BY <1>1, AffectsAssumption DEF Inv, TypeOK, AssignStmts, Stmt, IsProgram
<1>4. affects \subseteq (1..MaxStmt) \X (1..MaxStmt)
  BY <1>1, <1>3 DEF Inv, TypeOK
<1>5. Star!TypeOK'
  <2>1. keys' \subseteq 0..MaxStmt
    BY <1>1, <1>3, AffectsAssumption
  <2>2. QED
    BY <1>1, <1>2, <1>4, <2>1 DEF NotBegun, Star!TypeOK, Star!Stmt
<1>6. StarInv'
  BY <1>1, <1>2, <1>5 DEF NotBegun, StarInv, Star!NoAffectsTInvented, StarSearchInv,
                          StarCountedInv, StarKeysInv
<1>7. QED
  BY <1>1, <1>2, <1>6 DEF ExtractInv

LEMMA ExtractAffectsTStep == ExtractInv /\ ExtractAffectsT => ExtractInv'
<1> SUFFICES ASSUME ExtractInv, ExtractAffectsT PROVE ExtractInv'
  OBVIOUS
<1>1. /\ extractingT /\ Inv /\ prog.last <= MaxStmt /\ Done /\ StarInv
      /\ Star!Next
      /\ UNCHANGED <<prog, todo, src, pending, reachable, extractingT>>
  BY DEF ExtractInv, ExtractAffectsT
<1>2. StarInv'
  BY <1>1, StarInvIsInductive
<1>3. [Next]_vars
  BY ExtractStepIsStep DEF ExtractNext
<1>4. Inv' /\ prog' = prog /\ Done'
  BY <1>1, <1>3, InvIsInductive, ProgramIsConstant DEF Done
<1>5. QED
  BY <1>1, <1>2, <1>4 DEF ExtractInv

LEMMA ExtractInvIsInductive ==
  ExtractInv /\ [ExtractNext]_<<vars, extractingT, starVars>> => ExtractInv'
<1>1. CASE ExtractNext
  BY <1>1, ExtractAffectsStep, BuildGraphStep, ExtractAffectsTStep DEF ExtractNext
<1>2. CASE UNCHANGED <<vars, extractingT, starVars>>
  <2> SUFFICES ASSUME ExtractInv PROVE ExtractInv'
    OBVIOUS
  <2>1. Inv' /\ prog' = prog /\ (Done => Done') /\ (NotBegun => NotBegun') /\ extractingT' = extractingT
    BY <1>2, InvIsInductive, ProgramIsConstant DEF ExtractInv, Done, vars, NotBegun, starVars
  <2>2. StarInv => StarInv'
    <3>1. UNCHANGED Star!vars
      BY <1>2 DEF vars, starVars, Star!vars
    <3>2. QED
      BY <3>1, StarInvIsInductive
  <2>3. QED
    BY <2>1, <2>2 DEF ExtractInv
<1>3. QED
  BY <1>1, <1>2

LEMMA ExtractInvHolds == ExtractSpec => []ExtractInv
  BY ExtractInitInv, ExtractInvIsInductive, PTL DEF ExtractSpec

\* Paths between statements of the program do not leave it.
LEMMA ClosureWithinProgram ==
  ASSUME NEW m \in Nat, NEW n \in Nat, n <= m, NEW edges \in SUBSET ((1..n) \X (1..n))
  PROVE  TransitiveClosure(edges, 1..n) = TransitiveClosure(edges, 1..m)
<1>1. \A e \in edges : e[1] \in 1..n /\ e[2] \in 1..n
  OBVIOUS
<1>2. 1..n \subseteq 1..m
  OBVIOUS
<1>3. ASSUME NEW a
      PROVE  ReachableFrom(edges, 1..n, a) = ReachableFrom(edges, 1..m, a)
  <2>1. \A S \in SUBSET (1..m) : ClosedFrom(edges, a, S) => ClosedFrom(edges, a, S \cap (1..n))
    BY <1>1 DEF ClosedFrom
  <2>2. ClosedFrom(edges, a, 1..n)
    BY <1>1 DEF ClosedFrom
  <2>3. \A S \in SUBSET (1..m) : S \cap (1..n) \in SUBSET (1..n)
    OBVIOUS
  <2>4. ReachableFrom(edges, 1..n, a) \subseteq ReachableFrom(edges, 1..m, a)
    BY <1>2, <2>1, <2>3 DEF ReachableFrom
  <2>5. ReachableFrom(edges, 1..m, a) \subseteq ReachableFrom(edges, 1..n, a)
    BY <1>2, <2>2 DEF ReachableFrom
  <2>6. QED
    BY <2>4, <2>5
<1>4. ASSUME NEW a \in (1..m) \ (1..n)
      PROVE  ReachableFrom(edges, 1..m, a) = {}
  <2>1. ClosedFrom(edges, a, {})
    BY <1>1, <1>4 DEF ClosedFrom
  <2>2. QED
    BY <2>1 DEF ReachableFrom
<1>5. QED
  BY <1>2, <1>3, <1>4 DEF TransitiveClosure

\* ExtractAffectsT, running on the Affects relation that ExtractAffects has
\* left, inserts chains of its pairs only and, when it returns, all of them,
\* for every program.
THEOREM ClosureOfExtractedAffects == ExtractSpec => []AffectsTIsClosure
<1>1. ASSUME ExtractInv
      PROVE  AffectsTIsClosure
  <2>1. CASE ~extractingT
    BY <1>1, <2>1 DEF ExtractInv, NotBegun, AffectsTIsClosure, Extracted
  <2>2. CASE extractingT
    <3>1. Inv /\ StarInv /\ prog.last <= MaxStmt
      BY <1>1, <2>2 DEF ExtractInv
    <3>2. TransitiveClosure(affects, Stmt) = TransitiveClosure(affects, 1..MaxStmt)
      <4>1. prog.last \in Nat /\ MaxStmt \in Nat
        BY <3>1, AffectsAssumption DEF Inv, TypeOK, IsProgram
      <4>2. affects \in SUBSET ((1..prog.last) \X (1..prog.last))
        BY <3>1 DEF Inv, TypeOK, AssignStmts, Stmt
      <4>3. QED
        BY <3>1, <4>1, <4>2, ClosureWithinProgram DEF Stmt
    <3>3. affectsT \subseteq TransitiveClosure(affects, 1..MaxStmt)
      BY <3>1 DEF StarInv, Star!NoAffectsTInvented, Star!Stmt,
                  Star!TransitiveClosure, Star!ReachableFrom, Star!ClosedFrom,
                  TransitiveClosure, ReachableFrom, ClosedFrom
    <3>4. Star!Done => TransitiveClosure(affects, 1..MaxStmt) \subseteq affectsT
      BY <3>1, StarMissesNothing DEF Star!NoAffectsTMissed, Star!Stmt,
                  Star!TransitiveClosure, Star!ReachableFrom, Star!ClosedFrom,
                  TransitiveClosure, ReachableFrom, ClosedFrom
    <3>5. QED
      BY <3>2, <3>3, <3>4 DEF AffectsTIsClosure, Extracted
  <2>3. QED
    BY <2>1, <2>2
<1>2. QED
  BY <1>1, ExtractInvHolds, PTL

\* The extraction of Affects* does not disturb that of Affects: the two
\* together are a behaviour of AffectsHandler.
THEOREM ExtractionImplementsAffects == ExtractSpec => Spec
<1>1. ExtractInit => Init
  BY DEF ExtractInit
<1>2. QED
  BY <1>1, ExtractStepIsStep, PTL DEF ExtractSpec, Spec
=============================================================================
