--------------------------- MODULE AffectsProgram ---------------------------
(***************************************************************************)
(* What the PKB and the control flow graph hold of a program when          *)
(* AffectsHandler (design_extractor/handler/AffectsHandler.cpp) runs.      *)
(***************************************************************************)
EXTENDS Integers, FiniteSets

CONSTANTS
  Variable,
  MaxStmt,     \* the longest program
  Programs

\* For each statement its successors, its kind, what it modifies and uses.
IsProgram(p) ==
  /\ p.last \in Nat
  /\ p.cfg \in [1..p.last -> SUBSET (1..p.last)]
  /\ p.kind \in [1..p.last -> {"assign", "read", "print", "call", "while", "if"}]
  /\ p.modifies \in [1..p.last -> SUBSET Variable]
  /\ p.uses \in [1..p.last -> SUBSET Variable]
  /\ \A s \in 1..p.last : p.kind[s] = "print" => p.modifies[s] = {}
  /\ p.assigned \in [{s \in 1..p.last : p.kind[s] = "assign"} -> Variable]
  /\ \A s \in DOMAIN p.assigned : p.modifies[s] = {p.assigned[s]}

ASSUME AffectsAssumption ==
  /\ MaxStmt \in Nat
  /\ \A p \in Programs : IsProgram(p) /\ p.last <= MaxStmt
=============================================================================
