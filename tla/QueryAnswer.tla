---------------------------- MODULE QueryAnswer ----------------------------
(***************************************************************************)
(* What the query processor promises: a query gets one answer, the one its *)
(* clauses and its selection mean, and nothing else about how, or in which *)
(* order, the clauses were evaluated can be seen.                          *)
(***************************************************************************)
CONSTANTS
  Query,       \* the queries that may be asked
  Correct,     \* Correct[q] is the right answer to q
  NoAnswer     \* what stands for the answer until it is given

VARIABLES query, answer

Init == query \in Query /\ answer = NoAnswer

GiveAnswer ==
  /\ answer = NoAnswer
  /\ answer' = Correct[query]
  /\ UNCHANGED query

SafeSpec == Init /\ [][GiveAnswer]_<<query, answer>>

Spec == SafeSpec /\ WF_<<query, answer>>(GiveAnswer)
=============================================================================
