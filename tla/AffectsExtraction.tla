------------------------- MODULE AffectsExtraction --------------------------
(***************************************************************************)
(* AffectsHandler as DesignExtractor calls it: ExtractAffects, and when it *)
(* has returned ExtractAffectsT, which builds its graph from the Affects   *)
(* relation that the PKB then holds.                                       *)
(***************************************************************************)
EXTENDS AffectsHandler, Reachability

VARIABLES extractingT, keys, srcT, searching, pendingT, reachableT, affectsT

starVars == <<keys, srcT, searching, pendingT, reachableT, affectsT>>

Star == INSTANCE AffectsTHandler
          WITH src <- srcT, pending <- pendingT, reachable <- reachableT

ExtractInit ==
  /\ Init
  /\ extractingT = FALSE
  /\ keys = {} /\ srcT = 0 /\ searching = FALSE
  /\ pendingT = {} /\ reachableT = {} /\ affectsT = {}

ExtractAffects ==
  /\ Next
  /\ UNCHANGED <<extractingT, starVars>>

BuildGraph ==
  /\ Done /\ ~extractingT
  /\ extractingT' = TRUE
  /\ keys' = {e[1] : e \in affects}
  /\ UNCHANGED <<vars, srcT, searching, pendingT, reachableT, affectsT>>

ExtractAffectsT ==
  /\ extractingT
  /\ Star!Next
  /\ UNCHANGED <<prog, todo, src, pending, reachable, extractingT>>

ExtractNext == ExtractAffects \/ BuildGraph \/ ExtractAffectsT

ExtractSpec == ExtractInit /\ [][ExtractNext]_<<vars, extractingT, starVars>>

\* The extractor is one thread that is never blocked.
FairExtractSpec == ExtractSpec /\ WF_<<vars, extractingT, starVars>>(ExtractNext)

Extracted == extractingT /\ Star!Done
-----------------------------------------------------------------------------
\* Affects* holds only pairs that a chain of the pairs in Affects joins, and
\* at the end all of them: although the loop over the sources is bounded by
\* the size of a map keyed by statement numbers, which grows by the lookups,
\* and the graph is that of the finished Affects relation.
AffectsTIsClosure ==
  /\ affectsT # {} => affectsT \subseteq TransitiveClosure(affects, Stmt)
  /\ Extracted => TransitiveClosure(affects, Stmt) \subseteq affectsT

\* Both loops end, on graphs with cycles and with a bound that grows.
ExtractionEnds == <>Extracted
=============================================================================
