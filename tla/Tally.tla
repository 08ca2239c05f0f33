------------------------------- MODULE Tally --------------------------------
(***************************************************************************)
(* The sum of a counter over its slots, taken as the number of units       *)
(* counted: one pair <<slot, n>> for every increment of the slot.  Facts   *)
(* about sums are then facts about finite sets.                            *)
(***************************************************************************)
EXTENDS Naturals, FiniteSets

Units(f, S) == UNION {{c} \X (1..f[c]) : c \in S}

SumOver(f, S) == Cardinality(Units(f, S))
=============================================================================
