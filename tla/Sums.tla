-------------------------------- MODULE Sums --------------------------------
(* Adding up amounts.  The sum of a function with values in Nat over a      *)
(* finite set is the number of units it stands for, one pair each, which    *)
(* makes facts about sums facts about cardinalities.                        *)
EXTENDS Naturals, FiniteSets

Units(f, S) == UNION {{x} \X (1..f[x]) : x \in S}
Sum(f, S) == Cardinality(Units(f, S))
=============================================================================
