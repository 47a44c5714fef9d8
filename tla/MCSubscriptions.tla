-------------------------- MODULE MCSubscriptions --------------------------
(* Model of Subscriptions for TLC: plans that grant a group, a pool, or    *)
(* both, for a while or for ever.                                          *)
EXTENDS Subscriptions

CONSTANTS g1, g2

GroupOnly == [group |-> TRUE, quota |-> FALSE]
Combo     == [group |-> TRUE, quota |-> TRUE]
QuotaOnly == [group |-> FALSE, quota |-> TRUE]

TwoGroups == {[type |-> Combo, group |-> g1, timed |-> TRUE],
              [type |-> GroupOnly, group |-> g2, timed |-> TRUE],
              [type |-> QuotaOnly, group |-> None, timed |-> FALSE]}
=============================================================================
