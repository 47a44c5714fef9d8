----------------------------- MODULE MCAccounts -----------------------------
(* Model of Accounts for TLC: a registered user and one to come, a code    *)
(* and an invitation of one use each and one task, all amounts 1.          *)
EXTENDS Accounts, TLC

CONSTANTS u1, u2, w1, w2

OneUse == [i \in Items |-> 1]

Alike == Permutations({w1, w2})
=============================================================================
