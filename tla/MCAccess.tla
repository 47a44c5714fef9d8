------------------------------ MODULE MCAccess ------------------------------
(* Model of Access for TLC: two requests at a time on two identifiers of   *)
(* each kind, with lifetimes that the clocks outrun and limits that the    *)
(* requests reach.                                                         *)
EXTENDS Access, TLC

Clocks == [TF |-> 3, PK |-> 2, EC |-> 3, SI |-> 2, CO |-> 3]
Budgets == [TF |-> 5, PK |-> 5, EC |-> 4, SI |-> 3, RN |-> 6, CO |-> 6]
Symmetry == Permutations(Workers) \cup Permutations(Ids)
=============================================================================
