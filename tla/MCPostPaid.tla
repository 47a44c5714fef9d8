----------------------------- MODULE MCPostPaid -----------------------------
(* Model of PostPaid for TLC: two groups with different prices, a wallet   *)
(* and a subscription that do not cover every request.                     *)
EXTENDS PostPaid, TLC

CONSTANTS g1, g2

Prices == g1 :> 1 @@ g2 :> 2
=============================================================================
