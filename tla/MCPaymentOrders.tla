-------------------------- MODULE MCPaymentOrders --------------------------
(* Model of PaymentOrders for TLC: three handlers on two instances, so that *)
(* both the lock of one process and the row shared by two are contended.   *)
EXTENDS PaymentOrders, TLC

CONSTANTS w1, w2, w3, i1, i2

Spread3 == w1 :> i1 @@ w2 :> i1 @@ w3 :> i2
Spread2 == w1 :> i1 @@ w2 :> i2
=============================================================================
