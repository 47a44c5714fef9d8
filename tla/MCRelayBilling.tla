--------------------------- MODULE MCRelayBilling ---------------------------
(* Model of RelayBilling for TLC.  Two requests share a limited key:       *)
(* wallet, key and subscription are all contended.                         *)
EXTENDS RelayBilling, TLC

CONSTANTS r1, r2, t1

SharedKey  == r1 :> t1 @@ r2 :> t1
Remains1   == t1 :> 3
=============================================================================
