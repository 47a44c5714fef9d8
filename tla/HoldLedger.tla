----------------------------- MODULE HoldLedger -----------------------------
(***************************************************************************)
(* What the relay's billing promises about a wallet: a request may take a  *)
(* hold only while the wallet covers it, and a hold is closed at most once,*)
(* giving back the hold less the charge.  The wallet moves in no other     *)
(* way, deposits apart.  A hold that is never closed (the server dies, the *)
(* database fails) stays taken.  RelayBilling implements this ledger.      *)
(***************************************************************************)
EXTENDS Integers

CONSTANT Requests

VARIABLES balance,   \* Int, the wallet
          hold,      \* [Requests -> {"none", "open", "closed"}]
          amount,    \* [Requests -> Nat], what the hold took
          paidIn     \* Nat, deposits so far

hlVars == <<balance, hold, amount, paidIn>>

HLInit == /\ balance \in Int
          /\ hold = [r \in Requests |-> "none"]
          /\ amount = [r \in Requests |-> 0]
          /\ paidIn = 0

\* The hold taken is covered by the wallet.
Open(r) == /\ hold[r] = "none"
           /\ hold' = [hold EXCEPT ![r] = "open"]
           /\ \A q \in Requests \ {r} : amount'[q] = amount[q]
           /\ 0 <= amount'[r] /\ amount'[r] <= balance
           /\ balance' = balance - amount'[r]
           /\ UNCHANGED paidIn

\* The charge, what is kept of the hold, may exceed it but is not negative.
Close(r) == /\ hold[r] = "open"
            /\ hold' = [hold EXCEPT ![r] = "closed"]
            /\ balance' <= balance + amount[r]
            /\ UNCHANGED <<amount, paidIn>>

Deposit == /\ paidIn' > paidIn
           /\ balance' - balance = paidIn' - paidIn
           /\ UNCHANGED <<hold, amount>>

HLNext == Deposit \/ \E r \in Requests : Open(r) \/ Close(r)

HLSpec == HLInit /\ [][HLNext]_hlVars
=============================================================================
