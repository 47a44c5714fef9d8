------------------------- MODULE RelayBillingProofs -------------------------
(* Proofs about RelayBilling for any number of requests, keys, channels,   *)
(* top-ups, database errors and crashes.                                   *)
EXTENDS RelayBilling, TLAPS, FiniteSetTheorems, FunctionTheorems

ConstantFacts == /\ TokenOf \in [Requests -> Tokens] /\ Unlimited \subseteq Tokens
                 /\ Estimates \subseteq Nat /\ Costs \subseteq Nat

\* What the proofs use of the assumptions.
LEMMA ConstantsTyped == ConstantFacts
BY TokensAssumption, AmountsAssumption DEF ConstantFacts

\* No request has a hold at the start.
LEMMA InitRelayInv == Init => RelayInv
<1> SUFFICES ASSUME Init PROVE RelayInv
  OBVIOUS
<1>1. TypeOK
  BY StartAssumption, NotCachedAssumption DEF Init, TypeOK, Preferences, Phases
<1>2. \A r \in Requests : HoldOf(r)
  BY DEF Init, HoldOf
<1> QED
  BY <1>1, <1>2 DEF RelayInv

\* What is taken from or given back to a key leaves integers.
LEMMA TokenLessType ==
  ASSUME TypeOK, NEW r \in Requests, NEW n \in Int
  PROVE  /\ TokenLess(r, n) \in [Tokens -> Int]
         /\ \A t \in Tokens :
              TokenLess(r, n)[t] = IF t = TokenOf[r] /\ Limited(r) THEN remain[t] - n ELSE remain[t]
BY ConstantsTyped DEF TypeOK, TokenLess, Limited, ConstantFacts

\* A request's own steps keep every request's hold in its place.
LEMMA RequestStep ==
  ASSUME NEW r \in Requests, RelayInv, Authenticate(r) \/ Serve(r) \/ Fail(r)
  PROVE  RelayInv'
<1> USE DEF userVars, tokVars, subVars, reqVars, envVars
<1>0. TypeOK /\ \A q \in Requests : HoldOf(q)
  BY DEF RelayInv
<1> SUFFICES TypeOK' /\ \A q \in Requests : HoldOf(q)'
  BY DEF RelayInv
<1> USE <1>0
<1>1. CASE Authenticate(r)
  <2>1. TypeOK'
    BY <1>1, ConstantsTyped DEF TypeOK, ConstantFacts, Phases, Limited, GoTo, Authenticate
  <2>2. \A q \in Requests : HoldOf(q)'
    BY <1>1 DEF TypeOK, HoldOf, GoTo, Authenticate
  <2> QED
    BY <2>1, <2>2
<1>2. CASE \E e \in Estimates : CheckQuota(r, e)
  <2>1. TypeOK'
    BY <1>2, ConstantsTyped DEF TypeOK, ConstantFacts, Phases, Limited, GoTo, CheckQuota, Reject
  <2>2. \A q \in Requests : HoldOf(q)'
    BY <1>2 DEF TypeOK, HoldOf, GoTo, CheckQuota, Reject
  <2> QED
    BY <2>1, <2>2
<1>3. CASE HoldTx(r)
  <2>1. TypeOK'
    BY <1>3, ConstantsTyped DEF TypeOK, ConstantFacts, Phases, Limited, GoTo, HoldTx, Reject, UserCovers, TokenCovers, TokenLess
  <2>2. \A q \in Requests : HoldOf(q)'
    BY <1>3 DEF TypeOK, HoldOf, GoTo, HoldTx, Reject, UserCovers, TokenCovers, TokenLess
  <2> QED
    BY <2>1, <2>2
<1>4. CASE HoldTxFails(r)
  <2>1. TypeOK'
    BY <1>4, ConstantsTyped DEF TypeOK, ConstantFacts, Phases, Limited, GoTo, HoldTxFails, Reject, DBError
  <2>2. \A q \in Requests : HoldOf(q)'
    BY <1>4 DEF TypeOK, HoldOf, GoTo, HoldTxFails, Reject, DBError
  <2> QED
    BY <2>1, <2>2
<1>5. CASE ChannelFails(r)
  <2>1. TypeOK'
    BY <1>5, ConstantsTyped DEF TypeOK, ConstantFacts, Phases, Limited, GoTo, ChannelFails
  <2>2. \A q \in Requests : HoldOf(q)'
    BY <1>5 DEF TypeOK, HoldOf, GoTo, ChannelFails
  <2> QED
    BY <2>1, <2>2
<1>6. CASE ReturnUnsettled(r)
  <2>1. TypeOK'
    BY <1>6, ConstantsTyped DEF TypeOK, ConstantFacts, Phases, Limited, GoTo, ReturnUnsettled
  <2>2. \A q \in Requests : HoldOf(q)'
    BY <1>6 DEF TypeOK, HoldOf, GoTo, ReturnUnsettled
  <2> QED
    BY <2>1, <2>2
<1>7. CASE \E c \in Costs : UpstreamAnswers(r, c)
  <2>1. TypeOK'
    BY <1>7, ConstantsTyped DEF TypeOK, ConstantFacts, Phases, Limited, GoTo, UpstreamAnswers
  <2>2. \A q \in Requests : HoldOf(q)'
    BY <1>7 DEF TypeOK, HoldOf, GoTo, UpstreamAnswers
  <2> QED
    BY <2>1, <2>2
<1>8. CASE ReadPreference(r)
  <2>1. TypeOK'
    BY <1>8, ConstantsTyped DEF TypeOK, ConstantFacts, Phases, Limited, GoTo, ReadPreference
  <2>2. \A q \in Requests : HoldOf(q)'
    BY <1>8 DEF TypeOK, HoldOf, GoTo, ReadPreference
  <2> QED
    BY <2>1, <2>2
<1>9. CASE AskWallet(r)
  <2>1. TypeOK'
    BY <1>9, ConstantsTyped DEF TypeOK, ConstantFacts, Phases, Limited, GoTo, AskWallet
  <2>2. \A q \in Requests : HoldOf(q)'
    BY <1>9 DEF TypeOK, HoldOf, GoTo, AskWallet
  <2> QED
    BY <2>1, <2>2
<1>10. CASE AskSubscription(r)
  <2>1. TypeOK'
    BY <1>10, ConstantsTyped DEF TypeOK, ConstantFacts, Phases, Limited, GoTo, AskSubscription
  <2>2. \A q \in Requests : HoldOf(q)'
    BY <1>10 DEF TypeOK, HoldOf, GoTo, AskSubscription
  <2> QED
    BY <2>1, <2>2
<1>11. CASE PostConsumeQuota(r)
  <2>0. Delta(r) \in Int /\ TokenLess(r, Delta(r)) \in [Tokens -> Int]
    BY TokenLessType DEF TypeOK, Delta
  <2>1. cost[r] \in Nat /\ TokenOf[r] \in Tokens
    BY ConstantsTyped DEF TypeOK, ConstantFacts
  <2>2. /\ quota' = quota - Delta(r) /\ usedQuota' = usedQuota + cost[r]
        /\ remain' = TokenLess(r, Delta(r))
        /\ tokenUsed' = [tokenUsed EXCEPT ![TokenOf[r]] = @ + cost[r]]
    BY <1>11 DEF PostConsumeQuota
  <2>3. quota' \in Int /\ usedQuota' \in Nat /\ remain' \in [Tokens -> Int]
    BY <2>0, <2>1, <2>2 DEF TypeOK
  <2>4. tokenUsed' \in [Tokens -> Nat]
    BY <2>1, <2>2 DEF TypeOK
  <2>5. TypeOK'
    BY <1>11, <2>3, <2>4 DEF TypeOK, Phases, GoTo, PostConsumeQuota, Settled
  <2>6. \A q \in Requests : HoldOf(q)'
    BY <1>11 DEF TypeOK, HoldOf, GoTo, PostConsumeQuota, Settled, Delta, TokenLess
  <2> QED
    BY <2>5, <2>6
<1>12. CASE PostConsumeFails(r)
  <2>1. TypeOK'
    BY <1>12, ConstantsTyped DEF TypeOK, ConstantFacts, Phases, Limited, GoTo, PostConsumeFails, DBError, Settled
  <2>2. \A q \in Requests : HoldOf(q)'
    BY <1>12 DEF TypeOK, HoldOf, GoTo, PostConsumeFails, DBError, Settled
  <2> QED
    BY <2>1, <2>2
<1>13. CASE SubRefund(r)
  <2>0. -pre[r] \in Int /\ TokenLess(r, -pre[r]) \in [Tokens -> Int]
    BY TokenLessType DEF TypeOK
  <2>1. TypeOK'
    BY <1>13, <2>0, ConstantsTyped DEF TypeOK, ConstantFacts, Phases, GoTo, SubRefund, GiveBack
  <2>2. \A q \in Requests : HoldOf(q)'
    BY <1>13 DEF TypeOK, HoldOf, GoTo, SubRefund, GiveBack, TokenLess
  <2> QED
    BY <2>1, <2>2
<1>14. CASE SubRefundFails(r)
  <2>1. TypeOK'
    BY <1>14, ConstantsTyped DEF TypeOK, ConstantFacts, Phases, Limited, GoTo, SubRefundFails, DBError
  <2>2. \A q \in Requests : HoldOf(q)'
    BY <1>14 DEF TypeOK, HoldOf, GoTo, SubRefundFails, DBError
  <2> QED
    BY <2>1, <2>2
<1>15. CASE SubCharge(r)
  <2>1. TypeOK'
    BY <1>15, ConstantsTyped DEF TypeOK, ConstantFacts, Phases, Limited, GoTo, SubCharge, Settled
  <2>2. \A q \in Requests : HoldOf(q)'
    BY <1>15 DEF TypeOK, HoldOf, GoTo, SubCharge, Settled
  <2> QED
    BY <2>1, <2>2
<1>16. CASE SubChargeFails(r)
  <2>1. TypeOK'
    BY <1>16, ConstantsTyped DEF TypeOK, ConstantFacts, Phases, Limited, GoTo, SubChargeFails, DBError, Settled
  <2>2. \A q \in Requests : HoldOf(q)'
    BY <1>16 DEF TypeOK, HoldOf, GoTo, SubChargeFails, DBError, Settled
  <2> QED
    BY <2>1, <2>2
<1>17. CASE ReturnSettled(r)
  <2>1. TypeOK'
    BY <1>17, ConstantsTyped DEF TypeOK, ConstantFacts, Phases, Limited, GoTo, ReturnSettled
  <2>2. \A q \in Requests : HoldOf(q)'
    BY <1>17 DEF TypeOK, HoldOf, GoTo, ReturnSettled
  <2> QED
    BY <2>1, <2>2
<1>18. CASE DeferredRefund(r)
  <2>0. -pre[r] \in Int /\ TokenLess(r, -pre[r]) \in [Tokens -> Int]
    BY TokenLessType DEF TypeOK
  <2>1. TypeOK'
    BY <1>18, <2>0, ConstantsTyped DEF TypeOK, ConstantFacts, Phases, GoTo, DeferredRefund, GiveBack
  <2>2. \A q \in Requests : HoldOf(q)'
    BY <1>18 DEF TypeOK, HoldOf, GoTo, DeferredRefund, GiveBack, TokenLess
  <2> QED
    BY <2>1, <2>2
<1>19. CASE DeferredRefundFails(r)
  <2>1. TypeOK'
    BY <1>19, ConstantsTyped DEF TypeOK, ConstantFacts, Phases, Limited, GoTo, DeferredRefundFails, DBError
  <2>2. \A q \in Requests : HoldOf(q)'
    BY <1>19 DEF TypeOK, HoldOf, GoTo, DeferredRefundFails, DBError
  <2> QED
    BY <2>1, <2>2
<1> QED
  BY <1>1, <1>2, <1>3, <1>4, <1>5, <1>6, <1>7, <1>8, <1>9, <1>10, <1>11, <1>12, <1>13, <1>14, <1>15, <1>16, <1>17, <1>18, <1>19 DEF Serve, Fail

\* A crash, the cache and the user's other doings.
LEMMA EnvironmentStep ==
  ASSUME RelayInv,
         Crash \/ TopUp \/ SubscriptionEnds \/ UpdatePreference \/ \E t \in Tokens : CacheExpires(t)
  PROVE  RelayInv'
<1> USE DEF userVars, tokVars, subVars, reqVars, envVars
<1>0. TypeOK /\ \A q \in Requests : HoldOf(q)
  BY DEF RelayInv
<1> SUFFICES TypeOK' /\ \A q \in Requests : HoldOf(q)'
  BY DEF RelayInv
<1>1. CASE Crash
  <2>1. TypeOK'
    BY <1>0, <1>1 DEF TypeOK, Phases, Crash
  <2>2. \A q \in Requests : HoldOf(q)'
    BY <1>0, <1>1 DEF TypeOK, HoldOf, Crash
  <2> QED
    BY <2>1, <2>2
<1>2. CASE TopUp
  BY <1>0, <1>2 DEF TypeOK, HoldOf, TopUp
<1>3. CASE SubscriptionEnds
  BY <1>0, <1>3 DEF TypeOK, HoldOf, SubscriptionEnds
<1>4. CASE UpdatePreference
  BY <1>0, <1>4 DEF TypeOK, HoldOf, UpdatePreference
<1>5. CASE \E t \in Tokens : CacheExpires(t)
  BY <1>0, <1>5 DEF TypeOK, HoldOf, CacheExpires
<1> QED
  BY <1>1, <1>2, <1>3, <1>4, <1>5

\* RelayInv is inductive.
LEMMA NextRelayInv == RelayInv /\ [Next]_vars => RelayInv'
<1> SUFFICES ASSUME RelayInv, [Next]_vars PROVE RelayInv'
  OBVIOUS
<1>1. CASE Next
  BY <1>1, RequestStep, EnvironmentStep DEF Next
<1>2. CASE UNCHANGED vars
  BY <1>2 DEF vars, RelayInv, TypeOK, HoldOf
<1> QED
  BY <1>1, <1>2

\* Every request's hold is always where its goroutine believes it to be.
THEOREM RelayInvariant == Spec => []RelayInv
BY InitRelayInv, NextRelayInv, PTL DEF Spec

-----------------------------------------------------------------------------
(* The wallet and the keys go below zero only through an estimate that was *)
(* too low.                                                                *)

\* A settled request stays settled, with its estimate and its cost.
LEMMA UnderestimatedForever ==
  ASSUME RelayInv, [Next]_vars, NEW q \in Requests, Underestimated(q)
  PROVE  Underestimated(q)'
<1> USE DEF userVars, tokVars, subVars, reqVars, envVars
<1>0. TypeOK /\ HoldOf(q) /\ outcome[q] = "wallet" /\ cost[q] > pre[q]
  BY DEF RelayInv, Underestimated
<1>1. pc[q] \in {"returning", "done"} /\ (pc[q] = "returning" => billingSettled[q])
  BY <1>0 DEF HoldOf, TypeOK, Phases
<1> SUFFICES outcome'[q] = "wallet" /\ cost'[q] = cost[q] /\ pre'[q] = pre[q]
  BY <1>0 DEF Underestimated
<1> HIDE DEF HoldOf
<1>2. ASSUME NEW r \in Requests, Authenticate(r) \/ Serve(r) \/ Fail(r)
      PROVE  outcome'[q] = "wallet" /\ cost'[q] = cost[q] /\ pre'[q] = pre[q]
  <2>1. CASE r = q
    BY <1>0, <1>1, <1>2, <2>1
       DEF Serve, Fail, Authenticate, CheckQuota, HoldTx, HoldTxFails, ChannelFails, ReturnUnsettled,
           UpstreamAnswers, ReadPreference, AskWallet, AskSubscription, PostConsumeQuota,
           PostConsumeFails, SubRefund, SubRefundFails, SubCharge, SubChargeFails, ReturnSettled,
           DeferredRefund, DeferredRefundFails
  <2>2. CASE r # q
    BY <1>0, <1>2, <2>2
       DEF Serve, Fail, Authenticate, CheckQuota, HoldTx, HoldTxFails, ChannelFails, ReturnUnsettled,
           UpstreamAnswers, ReadPreference, AskWallet, AskSubscription, PostConsumeQuota,
           PostConsumeFails, SubRefund, SubRefundFails, SubCharge, SubChargeFails, ReturnSettled,
           DeferredRefund, DeferredRefundFails, Reject, TypeOK
  <2> QED
    BY <2>1, <2>2
<1>3. ASSUME Crash \/ TopUp \/ SubscriptionEnds \/ UpdatePreference
               \/ \E t \in Tokens : CacheExpires(t)
      PROVE  outcome'[q] = "wallet" /\ cost'[q] = cost[q] /\ pre'[q] = pre[q]
  BY <1>0, <1>3 DEF Crash, TopUp, SubscriptionEnds, UpdatePreference, CacheExpires
<1> QED
  BY <1>0, <1>2, <1>3 DEF Next, vars

\* A step takes the wallet or a key below zero only by settling such a request.
LEMMA BelowZeroStep ==
  ASSUME RelayInv, [Next]_vars
  PROVE  /\ quota >= 0 /\ quota' < 0 => \E r \in Requests : Underestimated(r)'
         /\ \A t \in Tokens \ Unlimited : remain[t] >= 0 /\ remain'[t] < 0
              => \E r \in Requests : TokenOf[r] = t /\ Underestimated(r)'
<1> USE DEF userVars, tokVars, subVars, reqVars, envVars
<1>0. TypeOK
  BY DEF RelayInv
<1> DEFINE Goal == /\ quota >= 0 /\ quota' < 0 => \E r \in Requests : Underestimated(r)'
                   /\ \A t \in Tokens \ Unlimited : remain[t] >= 0 /\ remain'[t] < 0
                        => \E r \in Requests : TokenOf[r] = t /\ Underestimated(r)'
<1>1. CASE quota' = quota /\ remain' = remain
  BY <1>0, <1>1 DEF TypeOK
<1>2. ASSUME NEW r \in Requests, HoldTx(r) PROVE Goal
  <2>1. pre[r] \in Nat
    BY <1>0 DEF TypeOK
  <2>2. CASE UserCovers(r) /\ TokenCovers(r)
    <3>1. quota' >= 0
      BY <1>0, <1>2, <2>1, <2>2 DEF HoldTx, UserCovers, TypeOK
    <3>2. \A t \in Tokens : remain[t] >= 0 => remain'[t] >= 0
      BY <1>0, <1>2, <2>1, <2>2, TokenLessType DEF HoldTx, TokenCovers, TypeOK
    <3>3. quota' \in Int /\ remain' \in [Tokens -> Int]
      BY <1>0, <1>2, <2>1, <2>2, TokenLessType DEF HoldTx, TypeOK
    <3> QED
      BY <3>1, <3>2, <3>3
  <2>3. CASE ~(UserCovers(r) /\ TokenCovers(r))
    BY <1>0, <1>2, <2>3 DEF HoldTx, TypeOK
  <2> QED
    BY <2>2, <2>3
<1>3. ASSUME NEW r \in Requests, PostConsumeQuota(r) PROVE Goal
  <2>1. pre[r] \in Nat /\ cost[r] \in Nat /\ Delta(r) = cost[r] - pre[r]
    BY <1>0 DEF TypeOK, Delta
  <2>2. outcome'[r] = "wallet" /\ cost' = cost /\ pre' = pre
    BY <1>0, <1>3 DEF PostConsumeQuota, TypeOK
  <2>3. Delta(r) > 0 => Underestimated(r)'
    BY <2>1, <2>2 DEF Underestimated
  <2>4. quota' = quota - Delta(r) /\ \A t \in Tokens : remain'[t] \in {remain[t], remain[t] - Delta(r)}
    BY <1>0, <1>3, <2>1, TokenLessType DEF PostConsumeQuota
  <2>5. \A t \in Tokens \ Unlimited : remain'[t] # remain[t] => TokenOf[r] = t
    BY <1>0, <1>3, <2>1, TokenLessType DEF PostConsumeQuota
  <2>6. CASE Delta(r) > 0
    BY <1>0, <2>3, <2>4, <2>5, <2>6 DEF TypeOK
  <2>7. CASE ~(Delta(r) > 0)
    BY <1>0, <2>1, <2>4, <2>7 DEF TypeOK
  <2> QED
    BY <2>6, <2>7
<1>4. ASSUME NEW r \in Requests, GiveBack(r) PROVE Goal
  <2>1. pre[r] \in Nat
    BY <1>0 DEF TypeOK
  <2>2. \A t \in Tokens : remain'[t] \in {remain[t], remain[t] + pre[r]}
    BY <1>0, <1>4, <2>1, TokenLessType DEF GiveBack, TypeOK
  <2> QED
    BY <1>0, <1>4, <2>1, <2>2 DEF GiveBack, TypeOK
<1>5. ASSUME TopUp PROVE Goal
  BY <1>0, <1>5 DEF TopUp, TypeOK
<1>6. ASSUME NEW r \in Requests, Authenticate(r) \/ Serve(r) \/ Fail(r) PROVE Goal
  BY <1>1, <1>2, <1>3, <1>4, <1>6
     DEF Serve, Fail, Authenticate, CheckQuota, HoldTxFails, ChannelFails, ReturnUnsettled,
         UpstreamAnswers, ReadPreference, AskWallet, AskSubscription,
         PostConsumeFails, SubRefund, SubRefundFails, SubCharge, SubChargeFails, ReturnSettled,
         DeferredRefund, DeferredRefundFails
<1> QED
  BY <1>1, <1>5, <1>6 DEF Next, vars, Crash, SubscriptionEnds, UpdatePreference, CacheExpires

\* However requests overlap, only the correction of a low estimate overdraws.
THEOREM RelayOverdrawnOnlyByUnderestimate == Spec => []OverdrawnOnlyByUnderestimate
<1>1. Init => OverdrawnOnlyByUnderestimate
  BY StartAssumption DEF Init, OverdrawnOnlyByUnderestimate
<1>2. RelayInv /\ OverdrawnOnlyByUnderestimate /\ [Next]_vars => OverdrawnOnlyByUnderestimate'
  <2> SUFFICES ASSUME RelayInv, OverdrawnOnlyByUnderestimate, [Next]_vars
               PROVE  OverdrawnOnlyByUnderestimate'
    OBVIOUS
  <2>0. TypeOK /\ TypeOK'
    BY NextRelayInv DEF RelayInv
  <2>1. quota' < 0 => \E r \in Requests : Underestimated(r)'
    BY <2>0, UnderestimatedForever, BelowZeroStep DEF OverdrawnOnlyByUnderestimate, TypeOK
  <2>2. ASSUME NEW t \in Tokens \ Unlimited, remain'[t] < 0
        PROVE  \E r \in Requests : TokenOf[r] = t /\ Underestimated(r)'
    <3>1. CASE remain[t] < 0
      BY <3>1, UnderestimatedForever DEF OverdrawnOnlyByUnderestimate
    <3>2. CASE remain[t] >= 0
      BY <2>2, <3>2, BelowZeroStep
    <3> QED
      BY <2>0, <3>1, <3>2 DEF TypeOK
  <2> QED
    BY <2>1, <2>2 DEF OverdrawnOnlyByUnderestimate
<1> QED
  BY <1>1, <1>2, RelayInvariant, PTL DEF Spec

-----------------------------------------------------------------------------
(* The relay implements the ledger.                                        *)

\* Steps that leave the wallet, the holds and their amounts alone.
LEMMA LedgerStutter ==
  ASSUME quota' = quota, deposits' = deposits,
         \A q \in Requests : HoldState(q)' = HoldState(q),
         \A q \in Requests : HoldState(q) # "none" => pre'[q] = pre[q]
  PROVE  UNCHANGED Ledger!hlVars
BY DEF Ledger!hlVars

\* A step of request r that closes its hold, keeping a charge of at least 0.
LEMMA LedgerClose ==
  ASSUME NEW r \in Requests,
         HoldState(r) = "open", HoldState(r)' = "closed",
         \A q \in Requests \ {r} : HoldState(q)' = HoldState(q),
         pre' = pre, deposits' = deposits, quota' <= quota + pre[r]
  PROVE  Ledger!Close(r)
BY DEF Ledger!Close

\* What the steps of a request do to the ledger.
LEMMA LedgerRequestStep ==
  ASSUME NEW r \in Requests, RelayInv, RelayInv', Authenticate(r) \/ Serve(r) \/ Fail(r)
  PROVE  [Ledger!HLNext]_Ledger!hlVars
<1> USE DEF userVars, tokVars, subVars, reqVars, envVars
<1>0. TypeOK /\ TypeOK' /\ HoldOf(r)
  BY DEF RelayInv
<1>1. CASE HoldTx(r) /\ UserCovers(r) /\ TokenCovers(r)
  <2>1. outcome[r] = "none" /\ outcome' = [outcome EXCEPT ![r] = "held"]
    BY <1>0, <1>1 DEF HoldTx, HoldOf
  <2>2. HoldState(r) = "none" /\ HoldState(r)' = "open"
    BY <1>0, <2>1 DEF HoldState, TypeOK
  <2>3. \A q \in Requests \ {r} : HoldState(q)' = HoldState(q)
    BY <1>0, <2>1 DEF HoldState, TypeOK
  <2>4. pre' = pre /\ pre[r] \in Nat /\ quota >= pre[r] /\ quota' = quota - pre[r]
                /\ deposits' = deposits
    BY <1>0, <1>1 DEF HoldTx, UserCovers, TypeOK
  <2>5. /\ [q \in Requests |-> HoldState(q)]' = [[q \in Requests |-> HoldState(q)] EXCEPT ![r] = "open"]
        /\ \A q \in Requests \ {r} :
             (IF HoldState(q) = "none" THEN 0 ELSE pre[q])' = IF HoldState(q) = "none" THEN 0 ELSE pre[q]
        /\ (IF HoldState(r) = "none" THEN 0 ELSE pre[r])' = pre[r]
    BY <2>2, <2>3, <2>4
  <2>6. Ledger!Open(r)
    BY <1>0, <2>2, <2>4, <2>5 DEF Ledger!Open, TypeOK
  <2> QED
    BY <2>6 DEF Ledger!HLNext
<1>2. CASE PostConsumeQuota(r)
  <2>1. outcome[r] = "held" /\ outcome' = [outcome EXCEPT ![r] = "wallet"]
    BY <1>0, <1>2 DEF PostConsumeQuota, HoldOf
  <2>2. pre' = pre /\ deposits' = deposits /\ quota' <= quota + pre[r]
    BY <1>0, <1>2 DEF PostConsumeQuota, Delta, TypeOK
  <2>3. HoldState(r) = "open" /\ HoldState(r)' = "closed"
    BY <1>0, <2>1 DEF HoldState, TypeOK
  <2>4. \A q \in Requests \ {r} : HoldState(q)' = HoldState(q)
    BY <1>0, <2>1 DEF HoldState, TypeOK
  <2> QED
    BY <2>2, <2>3, <2>4, LedgerClose DEF Ledger!HLNext
<1>3. CASE SubRefund(r) \/ DeferredRefund(r)
  <2>1. /\ outcome[r] = "held"
        /\ \/ outcome' = [outcome EXCEPT ![r] = "subscription"]
           \/ outcome' = [outcome EXCEPT ![r] = "refunded"]
    BY <1>0, <1>3 DEF SubRefund, DeferredRefund, HoldOf
  <2>2. pre' = pre /\ deposits' = deposits /\ quota' <= quota + pre[r]
    BY <1>0, <1>3 DEF SubRefund, DeferredRefund, GiveBack, TypeOK
  <2>3. HoldState(r) = "open" /\ HoldState(r)' = "closed"
    BY <1>0, <2>1 DEF HoldState, TypeOK
  <2>4. \A q \in Requests \ {r} : HoldState(q)' = HoldState(q)
    BY <1>0, <2>1 DEF HoldState, TypeOK
  <2> QED
    BY <2>2, <2>3, <2>4, LedgerClose DEF Ledger!HLNext
<1>4. CASE \/ \E e \in Estimates : CheckQuota(r, e)
           \/ HoldTx(r) /\ ~(UserCovers(r) /\ TokenCovers(r))
           \/ HoldTxFails(r)
  <2>1. /\ outcome[r] = "none" /\ quota' = quota /\ deposits' = deposits
        /\ outcome' = outcome \/ outcome' = [outcome EXCEPT ![r] = "rejected"]
        /\ \A q \in Requests \ {r} : pre'[q] = pre[q]
    BY <1>0, <1>4 DEF CheckQuota, HoldTx, HoldTxFails, Reject, HoldOf, TypeOK
  <2>2. HoldState(r) = "none" /\ \A q \in Requests : HoldState(q)' = HoldState(q)
    BY <1>0, <2>1 DEF HoldState, TypeOK
  <2> QED
    BY <2>1, <2>2, LedgerStutter
<1>5. CASE PostConsumeFails(r) \/ SubRefundFails(r) \/ DeferredRefundFails(r)
  <2>1. /\ outcome[r] = "held" /\ outcome' = [outcome EXCEPT ![r] = "lost"]
        /\ quota' = quota /\ pre' = pre /\ deposits' = deposits
    BY <1>0, <1>5 DEF PostConsumeFails, SubRefundFails, DeferredRefundFails, HoldOf
  <2>2. \A q \in Requests : HoldState(q)' = HoldState(q)
    BY <1>0, <2>1 DEF HoldState, TypeOK
  <2> QED
    BY <2>1, <2>2, LedgerStutter
<1>6. CASE quota' = quota /\ outcome' = outcome /\ pre' = pre /\ deposits' = deposits
  <2>1. \A q \in Requests : HoldState(q)' = HoldState(q)
    BY <1>6 DEF HoldState
  <2> QED
    BY <1>6, <2>1, LedgerStutter
<1> QED
  BY <1>1, <1>2, <1>3, <1>4, <1>5, <1>6
     DEF Serve, Fail, Authenticate, ChannelFails, ReturnUnsettled, UpstreamAnswers, ReadPreference,
         AskWallet, AskSubscription, SubCharge, SubChargeFails, ReturnSettled

\* A crash loses open holds, a top-up is a deposit, the rest is invisible.
LEMMA LedgerEnvironmentStep ==
  ASSUME RelayInv, RelayInv',
         Crash \/ TopUp \/ SubscriptionEnds \/ UpdatePreference \/ \E t \in Tokens : CacheExpires(t)
  PROVE  [Ledger!HLNext]_Ledger!hlVars
<1> USE DEF userVars, tokVars, subVars, reqVars, envVars
<1>0. TypeOK
  BY DEF RelayInv
<1>1. CASE Crash
  <2>1. quota' = quota /\ pre' = pre /\ deposits' = deposits
    BY <1>1 DEF Crash
  <2>2. \A q \in Requests : HoldState(q)' = HoldState(q)
    BY <1>0, <1>1 DEF Crash, HoldState, TypeOK
  <2> QED
    BY <2>1, <2>2, LedgerStutter
<1>2. CASE TopUp
  <2>1. quota' = quota + 1 /\ deposits' = deposits + 1 /\ outcome' = outcome /\ pre' = pre
    BY <1>2 DEF TopUp
  <2>2. \A q \in Requests : HoldState(q)' = HoldState(q)
    BY <2>1 DEF HoldState
  <2>3. Ledger!Deposit
    BY <1>0, <2>1, <2>2 DEF Ledger!Deposit, TypeOK
  <2> QED
    BY <2>3 DEF Ledger!HLNext
<1>3. CASE quota' = quota /\ outcome' = outcome /\ pre' = pre /\ deposits' = deposits
  <2>1. \A q \in Requests : HoldState(q)' = HoldState(q)
    BY <1>3 DEF HoldState
  <2> QED
    BY <1>3, <2>1, LedgerStutter
<1> QED
  BY <1>1, <1>2, <1>3 DEF SubscriptionEnds, UpdatePreference, CacheExpires

\* Every behaviour of the relay is one of the ledger: a hold is covered by the
\* wallet when it is taken and closed at most once, and the wallet moves in no
\* other way than by holds, their closing and deposits.
THEOREM RelayImplementsHoldLedger == Spec => ImplementsHoldLedger
<1>1. Init => Ledger!HLInit
  <2> SUFFICES ASSUME Init PROVE Ledger!HLInit
    OBVIOUS
  <2>1. \A r \in Requests : HoldState(r) = "none"
    BY DEF Init, HoldState
  <2> QED
    BY <2>1, StartAssumption DEF Init, Ledger!HLInit
<1>2. RelayInv /\ RelayInv' /\ [Next]_vars => [Ledger!HLNext]_Ledger!hlVars
  <2> SUFFICES ASSUME RelayInv, RelayInv', [Next]_vars PROVE [Ledger!HLNext]_Ledger!hlVars
    OBVIOUS
  <2>1. CASE Next
    BY <2>1, LedgerRequestStep, LedgerEnvironmentStep DEF Next
  <2>2. CASE UNCHANGED vars
    <3>1. \A q \in Requests : HoldState(q)' = HoldState(q)
      BY <2>2 DEF vars, HoldState
    <3> QED
      BY <2>2, <3>1, LedgerStutter DEF vars
  <2> QED
    BY <2>1, <2>2
<1> QED
  BY <1>1, <1>2, RelayInvariant, PTL DEF Spec, ImplementsHoldLedger, Ledger!HLSpec

-----------------------------------------------------------------------------
(* Sums.                                                                   *)

\* One amount stands for as many pairs.
LEMMA Column ==
  ASSUME NEW x, NEW n \in Nat
  PROVE  IsFiniteSet({x} \X (1..n)) /\ Cardinality({x} \X (1..n)) = n
<1> DEFINE h == [i \in 1..n |-> <<x, i>>]
<1>1. h \in Bijection(1..n, {x} \X (1..n))
  <2>1. h \in [1..n -> {x} \X (1..n)]
    OBVIOUS
  <2>2. \A i, j \in 1..n : h[i] = h[j] => i = j
    OBVIOUS
  <2>3. \A t \in {x} \X (1..n) : \E i \in 1..n : h[i] = t
    <3> TAKE t \in {x} \X (1..n)
    <3> PICK i \in 1..n : t = <<x, i>>
      OBVIOUS
    <3> QED
      OBVIOUS
  <2> QED
    BY <2>1, <2>2, <2>3 DEF Bijection, Injection, IsInjective, Surjection
<1>2. ExistsBijection(1..n, {x} \X (1..n))
  BY <1>1 DEF ExistsBijection
<1>3. IsFiniteSet(1..n) /\ Cardinality(1..n) = n
  BY FS_Interval
<1> QED
  BY <1>2, <1>3, FS_Bijection

\* Finitely many amounts have a sum.
LEMMA UnitsFinite ==
  ASSUME NEW S, IsFiniteSet(S), NEW f, \A x \in S : f[x] \in Nat
  PROVE  IsFiniteSet(Units(f, S)) /\ Sum(f, S) \in Nat
<1> DEFINE T == {{x} \X (1..f[x]) : x \in S}
           h == [x \in S |-> {x} \X (1..f[x])]
<1>1. h \in Surjection(S, T)
  BY DEF Surjection
<1>2. IsFiniteSet(T)
  BY <1>1, FS_Surjection
<1>3. \A t \in T : IsFiniteSet(t)
  <2> TAKE t \in T
  <2> PICK x \in S : t = {x} \X (1..f[x])
    OBVIOUS
  <2> f[x] \in Nat
    OBVIOUS
  <2> IsFiniteSet({x} \X (1..f[x]))
    BY Column
  <2> QED
    OBVIOUS
<1>4. IsFiniteSet(UNION T)
  BY <1>2, <1>3, FS_UNION
<1> QED
  BY <1>4, FS_CardinalityType DEF Units, Sum

\* A sum depends on its amounts only.
LEMMA SumSame ==
  ASSUME NEW S, NEW f, NEW g, \A x \in S : f[x] = g[x]
  PROVE  Sum(f, S) = Sum(g, S)
<1>1. \A x \in S : {x} \X (1..f[x]) = {x} \X (1..g[x])
  OBVIOUS
<1>2. Units(f, S) = Units(g, S)
  BY <1>1 DEF Units
<1> QED
  BY <1>2 DEF Sum

\* Nothing adds up to nothing.
LEMMA SumZero ==
  ASSUME NEW S, NEW f, \A x \in S : f[x] = 0
  PROVE  Sum(f, S) = 0
<1>1. \A x \in S : 1..f[x] = {}
  OBVIOUS
<1>2. Units(f, S) = {}
  BY <1>1 DEF Units
<1> QED
  BY <1>2, FS_EmptySet DEF Sum

\* One amount is taken out of a sum.
LEMMA SumSplit ==
  ASSUME NEW S, IsFiniteSet(S), NEW f, \A x \in S : f[x] \in Nat, NEW y \in S
  PROVE  Sum(f, S \ {y}) \in Nat /\ Sum(f, S) = Sum(f, S \ {y}) + f[y]
<1> DEFINE R == Units(f, S \ {y})
           A == {y} \X (1..f[y])
<1>1. Units(f, S) = R \cup A /\ R \cap A = {}
  BY DEF Units
<1>2. IsFiniteSet(R) /\ Sum(f, S \ {y}) \in Nat
  BY UnitsFinite, FS_RemoveElement
<1>3. f[y] \in Nat
  OBVIOUS
<1>4. IsFiniteSet(A) /\ Cardinality(A) = f[y]
  BY <1>3, Column
<1> HIDE DEF R, A
<1>5. Cardinality(R \cup A) = Cardinality(R) + Cardinality(A) - Cardinality(R \cap A)
  BY <1>2, <1>4, FS_Union
<1>6. Cardinality({}) = 0
  BY FS_EmptySet
<1>7. Cardinality(R) = Sum(f, S \ {y})
  BY DEF R, Sum
<1>8. Sum(f, S) = Sum(f, S \ {y}) + f[y] - 0
  BY <1>1, <1>4, <1>5, <1>6, <1>7 DEF Sum
<1> QED
  BY <1>2, <1>3, <1>8

\* One amount changes.
LEMMA SumChange ==
  ASSUME NEW S, IsFiniteSet(S), NEW f, NEW g, NEW y \in S,
         \A x \in S : f[x] \in Nat /\ g[x] \in Nat,
         \A x \in S \ {y} : g[x] = f[x]
  PROVE  Sum(g, S) = Sum(f, S) - f[y] + g[y]
<1>1. Sum(g, S \ {y}) = Sum(f, S \ {y})
  BY SumSame
<1>2. Sum(f, S \ {y}) \in Nat /\ Sum(f, S) = Sum(f, S \ {y}) + f[y]
  BY SumSplit
<1>3. Sum(g, S) = Sum(g, S \ {y}) + g[y]
  BY SumSplit
<1>4. f[y] \in Nat /\ g[y] \in Nat
  OBVIOUS
<1> QED
  BY <1>1, <1>2, <1>3, <1>4

-----------------------------------------------------------------------------
(* The books of the wallet, the keys and the subscription.                 *)

\* What the place of a request says about its cost and who has paid it.
ChargeOf(r) ==
  /\ pc[r] \in {"new", "arrived", "checked", "relaying"} => cost[r] = 0
  /\ pc[r] = "returning" /\ ~billingSettled[r] => cost[r] = 0
  /\ paidBySub[r] => pc[r] \in {"returning", "done"} /\ outcome[r] # "wallet"
  /\ pc[r] = "returning" /\ billingSettled[r] /\ dbErrors = 0 /\ crashes = 0
       => outcome[r] = "wallet" \/ paidBySub[r]
  /\ pc[r] = "done" /\ cost[r] > 0 /\ dbErrors = 0 /\ crashes = 0
       => outcome[r] = "wallet" \/ paidBySub[r]

Charges == \A r \in Requests : ChargeOf(r)

LEMMA ChargesImply == TypeOK /\ Charges => ChargedExactlyOnce
BY DEF TypeOK, Charges, ChargeOf, ChargedExactlyOnce

LEMMA InitCharges == Init => Charges
BY DEF Init, Charges, ChargeOf

LEMMA NextCharges ==
  ASSUME RelayInv, Charges, [Next]_vars
  PROVE  Charges'
<1> USE DEF userVars, tokVars, subVars, reqVars, envVars
<1>0. TypeOK /\ \A q \in Requests : HoldOf(q) /\ ChargeOf(q)
  BY DEF RelayInv, Charges
<1> SUFFICES ASSUME NEW q \in Requests PROVE ChargeOf(q)'
  BY DEF Charges
<1>1. ASSUME NEW r \in Requests, Authenticate(r) \/ Serve(r) \/ Fail(r) PROVE ChargeOf(q)'
  <2>1. CASE r = q
    <3> USE <1>0, <2>1 DEF ChargeOf, HoldOf, TypeOK, GoTo
    <3>1. CASE Authenticate(q) \/ \E e \in Estimates : CheckQuota(q, e)
      BY <3>1 DEF Authenticate, CheckQuota, Reject
    <3>2. CASE HoldTx(q) \/ HoldTxFails(q)
      BY <3>2 DEF HoldTx, HoldTxFails, Reject, DBError
    <3>3. CASE ChannelFails(q) \/ ReturnUnsettled(q) \/ \E c \in Costs : UpstreamAnswers(q, c)
      BY <3>3 DEF ChannelFails, ReturnUnsettled, UpstreamAnswers
    <3>4. CASE ReadPreference(q) \/ AskWallet(q) \/ AskSubscription(q)
      BY <3>4 DEF ReadPreference, AskWallet, AskSubscription
    <3>5. CASE PostConsumeQuota(q) \/ PostConsumeFails(q)
      BY <3>5 DEF PostConsumeQuota, PostConsumeFails, Settled, DBError
    <3>6. CASE SubRefund(q) \/ SubRefundFails(q)
      BY <3>6 DEF SubRefund, SubRefundFails, DBError
    <3>7. CASE SubCharge(q) \/ SubChargeFails(q)
      BY <3>7 DEF SubCharge, SubChargeFails, Settled, DBError
    <3>8. CASE ReturnSettled(q)
      BY <3>8 DEF ReturnSettled
    <3>9. CASE DeferredRefund(q) \/ DeferredRefundFails(q)
      BY <3>9 DEF DeferredRefund, DeferredRefundFails, DBError
    <3> QED
      BY <1>1, <3>1, <3>2, <3>3, <3>4, <3>5, <3>6, <3>7, <3>8, <3>9 DEF Serve, Fail
  <2>2. CASE r # q
    <3>1. /\ pc'[q] = pc[q] /\ cost'[q] = cost[q] /\ billingSettled'[q] = billingSettled[q]
          /\ outcome'[q] = outcome[q] /\ paidBySub'[q] = paidBySub[q] /\ crashes' = crashes
      BY <1>0, <1>1, <2>2
         DEF Serve, Fail, Authenticate, CheckQuota, HoldTx, HoldTxFails, ChannelFails, ReturnUnsettled,
             UpstreamAnswers, ReadPreference, AskWallet, AskSubscription, PostConsumeQuota,
             PostConsumeFails, SubRefund, SubRefundFails, SubCharge, SubChargeFails, ReturnSettled,
             DeferredRefund, DeferredRefundFails, Reject, Settled, GoTo, TypeOK
    <3>2. dbErrors' = dbErrors \/ dbErrors' = dbErrors + 1
      BY <1>1
         DEF Serve, Fail, Authenticate, CheckQuota, HoldTx, HoldTxFails, ChannelFails, ReturnUnsettled,
             UpstreamAnswers, ReadPreference, AskWallet, AskSubscription, PostConsumeQuota,
             PostConsumeFails, SubRefund, SubRefundFails, SubCharge, SubChargeFails, ReturnSettled,
             DeferredRefund, DeferredRefundFails, DBError
    <3>3. dbErrors' = 0 => dbErrors = 0
      BY <1>0, <3>2 DEF TypeOK
    <3> QED
      BY <1>0, <3>1, <3>3 DEF ChargeOf
  <2> QED
    BY <2>1, <2>2
<1>2. CASE Crash
  BY <1>0, <1>2 DEF Crash, ChargeOf, TypeOK
<1>3. CASE TopUp \/ SubscriptionEnds \/ UpdatePreference \/ (\E t \in Tokens : CacheExpires(t)) \/ UNCHANGED vars
  BY <1>0, <1>3 DEF TopUp, SubscriptionEnds, UpdatePreference, CacheExpires, vars, ChargeOf
<1> QED
  BY <1>1, <1>2, <1>3 DEF Next

\* A step of request r takes n from the wallet and its key, of which c is counted as used, and
\* charges the subscription s.
Effect(r, n, c, s) ==
  /\ \A q \in Requests \ {r} : /\ WalletShare(q)' = WalletShare(q)
                               /\ WalletCost(q)' = WalletCost(q) /\ SubCost(q)' = SubCost(q)
  /\ WalletShare(r)' = WalletShare(r) + n
  /\ WalletCost(r)' = WalletCost(r) + c /\ SubCost(r)' = SubCost(r) + s
  /\ quota' = quota - n /\ remain' = TokenLess(r, n) /\ deposits' = deposits
  /\ usedQuota' = usedQuota + c /\ tokenUsed' = [tokenUsed EXCEPT ![TokenOf[r]] = @ + c]
  /\ subUsed' = subUsed + s

Books == MoneyConserved /\ StatisticsAgree

LEMMA AmountsNat ==
  TypeOK => \A q \in Requests : WalletShare(q) \in Nat /\ WalletCost(q) \in Nat /\ SubCost(q) \in Nat
BY DEF TypeOK, WalletShare, WalletCost, SubCost

\* Such a step keeps the books.
LEMMA EffectKeepsBooks ==
  ASSUME TypeOK, TypeOK', Books, NEW r \in Requests, NEW n \in Int, NEW c \in Nat, NEW s \in Nat,
         Effect(r, n, c, s)
  PROVE  Books'
<1>0. \A q \in Requests : /\ WalletShare(q) \in Nat /\ WalletCost(q) \in Nat /\ SubCost(q) \in Nat
                          /\ WalletShare(q)' \in Nat /\ WalletCost(q)' \in Nat /\ SubCost(q)' \in Nat
  BY AmountsNat DEF TypeOK, WalletShare, WalletCost, SubCost
<1> DEFINE W == [q \in Requests |-> WalletCost(q)]
           B == [q \in Requests |-> SubCost(q)]
<1>1. PICK f, g, w, v, b, d : /\ f = Shares /\ g = Shares' /\ w = W /\ v = W' /\ b = B /\ d = B'
  OBVIOUS
<1>2. /\ \A q \in Requests : /\ f[q] \in Nat /\ g[q] \in Nat /\ w[q] \in Nat /\ v[q] \in Nat
                             /\ b[q] \in Nat /\ d[q] \in Nat
      /\ \A q \in Requests \ {r} : g[q] = f[q] /\ v[q] = w[q] /\ d[q] = b[q]
      /\ g[r] = f[r] + n /\ v[r] = w[r] + c /\ d[r] = b[r] + s
  BY <1>0, <1>1 DEF Shares, Effect
<1>3. Sum(f, Requests) \in Nat /\ Sum(w, Requests) \in Nat /\ Sum(b, Requests) \in Nat
  BY <1>2, UnitsFinite, RequestsFinite
<1>4. Sum(g, Requests) = Sum(f, Requests) - f[r] + g[r]
  <2>1. /\ \A q \in Requests : f[q] \in Nat /\ g[q] \in Nat
        /\ \A q \in Requests \ {r} : g[q] = f[q]
    BY <1>2
  <2> QED
    BY <2>1, SumChange, RequestsFinite
<1>5. Sum(v, Requests) = Sum(w, Requests) - w[r] + v[r]
  <2>1. /\ \A q \in Requests : w[q] \in Nat /\ v[q] \in Nat
        /\ \A q \in Requests \ {r} : v[q] = w[q]
    BY <1>2
  <2> QED
    BY <2>1, SumChange, RequestsFinite
<1>6. Sum(d, Requests) = Sum(b, Requests) - b[r] + d[r]
  <2>1. /\ \A q \in Requests : b[q] \in Nat /\ d[q] \in Nat
        /\ \A q \in Requests \ {r} : d[q] = b[q]
    BY <1>2
  <2> QED
    BY <2>1, SumChange, RequestsFinite
<1>7. f[r] \in Nat /\ w[r] \in Nat /\ b[r] \in Nat
  BY <1>2
<1>8. quota' + Sum(g, Requests) = StartQuota + deposits'
  <2>1. quota \in Int /\ quota + Sum(f, Requests) = StartQuota + deposits
    BY <1>1 DEF Books, MoneyConserved, TypeOK
  <2> QED
    BY <1>2, <1>3, <1>4, <1>7, <2>1 DEF Effect
<1>9. ASSUME NEW t \in Tokens \ Unlimited
      PROVE  remain'[t] + Sum(g, RequestsOf(t)) = StartRemain[t]
  <2>1. remain[t] + Sum(f, RequestsOf(t)) = StartRemain[t] /\ remain[t] \in Int
    BY <1>1 DEF Books, MoneyConserved, TypeOK
  <2>2. RequestsOf(t) \subseteq Requests /\ IsFiniteSet(RequestsOf(t))
    BY RequestsFinite, FS_Subset DEF RequestsOf
  <2>3. CASE TokenOf[r] = t
    <3>1. r \in RequestsOf(t)
      BY <2>3 DEF RequestsOf
    <3>2. Sum(g, RequestsOf(t)) = Sum(f, RequestsOf(t)) - f[r] + g[r]
      <4>1. /\ \A q \in RequestsOf(t) : f[q] \in Nat /\ g[q] \in Nat
            /\ \A q \in RequestsOf(t) \ {r} : g[q] = f[q]
        BY <1>2, <2>2
      <4> QED
        BY <2>2, <3>1, <4>1, SumChange
    <3>3. Sum(f, RequestsOf(t)) \in Nat
      BY <1>2, <2>2, UnitsFinite
    <3>4. remain'[t] = remain[t] - n
      BY <2>3, TokenLessType DEF Effect, Limited
    <3> QED
      BY <1>2, <1>7, <2>1, <3>2, <3>3, <3>4
  <2>4. CASE TokenOf[r] # t
    <3>1. \A q \in RequestsOf(t) : g[q] = f[q]
      BY <1>2, <2>4 DEF RequestsOf
    <3>2. Sum(g, RequestsOf(t)) = Sum(f, RequestsOf(t))
      BY <3>1, SumSame
    <3>3. remain'[t] = remain[t]
      BY <2>4, TokenLessType DEF Effect
    <3> QED
      BY <2>1, <3>2, <3>3
  <2> QED
    BY <2>3, <2>4
<1>10. Sum(tokenUsed', Tokens) = Sum(tokenUsed, Tokens) + c
  <2>1. TokenOf[r] \in Tokens /\ IsFiniteSet(Tokens)
    BY TokensAssumption
  <2>2. /\ \A t \in Tokens : tokenUsed[t] \in Nat /\ tokenUsed'[t] \in Nat
        /\ \A t \in Tokens \ {TokenOf[r]} : tokenUsed'[t] = tokenUsed[t]
        /\ tokenUsed'[TokenOf[r]] = tokenUsed[TokenOf[r]] + c
    BY <2>1 DEF TypeOK, Effect
  <2>3. PICK h, k, y : h = tokenUsed /\ k = tokenUsed' /\ y = TokenOf[r]
    OBVIOUS
  <2>4. Sum(k, Tokens) = Sum(h, Tokens) - h[y] + k[y]
    <3>1. /\ y \in Tokens
          /\ \A t \in Tokens : h[t] \in Nat /\ k[t] \in Nat
          /\ \A t \in Tokens \ {y} : k[t] = h[t]
      BY <2>1, <2>2, <2>3
    <3>2. IsFiniteSet(Tokens)
      BY <2>1
    <3> HIDE <2>3
    <3> QED
      BY <3>1, <3>2, SumChange
  <2>5. Sum(h, Tokens) \in Nat /\ h[y] \in Nat /\ k[y] = h[y] + c
    BY <2>1, <2>2, <2>3, UnitsFinite
  <2> QED
    BY <2>3, <2>4, <2>5
<1>11. MoneyConserved'
  BY <1>1, <1>8, <1>9 DEF MoneyConserved, RequestsOf
<1>12. StatisticsAgree'
  <2>1. usedQuota = Sum(w, Requests) /\ usedQuota = Sum(tokenUsed, Tokens) /\ subUsed = Sum(b, Requests)
    BY <1>1 DEF Books, StatisticsAgree
  <2>2. Sum(v, Requests) = Sum(w, Requests) + c /\ Sum(d, Requests) = Sum(b, Requests) + s
    BY <1>2, <1>3, <1>5, <1>6, <1>7
  <2>3. usedQuota' = Sum(v, Requests) /\ usedQuota' = Sum(tokenUsed', Tokens) /\ subUsed' = Sum(d, Requests)
    BY <1>10, <2>1, <2>2 DEF Effect
  <2> QED
    BY <1>1, <2>3 DEF StatisticsAgree
<1> QED
  BY <1>11, <1>12 DEF Books

\* Nothing is taken.
LEMMA NoEffect ==
  ASSUME TypeOK, Books, UNCHANGED <<userVars, tokVars, subUsed, deposits>>,
         \A q \in Requests : /\ WalletShare(q)' = WalletShare(q)
                             /\ WalletCost(q)' = WalletCost(q) /\ SubCost(q)' = SubCost(q)
  PROVE  Books'
BY DEF Books, MoneyConserved, StatisticsAgree, Shares, RequestsOf, userVars, tokVars

\* The steps of a request and the books.
LEMMA RequestBooks ==
  ASSUME RelayInv, RelayInv', Charges, Books, NEW r \in Requests, Authenticate(r) \/ Serve(r) \/ Fail(r)
  PROVE  Books'
<1> USE DEF userVars, tokVars, subVars, reqVars, envVars
<1>0. TypeOK /\ TypeOK' /\ HoldOf(r) /\ ChargeOf(r)
  BY DEF RelayInv, Charges
<1>1. pre[r] \in Nat /\ cost[r] \in Nat /\ -pre[r] \in Int /\ Delta(r) \in Int
  BY <1>0 DEF TypeOK, Delta
<1> DEFINE Quiet == \A q \in Requests : /\ WalletShare(q)' = WalletShare(q)
                                        /\ WalletCost(q)' = WalletCost(q) /\ SubCost(q)' = SubCost(q)
<1> USE DEF WalletShare, WalletCost, SubCost
<1>2. CASE HoldTx(r) /\ UserCovers(r) /\ TokenCovers(r)
  <2>1. Effect(r, pre[r], 0, 0)
    BY <1>0, <1>2, ConstantsTyped DEF HoldTx, HoldOf, Effect, TypeOK, ConstantFacts
  <2> QED
    BY <1>0, <1>1, <2>1, EffectKeepsBooks
<1>3. CASE PostConsumeQuota(r)
  <2>1. Effect(r, Delta(r), cost[r], 0)
    BY <1>0, <1>3 DEF PostConsumeQuota, HoldOf, Effect, TypeOK, Delta
  <2> QED
    BY <1>0, <1>1, <2>1, EffectKeepsBooks
<1>4. CASE SubRefund(r) \/ DeferredRefund(r)
  <2>1. Effect(r, -pre[r], 0, 0)
    BY <1>0, <1>4, ConstantsTyped DEF SubRefund, DeferredRefund, GiveBack, HoldOf, Effect, TypeOK, ConstantFacts
  <2> QED
    BY <1>0, <1>1, <2>1, EffectKeepsBooks
<1>5. CASE SubCharge(r)
  <2>1. TokenLess(r, 0) = remain
    BY <1>0, ConstantsTyped DEF TokenLess, TypeOK, ConstantFacts
  <2>2. PICK n \in Int, c \in Nat, s \in Nat : n = 0 /\ c = 0 /\ s = cost[r]
    BY <1>1
  <2>3. Effect(r, n, c, s)
    BY <1>0, <1>5, <2>1, <2>2, ConstantsTyped DEF SubCharge, ChargeOf, Effect, TypeOK, ConstantFacts
  <2> QED
    BY <1>0, <2>3, EffectKeepsBooks
<1>6. CASE \/ \E e \in Estimates : CheckQuota(r, e)
           \/ HoldTx(r) /\ ~(UserCovers(r) /\ TokenCovers(r))
           \/ HoldTxFails(r)
  <2>1. Quiet
    BY <1>0, <1>6 DEF CheckQuota, HoldTx, HoldTxFails, Reject, HoldOf, TypeOK
  <2> QED
    BY <1>0, <1>6, <2>1, NoEffect DEF CheckQuota, HoldTx, HoldTxFails, Reject
<1>7. CASE PostConsumeFails(r) \/ SubRefundFails(r) \/ DeferredRefundFails(r)
  <2>1. Quiet
    BY <1>0, <1>7 DEF PostConsumeFails, SubRefundFails, DeferredRefundFails, HoldOf, TypeOK
  <2> QED
    BY <1>0, <1>7, <2>1, NoEffect DEF PostConsumeFails, SubRefundFails, DeferredRefundFails
<1>8. CASE \E c \in Costs : UpstreamAnswers(r, c)
  <2>1. Quiet
    BY <1>0, <1>8 DEF UpstreamAnswers, HoldOf, ChargeOf, TypeOK
  <2> QED
    BY <1>0, <1>8, <2>1, NoEffect DEF UpstreamAnswers
<1>9. CASE /\ UNCHANGED <<userVars, tokVars, subUsed, deposits>>
           /\ UNCHANGED <<pre, cost, outcome, paidBySub>>
  BY <1>0, <1>9, NoEffect
<1> QED
  BY <1>2, <1>3, <1>4, <1>5, <1>6, <1>7, <1>8, <1>9
     DEF Serve, Fail, Authenticate, ChannelFails, ReturnUnsettled, ReadPreference,
         AskWallet, AskSubscription, SubChargeFails, ReturnSettled

LEMMA NextBooks ==
  ASSUME RelayInv, RelayInv', Charges, Books, [Next]_vars
  PROVE  Books'
<1> USE DEF userVars, tokVars, subVars, reqVars, envVars
<1>0. TypeOK
  BY DEF RelayInv
<1>1. ASSUME NEW r \in Requests, Authenticate(r) \/ Serve(r) \/ Fail(r) PROVE Books'
  BY <1>1, RequestBooks
<1>2. CASE Crash
  <2>1. \A q \in Requests : /\ WalletShare(q)' = WalletShare(q)
                            /\ WalletCost(q)' = WalletCost(q) /\ SubCost(q)' = SubCost(q)
    BY <1>0, <1>2 DEF Crash, WalletShare, WalletCost, SubCost, TypeOK
  <2> QED
    BY <1>0, <1>2, <2>1, NoEffect DEF Crash
<1>3. CASE TopUp
  <2>1. UNCHANGED <<pre, cost, outcome, paidBySub, remain, usedQuota, tokenUsed, subUsed>>
    BY <1>3 DEF TopUp
  <2>2. Shares' = Shares /\ StatisticsAgree'
    BY <2>1 DEF Shares, WalletShare, WalletCost, SubCost, Books, StatisticsAgree
  <2>3. Sum(Shares, Requests) \in Nat
    <3>1. \A q \in Requests : Shares[q] \in Nat
      BY <1>0, AmountsNat DEF Shares
    <3> QED
      BY <3>1, UnitsFinite, RequestsFinite
  <2>4. quota' = quota + 1 /\ deposits' = deposits + 1 /\ quota \in Int /\ deposits \in Nat
    BY <1>0, <1>3 DEF TopUp, TypeOK
  <2>5. MoneyConserved'
    BY <2>1, <2>2, <2>3, <2>4, StartAssumption DEF Books, MoneyConserved, RequestsOf
  <2> QED
    BY <2>2, <2>5 DEF Books
<1>4. CASE SubscriptionEnds \/ UpdatePreference \/ (\E t \in Tokens : CacheExpires(t)) \/ UNCHANGED vars
  <2>1. UNCHANGED <<userVars, tokVars, subUsed, deposits, pre, cost, outcome, paidBySub>>
    BY <1>4 DEF SubscriptionEnds, UpdatePreference, CacheExpires, vars
  <2> QED
    BY <1>0, <2>1, NoEffect DEF WalletShare, WalletCost, SubCost
<1> QED
  BY <1>1, <1>2, <1>3, <1>4 DEF Next

LEMMA InitBooks == Init => Books
<1> SUFFICES ASSUME Init PROVE Books
  OBVIOUS
<1> DEFINE W == [q \in Requests |-> WalletCost(q)]
           B == [q \in Requests |-> SubCost(q)]
<1>1. \A q \in Requests : Shares[q] = 0 /\ W[q] = 0 /\ B[q] = 0
  BY DEF Init, Shares, WalletShare, WalletCost, SubCost
<1>2. Sum(Shares, Requests) = 0 /\ Sum(W, Requests) = 0 /\ Sum(B, Requests) = 0
  BY <1>1, SumZero
<1>3. \A t \in Tokens : Sum(Shares, RequestsOf(t)) = 0
  BY <1>1, SumZero DEF RequestsOf
<1>4. Sum(tokenUsed, Tokens) = 0
  BY SumZero DEF Init
<1>5. MoneyConserved
  BY <1>2, <1>3, StartAssumption DEF Init, MoneyConserved
<1>6. StatisticsAgree
  BY <1>2, <1>4 DEF Init, StatisticsAgree
<1> QED
  BY <1>5, <1>6 DEF Books

\* However requests overlap, fail or are cut off by a crash, no quota is created or destroyed, the
\* statistics agree with the money, and an answered request is charged exactly once.
THEOREM RelayWalletConserved == Spec => []WalletConserved
<1>1. RelayInv /\ RelayInv' /\ Charges /\ Books /\ [Next]_vars => Charges' /\ Books'
  BY NextCharges, NextBooks
<1>2. Spec => [](Charges /\ Books)
  BY <1>1, InitCharges, InitBooks, RelayInvariant, PTL DEF Spec
<1>3. RelayInv /\ Charges /\ Books => WalletConserved
  BY ChargesImply DEF RelayInv, Books, WalletConserved
<1> QED
  BY <1>2, <1>3, RelayInvariant, PTL
=============================================================================
