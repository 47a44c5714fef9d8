---------------------------- MODULE RelayBilling ----------------------------
(***************************************************************************)
(* The billing of relayed requests: the quota check and the hold taken     *)
(* before a request is forwarded (PreConsumeQuota), the loop over upstream *)
(* channels (Relay), the settlement against the wallet or a subscription   *)
(* (RecordConsumeWithBilling, PostConsumeQuota), and the refund Relay      *)
(* defers for everything that ends without a settlement (RefundQuota).     *)
(*                                                                         *)
(* Requests are goroutines of one user.  Each database transaction and     *)
(* each statement outside one is a step, so whatever other requests do     *)
(* between a check and the write that relies on it is modelled.            *)
(***************************************************************************)
EXTENDS Integers, FiniteSets, Sums

CONSTANTS Requests,
          Tokens,        \* API keys of the user
          TokenOf,       \* [Requests -> Tokens]
          Unlimited,     \* tokens with UnlimitedQuota
          Estimates,     \* what PreConsumeQuota can estimate, at least 1
          Costs,         \* what CalculateQuota can return
          Channels,      \* how many channels SelectChannel returns
          StartQuota,    \* User.Quota at the start
          StartRemain,   \* Token.RemainQuota at the start
          NotCached,     \* no TokenCache entry
          SubQuota,      \* UserSubscription.Quota, 0 for no subscription
          MaxDeposits,   \* bound on top-ups, of one unit each
          MaxDBErrors,   \* bound on failed transactions
          MaxCrashes     \* bound on server crashes

ASSUME RequestsFinite == IsFiniteSet(Requests)
ASSUME TokensAssumption == IsFiniteSet(Tokens) /\ TokenOf \in [Requests -> Tokens] /\ Unlimited \subseteq Tokens
ASSUME AmountsAssumption == Estimates \subseteq Nat \ {0} /\ Costs \subseteq Nat
ASSUME StartAssumption == /\ StartQuota \in Nat /\ SubQuota \in Nat
                          /\ StartRemain \in [Tokens -> Nat]
                          /\ Channels \in Nat \ {0}
ASSUME NotCachedAssumption == NotCached \notin Int
ASSUME BoundsAssumption == MaxDeposits \in Nat /\ MaxDBErrors \in Nat /\ MaxCrashes \in Nat

Preferences == {"subscription_first", "wallet_first", "subscription_only", "wallet_only"}

VARIABLES
  quota, usedQuota,     \* User.Quota, User.UsedQuota
  remain, tokenUsed,    \* Token.RemainQuota, Token.UsedQuota
  preference,           \* User.BillingPreference
  subActive, subUsed,   \* a subscription is usable; UserSubscription.UsedQuota
  pc,                   \* where each request is
  cached,               \* the RemainQuota in the shared TokenCache entry
  seen,                 \* the RemainQuota of the request's own Token value
  pre,                  \* preConsumedQuota
  cost,                 \* finalQuota
  tries,                \* channels that have failed
  billingSettled,       \* the flag the deferred refund looks at
  outcome,              \* what has become of the hold
  paidBySub,            \* the subscription was charged for the request
  deposits, dbErrors, crashes

userVars == <<quota, usedQuota>>
tokVars  == <<remain, tokenUsed>>
subVars  == <<preference, subActive, subUsed>>
reqVars  == <<pc, cached, seen, pre, cost, tries, billingSettled, outcome, paidBySub>>
envVars  == <<deposits, dbErrors, crashes>>
vars     == <<quota, usedQuota, remain, tokenUsed, preference, subActive, subUsed,
              pc, cached, seen, pre, cost, tries, billingSettled, outcome, paidBySub,
              deposits, dbErrors, crashes>>

Phases == {"new", "arrived", "checked", "relaying", "settling", "askWallet",
           "askSub", "payWallet", "paySub", "chargeSub", "returning", "done"}

TypeOK ==
  /\ quota \in Int /\ usedQuota \in Nat
  /\ remain \in [Tokens -> Int] /\ tokenUsed \in [Tokens -> Nat]
  /\ preference \in Preferences /\ subActive \in BOOLEAN /\ subUsed \in Nat
  /\ pc \in [Requests -> Phases]
  /\ cached \in [Tokens -> Int \cup {NotCached}] /\ seen \in [Requests -> Int]
  /\ pre \in [Requests -> Nat] /\ cost \in [Requests -> Nat]
  /\ tries \in [Requests -> Nat]
  /\ billingSettled \in [Requests -> BOOLEAN]
  /\ outcome \in [Requests -> {"none", "held", "rejected", "refunded", "wallet", "subscription", "lost"}]
  /\ paidBySub \in [Requests -> BOOLEAN]
  /\ deposits \in Nat /\ dbErrors \in Nat /\ crashes \in Nat

Init ==
  /\ quota = StartQuota /\ usedQuota = 0
  /\ remain = StartRemain /\ tokenUsed = [t \in Tokens |-> 0]
  /\ preference \in Preferences /\ subActive = (SubQuota > 0) /\ subUsed = 0
  /\ pc = [r \in Requests |-> "new"]
  /\ cached = [t \in Tokens |-> NotCached] /\ seen = [r \in Requests |-> 0]
  /\ pre = [r \in Requests |-> 0] /\ cost = [r \in Requests |-> 0]
  /\ tries = [r \in Requests |-> 0]
  /\ billingSettled = [r \in Requests |-> FALSE]
  /\ outcome = [r \in Requests |-> "none"]
  /\ paidBySub = [r \in Requests |-> FALSE]
  /\ deposits = 0 /\ dbErrors = 0 /\ crashes = 0

Limited(r) == TokenOf[r] \notin Unlimited

GoTo(r, p) == pc' = [pc EXCEPT ![r] = p]

\* A token row is only charged when its quota is limited.
TokenLess(r, n) == IF Limited(r) THEN [remain EXCEPT ![TokenOf[r]] = @ - n] ELSE remain

DBError == dbErrors < MaxDBErrors /\ dbErrors' = dbErrors + 1

-----------------------------------------------------------------------------
(* Before the upstream call.                                               *)

\* GetTokenByKey: the entry other requests have left in Redis, or else the row,
\* which becomes the entry.
Authenticate(r) ==
  LET t == TokenOf[r]
      value == IF cached[t] = NotCached THEN remain[t] ELSE cached[t]
  IN /\ pc[r] = "new"
     /\ seen' = [seen EXCEPT ![r] = value]
     /\ cached' = [cached EXCEPT ![t] = value]
     /\ GoTo(r, "arrived")
     /\ UNCHANGED <<userVars, tokVars, subVars, pre, cost, tries, billingSettled, outcome, paidBySub, envVars>>

Reject(r) == /\ GoTo(r, "done")
             /\ outcome' = [outcome EXCEPT ![r] = "rejected"]

\* PreConsumeQuota: the estimate against the snapshot and the user's row.
CheckQuota(r, e) ==
  /\ pc[r] = "arrived"
  /\ pre' = [pre EXCEPT ![r] = e]
  /\ IF (Limited(r) => seen[r] >= e) /\ quota >= e
     THEN GoTo(r, "checked") /\ UNCHANGED outcome
     ELSE Reject(r)
  /\ UNCHANGED <<userVars, tokVars, subVars, cached, seen, cost, tries, billingSettled, paidBySub, envVars>>

\* Seeded bug: the UPDATE of the key loses its WHERE and RowsAffected check.
BugTokenCovers(r) == TRUE

UserCovers(r) == quota >= pre[r]
TokenCovers(r) == Limited(r) => remain[TokenOf[r]] >= pre[r]

\* The transaction of PreConsumeQuota: both conditional UPDATEs, or neither.
HoldTx(r) ==
  /\ pc[r] = "checked"
  /\ IF UserCovers(r) /\ TokenCovers(r)
     THEN /\ quota' = quota - pre[r]
          /\ remain' = TokenLess(r, pre[r])
          /\ outcome' = [outcome EXCEPT ![r] = "held"]
          /\ GoTo(r, "relaying")
     ELSE Reject(r) /\ UNCHANGED <<quota, remain>>
  /\ UNCHANGED <<usedQuota, tokenUsed, subVars, cached, seen, pre, cost, tries, billingSettled, paidBySub, envVars>>

HoldTxFails(r) ==
  /\ pc[r] = "checked" /\ DBError
  /\ Reject(r)
  /\ UNCHANGED <<userVars, tokVars, subVars, cached, seen, pre, cost, tries, billingSettled, paidBySub, deposits, crashes>>

-----------------------------------------------------------------------------
(* The loop over channels.                                                 *)

\* A channel fails in a way that lets the next one be tried; after the last
\* one Relay answers with an error and returns.
ChannelFails(r) ==
  /\ pc[r] = "relaying"
  /\ tries' = [tries EXCEPT ![r] = @ + 1]
  /\ GoTo(r, IF tries[r] + 1 < Channels THEN "relaying" ELSE "returning")
  /\ UNCHANGED <<userVars, tokVars, subVars, cached, seen, pre, cost, billingSettled, outcome, paidBySub, envVars>>

\* The sanitizer blocks the request, the upstream error is not retried, the
\* answer carries no usage, or the handler panics: Relay returns unsettled.
ReturnUnsettled(r) ==
  /\ pc[r] = "relaying"
  /\ GoTo(r, "returning")
  /\ UNCHANGED <<userVars, tokVars, subVars, cached, seen, pre, cost, tries, billingSettled, outcome, paidBySub, envVars>>

\* The upstream answers with a usage, which CalculateQuota prices.
UpstreamAnswers(r, c) ==
  /\ pc[r] = "relaying"
  /\ cost' = [cost EXCEPT ![r] = c]
  /\ GoTo(r, "settling")
  /\ UNCHANGED <<userVars, tokVars, subVars, cached, seen, pre, tries, billingSettled, outcome, paidBySub, envVars>>

-----------------------------------------------------------------------------
(* RecordConsumeWithBilling.                                               *)

\* hasActiveSubscriptionQuota.
SubCovers(r) == subActive /\ subUsed + cost[r] <= SubQuota

\* getUserBillingPreference.
ReadPreference(r) ==
  /\ pc[r] = "settling"
  /\ GoTo(r, CASE preference = "wallet_only"  -> "payWallet"
              [] preference = "wallet_first" -> "askWallet"
              [] OTHER                       -> "askSub")
  /\ UNCHANGED <<userVars, tokVars, subVars, cached, seen, pre, cost, tries, billingSettled, outcome, paidBySub, envVars>>

\* wallet_first: the wallet pays if it covers the cost once the hold is back.
AskWallet(r) ==
  /\ pc[r] = "askWallet"
  /\ GoTo(r, IF quota + pre[r] >= cost[r] THEN "payWallet" ELSE "askSub")
  /\ UNCHANGED <<userVars, tokVars, subVars, cached, seen, pre, cost, tries, billingSettled, outcome, paidBySub, envVars>>

\* The wallet pays whatever the subscription does not cover.
AskSubscription(r) ==
  /\ pc[r] = "askSub"
  /\ GoTo(r, IF SubCovers(r) THEN "paySub" ELSE "payWallet")
  /\ UNCHANGED <<userVars, tokVars, subVars, cached, seen, pre, cost, tries, billingSettled, outcome, paidBySub, envVars>>

\* Seeded bug: the flag is not set.
BugSettled(r) == billingSettled

\* Relay sets the flag when RecordConsumeWithBilling is back, whatever it did.
Settled(r) == [billingSettled EXCEPT ![r] = TRUE]

\* Seeded bug: the whole cost is charged on top of the hold.
BugDelta(r) == cost[r]

\* PostConsumeQuota: the difference between the cost and the hold.
Delta(r) == cost[r] - pre[r]

PostConsumeQuota(r) ==
  /\ pc[r] = "payWallet"
  /\ quota' = quota - Delta(r)
  /\ usedQuota' = usedQuota + cost[r]
  /\ remain' = TokenLess(r, Delta(r))
  /\ tokenUsed' = [tokenUsed EXCEPT ![TokenOf[r]] = @ + cost[r]]
  /\ outcome' = [outcome EXCEPT ![r] = "wallet"]
  /\ billingSettled' = Settled(r)
  /\ GoTo(r, "returning")
  /\ UNCHANGED <<subVars, cached, seen, pre, cost, tries, paidBySub, envVars>>

\* Its transaction is rolled back; the error is logged.
PostConsumeFails(r) ==
  /\ pc[r] = "payWallet" /\ DBError
  /\ outcome' = [outcome EXCEPT ![r] = "lost"]
  /\ billingSettled' = Settled(r)
  /\ GoTo(r, "returning")
  /\ UNCHANGED <<userVars, tokVars, subVars, cached, seen, pre, cost, tries, paidBySub, deposits, crashes>>

\* RefundQuota: the hold goes back to the user and to the token.
GiveBack(r) == /\ quota' = quota + pre[r]
               /\ remain' = TokenLess(r, -pre[r])
               /\ UNCHANGED <<usedQuota, tokenUsed>>

\* The subscription pays: first the hold is returned ...
SubRefund(r) ==
  /\ pc[r] = "paySub"
  /\ GiveBack(r)
  /\ outcome' = [outcome EXCEPT ![r] = "subscription"]
  /\ GoTo(r, "chargeSub")
  /\ UNCHANGED <<subVars, cached, seen, pre, cost, tries, billingSettled, paidBySub, envVars>>

\* ... an error of which is not looked at ...
SubRefundFails(r) ==
  /\ pc[r] = "paySub" /\ DBError
  /\ outcome' = [outcome EXCEPT ![r] = "lost"]
  /\ GoTo(r, "chargeSub")
  /\ UNCHANGED <<userVars, tokVars, subVars, cached, seen, pre, cost, tries, billingSettled, paidBySub, deposits, crashes>>

\* ... then the pool is charged, by the row id alone.
SubCharge(r) ==
  /\ pc[r] = "chargeSub"
  /\ subUsed' = subUsed + cost[r]
  /\ paidBySub' = [paidBySub EXCEPT ![r] = TRUE]
  /\ billingSettled' = Settled(r)
  /\ GoTo(r, "returning")
  /\ UNCHANGED <<userVars, tokVars, preference, subActive, cached, seen, pre, cost, tries, outcome, envVars>>

SubChargeFails(r) ==
  /\ pc[r] = "chargeSub" /\ DBError
  /\ billingSettled' = Settled(r)
  /\ GoTo(r, "returning")
  /\ UNCHANGED <<userVars, tokVars, subVars, cached, seen, pre, cost, tries, outcome, paidBySub, deposits, crashes>>

-----------------------------------------------------------------------------
(* Relay returns: the deferred refund.                                     *)

ReturnSettled(r) ==
  /\ pc[r] = "returning" /\ billingSettled[r]
  /\ GoTo(r, "done")
  /\ UNCHANGED <<userVars, tokVars, subVars, cached, seen, pre, cost, tries, billingSettled, outcome, paidBySub, envVars>>

\* Seeded bug: Relay returns without the deferred call.
BugDeferredRefund(r) ==
  /\ pc[r] = "returning" /\ ~billingSettled[r]
  /\ GoTo(r, "done")
  /\ UNCHANGED <<userVars, tokVars, subVars, cached, seen, pre, cost, tries, billingSettled, outcome, paidBySub, envVars>>

DeferredRefund(r) ==
  /\ pc[r] = "returning" /\ ~billingSettled[r]
  /\ GiveBack(r)
  /\ outcome' = [outcome EXCEPT ![r] = "refunded"]
  /\ GoTo(r, "done")
  /\ UNCHANGED <<subVars, cached, seen, pre, cost, tries, billingSettled, paidBySub, envVars>>

DeferredRefundFails(r) ==
  /\ pc[r] = "returning" /\ ~billingSettled[r] /\ DBError
  /\ outcome' = [outcome EXCEPT ![r] = "lost"]
  /\ GoTo(r, "done")
  /\ UNCHANGED <<userVars, tokVars, subVars, cached, seen, pre, cost, tries, billingSettled, paidBySub, deposits, crashes>>

-----------------------------------------------------------------------------
(* Around the requests.                                                    *)

\* The server dies.  Holds are only remembered by the goroutines.
Crash ==
  /\ crashes < MaxCrashes /\ crashes' = crashes + 1
  /\ pc' = [r \in Requests |-> IF pc[r] = "new" THEN "new" ELSE "done"]
  /\ outcome' = [r \in Requests |-> IF outcome[r] = "held" THEN "lost" ELSE outcome[r]]
  /\ UNCHANGED <<userVars, tokVars, subVars, cached, seen, pre, cost, tries, billingSettled, paidBySub, deposits, dbErrors>>

\* RechargeOrder credits the wallet.
TopUp ==
  /\ deposits < MaxDeposits /\ deposits' = deposits + 1
  /\ quota' = quota + 1
  /\ UNCHANGED <<usedQuota, tokVars, subVars, reqVars, dbErrors, crashes>>

\* ExpireSubscriptions, or its time is simply over.
SubscriptionEnds ==
  /\ subActive /\ subActive' = FALSE
  /\ UNCHANGED <<userVars, tokVars, preference, subUsed, reqVars, envVars>>

\* Five minutes after the entry was written.
CacheExpires(t) ==
  /\ cached[t] # NotCached
  /\ cached' = [cached EXCEPT ![t] = NotCached]
  /\ UNCHANGED <<userVars, tokVars, subVars, pc, seen, pre, cost, tries, billingSettled, outcome, paidBySub, envVars>>

\* UpdateSubscriptionPreference.
UpdatePreference ==
  /\ preference' \in Preferences \ {preference}
  /\ UNCHANGED <<userVars, tokVars, subActive, subUsed, reqVars, envVars>>

Serve(r) ==
  \/ \E e \in Estimates : CheckQuota(r, e)
  \/ HoldTx(r)
  \/ ChannelFails(r) \/ ReturnUnsettled(r) \/ \E c \in Costs : UpstreamAnswers(r, c)
  \/ ReadPreference(r) \/ AskWallet(r) \/ AskSubscription(r)
  \/ PostConsumeQuota(r)
  \/ SubRefund(r) \/ SubCharge(r)
  \/ ReturnSettled(r) \/ DeferredRefund(r)

Fail(r) == HoldTxFails(r) \/ PostConsumeFails(r) \/ SubRefundFails(r)
             \/ SubChargeFails(r) \/ DeferredRefundFails(r)

Next == \/ \E r \in Requests : Authenticate(r) \/ Serve(r) \/ Fail(r)
        \/ Crash \/ TopUp \/ SubscriptionEnds \/ UpdatePreference
        \/ \E t \in Tokens : CacheExpires(t)

Spec == Init /\ [][Next]_vars

\* A goroutine that has started runs to its end; every upstream call returns.
FairSpec == Spec /\ \A r \in Requests : WF_vars(Serve(r))

-----------------------------------------------------------------------------
(* Safety.                                                                 *)

\* What a goroutine's place says about its hold.  It is what makes every path
\* out of Relay close the hold exactly once: the hold is open until a
\* settlement or the deferred refund, and the flag is up once it is not.
HoldOf(r) ==
  /\ pc[r] \in {"new", "arrived", "checked"} => outcome[r] = "none" /\ ~billingSettled[r]
  /\ pc[r] \in {"relaying", "settling", "askWallet", "askSub", "payWallet", "paySub"}
       => outcome[r] = "held" /\ ~billingSettled[r]
  /\ pc[r] = "chargeSub" => outcome[r] \in {"subscription", "lost"} /\ ~billingSettled[r]
  /\ pc[r] = "returning" =>
       \/ outcome[r] = "held" /\ ~billingSettled[r]
       \/ outcome[r] \in {"wallet", "subscription", "lost"} /\ billingSettled[r]
  /\ pc[r] = "done" => outcome[r] # "held"

\* Every request's hold is where its goroutine believes it to be, whichever
\* channel failed and whichever transaction was rolled back (Relay's deferred
\* refund, RecordConsumeWithBilling).
RelayInv == TypeOK /\ \A r \in Requests : HoldOf(r)

\* The wallet cost more than its estimate.
Underestimated(r) == outcome[r] = "wallet" /\ cost[r] > pre[r]

\* The conditional UPDATEs of PreConsumeQuota keep the wallet and every key
\* from going below zero however requests overlap; only PostConsumeQuota's
\* unconditional correction of an estimate that was too low can do it.
OverdrawnOnlyByUnderestimate ==
  /\ quota < 0 => \E r \in Requests : Underestimated(r)
  /\ \A t \in Tokens \ Unlimited :
       remain[t] < 0 => \E r \in Requests : TokenOf[r] = t /\ Underestimated(r)

\* A request that was answered and priced is charged exactly once, to the
\* wallet or to the subscription, unless a transaction failed or the server
\* died (Relay, RecordConsumeWithBilling and the deferred refund together).
ChargedExactlyOnce ==
  \A r \in Requests :
    pc[r] = "done" /\ cost[r] > 0 /\ dbErrors = 0 /\ crashes = 0
      => (outcome[r] = "wallet" <=> ~paidBySub[r])

\* What a request has taken out of the wallet for good or for now.
WalletShare(r) == IF outcome[r] \in {"held", "lost"} THEN pre[r]
                  ELSE IF outcome[r] = "wallet" THEN cost[r] ELSE 0

\* What it has cost the wallet, and what the subscription.
WalletCost(r) == IF outcome[r] = "wallet" THEN cost[r] ELSE 0
SubCost(r) == IF paidBySub[r] THEN cost[r] ELSE 0

Shares == [r \in Requests |-> WalletShare(r)]
RequestsOf(t) == {r \in Requests : TokenOf[r] = t}

\* The wallet is what was paid in less what the requests have taken, and the same
\* holds for every limited key.
MoneyConserved ==
  /\ quota + Sum(Shares, Requests) = StartQuota + deposits
  /\ \A t \in Tokens \ Unlimited : remain[t] + Sum(Shares, RequestsOf(t)) = StartRemain[t]

\* users.used_quota and tokens.used_quota count the wallet's settlements,
\* user_subscriptions.used_quota the rest.
StatisticsAgree ==
  /\ usedQuota = Sum([r \in Requests |-> WalletCost(r)], Requests)
  /\ usedQuota = Sum(tokenUsed, Tokens)
  /\ subUsed = Sum([r \in Requests |-> SubCost(r)], Requests)

\* No step of PreConsumeQuota, PostConsumeQuota or RefundQuota creates or
\* destroys quota, the statistics agree with the money, and a request that was
\* answered and priced is charged exactly once.
WalletConserved == ChargedExactlyOnce /\ MoneyConserved /\ StatisticsAgree

\* The wallet as a ledger of holds: what an outcome means for the hold.
HoldState(r) == IF outcome[r] \in {"none", "rejected"} THEN "none"
                ELSE IF outcome[r] \in {"held", "lost"} THEN "open" ELSE "closed"

Ledger == INSTANCE HoldLedger WITH
            balance <- quota,
            paidIn  <- deposits,
            hold    <- [r \in Requests |-> HoldState(r)],
            amount  <- [r \in Requests |-> IF HoldState(r) = "none" THEN 0 ELSE pre[r]]

\* Every step of the relay is a step of the ledger: a hold is covered when it
\* is taken, closed at most once, and never by more than it took.
ImplementsHoldLedger == Ledger!HLSpec

-----------------------------------------------------------------------------
(* Liveness.                                                               *)

\* No hold stays open: Relay's deferred function runs on every return, and the
\* loop over channels ends.
EveryHoldEnds == \A r \in Requests : outcome[r] = "held" ~> outcome[r] # "held"
=============================================================================
