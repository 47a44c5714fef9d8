------------------------------ MODULE PostPaid ------------------------------
(***************************************************************************)
(* Requests that are billed after they have been answered (RelayResponses, *)
(* the Claude and Gemini endpoints): the handler answers and starts        *)
(* RecordConsumeLog as a goroutine, which reads the billing group from the *)
(* request's gin.Context, opens a transaction, and inside it asks the      *)
(* database once more, on another connection, for the preference and the   *)
(* subscription.  The log row goes through the queue of log_queue.go.      *)
(*                                                                         *)
(* gin takes contexts from a pool and puts them back when the handler      *)
(* returns, which need not be when the goroutine has read them.  The       *)
(* connection pool (InitDB) has one connection with SQLite, 100 otherwise; *)
(* a query outside a transaction borrows one for a moment.                 *)
(***************************************************************************)
EXTENDS Integers, FiniteSets, Sums

CONSTANTS Requests,
          Contexts,     \* gin.Context values in the pool
          Groups,       \* billing groups
          Home,         \* the user's own group
          Unset,        \* no billing_group key in a context
          Cost,         \* [Groups -> Nat], the price of a request in a group
          Conns,        \* SetMaxOpenConns
          LogCap,       \* capacity of logQueue
          BatchSize,    \* rows flushWorker collects before it must flush
          StartQuota,   \* User.Quota at the start
          SubQuota,     \* UserSubscription.Quota, 0 for none
          MaxDBErrors   \* bound on failed commits and inserts

ASSUME RequestsFinite == IsFiniteSet(Requests)
ASSUME GroupsAssumption == Home \in Groups /\ Unset \notin Groups /\ Cost \in [Groups -> Nat]
ASSUME PoolAssumption == Conns \in Nat \ {0} /\ LogCap \in Nat /\ BatchSize \in Nat \ {0}
ASSUME AmountsAssumption == StartQuota \in Nat /\ SubQuota \in Nat /\ MaxDBErrors \in Nat

Preferences == {"subscription_first", "wallet_first", "subscription_only", "wallet_only"}

VARIABLES
  at,          \* the handler: "new", "serving", "answered", "gone"
  ctx,         \* the context the request was given
  key,         \* [Contexts -> Groups \cup {Unset}], billing_group in a context
  hit,         \* the group of the channel that served the request
  bill,        \* where RecordConsumeLog is
  priced,      \* the group it prices the request by
  result,      \* "none", "wallet", "subscription", "refused", "failed"
  quota, subUsed, preference,
  queued, buffer,   \* log rows in logQueue and in flushWorker's buffer
  written,     \* [Requests -> Nat], log rows in the database
  dropped,     \* log rows lost to a failed batch
  dbErrors

reqVars  == <<at, ctx, key, hit>>
billVars == <<bill, priced, result>>
logVars  == <<queued, buffer, written, dropped>>
moneyVars == <<quota, subUsed>>
vars == <<at, ctx, key, hit, bill, priced, result, quota, subUsed, preference,
          queued, buffer, written, dropped, dbErrors>>

InTx == {"pref", "walletOnly", "walletFirst", "subOnly", "subFirst", "payWallet", "paySub"}

TypeOK ==
  /\ at \in [Requests -> {"new", "serving", "answered", "gone"}]
  /\ ctx \in [Requests -> Contexts] /\ key \in [Contexts -> Groups \cup {Unset}]
  /\ hit \in [Requests -> Groups \cup {Unset}]
  /\ bill \in [Requests -> {"none", "read", "begin", "done"} \cup InTx]
  /\ priced \in [Requests -> Groups \cup {Unset}]
  /\ result \in [Requests -> {"none", "wallet", "subscription", "refused", "failed"}]
  /\ quota \in Int /\ subUsed \in Nat /\ preference \in Preferences
  /\ queued \subseteq Requests /\ buffer \subseteq Requests /\ dropped \subseteq Requests
  /\ written \in [Requests -> Nat] /\ dbErrors \in Nat

Init ==
  /\ at = [r \in Requests |-> "new"]
  /\ ctx \in [Requests -> Contexts] /\ key = [x \in Contexts |-> Unset]
  /\ hit = [r \in Requests |-> Unset]
  /\ bill = [r \in Requests |-> "none"] /\ priced = [r \in Requests |-> Unset]
  /\ result = [r \in Requests |-> "none"]
  /\ quota = StartQuota /\ subUsed = 0 /\ preference \in Preferences
  /\ queued = {} /\ buffer = {} /\ dropped = {} /\ written = [r \in Requests |-> 0]
  /\ dbErrors = 0

-----------------------------------------------------------------------------
(* The handler and its context.                                            *)

\* gin takes a free context from the pool and resets its keys.
TakeContext(r) ==
  /\ at[r] = "new" /\ \A q \in Requests : at[q] \in {"serving", "answered"} => ctx[q] # ctx[r]
  /\ at' = [at EXCEPT ![r] = "serving"]
  /\ key' = [key EXCEPT ![ctx[r]] = Unset]
  /\ UNCHANGED <<ctx, hit, billVars, moneyVars, preference, logVars, dbErrors>>

\* Seeded bug: only the first channel tried is recorded.
BugRecorded(k, x, g) == IF k[x] = Unset THEN [k EXCEPT ![x] = g] ELSE k

\* c.Set("billing_group", channelGroups[i]).
Recorded(k, x, g) == [k EXCEPT ![x] = g]

\* A channel is tried.
TryChannel(r, g) ==
  /\ at[r] = "serving" /\ g # hit[r]
  /\ hit' = [hit EXCEPT ![r] = g]
  /\ key' = Recorded(key, ctx[r], g)
  /\ UNCHANGED <<at, ctx, billVars, moneyVars, preference, logVars, dbErrors>>

\* The channel has answered: go RecordConsumeLog(c, ...).
Answer(r) ==
  /\ at[r] = "serving" /\ hit[r] # Unset
  /\ at' = [at EXCEPT ![r] = "answered"]
  /\ bill' = [bill EXCEPT ![r] = "read"]
  /\ UNCHANGED <<ctx, key, hit, priced, result, moneyVars, preference, logVars, dbErrors>>

\* Every channel has failed: nothing is billed.
GiveUp(r) ==
  /\ at[r] = "serving"
  /\ at' = [at EXCEPT ![r] = "gone"]
  /\ UNCHANGED <<ctx, key, hit, billVars, moneyVars, preference, logVars, dbErrors>>

\* The handler returns; its context is free for the next request.
Return(r) ==
  /\ at[r] = "answered"
  /\ at' = [at EXCEPT ![r] = "gone"]
  /\ UNCHANGED <<ctx, key, hit, billVars, moneyVars, preference, logVars, dbErrors>>

-----------------------------------------------------------------------------
(* The connection pool.                                                    *)

Busy == {r \in Requests : bill[r] \in InTx}

\* Some connection is free for a query or a transaction.
ConnFree == Cardinality(Busy) < Conns

BillTo(r, p) == bill' = [bill EXCEPT ![r] = p]

Price(r) == Cost[priced[r]]

-----------------------------------------------------------------------------
(* RecordConsumeLog.                                                       *)

\* The user's groups are queried and the billing group is read from c.
ReadGroup(r) ==
  /\ bill[r] = "read" /\ ConnFree
  /\ priced' = [priced EXCEPT ![r] = IF key[ctx[r]] = Unset THEN Home ELSE key[ctx[r]]]
  /\ BillTo(r, "begin")
  /\ UNCHANGED <<reqVars, result, moneyVars, preference, logVars, dbErrors>>

BeginTx(r) ==
  /\ bill[r] = "begin" /\ ConnFree
  /\ BillTo(r, "pref")
  /\ UNCHANGED <<reqVars, priced, result, moneyVars, preference, logVars, dbErrors>>

\* getUserBillingPreference asks common.DB, not tx: a second connection.
ReadPreference(r) ==
  /\ bill[r] = "pref" /\ ConnFree
  /\ BillTo(r, CASE preference = "wallet_only"       -> "walletOnly"
                 [] preference = "wallet_first"      -> "walletFirst"
                 [] preference = "subscription_only" -> "subOnly"
                 [] OTHER                            -> "subFirst")
  /\ UNCHANGED <<reqVars, priced, result, moneyVars, preference, logVars, dbErrors>>

\* Seeded bug: the transaction is left open.
BugRefuse(r) == UNCHANGED bill /\ result' = [result EXCEPT ![r] = "refused"]

\* The transaction is rolled back, nothing is logged.
Refuse(r) == BillTo(r, "done") /\ result' = [result EXCEPT ![r] = "refused"]

\* The balance is read through tx.
AskWallet(r) ==
  /\ bill[r] \in {"walletOnly", "walletFirst"}
  /\ \/ quota >= Price(r) /\ BillTo(r, "payWallet") /\ UNCHANGED result
     \/ quota < Price(r) /\ bill[r] = "walletFirst" /\ BillTo(r, "subOnly") /\ UNCHANGED result
     \/ quota < Price(r) /\ bill[r] = "walletOnly" /\ Refuse(r)
  /\ UNCHANGED <<reqVars, priced, moneyVars, preference, logVars, dbErrors>>

\* hasActiveSubscriptionQuota asks common.DB as well.
AskSubscription(r) ==
  /\ bill[r] \in {"subOnly", "subFirst"} /\ ConnFree
  /\ LET covered == SubQuota > 0 /\ subUsed + Price(r) <= SubQuota
     IN \/ covered /\ BillTo(r, "paySub") /\ UNCHANGED result
        \/ ~covered /\ bill[r] = "subFirst" /\ BillTo(r, "payWallet") /\ UNCHANGED result
        \/ ~covered /\ bill[r] = "subOnly" /\ Refuse(r)
  /\ UNCHANGED <<reqVars, priced, moneyVars, preference, logVars, dbErrors>>

\* EnqueueLog: into the queue, or with another connection into the table.
EnqueueLog(r) ==
  /\ \/ /\ Cardinality(queued) < LogCap
        /\ queued' = queued \cup {r} /\ UNCHANGED written
     \/ /\ Cardinality(queued) >= LogCap /\ ConnFree
        /\ written' = [written EXCEPT ![r] = @ + 1] /\ UNCHANGED queued
  /\ UNCHANGED <<buffer, dropped>>

\* The deduction, the log row and the commit.
Pay(r) ==
  /\ \/ /\ bill[r] = "payWallet"
        /\ quota' = quota - Price(r) /\ UNCHANGED subUsed
        /\ result' = [result EXCEPT ![r] = "wallet"]
     \/ /\ bill[r] = "paySub"
        /\ subUsed' = subUsed + Price(r) /\ UNCHANGED quota
        /\ result' = [result EXCEPT ![r] = "subscription"]
  /\ EnqueueLog(r)
  /\ BillTo(r, "done")
  /\ UNCHANGED <<reqVars, priced, preference, dbErrors>>

RolledBack(r) == UNCHANGED moneyVars

\* The log row is on its way when the commit fails.
CommitFails(r) ==
  /\ bill[r] \in {"payWallet", "paySub"}
  /\ dbErrors < MaxDBErrors /\ dbErrors' = dbErrors + 1
  /\ EnqueueLog(r)
  /\ result' = [result EXCEPT ![r] = "failed"]
  /\ BillTo(r, "done")
  /\ RolledBack(r)
  /\ UNCHANGED <<reqVars, priced, preference>>

-----------------------------------------------------------------------------
(* flushWorker.                                                            *)

Receive(r) ==
  /\ r \in queued /\ Cardinality(buffer) < BatchSize
  /\ queued' = queued \ {r} /\ buffer' = buffer \cup {r}
  /\ UNCHANGED <<reqVars, billVars, moneyVars, preference, written, dropped, dbErrors>>

\* Seeded bug: the buffer is not emptied after a batch.
BugEmptied(b) == b

Emptied(b) == {}

\* Seeded bug: only a full batch is written, the ticker does nothing.
BugFlushDue(b) == Cardinality(b) >= BatchSize

\* The ticker fires, or the batch is full.
FlushDue(b) == b # {}

Flush ==
  /\ FlushDue(buffer) /\ ConnFree
  /\ written' = [r \in Requests |-> IF r \in buffer THEN written[r] + 1 ELSE written[r]]
  /\ buffer' = Emptied(buffer)
  /\ UNCHANGED <<reqVars, billVars, moneyVars, preference, queued, dropped, dbErrors>>

\* The batch is lost with the error.
FlushFails ==
  /\ FlushDue(buffer) /\ ConnFree
  /\ dbErrors < MaxDBErrors /\ dbErrors' = dbErrors + 1
  /\ dropped' = dropped \cup buffer
  /\ buffer' = Emptied(buffer)
  /\ UNCHANGED <<reqVars, billVars, moneyVars, preference, queued, written>>

UpdatePreference ==
  /\ preference' \in Preferences \ {preference}
  /\ UNCHANGED <<reqVars, billVars, moneyVars, logVars, dbErrors>>

RecordConsumeLog(r) ==
  \/ ReadGroup(r) \/ BeginTx(r) \/ ReadPreference(r)
  \/ AskWallet(r) \/ AskSubscription(r) \/ Pay(r)

Next ==
  \/ \E r \in Requests : \/ TakeContext(r) \/ Answer(r) \/ GiveUp(r) \/ Return(r)
                         \/ \E g \in Groups : TryChannel(r, g)
                         \/ RecordConsumeLog(r) \/ CommitFails(r) \/ Receive(r)
  \/ Flush \/ FlushFails \/ UpdatePreference

Spec == Init /\ [][Next]_vars

\* Goroutines run; database/sql serves those that wait for a connection in turn.
FairSpec ==
  /\ Spec
  /\ \A r \in Requests : SF_vars(RecordConsumeLog(r))
  /\ WF_vars(\E r \in Requests : Receive(r)) /\ SF_vars(Flush)

-----------------------------------------------------------------------------
(* Properties.                                                             *)

\* Where a bill stands and what it has done agree: it is priced once it has read
\* the context, has an outcome exactly when its transaction is over, and no more
\* transactions are open than the pool has connections.
BillsAgree ==
  /\ \A r \in Requests :
       /\ bill[r] # "none" => at[r] \in {"answered", "gone"} /\ hit[r] # Unset
       /\ priced[r] = Unset <=> bill[r] \in {"none", "read"}
       /\ result[r] = "none" <=> bill[r] # "done"
  /\ Cardinality(Busy) <= Conns

\* Every charge has its log row, queued, written or lost with a failed batch, a
\* full queue included (EnqueueLog, flushWorker).
ChargesAreLogged ==
  \A r \in Requests : result[r] \in {"wallet", "subscription"} =>
    r \in queued \cup buffer \cup dropped \/ written[r] > 0

\* No request is logged twice, although a row may go through the queue and the
\* worker's reused buffer, or straight into the table.
LoggedAtMostOnce ==
  \A r \in Requests :
    /\ written[r] <= 1
    /\ written[r] = 1 => r \notin queued \cup buffer \cup dropped
    /\ r \in queued => r \notin buffer

\* What RecordConsumeLog and the log queue keep to: bills, charges and log rows agree.
PostPaidInv == TypeOK /\ BillsAgree /\ ChargesAreLogged /\ LoggedAtMostOnce

\* What the requests paid from a source add up to.
Amounts(source) == [r \in Requests |-> IF result[r] = source THEN Price(r) ELSE 0]
Paid(source) == Sum(Amounts(source), Requests)

\* deductFromPrioritySource charges one source per request, by its price, and a
\* failed transaction none: wallet and subscription agree with the outcomes.
BooksBalance == quota = StartQuota - Paid("wallet") /\ subUsed = Paid("subscription")

\* One source is charged per request, by its price, and every charge is logged once, wherever
\* the log row has got to (RecordConsumeLog, EnqueueLog, flushWorker).
ChargedAndLogged == PostPaidInv /\ BooksBalance

\* The bill names another group than the one hit only if the handler had
\* returned its context before RecordConsumeLog read it.
WrongGroupOnlyAfterReturn ==
  [][\A r \in Requests : priced'[r] # priced[r] /\ priced'[r] # hit[r] => at[r] = "gone"]_vars

\* RecordConsumeLog always ends if connections outnumber transactions: the
\* queries it makes outside its transaction find one.
EveryBillingEnds == \A r \in Requests : bill[r] = "read" ~> bill[r] = "done"

\* A queued log row is taken out and written or lost; it does not stay in the
\* worker's buffer when nothing follows it.
EveryLogFlushed == \A r \in Requests : r \in queued ~> r \notin queued \cup buffer
=============================================================================
