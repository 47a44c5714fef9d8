---------------------------- MODULE PaymentOrders ----------------------------
(***************************************************************************)
(* The life of a payment order: created by the user, reported on by its    *)
(* payment provider (Stripe, Creem, an epay gateway), by a generic JSON    *)
(* callback or by an administrator, and delivered (quota credited or       *)
(* subscription activated) by RechargeOrder.                               *)
(*                                                                         *)
(* Sources: controller/payment.go, controller/payment_webhook.go,          *)
(* controller/subscription.go, service/payment/recharge.go,                *)
(* model/payment.go.                                                       *)
(*                                                                         *)
(* Notifications are messages the gateways may lose, delay, reorder and    *)
(* duplicate: a message, once sent, can be received any number of times,   *)
(* and the gateway sends it again until it is acknowledged.  Handlers are  *)
(* goroutines of several server instances over one database; the order     *)
(* lock is per instance (KeyedMutex), the rows are shared.                 *)
(***************************************************************************)
EXTENDS Naturals, FiniteSets

CONSTANTS Orders,       \* payment orders
          Workers,      \* handler goroutines
          Instances,    \* server processes
          InstanceOf,   \* [Workers -> Instances]
          MaxNotices,   \* bound on distinct notifications before the final one
          MaxCrashes,   \* bound on instance crashes
          MaxDBErrors   \* bound on failed transactions

ASSUME InstanceAssumption == InstanceOf \in [Workers -> Instances]
ASSUME OrdersAssumption == Orders # {}
ASSUME BoundsAssumption == MaxNotices \in Nat /\ MaxCrashes \in Nat /\ MaxDBErrors \in Nat

Providers == {"stripe", "creem", "epay"}
Channels  == Providers \cup {"json", "admin"}
Statuses  == {"absent", "pending", "paid", "failed", "expired"}

\* What a notification can say of the order, as far as the handlers tell apart.
Reports == {"success", "unpaid", "failure", "expired"}
Messages == [channel : Channels, order : Orders, report : Reports]

Msg(ch, o, r) == [channel |-> ch, order |-> o, report |-> r]

\* What an idle worker is said to handle.
NoTask == Msg("admin", CHOOSE o \in Orders : TRUE, "success")

VARIABLES
  status,     \* [Orders -> Statuses], PaymentOrder.Status
  provider,   \* [Orders -> Providers], PaymentOrder.Provider
  delivered,  \* [Orders -> Nat], how often the order was credited or activated
  session,    \* [Orders -> {"open", "paid", "closed"}], the provider's view
  sent,       \* notifications that exist
  unacked,    \* those the provider will send again
  manual,     \* orders an administrator has asked to complete
  pc,         \* [Workers -> ...], where the handler is
  task,       \* [Workers -> Messages], what it handles
  crashes, dbErrors

dbVars  == <<status, provider, delivered>>
gwVars  == <<session, sent, unacked, manual>>
vars    == <<status, provider, delivered, session, sent, unacked, manual,
             pc, task, crashes, dbErrors>>

TypeOK ==
  /\ status \in [Orders -> Statuses]
  /\ provider \in [Orders -> Providers]
  /\ delivered \in [Orders -> Nat]
  /\ session \in [Orders -> {"open", "paid", "closed"}]
  /\ sent \subseteq Messages
  /\ unacked \subseteq sent
  /\ manual \subseteq Orders
  /\ pc \in [Workers -> {"idle", "peek", "overwrite", "locking", "inTx"}]
  /\ task \in [Workers -> Messages]
  /\ crashes \in 0..MaxCrashes
  /\ dbErrors \in 0..MaxDBErrors

Init ==
  /\ status = [o \in Orders |-> "absent"]
  /\ provider \in [Orders -> Providers]
  /\ delivered = [o \in Orders |-> 0]
  /\ session = [o \in Orders |-> "open"]
  /\ sent = {} /\ unacked = {} /\ manual = {}
  /\ pc = [w \in Workers |-> "idle"]
  /\ task = [w \in Workers |-> NoTask]
  /\ crashes = 0 /\ dbErrors = 0

Send(m) == sent' = sent \cup {m} /\ unacked' = unacked \cup {m}

-----------------------------------------------------------------------------
(* The user and the gateways.                                              *)

\* CreatePayment (and, with a subscription row beside it, which Subscriptions
\* models, CreateSubscriptionOrder): one insert, status pending, after the
\* checkout page has been obtained from the provider.
CreatePayment(o) ==
  /\ status[o] = "absent"
  /\ status' = [status EXCEPT ![o] = "pending"]
  /\ UNCHANGED <<provider, delivered, gwVars, pc, task, crashes, dbErrors>>

\* The customer pays on the provider's page; the provider reports it, or a
\* collector that uses the JSON callback.
CustomerPays(o, ch) ==
  /\ status[o] # "absent" /\ session[o] = "open" /\ ch \in {provider[o], "json"}
  /\ session' = [session EXCEPT ![o] = "paid"]
  /\ Send(Msg(ch, o, "success"))
  /\ UNCHANGED <<dbVars, manual, pc, task, crashes, dbErrors>>

\* Stripe closes a session for good: the delayed payment failed, or the
\* session expired.
SessionCloses(o, r) ==
  /\ status[o] # "absent" /\ session[o] = "open" /\ provider[o] = "stripe"
  /\ session' = [session EXCEPT ![o] = "closed"]
  /\ Send(Msg("stripe", o, r))
  /\ UNCHANGED <<dbVars, manual, pc, task, crashes, dbErrors>>

\* A notice that does not end the session: a Stripe session completed with
\* the payment still outstanding, an epay or JSON notice with another status.
InterimNotice(o, ch) ==
  /\ status[o] # "absent" /\ session[o] = "open" /\ Cardinality(sent) < MaxNotices
  /\ ch \in {provider[o], "json"} /\ ch # "creem"
  /\ Send(Msg(ch, o, IF ch = "stripe" THEN "unpaid" ELSE "failure"))
  /\ UNCHANGED <<dbVars, session, manual, pc, task, crashes, dbErrors>>

\* A success notice that reaches the endpoint of another provider.
MisdirectedNotice(o, ch) ==
  /\ status[o] # "absent" /\ ch # provider[o] /\ Cardinality(sent) < MaxNotices
  /\ Send(Msg(ch, o, "success"))
  /\ UNCHANGED <<dbVars, session, manual, pc, task, crashes, dbErrors>>

-----------------------------------------------------------------------------
(* Handlers.  Each answers its caller at the end: Stripe, Creem and epay    *)
(* always with success, the JSON callback with an error when RechargeOrder *)
(* failed.                                                                 *)

Acknowledge(m) == unacked' = unacked \ {m}

Start(w, m, at) == /\ pc[w] = "idle"
                   /\ pc' = [pc EXCEPT ![w] = at]
                   /\ task' = [task EXCEPT ![w] = m]

Finish(w) == /\ pc' = [pc EXCEPT ![w] = "idle"]
             /\ task' = [task EXCEPT ![w] = NoTask]

Proceed(w, at) == pc' = [pc EXCEPT ![w] = at] /\ UNCHANGED task

\* StripeWebhook, CreemWebhook: a paid session goes to RechargeOrderByTradeNo;
\* a completed session whose payment is outstanding is only acknowledged.
ReportsPaid(m) == m.report = "success"

\* Seeded bug: the notice is acknowledged before the order is recharged.
BugStripePaid(w, m) ==
  /\ m \in sent /\ m.channel = "stripe" /\ ReportsPaid(m)
  /\ Start(w, m, "locking")
  /\ Acknowledge(m)
  /\ UNCHANGED <<dbVars, session, sent, manual, crashes, dbErrors>>

StripePaid(w, m) ==
  /\ m \in sent /\ m.channel = "stripe" /\ ReportsPaid(m)
  /\ Start(w, m, "locking")
  /\ UNCHANGED <<dbVars, gwVars, crashes, dbErrors>>

CreemWebhook(w, m) ==
  /\ m \in sent /\ m.channel = "creem" /\ ReportsPaid(m)
  /\ Start(w, m, "locking")
  /\ UNCHANGED <<dbVars, gwVars, crashes, dbErrors>>

StripeUnpaid(m) ==
  /\ m \in unacked /\ m.channel = "stripe" /\ m.report = "unpaid"
  /\ Acknowledge(m)
  /\ UNCHANGED <<dbVars, session, sent, manual, pc, task, crashes, dbErrors>>

\* StripeWebhook: MarkOrderFailed and MarkOrderExpiredByTradeNo, one UPDATE
\* each, which only moves a pending order.
StillPending(o) == status[o] = "pending"

MarkOrder(m, to) ==
  /\ status' = IF StillPending(m.order) THEN [status EXCEPT ![m.order] = to] ELSE status
  /\ Acknowledge(m)
  /\ UNCHANGED <<provider, delivered, session, sent, manual, pc, task, crashes, dbErrors>>

MarkOrderFailed(m) ==
  m \in sent /\ m.channel = "stripe" /\ m.report = "failure" /\ MarkOrder(m, "failed")

MarkOrderExpired(m) ==
  m \in sent /\ m.channel = "stripe" /\ m.report = "expired" /\ MarkOrder(m, "expired")

\* PaymentNotify and handleEpayNotify take the notification ...
PaymentNotify(w, m) ==
  /\ m \in sent /\ m.channel = "json"
  /\ Start(w, m, "peek")
  /\ UNCHANGED <<dbVars, gwVars, crashes, dbErrors>>

handleEpayNotify(w, m) ==
  /\ m \in sent /\ m.channel = "epay"
  /\ Start(w, m, "peek")
  /\ UNCHANGED <<dbVars, gwVars, crashes, dbErrors>>

\* ... read the order, and return at once when it is paid already; what they
\* decide next rests on this read.
PeekNotify(w) ==
  LET m == task[w] IN
  /\ pc[w] = "peek" /\ m.channel \in {"epay", "json"}
  /\ IF status[m.order] = "paid"
     THEN Finish(w) /\ Acknowledge(m)
     ELSE /\ Proceed(w, IF ReportsPaid(m) THEN "locking" ELSE "overwrite")
          /\ UNCHANGED unacked
  /\ UNCHANGED <<dbVars, session, sent, manual, crashes, dbErrors>>

\* The order is marked failed whatever its status is by now.
OverwriteFailed(w) ==
  /\ pc[w] = "overwrite"
  /\ status' = [status EXCEPT ![task[w].order] = "failed"]
  /\ Acknowledge(task[w])
  /\ Finish(w)
  /\ UNCHANGED <<provider, delivered, session, sent, manual, crashes, dbErrors>>

\* AdminManualCompleteOrder and ManualCompleteOrder: the order is read, and
\* only a pending or a paid one goes on to RechargeOrder.
AdminCompletes(w, o) ==
  /\ status[o] \in {"pending", "paid"}
  /\ manual' = manual \cup {o}
  /\ Start(w, Msg("admin", o, "success"), "locking")
  /\ UNCHANGED <<dbVars, session, sent, unacked, crashes, dbErrors>>

-----------------------------------------------------------------------------
(* RechargeOrder.                                                          *)

\* expectedProvider: the JSON callback and the administrator pass "".
RightProvider(m) == m.channel \in {"json", "admin"} \/ m.channel = provider[m.order]

\* Seeded bug: the order is not locked.
BugLockFree(w) == TRUE

\* LockOrder of this instance lets one goroutine at a time at an order.
LockFree(w) == \A x \in Workers : /\ InstanceOf[x] = InstanceOf[w]
                                  /\ task[x].order = task[w].order
                                  => pc[x] # "inTx"

\* Under the lock the order is read again: a paid order is left alone, an
\* order of another provider is an error, any other goes to the transaction.
\* Both returns unlock the order by defer.
RechargeLock(w) ==
  LET m == task[w] IN
  /\ pc[w] = "locking" /\ LockFree(w)
  /\ IF status[m.order] # "paid" /\ RightProvider(m)
     THEN Proceed(w, "inTx") /\ UNCHANGED unacked
     ELSE Finish(w) /\ Acknowledge(m)
  /\ UNCHANGED <<dbVars, session, sent, manual, crashes, dbErrors>>

\* The transaction: UPDATE ... WHERE status = pending; one row means the
\* order is ours to deliver, no row is taken for "somebody else did it".
CasWins(o) == status[o] = "pending"

\* quota + quotaAdd, or ActivateSubscription, in the same transaction.
Deliver(o) == [delivered EXCEPT ![o] = @ + 1]

RechargeTx(w) ==
  LET o == task[w].order IN
  /\ pc[w] = "inTx"
  /\ IF CasWins(o)
     THEN status' = [status EXCEPT ![o] = "paid"] /\ delivered' = Deliver(o)
     ELSE UNCHANGED <<status, delivered>>
  /\ Acknowledge(task[w])
  /\ Finish(w)
  /\ UNCHANGED <<provider, session, sent, manual, crashes, dbErrors>>

\* The transaction fails and is rolled back.  RechargeOrder's error is logged
\* by the Stripe, Creem and epay handlers, which still acknowledge.
RechargeTxFails(w) ==
  /\ pc[w] = "inTx" /\ dbErrors < MaxDBErrors
  /\ dbErrors' = dbErrors + 1
  /\ IF task[w].channel = "json" THEN UNCHANGED unacked ELSE Acknowledge(task[w])
  /\ Finish(w)
  /\ UNCHANGED <<dbVars, session, sent, manual, crashes>>

\* A server process dies: its goroutines and its lock table are gone.
Crash(i) ==
  /\ crashes < MaxCrashes
  /\ crashes' = crashes + 1
  /\ pc' = [w \in Workers |-> IF InstanceOf[w] = i THEN "idle" ELSE pc[w]]
  /\ task' = [w \in Workers |-> IF InstanceOf[w] = i THEN NoTask ELSE task[w]]
  /\ UNCHANGED <<dbVars, gwVars, dbErrors>>

-----------------------------------------------------------------------------
Gateway == \E o \in Orders : \/ CreatePayment(o)
                             \/ \E r \in {"failure", "expired"} : SessionCloses(o, r)
                             \/ \E ch \in Channels : CustomerPays(o, ch) \/ InterimNotice(o, ch)
                             \/ \E ch \in Providers : MisdirectedNotice(o, ch)

Handler(w) == \/ PeekNotify(w)
              \/ OverwriteFailed(w)
              \/ RechargeLock(w)
              \/ RechargeTx(w)

TakeUp(w, m) == \/ StripePaid(w, m)
                \/ CreemWebhook(w, m)
                \/ PaymentNotify(w, m)
                \/ handleEpayNotify(w, m)

Receive == \E m \in sent : \/ StripeUnpaid(m)
                           \/ MarkOrderFailed(m)
                           \/ MarkOrderExpired(m)
                           \/ \E w \in Workers : TakeUp(w, m)

Next == \/ Gateway
        \/ Receive
        \/ \E w \in Workers : \/ Handler(w)
                              \/ RechargeTxFails(w)
                              \/ \E o \in Orders : AdminCompletes(w, o)
        \/ \E i \in Instances : Crash(i)

Spec == Init /\ [][Next]_vars

(***************************************************************************)
(* Every request has a goroutine of its own, so a goroutine runs on, and a *)
(* payment its provider keeps reporting is eventually taken up however     *)
(* busy the few modelled workers are (strong fairness).                    *)
(***************************************************************************)
RetryTaken(o) ==
  \E w \in Workers, ch \in {provider[o], "json"} :
    LET m == Msg(ch, o, "success")
    IN  m \in unacked /\ TakeUp(w, m)

Fairness == /\ \A w \in Workers : WF_vars(Handler(w))
            /\ \A o \in Orders : SF_vars(RetryTaken(o))

FairSpec == Spec /\ Fairness

-----------------------------------------------------------------------------
(* Properties.                                                             *)

\* However often and through whichever endpoint a payment is reported, and
\* whichever instance takes the report, RechargeOrder credits the quota or
\* activates the subscription at most once.
DeliveredAtMostOnce == \A o \in Orders : delivered[o] <= 1

\* Nothing is delivered that was not paid for on the order's own provider or
\* completed by an administrator: an unpaid Stripe session, a failure notice
\* and a notice at another provider's endpoint never reach the wallet.
DeliveredOnlyIfPaid ==
  \A o \in Orders : delivered[o] > 0 => session[o] = "paid" \/ o \in manual

\* The row and the delivery are one transaction: an order shown as paid has
\* been delivered, and a delivered order is never shown as pending or expired.
PaidMeansDelivered ==
  \A o \in Orders : /\ status[o] = "paid" => delivered[o] = 1
                    /\ delivered[o] = 1 => status[o] \in {"paid", "failed"}

\* Two goroutines of one instance are never in RechargeOrder's critical
\* section for the same order.
OneRechargerPerInstance ==
  \A w, x \in Workers :
    /\ pc[w] = "inTx" /\ pc[x] = "inTx"
    /\ InstanceOf[w] = InstanceOf[x] /\ task[w].order = task[x].order
    => w = x

\* The one way to lose a payment is a transaction that failed and whose
\* notice was acknowledged all the same: without such a failure, a paid order
\* that is still pending will be reported again, whoever handles it meanwhile
\* and wherever a crash stops him.
LostOnlyByFailedTx ==
  \A o \in Orders :
    session[o] = "paid" /\ status[o] = "pending" /\ dbErrors = 0
    => \E ch \in {provider[o], "json"} : Msg(ch, o, "success") \in unacked

\* An order that was marked failed or expired is not delivered afterwards.
ClosedNeverDelivered ==
  [][\A o \in Orders : status[o] \in {"failed", "expired"} => delivered'[o] = delivered[o]]_vars

\* A payment the provider reports until it is acknowledged does not leave its
\* order pending, crashes of an instance in the middle of the handler included.
\* A failed transaction is excepted: its notice is acknowledged all the same.
NoPaymentStuck ==
  \A o \in Orders : session[o] = "paid" ~> status[o] # "pending" \/ dbErrors > 0

\* An order that has been processed keeps its paid status whatever is
\* reported about it later (the early return for paid orders in PaymentNotify).
PaidStaysPaid ==
  [][\A o \in Orders : status[o] = "paid" => status'[o] = "paid"]_vars

-----------------------------------------------------------------------------
(***************************************************************************)
(* The inductive invariant.  DeliveredOnlyIfPaid needs to know where a     *)
(* goroutine about to commit came from: an administrator, or a success     *)
(* notice of the order's own provider, which is only ever sent for a paid  *)
(* session.                                                                *)
(***************************************************************************)
DeliveryMatchesStatus ==
  \A o \in Orders : CASE status[o] = "paid"   -> delivered[o] = 1
                      [] status[o] = "failed" -> delivered[o] <= 1
                      [] OTHER                -> delivered[o] = 0

NoticesHonest ==
  \A m \in sent : /\ m.channel # "admin"
                  /\ ReportsPaid(m) /\ RightProvider(m) => session[m.order] = "paid"

TasksGenuine ==
  \A w \in Workers : pc[w] # "idle" =>
    /\ IF task[w].channel = "admin" THEN task[w].order \in manual ELSE task[w] \in sent
    /\ pc[w] \in {"locking", "inTx"} => ReportsPaid(task[w])
    /\ pc[w] = "inTx" => RightProvider(task[w])

OrderInv == /\ TypeOK
            /\ DeliveryMatchesStatus
            /\ DeliveredOnlyIfPaid
            /\ NoticesHonest
            /\ TasksGenuine
            /\ OneRechargerPerInstance
=============================================================================
