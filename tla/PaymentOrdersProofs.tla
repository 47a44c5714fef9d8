------------------------ MODULE PaymentOrdersProofs ------------------------
(***************************************************************************)
(* OrderInv is an inductive invariant of PaymentOrders for every set of    *)
(* orders, handlers and instances and every bound; single delivery,        *)
(* delivery only of what was paid, the agreement of status and delivery    *)
(* and the rule that a closed order is not delivered follow from it.       *)
(***************************************************************************)
EXTENDS PaymentOrders, TLAPS

USE DEF dbVars, gwVars

\* The order an idle worker is said to handle exists.
LEMMA NoTaskType == NoTask \in Messages
BY OrdersAssumption DEF NoTask, Msg, Messages, Channels, Reports

\* Every notification a handler or a gateway builds is a message.
LEMMA MsgType ==
  ASSUME NEW ch \in Channels, NEW o \in Orders, NEW r \in Reports
  PROVE  /\ Msg(ch, o, r) \in Messages
         /\ Msg(ch, o, r).channel = ch
         /\ Msg(ch, o, r).order = o
         /\ Msg(ch, o, r).report = r
BY DEF Msg, Messages

\* Nothing is delivered, sent or under way at the start.
LEMMA InitOrderInv == Init => OrderInv
BY NoTaskType, BoundsAssumption
   DEF Init, OrderInv, TypeOK, Statuses, DeliveryMatchesStatus, DeliveredOnlyIfPaid,
       NoticesHonest, TasksGenuine, OneRechargerPerInstance

\* A step that only adds a notification, honest if it reports a payment,
\* and never un-pays a session, keeps the invariant.
LEMMA SendInv ==
  ASSUME OrderInv,
         NEW m \in Messages, m.channel # "admin",
         ReportsPaid(m) /\ RightProvider(m) => session'[m.order] = "paid",
         session' \in [Orders -> {"open", "paid", "closed"}],
         \A o \in Orders : session[o] = "paid" => session'[o] = "paid",
         Send(m),
         UNCHANGED <<dbVars, manual, pc, task, crashes, dbErrors>>
  PROVE  OrderInv'
<1> USE DEF OrderInv
<1>1. TypeOK'
  BY DEF TypeOK, Send
<1>2. DeliveryMatchesStatus'
  BY DEF DeliveryMatchesStatus
<1>3. DeliveredOnlyIfPaid'
  BY DEF DeliveredOnlyIfPaid
<1>4. NoticesHonest'
  BY DEF NoticesHonest, Send, ReportsPaid, RightProvider, TypeOK, Messages
<1>5. TasksGenuine'
  BY DEF TasksGenuine, Send, ReportsPaid, RightProvider
<1>6. OneRechargerPerInstance'
  BY DEF OneRechargerPerInstance
<1> QED
  BY <1>1, <1>2, <1>3, <1>4, <1>5, <1>6

\* The user's and the gateways' steps.
LEMMA GatewayInv == ASSUME OrderInv, Gateway PROVE OrderInv'
<1> USE DEF OrderInv
<1>1. ASSUME NEW o \in Orders, CreatePayment(o) PROVE OrderInv'
  BY <1>1 DEF CreatePayment, TypeOK, Statuses, DeliveryMatchesStatus, DeliveredOnlyIfPaid,
              NoticesHonest, TasksGenuine, OneRechargerPerInstance, RightProvider, ReportsPaid
<1>2. ASSUME NEW o \in Orders, NEW ch \in Channels, CustomerPays(o, ch) PROVE OrderInv'
  <2>1. ch # "admin" /\ "success" \in Reports
    BY <1>2 DEF CustomerPays, TypeOK, Providers, Reports
  <2>2. session'[o] = "paid"
    BY <1>2 DEF CustomerPays, TypeOK
  <2> QED
    BY <1>2, <2>1, <2>2, MsgType, SendInv DEF CustomerPays, TypeOK
<1>3. ASSUME NEW o \in Orders, NEW r \in {"failure", "expired"}, SessionCloses(o, r)
      PROVE  OrderInv'
  <2>1. r \in Reports /\ "stripe" \in Channels
    BY DEF Reports, Channels, Providers
  <2>2. ~ReportsPaid(Msg("stripe", o, r))
    BY <2>1, MsgType DEF ReportsPaid
  <2> QED
    BY <1>3, <2>1, <2>2, MsgType, SendInv DEF SessionCloses, TypeOK
<1>4. ASSUME NEW o \in Orders, NEW ch \in Channels, InterimNotice(o, ch) PROVE OrderInv'
  <2> DEFINE r == IF ch = "stripe" THEN "unpaid" ELSE "failure"
  <2>1. r \in Reports /\ ch # "admin"
    BY <1>4 DEF InterimNotice, Reports, TypeOK, Providers
  <2>2. ~ReportsPaid(Msg(ch, o, r))
    BY <2>1, MsgType DEF ReportsPaid
  <2> QED
    BY <1>4, <2>1, <2>2, MsgType, SendInv DEF InterimNotice, TypeOK
<1>5. ASSUME NEW o \in Orders, NEW ch \in Providers, MisdirectedNotice(o, ch) PROVE OrderInv'
  <2>1. ch \in Channels /\ ch \notin {"admin", "json"} /\ "success" \in Reports
    BY DEF Channels, Providers, Reports
  <2>2. ~RightProvider(Msg(ch, o, "success"))
    BY <1>5, <2>1, MsgType DEF RightProvider, MisdirectedNotice
  <2> QED
    BY <1>5, <2>1, <2>2, MsgType, SendInv DEF MisdirectedNotice, TypeOK
<1> QED
  BY <1>1, <1>2, <1>3, <1>4, <1>5 DEF Gateway

\* Taking up a notification.
LEMMA ReceiveInv == ASSUME OrderInv, Receive PROVE OrderInv'
<1> USE DEF OrderInv
<1> PICK m \in sent : \/ StripeUnpaid(m)
                      \/ MarkOrderFailed(m)
                      \/ MarkOrderExpired(m)
                      \/ \E w \in Workers : TakeUp(w, m)
  BY DEF Receive
<1>0. m \in Messages /\ m.order \in Orders
  BY DEF TypeOK, Messages
<1>1. CASE StripeUnpaid(m)
  BY <1>1 DEF StripeUnpaid, Acknowledge, TypeOK, DeliveryMatchesStatus, DeliveredOnlyIfPaid,
              NoticesHonest, TasksGenuine, OneRechargerPerInstance, RightProvider, ReportsPaid
<1>2. CASE MarkOrderFailed(m) \/ MarkOrderExpired(m)
  <2> USE DEF MarkOrderFailed, MarkOrderExpired, MarkOrder
  <2>1. TypeOK'
    BY <1>0, <1>2 DEF TypeOK, Acknowledge, Statuses
  <2>2. DeliveryMatchesStatus'
    BY <1>0, <1>2 DEF DeliveryMatchesStatus, StillPending, TypeOK
  <2>3. DeliveredOnlyIfPaid'
    BY <1>2 DEF DeliveredOnlyIfPaid
  <2>4. NoticesHonest'
    BY <1>2 DEF NoticesHonest, RightProvider, ReportsPaid
  <2>5. TasksGenuine'
    BY <1>2 DEF TasksGenuine, RightProvider, ReportsPaid
  <2>6. OneRechargerPerInstance'
    BY <1>2 DEF OneRechargerPerInstance
  <2> QED
    BY <2>1, <2>2, <2>3, <2>4, <2>5, <2>6
<1>3. ASSUME NEW w \in Workers, TakeUp(w, m) PROVE OrderInv'
  <2> USE DEF TakeUp, StripePaid, CreemWebhook, PaymentNotify, handleEpayNotify, Start
  <2>1. TypeOK'
    BY <1>0, <1>3 DEF TypeOK
  <2>2. DeliveryMatchesStatus'
    BY <1>3 DEF DeliveryMatchesStatus
  <2>3. DeliveredOnlyIfPaid'
    BY <1>3 DEF DeliveredOnlyIfPaid
  <2>4. NoticesHonest'
    BY <1>3 DEF NoticesHonest, RightProvider, ReportsPaid
  <2>5. TasksGenuine'
    BY <1>3 DEF TasksGenuine, NoticesHonest, RightProvider, ReportsPaid, TypeOK
  <2>6. OneRechargerPerInstance'
    BY <1>3 DEF OneRechargerPerInstance, TypeOK
  <2> QED
    BY <2>1, <2>2, <2>3, <2>4, <2>5, <2>6
<1> QED
  BY <1>1, <1>2, <1>3

\* The steps of RechargeOrder and of the handlers around it.
LEMMA HandlerInv == ASSUME OrderInv, NEW w \in Workers, Handler(w) PROVE OrderInv'
<1> USE NoTaskType DEF OrderInv
<1>0. task[w] \in Messages /\ task[w].order \in Orders
  BY DEF TypeOK, Messages
<1>1. CASE PeekNotify(w)
  <2> USE DEF PeekNotify, Finish, Proceed, Acknowledge
  <2>1. TypeOK'
    BY <1>1 DEF TypeOK
  <2>2. DeliveryMatchesStatus' /\ DeliveredOnlyIfPaid'
    BY <1>1 DEF DeliveryMatchesStatus, DeliveredOnlyIfPaid
  <2>3. NoticesHonest'
    BY <1>1 DEF NoticesHonest, RightProvider, ReportsPaid
  <2>4. TasksGenuine'
    BY <1>1 DEF TasksGenuine, RightProvider, ReportsPaid, TypeOK
  <2>5. OneRechargerPerInstance'
    BY <1>1 DEF OneRechargerPerInstance, TypeOK
  <2> QED
    BY <2>1, <2>2, <2>3, <2>4, <2>5
<1>2. CASE OverwriteFailed(w)
  <2> USE DEF OverwriteFailed, Finish, Acknowledge
  <2>1. TypeOK'
    BY <1>0, <1>2 DEF TypeOK, Statuses
  <2>2. DeliveryMatchesStatus' /\ DeliveredOnlyIfPaid'
    BY <1>0, <1>2 DEF DeliveryMatchesStatus, DeliveredOnlyIfPaid, TypeOK
  <2>3. NoticesHonest'
    BY <1>2 DEF NoticesHonest, RightProvider, ReportsPaid
  <2>4. TasksGenuine'
    BY <1>2 DEF TasksGenuine, RightProvider, ReportsPaid, TypeOK
  <2>5. OneRechargerPerInstance'
    BY <1>2 DEF OneRechargerPerInstance, TypeOK
  <2> QED
    BY <2>1, <2>2, <2>3, <2>4, <2>5
<1>3. CASE RechargeLock(w)
  <2> USE DEF RechargeLock, Finish, Proceed, Acknowledge
  <2>1. TypeOK'
    BY <1>3 DEF TypeOK
  <2>2. DeliveryMatchesStatus' /\ DeliveredOnlyIfPaid'
    BY <1>3 DEF DeliveryMatchesStatus, DeliveredOnlyIfPaid
  <2>3. NoticesHonest'
    BY <1>3 DEF NoticesHonest, RightProvider, ReportsPaid
  <2>4. TasksGenuine'
    BY <1>3 DEF TasksGenuine, RightProvider, ReportsPaid, TypeOK
  <2>5. OneRechargerPerInstance'
    BY <1>3 DEF OneRechargerPerInstance, LockFree, TypeOK
  <2> QED
    BY <2>1, <2>2, <2>3, <2>4, <2>5
<1>4. CASE RechargeTx(w)
  <2> USE DEF RechargeTx, Finish, Acknowledge, CasWins, Deliver
  <2>1. TypeOK'
    BY <1>0, <1>4 DEF TypeOK, Statuses
  <2>2. DeliveryMatchesStatus'
    BY <1>0, <1>4 DEF DeliveryMatchesStatus, TypeOK
  <2>3. session[task[w].order] = "paid" \/ task[w].order \in manual
    BY <1>4 DEF TasksGenuine, NoticesHonest
  <2>4. DeliveredOnlyIfPaid'
    BY <1>0, <1>4, <2>3 DEF DeliveredOnlyIfPaid, TypeOK
  <2>5. NoticesHonest'
    BY <1>4 DEF NoticesHonest, RightProvider, ReportsPaid
  <2>6. TasksGenuine'
    BY <1>4 DEF TasksGenuine, RightProvider, ReportsPaid, TypeOK
  <2>7. OneRechargerPerInstance'
    BY <1>4 DEF OneRechargerPerInstance, TypeOK
  <2> QED
    BY <2>1, <2>2, <2>4, <2>5, <2>6, <2>7
<1> QED
  BY <1>1, <1>2, <1>3, <1>4 DEF Handler

\* A rolled-back transaction, the administrator, a crash.
LEMMA OtherStepsInv ==
  ASSUME OrderInv,
         \/ \E w \in Workers : RechargeTxFails(w) \/ \E o \in Orders : AdminCompletes(w, o)
         \/ \E i \in Instances : Crash(i)
  PROVE  OrderInv'
<1> USE NoTaskType, BoundsAssumption DEF OrderInv
<1>1. ASSUME NEW w \in Workers, RechargeTxFails(w) PROVE OrderInv'
  BY <1>1 DEF RechargeTxFails, Finish, Acknowledge, TypeOK, DeliveryMatchesStatus,
              DeliveredOnlyIfPaid, NoticesHonest, TasksGenuine, OneRechargerPerInstance,
              RightProvider, ReportsPaid
<1>2. ASSUME NEW w \in Workers, NEW o \in Orders, AdminCompletes(w, o) PROVE OrderInv'
  <2> USE DEF AdminCompletes, Start
  <2> DEFINE m == Msg("admin", o, "success")
  <2>0. m \in Messages /\ m.channel = "admin" /\ m.order = o /\ m.report = "success"
    BY MsgType DEF Channels, Reports
  <2> HIDE DEF m
  <2>a. pc[w] = "idle" /\ pc' = [pc EXCEPT ![w] = "locking"] /\ task' = [task EXCEPT ![w] = m]
    BY <1>2 DEF m
  <2>1. TypeOK'
    BY <1>2, <2>0, <2>a DEF TypeOK
  <2>2. DeliveryMatchesStatus' /\ DeliveredOnlyIfPaid'
    BY <1>2 DEF DeliveryMatchesStatus, DeliveredOnlyIfPaid
  <2>3. NoticesHonest'
    BY <1>2 DEF NoticesHonest, RightProvider, ReportsPaid
  <2>4. TasksGenuine'
    BY <1>2, <2>0, <2>a DEF TasksGenuine, RightProvider, ReportsPaid, TypeOK
  <2>5. OneRechargerPerInstance'
    BY <2>a DEF OneRechargerPerInstance, TypeOK
  <2> QED
    BY <2>1, <2>2, <2>3, <2>4, <2>5
<1>3. ASSUME NEW i \in Instances, Crash(i) PROVE OrderInv'
  <2> USE DEF Crash
  <2>1. TypeOK'
    BY <1>3 DEF TypeOK
  <2>2. DeliveryMatchesStatus' /\ DeliveredOnlyIfPaid'
    BY <1>3 DEF DeliveryMatchesStatus, DeliveredOnlyIfPaid
  <2>3. NoticesHonest'
    BY <1>3 DEF NoticesHonest, RightProvider, ReportsPaid
  <2>4. TasksGenuine'
    BY <1>3 DEF TasksGenuine, RightProvider, ReportsPaid, TypeOK
  <2>5. OneRechargerPerInstance'
    BY <1>3 DEF OneRechargerPerInstance, TypeOK
  <2> QED
    BY <2>1, <2>2, <2>3, <2>4, <2>5
<1> QED
  BY <1>1, <1>2, <1>3

\* Every step preserves the inductive invariant.
LEMMA NextOrderInv == OrderInv /\ [Next]_vars => OrderInv'
<1> SUFFICES ASSUME OrderInv, [Next]_vars PROVE OrderInv'
  OBVIOUS
<1>1. CASE UNCHANGED vars
  BY <1>1 DEF vars, OrderInv, TypeOK, DeliveryMatchesStatus, DeliveredOnlyIfPaid, NoticesHonest,
              TasksGenuine, OneRechargerPerInstance, RightProvider, ReportsPaid
<1> QED
  BY <1>1, GatewayInv, ReceiveInv, HandlerInv, OtherStepsInv DEF Next

\* RechargeOrder and the callbacks keep OrderInv, whatever the number of
\* orders, handlers, instances, notices, crashes and database errors.
THEOREM OrderInvariant == Spec => []OrderInv
<1> QED
  BY InitOrderInv, NextOrderInv, PTL DEF Spec

\* An order is credited, or its subscription activated, at most once.
THEOREM OrderDeliveredAtMostOnce == Spec => []DeliveredAtMostOnce
<1>1. OrderInv => DeliveredAtMostOnce
  BY DEF OrderInv, DeliveryMatchesStatus, DeliveredAtMostOnce, TypeOK
<1> QED
  BY <1>1, OrderInvariant, PTL

\* Only orders that were paid for, or completed by hand, are delivered.
THEOREM OrderDeliveredOnlyIfPaid == Spec => []DeliveredOnlyIfPaid
<1>1. OrderInv => DeliveredOnlyIfPaid
  BY DEF OrderInv
<1> QED
  BY <1>1, OrderInvariant, PTL

\* The status of the row and the delivery agree.
THEOREM OrderPaidMeansDelivered == Spec => []PaidMeansDelivered
<1>1. OrderInv => PaidMeansDelivered
  BY DEF OrderInv, DeliveryMatchesStatus, PaidMeansDelivered, TypeOK, Statuses
<1> QED
  BY <1>1, OrderInvariant, PTL

\* A failed or expired order is never delivered afterwards.
THEOREM OrderClosedNeverDelivered == Spec => ClosedNeverDelivered
<1>1. OrderInv /\ [Next]_vars =>
        [\A o \in Orders : status[o] \in {"failed", "expired"} => delivered'[o] = delivered[o]]_vars
  <2> SUFFICES ASSUME OrderInv, [Next]_vars, NEW o \in Orders,
                      status[o] \in {"failed", "expired"}
               PROVE  delivered'[o] = delivered[o]
    OBVIOUS
  <2>1. ASSUME NEW w \in Workers, RechargeTx(w) PROVE delivered'[o] = delivered[o]
    BY <2>1 DEF RechargeTx, CasWins, Deliver, OrderInv, TypeOK
  <2>2. ASSUME NEW w \in Workers,
               PeekNotify(w) \/ OverwriteFailed(w) \/ RechargeLock(w) \/ RechargeTxFails(w)
                 \/ \E q \in Orders : AdminCompletes(w, q)
        PROVE  UNCHANGED delivered
    BY <2>2 DEF PeekNotify, OverwriteFailed, RechargeLock, RechargeTxFails, AdminCompletes
  <2>3. ASSUME Gateway PROVE UNCHANGED delivered
    BY <2>3 DEF Gateway, CreatePayment, CustomerPays, SessionCloses, InterimNotice, MisdirectedNotice
  <2>4. ASSUME Receive PROVE UNCHANGED delivered
    BY <2>4 DEF Receive, StripeUnpaid, MarkOrderFailed, MarkOrderExpired, MarkOrder, TakeUp,
               StripePaid, CreemWebhook, PaymentNotify, handleEpayNotify
  <2>5. ASSUME NEW i \in Instances, Crash(i) PROVE UNCHANGED delivered
    BY <2>5 DEF Crash
  <2> QED
    BY <2>1, <2>2, <2>3, <2>4, <2>5 DEF Next, Handler, vars
<1> QED
  BY <1>1, OrderInvariant, PTL DEF Spec, ClosedNeverDelivered

-----------------------------------------------------------------------------
(* No payment is lost.  A notice stays with its provider until a handler   *)
(* acknowledges it, so what must be shown is that none is acknowledged     *)
(* while its order is pending; CreatePayment needs, besides, that nobody   *)
(* pays for an order that does not exist.                                  *)

PaidOnceCreated == \A o \in Orders : status[o] = "absent" => session[o] = "open"

Reported == PaidOnceCreated /\ LostOnlyByFailedTx

\* The notice a provider, or a collector with the JSON callback, sends for a paid order.
ReportOf(m, o) == m.order = o /\ ReportsPaid(m) /\ m.channel \in {provider[o], "json"}

LEMMA ReportIsReport ==
  ASSUME OrderInv, NEW o \in Orders, NEW ch \in {provider[o], "json"}
  PROVE  ReportOf(Msg(ch, o, "success"), o)
<1>1. ch \in Channels /\ "success" \in Reports
  BY DEF OrderInv, TypeOK, Channels, Reports
<1> QED
  BY <1>1, MsgType DEF ReportOf, ReportsPaid

\* A step that takes no notice away, makes no order pending and pays for none.
LEMMA QuietReported ==
  ASSUME OrderInv, OrderInv', Reported,
         unacked \subseteq unacked', UNCHANGED <<provider, session>>,
         \A o \in Orders : /\ status'[o] = "pending" => status[o] = "pending"
                           /\ status'[o] = "absent" => status[o] = "absent",
         dbErrors' = 0 => dbErrors = 0
  PROVE  Reported'
BY DEF Reported, PaidOnceCreated, LostOnlyByFailedTx

\* A step that acknowledges a notice, after which its order is not pending if it was a
\* report of a payment.
LEMMA AcknowledgeReported ==
  ASSUME OrderInv, OrderInv', Reported, NEW m, Acknowledge(m),
         UNCHANGED <<provider, session>>,
         \A o \in Orders : /\ status'[o] = "pending" => status[o] = "pending"
                           /\ status'[o] = "absent" => status[o] = "absent"
                           /\ ReportOf(m, o) => status'[o] # "pending" \/ dbErrors' # 0,
         dbErrors' = 0 => dbErrors = 0
  PROVE  Reported'
<1>1. PaidOnceCreated'
  BY DEF Reported, PaidOnceCreated
<1>2. ASSUME NEW o \in Orders, session'[o] = "paid", status'[o] = "pending", dbErrors' = 0
      PROVE  \E ch \in {provider'[o], "json"} : Msg(ch, o, "success") \in unacked'
  <2>1. PICK ch \in {provider[o], "json"} : Msg(ch, o, "success") \in unacked
    BY <1>2 DEF Reported, LostOnlyByFailedTx
  <2>2. Msg(ch, o, "success") # m
    BY <1>2, <2>1, ReportIsReport
  <2> QED
    BY <2>1, <2>2 DEF Acknowledge
<1>3. LostOnlyByFailedTx'
  BY <1>2 DEF LostOnlyByFailedTx
<1> QED
  BY <1>1, <1>3 DEF Reported

\* The user's and the gateways' steps.
LEMMA GatewayReported == ASSUME OrderInv, OrderInv', Reported, Gateway PROVE Reported'
<1>1. ASSUME NEW o \in Orders, CreatePayment(o) PROVE Reported'
  BY <1>1 DEF CreatePayment, Reported, PaidOnceCreated, LostOnlyByFailedTx, OrderInv, TypeOK
<1>2. ASSUME NEW o \in Orders, NEW ch \in Channels, CustomerPays(o, ch) PROVE Reported'
  <2>1. PaidOnceCreated'
    BY <1>2 DEF CustomerPays, Reported, PaidOnceCreated, OrderInv, TypeOK
  <2>2. Msg(ch, o, "success") \in unacked' /\ unacked \subseteq unacked'
    BY <1>2 DEF CustomerPays, Send
  <2>3. LostOnlyByFailedTx'
    BY <1>2, <2>2 DEF CustomerPays, Reported, LostOnlyByFailedTx, OrderInv, TypeOK
  <2> QED
    BY <2>1, <2>3 DEF Reported
<1>3. ASSUME NEW o \in Orders, NEW r \in {"failure", "expired"}, SessionCloses(o, r) PROVE Reported'
  <2>1. session' = [session EXCEPT ![o] = "closed"] /\ status[o] # "absent"
        /\ UNCHANGED <<status, provider, dbErrors>> /\ unacked \subseteq unacked'
    BY <1>3 DEF SessionCloses, Send
  <2> QED
    BY <2>1 DEF Reported, PaidOnceCreated, LostOnlyByFailedTx, OrderInv, TypeOK
<1>4. ASSUME NEW o \in Orders, NEW ch \in Channels, InterimNotice(o, ch) PROVE Reported'
  BY <1>4, QuietReported DEF InterimNotice, Send
<1>5. ASSUME NEW o \in Orders, NEW ch \in Providers, MisdirectedNotice(o, ch) PROVE Reported'
  BY <1>5, QuietReported DEF MisdirectedNotice, Send
<1> QED
  BY <1>1, <1>2, <1>3, <1>4, <1>5 DEF Gateway

\* Notices that are answered at once say nothing of a payment; the others are kept.
LEMMA ReceiveReported == ASSUME OrderInv, OrderInv', Reported, Receive PROVE Reported'
<1> PICK m \in sent : \/ StripeUnpaid(m)
                      \/ MarkOrderFailed(m)
                      \/ MarkOrderExpired(m)
                      \/ \E w \in Workers : TakeUp(w, m)
  BY DEF Receive
<1>1. CASE StripeUnpaid(m)
  <2>1. \A o \in Orders : ~ReportOf(m, o)
    BY <1>1 DEF StripeUnpaid, ReportOf, ReportsPaid
  <2> QED
    BY <1>1, <2>1, AcknowledgeReported DEF StripeUnpaid
<1>2. CASE MarkOrderFailed(m) \/ MarkOrderExpired(m)
  <2>1. \A o \in Orders : ~ReportOf(m, o)
    BY <1>2 DEF MarkOrderFailed, MarkOrderExpired, ReportOf, ReportsPaid
  <2>2. PICK to \in {"failed", "expired"} : MarkOrder(m, to)
    BY <1>2 DEF MarkOrderFailed, MarkOrderExpired
  <2>3. \A o \in Orders : /\ status'[o] = "pending" => status[o] = "pending"
                          /\ status'[o] = "absent" => status[o] = "absent"
    BY <2>2 DEF MarkOrder, OrderInv, TypeOK
  <2>4. Acknowledge(m) /\ UNCHANGED <<provider, session, dbErrors>>
    BY <2>2 DEF MarkOrder
  <2> QED
    BY <2>1, <2>3, <2>4, AcknowledgeReported
<1>3. ASSUME NEW w \in Workers, TakeUp(w, m) PROVE Reported'
  BY <1>3, QuietReported DEF TakeUp, StripePaid, CreemWebhook, PaymentNotify, handleEpayNotify
<1> QED
  BY <1>1, <1>2, <1>3

\* A handler that acknowledges a payment leaves its order in another state than pending,
\* or found that the notice was not the provider's.
LEMMA HandlerReported ==
  ASSUME OrderInv, OrderInv', Reported, NEW w \in Workers, Handler(w) \/ RechargeTxFails(w)
  PROVE  Reported'
<1> DEFINE m == task[w]
<1>0. m \in Messages /\ m.order \in Orders
  BY DEF OrderInv, TypeOK, Messages
<1>1. CASE PeekNotify(w)
  <2>1. CASE status[m.order] = "paid"
    <3>1. Acknowledge(m) /\ UNCHANGED <<status, provider, session, dbErrors>>
      BY <1>1, <2>1 DEF PeekNotify
    <3>2. \A o \in Orders : ReportOf(m, o) => status'[o] # "pending"
      BY <2>1, <3>1 DEF ReportOf
    <3> QED
      BY <3>1, <3>2, AcknowledgeReported
  <2>2. CASE status[m.order] # "paid"
    BY <1>1, <2>2, QuietReported DEF PeekNotify
  <2> QED
    BY <2>1, <2>2
<1>2. CASE OverwriteFailed(w)
  <2>1. Acknowledge(m) /\ UNCHANGED <<provider, session, dbErrors>>
        /\ status' = [status EXCEPT ![m.order] = "failed"]
    BY <1>2 DEF OverwriteFailed
  <2>2. \A o \in Orders : /\ status'[o] = "pending" => status[o] = "pending"
                          /\ status'[o] = "absent" => status[o] = "absent"
                          /\ ReportOf(m, o) => status'[o] # "pending"
    BY <1>0, <2>1 DEF ReportOf, OrderInv, TypeOK
  <2> QED
    BY <2>1, <2>2, AcknowledgeReported
<1>3. CASE RechargeLock(w)
  <2>1. CASE status[m.order] # "paid" /\ RightProvider(m)
    BY <1>3, <2>1, QuietReported DEF RechargeLock
  <2>2. CASE ~(status[m.order] # "paid" /\ RightProvider(m))
    <3>1. Acknowledge(m) /\ UNCHANGED <<status, provider, session, dbErrors>>
      BY <1>3, <2>2 DEF RechargeLock
    <3>2. \A o \in Orders : ReportOf(m, o) => status'[o] # "pending"
      BY <2>2, <3>1 DEF ReportOf, RightProvider
    <3> QED
      BY <3>1, <3>2, AcknowledgeReported
  <2> QED
    BY <2>1, <2>2
<1>4. CASE RechargeTx(w)
  <2>1. Acknowledge(m) /\ UNCHANGED <<provider, session, dbErrors>>
    BY <1>4 DEF RechargeTx
  <2>2. \A o \in Orders : /\ status'[o] = "pending" => status[o] = "pending" /\ o # m.order
                          /\ status'[o] = "absent" => status[o] = "absent"
    BY <1>0, <1>4 DEF RechargeTx, CasWins, OrderInv, TypeOK
  <2>3. \A o \in Orders : ReportOf(m, o) => status'[o] # "pending"
    BY <2>2 DEF ReportOf
  <2> QED
    BY <2>1, <2>2, <2>3, AcknowledgeReported
<1>5. CASE RechargeTxFails(w)
  <2>1. dbErrors' # 0
    BY <1>5 DEF RechargeTxFails, OrderInv, TypeOK
  <2>2. UNCHANGED <<status, session>>
    BY <1>5 DEF RechargeTxFails
  <2> QED
    BY <2>1, <2>2 DEF Reported, PaidOnceCreated, LostOnlyByFailedTx
<1> QED
  BY <1>1, <1>2, <1>3, <1>4, <1>5 DEF Handler

\* The one way to lose a payment is a transaction that failed: without one a paid order that
\* is still pending will be reported again, whatever crashes, overlaps or is delivered twice.
THEOREM OrderLostOnlyByFailedTx == Spec => []LostOnlyByFailedTx
<1>1. Init => Reported
  BY DEF Init, Reported, PaidOnceCreated, LostOnlyByFailedTx
<1>2. OrderInv /\ OrderInv' /\ Reported /\ [Next]_vars => Reported'
  <2> SUFFICES ASSUME OrderInv, OrderInv', Reported, [Next]_vars PROVE Reported'
    OBVIOUS
  <2>1. CASE UNCHANGED vars
    BY <2>1, QuietReported DEF vars
  <2>2. ASSUME NEW w \in Workers, NEW o \in Orders, AdminCompletes(w, o) PROVE Reported'
    BY <2>2, QuietReported DEF AdminCompletes
  <2>3. ASSUME NEW i \in Instances, Crash(i) PROVE Reported'
    BY <2>3, QuietReported DEF Crash
  <2> QED
    BY <2>1, <2>2, <2>3, GatewayReported, ReceiveReported, HandlerReported DEF Next
<1>3. Reported => LostOnlyByFailedTx
  BY DEF Reported
<1> QED
  BY <1>1, <1>2, <1>3, OrderInvariant, PTL DEF Spec
=============================================================================
