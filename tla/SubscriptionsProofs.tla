------------------------ MODULE SubscriptionsProofs ------------------------
(***************************************************************************)
(* SubsInv is inductive for any number of subscriptions, plans, groups and *)
(* overlapping runs of ExpireSubscriptions; that an ended subscription     *)
(* stays ended and a permanent one is not expired follow from it.          *)
(***************************************************************************)
EXTENDS Subscriptions, TLAPS

USE DEF planVars, subVars, runVars

\* No row exists and no expirer runs at the start.
LEMMA InitSubsInv == Init => SubsInv
<1> SUFFICES ASSUME Init PROVE SubsInv
  OBVIOUS
<1>1. TypeOK
  BY GroupsAssumption, PlanRowsAssumption DEF Init, TypeOK, Statuses, OrderStates
<1>2. \A s \in Subs : ActivatedOnce(s)
  BY DEF Init, ActivatedOnce
<1>3. \A e \in Expirers : RowsActivated(e)
  BY DEF Init, RowsActivated, NoRow
<1> QED
  BY <1>1, <1>2, <1>3 DEF SubsInv

\* What is read of a row: its id, and a group to go back to if there is one.
LEMMA RowTyped ==
  ASSUME TypeOK, NEW s \in Subs
  PROVE  Row(s) \in RowType /\ Row(s).sub = s /\ (Row(s).reverts => Row(s).to \in Groups)
BY DEF TypeOK, Row, RowType

\* What ActivateSubscription leaves in the rows.
LEMMA ActivateTyped ==
  ASSUME TypeOK, NEW s \in Subs, ActivateSubscription(s)
  PROVE  /\ group' \in Groups /\ original' \in [Subs -> Groups \cup {None}]
         /\ expiry' \in [Subs -> {"never", "later", "due"}]
         /\ status' = [status EXCEPT ![s] = "active"]
         /\ activations' = [activations EXCEPT ![s] = @ + 1] /\ activations' \in [Subs -> Nat]
         /\ pool' \in {pool, pool \cup {s}}
         /\ \A x \in Subs \ {s} : original'[x] = original[x] /\ expiry'[x] = expiry[x]
<1>1. plan[planOf[s]] \in PlanRowType
  BY DEF TypeOK
<1>2. group' \in Groups
  BY <1>1 DEF TypeOK, PlanRowType, ActivateSubscription, GrantsGroup
<1>3. original' \in [Subs -> Groups \cup {None}] /\ \A x \in Subs \ {s} : original'[x] = original[x]
  BY DEF TypeOK, ActivateSubscription
<1>4. activations' = [activations EXCEPT ![s] = @ + 1]
  BY DEF ActivateSubscription
<1>5. activations' \in [Subs -> Nat]
  BY <1>4 DEF TypeOK
<1> QED
  BY <1>2, <1>3, <1>4, <1>5 DEF TypeOK, ActivateSubscription

\* Purchases, payments, administrators and the clock.
LEMMA RowStep ==
  ASSUME SubsInv, NEW s \in Subs,
         \/ CreateSubscription(s) \/ CreateOrder(s) \/ CreateOrderFails(s)
         \/ RechargeOrder(s) \/ AdminBind(s) \/ AdminInvalidate(s)
         \/ AdminDelete(s) \/ TimePasses(s)
  PROVE  SubsInv'
<1>0. TypeOK /\ (\A x \in Subs : ActivatedOnce(x)) /\ \A e \in Expirers : RowsActivated(e)
  BY DEF SubsInv
<1>1. ASSUME CreateSubscription(s) PROVE SubsInv'
  <2>1. TypeOK'
    BY <1>1, <1>0 DEF TypeOK, Statuses, OrderStates, PlanRowType, ActivatedOnce, CreateSubscription
  <2>2. \A x \in Subs : ActivatedOnce(x)'
    BY <1>1, <1>0 DEF TypeOK, ActivatedOnce, RowsActivated, RowType, CreateSubscription
  <2>3. \A e \in Expirers : RowsActivated(e)'
    BY <1>1, <1>0 DEF TypeOK, ActivatedOnce, RowsActivated, RowType, CreateSubscription
  <2> QED
    BY <2>1, <2>2, <2>3 DEF SubsInv
<1>2. ASSUME CreateOrder(s) PROVE SubsInv'
  <2>1. TypeOK'
    BY <1>2, <1>0 DEF TypeOK, Statuses, OrderStates, PlanRowType, ActivatedOnce, CreateOrder
  <2>2. \A x \in Subs : ActivatedOnce(x)'
    BY <1>2, <1>0 DEF TypeOK, ActivatedOnce, RowsActivated, RowType, CreateOrder
  <2>3. \A e \in Expirers : RowsActivated(e)'
    BY <1>2, <1>0 DEF TypeOK, ActivatedOnce, RowsActivated, RowType, CreateOrder
  <2> QED
    BY <2>1, <2>2, <2>3 DEF SubsInv
<1>3. ASSUME CreateOrderFails(s) PROVE SubsInv'
  <2>1. TypeOK'
    BY <1>3, <1>0 DEF TypeOK, Statuses, OrderStates, PlanRowType, ActivatedOnce, CreateOrderFails
  <2>2. \A x \in Subs : ActivatedOnce(x)'
    BY <1>3, <1>0 DEF TypeOK, ActivatedOnce, RowsActivated, RowType, CreateOrderFails
  <2>3. \A e \in Expirers : RowsActivated(e)'
    BY <1>3, <1>0 DEF TypeOK, ActivatedOnce, RowsActivated, RowType, CreateOrderFails
  <2> QED
    BY <2>1, <2>2, <2>3 DEF SubsInv
<1>4. ASSUME RechargeOrder(s) PROVE SubsInv'
  <2>1. CASE ActivateSubscription(s)
    <3>1. status[s] \in {"absent", "pending"} /\ activations[s] = 0
      BY <1>4, <1>0, <2>1, ActivateTyped DEF RechargeOrder, IsPending, ActivatedOnce, TypeOK, ActivationFails
    <3>2. order'[s] \in {"none", "paid"} /\ order' \in [Subs -> OrderStates]
          /\ \A x \in Subs \ {s} : order'[x] = order[x]
      BY <1>4, <1>0 DEF RechargeOrder, TypeOK, ActivatedOnce, OrderStates
    <3>3. TypeOK'
      BY <1>4, <1>0, <2>1, <3>2, ActivateTyped DEF TypeOK, Statuses, RechargeOrder
    <3>4. \A x \in Subs : ActivatedOnce(x)'
      BY <1>0, <2>1, <3>1, <3>2, ActivateTyped DEF TypeOK, ActivatedOnce
    <3>5. \A e \in Expirers : RowsActivated(e)'
      BY <1>4, <1>0, <2>1, <3>1, ActivateTyped DEF TypeOK, RowsActivated, RowType, RechargeOrder
    <3> QED
      BY <3>3, <3>4, <3>5 DEF SubsInv
  <2>2. CASE ~IsPending(s) /\ UNCHANGED <<group, status, original, expiry, pool, activations>>
    <3>1. TypeOK'
      BY <1>4, <1>0, <2>2 DEF TypeOK, OrderStates, RechargeOrder
    <3>2. \A x \in Subs : ActivatedOnce(x)'
      BY <1>4, <1>0, <2>2 DEF TypeOK, Statuses, ActivatedOnce, RechargeOrder, IsPending
    <3>3. \A e \in Expirers : RowsActivated(e)'
      BY <1>4, <1>0, <2>2 DEF TypeOK, RowsActivated, RechargeOrder
    <3> QED
      BY <3>1, <3>2, <3>3 DEF SubsInv
  <2> QED
    BY <1>4, <2>1, <2>2 DEF RechargeOrder, ActivationFails
<1>5. ASSUME AdminBind(s) PROVE SubsInv'
  <2>1. CASE ActivateSubscription(s)
    <3>1. status[s] \in {"absent", "pending"} /\ activations[s] = 0
      BY <1>5, <1>0, <2>1, ActivateTyped DEF AdminBind, ActivatedOnce, TypeOK
    <3>2. order'[s] \in {"none", "paid"} /\ order' \in [Subs -> OrderStates]
          /\ \A x \in Subs \ {s} : order'[x] = order[x]
      BY <1>5, <1>0 DEF AdminBind, TypeOK, ActivatedOnce, OrderStates
    <3>3. TypeOK'
      BY <1>5, <1>0, <2>1, <3>2, ActivateTyped DEF TypeOK, Statuses, AdminBind
    <3>4. \A x \in Subs : ActivatedOnce(x)'
      BY <1>0, <2>1, <3>1, <3>2, ActivateTyped DEF TypeOK, ActivatedOnce
    <3>5. \A e \in Expirers : RowsActivated(e)'
      BY <1>5, <1>0, <2>1, <3>1, ActivateTyped DEF TypeOK, RowsActivated, RowType, AdminBind
    <3> QED
      BY <3>3, <3>4, <3>5 DEF SubsInv
  <2> QED
    BY <1>5, <2>1 DEF AdminBind
<1>6. ASSUME AdminInvalidate(s) PROVE SubsInv'
  <2>1. TypeOK'
    BY <1>6, <1>0, RowTyped DEF TypeOK, Statuses, AdminInvalidate, Revert
  <2>2. \A x \in Subs : ActivatedOnce(x)'
    BY <1>6, <1>0 DEF TypeOK, ActivatedOnce, RowsActivated, RowType, AdminInvalidate, Revert, Row
  <2>3. \A e \in Expirers : RowsActivated(e)'
    BY <1>6, <1>0 DEF TypeOK, ActivatedOnce, RowsActivated, RowType, AdminInvalidate, Revert, Row
  <2> QED
    BY <2>1, <2>2, <2>3 DEF SubsInv
<1>7. ASSUME AdminDelete(s) PROVE SubsInv'
  <2>1. TypeOK'
    BY <1>7, <1>0, RowTyped DEF TypeOK, Statuses, AdminDelete, Revert
  <2>2. \A x \in Subs : ActivatedOnce(x)'
    BY <1>7, <1>0 DEF TypeOK, ActivatedOnce, RowsActivated, RowType, AdminDelete, Revert, Row
  <2>3. \A e \in Expirers : RowsActivated(e)'
    BY <1>7, <1>0 DEF TypeOK, ActivatedOnce, RowsActivated, RowType, AdminDelete, Revert, Row
  <2> QED
    BY <2>1, <2>2, <2>3 DEF SubsInv
<1>8. ASSUME TimePasses(s) PROVE SubsInv'
  <2>1. TypeOK'
    BY <1>8, <1>0 DEF TypeOK, Statuses, OrderStates, PlanRowType, ActivatedOnce, TimePasses
  <2>2. \A x \in Subs : ActivatedOnce(x)'
    BY <1>8, <1>0 DEF TypeOK, ActivatedOnce, RowsActivated, RowType, TimePasses
  <2>3. \A e \in Expirers : RowsActivated(e)'
    BY <1>8, <1>0 DEF TypeOK, ActivatedOnce, RowsActivated, RowType, TimePasses
  <2> QED
    BY <2>1, <2>2, <2>3 DEF SubsInv
<1> QED
  BY <1>1, <1>2, <1>3, <1>4, <1>5, <1>6, <1>7, <1>8

\* The statements of ExpireSubscriptions.
LEMMA ExpireStep ==
  ASSUME SubsInv, NEW e \in Expirers, Expire(e)
  PROVE  SubsInv'
<1>0. TypeOK /\ (\A x \in Subs : ActivatedOnce(x)) /\ \A f \in Expirers : RowsActivated(f)
  BY DEF SubsInv
<1>1. ASSUME ExpireScan(e) PROVE SubsInv'
  <2>1. TypeOK'
    BY <1>1, <1>0, RowTyped DEF TypeOK, Statuses, OrderStates, PlanRowType, ActivatedOnce, ExpireScan, Overdue
  <2>2. \A x \in Subs : ActivatedOnce(x)'
    BY <1>1, <1>0 DEF TypeOK, ActivatedOnce, RowsActivated, RowType, ExpireScan, Overdue
  <2>3. \A f \in Expirers : RowsActivated(f)'
    <3>1. /\ \A row \in todo'[e] : \E x \in Subs : Overdue(x) /\ row = Row(x)
          /\ \E x \in Subs : Row(x) \in todo'[e]
      BY <1>1, <1>0 DEF TypeOK, ExpireScan
    <3>2. ASSUME NEW row \in todo'[e]
          PROVE  activations[row.sub] = 1 /\ expiry[row.sub] = "due" /\ (row.reverts => row.to # None)
      BY <1>0, <3>1, RowTyped, GroupsAssumption DEF Overdue, ActivatedOnce
    <3>3. RowsActivated(e)'
      BY <1>1, <1>0, <3>1, <3>2 DEF TypeOK, RowsActivated, ExpireScan
    <3>4. \A f \in Expirers \ {e} : RowsActivated(f)'
      BY <1>1, <1>0 DEF TypeOK, RowsActivated, ExpireScan
    <3> QED
      BY <3>3, <3>4
  <2> QED
    BY <2>1, <2>2, <2>3 DEF SubsInv
<1>2. ASSUME NEW row \in todo[e], ExpireMark(e, row) PROVE SubsInv'
  <2>1. TypeOK'
    BY <1>2, <1>0 DEF TypeOK, Statuses, OrderStates, PlanRowType, ActivatedOnce, ExpireMark
  <2>2. \A x \in Subs : ActivatedOnce(x)'
    BY <1>2, <1>0 DEF TypeOK, ActivatedOnce, RowsActivated, RowType, ExpireMark
  <2>3. \A f \in Expirers : RowsActivated(f)'
    BY <1>2, <1>0 DEF TypeOK, ActivatedOnce, RowsActivated, RowType, ExpireMark
  <2> QED
    BY <2>1, <2>2, <2>3 DEF SubsInv
<1>3. ASSUME ExpireRevert(e) PROVE SubsInv'
  <2>1. TypeOK'
    BY <1>3, <1>0 DEF TypeOK, ExpireRevert, ExpireReverts, Revert, AfterRow, RowsActivated, RowType, NoRow
  <2>2. \A x \in Subs : ActivatedOnce(x)'
    BY <1>3, <1>0 DEF TypeOK, ActivatedOnce, RowsActivated, RowType, ExpireRevert, ExpireReverts, Revert, AfterRow, RowsActivated, RowType, NoRow
  <2>3. \A f \in Expirers : RowsActivated(f)'
    BY <1>3, <1>0 DEF TypeOK, ActivatedOnce, RowsActivated, RowType, ExpireRevert, ExpireReverts, Revert, AfterRow, RowsActivated, RowType, NoRow
  <2> QED
    BY <2>1, <2>2, <2>3 DEF SubsInv
<1> QED
  BY <1>1, <1>2, <1>3 DEF Expire

\* Plan edits and restarts leave the rows alone.
LEMMA OtherStep ==
  ASSUME SubsInv,
         \/ \E p \in Plans : SetPlanEnabled(p) \/ DeletePlan(p) \/ \E row \in PlanRows : UpdatePlan(p, row)
         \/ Crash
  PROVE  SubsInv'
<1>0. TypeOK /\ (\A x \in Subs : ActivatedOnce(x)) /\ \A e \in Expirers : RowsActivated(e)
  BY DEF SubsInv
<1>1. ASSUME NEW p \in Plans, SetPlanEnabled(p) \/ DeletePlan(p) PROVE SubsInv'
  <2>1. TypeOK'
    BY <1>1, <1>0 DEF TypeOK, Statuses, OrderStates, PlanRowType, ActivatedOnce, SetPlanEnabled, DeletePlan, Edit
  <2>2. \A x \in Subs : ActivatedOnce(x)'
    BY <1>1, <1>0 DEF TypeOK, ActivatedOnce, RowsActivated, RowType, SetPlanEnabled, DeletePlan, Edit
  <2>3. \A e \in Expirers : RowsActivated(e)'
    BY <1>1, <1>0 DEF TypeOK, ActivatedOnce, RowsActivated, RowType, SetPlanEnabled, DeletePlan, Edit
  <2> QED
    BY <2>1, <2>2, <2>3 DEF SubsInv
<1>2. ASSUME NEW p \in Plans, NEW row \in PlanRows, UpdatePlan(p, row) PROVE SubsInv'
  <2>1. TypeOK'
    BY <1>2, <1>0, PlanRowsAssumption DEF TypeOK, Statuses, OrderStates, PlanRowType, ActivatedOnce, UpdatePlan, Edit
  <2>2. \A x \in Subs : ActivatedOnce(x)'
    BY <1>2, <1>0 DEF TypeOK, ActivatedOnce, RowsActivated, RowType, UpdatePlan, Edit
  <2>3. \A e \in Expirers : RowsActivated(e)'
    BY <1>2, <1>0 DEF TypeOK, ActivatedOnce, RowsActivated, RowType, UpdatePlan, Edit
  <2> QED
    BY <2>1, <2>2, <2>3 DEF SubsInv
<1>3. ASSUME Crash PROVE SubsInv'
  <2>1. TypeOK'
    BY <1>3, <1>0 DEF TypeOK, Statuses, OrderStates, PlanRowType, ActivatedOnce, Crash
  <2>2. \A x \in Subs : ActivatedOnce(x)'
    BY <1>3, <1>0 DEF TypeOK, ActivatedOnce, Crash
  <2>3. \A e \in Expirers : RowsActivated(e)'
    BY <1>3, <1>0 DEF TypeOK, RowsActivated, NoRow, Crash
  <2> QED
    BY <2>1, <2>2, <2>3 DEF SubsInv
<1> QED
  BY <1>1, <1>2, <1>3

\* SubsInv is inductive.
LEMMA NextSubsInv == SubsInv /\ [Next]_vars => SubsInv'
<1> SUFFICES ASSUME SubsInv, [Next]_vars PROVE SubsInv'
  OBVIOUS
<1>1. CASE Next
  BY <1>1, RowStep, ExpireStep, OtherStep DEF Next
<1>2. CASE UNCHANGED vars
  BY <1>2 DEF vars, SubsInv, TypeOK, ActivatedOnce, RowsActivated
<1> QED
  BY <1>1, <1>2

\* Whatever overlaps, a subscription is activated at most once, only when paid
\* for or bound, and expirers only hold rows whose time is over.
THEOREM SubscriptionsInvariant == Spec => []SubsInv
BY InitSubsInv, NextSubsInv, PTL DEF Spec

\* A subscription that has ended never becomes active again.
THEOREM SubscriptionEndedForGood == Spec => EndedForGood
<1> DEFINE Over == {"expired", "cancelled", "deleted"}
<1>1. ASSUME SubsInv, [Next]_vars, NEW s \in Subs, status[s] \in Over PROVE status'[s] \in Over
  <2>0. TypeOK /\ \A x \in Subs : ActivatedOnce(x)
    BY <1>1 DEF SubsInv
  <2>1. ASSUME NEW x \in Subs,
               \/ CreateSubscription(x) \/ CreateOrder(x) \/ CreateOrderFails(x)
               \/ RechargeOrder(x) \/ AdminBind(x) \/ AdminInvalidate(x)
               \/ AdminDelete(x) \/ TimePasses(x)
        PROVE  status'[s] \in Over
    BY <1>1, <2>0, <2>1
       DEF TypeOK, CreateSubscription, CreateOrder, CreateOrderFails, RechargeOrder, IsPending,
           ActivateSubscription, AdminBind, AdminInvalidate, AdminDelete, TimePasses
  <2>2. ASSUME NEW e \in Expirers, Expire(e) PROVE status'[s] \in Over
    BY <1>1, <2>0, <2>2 DEF TypeOK, Expire, ExpireScan, ExpireMark, ExpireRevert
  <2> QED
    BY <1>1, <2>1, <2>2
       DEF Next, vars, SetPlanEnabled, DeletePlan, UpdatePlan, Crash
<1>2. SubsInv /\ [Next]_vars
        => [\A s \in Subs : status[s] \in Over => status'[s] \in Over]_vars
  BY <1>1
<1> QED
  BY <1>2, SubscriptionsInvariant, PTL DEF Spec, EndedForGood

\* A permanent subscription is never expired.
THEOREM SubscriptionPermanentStays == Spec => PermanentStays
<1>1. ASSUME SubsInv, [Next]_vars, NEW s \in Subs, status[s] = "active", expiry[s] = "never"
      PROVE  status'[s] # "expired"
  <2>0. TypeOK /\ (\A x \in Subs : ActivatedOnce(x)) /\ \A f \in Expirers : RowsActivated(f)
    BY <1>1 DEF SubsInv
  <2>1. ASSUME NEW x \in Subs,
               \/ CreateSubscription(x) \/ CreateOrder(x) \/ CreateOrderFails(x)
               \/ RechargeOrder(x) \/ AdminBind(x) \/ AdminInvalidate(x)
               \/ AdminDelete(x) \/ TimePasses(x)
        PROVE  status'[s] # "expired"
    BY <1>1, <2>0, <2>1
       DEF TypeOK, CreateSubscription, CreateOrder, CreateOrderFails, RechargeOrder, IsPending,
           ActivateSubscription, AdminBind, AdminInvalidate, AdminDelete, TimePasses
  <2>2. ASSUME NEW e \in Expirers, Expire(e) PROVE status'[s] # "expired"
    <3>1. CASE \E row \in todo[e] : ExpireMark(e, row)
      <4>1. PICK row \in todo[e] : ExpireMark(e, row)
        BY <3>1
      <4>2. row.sub # s
        BY <1>1, <2>0, <4>1 DEF RowsActivated
      <4> QED
        BY <1>1, <2>0, <4>1, <4>2 DEF TypeOK, ExpireMark
    <3>2. CASE ExpireScan(e) \/ ExpireRevert(e)
      BY <1>1, <3>2 DEF ExpireScan, ExpireRevert
    <3> QED
      BY <2>2, <3>1, <3>2 DEF Expire
  <2> QED
    BY <1>1, <2>1, <2>2
       DEF Next, vars, SetPlanEnabled, DeletePlan, UpdatePlan, Crash
<1>2. SubsInv /\ [Next]_vars
        => [\A s \in Subs : status[s] = "active" /\ expiry[s] = "never" => status'[s] # "expired"]_vars
  BY <1>1
<1> QED
  BY <1>2, SubscriptionsInvariant, PTL DEF Spec, PermanentStays

-----------------------------------------------------------------------------
(* The way back to the first group.  It is owed by an active subscription  *)
(* that granted a group, or by an expirer between its two statements.      *)

OnlyFromBase == \A s \in Subs : original[s] \in {None, Base}

\* While no plan was edited, a group was saved only under a plan that grants one.
PlansAsBought ==
  edits = 0 => present = Plans /\ \A s \in Subs : original[s] # None => plan[planOf[s]].type.group

\* A row in memory says what the table says.
Faithful(row) == row.to = original[row.sub] /\ (original[row.sub] # None => row.reverts)

RowsFaithful ==
  edits = 0 => \A e \in Expirers : /\ \A row \in todo[e] : Faithful(row)
                                   /\ pc[e] = "revert" => Faithful(current[e])

ReturnOwed ==
  edits = 0 /\ crashes = 0 /\ OnlyFromBase /\ group # Base =>
    \/ \E s \in Subs : status[s] = "active" /\ original[s] = Base
    \/ \E e \in Expirers : pc[e] = "revert" /\ current[e].reverts

ReturnInv == PlansAsBought /\ RowsFaithful /\ ReturnOwed

LEMMA InitReturnInv == Init => ReturnInv
BY DEF Init, ReturnInv, PlansAsBought, RowsFaithful, ReturnOwed

\* Purchases that do not activate anything, and the clock.
LEMMA QuietReturn ==
  ASSUME SubsInv, ReturnInv, NEW s \in Subs,
         CreateSubscription(s) \/ CreateOrder(s) \/ CreateOrderFails(s) \/ TimePasses(s)
  PROVE  ReturnInv'
<1>0. TypeOK /\ \A x \in Subs : ActivatedOnce(x)
  BY DEF SubsInv
<1>1. UNCHANGED <<group, plan, present, original, planOf, pc, todo, current, edits, crashes>>
  BY DEF CreateSubscription, CreateOrder, CreateOrderFails, TimePasses
<1>2. \A x \in Subs : status[x] = "active" => status'[x] = "active"
  BY <1>0 DEF TypeOK, ActivatedOnce, CreateSubscription, CreateOrder, CreateOrderFails, TimePasses
<1>3. PlansAsBought'
  BY <1>1 DEF ReturnInv, PlansAsBought
<1>4. RowsFaithful'
  BY <1>1 DEF ReturnInv, RowsFaithful, Faithful
<1>5. ReturnOwed'
  BY <1>1, <1>2 DEF ReturnInv, ReturnOwed, OnlyFromBase
<1> QED
  BY <1>3, <1>4, <1>5 DEF ReturnInv

\* An activation saves the group it replaces.
LEMMA ActivateReturn ==
  ASSUME SubsInv, ReturnInv, NEW s \in Subs, activations[s] = 0, ActivateSubscription(s),
         status[s] # "active", UNCHANGED <<plan, present, planOf, pc, todo, current, edits, crashes>>
  PROVE  ReturnInv'
<1>0. /\ TypeOK /\ (\A e \in Expirers : RowsActivated(e)) /\ original[s] = None /\ group \in Groups
      /\ status' = [status EXCEPT ![s] = "active"]
  BY DEF SubsInv, ActivatedOnce, TypeOK, ActivateSubscription
<1>1. \A x \in Subs \ {s} : original'[x] = original[x]
  BY <1>0, ActivateTyped
<1>2. PlansAsBought'
  BY <1>0, <1>1 DEF ReturnInv, PlansAsBought, ActivateSubscription, GrantsGroup, TypeOK
<1>3. RowsFaithful'
  <2>1. ASSUME NEW e \in Expirers, NEW row \in todo[e] PROVE row.sub \in Subs \ {s}
    BY <1>0, <2>1 DEF RowsActivated, TypeOK, RowType
  <2>2. ASSUME NEW e \in Expirers, pc[e] = "revert" PROVE current[e].sub \in Subs \ {s}
    BY <1>0, <2>2 DEF RowsActivated, TypeOK, RowType
  <2> QED
    BY <1>1, <2>1, <2>2 DEF ReturnInv, RowsFaithful, Faithful
<1>4. ReturnOwed'
  <2>1. CASE GrantsGroup(s)
    BY <1>0, <2>1, GroupsAssumption DEF ReturnOwed, OnlyFromBase, ActivateSubscription, TypeOK
  <2>2. CASE ~GrantsGroup(s)
    <3>1. original' = original /\ group' = group
      BY <2>2 DEF ActivateSubscription
    <3>2. \A x \in Subs : status[x] = "active" => status'[x] = "active"
      BY <1>0 DEF TypeOK
    <3> QED
      BY <3>1, <3>2 DEF ReturnInv, ReturnOwed, OnlyFromBase
  <2> QED
    BY <2>1, <2>2
<1> QED
  BY <1>2, <1>3, <1>4 DEF ReturnInv

LEMMA PaidReturn ==
  ASSUME SubsInv, ReturnInv, NEW s \in Subs, RechargeOrder(s) \/ AdminBind(s)
  PROVE  ReturnInv'
<1>0. TypeOK /\ ActivatedOnce(s)
  BY DEF SubsInv
<1>1. UNCHANGED <<plan, present, planOf, pc, todo, current, edits, crashes>>
  BY DEF RechargeOrder, AdminBind
<1>2. CASE ActivateSubscription(s)
  <2>1. status[s] \in {"absent", "pending"} /\ activations[s] = 0
    BY <1>0, <1>2, ActivateTyped DEF RechargeOrder, AdminBind, IsPending, ActivatedOnce, ActivationFails, TypeOK
  <2> QED
    BY <1>1, <1>2, <2>1, ActivateReturn
<1>3. CASE UNCHANGED <<group, status, original>>
  BY <1>1, <1>3 DEF ReturnInv, PlansAsBought, RowsFaithful, Faithful, ReturnOwed, OnlyFromBase
<1> QED
  BY <1>2, <1>3 DEF RechargeOrder, AdminBind

\* An administrator ends a subscription and puts the group back.
LEMMA AdminReturn ==
  ASSUME SubsInv, ReturnInv, NEW s \in Subs, AdminInvalidate(s) \/ AdminDelete(s)
  PROVE  ReturnInv'
<1>0. TypeOK /\ ActivatedOnce(s)
  BY DEF SubsInv
<1>1. UNCHANGED <<plan, present, original, planOf, pc, todo, current, edits, crashes>>
  BY DEF AdminInvalidate, AdminDelete
<1>2. PlansAsBought' /\ RowsFaithful'
  BY <1>1 DEF ReturnInv, PlansAsBought, RowsFaithful, Faithful
<1>3. ReturnOwed'
  <2> SUFFICES ASSUME edits = 0, crashes = 0, OnlyFromBase, group' # Base
               PROVE  \/ \E x \in Subs : status'[x] = "active" /\ original[x] = Base
                      \/ \E e \in Expirers : pc[e] = "revert" /\ current[e].reverts
    BY <1>1 DEF ReturnOwed, OnlyFromBase
  <2>1. \A x \in Subs \ {s} : status'[x] = status[x]
    BY <1>0 DEF AdminInvalidate, AdminDelete, TypeOK
  <2>2. CASE status[s] = "active" /\ original[s] = Base
    <3>1. plan[planOf[s]].type.group /\ planOf[s] \in present /\ original[s] # None
      BY <1>0, <2>2, GroupsAssumption DEF ReturnInv, PlansAsBought, TypeOK
    <3>2. Row(s).reverts /\ Row(s).to = Base
      BY <2>2, <3>1 DEF Row
    <3>3. Revert(Row(s))
      BY <2>2 DEF AdminInvalidate, AdminDelete
    <3> QED
      BY <3>2, <3>3 DEF Revert
  <2>3. CASE ~(status[s] = "active" /\ original[s] = Base)
    <3>1. group' = group
      <4>1. original[s] = None \/ (status[s] # "active" /\ AdminDelete(s))
        BY <1>0, <2>3 DEF OnlyFromBase, AdminInvalidate, ActivatedOnce, TypeOK
      <4>2. original[s] = None => ~Row(s).reverts
        BY DEF Row
      <4> QED
        BY <4>1, <4>2 DEF AdminInvalidate, AdminDelete, Revert
    <3> QED
      BY <2>1, <2>3, <3>1 DEF ReturnInv, ReturnOwed
  <2> QED
    BY <2>2, <2>3
<1> QED
  BY <1>2, <1>3 DEF ReturnInv

\* The statements of ExpireSubscriptions: a row that is marked is owed its way back until the
\* next statement.
LEMMA ExpireReturn ==
  ASSUME SubsInv, ReturnInv, NEW e \in Expirers, Expire(e)
  PROVE  ReturnInv'
<1>0. TypeOK /\ \A f \in Expirers : RowsActivated(f)
  BY DEF SubsInv
<1>1. UNCHANGED <<plan, present, original, planOf, edits, crashes>>
  BY DEF Expire, ExpireScan, ExpireMark, ExpireRevert
<1>2. PlansAsBought'
  BY <1>1 DEF ReturnInv, PlansAsBought
<1>3. CASE ExpireScan(e)
  <2>1. RowsFaithful'
    <3> SUFFICES ASSUME edits = 0, NEW f \in Expirers
                 PROVE  /\ \A row \in todo'[f] : Faithful(row)
                        /\ pc'[f] = "revert" => Faithful(current'[f])
      BY <1>1 DEF RowsFaithful, Faithful
    <3>1. \A x \in Subs : Faithful(Row(x))
      BY <1>0 DEF ReturnInv, PlansAsBought, Faithful, Row, TypeOK
    <3>2. todo'[f] = todo[f] \/ todo'[f] = {Row(x) : x \in {y \in Subs : Overdue(y)}}
      BY <1>0, <1>3 DEF ExpireScan, TypeOK
    <3>3. current' = current /\ (pc'[f] = "revert" => pc[f] = "revert")
      BY <1>0, <1>3 DEF ExpireScan, TypeOK
    <3> QED
      BY <3>1, <3>2, <3>3 DEF ReturnInv, RowsFaithful
  <2>2. \A f \in Expirers : pc[f] = "revert" => pc'[f] = "revert"
    BY <1>0, <1>3 DEF ExpireScan, TypeOK
  <2>3. ReturnOwed'
    BY <1>1, <1>3, <2>2 DEF ReturnInv, ReturnOwed, OnlyFromBase, ExpireScan
  <2> QED
    BY <1>2, <2>1, <2>3 DEF ReturnInv
<1>4. ASSUME NEW row \in todo[e], ExpireMark(e, row) PROVE ReturnInv'
  <2>1. RowsFaithful'
    BY <1>0, <1>1, <1>4 DEF ExpireMark, ReturnInv, RowsFaithful, Faithful, TypeOK
  <2>2. ReturnOwed'
    <3> SUFFICES ASSUME edits = 0, crashes = 0, OnlyFromBase, group # Base
                 PROVE  \/ \E x \in Subs : status'[x] = "active" /\ original[x] = Base
                        \/ \E f \in Expirers : pc'[f] = "revert" /\ current'[f].reverts
      BY <1>1, <1>4 DEF ReturnOwed, OnlyFromBase, ExpireMark
    <3>1. CASE \E x \in Subs : status[x] = "active" /\ original[x] = Base
      <4>1. PICK x \in Subs : status[x] = "active" /\ original[x] = Base
        BY <3>1
      <4>2. CASE x = row.sub
        <5>1. Base # None /\ Faithful(row)
          BY <1>4, GroupsAssumption DEF ReturnInv, RowsFaithful
        <5>2. row.reverts
          BY <4>1, <4>2, <5>1 DEF Faithful
        <5>3. pc'[e] = "revert" /\ current'[e] = row
          BY <1>0, <1>4 DEF ExpireMark, TypeOK
        <5> QED
          BY <5>2, <5>3
      <4>3. CASE x # row.sub
        BY <1>0, <1>4, <4>1, <4>3 DEF ExpireMark, TypeOK
      <4> QED
        BY <4>2, <4>3
    <3>2. CASE \E f \in Expirers : pc[f] = "revert" /\ current[f].reverts
      <4>1. PICK f \in Expirers : pc[f] = "revert" /\ current[f].reverts
        BY <3>2
      <4>2. f # e /\ pc'[f] = pc[f] /\ current'[f] = current[f]
        BY <1>0, <1>4, <4>1 DEF ExpireMark, TypeOK
      <4> QED
        BY <4>1, <4>2
    <3> QED
      BY <3>1, <3>2 DEF ReturnInv, ReturnOwed
  <2> QED
    BY <1>2, <2>1, <2>2 DEF ReturnInv
<1>5. CASE ExpireRevert(e)
  <2>1. RowsFaithful'
    <3> SUFFICES ASSUME edits = 0, NEW f \in Expirers
                 PROVE  /\ \A row \in todo[f] : Faithful(row)
                        /\ pc'[f] = "revert" => Faithful(current'[f])
      BY <1>1, <1>5 DEF RowsFaithful, Faithful, ExpireRevert
    <3>1. pc'[e] # "revert"
      BY <1>0, <1>5 DEF ExpireRevert, AfterRow, TypeOK
    <3>2. f # e => pc'[f] = pc[f] /\ current'[f] = current[f]
      BY <1>0, <1>5 DEF ExpireRevert, TypeOK
    <3> QED
      BY <3>1, <3>2 DEF ReturnInv, RowsFaithful
  <2>2. ReturnOwed'
    <3> SUFFICES ASSUME edits = 0, crashes = 0, OnlyFromBase, group' # Base
                 PROVE  \/ \E x \in Subs : status[x] = "active" /\ original[x] = Base
                        \/ \E f \in Expirers : pc'[f] = "revert" /\ current'[f].reverts
      BY <1>1, <1>5 DEF ReturnOwed, OnlyFromBase, ExpireRevert
    <3>1. Faithful(current[e]) /\ current[e] \in RowType
      BY <1>0, <1>5 DEF ReturnInv, RowsFaithful, ExpireRevert, RowsActivated
    <3>2. current[e].reverts => current[e].to = Base
      BY <1>0, <3>1 DEF RowsActivated, Faithful, OnlyFromBase, RowType
    <3>3. ~current[e].reverts /\ group' = group
      BY <1>5, <3>2 DEF ExpireRevert, ExpireReverts, Revert
    <3>4. \A f \in Expirers \ {e} : pc'[f] = pc[f] /\ current'[f] = current[f]
      BY <1>0, <1>5 DEF ExpireRevert, TypeOK
    <3> QED
      BY <3>3, <3>4 DEF ReturnInv, ReturnOwed
  <2> QED
    BY <1>2, <2>1, <2>2 DEF ReturnInv
<1> QED
  BY <1>3, <1>4, <1>5 DEF Expire

LEMMA NextReturnInv == SubsInv /\ ReturnInv /\ [Next]_vars => ReturnInv'
<1> SUFFICES ASSUME SubsInv, ReturnInv, [Next]_vars PROVE ReturnInv'
  OBVIOUS
<1>0. TypeOK
  BY DEF SubsInv
<1>1. ASSUME NEW s \in Subs, \/ CreateSubscription(s) \/ CreateOrder(s) \/ CreateOrderFails(s)
                             \/ RechargeOrder(s) \/ AdminBind(s) \/ AdminInvalidate(s)
                             \/ AdminDelete(s) \/ TimePasses(s)
      PROVE  ReturnInv'
  BY <1>1, QuietReturn, PaidReturn, AdminReturn
<1>2. ASSUME NEW e \in Expirers, Expire(e) PROVE ReturnInv'
  BY <1>2, ExpireReturn
<1>3. ASSUME NEW p \in Plans, SetPlanEnabled(p) \/ DeletePlan(p) \/ \E row \in PlanRows : UpdatePlan(p, row)
      PROVE  ReturnInv'
  <2>1. edits' # 0
    BY <1>0, <1>3 DEF SetPlanEnabled, DeletePlan, UpdatePlan, Edit, TypeOK
  <2> QED
    BY <2>1 DEF ReturnInv, PlansAsBought, RowsFaithful, ReturnOwed
<1>4. CASE Crash
  <2>1. crashes' # 0
    BY <1>0, <1>4 DEF Crash, TypeOK
  <2> QED
    BY <1>4, <2>1 DEF Crash, ReturnInv, PlansAsBought, RowsFaithful, ReturnOwed
<1>5. CASE UNCHANGED vars
  BY <1>5 DEF vars, ReturnInv, PlansAsBought, RowsFaithful, Faithful, ReturnOwed, OnlyFromBase
<1> QED
  BY <1>1, <1>2, <1>3, <1>4, <1>5 DEF Next

\* When no subscription was activated on top of another one's group, the user is back in his
\* first group once all have ended, however many runs of ExpireSubscriptions overlap.
THEOREM SubscriptionsRevert == Spec => []RevertsIfNeverOverlapping
<1>1. ReturnInv => RevertsIfNeverOverlapping
  BY DEF ReturnInv, ReturnOwed, OnlyFromBase, RevertsIfNeverOverlapping, Settled
<1>2. Spec => []ReturnInv
  BY InitReturnInv, NextReturnInv, SubscriptionsInvariant, PTL DEF Spec
<1> QED
  BY <1>1, <1>2, PTL
============================================================================
