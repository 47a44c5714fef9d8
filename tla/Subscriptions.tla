--------------------------- MODULE Subscriptions ---------------------------
(***************************************************************************)
(* The subscriptions of one user: ordered and paid for, or bound by an     *)
(* administrator; activated, which moves the user to the plan's group and  *)
(* opens a quota pool; expired by ExpireSubscriptions, which several       *)
(* goroutines run at once (an hourly timer and every listing request);     *)
(* invalidated or deleted by an administrator, while plans are edited.     *)
(*                                                                         *)
(* A database transaction is one step; ExpireSubscriptions is not one, and *)
(* each of its statements is a step of its own.                            *)
(***************************************************************************)
EXTENDS Naturals, FiniteSets

CONSTANTS Subs,         \* rows of user_subscriptions
          Plans,        \* rows of subscription_plans
          Groups,       \* user groups
          Base,         \* the user's group at the start
          None,         \* no group: an empty column
          PlanRows,     \* contents an administrator may give a plan
          Expirers,     \* goroutines that run ExpireSubscriptions
          MaxEdits,     \* bound on edits and deletions of plans
          MaxCrashes    \* bound on restarts of the server

PlanTypes == [group : BOOLEAN, quota : BOOLEAN]   \* what Type lets the plan grant
PlanRowType == [type : PlanTypes, group : Groups \cup {None}, timed : BOOLEAN]

ASSUME GroupsAssumption == Base \in Groups /\ None \notin Groups
ASSUME PlanRowsAssumption == PlanRows \subseteq PlanRowType /\ PlanRows # {}
ASSUME BoundsAssumption == MaxEdits \in Nat /\ MaxCrashes \in Nat

VARIABLES
  group,       \* User.Group
  plan,        \* [Plans -> PlanRowType], SubscriptionPlan
  enabled,     \* plans on offer
  present,     \* plans that have not been deleted
  status,      \* [Subs -> ...], UserSubscription.Status
  planOf,      \* [Subs -> Plans], PlanId
  original,    \* [Subs -> Groups \cup {None}], OriginalGroup
  expiry,      \* [Subs -> {"never", "later", "due"}], ExpiredAt against the clock
  pool,        \* subscriptions with a quota of their own
  order,       \* [Subs -> OrderStates], the PaymentOrder ("creating": not yet inserted)
  activations, \* [Subs -> Nat], how often the row was activated
  pc, todo, current,   \* each expirer: where it is, its rows, the row it is at
  edits, crashes

planVars == <<plan, enabled, present, edits>>
subVars  == <<status, planOf, original, expiry, pool, order, activations>>
runVars  == <<pc, todo, current>>
vars     == <<group, plan, enabled, present, status, planOf, original, expiry, pool, order,
              activations, pc, todo, current, edits, crashes>>

OrderStates == {"none", "creating", "pending", "paid"}
Statuses == {"absent", "pending", "active", "expired", "cancelled", "deleted"}

\* A row as Find and Preload left it in memory.
Row(s) == [sub |-> s,
           reverts |-> planOf[s] \in present /\ plan[planOf[s]].type.group /\ original[s] # None,
           to |-> original[s]]
RowType == [sub : Subs, reverts : BOOLEAN, to : Groups \cup {None}]
NoRow == [sub |-> None, reverts |-> FALSE, to |-> None]

TypeOK ==
  /\ group \in Groups
  /\ plan \in [Plans -> PlanRowType] /\ enabled \subseteq Plans /\ present \subseteq Plans
  /\ status \in [Subs -> Statuses] /\ planOf \in [Subs -> Plans]
  /\ original \in [Subs -> Groups \cup {None}]
  /\ expiry \in [Subs -> {"never", "later", "due"}]
  /\ pool \subseteq Subs
  /\ order \in [Subs -> OrderStates]
  /\ activations \in [Subs -> Nat]
  /\ pc \in [Expirers -> {"idle", "loop", "revert"}]
  /\ todo \in [Expirers -> SUBSET RowType]
  /\ current \in [Expirers -> RowType \cup {NoRow}]
  /\ edits \in Nat /\ crashes \in Nat

Init ==
  /\ group = Base
  /\ plan \in [Plans -> PlanRows] /\ enabled = Plans /\ present = Plans
  /\ status = [s \in Subs |-> "absent"] /\ planOf \in [Subs -> Plans]
  /\ original = [s \in Subs |-> None] /\ expiry = [s \in Subs |-> "never"]
  /\ pool = {} /\ order = [s \in Subs |-> "none"]
  /\ activations = [s \in Subs |-> 0]
  /\ pc = [e \in Expirers |-> "idle"] /\ todo = [e \in Expirers |-> {}]
  /\ current = [e \in Expirers |-> NoRow]
  /\ edits = 0 /\ crashes = 0

-----------------------------------------------------------------------------
(* ActivateSubscription, inside the caller's transaction.                  *)

\* Seeded bug: the UPDATE has no "status = pending" condition.
BugIsPending(s) == status[s] # "absent"

IsPending(s) == status[s] = "pending"

\* Seeded bug: the missing plan is taken for "nothing to do".
BugActivationFails(s) == FALSE

\* The plan row is gone: the caller's transaction is rolled back.
ActivationFails(s) == IsPending(s) /\ planOf[s] \notin present

\* The group is saved and replaced when the plan grants one.
GrantsGroup(s) == plan[planOf[s]].type.group /\ plan[planOf[s]].group # None

ActivateSubscription(s) ==
  LET p == plan[planOf[s]]
  IN /\ expiry' = [expiry EXCEPT ![s] = IF p.timed THEN "later" ELSE "never"]
     /\ status' = [status EXCEPT ![s] = "active"]
     /\ activations' = [activations EXCEPT ![s] = @ + 1]
     /\ IF GrantsGroup(s)
        THEN original' = [original EXCEPT ![s] = group] /\ group' = p.group
        ELSE UNCHANGED <<original, group>>
     /\ pool' = IF p.type.quota THEN pool \cup {s} ELSE pool

-----------------------------------------------------------------------------
(* Buying and binding.                                                     *)

\* CreateSubscriptionOrder, first insert: a pending subscription.
CreateSubscription(s) ==
  /\ status[s] = "absent" /\ planOf[s] \in present \cap enabled
  /\ status' = [status EXCEPT ![s] = "pending"]
  /\ order' = [order EXCEPT ![s] = "creating"]
  /\ UNCHANGED <<group, planVars, planOf, original, expiry, pool, activations, runVars, crashes>>

\* Its second insert, once the provider has returned a payment page ...
CreateOrder(s) ==
  /\ order[s] = "creating"
  /\ order' = [order EXCEPT ![s] = "pending"]
  /\ UNCHANGED <<group, planVars, status, planOf, original, expiry, pool, activations, runVars, crashes>>

\* ... or the deletion of the row when the page or the order fails.
CreateOrderFails(s) ==
  /\ order[s] = "creating"
  /\ order' = [order EXCEPT ![s] = "none"]
  /\ status' = [status EXCEPT ![s] = "deleted"]
  /\ UNCHANGED <<group, planVars, planOf, original, expiry, pool, activations, runVars, crashes>>

\* RechargeOrder on a subscription order: the order becomes paid and the row is
\* activated, in one transaction; a row that is not pending is passed over.
RechargeOrder(s) ==
  /\ order[s] = "pending"
  /\ ~ActivationFails(s)
  /\ order' = [order EXCEPT ![s] = "paid"]
  /\ IF IsPending(s) /\ planOf[s] \in present
     THEN ActivateSubscription(s)
     ELSE UNCHANGED <<group, status, original, expiry, pool, activations>>
  /\ UNCHANGED <<planVars, planOf, runVars, crashes>>

\* adminBindSubscriptionTx: inserted pending and activated at once, even when
\* the plan is not on offer.
AdminBind(s) ==
  /\ status[s] = "absent" /\ planOf[s] \in present
  /\ ActivateSubscription(s)
  /\ UNCHANGED <<planVars, planOf, order, runVars, crashes>>

-----------------------------------------------------------------------------
(* Ending.                                                                 *)

\* The user's group goes back to what the row remembers.
Revert(row) == group' = IF row.reverts THEN row.to ELSE group

\* AdminInvalidateUserSubscription.
AdminInvalidate(s) ==
  /\ status[s] \in {"pending", "active"}
  /\ Revert(Row(s))
  /\ status' = [status EXCEPT ![s] = "cancelled"]
  /\ expiry' = [expiry EXCEPT ![s] = "due"]
  /\ UNCHANGED <<planVars, planOf, original, pool, order, activations, runVars, crashes>>

\* AdminDeleteUserSubscription: the group is only put back for an active row.
AdminDelete(s) ==
  /\ status[s] \in {"pending", "active", "expired", "cancelled"}
  /\ IF status[s] = "active" THEN Revert(Row(s)) ELSE UNCHANGED group
  /\ status' = [status EXCEPT ![s] = "deleted"]
  /\ UNCHANGED <<planVars, planOf, original, expiry, pool, order, activations, runVars, crashes>>

Overdue(s) == status[s] = "active" /\ expiry[s] = "due"

\* ExpireSubscriptions: the overdue rows are read with their plans ...
ExpireScan(e) ==
  /\ pc[e] = "idle" /\ \E s \in Subs : Overdue(s)
  /\ pc' = [pc EXCEPT ![e] = "loop"]
  /\ todo' = [todo EXCEPT ![e] = {Row(s) : s \in {x \in Subs : Overdue(x)}}]
  /\ UNCHANGED <<group, planVars, subVars, current, crashes>>

\* ... each is marked, by its id alone ...
ExpireMark(e, row) ==
  /\ pc[e] = "loop" /\ row \in todo[e]
  /\ status' = [status EXCEPT ![row.sub] = IF @ = "deleted" THEN @ ELSE "expired"]
  /\ todo' = [todo EXCEPT ![e] = @ \ {row}]
  /\ current' = [current EXCEPT ![e] = row]
  /\ pc' = [pc EXCEPT ![e] = "revert"]
  /\ UNCHANGED <<group, planVars, planOf, original, expiry, pool, order, activations, crashes>>

\* Seeded bug: the group is not put back.
BugExpireReverts(row) == UNCHANGED group

ExpireReverts(row) == Revert(row)

\* Seeded bug: the timer goroutine has no loop around its body.
BugAfterRow(e) == IF todo[e] = {} THEN "stopped" ELSE "loop"

AfterRow(e) == IF todo[e] = {} THEN "idle" ELSE "loop"

\* ... and then the group is put back.
ExpireRevert(e) ==
  /\ pc[e] = "revert"
  /\ ExpireReverts(current[e])
  /\ current' = [current EXCEPT ![e] = NoRow]
  /\ pc' = [pc EXCEPT ![e] = AfterRow(e)]
  /\ UNCHANGED <<planVars, subVars, todo, crashes>>

-----------------------------------------------------------------------------
(* Around them.                                                            *)

TimePasses(s) ==
  /\ status[s] = "active" /\ expiry[s] = "later"
  /\ expiry' = [expiry EXCEPT ![s] = "due"]
  /\ UNCHANGED <<group, planVars, status, planOf, original, pool, order, activations, runVars, crashes>>

Edit == edits < MaxEdits /\ edits' = edits + 1

\* AdminUpdateSubscriptionPlan, UpdateSubscriptionPlan.
UpdatePlan(p, row) ==
  /\ p \in present /\ row # plan[p] /\ Edit
  /\ plan' = [plan EXCEPT ![p] = row]
  /\ UNCHANGED <<group, enabled, present, subVars, runVars, crashes>>

\* AdminUpdateSubscriptionPlanStatus.
SetPlanEnabled(p) ==
  /\ p \in present /\ Edit
  /\ enabled' = IF p \in enabled THEN enabled \ {p} ELSE enabled \cup {p}
  /\ UNCHANGED <<group, plan, present, subVars, runVars, crashes>>

\* DeleteSubscriptionPlan.
DeletePlan(p) ==
  /\ p \in present /\ Edit
  /\ present' = present \ {p}
  /\ UNCHANGED <<group, plan, enabled, subVars, runVars, crashes>>

\* The goroutines and their rows are gone; the database stays as it is.
Crash ==
  /\ crashes < MaxCrashes /\ crashes' = crashes + 1
  /\ pc' = [e \in Expirers |-> "idle"] /\ todo' = [e \in Expirers |-> {}]
  /\ current' = [e \in Expirers |-> NoRow]
  /\ order' = [s \in Subs |-> IF order[s] = "creating" THEN "none" ELSE order[s]]
  /\ UNCHANGED <<group, planVars, status, planOf, original, expiry, pool, activations>>

Expire(e) == ExpireScan(e) \/ (\E row \in todo[e] : ExpireMark(e, row)) \/ ExpireRevert(e)

Next ==
  \/ \E s \in Subs : \/ CreateSubscription(s) \/ CreateOrder(s) \/ CreateOrderFails(s)
                     \/ RechargeOrder(s) \/ AdminBind(s) \/ AdminInvalidate(s)
                     \/ AdminDelete(s) \/ TimePasses(s)
  \/ \E e \in Expirers : Expire(e)
  \/ \E p \in Plans : SetPlanEnabled(p) \/ DeletePlan(p) \/ \E row \in PlanRows : UpdatePlan(p, row)
  \/ Crash

Spec == Init /\ [][Next]_vars

\* The timer runs ExpireSubscriptions every hour, to its end.
FairSpec == Spec /\ \A e \in Expirers : WF_vars(Expire(e))

-----------------------------------------------------------------------------
(* Safety.                                                                 *)

\* A subscription is activated at most once and only when it was paid for or
\* bound, a row that has not been activated grants nothing, and an order that
\* is paid has its row activated unless an administrator withdrew the row
\* before (ActivateSubscription's conditional UPDATE inside RechargeOrder).
ActivatedOnce(s) ==
  /\ activations[s] <= 1
  /\ status[s] \in {"absent", "pending"} => activations[s] = 0
  /\ status[s] = "absent" => order[s] = "none"
  /\ status[s] \in {"active", "expired"} => activations[s] = 1
  /\ activations[s] = 0 => original[s] = None /\ s \notin pool
  /\ activations[s] = 1 => order[s] \in {"none", "paid"}
  /\ order[s] = "paid" /\ activations[s] = 0 => status[s] \in {"cancelled", "deleted"}

\* The rows an expirer holds were activated for a limited time: it never
\* touches the others, however old its list is.
RowsActivated(e) ==
  /\ \A row \in todo[e] : activations[row.sub] = 1 /\ expiry[row.sub] = "due"
  /\ pc[e] = "revert" => current[e] \in RowType /\ activations[current[e].sub] = 1
  /\ \A row \in todo[e] \cup {current[e]} : row.reverts => row.to # None
  /\ pc[e] = "loop" => todo[e] # {}
  /\ pc[e] = "idle" => todo[e] = {}

SubsInv == TypeOK /\ (\A s \in Subs : ActivatedOnce(s)) /\ \A e \in Expirers : RowsActivated(e)

\* Once a subscription has ended it does not come back, whatever notices and
\* expiry runs were already under way (ActivateSubscription, ExpireSubscriptions).
EndedForGood ==
  [][\A s \in Subs : status[s] \in {"expired", "cancelled", "deleted"}
       => status'[s] \in {"expired", "cancelled", "deleted"}]_vars

\* A permanent subscription is never expired (ExpireSubscriptions' WHERE).
PermanentStays ==
  [][\A s \in Subs : status[s] = "active" /\ expiry[s] = "never" => status'[s] # "expired"]_vars

Settled == /\ \A s \in Subs : status[s] # "active"
           /\ \A e \in Expirers : pc[e] # "revert" /\ todo[e] = {}
           /\ edits = 0 /\ crashes = 0

\* When no subscription was activated on top of another one's group, the user
\* is back in the group of the start once all have ended, even though several
\* runs of ExpireSubscriptions overlap with purchases and invalidations.
RevertsIfNeverOverlapping ==
  Settled /\ (\A s \in Subs : original[s] \in {None, Base}) => group = Base

-----------------------------------------------------------------------------
(* Liveness.                                                               *)

\* An overdue subscription is expired, even if the server restarts meanwhile.
OverdueExpires == \A s \in Subs : Overdue(s) ~> status[s] # "active"
=============================================================================
