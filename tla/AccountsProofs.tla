--------------------------- MODULE AccountsProofs ---------------------------
(***************************************************************************)
(* The invariant of Accounts, for any number of users, workers, codes,     *)
(* invitations, tasks and days, and what follows from it.                  *)
(***************************************************************************)
EXTENDS Accounts, TLAPS

Job == [op : Ops, user : Users \cup {Nothing},
        item : Items \cup Tasks \cup (1..Days) \cup {Nothing}, row : Row, copy : Item, form : Form]

\* The constant records have their types.
LEMMA RecordTypes == NoRow \in Row /\ NewRow \in Row /\ Gone \in Row /\ Fresh \in Item
                     /\ Unmade \in Item /\ Idle \in Job /\ NoForm \in Form
<1>1. NoRow \in Row
  BY DEF NoRow, Row
<1>2. NewRow \in Row
  BY AccountAmounts DEF NewRow, Row
<1>3. Gone \in Row
  BY DEF Gone, Row
<1>4. Fresh \in Item /\ Unmade \in Item
  BY DEF Fresh, Unmade, Item
<1>6. NoForm \in Form
  BY DEF NoForm, Form
<1>7. Idle \in Job
  BY <1>1, <1>4, <1>6 DEF Idle, Job, Ops
<1> QED
  BY <1>1, <1>2, <1>3, <1>4, <1>6, <1>7

GoodRows(rs) == rs \in [Users -> Row] /\ \A u \in Users : rs[u].aff >= 0
GoodItems(is, n, rc) == /\ is \in [Items -> Item] /\ n \in [Items -> Nat] /\ rc \subseteq Items
                        /\ \A i \in Items : GoodCount(i, is[i], n[i], rc)
GoodJobs(js, n) == js \in [Workers -> Job] /\ \A w \in Workers : GoodJob(js[w], n)
GoodCheckIns(cs, rw) == /\ cs \subseteq Users \X (1..Days) /\ rw \in [Users \X (1..Days) -> Nat]
                        /\ \A x \in Users \X (1..Days) : rw[x] = IF x \in cs THEN 1 ELSE 0
GoodTasks(ts, ow, rf, db) ==
  /\ ts \in [Tasks -> {"none", "accepted", "SUBMITTED", "SUCCESS", "FAILURE"}]
  /\ \A t \in Tasks : ts[t] # "none" => ow[t] \in Users
  /\ ow \in [Tasks -> Users \cup {Nothing}] /\ rf \in [Tasks -> Nat] /\ db \subseteq Tasks

\* The invariant, one conjunct for every table and its history.
Inv == /\ GoodRows(rows) /\ GoodItems(items, uses, raced) /\ GoodJobs(jobs, uses)
       /\ GoodCheckIns(checkins, rewards) /\ GoodTasks(task, owner, refunds, doubted)
       /\ inviter \in [Invitations -> Users \cup {Nothing}]
       /\ day \in 1..Days /\ ops \in Nat
       /\ book \in [Users -> Int] /\ stale \subseteq Users

\* The invariant is AccountsInv with AffNeverNegative.
LEMMA InvIs == Inv <=> AccountsInv /\ AffNeverNegative
BY DEF Inv, GoodRows, GoodItems, GoodJobs, GoodCheckIns, GoodTasks, AccountsInv, TypeOK,
       AffNeverNegative, Job

\* The initial state satisfies the invariant.
LEMMA AccountsInit == Init => Inv
<1> SUFFICES ASSUME Init PROVE Inv
  OBVIOUS
<1>1. GoodRows(rows)
  BY RecordTypes, AccountAmounts DEF Init, GoodRows, NoRow, NewRow
<1>2. GoodItems(items, uses, raced)
  BY RecordTypes, ItemsAssumption DEF Init, GoodItems, GoodCount, Unmade, Fresh, Items
<1>3. GoodJobs(jobs, uses)
  BY RecordTypes DEF Init, GoodJobs, GoodJob, Idle, NoRow
<1>4. GoodCheckIns(checkins, rewards) /\ GoodTasks(task, owner, refunds, doubted)
  BY DEF Init, GoodCheckIns, GoodTasks
<1>5. book \in [Users -> Int]
  BY <1>1 DEF Init, GoodRows, Row
<1> QED
  BY <1>1, <1>2, <1>3, <1>4, <1>5, AccountAmounts DEF Init, Inv

\* An idle worker holds nothing.
LEMMA IdleGood == ASSUME NEW n PROVE GoodJob(Idle, n)
BY DEF GoodJob, Idle, NoRow

\* One worker goes on to another job while the counts of uses grow or stay.
LEMMA JobsStep ==
  ASSUME NEW js, NEW n \in [Items -> Nat], NEW m \in [Items -> Nat], GoodJobs(js, n),
         \A i \in Items : n[i] <= m[i],
         NEW w \in Workers, NEW j \in Job, GoodJob(j, m)
  PROVE  GoodJobs([js EXCEPT ![w] = j], m)
<1>1. [js EXCEPT ![w] = j] \in [Workers -> Job]
  BY DEF GoodJobs
<1>2. ASSUME NEW v \in Workers, v # w PROVE GoodJob(js[v], m)
  <2>1. js[v] \in Job /\ GoodJob(js[v], n)
    BY DEF GoodJobs
  <2>2. js[v].op \in {"redeem", "redeemTx", "register"} /\ js[v].item # Nothing
          => js[v].item \in Items
    BY <2>1 DEF GoodJob, Items
  <2>3. js[v].copy.used \in Nat
    BY <2>1 DEF Job, Item
  <2> QED
    BY <2>1, <2>2, <2>3 DEF GoodJob
<1> QED
  BY <1>1, <1>2 DEF GoodJobs

\* Ending a job.
LEMMA DoneStep ==
  ASSUME GoodJobs(jobs, uses), uses \in [Items -> Nat], NEW w \in Workers, Done(w), uses' = uses
  PROVE  GoodJobs(jobs', uses')
<1>1. \A i \in Items : uses[i] <= uses[i]
  OBVIOUS
<1>2. GoodJob(Idle, uses) /\ Idle \in Job
  BY IdleGood, RecordTypes
<1>3. GoodJobs([jobs EXCEPT ![w] = Idle], uses)
  BY <1>1, <1>2, JobsStep
<1> QED
  BY <1>3 DEF Done

\* Writing one row.
LEMMA RowsStep ==
  ASSUME NEW rs, GoodRows(rs), NEW u \in Users, NEW r \in Row, r.aff >= 0
  PROVE  GoodRows([rs EXCEPT ![u] = r])
BY DEF GoodRows

\* Adding to a quota in the database.
LEMMA PlusGood ==
  ASSUME GoodRows(rows), NEW u \in Users, NEW d \in Int
  PROVE  GoodRows(Plus(u, d))
BY DEF GoodRows, Plus, Row

\* Booking it.
LEMMA BookedGood ==
  ASSUME book \in [Users -> Int], NEW u \in Users, NEW d \in Int
  PROVE  Booked(u, d) \in [Users -> Int]
BY DEF Booked

\* Saving a copy whose aff_quota is not negative.
LEMMA SaveGood ==
  ASSUME GoodRows(rows), NEW u \in Users, NEW r \in Row, r.aff >= 0, Save(u, r)
  PROVE  GoodRows(rows')
<1>1. [r EXCEPT !.present = TRUE] \in Row /\ [r EXCEPT !.present = TRUE].aff >= 0
  BY DEF Row
<1> QED
  BY <1>1, RowsStep DEF Save

\* The row of an item after a use.
LEMMA UsedIs ==
  ASSUME NEW i \in Items, NEW c \in Item, c.status = "unused"
  PROVE  /\ Used(i, c) \in Item /\ Used(i, c).used = c.used + 1
         /\ Used(i, c).status = IF c.used + 1 >= MaxUses[i] THEN "used" ELSE "unused"
BY DEF Used, Item

\* Using an item that was usable when it was read.
LEMMA UseGood ==
  ASSUME GoodItems(items, uses, raced), NEW w \in Workers, NEW i \in Items,
         jobs[w].copy \in Item, Usable(jobs[w].copy), jobs[w].copy.used <= uses[i],
         UseItem(w, i)
  PROVE  /\ GoodItems(items', uses', raced') /\ uses' \in [Items -> Nat]
         /\ \A x \in Items : uses[x] <= uses'[x]
<1> DEFINE c == jobs[w].copy
<1>1. c.used \in Nat /\ c.status = "unused" /\ MaxUses[i] \in Nat \ {0}
  BY ItemsAssumption DEF Item, Usable, Items
<1>2. /\ Used(i, c) \in Item /\ Used(i, c).used = c.used + 1
      /\ Used(i, c).status = IF c.used + 1 >= MaxUses[i] THEN "used" ELSE "unused"
  BY <1>1, UsedIs
<1>3. uses' \in [Items -> Nat] /\ uses'[i] = uses[i] + 1 /\ \A x \in Items \ {i} : uses'[x] = uses[x]
  BY DEF UseItem, GoodItems
<1>4. items' \in [Items -> Item] /\ items'[i] = Used(i, c) /\ \A x \in Items \ {i} : items'[x] = items[x]
  BY <1>2 DEF UseItem, GoodItems
<1>5. raced' \subseteq Items /\ raced \subseteq raced' /\ (i \notin raced' => items[i] = c /\ i \notin raced)
  BY DEF UseItem, GoodItems
<1>6. GoodCount(i, items'[i], uses'[i], raced')
  <2>1. GoodCount(i, items[i], uses[i], raced) /\ uses[i] \in Nat
    BY DEF GoodItems
  <2> QED
    BY <1>1, <1>2, <1>3, <1>4, <1>5, <2>1 DEF GoodCount
<1>7. ASSUME NEW x \in Items, x # i PROVE GoodCount(x, items'[x], uses'[x], raced')
  BY <1>3, <1>4, <1>5, <1>7 DEF GoodItems, GoodCount
<1>8. \A x \in Items : uses[x] <= uses'[x]
  BY <1>3 DEF GoodItems
<1> QED
  BY <1>3, <1>4, <1>5, <1>6, <1>7, <1>8 DEF GoodItems

USE DEF tables, history, counts, others

\* A handler begins with a good job and nothing else changes.
LEMMA StartStep ==
  ASSUME Inv, NEW w \in Workers, NEW j \in Job, GoodJob(j, uses), Start(w, j),
         UNCHANGED <<tables, book, stale, uses, raced, rewards, refunds>>,
         doubted' \subseteq Tasks
  PROVE  Inv'
<1>1. uses \in [Items -> Nat] /\ GoodJobs(jobs, uses)
  BY DEF Inv, GoodItems
<1>2. \A i \in Items : uses[i] <= uses[i]
  BY <1>1
<1>3. GoodJobs([jobs EXCEPT ![w] = j], uses)
  BY <1>1, <1>2, JobsStep
<1>4. GoodJobs(jobs', uses')
  BY <1>3 DEF Start
<1> QED
  BY <1>4 DEF Inv, Start, GoodTasks

\* A job that holds a copy of a row.
LEMMA RowJobGood ==
  ASSUME Inv, NEW u \in Users, NEW op \in RowOps, NEW f \in Form, NEW i \in Tasks \cup {Nothing},
         op = "submit" => i \in Tasks
  PROVE  RowJob(op, u, i, f) \in Job /\ GoodJob(RowJob(op, u, i, f), uses)
<1>1. rows[u] \in Row /\ rows[u].aff >= 0
  BY DEF Inv, GoodRows
<1>2. RowJob(op, u, i, f) \in Job
  BY <1>1, RecordTypes DEF RowJob, Job, Ops
<1>3. GoodJob(RowJob(op, u, i, f), uses)
  BY <1>1 DEF GoodJob, RowJob, RowOps
<1> QED
  BY <1>2, <1>3

\* Every handler that reads a row first.
LEMMA LoadRowStep ==
  ASSUME Inv, NEW w \in Workers, NEW u \in Users, LoadRow(w, u)
  PROVE  Inv'
<1>0. doubted \subseteq Tasks
  BY DEF Inv, GoodTasks
<1>1. ASSUME NEW op \in RowOps \ {"submit"}, NEW f \in Form, Load(w, op, u, f) PROVE Inv'
  <2>1. RowJob(op, u, Nothing, f) \in Job /\ GoodJob(RowJob(op, u, Nothing, f), uses)
    BY RowJobGood
  <2> QED
    BY <1>0, <1>1, <2>1, StartStep DEF Load
<1>2. NoForm \in Form /\ \A a \in BOOLEAN, q \in {0, Value, -Value} : [active |-> a, quota |-> q] \in Form
  BY AccountAmounts DEF NoForm, Form
<1>3. ASSUME NEW t \in Tasks, Start(w, RowJob("submit", u, t, NoForm)), UNCHANGED <<tables, history>>
      PROVE Inv'
  <2>1. RowJob("submit", u, t, NoForm) \in Job /\ GoodJob(RowJob("submit", u, t, NoForm), uses)
    BY <1>2, RowJobGood DEF RowOps
  <2> QED
    BY <1>0, <1>3, <2>1, StartStep
<1> QED
  BY <1>1, <1>2, <1>3 DEF LoadRow, RowOps

\* A code is read for redemption.
LEMMA RedeemCheckStep ==
  ASSUME Inv, NEW w \in Workers, NEW u \in Users, NEW i \in Codes, RedeemCheck(w, u, i)
  PROVE  Inv'
<1>1. doubted \subseteq Tasks /\ NoRow \in Row /\ NoRow.aff = 0 /\ NoForm \in Form /\ i \in Items
  BY RecordTypes DEF Inv, GoodTasks, NoRow, Items
<1>2. items[i] \in Item /\ items[i].used <= uses[i] /\ Usable(items[i])
  BY <1>1 DEF Inv, GoodItems, GoodCount, RedeemCheck
<1>3. ItemJob("redeem", u, i, items[i]) \in Job
  BY <1>1, <1>2 DEF ItemJob, Job, Ops
<1>4. GoodJob(ItemJob("redeem", u, i, items[i]), uses)
  BY <1>1, <1>2 DEF GoodJob, ItemJob
<1> QED
  BY <1>1, <1>3, <1>4, StartStep DEF RedeemCheck

\* An invitation is read for a registration, or none is given.
LEMMA RegisterCheckStep ==
  ASSUME Inv, NEW w \in Workers, NEW u \in Users, NEW i \in Invitations \cup {Nothing},
         RegisterCheck(w, u, i)
  PROVE  Inv'
<1> DEFINE c == IF i = Nothing THEN Fresh ELSE items[i]
<1>1. doubted \subseteq Tasks /\ NoRow \in Row /\ NoRow.aff = 0 /\ NoForm \in Form
      /\ i \in Items \cup {Nothing}
  BY RecordTypes DEF Inv, GoodTasks, NoRow, Items
<1>2. c \in Item /\ (i # Nothing => c.used <= uses[i] /\ Usable(c))
  BY <1>1, RecordTypes DEF Inv, GoodItems, GoodCount, RegisterCheck
<1>3. ItemJob("register", u, i, c) \in Job
  BY <1>1, <1>2 DEF ItemJob, Job, Ops
<1>4. GoodJob(ItemJob("register", u, i, c), uses)
  BY <1>1, <1>2 DEF GoodJob, ItemJob
<1> QED
  BY <1>1, <1>3, <1>4, StartStep DEF RegisterCheck

\* A check-in is counted.
LEMMA CheckInCountStep ==
  ASSUME Inv, NEW w \in Workers, NEW u \in Users, CheckInCount(w, u)
  PROVE  Inv'
<1>1. doubted \subseteq Tasks /\ NoRow \in Row /\ NoRow.aff = 0 /\ NoForm \in Form /\ Fresh \in Item
      /\ day \in 1..Days
  BY RecordTypes DEF Inv, GoodTasks, NoRow
<1>2. ItemJob("checkin", u, day, Fresh) \in Job
  BY <1>1 DEF ItemJob, Job, Ops
<1>3. GoodJob(ItemJob("checkin", u, day, Fresh), uses)
  BY <1>1 DEF GoodJob, ItemJob
<1> QED
  BY <1>1, <1>2, <1>3, StartStep DEF CheckInCount

\* A failure notice finds its task.
LEMMA NotifyFailureStep ==
  ASSUME Inv, NEW w \in Workers, NEW t \in Tasks, NotifyFailure(w, t)
  PROVE  Inv'
<1>1. owner[t] \in Users /\ NoRow \in Row /\ NoRow.aff = 0 /\ NoForm \in Form /\ Fresh \in Item
  BY RecordTypes DEF Inv, GoodTasks, NotifyFailure, Refundable, HasTask, NoRow
<1>2. ItemJob("failure", owner[t], t, Fresh) \in Job
  BY <1>1 DEF ItemJob, Job, Ops
<1>3. GoodJob(ItemJob("failure", owner[t], t, Fresh), uses)
  BY <1>1 DEF GoodJob, ItemJob
<1>4. doubted' \subseteq Tasks
  BY DEF NotifyFailure, Inv, GoodTasks
<1> QED
  BY <1>2, <1>3, <1>4, StartStep DEF NotifyFailure

\* What a busy worker knows of its job.
LEMMA JobFacts ==
  ASSUME Inv, NEW w \in Workers, jobs[w].op # "idle"
  PROVE  /\ jobs[w] \in Job /\ jobs[w].op \in Ops /\ jobs[w].user \in Users /\ jobs[w].row \in Row
         /\ jobs[w].row.aff >= 0 /\ jobs[w].row.quota \in Int /\ jobs[w].row.active \in BOOLEAN
         /\ jobs[w].form.quota \in Int /\ jobs[w].form.active \in BOOLEAN /\ jobs[w].copy \in Item
         /\ GoodJob(jobs[w], uses) /\ uses \in [Items -> Nat] /\ GoodJobs(jobs, uses)
         /\ GoodRows(rows) /\ book \in [Users -> Int] /\ (Judge(w) => stale' \subseteq Users)
<1>1. jobs[w] \in Job /\ GoodJob(jobs[w], uses)
  BY DEF Inv, GoodJobs
<1>2. jobs[w].user \in Users /\ jobs[w].row.aff >= 0
  BY <1>1 DEF GoodJob
<1> QED
  BY <1>1, <1>2 DEF Inv, GoodItems, Judge, Job, Row, Form

\* The handlers that write the row they have read.
LEMMA RowWrites ==
  ASSUME Inv, NEW w \in Workers,
         \/ UpdateSelf(w) \/ UpdateUser(w) \/ ToggleUserStatus(w) \/ AdjustUserQuota(w)
         \/ DeleteUser(w) \/ SubmitRefused(w)
  PROVE  Inv'
<1> DEFINE u == jobs[w].user
           r == jobs[w].row
<1>0. jobs[w].op # "idle" /\ uses' = uses /\ Done(w)
  BY DEF UpdateSelf, UpdateUser, ToggleUserStatus, AdjustUserQuota, DeleteUser, SubmitRefused
<1>1. GoodJobs(jobs', uses')
  BY <1>0, JobFacts, DoneStep
<1>2. CASE UpdateSelf(w)
  <2>1. GoodRows(rows')
    BY <1>0, <1>2, JobFacts, SaveGood DEF UpdateSelf, OwnFields
  <2> QED
    BY <1>0, <1>1, <1>2, <2>1, JobFacts DEF Inv, UpdateSelf
<1>3. CASE UpdateUser(w)
  <2>1. [r EXCEPT !.active = jobs[w].form.active, !.quota = jobs[w].form.quota] \in Row
        /\ [r EXCEPT !.active = jobs[w].form.active, !.quota = jobs[w].form.quota].aff >= 0
    BY <1>0, JobFacts DEF Row
  <2>2. GoodRows(rows')
    BY <1>0, <1>3, <2>1, JobFacts, SaveGood DEF UpdateUser
  <2>3. book' \in [Users -> Int]
    BY <1>0, <1>3, JobFacts DEF UpdateUser
  <2> QED
    BY <1>0, <1>1, <1>3, <2>2, <2>3, JobFacts DEF Inv, UpdateUser
<1>4. CASE ToggleUserStatus(w)
  <2> DEFINE a == IF rows[u].present THEN ~r.active ELSE rows[u].active
             t == [rows[u] EXCEPT !.active = a]
  <2>0. u \in Users /\ rows[u] \in Row /\ rows[u].aff >= 0
    BY <1>0, JobFacts DEF GoodRows
  <2>1. GoodRows(rows')
    <3>1. a \in BOOLEAN
      BY <2>0 DEF Row
    <3>2. t \in Row /\ t.aff = rows[u].aff
      BY <2>0, <3>1 DEF Row
    <3>3. rows' = [rows EXCEPT ![u] = t]
      BY <1>4 DEF ToggleUserStatus
    <3>4. GoodRows(rows)
      BY <1>0, JobFacts
    <3> HIDE DEF a, t
    <3> QED
      BY <2>0, <3>2, <3>3, <3>4, RowsStep
  <2> QED
    BY <1>0, <1>1, <1>4, <2>1 DEF Inv, ToggleUserStatus
<1>5. CASE AdjustUserQuota(w)
  <2>1. \A q, d \in Int : Adjusted(q, d) \in Int
    BY DEF Adjusted
  <2>2. GoodRows(rows')
    <3>1. u \in Users /\ rows[u] \in Row /\ rows[u].aff >= 0 /\ r \in Row /\ jobs[w].form.quota \in Int
      BY <1>0, JobFacts DEF GoodRows, Form
    <3>2. PICK q \in Int : rows' = [rows EXCEPT ![u].quota = q]
      <4>1. (IF rows[u].present THEN Adjusted(r.quota, jobs[w].form.quota) ELSE rows[u].quota) \in Int
        BY <2>1, <3>1 DEF Row
      <4> QED
        BY <1>5, <4>1 DEF AdjustUserQuota
    <3>3. [rows[u] EXCEPT !.quota = q] \in Row /\ [rows[u] EXCEPT !.quota = q].aff = rows[u].aff
      BY <3>1 DEF Row
    <3>4. GoodRows(rows)
      BY <1>0, JobFacts
    <3> QED
      BY <3>1, <3>2, <3>3, <3>4, RowsStep
  <2>3. book' \in [Users -> Int]
    BY <1>0, <1>5, <2>1, JobFacts DEF AdjustUserQuota
  <2> QED
    BY <1>0, <1>1, <1>5, <2>2, <2>3, JobFacts DEF Inv, AdjustUserQuota
<1>6. CASE DeleteUser(w)
  <2>1. GoodRows(rows')
    <3>1. Gone \in Row /\ Gone.aff >= 0
      BY RecordTypes DEF Gone
    <3> QED
      BY <1>0, <1>6, <3>1, JobFacts, RowsStep DEF DeleteUser
  <2> QED
    BY <1>0, <1>1, <1>6, <2>1 DEF Inv, DeleteUser
<1>7. CASE SubmitRefused(w)
  BY <1>0, <1>1, <1>7 DEF Inv, SubmitRefused
<1> QED
  BY <1>2, <1>3, <1>4, <1>5, <1>6, <1>7

\* Midjourney's charge and refund, and the steps that read a row in between.
LEMMA TaskWrites ==
  ASSUME Inv, NEW w \in Workers,
         RelayMidjourney(w) \/ MarkFailure(w) \/ MidjourneyRefund(w) \/ RedeemTx(w)
  PROVE  Inv'
<1> DEFINE u == jobs[w].user
           r == jobs[w].row
<1>0. jobs[w].op # "idle" /\ uses' = uses
  BY DEF RelayMidjourney, MarkFailure, MidjourneyRefund, RedeemTx
<1>1. Done(w) => GoodJobs(jobs', uses')
  BY <1>0, JobFacts, DoneStep
<1>2. \A d \in Int : [r EXCEPT !.quota = @ + d] \in Row /\ [r EXCEPT !.quota = @ + d].aff >= 0
  BY <1>0, JobFacts DEF Row
<1>3. CASE RelayMidjourney(w)
  <2>1. Charged(r) \in Row /\ Charged(r).aff >= 0
    BY <1>0, JobFacts, AccountAmounts DEF Row, Charged
  <2>2. GoodRows(rows')
    BY <1>0, <1>3, <2>1, JobFacts, SaveGood DEF RelayMidjourney
  <2>3. book' \in [Users -> Int]
    BY <1>0, <1>3, JobFacts, AccountAmounts DEF RelayMidjourney
  <2>4. GoodTasks(task', owner', refunds', doubted')
    BY <1>0, <1>3, JobFacts DEF RelayMidjourney, Inv, GoodTasks
  <2> QED
    BY <1>0, <1>1, <1>3, <2>2, <2>3, <2>4, JobFacts DEF Inv, RelayMidjourney
<1>4. CASE MidjourneyRefund(w)
  <2>1. GoodRows(rows')
    <3>1. Price \in Int
      BY AccountAmounts
    <3>2. [r EXCEPT !.quota = @ + Price] \in Row /\ [r EXCEPT !.quota = @ + Price].aff >= 0
      BY <1>2, <3>1
    <3> QED
      BY <1>0, <1>4, <3>2, JobFacts, SaveGood DEF MidjourneyRefund
  <2>2. book' \in [Users -> Int]
    BY <1>0, <1>4, JobFacts, AccountAmounts DEF MidjourneyRefund
  <2>3. GoodTasks(task', owner', refunds', doubted')
    <3>1. jobs[w].item \in Tasks /\ GoodTasks(task, owner, refunds, doubted)
      BY <1>0, <1>4, JobFacts DEF GoodJob, MidjourneyRefund, Inv
    <3> QED
      BY <1>4, <3>1 DEF MidjourneyRefund, GoodTasks
  <2> QED
    BY <1>0, <1>1, <1>4, <2>1, <2>2, <2>3, JobFacts DEF Inv, MidjourneyRefund
<1>5. ASSUME NEW op \in {"refund", "redeemTx"}, rows[u].present,
             op = "refund" => jobs[w].op = "failure", op = "redeemTx" => jobs[w].op = "redeem",
             jobs' = [jobs EXCEPT ![w] = [@ EXCEPT !.op = op, !.row = rows[u]]]
      PROVE GoodJobs(jobs', uses')
  <2> DEFINE j == [jobs[w] EXCEPT !.op = op, !.row = rows[u]]
  <2>1. rows[u] \in Row /\ rows[u].aff >= 0
    BY <1>0, JobFacts DEF GoodRows
  <2>2. j \in Job
    BY <1>0, <2>1, JobFacts DEF Job, Ops
  <2>3. /\ j.op = op /\ j.row = rows[u] /\ j.user = u /\ j.item = jobs[w].item
        /\ j.copy = jobs[w].copy
    BY <1>0, JobFacts DEF Job
  <2>4. GoodJob(j, uses)
    BY <1>0, <1>5, <2>1, <2>3, JobFacts DEF GoodJob
  <2>5. \A i \in Items : uses[i] <= uses[i]
    BY <1>0, JobFacts
  <2>6. GoodJobs([jobs EXCEPT ![w] = j], uses)
    BY <1>0, <2>2, <2>4, <2>5, JobFacts, JobsStep
  <2> QED
    BY <1>0, <1>5, <2>6
<1>6. CASE MarkFailure(w)
  <2>1. GoodJobs(jobs', uses')
    BY <1>1, <1>5, <1>6 DEF MarkFailure
  <2>2. jobs[w].item \in Tasks
    BY <1>0, <1>6, JobFacts DEF GoodJob, MarkFailure
  <2>3. GoodTasks(task', owner', refunds', doubted')
    <3>1. GoodTasks(task, owner, refunds, doubted) /\ u \in Users
      BY <1>0, JobFacts DEF Inv
    <3> QED
      BY <1>6, <2>2, <3>1 DEF MarkFailure, GoodTasks
  <2> QED
    BY <1>6, <2>1, <2>3 DEF Inv, MarkFailure
<1>7. CASE RedeemTx(w)
  <2>1. GoodJobs(jobs', uses')
    BY <1>1, <1>5, <1>7 DEF RedeemTx
  <2> QED
    BY <1>7, <2>1 DEF Inv, RedeemTx
<1> QED
  BY <1>3, <1>4, <1>6, <1>7

\* Creating, switching and deleting an item.
LEMMA ItemStep ==
  ASSUME Inv, NEW i \in Items,
         \/ GenerateItem(i) \/ DeleteItem(i)
         \/ \E s \in {"unused", "used", "disabled"} : SetItemStatus(i, s)
  PROVE  Inv'
<1>0. GoodItems(items, uses, raced) /\ MaxUses \in [Items -> Nat \ {0}]
  BY ItemsAssumption DEF Inv, Items
<1>1. CASE GenerateItem(i)
  <2>1. items' \in [Items -> Item] /\ UNCHANGED <<uses, raced>>
    BY <1>0, <1>1, RecordTypes DEF GenerateItem, GoodItems
  <2>2. ASSUME NEW x \in Items PROVE GoodCount(x, items'[x], uses'[x], raced')
    BY <1>0, <1>1 DEF GenerateItem, GoodItems, GoodCount, Fresh, Unmade
  <2>3. GoodItems(items', uses', raced')
    BY <1>0, <2>1, <2>2 DEF GoodItems
  <2> QED
    BY <1>1, <2>3 DEF Inv, GenerateItem
<1>2. CASE DeleteItem(i)
  <2>1. items' \in [Items -> Item] /\ UNCHANGED <<uses, raced>>
    BY <1>0, <1>2 DEF DeleteItem, GoodItems, Item
  <2>2. ASSUME NEW x \in Items PROVE GoodCount(x, items'[x], uses'[x], raced')
    BY <1>0, <1>2 DEF DeleteItem, GoodItems, GoodCount, Item
  <2>3. GoodItems(items', uses', raced')
    BY <1>0, <2>1, <2>2 DEF GoodItems
  <2> QED
    BY <1>2, <2>3 DEF Inv, DeleteItem
<1>3. ASSUME NEW s \in {"unused", "used", "disabled"}, SetItemStatus(i, s) PROVE Inv'
  <2>1. items' \in [Items -> Item] /\ uses' = uses /\ raced' \subseteq Items /\ raced \subseteq raced'
    BY <1>0, <1>3 DEF SetItemStatus, GoodItems, Item
  <2>2. ASSUME NEW x \in Items PROVE GoodCount(x, items'[x], uses'[x], raced')
    BY <1>0, <1>3, <2>1 DEF SetItemStatus, GoodItems, GoodCount, Item
  <2>3. GoodItems(items', uses', raced')
    BY <1>0, <2>1, <2>2 DEF GoodItems
  <2> QED
    BY <1>3, <2>3 DEF Inv, SetItemStatus
<1> QED
  BY <1>1, <1>2, <1>3

\* Redeeming a code, registering with an invitation, buying one.
LEMMA UseWrites ==
  ASSUME Inv, NEW w \in Workers,
         UseRedemptionCode(w) \/ UserRegister(w) \/ GenerateInvitationCode(w)
  PROVE  Inv'
<1> DEFINE u == jobs[w].user
           i == jobs[w].item
           r == jobs[w].row
<1>0. jobs[w].op # "idle" /\ Done(w) /\ GoodItems(items, uses, raced)
  BY DEF UseRedemptionCode, UserRegister, GenerateInvitationCode, Inv
<1>1. uses' = uses => GoodJobs(jobs', uses')
  BY <1>0, JobFacts, DoneStep
<1>2. ASSUME i \in Items, i # Nothing, UseItem(w, i), jobs[w].op \in {"redeemTx", "register"}
      PROVE GoodItems(items', uses', raced') /\ GoodJobs(jobs', uses')
  <2>1. Usable(jobs[w].copy) /\ jobs[w].copy.used <= uses[i] /\ jobs[w].copy \in Item
    BY <1>0, <1>2, JobFacts DEF GoodJob
  <2>2. GoodItems(items', uses', raced') /\ uses' \in [Items -> Nat]
        /\ \A x \in Items : uses[x] <= uses'[x]
    BY <1>0, <1>2, <2>1, UseGood
  <2>3. GoodJob(Idle, uses') /\ Idle \in Job
    BY IdleGood, RecordTypes
  <2>4. GoodJobs([jobs EXCEPT ![w] = Idle], uses')
    BY <1>0, <2>2, <2>3, JobFacts, JobsStep
  <2> QED
    BY <1>0, <2>2, <2>4 DEF Done
<1>3. CASE UseRedemptionCode(w)
  <2>1. i \in Items /\ i # Nothing
    BY <1>0, <1>3, JobFacts, ItemsAssumption DEF GoodJob, UseRedemptionCode, Items
  <2>2. GoodItems(items', uses', raced') /\ GoodJobs(jobs', uses')
    BY <1>2, <1>3, <2>1 DEF UseRedemptionCode
  <2>3. [r EXCEPT !.quota = @ + Value] \in Row /\ [r EXCEPT !.quota = @ + Value].aff >= 0
    BY <1>0, JobFacts, AccountAmounts DEF Row
  <2>4. GoodRows(rows')
    BY <1>0, <1>3, <2>3, JobFacts, SaveGood DEF UseRedemptionCode
  <2>5. book' \in [Users -> Int]
    BY <1>0, <1>3, JobFacts, AccountAmounts DEF UseRedemptionCode
  <2> QED
    BY <1>0, <1>3, <2>2, <2>4, <2>5, JobFacts DEF Inv, UseRedemptionCode
<1>4. CASE UserRegister(w)
  <2>1. i \in Invitations \cup {Nothing}
    BY <1>0, <1>4, JobFacts DEF GoodJob, UserRegister
  <2>2. CASE UNCHANGED <<tables, history>>
    BY <1>1, <1>4, <2>2 DEF Inv, UserRegister
  <2>3. CASE ~UNCHANGED <<tables, history>>
    <3>1. /\ rows' = Joined(u, IF i = Nothing THEN Nothing ELSE inviter[i])
          /\ book' = [book EXCEPT ![u] = Reward]
          /\ IF i = Nothing THEN UNCHANGED <<items, uses, raced>> ELSE UseItem(w, i)
          /\ UNCHANGED <<inviter, task, owner, checkins, day, stale, rewards, refunds, doubted, ops>>
      BY <1>4, <2>3 DEF UserRegister
    <3>2. GoodRows(rows')
      <4>1. PICK v \in Users \cup {Nothing} : rows' = Joined(u, v)
        BY <2>1, <3>1 DEF Inv
      <4>2. ASSUME NEW x \in Users PROVE rows'[x] \in Row /\ rows'[x].aff >= 0
        <5>1. NewRow \in Row /\ NewRow.aff = 0
          BY RecordTypes DEF NewRow
        <5>2. rows[x] \in Row /\ rows[x].aff \in Int /\ rows[x].aff >= 0
          BY <1>0, JobFacts DEF GoodRows, Row
        <5>3. [rows[x] EXCEPT !.aff = @ + Reward] \in Row /\ [rows[x] EXCEPT !.aff = @ + Reward].aff >= 0
          BY <5>2, AccountAmounts DEF Row
        <5>4. rows'[x] = NewRow \/ rows'[x] = rows[x] \/ rows'[x] = [rows[x] EXCEPT !.aff = @ + Reward]
          BY <4>1 DEF Joined
        <5>5. CASE rows'[x] = NewRow
          BY <5>1, <5>5
        <5>6. CASE rows'[x] = rows[x]
          BY <5>2, <5>6
        <5>7. CASE rows'[x] = [rows[x] EXCEPT !.aff = @ + Reward]
          BY <5>3, <5>7
        <5> QED
          BY <5>4, <5>5, <5>6, <5>7
      <4> QED
        BY <4>1, <4>2 DEF GoodRows, Joined
    <3>3. book' \in [Users -> Int]
      BY <1>0, <3>1, JobFacts, AccountAmounts
    <3>4. GoodItems(items', uses', raced') /\ GoodJobs(jobs', uses')
      BY <1>0, <1>1, <1>2, <1>4, <2>1, <3>1 DEF UserRegister, Items
    <3> QED
      BY <3>1, <3>2, <3>3, <3>4 DEF Inv
  <2> QED
    BY <2>2, <2>3
<1>5. CASE GenerateInvitationCode(w)
  <2>1. GoodRows(rows') /\ book' \in [Users -> Int]
    BY <1>0, <1>5, JobFacts, PlusGood, BookedGood, AccountAmounts DEF GenerateInvitationCode
  <2>2. inviter' \in [Invitations -> Users \cup {Nothing}]
    BY <1>0, <1>5, JobFacts DEF GenerateInvitationCode, Inv
  <2>3. PICK x \in Invitations : items[x] = Unmade /\ items' = [items EXCEPT ![x] = Fresh]
    BY <1>5 DEF GenerateInvitationCode
  <2>4. items' \in [Items -> Item] /\ UNCHANGED <<uses, raced>>
    BY <1>0, <1>5, <2>3, RecordTypes DEF GenerateInvitationCode, GoodItems
  <2>5. ASSUME NEW y \in Items PROVE GoodCount(y, items'[y], uses'[y], raced')
    BY <1>0, <2>3, <2>4 DEF GoodItems, GoodCount, Fresh, Unmade, Items
  <2>6. GoodItems(items', uses', raced')
    BY <1>0, <2>4, <2>5 DEF GoodItems
  <2> QED
    BY <1>1, <1>5, <2>1, <2>2, <2>6 DEF Inv, GenerateInvitationCode
<1> QED
  BY <1>3, <1>4, <1>5

\* The reward of a check-in is paid for a date that no row has.
LEMMA CheckInStep ==
  ASSUME Inv, NEW w \in Workers, CheckIn(w)
  PROVE  Inv'
<1> DEFINE u == jobs[w].user
           d == jobs[w].item
<1>0. jobs[w].op # "idle" /\ uses' = uses /\ Done(w)
  BY DEF CheckIn
<1>1. GoodJobs(jobs', uses')
  BY <1>0, JobFacts, DoneStep
<1>2. CASE DateTaken(d)
  BY <1>1, <1>2 DEF Inv, CheckIn
<1>3. CASE ~DateTaken(d)
  <2>1. u \in Users /\ d \in 1..Days
    BY <1>0, JobFacts DEF CheckIn, GoodJob
  <2>2. GoodRows(rows') /\ book' \in [Users -> Int]
    BY <1>0, <1>3, <2>1, JobFacts, PlusGood, BookedGood, AccountAmounts DEF CheckIn
  <2>3. GoodCheckIns(checkins', rewards')
    <3>1. GoodCheckIns(checkins, rewards) /\ <<u, d>> \in Users \X (1..Days)
      BY <2>1 DEF Inv
    <3>2. <<u, d>> \notin checkins
      BY <1>3, <2>1 DEF DateTaken
    <3>3. rewards' = [rewards EXCEPT ![<<u, d>>] = @ + 1] /\ checkins' = checkins \cup {<<u, d>>}
      BY <1>3 DEF CheckIn
    <3>4. PICK y \in Users \X (1..Days) : y = <<u, d>>
      BY <3>1
    <3> HIDE DEF u, d
    <3> QED
      BY <3>1, <3>2, <3>3, <3>4 DEF GoodCheckIns
  <2> QED
    BY <1>1, <1>3, <2>2, <2>3 DEF Inv, CheckIn
<1> QED
  BY <1>2, <1>3

\* What is done in one statement, and the calendar.
LEMMA DirectStep ==
  ASSUME Inv, \/ \E u \in Users : TransferAffQuotaToQuota(u) \/ SunoNotify(u)
              \/ \E t \in Tasks : InsertTask(t) \/ NotifySuccess(t)
              \/ NextDay
  PROVE  Inv'
<1>1. ASSUME NEW u \in Users, TransferAffQuotaToQuota(u) PROVE Inv'
  <2>1. GoodRows(rows')
    <3>1. rows \in [Users -> Row] /\ \A x \in Users : rows[x].aff >= 0
      BY DEF Inv, GoodRows
    <3> QED
      BY <1>1, <3>1, AccountAmounts DEF TransferAffQuotaToQuota, AffCovers, GoodRows, Row
  <2>2. book' \in [Users -> Int] /\ ops' \in Nat
    BY <1>1, BookedGood, AccountAmounts DEF TransferAffQuotaToQuota, Inv
  <2> QED
    BY <1>1, <2>1, <2>2 DEF Inv, TransferAffQuotaToQuota
<1>2. ASSUME NEW u \in Users, SunoNotify(u) PROVE Inv'
  <2>1. GoodRows(rows') /\ book' \in [Users -> Int] /\ ops' \in Nat
    BY <1>2, PlusGood, BookedGood, AccountAmounts DEF SunoNotify, Inv
  <2> QED
    BY <1>2, <2>1 DEF Inv, SunoNotify
<1>3. ASSUME NEW t \in Tasks, InsertTask(t) PROVE Inv'
  <2>1. GoodTasks(task', owner', refunds', doubted')
    BY <1>3 DEF Inv, GoodTasks, InsertTask
  <2> QED
    BY <1>3, <2>1 DEF Inv, InsertTask
<1>4. ASSUME NEW t \in Tasks, NotifySuccess(t) PROVE Inv'
  <2>1. GoodTasks(task', owner', refunds', doubted') /\ ops' \in Nat
    BY <1>4 DEF Inv, GoodTasks, NotifySuccess, HasTask
  <2> QED
    BY <1>4, <2>1 DEF Inv, NotifySuccess
<1>5. ASSUME NextDay PROVE Inv'
  BY <1>5, AccountAmounts DEF Inv, NextDay
<1> QED
  BY <1>1, <1>2, <1>3, <1>4, <1>5

\* Every step of the specification keeps the invariant.
LEMMA AccountsStep == Inv /\ [Next]_vars => Inv'
<1> SUFFICES ASSUME Inv, [Next]_vars PROVE Inv'
  OBVIOUS
<1>1. ASSUME NEW w \in Workers, Step(w) PROVE Inv'
  BY <1>1, RowWrites, TaskWrites, UseWrites, CheckInStep DEF Step
<1>2. ASSUME NEW w \in Workers, NEW u \in Users, LoadRow(w, u) PROVE Inv'
  BY <1>2, LoadRowStep
<1>3. ASSUME NEW w \in Workers, NEW u \in Users, CheckInCount(w, u) PROVE Inv'
  BY <1>3, CheckInCountStep
<1>4. ASSUME NEW w \in Workers, NEW u \in Users,
             \/ \E i \in Codes : RedeemCheck(w, u, i)
             \/ \E i \in Invitations \cup {Nothing} : RegisterCheck(w, u, i)
      PROVE Inv'
  BY <1>4, RedeemCheckStep, RegisterCheckStep
<1>5. ASSUME NEW w \in Workers, NEW t \in Tasks, NotifyFailure(w, t) PROVE Inv'
  BY <1>5, NotifyFailureStep
<1>6. ASSUME NEW i \in Items,
             \/ GenerateRedemptionCodes(i) \/ AdminGenerateInvitations(i)
             \/ DeleteRedemption(i) \/ AdminDeleteInvitation(i)
      PROVE Inv'
  BY <1>6, ItemStep DEF GenerateRedemptionCodes, AdminGenerateInvitations, DeleteRedemption,
     AdminDeleteInvitation
<1>7. ASSUME NEW i \in Codes, NEW s \in {"unused", "used", "disabled"}, SetItemStatus(i, s) PROVE Inv'
  <2>1. i \in Items
    BY DEF Items
  <2> QED
    BY <1>7, <2>1, ItemStep
<1>8. CASE UNCHANGED vars
  BY <1>8 DEF vars, Inv
<1> QED
  BY <1>1, <1>2, <1>3, <1>4, <1>5, <1>6, <1>7, <1>8, DirectStep DEF Next

\* The counts in the tables agree with what happened, whatever overlaps: the
\* workers' copies are never ahead of the tables, an item nobody raced for has as
\* many uses as used_count says and is closed in time, and the table check_ins has
\* a row exactly for the rewards that were paid (UseRedemptionCode, UserRegister, CheckIn).
THEOREM AccountsInvariant == Spec => []AccountsInv
<1>1. Inv => AccountsInv
  BY InvIs
<1> QED
  BY <1>1, AccountsInit, AccountsStep, PTL DEF Spec

\* aff_quota never goes below zero: TransferAffQuotaToQuota takes it by a
\* conditional UPDATE and every copy that is saved had one that was not negative.
THEOREM AffNeverNegativeHolds == Spec => []AffNeverNegative
<1>1. Inv => AffNeverNegative
  BY InvIs
<1> QED
  BY <1>1, AccountsInit, AccountsStep, PTL DEF Spec

\* max_uses is exceeded only for an item that was saved from an outdated copy or
\* reopened by an administrator.
THEOREM OverusedOnlyByRaceHolds == Spec => []OverusedOnlyByRace
<1>1. Inv => OverusedOnlyByRace
  <2> SUFFICES ASSUME Inv, NEW i \in Items, uses[i] > MaxUses[i], i \notin raced PROVE FALSE
    BY DEF OverusedOnlyByRace
  <2>1. uses[i] \in Nat /\ MaxUses[i] \in Nat /\ uses[i] <= MaxUses[i]
    BY ItemsAssumption DEF Inv, GoodItems, GoodCount, Items
  <2> QED
    BY <2>1
<1> QED
  BY <1>1, AccountsInit, AccountsStep, PTL DEF Spec

\* A user is rewarded at most once a day, however many check-ins overlap: the
\* unique index of check_ins and the transaction see to it.
THEOREM RewardedOncePerDayHolds == Spec => []RewardedOncePerDay
<1>1. Inv => RewardedOncePerDay
  BY DEF Inv, GoodCheckIns, RewardedOncePerDay
<1> QED
  BY <1>1, AccountsInit, AccountsStep, PTL DEF Spec

-----------------------------------------------------------------------------
(* Balances.  A handler that saves a copy saves one it read from a row that *)
(* was there, so that an up-to-date copy carries the row's balance.         *)

CopyOps == RowOps \cup {"redeemTx", "refund"}
CopiesPresent == \A w \in Workers : jobs[w].op \in CopyOps => jobs[w].row.present

BooksInv == BooksExactIfFresh /\ CopiesPresent

LEMMA InitBooksInv == Init => BooksInv
<1> SUFFICES ASSUME Init PROVE BooksInv
  OBVIOUS
<1>1. BooksExactIfFresh
  BY DEF Init, BooksExactIfFresh
<1>2. CopiesPresent
  BY DEF Init, CopiesPresent, CopyOps, RowOps, Idle
<1> QED
  BY <1>1, <1>2 DEF BooksInv

\* A worker goes on to a job that holds no copy to be saved, or one of a row that is there.
LEMMA CopiesStep ==
  ASSUME GoodJobs(jobs, uses), CopiesPresent, NEW w \in Workers, NEW j,
         jobs' = [jobs EXCEPT ![w] = j], j.op \in CopyOps => j.row.present
  PROVE  CopiesPresent'
BY DEF CopiesPresent, GoodJobs

LEMMA DoneCopies ==
  ASSUME GoodJobs(jobs, uses), CopiesPresent, NEW w \in Workers, Done(w)
  PROVE  CopiesPresent'
<1>1. Idle.op \notin CopyOps
  BY DEF Idle, CopyOps, RowOps
<1> QED
  BY <1>1, CopiesStep DEF Done

LEMMA SameMoney ==
  ASSUME BooksExactIfFresh, UNCHANGED <<rows, book, stale>>
  PROVE  BooksExactIfFresh'
BY DEF BooksExactIfFresh

\* What is added in the database is booked.
LEMMA PlusExact ==
  ASSUME GoodRows(rows), book \in [Users -> Int], BooksExactIfFresh, NEW u \in Users, NEW d \in Int,
         rows' = Plus(u, d), book' = Booked(u, d), stale' = stale
  PROVE  BooksExactIfFresh'
<1> SUFFICES ASSUME NEW x \in Users, rows'[x].present, x \notin stale PROVE rows'[x].quota = book'[x]
  BY DEF BooksExactIfFresh
<1>1. CASE x # u
  BY <1>1 DEF Plus, Booked, GoodRows, BooksExactIfFresh
<1>2. CASE x = u
  <2>1. rows'[u] = [rows[u] EXCEPT !.quota = IF rows[u].present THEN rows[u].quota + d ELSE rows[u].quota]
    BY DEF Plus, GoodRows
  <2>2. rows[u] \in Row
    BY DEF GoodRows
  <2>3. rows'[u].present = rows[u].present
    BY <2>1, <2>2 DEF Row
  <2>4. rows[u].present
    BY <1>2, <2>3
  <2>5. rows[u].quota = book[u]
    BY <1>2, <2>4 DEF BooksExactIfFresh
  <2>6. rows'[u].quota = rows[u].quota + d
    BY <2>1, <2>2, <2>4 DEF Row
  <2>7. book'[u] = book[u] + d
    BY <2>4 DEF Booked
  <2> QED
    BY <1>2, <2>5, <2>6, <2>7
<1> QED
  BY <1>1, <1>2

\* A copy is saved with a new balance that is right if the copy is.
LEMMA SaveExact ==
  ASSUME GoodRows(rows), book \in [Users -> Int], BooksExactIfFresh, NEW w \in Workers,
         jobs[w].user \in Users, jobs[w].row.present, NEW r \in Row, NEW b \in Int,
         Save(jobs[w].user, r), Judge(w), book' = [book EXCEPT ![jobs[w].user] = b],
         jobs[w].row.quota = book[jobs[w].user] => r.quota = b
  PROVE  BooksExactIfFresh'
<1> DEFINE u == jobs[w].user
<1> SUFFICES ASSUME NEW x \in Users, rows'[x].present, x \notin stale' PROVE rows'[x].quota = book'[x]
  BY DEF BooksExactIfFresh
<1>1. CASE x # u
  BY <1>1 DEF Save, Judge, GoodRows, BooksExactIfFresh
<1>2. CASE x = u
  <2>1. x \notin stale /\ rows[u] = jobs[w].row
    BY <1>2 DEF Judge
  <2>2. rows[u].quota = book[u]
    BY <1>2, <2>1 DEF BooksExactIfFresh
  <2>3. rows'[u] = [r EXCEPT !.present = TRUE]
    BY DEF Save, GoodRows
  <2>4. rows'[u].quota = r.quota
    BY <2>3 DEF Row
  <2> QED
    BY <1>2, <2>1, <2>2, <2>4
<1> QED
  BY <1>1, <1>2

\* A copy with another balance.
LEMMA CopyFields ==
  ASSUME NEW r \in Row, NEW q \in Int
  PROVE  [r EXCEPT !.quota = q] \in Row /\ [r EXCEPT !.quota = q].quota = q
BY DEF Row

LEMMA RowWritesBooks ==
  ASSUME Inv, BooksInv, NEW w \in Workers,
         \/ UpdateSelf(w) \/ UpdateUser(w) \/ ToggleUserStatus(w) \/ AdjustUserQuota(w)
         \/ DeleteUser(w) \/ SubmitRefused(w)
  PROVE  BooksInv'
<1> DEFINE u == jobs[w].user
           r == jobs[w].row
           f == jobs[w].form
<1>0. jobs[w].op \in RowOps /\ Done(w) /\ jobs[w].op # "idle"
  BY DEF UpdateSelf, UpdateUser, ToggleUserStatus, AdjustUserQuota, DeleteUser, SubmitRefused, RowOps
<1>1. /\ GoodJobs(jobs, uses) /\ GoodRows(rows) /\ book \in [Users -> Int] /\ u \in Users /\ r \in Row
      /\ r.quota \in Int /\ f.quota \in Int /\ f.active \in BOOLEAN
  BY <1>0, JobFacts
<1>2. CopiesPresent'
  BY <1>0, <1>1, DoneCopies DEF BooksInv
<1>3. r.present /\ BooksExactIfFresh
  BY <1>0 DEF BooksInv, CopiesPresent, CopyOps
<1>4. CASE UpdateSelf(w)
  <2>1. book' = [book EXCEPT ![u] = book[u]] /\ book[u] \in Int
    BY <1>1, <1>4 DEF UpdateSelf
  <2>2. Save(u, r) /\ Judge(w)
    BY <1>4 DEF UpdateSelf, OwnFields
  <2>3. BooksExactIfFresh'
    BY <1>1, <1>3, <2>1, <2>2, SaveExact
  <2> QED
    BY <1>2, <2>3 DEF BooksInv
<1>5. CASE UpdateUser(w)
  <2> DEFINE s == [r EXCEPT !.active = f.active, !.quota = f.quota]
  <2>1. s \in Row /\ s.quota = f.quota
    <3>1. s \in Row
      BY <1>1 DEF Row
    <3>2. s.quota = f.quota
      BY <1>1 DEF Row
    <3> QED
      BY <3>1, <3>2
  <2>2. Save(u, s) /\ Judge(w) /\ book' = [book EXCEPT ![u] = f.quota]
    BY <1>5 DEF UpdateUser
  <2> HIDE DEF s
  <2>3. BooksExactIfFresh'
    BY <1>1, <1>3, <2>1, <2>2, SaveExact
  <2> QED
    BY <1>2, <2>3 DEF BooksInv
<1>6. CASE ToggleUserStatus(w)
  <2>1. /\ \A x \in Users \ {u} : rows'[x] = rows[x]
        /\ rows'[u] = [rows[u] EXCEPT !.active = IF rows[u].present THEN ~r.active ELSE rows[u].active]
        /\ rows[u] \in Row
    BY <1>1, <1>6 DEF ToggleUserStatus, GoodRows
  <2>2. rows'[u].quota = rows[u].quota /\ rows'[u].present = rows[u].present
    BY <2>1 DEF Row
  <2>3. book' = book /\ stale' = stale
    BY <1>6 DEF ToggleUserStatus
  <2>4. BooksExactIfFresh'
    BY <1>3, <2>1, <2>2, <2>3 DEF BooksExactIfFresh
  <2> QED
    BY <1>2, <2>4 DEF BooksInv
<1>7. CASE AdjustUserQuota(w)
  <2> DEFINE d == f.quota
             q == IF rows[u].present THEN Adjusted(r.quota, d) ELSE rows[u].quota
  <2>1. /\ \A x \in Users \ {u} : rows'[x] = rows[x] /\ book'[x] = book[x]
        /\ rows'[u] = [rows[u] EXCEPT !.quota = q] /\ rows[u] \in Row
        /\ book'[u] = IF rows[u].present THEN Adjusted(book[u], d) ELSE book[u]
        /\ Judge(w)
    BY <1>1, <1>7 DEF AdjustUserQuota, GoodRows
  <2>2. rows'[u].quota = q /\ rows'[u].present = rows[u].present
    BY <2>1 DEF Row
  <2>3. ASSUME rows[u].present, u \notin stale' PROVE rows'[u].quota = book'[u]
    <3>1. u \notin stale /\ rows[u] = r
      BY <2>1, <2>3 DEF Judge
    <3>2. r.quota = book[u]
      BY <1>1, <1>3, <2>3, <3>1 DEF BooksExactIfFresh
    <3> QED
      BY <2>1, <2>2, <2>3, <3>2
  <2>4. BooksExactIfFresh'
    BY <1>3, <2>1, <2>2, <2>3 DEF BooksExactIfFresh, Judge
  <2> QED
    BY <1>2, <2>4 DEF BooksInv
<1>8. CASE DeleteUser(w)
  <2>1. /\ \A x \in Users \ {u} : rows'[x] = rows[x]
        /\ ~rows'[u].present /\ book' = book /\ stale' = stale
    BY <1>1, <1>8 DEF DeleteUser, GoodRows, Gone
  <2>2. BooksExactIfFresh'
    BY <1>3, <2>1 DEF BooksExactIfFresh
  <2> QED
    BY <1>2, <2>2 DEF BooksInv
<1>9. CASE SubmitRefused(w)
  BY <1>2, <1>3, <1>9, SameMoney DEF SubmitRefused, BooksInv
<1> QED
  BY <1>4, <1>5, <1>6, <1>7, <1>8, <1>9

LEMMA TaskWritesBooks ==
  ASSUME Inv, BooksInv, NEW w \in Workers,
         RelayMidjourney(w) \/ MidjourneyRefund(w) \/ UseRedemptionCode(w)
  PROVE  BooksInv'
<1> DEFINE u == jobs[w].user
           r == jobs[w].row
<1>0. jobs[w].op \in CopyOps /\ Done(w) /\ jobs[w].op # "idle"
  BY DEF RelayMidjourney, MidjourneyRefund, UseRedemptionCode, CopyOps, RowOps
<1>1. /\ GoodJobs(jobs, uses) /\ GoodRows(rows) /\ book \in [Users -> Int] /\ u \in Users /\ r \in Row
      /\ r.quota \in Int
  BY <1>0, JobFacts
<1>2. CopiesPresent'
  BY <1>0, <1>1, DoneCopies DEF BooksInv
<1>3. r.present /\ BooksExactIfFresh
  BY <1>0 DEF BooksInv, CopiesPresent
<1>4. ASSUME NEW d \in Int, Save(u, [r EXCEPT !.quota = r.quota + d]), Judge(w),
             book' = [book EXCEPT ![u] = book[u] + d]
      PROVE  BooksExactIfFresh'
  <2> DEFINE s == [r EXCEPT !.quota = r.quota + d]
  <2>1. r.quota + d \in Int /\ book[u] + d \in Int
    BY <1>1
  <2>2. s \in Row /\ s.quota = r.quota + d
    BY <1>1, <2>1, CopyFields
  <2>3. Save(u, s)
    BY <1>4
  <2> HIDE DEF s
  <2> QED
    BY <1>1, <1>3, <1>4, <2>1, <2>2, <2>3, SaveExact
<1>5. -Price \in Int /\ Price \in Int /\ Value \in Int /\ book[u] \in Int
      /\ r.quota - Price = r.quota + (-Price) /\ book[u] - Price = book[u] + (-Price)
  BY <1>1, AccountAmounts
<1>6. CASE RelayMidjourney(w)
  <2>1. Save(u, [r EXCEPT !.quota = r.quota + (-Price)]) /\ Judge(w)
    BY <1>5, <1>6 DEF RelayMidjourney, Charged
  <2>2. book' = [book EXCEPT ![u] = book[u] + (-Price)]
    BY <1>1, <1>5, <1>6 DEF RelayMidjourney
  <2> QED
    BY <1>2, <1>4, <1>5, <2>1, <2>2 DEF BooksInv
<1>7. CASE MidjourneyRefund(w)
  <2>1. Save(u, [r EXCEPT !.quota = r.quota + Price]) /\ Judge(w)
    BY <1>7 DEF MidjourneyRefund
  <2>2. book' = [book EXCEPT ![u] = book[u] + Price]
    BY <1>1, <1>7 DEF MidjourneyRefund
  <2> QED
    BY <1>2, <1>4, <1>5, <2>1, <2>2 DEF BooksInv
<1>8. CASE UseRedemptionCode(w)
  <2>1. Save(u, [r EXCEPT !.quota = r.quota + Value]) /\ Judge(w)
    BY <1>8 DEF UseRedemptionCode
  <2>2. book' = [book EXCEPT ![u] = book[u] + Value]
    BY <1>1, <1>8 DEF UseRedemptionCode
  <2> QED
    BY <1>2, <1>4, <1>5, <2>1, <2>2 DEF BooksInv
<1> QED
  BY <1>6, <1>7, <1>8

\* Registration, check-in, invitations, and the steps that read a row.
LEMMA OtherStepsBooks ==
  ASSUME Inv, BooksInv, NEW w \in Workers,
         UserRegister(w) \/ GenerateInvitationCode(w) \/ CheckIn(w) \/ RedeemTx(w) \/ MarkFailure(w)
  PROVE  BooksInv'
<1> DEFINE u == jobs[w].user
           i == jobs[w].item
<1>0. jobs[w].op # "idle"
  BY DEF UserRegister, GenerateInvitationCode, CheckIn, RedeemTx, MarkFailure
<1>1. /\ GoodJobs(jobs, uses) /\ GoodRows(rows) /\ book \in [Users -> Int] /\ u \in Users
      /\ jobs[w] \in Job /\ CopiesPresent /\ BooksExactIfFresh
  BY <1>0, JobFacts DEF BooksInv
<1>2. Done(w) => CopiesPresent'
  BY <1>1, DoneCopies
<1>3. CASE UNCHANGED <<rows, book, stale>> /\ Done(w)
  BY <1>1, <1>2, <1>3, SameMoney DEF BooksInv
<1>4. CASE UserRegister(w) /\ ~UNCHANGED <<tables, history>>
  <2>1. PICK v : rows' = Joined(u, v)
    BY <1>4 DEF UserRegister
  <2>2. book' = [book EXCEPT ![u] = Reward] /\ stale' = stale /\ Done(w)
    BY <1>4 DEF UserRegister
  <2>3. ASSUME NEW x \in Users, rows'[x].present, x \notin stale PROVE rows'[x].quota = book'[x]
    <3>1. CASE x = u
      BY <1>1, <2>1, <2>2, <3>1 DEF Joined, NewRow
    <3>2. CASE x # u
      <4>1. rows[x] \in Row
        BY <1>1 DEF GoodRows
      <4>2. rows'[x] = rows[x] \/ rows'[x] = [rows[x] EXCEPT !.aff = @ + Reward]
        BY <2>1, <3>2 DEF Joined
      <4>3. rows'[x].quota = rows[x].quota /\ rows'[x].present = rows[x].present
        BY <4>1, <4>2 DEF Row
      <4> QED
        BY <1>1, <2>2, <2>3, <3>2, <4>3 DEF BooksExactIfFresh
    <3> QED
      BY <3>1, <3>2
  <2>4. BooksExactIfFresh'
    BY <2>2, <2>3 DEF BooksExactIfFresh
  <2> QED
    BY <1>2, <2>2, <2>4 DEF BooksInv
<1>5. CASE GenerateInvitationCode(w)
  <2>1. BooksExactIfFresh'
    <3>1. -Price \in Int
      BY AccountAmounts
    <3> QED
      BY <1>1, <1>5, <3>1, PlusExact DEF GenerateInvitationCode
  <2> QED
    BY <1>2, <1>5, <2>1 DEF BooksInv, GenerateInvitationCode
<1>6. CASE CheckIn(w) /\ ~UNCHANGED <<tables, history>>
  <2>1. BooksExactIfFresh'
    <3>1. Reward \in Int
      BY AccountAmounts
    <3> QED
      BY <1>1, <1>6, <3>1, PlusExact DEF CheckIn
  <2> QED
    BY <1>2, <1>6, <2>1 DEF BooksInv, CheckIn
<1>7. CASE (RedeemTx(w) \/ MarkFailure(w)) /\ ~Done(w)
  <2>1. PICK op \in {"redeemTx", "refund"} :
          rows[u].present /\ jobs' = [jobs EXCEPT ![w] = [@ EXCEPT !.op = op, !.row = rows[u]]]
    BY <1>7 DEF RedeemTx, MarkFailure
  <2>2. PICK j : /\ j = [jobs[w] EXCEPT !.op = op, !.row = rows[u]]
                 /\ jobs' = [jobs EXCEPT ![w] = j]
    BY <1>1, <2>1 DEF GoodJobs
  <2>3. j.row = rows[u]
    BY <1>1, <2>2 DEF Job
  <2>4. CopiesPresent'
    BY <1>1, <2>1, <2>2, <2>3, CopiesStep
  <2>5. UNCHANGED <<rows, book, stale>>
    BY <1>7 DEF RedeemTx, MarkFailure
  <2> QED
    BY <1>1, <2>4, <2>5, SameMoney DEF BooksInv
<1> QED
  BY <1>3, <1>4, <1>5, <1>6, <1>7 DEF UserRegister, CheckIn, RedeemTx, MarkFailure

LEMMA StartBooks ==
  ASSUME Inv, BooksInv, NEW w \in Workers, NEW j, Start(w, j), j.op \in CopyOps => j.row.present,
         UNCHANGED <<rows, book, stale>>
  PROVE  BooksInv'
<1>1. GoodJobs(jobs, uses)
  BY DEF Inv
<1>2. CopiesPresent'
  BY <1>1, CopiesStep DEF Start, BooksInv
<1> QED
  BY <1>2, SameMoney DEF BooksInv

LEMMA StepBooks == Inv /\ BooksInv /\ [Next]_vars => BooksInv'
<1> SUFFICES ASSUME Inv, BooksInv, [Next]_vars PROVE BooksInv'
  OBVIOUS
<1>0. GoodRows(rows) /\ book \in [Users -> Int]
  BY DEF Inv
<1>1. ASSUME NEW w \in Workers, Step(w) PROVE BooksInv'
  BY <1>1, RowWritesBooks, TaskWritesBooks, OtherStepsBooks DEF Step
<1>2. ASSUME NEW w \in Workers, NEW u \in Users, LoadRow(w, u) PROVE BooksInv'
  <2>1. PICK op, i, f : Start(w, RowJob(op, u, i, f)) /\ rows[u].present /\ UNCHANGED <<tables, history>>
    BY <1>2 DEF LoadRow, Load
  <2>2. RowJob(op, u, i, f).row.present
    BY <2>1 DEF RowJob
  <2> QED
    BY <2>1, <2>2, StartBooks
<1>3. ASSUME NEW w \in Workers, NEW u, NEW op \in {"redeem", "register", "checkin", "failure"}, NEW i, NEW c,
             Start(w, ItemJob(op, u, i, c)), UNCHANGED <<rows, book, stale>>
      PROVE BooksInv'
  <2>1. ItemJob(op, u, i, c).op \notin CopyOps
    BY DEF ItemJob, CopyOps, RowOps
  <2> QED
    BY <1>3, <2>1, StartBooks
<1>4. ASSUME NEW w \in Workers, NEW u \in Users,
             \/ CheckInCount(w, u)
             \/ \E i \in Codes : RedeemCheck(w, u, i)
             \/ \E i \in Invitations \cup {Nothing} : RegisterCheck(w, u, i)
      PROVE BooksInv'
  BY <1>3, <1>4 DEF CheckInCount, RedeemCheck, RegisterCheck
<1>5. ASSUME NEW w \in Workers, NEW t \in Tasks, NotifyFailure(w, t) PROVE BooksInv'
  BY <1>3, <1>5 DEF NotifyFailure
<1>6. ASSUME UNCHANGED <<rows, book, stale, jobs>> PROVE BooksInv'
  BY <1>6, SameMoney DEF BooksInv, CopiesPresent
<1>7. ASSUME NEW u \in Users, SunoNotify(u) PROVE BooksInv'
  <2>1. -Price \in Int
    BY AccountAmounts
  <2> QED
    BY <1>0, <1>7, <2>1, PlusExact DEF SunoNotify, BooksInv, CopiesPresent
<1>8. ASSUME NEW u \in Users, TransferAffQuotaToQuota(u) PROVE BooksInv'
  <2>1. /\ \A x \in Users \ {u} : rows'[x] = rows[x] /\ book'[x] = book[x]
        /\ rows'[u] = [rows[u] EXCEPT !.aff = @ - Reward, !.quota = @ + Reward]
        /\ rows[u] \in Row /\ rows[u].present /\ book'[u] = book[u] + Reward /\ stale' = stale
    BY <1>0, <1>8 DEF TransferAffQuotaToQuota, AffCovers, Booked, GoodRows
  <2>2. rows'[u].quota = rows[u].quota + Reward
    BY <2>1 DEF Row
  <2>3. BooksExactIfFresh'
    BY <2>1, <2>2 DEF BooksInv, BooksExactIfFresh
  <2> QED
    BY <1>8, <2>3 DEF TransferAffQuotaToQuota, BooksInv, CopiesPresent
<1> QED
  BY <1>1, <1>2, <1>4, <1>5, <1>6, <1>7, <1>8
     DEF Next, vars, GenerateRedemptionCodes, AdminGenerateInvitations, GenerateItem, DeleteRedemption,
         AdminDeleteInvitation, DeleteItem, SetItemStatus, InsertTask, NotifySuccess, NextDay

-----------------------------------------------------------------------------
(* Refunds.  A task is accepted once, a failure notice finds it accepted, and *)
(* while nobody doubts it one notice at most is under way and it is refunded  *)
(* at most once, after it has been saved as failed.                           *)

Failing(v, t) == jobs[v].op \in {"failure", "refund"} /\ jobs[v].item = t
Submitting(v, t) == jobs[v].op = "submit" /\ jobs[v].item = t

OneSubmit(t) ==
  /\ task[t] = "none" => refunds[t] = 0 /\ \A v \in Workers : ~Failing(v, t)
  /\ \A v, x \in Workers : Submitting(v, t) /\ Submitting(x, t) => v = x
  /\ \A v \in Workers : Submitting(v, t) => task[t] = "none"

OneRefund(t) ==
  t \notin doubted =>
    /\ \A v, x \in Workers : Failing(v, t) /\ Failing(x, t) => v = x
    /\ refunds[t] <= 1
    /\ \A v \in Workers : Failing(v, t) => refunds[t] = 0
    /\ refunds[t] = 1 => task[t] = "FAILURE"
    /\ \A v \in Workers : Failing(v, t) /\ jobs[v].op = "refund" => task[t] = "FAILURE"

RefundsInv == \A t \in Tasks : OneSubmit(t) /\ OneRefund(t)

LEMMA InitRefundsInv == Init => RefundsInv
<1> SUFFICES ASSUME Init, NEW t \in Tasks PROVE OneSubmit(t) /\ OneRefund(t)
  BY DEF RefundsInv
<1>1. \A v \in Workers : jobs[v].op = "idle"
  BY DEF Init, Idle
<1> QED
  BY <1>1 DEF Init, OneSubmit, OneRefund, Failing, Submitting

\* Steps that begin and end other jobs and leave the tasks alone.
LEMMA QuietRefunds ==
  ASSUME RefundsInv, UNCHANGED <<task, refunds, doubted>>,
         \A v \in Workers : jobs'[v] = jobs[v] \/ jobs'[v].op \notin {"failure", "refund", "submit"}
  PROVE  RefundsInv'
<1> SUFFICES ASSUME NEW t \in Tasks PROVE (OneSubmit(t) /\ OneRefund(t))'
  BY DEF RefundsInv
<1>1. OneSubmit(t) /\ OneRefund(t)
  BY DEF RefundsInv
<1>2. OneSubmit(t)'
  BY <1>1 DEF OneSubmit, Failing, Submitting
<1>3. OneRefund(t)'
  BY <1>1 DEF OneRefund, Failing
<1> QED
  BY <1>2, <1>3

\* The same for a worker that begins or ends such a job.
LEMMA QuietJob ==
  ASSUME Inv, RefundsInv, UNCHANGED <<task, refunds, doubted>>, NEW w \in Workers, NEW j,
         jobs' = [jobs EXCEPT ![w] = j], j.op \notin {"failure", "refund", "submit"}
  PROVE  RefundsInv'
<1>1. \A v \in Workers : jobs'[v] = jobs[v] \/ jobs'[v].op \notin {"failure", "refund", "submit"}
  BY DEF Inv, GoodJobs
<1> QED
  BY <1>1, QuietRefunds

\* A task is about to be submitted.
LEMMA SubmitRefunds ==
  ASSUME Inv, RefundsInv, UNCHANGED <<task, refunds, doubted>>, NEW w \in Workers, NEW t \in Tasks, NEW j,
         jobs' = [jobs EXCEPT ![w] = j], j.op = "submit", j.item = t,
         task[t] = "none", \A v \in Workers : jobs[v].item # t
  PROVE  RefundsInv'
<1> SUFFICES ASSUME NEW x \in Tasks PROVE (OneSubmit(x) /\ OneRefund(x))'
  BY DEF RefundsInv
<1>1. OneSubmit(x) /\ OneRefund(x)
  BY DEF RefundsInv
<1>2. /\ \A v \in Workers \ {w} : jobs'[v] = jobs[v]
      /\ jobs'[w].op = "submit" /\ jobs'[w].item = t
  BY DEF Inv, GoodJobs
<1>3. OneSubmit(x)'
  BY <1>1, <1>2 DEF OneSubmit, Failing, Submitting
<1>4. OneRefund(x)'
  BY <1>1, <1>2 DEF OneRefund, Failing
<1> QED
  BY <1>3, <1>4

\* A worker's job ends, and with it perhaps its submission or its failure notice.
LEMMA DoneJobs ==
  ASSUME Inv, NEW w \in Workers, Done(w)
  PROVE  /\ \A v \in Workers \ {w} : jobs'[v] = jobs[v]
         /\ jobs'[w].op = "idle"
BY DEF Inv, GoodJobs, Done, Idle

LEMMA TaskStepsRefunds ==
  ASSUME Inv, RefundsInv, NEW w \in Workers,
         RelayMidjourney(w) \/ MarkFailure(w) \/ MidjourneyRefund(w)
  PROVE  RefundsInv'
<1> DEFINE t == jobs[w].item
<1>0. jobs[w].op # "idle"
  BY DEF RelayMidjourney, MarkFailure, MidjourneyRefund
<1>1. t \in Tasks /\ task \in [Tasks -> {"none", "accepted", "SUBMITTED", "SUCCESS", "FAILURE"}]
      /\ refunds \in [Tasks -> Nat] /\ jobs[w] \in Job /\ jobs \in [Workers -> Job]
  BY <1>0, JobFacts DEF RelayMidjourney, MarkFailure, MidjourneyRefund, GoodJob, Inv, GoodTasks, GoodJobs
<1> SUFFICES ASSUME NEW x \in Tasks PROVE (OneSubmit(x) /\ OneRefund(x))'
  BY DEF RefundsInv
<1>2. OneSubmit(x) /\ OneRefund(x)
  BY DEF RefundsInv
<1>3. CASE RelayMidjourney(w)
  <2>1. /\ \A v \in Workers \ {w} : jobs'[v] = jobs[v]
        /\ jobs'[w].op = "idle"
    BY <1>3, DoneJobs DEF RelayMidjourney
  <2>2. /\ Submitting(w, t) /\ task' = [task EXCEPT ![t] = "accepted"]
        /\ UNCHANGED <<refunds, doubted>>
    BY <1>3 DEF RelayMidjourney, Submitting
  <2>3. OneSubmit(t) /\ task[t] = "none"
    BY <1>1, <2>2 DEF RefundsInv, OneSubmit
  <2>4. task'[t] = "accepted" /\ (x # t => task'[x] = task[x])
    BY <1>1, <2>2
  <2>5. OneSubmit(x)'
    BY <1>2, <2>1, <2>2, <2>3, <2>4 DEF OneSubmit, Failing, Submitting
  <2>6. OneRefund(x)'
    BY <1>2, <2>1, <2>2, <2>3, <2>4 DEF OneSubmit, OneRefund, Failing
  <2> QED
    BY <2>5, <2>6
<1>4. CASE MarkFailure(w)
  <2>1. /\ \A v \in Workers \ {w} : jobs'[v] = jobs[v]
        /\ jobs'[w].op \in {"idle", "refund"} /\ (jobs'[w].op = "refund" => jobs'[w].item = t)
    <3>1. CASE Done(w)
      BY <3>1, DoneJobs
    <3>2. CASE ~Done(w)
      <4>1. jobs' = [jobs EXCEPT ![w] = [jobs[w] EXCEPT !.op = "refund", !.row = rows[jobs[w].user]]]
        BY <1>1, <1>4, <3>2 DEF MarkFailure
      <4> QED
        BY <1>1, <4>1 DEF Job
    <3> QED
      BY <3>1, <3>2
  <2>2. /\ Failing(w, t) /\ task' = [task EXCEPT ![t] = "FAILURE"]
        /\ UNCHANGED <<refunds, doubted>>
    BY <1>4 DEF MarkFailure, Failing
  <2>3. task[t] # "none"
    BY <1>1, <2>2 DEF RefundsInv, OneSubmit
  <2>4. task'[t] = "FAILURE" /\ (x # t => task'[x] = task[x])
    BY <1>1, <2>2
  <2>5. OneSubmit(x)'
    BY <1>2, <2>1, <2>2, <2>3, <2>4 DEF OneSubmit, Failing, Submitting
  <2>6. OneRefund(x)'
    BY <1>2, <2>1, <2>2, <2>4 DEF OneRefund, Failing
  <2> QED
    BY <2>5, <2>6
<1>5. CASE MidjourneyRefund(w)
  <2>1. /\ \A v \in Workers \ {w} : jobs'[v] = jobs[v]
        /\ jobs'[w].op = "idle"
    BY <1>5, DoneJobs DEF MidjourneyRefund
  <2>2. /\ Failing(w, t) /\ jobs[w].op = "refund" /\ refunds' = [refunds EXCEPT ![t] = @ + 1]
        /\ UNCHANGED <<task, doubted>>
    BY <1>5 DEF MidjourneyRefund, Failing
  <2>3. task[t] # "none"
    BY <1>1, <2>2 DEF RefundsInv, OneSubmit
  <2>4. refunds'[t] = refunds[t] + 1 /\ refunds[t] \in Nat /\ (x # t => refunds'[x] = refunds[x])
    BY <1>1, <2>2
  <2>5. OneSubmit(x)'
    BY <1>2, <2>1, <2>2, <2>3, <2>4 DEF OneSubmit, Failing, Submitting
  <2>6. OneRefund(x)'
    BY <1>2, <2>1, <2>2, <2>4 DEF OneRefund, Failing
  <2> QED
    BY <2>5, <2>6
<1> QED
  BY <1>3, <1>4, <1>5

\* Notices, and the row of a task.
LEMMA NoticesRefunds ==
  ASSUME Inv, RefundsInv, NEW t \in Tasks,
         (\E w \in Workers : NotifyFailure(w, t)) \/ NotifySuccess(t) \/ InsertTask(t)
  PROVE  RefundsInv'
<1>1. task \in [Tasks -> {"none", "accepted", "SUBMITTED", "SUCCESS", "FAILURE"}]
      /\ refunds \in [Tasks -> Nat] /\ jobs \in [Workers -> Job]
  BY DEF Inv, GoodTasks, GoodJobs
<1> SUFFICES ASSUME NEW x \in Tasks PROVE (OneSubmit(x) /\ OneRefund(x))'
  BY DEF RefundsInv
<1>2. OneSubmit(x) /\ OneRefund(x)
  BY DEF RefundsInv
<1>3. ASSUME NEW w \in Workers, NotifyFailure(w, t) PROVE (OneSubmit(x) /\ OneRefund(x))'
  <2>1. /\ \A v \in Workers \ {w} : jobs'[v] = jobs[v]
        /\ jobs'[w].op = "failure" /\ jobs'[w].item = t /\ jobs[w].op = "idle"
    BY <1>1, <1>3 DEF NotifyFailure, Start, ItemJob, Idle
  <2>2. /\ task[t] \in {"SUBMITTED", "SUCCESS"} /\ UNCHANGED <<task, refunds>>
        /\ doubted \subseteq doubted' /\ (t \notin doubted' => \A v \in Workers : jobs[v].item # t)
    BY <1>3 DEF NotifyFailure, Refundable, HasTask
  <2>3. OneSubmit(x)'
    BY <1>2, <2>1, <2>2 DEF OneSubmit, Failing, Submitting
  <2>4. OneRefund(x)'
    BY <1>1, <1>2, <2>1, <2>2 DEF OneRefund, Failing
  <2> QED
    BY <2>3, <2>4
<1>4. CASE NotifySuccess(t)
  <2>1. /\ task[t] \in {"SUBMITTED", "SUCCESS", "FAILURE"} /\ task'[t] = "SUCCESS"
        /\ (x # t => task'[x] = task[x]) /\ UNCHANGED <<jobs, refunds>>
        /\ doubted \subseteq doubted' /\ (t \notin doubted' => task[t] # "FAILURE")
    BY <1>1, <1>4 DEF NotifySuccess, HasTask
  <2>2. OneSubmit(x)'
    BY <1>2, <2>1 DEF OneSubmit, Failing, Submitting
  <2>3. OneRefund(x)'
    BY <1>1, <1>2, <2>1 DEF OneRefund, Failing
  <2> QED
    BY <2>2, <2>3
<1>5. CASE InsertTask(t)
  <2>1. /\ task[t] = "accepted" /\ task'[t] = "SUBMITTED"
        /\ (x # t => task'[x] = task[x]) /\ UNCHANGED <<jobs, refunds, doubted>>
    BY <1>1, <1>5 DEF InsertTask
  <2>2. OneSubmit(x)'
    BY <1>2, <2>1 DEF OneSubmit, Failing, Submitting
  <2>3. OneRefund(x)'
    BY <1>1, <1>2, <2>1 DEF OneRefund, Failing
  <2> QED
    BY <2>2, <2>3
<1> QED
  BY <1>3, <1>4, <1>5

LEMMA StepRefunds == Inv /\ RefundsInv /\ [Next]_vars => RefundsInv'
<1> SUFFICES ASSUME Inv, RefundsInv, [Next]_vars PROVE RefundsInv'
  OBVIOUS
<1>1. ASSUME UNCHANGED <<task, refunds, doubted, jobs>> PROVE RefundsInv'
  BY <1>1, QuietRefunds
<1>2. ASSUME NEW w \in Workers, Done(w), UNCHANGED <<task, refunds, doubted>> PROVE RefundsInv'
  <2>1. Idle.op \notin {"failure", "refund", "submit"}
    BY DEF Idle
  <2> QED
    BY <1>2, <2>1, QuietJob DEF Done
<1>3. ASSUME NEW w \in Workers, Step(w) PROVE RefundsInv'
  <2>1. CASE RedeemTx(w) /\ ~Done(w)
    <3>1. jobs' = [jobs EXCEPT ![w] = [jobs[w] EXCEPT !.op = "redeemTx", !.row = rows[jobs[w].user]]]
          /\ UNCHANGED <<task, refunds, doubted>> /\ jobs[w].op # "idle"
      BY <2>1 DEF RedeemTx
    <3>2. jobs[w] \in Job
      BY <3>1, JobFacts
    <3>3. [jobs[w] EXCEPT !.op = "redeemTx", !.row = rows[jobs[w].user]].op \notin {"failure", "refund", "submit"}
      BY <3>2 DEF Job
    <3> QED
      BY <3>1, <3>3, QuietJob
  <2>2. CASE RelayMidjourney(w) \/ MarkFailure(w) \/ MidjourneyRefund(w)
    BY <2>2, TaskStepsRefunds
  <2>3. CASE \/ UpdateSelf(w) \/ UpdateUser(w) \/ ToggleUserStatus(w) \/ AdjustUserQuota(w)
             \/ DeleteUser(w) \/ GenerateInvitationCode(w) \/ UseRedemptionCode(w)
             \/ UserRegister(w) \/ CheckIn(w) \/ SubmitRefused(w)
    BY <1>2, <2>3 DEF UpdateSelf, UpdateUser, ToggleUserStatus, AdjustUserQuota, DeleteUser,
       GenerateInvitationCode, UseRedemptionCode, UserRegister, CheckIn, SubmitRefused
  <2>4. CASE RedeemTx(w) /\ Done(w)
    BY <1>2, <2>4 DEF RedeemTx
  <2> QED
    BY <1>3, <2>1, <2>2, <2>3, <2>4 DEF Step
<1>4. ASSUME NEW w \in Workers, NEW u \in Users, LoadRow(w, u) PROVE RefundsInv'
  <2>1. ASSUME NEW op \in RowOps \ {"submit"}, NEW f, Load(w, op, u, f) PROVE RefundsInv'
    <3>1. RowJob(op, u, Nothing, f).op \notin {"failure", "refund", "submit"}
      BY DEF RowJob, RowOps
    <3> QED
      BY <2>1, <3>1, QuietJob DEF Load, Start
  <2>2. ASSUME NEW t \in Tasks, task[t] = "none", \A v \in Workers : jobs[v].item # t,
               Start(w, RowJob("submit", u, t, NoForm)), UNCHANGED <<tables, history>>
        PROVE  RefundsInv'
    <3>1. RowJob("submit", u, t, NoForm).op = "submit" /\ RowJob("submit", u, t, NoForm).item = t
      BY DEF RowJob
    <3> QED
      BY <2>2, <3>1, SubmitRefunds DEF Start
  <2> QED
    BY <1>4, <2>1, <2>2 DEF LoadRow, RowOps
<1>5. ASSUME NEW w \in Workers, NEW u, NEW op \in {"redeem", "register", "checkin"}, NEW i, NEW c,
             Start(w, ItemJob(op, u, i, c)), UNCHANGED <<tables, history>>
      PROVE RefundsInv'
  <2>1. ItemJob(op, u, i, c).op \notin {"failure", "refund", "submit"}
    BY DEF ItemJob
  <2> QED
    BY <1>5, <2>1, QuietJob DEF Start
<1>6. ASSUME NEW w \in Workers, NEW u \in Users,
             \/ CheckInCount(w, u)
             \/ \E i \in Codes : RedeemCheck(w, u, i)
             \/ \E i \in Invitations \cup {Nothing} : RegisterCheck(w, u, i)
      PROVE RefundsInv'
  BY <1>5, <1>6 DEF CheckInCount, RedeemCheck, RegisterCheck
<1> QED
  BY <1>1, <1>3, <1>4, <1>6, NoticesRefunds
     DEF Next, vars, GenerateRedemptionCodes, AdminGenerateInvitations, GenerateItem, DeleteRedemption,
         AdminDeleteInvitation, DeleteItem, SetItemStatus, NextDay, TransferAffQuotaToQuota, SunoNotify

\* Balances, uses, refunds and aff_quota go wrong only in the ways that are named.
THEOREM AccountsWrongOnlyByRace == Spec => []WrongOnlyByRace
<1>1. Inv /\ BooksInv /\ RefundsInv => WrongOnlyByRace
  <2> SUFFICES ASSUME Inv, BooksInv, RefundsInv PROVE WrongOnlyByRace
    OBVIOUS
  <2>1. BooksExactIfFresh /\ AffNeverNegative
    BY DEF BooksInv, Inv, GoodRows, AffNeverNegative
  <2>2. OverusedOnlyByRace
    <3> SUFFICES ASSUME NEW i \in Items, uses[i] > MaxUses[i], i \notin raced PROVE FALSE
      BY DEF OverusedOnlyByRace
    <3>1. uses[i] \in Nat /\ MaxUses[i] \in Nat /\ uses[i] <= MaxUses[i]
      BY ItemsAssumption DEF Inv, GoodItems, GoodCount, Items
    <3> QED
      BY <3>1
  <2>3. RefundedTwiceOnlyInDoubt
    <3> SUFFICES ASSUME NEW t \in Tasks, refunds[t] > 1, t \notin doubted PROVE FALSE
      BY DEF RefundedTwiceOnlyInDoubt
    <3>1. refunds[t] \in Nat /\ refunds[t] <= 1
      BY DEF Inv, GoodTasks, RefundsInv, OneRefund
    <3> QED
      BY <3>1
  <2> QED
    BY <2>1, <2>2, <2>3 DEF WrongOnlyByRace
<1>2. Init => Inv /\ BooksInv /\ RefundsInv
  BY AccountsInit, InitBooksInv, InitRefundsInv
<1>3. Inv /\ BooksInv /\ RefundsInv /\ [Next]_vars => (Inv /\ BooksInv /\ RefundsInv)'
  BY AccountsStep, StepBooks, StepRefunds
<1> QED
  BY <1>1, <1>2, <1>3, PTL DEF Spec

-----------------------------------------------------------------------------
(* Bans.                                                                    *)

\* u's status stays, or u is not there before or after the step, or a copy of u's row was
\* outdated, or an administrator's handler wrote it and ended.
Explained(u) ==
  \/ rows'[u].active = rows[u].active \/ ~rows[u].present \/ ~rows'[u].present
  \/ u \in stale'
  \/ \E w \in Workers : jobs[w].user = u /\ jobs[w].op \in {"updateUser", "toggle"} /\ jobs'[w] = Idle

\* A copy that is saved with the status it was read with.
LEMMA SaveKeepsStatus ==
  ASSUME GoodRows(rows), NEW w \in Workers, jobs[w].user \in Users, NEW r \in Row,
         r.active = jobs[w].row.active, Save(jobs[w].user, r), Judge(w), NEW u \in Users
  PROVE  Explained(u)
<1>1. CASE u # jobs[w].user
  <2>1. rows'[u] = rows[u]
    BY <1>1 DEF Save, GoodRows
  <2> QED
    BY <2>1 DEF Explained
<1>2. CASE u = jobs[w].user /\ u \notin stale'
  <2>1. rows[u] = jobs[w].row
    BY <1>2 DEF Judge
  <2>2. rows'[u] = [r EXCEPT !.present = TRUE]
    BY <1>2 DEF Save, GoodRows
  <2>3. rows'[u].active = r.active
    BY <2>2 DEF Row
  <2> QED
    BY <2>1, <2>3 DEF Explained
<1> QED
  BY <1>1, <1>2 DEF Explained

\* Additions in the database leave the status alone.
LEMMA PlusKeepsStatus ==
  ASSUME GoodRows(rows), NEW x \in Users, NEW d, rows' = Plus(x, d), NEW u \in Users
  PROVE  Explained(u)
<1>1. rows[u] \in Row /\ rows[x] \in Row
  BY DEF GoodRows
<1>2. rows'[u] = rows[u] \/ \E q : rows'[u] = [rows[u] EXCEPT !.quota = q]
  BY DEF Plus, GoodRows
<1>3. rows'[u].active = rows[u].active
  BY <1>1, <1>2 DEF Row
<1> QED
  BY <1>3 DEF Explained

LEMMA StepExplained ==
  ASSUME Inv, NEW w \in Workers, Step(w), NEW u \in Users
  PROVE  Explained(u)
<1> DEFINE x == jobs[w].user
           r == jobs[w].row
<1>0. jobs[w].op # "idle"
  BY DEF Step, UpdateSelf, UpdateUser, ToggleUserStatus, AdjustUserQuota, DeleteUser,
       GenerateInvitationCode, RedeemTx, UseRedemptionCode, UserRegister, CheckIn, RelayMidjourney,
       SubmitRefused, MarkFailure, MidjourneyRefund
<1>1. /\ GoodRows(rows) /\ x \in Users /\ r \in Row /\ r.quota \in Int /\ rows[u] \in Row
      /\ jobs \in [Workers -> Job]
  BY <1>0, JobFacts DEF GoodRows, GoodJobs
<1>2. CASE rows' = rows
  BY <1>2 DEF Explained
<1>3. CASE UpdateSelf(w)
  BY <1>1, <1>3, SaveKeepsStatus DEF UpdateSelf, OwnFields
<1>4. CASE UpdateUser(w)
  <2>1. jobs'[w] = Idle /\ (u # x => rows'[u] = rows[u])
    BY <1>1, <1>4 DEF UpdateUser, Done, Save, GoodRows
  <2> QED
    BY <1>4, <2>1 DEF UpdateUser, Explained
<1>5. CASE ToggleUserStatus(w)
  <2>1. jobs'[w] = Idle /\ (u # x => rows'[u] = rows[u])
    BY <1>1, <1>5 DEF ToggleUserStatus, Done, GoodRows
  <2> QED
    BY <1>5, <2>1 DEF ToggleUserStatus, Explained
<1>6. CASE AdjustUserQuota(w)
  <2>1. rows'[u] = rows[u] \/ \E q : rows'[u] = [rows[u] EXCEPT !.quota = q]
    BY <1>1, <1>6 DEF AdjustUserQuota, GoodRows
  <2>2. rows'[u].active = rows[u].active
    BY <1>1, <2>1 DEF Row
  <2> QED
    BY <2>2 DEF Explained
<1>7. CASE DeleteUser(w)
  <2>1. rows'[u] = rows[u] \/ rows'[u] = Gone
    BY <1>1, <1>7 DEF DeleteUser, GoodRows
  <2> QED
    BY <2>1 DEF Gone, Explained
<1>8. CASE GenerateInvitationCode(w)
  BY <1>1, <1>8, PlusKeepsStatus DEF GenerateInvitationCode
<1>9. ASSUME NEW q \in Int, Save(x, [r EXCEPT !.quota = q]), Judge(w) PROVE Explained(u)
  <2> DEFINE s == [r EXCEPT !.quota = q]
  <2>1. s \in Row
    BY <1>1, CopyFields
  <2>2. s.active = r.active
    BY <1>1 DEF Row
  <2>3. Save(x, s)
    BY <1>9
  <2> HIDE DEF s
  <2> QED
    BY <1>1, <1>9, <2>1, <2>2, <2>3, SaveKeepsStatus
<1>10. r.quota + Value \in Int /\ r.quota - Price \in Int /\ r.quota + Price \in Int
  BY <1>1, AccountAmounts
<1>11. CASE UseRedemptionCode(w)
  BY <1>9, <1>10, <1>11 DEF UseRedemptionCode
<1>12. CASE UserRegister(w) /\ rows' # rows
  <2>1. PICK v : rows' = Joined(x, v) /\ rows[x] = NoRow
    BY <1>12 DEF UserRegister
  <2>2. CASE u = x
    BY <2>1, <2>2 DEF NoRow, Explained
  <2>3. CASE u # x
    <3>1. rows'[u] = rows[u] \/ \E q : rows'[u] = [rows[u] EXCEPT !.aff = q]
      BY <2>1, <2>3 DEF Joined
    <3>2. rows'[u].active = rows[u].active
      BY <1>1, <3>1 DEF Row
    <3> QED
      BY <3>2 DEF Explained
  <2> QED
    BY <2>2, <2>3
<1>13. CASE CheckIn(w) /\ rows' # rows
  BY <1>1, <1>13, PlusKeepsStatus DEF CheckIn
<1>14. CASE RelayMidjourney(w)
  BY <1>9, <1>10, <1>14 DEF RelayMidjourney, Charged
<1>15. CASE MidjourneyRefund(w)
  BY <1>9, <1>10, <1>15 DEF MidjourneyRefund
<1> QED
  BY <1>2, <1>3, <1>4, <1>5, <1>6, <1>7, <1>8, <1>11, <1>12, <1>13, <1>14, <1>15
     DEF Step, RedeemTx, SubmitRefused, MarkFailure

\* A banned user is active again only through an administrator, or because an outdated
\* copy of the row was saved: redemptions, refunds, tasks, check-ins and invitations that
\* go on around the ban do not lift it by themselves.
THEOREM BanLiftedByAdminOrStaleCopy == Spec => UnbannedByAdminOrStaleCopy
<1> DEFINE A == \A u \in Users :
       rows[u].present /\ ~rows[u].active /\ rows'[u].present /\ rows'[u].active =>
         \/ u \in stale'
         \/ \E w \in Workers : jobs[w].user = u /\ jobs[w].op \in {"updateUser", "toggle"}
                               /\ jobs'[w] = Idle
<1>1. Inv /\ [Next]_vars => \A u \in Users : Explained(u)
  <2> SUFFICES ASSUME Inv, [Next]_vars, NEW u \in Users PROVE Explained(u)
    OBVIOUS
  <2>1. CASE rows' = rows
    BY <2>1 DEF Explained
  <2>2. ASSUME NEW x \in Users, TransferAffQuotaToQuota(x) PROVE Explained(u)
    <3>1. rows[u] \in Row
      BY DEF Inv, GoodRows
    <3>2. rows'[u] = rows[u] \/ \E a, q : rows'[u] = [rows[u] EXCEPT !.aff = a, !.quota = q]
      BY <2>2 DEF TransferAffQuotaToQuota, Inv, GoodRows
    <3>3. rows'[u].active = rows[u].active
      BY <3>1, <3>2 DEF Row
    <3> QED
      BY <3>3 DEF Explained
  <2>3. ASSUME NEW x \in Users, SunoNotify(x) PROVE Explained(u)
    BY <2>3, PlusKeepsStatus DEF SunoNotify, Inv
  <2>4. ASSUME NEW w \in Workers, NEW x \in Users, LoadRow(w, x) \/ CheckInCount(w, x) PROVE rows' = rows
    BY <2>4 DEF LoadRow, Load, CheckInCount
  <2>5. ASSUME NEW w \in Workers, NEW x \in Users, NEW i, RedeemCheck(w, x, i) \/ RegisterCheck(w, x, i)
        PROVE  rows' = rows
    BY <2>5 DEF RedeemCheck, RegisterCheck
  <2>6. ASSUME NEW i, NEW s, \/ GenerateRedemptionCodes(i) \/ AdminGenerateInvitations(i)
                           \/ DeleteRedemption(i) \/ AdminDeleteInvitation(i) \/ SetItemStatus(i, s)
        PROVE  rows' = rows
    BY <2>6 DEF GenerateRedemptionCodes, AdminGenerateInvitations, GenerateItem, DeleteRedemption,
                AdminDeleteInvitation, DeleteItem, SetItemStatus
  <2>7. ASSUME NEW t \in Tasks, (\E w \in Workers : NotifyFailure(w, t)) \/ InsertTask(t) \/ NotifySuccess(t)
        PROVE  rows' = rows
    BY <2>7 DEF NotifyFailure, InsertTask, NotifySuccess
  <2>8. NextDay \/ UNCHANGED vars => rows' = rows
    BY DEF NextDay, vars
  <2>9. ASSUME NEW w \in Workers, Step(w) PROVE Explained(u)
    BY <2>9, StepExplained
  <2> QED
    BY <2>1, <2>2, <2>3, <2>4, <2>5, <2>6, <2>7, <2>8, <2>9 DEF Next
<1>2. (\A u \in Users : Explained(u)) => A
  BY Zenon DEF Explained
<1>3. Inv /\ [Next]_vars => [A]_vars
  BY <1>1, <1>2
<1> QED
  BY <1>3, AccountsInit, AccountsStep, PTL DEF Spec, UnbannedByAdminOrStaleCopy
=============================================================================
