------------------------------ MODULE Accounts ------------------------------
(***************************************************************************)
(* The handlers that move a user's quota outside the relay: redemption     *)
(* codes, invitations and their rewards, check-in, the administrator's     *)
(* edits, and the Midjourney and Suno tasks that are charged and refunded  *)
(* by callbacks.  They share the users row and do not agree on how to      *)
(* write it: some add to a column in the database, some read the row,      *)
(* change it and write all of it back (gorm's Save), some write one column *)
(* computed from what they read.                                           *)
(*                                                                         *)
(* A handler is a worker that reads, keeps the copy, and writes later.     *)
(* Save of a row that is gone inserts it again.                            *)
(***************************************************************************)
EXTENDS Integers

CONSTANTS Users,
          Registered,   \* the users there are at the start
          Workers,      \* goroutines
          Codes,        \* redemption codes
          Invitations,
          MaxUses,      \* [Codes \cup Invitations -> Nat \ {0}]
          Tasks,        \* Midjourney tasks
          Value,        \* quota of a redemption code
          Reward,       \* for a check-in, for a new user and for the inviter
          Price,        \* of a task and of an invitation
          Days,         \* calendar days
          MaxOps,       \* bound on the handlers started
          Nothing       \* no user, no item

ASSUME UsersAssumption ==
  Registered \subseteq Users /\ Nothing \notin Users
ASSUME ItemsAssumption ==
  /\ MaxUses \in [Codes \cup Invitations -> Nat \ {0}] /\ Codes \cap Invitations = {}
  /\ Nothing \notin Codes \cup Invitations \cup Tasks
ASSUME AccountAmounts ==
  Value \in Nat /\ Reward \in Nat /\ Price \in Nat /\ Days \in Nat \ {0} /\ MaxOps \in Nat

Items == Codes \cup Invitations

VARIABLES
  rows,      \* the users table: [present, active, quota, aff]
  items,     \* redemptions and invitations: [present, status, used]
  inviter,   \* Invitation.InviterId
  task,      \* "none", "accepted" (no row yet), "SUBMITTED", "SUCCESS", "FAILURE"
  owner,     \* MidjourneyTask.UserId
  checkins,  \* the check_ins table: users and days
  day,
  jobs,      \* what a worker is doing, with the copies it has read
  ops,
  \* History, for the properties:
  book,      \* what the quota would be had every write met the row it was made for
  stale,     \* users written from an outdated copy
  uses,      \* how often an item has been used
  raced,     \* items written from an outdated copy, or reopened by an administrator
  rewards,   \* check-in rewards by user and day
  refunds,   \* of a task
  doubted    \* tasks with overlapping failure notices, or a success after a failure

tables == <<rows, items, inviter, task, owner, checkins, day>>
others == <<items, inviter, task, owner, checkins, day, ops>>
counts == <<uses, raced, rewards, refunds, doubted>>
history == <<book, stale, uses, raced, rewards, refunds, doubted>>
vars == <<rows, items, inviter, task, owner, checkins, day, jobs, ops,
          book, stale, uses, raced, rewards, refunds, doubted>>

Row == [present : BOOLEAN, active : BOOLEAN, quota : Int, aff : Int]
Form == [active : BOOLEAN, quota : Int]   \* what an administrator asks for
Item == [present : BOOLEAN, status : {"unused", "used", "disabled"}, used : Nat]

NoRow  == [present |-> FALSE, active |-> FALSE, quota |-> 0, aff |-> 0]
NewRow == [present |-> TRUE, active |-> TRUE, quota |-> Reward, aff |-> 0]
NoForm == [active |-> FALSE, quota |-> 0]
Fresh  == [present |-> TRUE, status |-> "unused", used |-> 0]
\* A user who was deleted: told from NoRow because an id is not given twice.
Gone   == [present |-> FALSE, active |-> TRUE, quota |-> 0, aff |-> 0]
Unmade == [Fresh EXCEPT !.present = FALSE]
Idle   == [op |-> "idle", user |-> Nothing, item |-> Nothing, row |-> NoRow, copy |-> Fresh,
           form |-> NoForm]

RowOps == {"updateSelf", "updateUser", "toggle", "adjust", "delete", "invite", "submit"}
Ops == RowOps \cup {"idle", "redeem", "redeemTx", "register", "checkin", "failure", "refund"}

TypeOK ==
  /\ rows \in [Users -> Row] /\ items \in [Items -> Item]
  /\ inviter \in [Invitations -> Users \cup {Nothing}]
  /\ task \in [Tasks -> {"none", "accepted", "SUBMITTED", "SUCCESS", "FAILURE"}]
  /\ owner \in [Tasks -> Users \cup {Nothing}]
  /\ checkins \subseteq Users \X (1..Days) /\ day \in 1..Days
  /\ jobs \in [Workers -> [op : Ops, user : Users \cup {Nothing},
                           item : Items \cup Tasks \cup (1..Days) \cup {Nothing},
                           row : Row, copy : Item, form : Form]]
  /\ ops \in Nat
  /\ book \in [Users -> Int] /\ stale \subseteq Users
  /\ uses \in [Items -> Nat] /\ raced \subseteq Items
  /\ rewards \in [Users \X (1..Days) -> Nat]
  /\ refunds \in [Tasks -> Nat] /\ doubted \subseteq Tasks

Init ==
  /\ rows = [u \in Users |-> IF u \in Registered THEN NewRow ELSE NoRow]
  /\ items = [i \in Items |-> Unmade] /\ inviter = [i \in Invitations |-> Nothing]
  /\ task = [t \in Tasks |-> "none"] /\ owner = [t \in Tasks |-> Nothing]
  /\ checkins = {} /\ day = 1
  /\ jobs = [w \in Workers |-> Idle] /\ ops = 0
  /\ book = [u \in Users |-> rows[u].quota] /\ stale = {}
  /\ uses = [i \in Items |-> 0] /\ raced = {}
  /\ rewards = [x \in Users \X (1..Days) |-> 0]
  /\ refunds = [t \in Tasks |-> 0] /\ doubted = {}

-----------------------------------------------------------------------------
(* Starting, ending and writing.                                           *)

Start(w, job) ==
  /\ jobs[w] = Idle /\ ops < MaxOps
  /\ ops' = ops + 1
  /\ jobs' = [jobs EXCEPT ![w] = job]

\* Jobs that hold a copy of u's row, or of an item.
RowJob(op, u, i, f)  == [op |-> op, user |-> u, item |-> i, row |-> rows[u], copy |-> Fresh,
                         form |-> f]
ItemJob(op, u, i, c) == [op |-> op, user |-> u, item |-> i, row |-> NoRow, copy |-> c,
                         form |-> NoForm]

Done(w) == jobs' = [jobs EXCEPT ![w] = Idle]

\* gorm's Save: every column of the copy; a row that is gone is inserted.
Save(u, r) == rows' = [rows EXCEPT ![u] = [r EXCEPT !.present = TRUE]]

\* UPDATE ... SET quota = quota + d WHERE id = u: nothing if the row is gone.
Plus(u, d) == [rows EXCEPT ![u].quota = IF rows[u].present THEN @ + d ELSE @]

Booked(u, d) == [book EXCEPT ![u] = IF rows[u].present THEN @ + d ELSE @]

\* A write made from w's copy: it is outdated if the row has changed since.
Judge(w) == stale' = stale \cup {u \in {jobs[w].user} : rows[u] # jobs[w].row}

-----------------------------------------------------------------------------
(* Handlers that read the row first.                                       *)

\* DB.First(&user): what the handler wants to write is chosen with it.
Load(w, op, u, f) ==
  /\ rows[u].present
  /\ Start(w, RowJob(op, u, Nothing, f))
  /\ UNCHANGED <<tables, history>>

LoadRow(w, u) ==
  \/ Load(w, "updateSelf", u, NoForm)
  \/ \E a \in BOOLEAN, q \in {0, Value} : Load(w, "updateUser", u, [active |-> a, quota |-> q])
  \/ Load(w, "toggle", u, NoForm)
  \/ \E d \in {-Value, Value} : Load(w, "adjust", u, [active |-> FALSE, quota |-> d])
  \/ Load(w, "delete", u, NoForm)
  \/ rows[u].quota >= Price /\ Load(w, "invite", u, NoForm)
  \/ \E t \in Tasks :
       /\ task[t] = "none" /\ rows[u].present /\ rows[u].quota >= Price
       /\ \A v \in Workers : jobs[v].item # t
       /\ Start(w, RowJob("submit", u, t, NoForm))
       /\ UNCHANGED <<tables, history>>

\* Seeded bug: UpdateSelf takes the status from the request body as well.
BugOwnFields(r) == [r EXCEPT !.active = TRUE]

\* The fields a user may change are not among the modelled ones.
OwnFields(r) == r

UpdateSelf(w) ==
  /\ jobs[w].op = "updateSelf"
  /\ Save(jobs[w].user, OwnFields(jobs[w].row)) /\ Judge(w) /\ Done(w)
  /\ UNCHANGED <<others, book, counts>>

\* Status and quota come from the administrator's form, aff_quota from the copy.
UpdateUser(w) ==
  LET u == jobs[w].user  f == jobs[w].form IN
  /\ jobs[w].op = "updateUser"
  /\ Save(u, [jobs[w].row EXCEPT !.active = f.active, !.quota = f.quota])
  /\ book' = [book EXCEPT ![u] = f.quota]
  /\ Judge(w) /\ Done(w)
  /\ UNCHANGED <<others, counts>>

ToggleUserStatus(w) ==
  LET u == jobs[w].user IN
  /\ jobs[w].op = "toggle"
  /\ rows' = [rows EXCEPT ![u].active = IF rows[u].present THEN ~jobs[w].row.active ELSE @]
  /\ Done(w)
  /\ UNCHANGED <<others, history>>

\* The new quota is computed from the copy and never negative.
Adjusted(q, d) == IF q + d < 0 THEN 0 ELSE q + d

AdjustUserQuota(w) ==
  LET u == jobs[w].user  d == jobs[w].form.quota IN
  /\ jobs[w].op = "adjust"
  /\ rows' = [rows EXCEPT ![u].quota = IF rows[u].present THEN Adjusted(jobs[w].row.quota, d) ELSE @]
  /\ book' = [book EXCEPT ![u] = IF rows[u].present THEN Adjusted(@, d) ELSE @]
  /\ Judge(w) /\ Done(w)
  /\ UNCHANGED <<others, counts>>

DeleteUser(w) ==
  /\ jobs[w].op = "delete"
  /\ rows' = [rows EXCEPT ![jobs[w].user] = Gone]
  /\ Done(w)
  /\ UNCHANGED <<others, history>>

\* The balance was checked on the copy, the price is taken in the database.
GenerateInvitationCode(w) ==
  LET u == jobs[w].user IN
  /\ jobs[w].op = "invite"
  /\ \E i \in Invitations :
       /\ items[i] = Unmade /\ items' = [items EXCEPT ![i] = Fresh]
       /\ inviter' = [inviter EXCEPT ![i] = u]
  /\ rows' = Plus(u, -Price) /\ book' = Booked(u, -Price)
  /\ Done(w)
  /\ UNCHANGED <<task, owner, checkins, day, ops, stale, counts>>

-----------------------------------------------------------------------------
(* Redemption codes and invitations.                                       *)

\* One code of the batch; max_uses is a constant of the model.
GenerateItem(i) ==
  /\ items[i] = Unmade /\ items' = [items EXCEPT ![i] = Fresh]
  /\ UNCHANGED <<rows, inviter, task, owner, checkins, day, jobs, ops, history>>

GenerateRedemptionCodes(i) == i \in Codes /\ GenerateItem(i)

\* Invitations without an inviter.
AdminGenerateInvitations(i) == i \in Invitations /\ GenerateItem(i)

\* The row after one more use of the copy.
Used(i, c) == [present |-> TRUE, used |-> c.used + 1,
               status |-> IF c.used + 1 >= MaxUses[i] THEN "used" ELSE c.status]

\* tx.Save of the copy of i that w has read.
UseItem(w, i) ==
  /\ items' = [items EXCEPT ![i] = Used(i, jobs[w].copy)]
  /\ uses' = [uses EXCEPT ![i] = @ + 1]
  /\ raced' = raced \cup {j \in {i} : items[j] # jobs[w].copy}

Usable(c) == c.present /\ c.status = "unused"

\* The code is read and its status checked before the transaction begins.
RedeemCheck(w, u, i) ==
  /\ Usable(items[i])
  /\ Start(w, ItemJob("redeem", u, i, items[i]))
  /\ UNCHANGED <<tables, history>>

\* tx.First(&user); without the user nothing is redeemed.
RedeemTx(w) ==
  LET u == jobs[w].user IN
  /\ jobs[w].op = "redeem"
  /\ IF rows[u].present
     THEN jobs' = [jobs EXCEPT ![w] = [@ EXCEPT !.op = "redeemTx", !.row = rows[u]]]
     ELSE Done(w)
  /\ UNCHANGED <<tables, ops, history>>

\* User and code are saved, both from copies.
UseRedemptionCode(w) ==
  LET u == jobs[w].user  r == jobs[w].row IN
  /\ jobs[w].op = "redeemTx"
  /\ Save(u, [r EXCEPT !.quota = @ + Value])
  /\ book' = [book EXCEPT ![u] = @ + Value]
  /\ UseItem(w, jobs[w].item)
  /\ Judge(w) /\ Done(w)
  /\ UNCHANGED <<inviter, task, owner, checkins, day, ops, rewards, refunds, doubted>>

\* UpdateRedemptionStatus and BatchRedemptionAction leave a used code alone;
\* UpdateRedemption?status_only does not.
SetItemStatus(i, s) ==
  /\ i \in Codes /\ items[i].present /\ items[i].status # s
  /\ items' = [items EXCEPT ![i].status = s]
  /\ raced' = raced \cup {j \in {i} : items[j].status = "used"}
  /\ UNCHANGED <<rows, inviter, task, owner, checkins, day, jobs, ops,
                 book, stale, uses, rewards, refunds, doubted>>

DeleteItem(i) ==
  /\ items[i].present
  /\ items' = [items EXCEPT ![i].present = FALSE]
  /\ UNCHANGED <<rows, inviter, task, owner, checkins, day, jobs, ops, history>>

DeleteRedemption(i) == i \in Codes /\ DeleteItem(i)

AdminDeleteInvitation(i) == i \in Invitations /\ DeleteItem(i)

\* UserRegister: the user name is free and the invitation has uses left.
RegisterCheck(w, u, i) ==
  /\ rows[u] = NoRow
  /\ i # Nothing => Usable(items[i]) /\ items[i].used < MaxUses[i]
  /\ Start(w, ItemJob("register", u, i, IF i = Nothing THEN Fresh ELSE items[i]))
  /\ UNCHANGED <<tables, history>>

\* The rows after u has joined: u's own and the inviter's reward.
Joined(u, v) ==
  [x \in Users |-> IF x = u THEN NewRow
                   ELSE IF x = v /\ rows[v].present THEN [rows[v] EXCEPT !.aff = @ + Reward]
                   ELSE rows[x]]

\* The transaction: a second user of the same name violates the unique index.
\* (A name whose user has been deleted meanwhile would start another account.)
UserRegister(w) ==
  LET u == jobs[w].user  i == jobs[w].item IN
  /\ jobs[w].op = "register" /\ Done(w)
  /\ \/ /\ rows[u] # NoRow
        /\ UNCHANGED <<tables, history>>
     \/ /\ rows[u] = NoRow
        /\ rows' = Joined(u, IF i = Nothing THEN Nothing ELSE inviter[i])
        /\ book' = [book EXCEPT ![u] = Reward]
        /\ IF i = Nothing THEN UNCHANGED <<items, uses, raced>> ELSE UseItem(w, i)
        /\ UNCHANGED <<inviter, task, owner, checkins, day, stale, rewards, refunds, doubted>>
  /\ UNCHANGED ops

-----------------------------------------------------------------------------
(* Additions made in the database.                                         *)

\* The day's check-ins of the user are counted first.
CheckInCount(w, u) ==
  /\ rows[u].present /\ <<u, day>> \notin checkins
  /\ Start(w, ItemJob("checkin", u, day, Fresh))
  /\ UNCHANGED <<tables, history>>

\* Seeded bug: there is no unique index.
BugDateTaken(d) == FALSE

\* idx_user_date, which is an index on check_date alone.
DateTaken(d) == \E u \in Users : <<u, d>> \in checkins

\* The row and the reward are one transaction.
CheckIn(w) ==
  LET u == jobs[w].user  d == jobs[w].item IN
  /\ jobs[w].op = "checkin" /\ Done(w)
  /\ \/ /\ DateTaken(d)
        /\ UNCHANGED <<tables, history>>
     \/ /\ ~DateTaken(d)
        /\ checkins' = checkins \cup {<<u, d>>}
        /\ rows' = Plus(u, Reward) /\ book' = Booked(u, Reward)
        /\ rewards' = [rewards EXCEPT ![<<u, d>>] = @ + 1]
        /\ UNCHANGED <<items, inviter, task, owner, day, stale, uses, raced, refunds, doubted>>
  /\ UNCHANGED ops

NextDay ==
  /\ day < Days /\ day' = day + 1
  /\ UNCHANGED <<rows, items, inviter, task, owner, checkins, jobs, ops, history>>

\* WHERE id = ? AND aff_quota >= ?
AffCovers(u, q) == rows[u].present /\ rows[u].aff >= q

TransferAffQuotaToQuota(u) ==
  /\ AffCovers(u, Reward) /\ ops < MaxOps /\ ops' = ops + 1
  /\ rows' = [rows EXCEPT ![u].aff = @ - Reward, ![u].quota = @ + Reward]
  /\ book' = Booked(u, Reward)
  /\ UNCHANGED <<items, inviter, task, owner, checkins, day, jobs, stale, counts>>

\* SunoNotify: every "completed" notice charges the task's user.
SunoNotify(u) ==
  /\ rows[u].present /\ ops < MaxOps /\ ops' = ops + 1
  /\ rows' = Plus(u, -Price) /\ book' = Booked(u, -Price)
  /\ UNCHANGED <<items, inviter, task, owner, checkins, day, jobs, stale, counts>>

-----------------------------------------------------------------------------
(* Midjourney tasks.                                                       *)

Charged(r) == [r EXCEPT !.quota = @ - Price]

\* The proxy has accepted the task; its row is inserted by a goroutine.
RelayMidjourney(w) ==
  LET u == jobs[w].user  t == jobs[w].item IN
  /\ jobs[w].op = "submit"
  /\ Save(u, Charged(jobs[w].row))
  /\ book' = [book EXCEPT ![u] = @ - Price]
  /\ task' = [task EXCEPT ![t] = "accepted"] /\ owner' = [owner EXCEPT ![t] = u]
  /\ Judge(w) /\ Done(w)
  /\ UNCHANGED <<items, inviter, checkins, day, ops, uses, raced, rewards, refunds, doubted>>

\* It has not: nothing is charged.
SubmitRefused(w) ==
  /\ jobs[w].op = "submit" /\ Done(w)
  /\ UNCHANGED <<tables, ops, history>>

InsertTask(t) ==
  /\ task[t] = "accepted"
  /\ task' = [task EXCEPT ![t] = "SUBMITTED"]
  /\ UNCHANGED <<rows, items, inviter, owner, checkins, day, jobs, ops, history>>

HasTask(t) == task[t] \in {"SUBMITTED", "SUCCESS", "FAILURE"}

\* Seeded bug: the status of the task is not looked at.
BugRefundable(t) == HasTask(t)

Refundable(t) == HasTask(t) /\ task[t] # "FAILURE"

\* A failure notice reads the task.  Without a row it is ignored.
NotifyFailure(w, t) ==
  /\ Refundable(t)
  /\ Start(w, ItemJob("failure", owner[t], t, Fresh))
  /\ doubted' = doubted \cup {x \in {t} : \E v \in Workers : jobs[v].item = x}
  /\ UNCHANGED <<tables, book, stale, uses, raced, rewards, refunds>>

\* The task is saved as failed, all its columns, and its user read.
MarkFailure(w) ==
  LET u == jobs[w].user IN
  /\ jobs[w].op = "failure"
  /\ task' = [task EXCEPT ![jobs[w].item] = "FAILURE"]
  /\ owner' = [owner EXCEPT ![jobs[w].item] = u]
  /\ IF rows[u].present
     THEN jobs' = [jobs EXCEPT ![w] = [@ EXCEPT !.op = "refund", !.row = rows[u]]]
     ELSE Done(w)
  /\ UNCHANGED <<rows, items, inviter, checkins, day, ops, history>>

MidjourneyRefund(w) ==
  LET u == jobs[w].user IN
  /\ jobs[w].op = "refund"
  /\ Save(u, [jobs[w].row EXCEPT !.quota = @ + Price])
  /\ book' = [book EXCEPT ![u] = @ + Price]
  /\ refunds' = [refunds EXCEPT ![jobs[w].item] = @ + 1]
  /\ Judge(w) /\ Done(w)
  /\ UNCHANGED <<items, inviter, task, owner, checkins, day, ops, uses, raced, rewards, doubted>>

\* A success notice writes the status whatever it was.
NotifySuccess(t) ==
  /\ HasTask(t) /\ ops < MaxOps /\ ops' = ops + 1
  /\ task' = [task EXCEPT ![t] = "SUCCESS"]
  /\ doubted' = doubted \cup {x \in {t} : task[x] = "FAILURE"}
  /\ UNCHANGED <<rows, items, inviter, owner, checkins, day, jobs, book, stale, uses, raced,
                 rewards, refunds>>

-----------------------------------------------------------------------------
Step(w) ==
  \/ UpdateSelf(w) \/ UpdateUser(w) \/ ToggleUserStatus(w) \/ AdjustUserQuota(w)
  \/ DeleteUser(w) \/ GenerateInvitationCode(w) \/ RedeemTx(w) \/ UseRedemptionCode(w)
  \/ UserRegister(w) \/ CheckIn(w) \/ RelayMidjourney(w) \/ SubmitRefused(w)
  \/ MarkFailure(w) \/ MidjourneyRefund(w)

Next ==
  \/ \E w \in Workers :
       \/ Step(w)
       \/ \E u \in Users : \/ LoadRow(w, u) \/ CheckInCount(w, u)
                           \/ \E i \in Codes : RedeemCheck(w, u, i)
                           \/ \E i \in Invitations \cup {Nothing} : RegisterCheck(w, u, i)
       \/ \E t \in Tasks : NotifyFailure(w, t)
  \/ \E i \in Items : \/ GenerateRedemptionCodes(i) \/ AdminGenerateInvitations(i)
                      \/ DeleteRedemption(i) \/ AdminDeleteInvitation(i)
  \/ \E i \in Codes, s \in {"unused", "used", "disabled"} : SetItemStatus(i, s)
  \/ \E u \in Users : TransferAffQuotaToQuota(u) \/ SunoNotify(u)
  \/ \E t \in Tasks : InsertTask(t) \/ NotifySuccess(t)
  \/ NextDay

Spec == Init /\ [][Next]_vars

-----------------------------------------------------------------------------
(* Properties.                                                             *)

\* What a worker holds: no copy is ahead of the tables, and only an item that was
\* usable when it was read is about to be used (n counts the uses).
GoodJob(j, n) ==
  /\ j.row.aff >= 0
  /\ j.op # "idle" => j.user \in Users
  /\ j.op \in {"redeem", "redeemTx"} => j.item \in Codes
  /\ j.op = "register" => j.item \in Invitations \cup {Nothing}
  /\ j.op = "checkin" => j.item \in 1..Days
  /\ j.op \in {"submit", "failure", "refund"} => j.item \in Tasks
  /\ j.op \in {"redeem", "redeemTx", "register"} /\ j.item # Nothing
       => Usable(j.copy) /\ j.copy.used <= n[j.item]

\* used_count never runs ahead of the uses, agrees with them if nobody raced for
\* the item, and closes it in time.
GoodCount(i, c, n, races) ==
  /\ c.used <= n
  /\ i \notin races => /\ n = c.used /\ n <= MaxUses[i]
                       /\ (c.status = "used" \/ c.used < MaxUses[i])

\* The counts kept in the tables agree with what happened, and check_ins has a
\* row exactly for the rewards that were paid.
AccountsInv ==
  /\ TypeOK
  /\ \A w \in Workers : GoodJob(jobs[w], uses)
  /\ \A i \in Items : GoodCount(i, items[i], uses[i], raced)
  /\ \A t \in Tasks : task[t] # "none" => owner[t] \in Users
  /\ \A x \in Users \X (1..Days) : rewards[x] = IF x \in checkins THEN 1 ELSE 0

\* The balance of a user whose row was never written from an outdated copy is
\* what was credited, charged, refunded and set.
BooksExactIfFresh ==
  \A u \in Users : rows[u].present /\ u \notin stale => rows[u].quota = book[u]

\* The conditional UPDATE of TransferAffQuotaToQuota keeps aff_quota from being
\* overspent, rows that are written back from old copies included.
AffNeverNegative == \A u \in Users : rows[u].aff >= 0

\* A code or an invitation is used more often than max_uses only if two uses
\* overlapped or an administrator reopened it.
OverusedOnlyByRace == \A i \in Items : uses[i] > MaxUses[i] => i \in raced

\* Two overlapping check-ins of a user are rewarded once, although both have
\* counted no check-in for the day.
RewardedOncePerDay == \A x \in Users \X (1..Days) : rewards[x] <= 1

\* A failed task is refunded twice only if two of its failure notices overlapped
\* or a success notice came between them.
RefundedTwiceOnlyInDoubt == \A t \in Tasks : refunds[t] > 1 => t \in doubted

\* Money, uses and refunds go wrong only in the ways that are named: balances by saving an
\* outdated copy, uses and refunds by two requests that overlap or a code that is reopened; and
\* aff_quota is never overspent (AdjustUserQuota, UseRedemptionCode, TransferAffQuotaToQuota,
\* the tasks' failure notices).
WrongOnlyByRace ==
  /\ BooksExactIfFresh
  /\ AffNeverNegative
  /\ OverusedOnlyByRace
  /\ RefundedTwiceOnlyInDoubt

\* A banned user is active again only through an administrator, or because an
\* outdated copy of the row was saved.
UnbannedByAdminOrStaleCopy ==
  [][\A u \in Users :
       rows[u].present /\ ~rows[u].active /\ rows'[u].present /\ rows'[u].active =>
         \/ u \in stale'
         \/ \E w \in Workers : jobs[w].user = u /\ jobs[w].op \in {"updateUser", "toggle"}
                               /\ jobs'[w] = Idle]_vars
=============================================================================
