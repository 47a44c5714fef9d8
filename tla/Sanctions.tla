----------------------------- MODULE Sanctions -----------------------------
(***************************************************************************)
(* Sanctions on one API token, its owner and its address, and the token    *)
(* row they meet.  A sanction is a row of the table sanctions; requests    *)
(* look at an index in memory that Reload rebuilds from the whole table.   *)
(* Administrators (controller/admin_sanctions.go) and the behaviour        *)
(* analysis (service/xuanjian/enforce.go) write rows and the status of the *)
(* token beside them; a ticker cleans up and reloads; a request reads the  *)
(* token, through Redis when there is one (controller/common.go), and then *)
(* asks the index.  A worker is a request or a goroutine; what it does     *)
(* between two statements of the database is one step.                     *)
(***************************************************************************)
EXTENDS Integers, Sequences, FiniteSets

CONSTANTS
  Workers,    \* requests and goroutines at work at a time
  Kinds,      \* the (target, action) pairs that are tried, of targetActionMatch
  Factors,    \* the strengths that are tried; throttle and RPM: less is harsher
  Forever,    \* a duration of zero
  MaxStarts, MaxClock,
  CacheTTL,   \* lifetime of a cached token: 5 minutes
  None

VARIABLES
  now, budget,
  rows,      \* the table: a sequence over ids, None where the row is deleted
  index,     \* globalStore
  tok,       \* the token's row
  ownerBanned,
  cached,    \* Redis's copy of the token
  ticker,    \* the goroutine of Init
  work,
  sancHist
vars == <<now, budget, rows, index, tok, ownerBanned, cached, ticker, work, sancHist>>

Disabling == {<<"token", "suspend_token">>, <<"token", "disable_token">>}
Harsher(kind, f, g) == IF kind[2] = "billing_penalty" THEN f > g ELSE f < g
LiveRows(rs, t) == {i \in DOMAIN rs : rs[i] # None /\ (rs[i].until = Forever \/ rs[i].until > t)}

\* The four maps Reload builds from a list of rows: which kinds are in force, and how strongly.
\* Of several rows of one kind a token gets the harshest, an owner's price the last of the list.
applyTokenAction(list, k) == CHOOSE f \in {r.factor : r \in {list[i] : i \in DOMAIN list}} :
                               \E i \in DOMAIN list : /\ list[i].kind = k /\ list[i].factor = f
                                                      /\ \A j \in DOMAIN list : list[j].kind = k => ~Harsher(k, list[j].factor, f)
LastOf(list, k) == LET mine == {i \in DOMAIN list : list[i].kind = k}
                   IN  list[CHOOSE i \in mine : \A j \in mine : j <= i].factor
BuildIndex(list) ==
  [k \in {list[i].kind : i \in DOMAIN list} |-> IF k[1] = "token" THEN applyTokenAction(list, k) ELSE LastOf(list, k)]
NoList == [i \in {} |-> None]
Emptied == BuildIndex(NoList)

GetActiveSanctions == [i \in LiveRows(rows, now) |-> rows[i]]

Idle == [op |-> "idle", pc |-> "idle"]
Job(op, pc) == [op |-> op, pc |-> pc, kind |-> None, factor |-> 0, until |-> Forever, sync |-> FALSE,
                id |-> None, copy |-> TRUE, list |-> None, fresh |-> TRUE, alone |-> TRUE]
At(w, pc) == work[w].pc = pc
Done(w) == work' = [work EXCEPT ![w] = Idle]
Begin(w, job) == /\ work[w] = Idle /\ budget > 0
                 /\ budget' = budget - 1
                 /\ work' = [work EXCEPT ![w] = job]

Init ==
  /\ now = 0 /\ budget = MaxStarts
  /\ rows \in {<<>>} \cup {<<[kind |-> k, factor |-> 0, until |-> Forever]>> : k \in Kinds \cap Disabling}
  /\ index = [view |-> BuildIndex(rows), fresh |-> TRUE]
  /\ tok = [present |-> TRUE, active |-> TRUE]
  /\ ownerBanned = FALSE
  /\ cached = None
  /\ ticker = [pc |-> "wait", list |-> NoList, fresh |-> TRUE]
  /\ work = [w \in Workers |-> Idle]
  /\ sancHist = [raced |-> FALSE, overtaken |-> FALSE, failed |-> FALSE, late |-> FALSE, offSince |-> None,
                 served |-> FALSE, servedOff |-> FALSE, returned |-> FALSE]

tokenSide == <<tok, cached>>

---------------------------------------------------------------------------
\* Writing a row and reloading the index.

\* What a write of the table does to copies of it that are on their way to the index.
Outdated == [w \in Workers |-> IF At(w, "swap") THEN [work[w] EXCEPT !.fresh = FALSE] ELSE work[w]]
WriteTable(rs, w, job) ==
  /\ rows' = rs
  /\ index' = [index EXCEPT !.fresh = FALSE]
  /\ ticker' = [ticker EXCEPT !.fresh = @ /\ ticker.pc = "wait"]
  /\ work' = [Outdated EXCEPT ![w] = job]

Put(rs, i, r) == IF i = Len(rs) + 1 THEN Append(rs, r) ELSE [rs EXCEPT ![i] = r]

\* Apply computes the end and looks for a row of the same kind (First: the lowest id).
ApplyLook(w) ==
  /\ At(w, "look")
  /\ LET same == {i \in DOMAIN rows : rows[i] # None /\ rows[i].kind = work[w].kind}
         i == IF same = {} THEN None ELSE CHOOSE i \in same : \A j \in same : i <= j
     IN  work' = [work EXCEPT ![w].pc = "upsert", ![w].id = i,
                              ![w].alone = \A v \in Workers \ {w} : ~(At(v, "upsert") /\ work[v].kind = work[w].kind)]
  /\ UNCHANGED <<now, budget, rows, index, tokenSide, ownerBanned, ticker, sancHist>>

\* Save of the row that was found (which puts a deleted row back), or Create.
UpsertSanction(w) ==
  LET job == work[w]
      i == IF job.id = None THEN Len(rows) + 1 ELSE job.id
      r == [kind |-> job.kind, factor |-> job.factor, until |-> job.until]
  IN  /\ At(w, "upsert")
      /\ WriteTable(Put(rows, i, r), w, [job EXCEPT !.pc = "reload", !.id = None, !.alone = TRUE])
      /\ sancHist' = [sancHist EXCEPT !.raced = @ \/ ~job.alone \/ \E v \in Workers \ {w} : At(v, "upsert") /\ work[v].kind = job.kind,
                                      !.returned = @ \/ (job.id # None /\ rows[i] = None)]
      /\ UNCHANGED <<now, budget, tokenSide, ownerBanned>>

\* The database refuses the statement: Apply returns the error, and nothing is reloaded.
UpsertFails(w) ==
  /\ At(w, "upsert")
  /\ Done(w)
  /\ UNCHANGED <<now, budget, rows, index, tokenSide, ownerBanned, ticker, sancHist>>

\* What is left to do after the reload: the status of the token or the owner, where it is at stake.
AtStake(k) == k \in Disabling \cup {<<"user", "ban_user">>}
AfterReload(job) ==
  IF job.op = "revoke" /\ AtStake(job.kind) THEN [job EXCEPT !.pc = "restore", !.list = None, !.fresh = TRUE]
  ELSE IF job.sync /\ AtStake(job.kind) THEN [job EXCEPT !.pc = "sync", !.list = None, !.fresh = TRUE]
  ELSE Idle

\* Seeded bug: a change of the table waits for the ticker to reach the index.
BugReloadNow(w) ==
  /\ At(w, "reload")
  /\ work' = [work EXCEPT ![w] = AfterReload(@)]
  /\ UNCHANGED <<now, budget, rows, index, tokenSide, ownerBanned, ticker, sancHist>>

\* ReloadNow reads the table; the maps are built and swapped in a step of its own.
ReloadNow(w) ==
  /\ At(w, "reload")
  /\ \/ /\ work' = [work EXCEPT ![w].pc = "swap", ![w].list = GetActiveSanctions, ![w].fresh = TRUE]
        /\ UNCHANGED sancHist
     \/ /\ work' = [work EXCEPT ![w] = AfterReload(@)]
        /\ sancHist' = [sancHist EXCEPT !.failed = TRUE]
  /\ UNCHANGED <<now, budget, rows, index, tokenSide, ownerBanned, ticker>>

Install(list, fresh) ==
  /\ index' = [view |-> BuildIndex(list), fresh |-> fresh]
  /\ sancHist' = [sancHist EXCEPT !.overtaken = ~fresh, !.failed = @ /\ ~fresh]
Reload(w) ==
  /\ At(w, "swap")
  /\ Install(work[w].list, work[w].fresh)
  /\ work' = [work EXCEPT ![w] = AfterReload(@)]
  /\ UNCHANGED <<now, budget, rows, tokenSide, ownerBanned, ticker>>

\* The ticker of Init: every 30 seconds, CleanupExpiredSanctions and Reload.  The rows that are
\* cleaned up are not among the ones read, so nothing can tell whether a step came in between.
CleanupExpiredSanctions ==
  LET gone == {i \in DOMAIN rows : rows[i] # None /\ rows[i].until # Forever /\ rows[i].until <= now} IN
  /\ ticker.pc = "wait"
  /\ rows' = [i \in DOMAIN rows |-> IF i \in gone THEN None ELSE rows[i]]
  /\ ticker' = [pc |-> "swap", list |-> GetActiveSanctions, fresh |-> TRUE]
  /\ UNCHANGED <<now, budget, index, work, tokenSide, ownerBanned, sancHist>>
TickerSwaps ==
  /\ ticker.pc = "swap"
  /\ Install(ticker.list, ticker.fresh)
  /\ ticker' = [pc |-> "wait", list |-> NoList, fresh |-> TRUE]
  /\ UNCHANGED <<now, budget, rows, work, tokenSide, ownerBanned>>

---------------------------------------------------------------------------
\* The token's row and the owner's status.

\* Writing the status notes for the properties since when the token has been off.
Status(present, active) ==
  /\ tok' = [present |-> present, active |-> active]
  /\ sancHist' = [sancHist EXCEPT !.offSince = IF present /\ active THEN None ELSE IF @ = None THEN now ELSE @]

\* An administrator's sanction: applied, then the status is set.
AdminCreateSanction(w) ==
  /\ \E k \in Kinds, f \in Factors, d \in {Forever, 1} :
       Begin(w, [Job("apply", "look") EXCEPT !.kind = k, !.factor = IF k \in Disabling THEN 0 ELSE f,
                                             !.until = IF d = Forever THEN Forever ELSE now + d, !.sync = TRUE])
  /\ UNCHANGED <<now, rows, index, tokenSide, ownerBanned, ticker, sancHist>>

syncDestructiveState(w) ==
  /\ At(w, "sync")
  /\ IF work[w].kind \in Disabling /\ tok.present
       THEN /\ tok' = [tok EXCEPT !.active = FALSE]
            /\ sancHist' = [sancHist EXCEPT !.offSince = IF @ = None THEN now ELSE @]
       ELSE UNCHANGED <<tok, sancHist>>
  /\ ownerBanned' = (ownerBanned \/ work[w].kind[2] = "ban_user")
  /\ Done(w)
  /\ UNCHANGED <<now, budget, rows, index, cached, ticker>>

\* Lifting one: the list is read for the row, the row deleted, the index reloaded, the status restored.
AdminRevokeSanction(w) ==
  /\ \E i \in DOMAIN rows :
       rows[i] # None /\ Begin(w, [Job("revoke", "delete") EXCEPT !.id = i, !.kind = rows[i].kind])
  /\ UNCHANGED <<now, rows, index, tokenSide, ownerBanned, ticker, sancHist>>
Revoke(w) ==
  /\ At(w, "delete")
  /\ WriteTable([rows EXCEPT ![work[w].id] = None], w, [work[w] EXCEPT !.pc = "reload", !.id = None])
  /\ UNCHANGED <<now, budget, tokenSide, ownerBanned, sancHist>>
restoreDestructiveState(w) ==
  /\ At(w, "restore")
  /\ IF work[w].kind \in Disabling /\ tok.present
       THEN Status(TRUE, TRUE) ELSE UNCHANGED <<tok, sancHist>>
  /\ ownerBanned' = (ownerBanned /\ work[w].kind[2] # "ban_user")
  /\ Done(w)
  /\ UNCHANGED <<now, budget, rows, index, cached, ticker>>

\* What Enforce starts for a finding: an Apply in a goroutine and, for the two hard
\* sanctions, another that sets the status.  A nuisance is sanctioned from protect mode on,
\* the destructive kinds only in strict mode and above their score.
Destructive == {<<"token", "disable_token">>, <<"user", "ban_user">>, <<"ip", "ban_ip">>}
Enforced(k, mode, high, weapon) ==
  IF weapon THEN mode # "monitor" /\ k = <<"token", "disable_token">>
  ELSE IF k \in Destructive THEN mode = "strict" /\ (high \/ k[2] = "ban_ip")
  ELSE mode # "monitor" /\ k # <<"token", "billing_penalty">>
applySanction(k, f) ==
  [Job("apply", "look") EXCEPT !.kind = k, !.factor = IF k \in Disabling THEN 0 ELSE f,
                               !.until = IF k \in Destructive \ {<<"ip", "ban_ip">>} THEN Forever ELSE now + 1]
Enforce(w) ==
  /\ \E k \in Kinds, f \in Factors, mode \in {"monitor", "protect", "strict"}, high, weapon \in BOOLEAN :
       /\ Enforced(k, mode, high, weapon)
       /\ IF k \in Destructive \ {<<"ip", "ban_ip">>}
            THEN \E v \in Workers \ {w} :
                   /\ work[w] = Idle /\ work[v] = Idle /\ budget > 0
                   /\ budget' = budget - 1
                   /\ work' = [work EXCEPT ![w] = applySanction(k, f), ![v] = [Job("execute", "execute") EXCEPT !.kind = k]]
            ELSE Begin(w, applySanction(k, f))
  /\ UNCHANGED <<now, rows, index, tokenSide, ownerBanned, ticker, sancHist>>
executeDisableToken == IF tok.present THEN Status(TRUE, FALSE) ELSE UNCHANGED <<tok, sancHist>>
Execute(w) ==
  /\ At(w, "execute")
  /\ IF work[w].kind[1] = "token" THEN executeDisableToken /\ UNCHANGED ownerBanned
                                   ELSE ownerBanned' = TRUE /\ UNCHANGED <<tok, sancHist>>
  /\ Done(w)
  /\ UNCHANGED <<now, budget, rows, index, cached, ticker>>

\* The owner's own page: UpdateToken reads the row and saves all of it with the status asked for.
UpdateToken(w) ==
  /\ tok.present
  /\ \E a \in BOOLEAN : Begin(w, [Job("update", "save") EXCEPT !.copy = a])
  /\ UNCHANGED <<now, rows, index, tokenSide, ownerBanned, ticker, sancHist>>
SaveToken(w) ==
  /\ At(w, "save")
  /\ Status(TRUE, work[w].copy)
  /\ Done(w)
  /\ UNCHANGED <<now, budget, rows, index, cached, ownerBanned, ticker>>
\* DeleteToken and DeleteTokenBatch.
DeleteToken ==
  /\ tok.present /\ budget > 0
  /\ budget' = budget - 1
  /\ Status(FALSE, FALSE)
  /\ UNCHANGED <<now, rows, index, cached, ownerBanned, ticker, work>>

---------------------------------------------------------------------------
\* A request.

\* GetTokenByKey and ValidateToken: the copy in Redis, or the row.
ValidateToken(copy) == copy.active
CacheHit(w) ==
  /\ cached # None /\ cached.until > now
  /\ IF ValidateToken(cached)
       THEN Begin(w, [Job("call", "sanction") EXCEPT !.copy = TRUE])
       ELSE /\ budget > 0 /\ budget' = budget - 1 /\ UNCHANGED work
  /\ sancHist' = [sancHist EXCEPT !.servedOff = @ \/ (ValidateToken(cached) /\ sancHist.offSince # None
                                                        /\ now >= sancHist.offSince + CacheTTL /\ ~sancHist.late)]
  /\ UNCHANGED <<now, rows, index, tokenSide, ownerBanned, ticker>>
GetTokenByKey(w) ==
  /\ tok.present
  /\ IF cached = None THEN TRUE ELSE cached.until <= now
  /\ Begin(w, [Job("call", "setCache") EXCEPT !.copy = tok.active])
  /\ UNCHANGED <<now, rows, index, tokenSide, ownerBanned, ticker, sancHist>>
\* With Redis or without.
SetCache(w) ==
  /\ At(w, "setCache")
  /\ \/ /\ cached' = [active |-> work[w].copy, until |-> now + CacheTTL]
        /\ sancHist' = [sancHist EXCEPT !.late = work[w].copy /\ ~tok.active]
     \/ UNCHANGED <<cached, sancHist>>
  /\ work' = [work EXCEPT ![w] = IF work[w].copy THEN [@ EXCEPT !.pc = "sanction"] ELSE Idle]
  /\ UNCHANGED <<now, budget, rows, index, tok, ownerBanned, ticker>>

\* RateLimitMiddleware's look at the address and CheckTokenSanction: both ask the index.
IsIPBanned == <<"ip", "ban_ip">> \in DOMAIN index.view
GetTokenSanction == Disabling \cap DOMAIN index.view # {}
CheckTokenSanction(w) ==
  /\ At(w, "sanction")
  /\ sancHist' = [sancHist EXCEPT !.served = ~IsIPBanned /\ ~GetTokenSanction /\ index.fresh
                                               /\ \E i \in LiveRows(rows, now) : rows[i].kind \in Disabling \cup {<<"ip", "ban_ip">>}]
  /\ Done(w)
  /\ UNCHANGED <<now, budget, rows, index, tokenSide, ownerBanned, ticker>>

---------------------------------------------------------------------------
Tick ==
  /\ now < MaxClock
  /\ now' = now + 1
  /\ UNCHANGED <<budget, rows, index, tokenSide, ownerBanned, ticker, work, sancHist>>

\* The process is started again: requests and goroutines end, Init loads the index, or fails to.
Restart ==
  /\ budget > 0
  /\ budget' = budget - 1
  /\ work' = [w \in Workers |-> Idle]
  /\ ticker' = [pc |-> "wait", list |-> NoList, fresh |-> TRUE]
  /\ \/ /\ index' = [view |-> BuildIndex(GetActiveSanctions), fresh |-> TRUE]
        /\ sancHist' = [sancHist EXCEPT !.overtaken = FALSE, !.failed = FALSE]
     \/ /\ index' = [view |-> Emptied, fresh |-> FALSE]
        /\ sancHist' = [sancHist EXCEPT !.failed = TRUE]
  /\ UNCHANGED <<now, rows, tokenSide, ownerBanned>>

Next ==
  \/ \E w \in Workers :
       \/ ApplyLook(w) \/ UpsertSanction(w) \/ UpsertFails(w) \/ ReloadNow(w) \/ Reload(w)
       \/ AdminCreateSanction(w) \/ syncDestructiveState(w)
       \/ AdminRevokeSanction(w) \/ Revoke(w) \/ restoreDestructiveState(w)
       \/ Enforce(w) \/ Execute(w)
       \/ UpdateToken(w) \/ SaveToken(w)
       \/ CacheHit(w) \/ GetTokenByKey(w) \/ SetCache(w) \/ CheckTokenSanction(w)
  \/ CleanupExpiredSanctions \/ TickerSwaps
  \/ DeleteToken \/ Tick \/ Restart
Spec == Init /\ [][Next]_vars

---------------------------------------------------------------------------
TypeOK ==
  /\ now \in 0..MaxClock /\ budget \in 0..MaxStarts /\ tok \in [present : BOOLEAN, active : BOOLEAN]
  /\ \A i \in DOMAIN rows : rows[i] = None \/ rows[i].kind \in Kinds

Reloading == (\E w \in Workers : work[w].pc \in {"reload", "swap"}) \/ ticker.pc = "swap"

\* The index has fallen behind the table only while a reload is on its way, after an older
\* reload was swapped in over a newer one, or after a reload failed; and there are two rows
\* of one kind only if two of UpsertSanction overlapped (UpsertSanction; Reload, sanction.go:64-118).
IndexInStep ==
  /\ ~index.fresh => Reloading \/ sancHist.overtaken \/ sancHist.failed
  /\ index.fresh => LiveRows(rows, now) \subseteq {i \in DOMAIN rows : rows[i] # None /\ rows[i].kind \in DOMAIN index.view}
  /\ \A i, j \in DOMAIN rows : rows[i] # None /\ rows[j] # None /\ rows[i].kind = rows[j].kind /\ i # j
                               => sancHist.raced \/ sancHist.returned

\* A call that passed both looks at an up-to-date index met no sanction that forbids it; a token
\* that has been off for a cache's lifetime is taken for good only from a copy that was
\* written after it went off (GetTokenByKey, CheckTokenSanction).
SanctionedNotServed == ~sancHist.served /\ ~sancHist.servedOff

\* What sanctions keep to: the index follows the table, and a sanction is applied.
SanctionInv == TypeOK /\ IndexInStep /\ SanctionedNotServed
=============================================================================
