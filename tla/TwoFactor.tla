----------------------------- MODULE TwoFactor -----------------------------
(***************************************************************************)
(* Password sign-in with a second factor (controller/user.go UserLogin,    *)
(* controller/totp.go, controller/user_2fa.go), the one-time tickets that  *)
(* join its two requests (common/preauth_ticket.go), the JSON web tokens   *)
(* it hands out, and logging out (common/token_blacklist.go,               *)
(* middleware/auth.go).                                                    *)
(*                                                                         *)
(* TOTPLogin reads the user's row and then writes single columns of it,    *)
(* each by a statement of its own, so two logins of a user interleave      *)
(* between any two statements.  Tickets and the blacklist live in Redis    *)
(* when it is configured, and then survive a restart but take two commands *)
(* to consume; otherwise they live in a map of the process.                *)
(***************************************************************************)
EXTENDS Integers, FiniteSets

CONSTANTS
  Users, Workers,
  Tickets,      \* pre-auth tickets that may be issued
  Jwts,         \* web tokens that may be issued
  Codes,        \* backup codes that may be generated
  CodeCount,    \* codes generated at a time: 8 in the code
  MaxFails,     \* wrong codes before the account locks: 5 in the code
  LockTime, TicketTTL, JwtTTL,   \* 15 minutes, 5 minutes, 24 hours
  MaxClock, MaxStarts,           \* bounds of the model
  None                           \* not a user, not a ticket

VARIABLES
  now,        \* the clock
  redis,      \* is Redis configured
  acct,       \* the second-factor columns of each user's row
  tickets,    \* preAuthStore, or the preauth: keys
  jwts,       \* the tokens issued
  blacklist,  \* blacklistStore, or the jwt:blacklist: keys
  logins,     \* TOTPLogin requests in progress, one per worker
  hist,       \* what happened: see Hist
  starts      \* requests made so far

vars == <<now, redis, acct, tickets, jwts, blacklist, logins, hist, starts>>
stores == <<acct, tickets, jwts, blacklist>>

\* hashed: stored as bcrypt hashes; plain: stored as they are, which no hash comparison accepts
Acct == [enabled : BOOLEAN, secret : BOOLEAN, hashed : SUBSET Codes, plain : SUBSET Codes,
         fails : Nat, lockedAt : Int]
Ticket == [user : Users \cup {None}, expires : Int]
Jwt == [user : Users \cup {None}, expires : Int]
NewAcct == [enabled |-> FALSE, secret |-> FALSE, hashed |-> {}, plain |-> {},
            fails |-> 0, lockedAt |-> 0]
Unissued == [user |-> None, expires |-> 0]
Answers == {"totp", "wrong"} \cup Codes    \* what the user types
Login == [step : {"idle", "del", "read", "checkLock", "spend", "finish", "fail"}, user : Users \cup {None},
          ticket : Tickets \cup {None}, answer : Answers, found : Users \cup {None}, copy : Acct]
Idle == [step |-> "idle", user |-> None, ticket |-> None, answer |-> "wrong",
         found |-> None, copy |-> NewAcct]

\* judged: attempts judged per ticket; spent: acceptances per code; shown: codes shown and not
\* withdrawn; wrong: wrong answers since the count was last cleared; raced: users of whom a
\* login wrote from a row that had changed under it; out: tokens logged out; returned: tokens
\* served after that; lost: the blacklist was emptied by a restart or missed by an outage
Hist == [judged : [Tickets -> Nat], spent : [Codes -> Nat], shown : SUBSET Codes,
         wrong : [Users -> Nat], raced : SUBSET Users,
         out : SUBSET Jwts, returned : SUBSET Jwts, lost : BOOLEAN]

TypeOK ==
  /\ now \in Nat /\ redis \in BOOLEAN /\ starts \in Nat
  /\ acct \in [Users -> Acct] /\ tickets \in [Tickets -> Ticket] /\ jwts \in [Jwts -> Jwt]
  /\ blacklist \subseteq Jwts /\ logins \in [Workers -> Login] /\ hist \in Hist

Enrolled(S) == [NewAcct EXCEPT !.enabled = TRUE, !.secret = TRUE, !.hashed = S]
CodeSets == {S \in SUBSET Codes : Cardinality(S) = CodeCount}

\* At most one user has the factor on already.
Init ==
  /\ now = 1 /\ redis \in BOOLEAN /\ starts = 0
  /\ \E u \in Users, S \in CodeSets \cup {{}} :
       /\ acct = [v \in Users |-> IF v = u /\ S # {} THEN Enrolled(S) ELSE NewAcct]
       /\ hist = [judged |-> [t \in Tickets |-> 0], spent |-> [c \in Codes |-> 0], shown |-> S,
                  wrong |-> [v \in Users |-> 0], raced |-> {}, out |-> {}, returned |-> {},
                  lost |-> FALSE]
  /\ tickets = [t \in Tickets |-> Unissued]
  /\ jwts = [j \in Jwts |-> Unissued]
  /\ blacklist = {}
  /\ logins = [w \in Workers |-> Idle]

----------------------------------------------------------------------------
Request == starts < MaxStarts /\ starts' = starts + 1
FreshTickets == {t \in Tickets : /\ tickets[t] = Unissued /\ hist.judged[t] = 0
                                 /\ \A w \in Workers : logins[w].ticket # t}
FreshJwts == {j \in Jwts : jwts[j] = Unissued}

\* IssuePreAuthTicket: under a key that expires with the ticket.
IssuePreAuthTicket(u) ==
  \E t \in FreshTickets : tickets' = [tickets EXCEPT ![t] = [user |-> u, expires |-> now + TicketTTL]]

\* GenerateToken
GenerateToken(u) ==
  \E j \in FreshJwts : jwts' = [jwts EXCEPT ![j] = [user |-> u, expires |-> now + JwtTTL]]

\* UserLogin with the right password; every refusal before it leaves nothing behind.
UserLogin(u) ==
  /\ Request
  /\ IF acct[u].enabled THEN IssuePreAuthTicket(u) /\ UNCHANGED jwts
                        ELSE GenerateToken(u) /\ UNCHANGED tickets
  /\ UNCHANGED <<now, redis, acct, blacklist, logins, hist>>

NewCodes == {S \in CodeSets : S \cap (hist.shown \cup {c \in Codes : hist.spent[c] > 0}) = {}}
Withdraw(u) == hist.shown \ (acct[u].hashed \cup acct[u].plain)

\* TOTPSetup stores a secret and hashed backup codes while the factor is still off.
TOTPSetup(u) ==
  /\ Request
  /\ ~acct[u].enabled
  /\ \E S \in NewCodes :
       /\ acct' = [acct EXCEPT ![u].secret = TRUE, ![u].hashed = S, ![u].plain = {}]
       /\ hist' = [hist EXCEPT !.shown = Withdraw(u) \cup S]
  /\ UNCHANGED <<now, redis, tickets, jwts, blacklist, logins>>

\* TOTPEnable with a right code.
TOTPEnable(u) ==
  /\ Request
  /\ acct[u].secret
  /\ acct' = [acct EXCEPT ![u].enabled = TRUE]
  /\ UNCHANGED <<now, redis, tickets, jwts, blacklist, logins, hist>>

\* TOTPDisable and AdminDisable2FA clear every column of the factor.
Disable(u) ==
  /\ acct' = [acct EXCEPT ![u] = NewAcct]
  /\ hist' = [hist EXCEPT !.shown = Withdraw(u), !.wrong[u] = 0]
  /\ UNCHANGED <<now, redis, tickets, jwts, blacklist, logins>>

TOTPDisable(u) == Request /\ acct[u].enabled /\ Disable(u)
AdminDisable2FA(u) == Request /\ acct[u] # NewAcct /\ Disable(u)

\* RegenerateBackupCodes stores the new codes as they are.
RegenerateBackupCodes(u) ==
  /\ Request
  /\ acct[u].enabled
  /\ \E S \in NewCodes :
       /\ acct' = [acct EXCEPT ![u].hashed = {}, ![u].plain = S]
       /\ hist' = [hist EXCEPT !.shown = Withdraw(u) \cup S]
  /\ UNCHANGED <<now, redis, tickets, jwts, blacklist, logins>>

----------------------------------------------------------------------------
\* TOTPLogin.  The ticket is looked up and removed; whom it was issued to is compared after.
Live(t) == tickets[t].user # None /\ now <= tickets[t].expires
Judged(t, h) == [h EXCEPT !.judged[t] = @ + 1]
At(w, step) == logins[w].step = step
Go(w, step) == logins' = [logins EXCEPT ![w].step = step]
Stop(w) == logins' = [logins EXCEPT ![w] = Idle]
Begin(w, u, t, a, step, found) ==
  logins' = [logins EXCEPT ![w] = [step |-> step, user |-> u, ticket |-> t, answer |-> a,
                                   found |-> found, copy |-> NewAcct]]

\* Seeded bug: the ticket stays in the map.
BugConsumeInMemory(w, u, t, a) ==
  /\ ~redis
  /\ UNCHANGED tickets
  /\ IF Live(t) /\ tickets[t].user = u
     THEN Begin(w, u, t, a, "read", u) /\ hist' = Judged(t, hist)
     ELSE UNCHANGED <<logins, hist>>

\* Without Redis the lookup and the removal are one critical section.
ConsumeInMemory(w, u, t, a) ==
  /\ ~redis
  /\ tickets' = [tickets EXCEPT ![t] = Unissued]
  /\ IF Live(t) /\ tickets[t].user = u
     THEN Begin(w, u, t, a, "read", u) /\ hist' = Judged(t, hist)
     ELSE UNCHANGED <<logins, hist>>

\* With Redis a GET and a DEL.
ConsumeGet(w, u, t, a) ==
  /\ redis /\ Live(t)
  /\ Begin(w, u, t, a, "del", tickets[t].user)
  /\ UNCHANGED <<tickets, hist>>

ConsumePreAuthTicket(w, u, t, a) ==
  /\ Request /\ At(w, "idle") /\ tickets[t] # Unissued
  /\ ConsumeInMemory(w, u, t, a) \/ ConsumeGet(w, u, t, a)
  /\ UNCHANGED <<now, redis, acct, jwts, blacklist>>

ConsumeDel(w) ==
  LET l == logins[w] IN
  /\ At(w, "del")
  /\ tickets' = [tickets EXCEPT ![l.ticket] = Unissued]
  /\ IF l.found = l.user THEN Go(w, "read") /\ hist' = Judged(l.ticket, hist)
                         ELSE Stop(w) /\ UNCHANGED hist
  /\ UNCHANGED <<now, redis, acct, jwts, blacklist, starts>>

ReadUser(w) ==
  /\ At(w, "read")
  /\ logins' = [logins EXCEPT ![w].step = "checkLock", ![w].copy = acct[logins[w].user]]
  /\ UNCHANGED <<now, redis, stores, hist, starts>>

\* A lock that has run out is cleared in the row and in the copy.
Accepts(l) == \/ l.answer = "totp" /\ l.copy.secret
              \/ l.answer \in l.copy.hashed
Outcome(l) == IF l.answer \in Codes /\ Accepts(l) THEN "spend" ELSE IF Accepts(l) THEN "finish" ELSE "fail"
Raced(u, l) == IF acct[u] # l.copy THEN hist.raced \cup {u} ELSE hist.raced
Cleared(u, l) == [hist EXCEPT !.wrong[u] = 0, !.raced = Raced(u, l)]

LockHolds(a) == a.lockedAt > 0 /\ now < a.lockedAt + LockTime

CheckLock(w) ==
  LET l == logins[w]  u == l.user IN
  /\ At(w, "checkLock")
  /\ \/ LockHolds(l.copy) /\ Stop(w) /\ UNCHANGED <<acct, hist>>
     \/ /\ l.copy.lockedAt > 0 /\ ~LockHolds(l.copy)
        /\ acct' = [acct EXCEPT ![u].fails = 0, ![u].lockedAt = 0]
        /\ hist' = Cleared(u, l)
        /\ logins' = [logins EXCEPT ![w].step = Outcome(l), ![w].copy.fails = 0, ![w].copy.lockedAt = 0]
     \/ l.copy.lockedAt = 0 /\ Go(w, Outcome(l)) /\ UNCHANGED <<acct, hist>>
  /\ UNCHANGED <<now, redis, tickets, jwts, blacklist, starts>>

\* The backup codes of the copy, without the one used, are written back.
SpendBackupCode(w) ==
  LET l == logins[w]  u == l.user IN
  /\ At(w, "spend")
  /\ acct' = [acct EXCEPT ![u].hashed = l.copy.hashed \ {l.answer}, ![u].plain = l.copy.plain]
  /\ hist' = [hist EXCEPT !.spent[l.answer] = @ + 1, !.shown = @ \ {l.answer}, !.raced = Raced(u, l)]
  /\ logins' = [logins EXCEPT ![w].step = "finish", ![w].copy.hashed = @ \ {l.answer}]
  /\ UNCHANGED <<now, redis, tickets, jwts, blacklist, starts>>

\* A wrong answer counts from the copy, and locks the account when the count reaches the limit.
FailedAttempt(w) ==
  LET l == logins[w]  u == l.user  n == l.copy.fails + 1 IN
  /\ At(w, "fail")
  /\ acct' = [acct EXCEPT ![u].fails = n, ![u].lockedAt = IF n >= MaxFails THEN now ELSE @]
  /\ hist' = [hist EXCEPT !.wrong[u] = @ + 1, !.raced = Raced(u, l)]
  /\ Stop(w)
  /\ UNCHANGED <<now, redis, tickets, jwts, blacklist, starts>>

\* A right one clears the count and the lock and issues a token.
FinishLogin(w) ==
  LET l == logins[w]  u == l.user IN
  /\ At(w, "finish")
  /\ acct' = [acct EXCEPT ![u].fails = 0, ![u].lockedAt = 0]
  /\ hist' = Cleared(u, l)
  /\ GenerateToken(u)
  /\ Stop(w)
  /\ UNCHANGED <<now, redis, tickets, blacklist, starts>>

----------------------------------------------------------------------------
ValidJwt(j) == jwts[j].user # None /\ now <= jwts[j].expires

\* Logout by a token the middleware has let in: BlacklistToken records it until it expires.
BlacklistToken(j) == IF now < jwts[j].expires THEN blacklist \cup {j} ELSE blacklist

\* AuthMiddleware.  An error of Redis counts as "not on the blacklist".
IsTokenBlacklisted(j, outage) == j \in blacklist /\ ~outage

Logout(j) ==
  /\ Request
  /\ ValidJwt(j) /\ ~IsTokenBlacklisted(j, FALSE) /\ now < jwts[j].expires
  /\ blacklist' = BlacklistToken(j)
  /\ hist' = [hist EXCEPT !.out = @ \cup {j}]
  /\ UNCHANGED <<now, redis, acct, tickets, jwts, logins>>

AuthMiddleware(j, outage) ==
  /\ Request
  /\ outage => redis
  /\ ValidJwt(j) /\ ~IsTokenBlacklisted(j, outage)
  /\ hist' = [hist EXCEPT !.returned = IF j \in hist.out THEN @ \cup {j} ELSE @,
                          !.lost = @ \/ (outage /\ j \in blacklist)]
  /\ UNCHANGED <<now, redis, stores, logins>>

\* A restart empties the maps of the process and ends the requests in progress; the key that
\* signs the tokens is kept in a file.
Restart ==
  /\ Request
  /\ tickets' = IF redis THEN tickets ELSE [t \in Tickets |-> Unissued]
  /\ blacklist' = IF redis THEN blacklist ELSE {}
  /\ hist' = [hist EXCEPT !.lost = @ \/ (~redis /\ blacklist # {})]
  /\ logins' = [w \in Workers |-> Idle]
  /\ UNCHANGED <<now, redis, acct, jwts>>

Tick ==
  /\ now < MaxClock
  /\ now' = now + 1
  /\ UNCHANGED <<redis, stores, logins, hist, starts>>

LoginStep(w) ==
  \/ ConsumeDel(w) \/ ReadUser(w) \/ CheckLock(w) \/ SpendBackupCode(w)
  \/ FailedAttempt(w) \/ FinishLogin(w)

Next ==
  \/ \E u \in Users :
       \/ UserLogin(u) \/ TOTPSetup(u) \/ TOTPEnable(u) \/ TOTPDisable(u)
       \/ AdminDisable2FA(u) \/ RegenerateBackupCodes(u)
       \/ \E w \in Workers, t \in Tickets, a \in Answers : ConsumePreAuthTicket(w, u, t, a)
  \/ \E w \in Workers : LoginStep(w)
  \/ \E j \in Jwts : Logout(j) \/ \E outage \in BOOLEAN : AuthMiddleware(j, outage)
  \/ Restart \/ Tick

Spec == Init /\ [][Next]_vars
----------------------------------------------------------------------------
\* A ticket is judged at most once (ConsumePreAuthTicket's "one-time" use) unless
\* Redis is used, where two requests may GET it before either DELs it, and a backup code is
\* accepted at most once unless a login of its user wrote from a row that had changed since.
UsedOnce ==
  /\ \A t \in Tickets : hist.judged[t] > 1 => redis
  /\ \A c \in Codes : hist.spent[c] > 1 => hist.raced # {}

\* As long as the logins of a user do not overlap with each other or with a change of the factor,
\* the row counts exactly the wrong answers since the last right one (TOTPLogin), and no more
\* than MaxFails of them are heard before the lock.
LockCounts ==
  \A u \in Users \ hist.raced :
    /\ acct[u].fails = hist.wrong[u] /\ hist.wrong[u] <= MaxFails
    /\ hist.wrong[u] = MaxFails => acct[u].lockedAt > 0

\* A token that has logged out is let in again only if the process restarted without Redis or
\* Redis could not be asked (Logout, IsTokenBlacklisted).
LoggedOutStaysOut == hist.returned # {} => hist.lost

\* What signing in with a second factor and signing out keep to: tickets and codes serve once,
\* wrong answers are counted, and a token that was given up stays so.
SecondFactorInv == TypeOK /\ UsedOnce /\ LockCounts /\ LoggedOutStaysOut
=============================================================================
