------------------------------ MODULE Passkeys ------------------------------
(***************************************************************************)
(* Passkeys (controller/passkey.go, controller/user_passkey.go): the       *)
(* ceremonies that register a passkey, sign in with it or verify a user    *)
(* with it, the sessions that join the two requests of a ceremony          *)
(* (service/passkey/session.go), and the table of credentials              *)
(* (model/passkey.go), at most one per user.                               *)
(*                                                                         *)
(* A ceremony's second request takes its session away, reads the           *)
(* credential and writes it back with the authenticator's new counter, so  *)
(* that a removal or a new registration may come in between.  The checks   *)
(* of the WebAuthn library are modelled by what they compare.              *)
(***************************************************************************)
EXTENDS Integers

CONSTANTS
  Users, Workers,
  Sessions,     \* ceremony sessions that may be started
  Creds,        \* credentials authenticators may create
  SessionTTL,   \* 3 minutes
  MaxClock, MaxStarts,     \* bounds of the model
  None                     \* not a user, a credential or a session

VARIABLES
  now,         \* the clock
  redis,       \* is Redis configured
  sessions,    \* sessionStore, or the passkey: keys
  passkeys,    \* passkey_credentials: a row per user
  active,      \* the users whose status is active
  ceremonies,  \* the Finish requests in progress, one per worker
  device,      \* the counter of each authenticator
  pkHist,      \* what happened: see PkHist
  starts       \* requests made so far

vars == <<now, redis, sessions, passkeys, active, ceremonies, device, pkHist, starts>>

Kinds == {"register", "login", "verify"}
Session == [kind : Kinds \cup {"none"}, user : Users \cup {None}, cred : Creds \cup {None}, expires : Int]
NoSession == [kind |-> "none", user |-> None, cred |-> None, expires |-> 0]
Row == [cred : Creds \cup {None}, count : Nat]
NoRow == [cred |-> None, count |-> 0]
Steps == {"idle", "del", "read", "upsert"}
Ceremony == [step : Steps, kind : Kinds, user : Users \cup {None}, session : Sessions \cup {None},
             data : Session, cred : Creds \cup {None}, count : Nat]
Idle == [step |-> "idle", kind |-> "login", user |-> None, session |-> None,
         data |-> NoSession, cred |-> None, count |-> 0]

\* uses: Finish requests a session served; meant: the row each user was last given or left
\* without, and the highest counter accepted since; raced: users of whom a row was written or
\* removed while another ceremony was about to write it
PkHist == [uses : [Sessions -> Nat], meant : [Users -> Row], raced : SUBSET Users]

TypeOK ==
  /\ now \in Nat /\ redis \in BOOLEAN /\ starts \in Nat
  /\ sessions \in [Sessions -> Session] /\ passkeys \in [Users -> Row] /\ active \subseteq Users
  /\ ceremonies \in [Workers -> Ceremony] /\ device \in [Creds -> Nat] /\ pkHist \in PkHist

Init ==
  /\ now = 1 /\ redis \in BOOLEAN /\ starts = 0
  /\ sessions = [s \in Sessions |-> NoSession]
  /\ passkeys = [u \in Users |-> NoRow]
  /\ active = Users
  /\ ceremonies = [w \in Workers |-> Idle]
  /\ device = [c \in Creds |-> 0]
  /\ pkHist = [uses |-> [s \in Sessions |-> 0], meant |-> [u \in Users |-> NoRow], raced |-> {}]

----------------------------------------------------------------------------
Request == starts < MaxStarts /\ starts' = starts + 1
At(w, step) == ceremonies[w].step = step
Writing(u) == {w \in Workers : At(w, "upsert") /\ ceremonies[w].user = u}
Owner(c) == {u \in Users : passkeys[u].cred = c}
FreshSessions == {s \in Sessions : sessions[s] = NoSession /\ pkHist.uses[s] = 0
                                   /\ \A w \in Workers : ~At(w, "idle") => ceremonies[w].session # s}
FreshCreds == {c \in Creds : Owner(c) = {} /\ device[c] = 0 /\ \A w \in Workers : ceremonies[w].cred # c}

\* saveSession: a fresh id under the prefix of its kind, which expires after SessionTTL.
saveSession(kind, u, c) ==
  \E s \in FreshSessions :
    sessions' = [sessions EXCEPT ![s] = [kind |-> kind, user |-> u, cred |-> c, expires |-> now + SessionTTL]]

Begun == Request /\ UNCHANGED <<now, redis, passkeys, active, ceremonies, device, pkHist>>
PasskeyRegisterBegin(u) == Begun /\ saveSession("register", u, None)
PasskeyLoginBegin == Begun /\ saveSession("login", None, None)
\* The session of a verification names the credential it allows.
PasskeyVerifyBegin(u) == Begun /\ passkeys[u].cred # None /\ saveSession("verify", u, passkeys[u].cred)

\* popSession: expired or of another kind is as good as missing.
Live(s, kind) == sessions[s].kind = kind /\ now <= sessions[s].expires
Used(s) == [pkHist EXCEPT !.uses[s] = @ + 1]
\* FinishRegistration: the session must be the user's own.  The other kinds are judged later.
Popped(x) == IF x.kind = "register" /\ x.data.user # x.user THEN Idle
             ELSE [x EXCEPT !.step = IF x.kind = "register" THEN "upsert" ELSE "read"]

\* Seeded bug: the session stays in the map.
BugPopInMemory(w, x) ==
  /\ ~redis /\ UNCHANGED sessions
  /\ ceremonies' = [ceremonies EXCEPT ![w] = Popped(x)]
  /\ pkHist' = Used(x.session)

PopInMemory(w, x) ==
  /\ ~redis /\ sessions' = [sessions EXCEPT ![x.session] = NoSession]
  /\ ceremonies' = [ceremonies EXCEPT ![w] = Popped(x)]
  /\ pkHist' = Used(x.session)

PopGet(w, x) ==
  /\ redis
  /\ ceremonies' = [ceremonies EXCEPT ![w] = x]
  /\ UNCHANGED <<sessions, pkHist>>

\* A Finish request: u answers session s with credential c, whose authenticator counts the use.
Finish(w, kind, u, s, c) ==
  /\ Request /\ At(w, "idle") /\ Live(s, kind)
  /\ device' = [device EXCEPT ![c] = IF kind = "register" THEN @ ELSE @ + 1]
  /\ LET x == [step |-> "del", kind |-> kind, user |-> u, session |-> s,
               data |-> sessions[s], cred |-> c, count |-> device'[c]] IN
     PopInMemory(w, x) \/ PopGet(w, x)
  /\ UNCHANGED <<now, redis, passkeys, active>>

\* A credential somebody registered, or has used.
Known(c) == ~(device[c] = 0 /\ Owner(c) = {})
PasskeyRegisterFinish(w, u, s) == \E c \in FreshCreds : Finish(w, "register", u, s, c)
PasskeyLoginFinish(w, s, c) == Known(c) /\ Finish(w, "login", None, s, c)
PasskeyVerifyFinish(w, u, s, c) == Known(c) /\ Finish(w, "verify", u, s, c)

PopDel(w) ==
  LET x == ceremonies[w] IN
  /\ At(w, "del")
  /\ sessions' = [sessions EXCEPT ![x.session] = NoSession]
  /\ ceremonies' = [ceremonies EXCEPT ![w] = Popped(x)]
  /\ pkHist' = Used(x.session)
  /\ UNCHANGED <<now, redis, passkeys, active, device, starts>>

\* UpdateCounter: a counter that has not grown is kept as it was, with a warning.
Counted(x, row) == IF x.count > row.count THEN x.count ELSE row.count
Reads(w, u) ==
  ceremonies' = [ceremonies EXCEPT ![w].step = "upsert", ![w].user = u, ![w].count = Counted(ceremonies[w], passkeys[u])]
Drop(w) == ceremonies' = [ceremonies EXCEPT ![w] = Idle]

\* The handler of FinishPasskeyLogin: the row of the credential, whose user must be active.
GetPasskeyByCredentialID(w) ==
  LET x == ceremonies[w] IN
  /\ At(w, "read") /\ x.kind = "login"
  /\ \/ \E u \in Owner(x.cred) \cap active : Reads(w, u)
     \/ Owner(x.cred) \cap active = {} /\ Drop(w)
  /\ UNCHANGED <<now, redis, sessions, passkeys, active, device, pkHist, starts>>

\* PasskeyVerifyFinish: the row of the user, which must be the one the session allowed and the
\* authenticator signed for.
GetPasskeyByUserID(w) ==
  LET x == ceremonies[w]  row == passkeys[x.user] IN
  /\ At(w, "read") /\ x.kind = "verify"
  /\ IF x.data.user = x.user /\ row.cred = x.cred /\ x.data.cred = x.cred THEN Reads(w, x.user) ELSE Drop(w)
  /\ UNCHANGED <<now, redis, sessions, passkeys, active, device, pkHist, starts>>

Touch(u, h, others) == IF others = {} THEN h ELSE [h EXCEPT !.raced = @ \cup {u}]

\* UpsertPasskeyCredential deletes the user's row and creates the new one in a transaction.
UpsertPasskeyCredential(w) ==
  LET x == ceremonies[w]  u == x.user  row == [cred |-> x.cred, count |-> x.count]  meant == pkHist.meant[u] IN
  /\ At(w, "upsert")
  /\ passkeys' = [passkeys EXCEPT ![u] = row]
  /\ pkHist' = Touch(u, [pkHist EXCEPT !.meant[u] =
                           IF x.kind = "register" THEN row
                           ELSE [cred |-> meant.cred, count |-> Counted(x, meant)]], Writing(u) \ {w})
  /\ Drop(w)
  /\ UNCHANGED <<now, redis, sessions, active, device, starts>>

\* The row goes, whoever is between its read and its write.
DeletePasskeyByUserID(u) ==
  /\ passkeys' = [passkeys EXCEPT ![u] = NoRow]
  /\ pkHist' = Touch(u, [pkHist EXCEPT !.meant[u] = NoRow], Writing(u))
  /\ UNCHANGED <<now, redis, sessions, active, ceremonies, device>>

PasskeyDelete(u) == Request /\ DeletePasskeyByUserID(u)
AdminResetPasskey(u) == Request /\ DeletePasskeyByUserID(u)

\* An administrator disables or enables the account.
ToggleStatus(u) ==
  /\ Request
  /\ active' = IF u \in active THEN active \ {u} ELSE active \cup {u}
  /\ UNCHANGED <<now, redis, sessions, passkeys, ceremonies, device, pkHist>>

Restart ==
  /\ Request
  /\ sessions' = IF redis THEN sessions ELSE [s \in Sessions |-> NoSession]
  /\ ceremonies' = [w \in Workers |-> Idle]
  /\ UNCHANGED <<now, redis, passkeys, active, device, pkHist>>

Tick ==
  /\ now < MaxClock
  /\ now' = now + 1
  /\ UNCHANGED <<redis, sessions, passkeys, active, ceremonies, device, pkHist, starts>>

Next ==
  \/ PasskeyLoginBegin \/ Restart \/ Tick
  \/ \E u \in Users :
       \/ PasskeyRegisterBegin(u) \/ PasskeyVerifyBegin(u) \/ PasskeyDelete(u) \/ AdminResetPasskey(u) \/ ToggleStatus(u)
       \/ \E w \in Workers, s \in Sessions :
            \/ PasskeyRegisterFinish(w, u, s)
            \/ \E c \in Creds : PasskeyVerifyFinish(w, u, s, c)
  \/ \E w \in Workers :
       \/ PopDel(w) \/ GetPasskeyByCredentialID(w) \/ GetPasskeyByUserID(w) \/ UpsertPasskeyCredential(w)
       \/ \E s \in Sessions, c \in Creds : PasskeyLoginFinish(w, s, c)

Spec == Init /\ [][Next]_vars
----------------------------------------------------------------------------
\* No credential is in two users' rows, and the session of a ceremony serves one
\* Finish request (popSession), or several with Redis, where requests may GET it before a DEL.
SessionsServeOnce ==
  /\ \A u, v \in Users : passkeys[u].cred = passkeys[v].cred /\ passkeys[u].cred # None => u = v
  /\ \A s \in Sessions : pkHist.uses[s] > 1 => redis

\* A user has the passkey registered last, or none after a removal, with the highest counter
\* accepted, unless the row was written or removed while another ceremony of the user was
\* between its read and its UpsertPasskeyCredential, which then puts back what it had read.
PasskeyAsMeant == \A u \in Users \ pkHist.raced : passkeys[u] = pkHist.meant[u]

\* What registering, using and removing a passkey keep to.
PasskeyInv == TypeOK /\ SessionsServeOnce /\ PasskeyAsMeant
=============================================================================
