---------------------------- MODULE OAuthSignIn -----------------------------
(***************************************************************************)
(* Signing in with an account elsewhere (controller/oauth/*.go): the state *)
(* tokens that tie a callback to a login (helpers.go generateState,        *)
(* verifyState), the callbacks of the six providers, finding or creating   *)
(* the user (createOAuthUser), registrations that wait for an invitation   *)
(* code (completeOAuthRegistration), the cached OIDC discovery document    *)
(* and binding Telegram to a signed-in user.                               *)
(*                                                                         *)
(* Only the user name is unique in the table of users; the columns that    *)
(* hold the identity at a provider are not.  GitHub, LinuxDO, Discord,     *)
(* OIDC and Telegram names are made from the identity, WeChat names from   *)
(* the highest id of the table at the time of the callback.                *)
(***************************************************************************)
EXTENDS Integers, Sequences, FiniteSets

CONSTANTS
  Workers,
  People,          \* each has one identity at every provider
  States,          \* state tokens that may be generated
  Pendings,        \* pending registrations that may be stored
  Invites,         \* invitation codes
  MaxUses,         \* how often each may be used
  StateTTL, PendingTTL, DiscoveryTTL,
  MinTrust,        \* LinuxDOMinTrustLevel
  MaxClock, MaxStarts,     \* bounds of the model
  None                     \* not a worker, a person, a token, a session, an invitation

VARIABLES
  now, redis,
  options,      \* RegisterEnabled and the option invitation_enabled
  oauthStates,  \* stateStore, or the oauth_state: keys: when each expires, 0 for none
  users,        \* the table of users, by id
  pending,      \* pendingOAuthSessions
  invites,      \* the table of invitations
  discovery,    \* cachedDiscoveryExpiry and who holds discoveryMutex for writing
  signIns,      \* requests in progress, one per worker
  signHist,     \* what happened: see SignHist
  starts

vars == <<now, redis, options, oauthStates, users, pending, invites, discovery, signIns, signHist, starts>>

Providers == {"github", "linuxdo", "discord", "oidc", "telegram", "wechat"}
Identity == [provider : Providers, person : People]
Name == [from : Providers, who : People \cup {None}, n : Nat]
NamedUser == [name : Name, ids : SUBSET Identity, active : BOOLEAN,
              level : Nat, invite : Invites \cup {None}]
Pending == [user : NamedUser, expires : Nat]
Steps == {"idle", "del", "discover", "lock", "fetch", "maxId", "find", "create", "sync", "bind",
          "invite", "transaction", "drop"}
NoUser == [name |-> [from |-> "github", who |-> None, n |-> 0], ids |-> {}, active |-> FALSE, level |-> 0, invite |-> None]
Idle == [step |-> "idle", id |-> [provider |-> "github", person |-> None], state |-> None, level |-> 0, maxId |-> 0, row |-> 0,
         session |-> None, user |-> NoUser, invite |-> None, used |-> 0]

\* passed: callbacks each state token let through; raced: identities a row or a waiting
\* registration was made for while another sign-in, binding or waiting registration for it was
\* under way; refetched: a discovery document was fetched while a fresh one was cached
SignHist == [passed : [States -> Nat], raced : SUBSET Identity, refetched : BOOLEAN]

At(w, step) == signIns[w].step = step

TypeOK ==
  /\ now \in Nat /\ redis \in BOOLEAN /\ starts \in Nat
  /\ options \in [register : BOOLEAN, invitation : BOOLEAN]
  /\ oauthStates \in [States -> Nat] /\ users \in Seq(NamedUser)
  /\ DOMAIN pending \subseteq Pendings /\ \A p \in DOMAIN pending : pending[p] \in Pending
  /\ invites \in [Invites -> [used : Nat, open : BOOLEAN]]
  /\ discovery \in [expires : Nat, holder : Workers \cup {None}]
  /\ \A w \in Workers : signIns[w].step \in Steps /\ (~At(w, "idle") => signIns[w].id \in Identity)
  /\ signHist \in SignHist

\* State tokens may have been handed out already.
Init ==
  /\ now = 1 /\ redis \in BOOLEAN /\ starts = 0
  /\ options \in [register : {TRUE}, invitation : BOOLEAN]
  /\ \E t \in {0, now + StateTTL} : oauthStates = [s \in States |-> t]
  /\ users = <<>> /\ pending = <<>>
  /\ invites = [i \in Invites |-> [used |-> 0, open |-> TRUE]]
  /\ discovery = [expires |-> 0, holder |-> None]
  /\ signIns = [w \in Workers |-> Idle]
  /\ signHist = [passed |-> [s \in States |-> 0], raced |-> {}, refetched |-> FALSE]

----------------------------------------------------------------------------
Request == starts < MaxStarts /\ starts' = starts + 1
Go(w, step) == signIns' = [signIns EXCEPT ![w].step = step]
Stop(w) == signIns' = [signIns EXCEPT ![w] = Idle]
table == <<users, pending, invites>>

\* The Login handlers and GenerateOAuthCode: a fresh state token.
generateState ==
  /\ Request
  /\ \E s \in States :
       /\ oauthStates[s] = 0 /\ signHist.passed[s] = 0 /\ \A w \in Workers : At(w, "idle") \/ signIns[w].state # s
       /\ oauthStates' = [oauthStates EXCEPT ![s] = now + StateTTL]
  /\ UNCHANGED <<now, redis, options, table, discovery, signIns, signHist>>

LoadAndDelete(s) == oauthStates' = [oauthStates EXCEPT ![s] = 0]

\* After the state token: OIDC needs its discovery document, WeChat asks for the highest id.
Verified(p) == CASE p = "oidc" -> "discover" [] p = "wechat" -> "maxId" [] OTHER -> "find"
Pass(s) == [signHist EXCEPT !.passed[s] = @ + 1]

\* verifyState in memory is one step; with Redis a GET and a DEL.
verifyState(w, s, x) ==
  /\ oauthStates[s] # 0
  /\ \/ /\ ~redis /\ LoadAndDelete(s)
        /\ IF now < oauthStates[s]
           THEN signIns' = [signIns EXCEPT ![w] = [x EXCEPT !.step = Verified(x.id.provider)]] /\ signHist' = Pass(s)
           ELSE UNCHANGED <<signIns, signHist>>
     \/ /\ redis /\ now < oauthStates[s]
        /\ signIns' = [signIns EXCEPT ![w] = [x EXCEPT !.step = "del"]]
        /\ UNCHANGED <<oauthStates, signHist>>

DelState(w) ==
  /\ At(w, "del")
  /\ oauthStates' = [oauthStates EXCEPT ![signIns[w].state] = 0]
  /\ Go(w, Verified(signIns[w].id.provider))
  /\ signHist' = Pass(signIns[w].state)
  /\ UNCHANGED <<now, redis, options, table, discovery, starts>>

\* A callback of person q, whom the provider has let sign in.  What the provider answers
\* between the state token and createOAuthUser changes nothing here, or ends the request.
Callback(w, p, q, s, level) ==
  /\ Request /\ At(w, "idle")
  /\ verifyState(w, s, [Idle EXCEPT !.id = [provider |-> p, person |-> q], !.state = s, !.level = level])
  /\ UNCHANGED <<now, redis, options, table, discovery>>

GitHubCallback(w, q, s) == Callback(w, "github", q, s, 0)
DiscordCallback(w, q, s) == Callback(w, "discord", q, s, 0)
OIDCCallback(w, q, s) == Callback(w, "oidc", q, s, 0)
WechatCallback(w, q, s) == Callback(w, "wechat", q, s, 0)
\* A trust level below the minimum ends the request after the state token is spent.
LinuxDOCallback(w, q, s, level) == level >= MinTrust /\ Callback(w, "linuxdo", q, s, level)

\* Telegram signs its parameters; there is no state token.
TelegramCallback(w, q) ==
  /\ Request /\ At(w, "idle")
  /\ signIns' = [signIns EXCEPT ![w] = [Idle EXCEPT !.step = "find", !.id = [provider |-> "telegram", person |-> q]]]
  /\ UNCHANGED <<now, redis, options, oauthStates, table, discovery, signHist>>

----------------------------------------------------------------------------
Fresh == now < discovery.expires

\* fetchOIDCDiscovery: a fresh document under the read lock, otherwise the write lock, ...
fetchOIDCDiscovery(w) ==
  /\ At(w, "discover") /\ discovery.holder = None
  /\ Go(w, IF Fresh THEN "find" ELSE "lock")
  /\ UNCHANGED <<now, redis, options, oauthStates, table, discovery, signHist, starts>>

\* ... under which another request may have cached one in the meantime.
LockDiscovery(w) ==
  /\ At(w, "lock") /\ discovery.holder = None
  /\ IF Fresh THEN Go(w, "find") /\ UNCHANGED discovery
              ELSE Go(w, "fetch") /\ discovery' = [discovery EXCEPT !.holder = w]
  /\ UNCHANGED <<now, redis, options, oauthStates, table, signHist, starts>>

\* The holder of the write lock has its answer, or an error, which ends the request.
Fetched(w) ==
  /\ At(w, "fetch")
  /\ \/ /\ discovery' = [expires |-> now + DiscoveryTTL, holder |-> None]
        /\ signHist' = [signHist EXCEPT !.refetched = @ \/ Fresh]
        /\ Go(w, "find")
     \/ discovery' = [discovery EXCEPT !.holder = None] /\ Stop(w) /\ UNCHANGED signHist
  /\ UNCHANGED <<now, redis, options, oauthStates, table, starts>>

MaxId(w) ==
  /\ At(w, "maxId")
  /\ signIns' = [signIns EXCEPT ![w].step = "find", ![w].maxId = Len(users)]
  /\ UNCHANGED <<now, redis, options, oauthStates, table, discovery, signHist, starts>>

Rows(d) == {i \in DOMAIN users : d \in users[i].ids}
First(S) == CHOOSE i \in S : \A j \in S : i <= j
\* Is identity d also the business of another request or of a waiting registration but p?
Busy(w, d, p) == \/ \E v \in Workers \ {w} : ~At(v, "idle") /\ signIns[v].id = d
                 \/ \E q \in DOMAIN pending \ {p} : d \in pending[q].user.ids
Mark(w, d, p) == IF Busy(w, d, p) THEN [signHist EXCEPT !.raced = @ \cup {d}] ELSE signHist

\* Seeded bug: every name is made like WeChat's.
BugbuildUser(x) ==
  [name |-> [from |-> x.id.provider, who |-> None, n |-> x.maxId + Len(users) + 1],
   ids |-> {x.id}, active |-> TRUE, level |-> x.level, invite |-> None]

\* The skeleton each callback builds; the quota is overwritten by the reward for new users.
buildUser(x) ==
  [name |-> IF x.id.provider = "wechat" THEN [from |-> "wechat", who |-> None, n |-> x.maxId + 1]
            ELSE [from |-> x.id.provider, who |-> x.id.person, n |-> 0],
   ids |-> {x.id}, active |-> TRUE, level |-> x.level, invite |-> None]

\* createOAuthUser, its SELECT: closed registration refuses everyone, a banned user is refused,
\* a known one is signed in, a new one is created or waits for an invitation code.
createOAuthUser(w) ==
  LET x == signIns[w]  rows == Rows(x.id) IN
  /\ At(w, "find")
  /\ \/ ~options.register /\ Stop(w) /\ UNCHANGED <<pending, signHist>>
     \/ /\ options.register /\ rows # {}
        /\ IF x.id.provider = "linuxdo" /\ users[First(rows)].active
           THEN signIns' = [signIns EXCEPT ![w].step = "sync", ![w].row = First(rows)] ELSE Stop(w)
        /\ UNCHANGED <<pending, signHist>>
     \/ /\ options.register /\ rows = {} /\ ~options.invitation
        /\ signIns' = [signIns EXCEPT ![w].step = "create", ![w].user = buildUser(x)]
        /\ UNCHANGED <<pending, signHist>>
     \/ /\ options.register /\ rows = {} /\ options.invitation
        /\ \E p \in Pendings :
             /\ p \notin DOMAIN pending /\ \A v \in Workers : At(v, "idle") \/ signIns[v].session # p \/ v = w
             \* savePendingOAuthSession drops the expired ones first
             /\ pending' = [q \in {r \in DOMAIN pending : now <= pending[r].expires} \cup {p} |->
                              IF q = p THEN [user |-> buildUser(x), expires |-> now + PendingTTL] ELSE pending[q]]
        /\ signHist' = Mark(w, x.id, None)
        /\ Stop(w)
  /\ UNCHANGED <<now, redis, options, oauthStates, users, invites, discovery, starts>>

NameFree(n) == \A i \in DOMAIN users : users[i].name # n

\* Its INSERT, which the unique name may refuse.
CreateUser(w) ==
  LET x == signIns[w] IN
  /\ At(w, "create")
  /\ IF NameFree(x.user.name) THEN users' = Append(users, x.user) /\ signHist' = Mark(w, x.id, None)
                              ELSE UNCHANGED <<users, signHist>>
  /\ Stop(w)
  /\ UNCHANGED <<now, redis, options, oauthStates, pending, invites, discovery, starts>>

\* LinuxDOCallback keeps the trust level of the row up to date.
SyncTrustLevel(w) ==
  /\ At(w, "sync")
  /\ users' = [users EXCEPT ![signIns[w].row].level = signIns[w].level]
  /\ Stop(w)
  /\ UNCHANGED <<now, redis, options, oauthStates, pending, invites, discovery, signHist, starts>>

----------------------------------------------------------------------------
\* completeOAuthRegistration: the session is read, then the invitation, ...
CompleteOAuthRegistration(w, p, i) ==
  /\ Request /\ At(w, "idle") /\ p \in DOMAIN pending /\ now <= pending[p].expires
  /\ LET u == pending[p].user IN
     signIns' = [signIns EXCEPT ![w] = [Idle EXCEPT !.step = "invite", !.session = p, !.user = u,
                                                    !.invite = i, !.id = CHOOSE d \in u.ids : TRUE]]
  /\ UNCHANGED <<now, redis, options, oauthStates, table, discovery, signHist>>

ReadInvitation(w) ==
  LET i == invites[signIns[w].invite] IN
  /\ At(w, "invite")
  /\ IF i.open /\ ~(MaxUses > 0 /\ i.used >= MaxUses)
     THEN signIns' = [signIns EXCEPT ![w].step = "transaction", ![w].used = i.used] ELSE Stop(w)
  /\ UNCHANGED <<now, redis, options, oauthStates, table, discovery, signHist, starts>>

\* ... and in one transaction the user is created and the copy of the invitation saved.
InvitationTransaction(w) ==
  LET x == signIns[w]  n == x.used + 1 IN
  /\ At(w, "transaction")
  /\ IF NameFree(x.user.name)
     THEN /\ users' = Append(users, [x.user EXCEPT !.invite = x.invite])
          /\ invites' = [invites EXCEPT ![x.invite] = [used |-> n, open |-> ~(MaxUses > 0 /\ n >= MaxUses)]]
          /\ signHist' = Mark(w, x.id, x.session)
          /\ Go(w, "drop")
     ELSE Stop(w) /\ UNCHANGED <<users, invites, signHist>>
  /\ UNCHANGED <<now, redis, options, oauthStates, pending, discovery, starts>>

deletePendingOAuthSession(w) ==
  LET x == signIns[w] IN
  /\ At(w, "drop")
  /\ pending' = [p \in DOMAIN pending \ {x.session} |-> pending[p]]
  /\ Stop(w)
  /\ UNCHANGED <<now, redis, options, oauthStates, users, invites, discovery, signHist, starts>>

\* TelegramBind: user i takes the identity of person q unless a COUNT finds it elsewhere, ...
TelegramBind(w, i, q) ==
  LET d == [provider |-> "telegram", person |-> q] IN
  /\ Request /\ At(w, "idle") /\ i \in DOMAIN users /\ Rows(d) \subseteq {i}
  /\ signIns' = [signIns EXCEPT ![w] = [Idle EXCEPT !.step = "bind", !.id = d, !.row = i]]
  /\ UNCHANGED <<now, redis, options, oauthStates, table, discovery, signHist>>

\* ... and an UPDATE sets the column.
BindTelegram(w) ==
  LET x == signIns[w] IN
  /\ At(w, "bind")
  /\ users' = [users EXCEPT ![x.row].ids = {d \in @ : d.provider # "telegram"} \cup {x.id}]
  /\ signHist' = Mark(w, x.id, None)
  /\ Stop(w)
  /\ UNCHANGED <<now, redis, options, oauthStates, pending, invites, discovery, starts>>

\* An administrator opens or closes registration, or bans a user.
SetOptions(o) == Request /\ options' = o
                 /\ UNCHANGED <<now, redis, oauthStates, table, discovery, signIns, signHist>>
BanUser(i) == Request /\ i \in DOMAIN users /\ users' = [users EXCEPT ![i].active = FALSE]
              /\ UNCHANGED <<now, redis, options, oauthStates, pending, invites, discovery, signIns, signHist>>

Restart ==
  /\ Request
  /\ oauthStates' = IF redis THEN oauthStates ELSE [s \in States |-> 0]
  /\ pending' = <<>>
  /\ discovery' = [expires |-> 0, holder |-> None]
  /\ signIns' = [w \in Workers |-> Idle]
  /\ UNCHANGED <<now, redis, options, users, invites, signHist>>

Tick == now < MaxClock /\ now' = now + 1
        /\ UNCHANGED <<redis, options, oauthStates, table, discovery, signIns, signHist, starts>>

Next ==
  \/ generateState \/ Restart \/ Tick
  \/ \E o \in [register : BOOLEAN, invitation : BOOLEAN] : o # options /\ SetOptions(o)
  \/ \E i \in DOMAIN users : BanUser(i)
  \/ \E w \in Workers :
       \/ \E q \in People :
            \/ TelegramCallback(w, q) \/ \E i \in DOMAIN users : TelegramBind(w, i, q)
            \/ \E s \in States :
                 \/ GitHubCallback(w, q, s) \/ DiscordCallback(w, q, s) \/ OIDCCallback(w, q, s)
                 \/ WechatCallback(w, q, s) \/ \E level \in 0..(MinTrust + 1) : LinuxDOCallback(w, q, s, level)
       \/ \E p \in Pendings, i \in Invites : CompleteOAuthRegistration(w, p, i)
       \/ DelState(w) \/ fetchOIDCDiscovery(w) \/ LockDiscovery(w) \/ Fetched(w) \/ MaxId(w) \/ createOAuthUser(w) \/ CreateUser(w)
       \/ SyncTrustLevel(w) \/ ReadInvitation(w) \/ InvitationTransaction(w) \/ deletePendingOAuthSession(w)
       \/ BindTelegram(w)

Spec == Init /\ [][Next]_vars
----------------------------------------------------------------------------
\* A state token lets one callback through (verifyState), or several with Redis,
\* and the discovery document is never fetched while a fresh one is cached.
StatesServeOnce ==
  /\ \A s \in States : signHist.passed[s] > 1 => redis
  /\ ~signHist.refetched

\* Two rows share an identity only at WeChat or Telegram, where the unique name does not imply
\* it, and only if two sign-ins, bindings or waiting registrations of it were under way at once
\* (createOAuthUser, completeOAuthRegistration, TelegramBind).
OneUserPerIdentity ==
  \A i, j \in DOMAIN users : \A d \in users[i].ids \cap users[j].ids :
    i # j => d.provider \in {"wechat", "telegram"} /\ d \in signHist.raced

\* What signing in through a provider keeps to.
SignInInv == TypeOK /\ StatesServeOnce /\ OneUserPerIdentity
=============================================================================
