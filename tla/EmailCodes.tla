----------------------------- MODULE EmailCodes -----------------------------
(***************************************************************************)
(* The codes sent by e-mail: to reset a password (controller/              *)
(* password_reset.go and its older twin in controller/system_utils.go) and *)
(* to prove an address (controller/email_verify.go).  The model follows    *)
(* one address; addresses do not influence each other.                     *)
(*                                                                         *)
(* With Redis the newer routes keep the code, its count of tries and the   *)
(* count of requests under three keys.  Otherwise the code is an object a  *)
(* map points at, and requests that hold the pointer change and store it   *)
(* again after the lock that guarded the map was released.  The older      *)
(* routes always use the map.                                              *)
(***************************************************************************)
EXTENDS Integers, Sequences, FiniteSets

CONSTANTS
  Workers,
  Codes,       \* codes that may be sent: each stands for the object that holds it
  MaxTry,      \* resetCodeMaxTry: 5
  MaxSends,    \* requests per hour: resetMaxAttempts 3, and 5 for address codes
  CodeTTL, Hour,
  MaxClock, MaxStarts,   \* bounds of the model
  None                 \* not a code

VARIABLES
  now, redis,
  slot,      \* the current code: in resetCodes ("mem"), its key ("redis"), in verifyCodes ("verify")
  codeInfo,  \* per code: when it expires and, in memory, Attempts
  sends,     \* resetAttempts ("mem") and verifyAttempts ("verify"): the times of recent requests
  keys,      \* Redis counters: requests and tries, each with its expiry
  mailing,   \* requests in progress, one per worker
  mailHist,  \* what happened: see MailHist
  starts

vars == <<now, redis, slot, codeInfo, sends, keys, mailing, mailHist, starts>>

Never == MaxClock + CodeTTL + Hour + 1    \* the expiry of a key that has none
Counter == [n : Nat, until : Nat]
Fresh == [n |-> 0, until |-> 0]
SomeCode == Codes \cup {None}
Steps == {"idle", "expireSends", "save", "increment", "writeBack", "expireTries", "judge", "update", "drop"}
Mailing == [step : Steps, store : {"mem", "redis", "verify"}, guess : SomeCode,
            code : SomeCode, held : SomeCode, n : Nat]
Idle == [step |-> "idle", store |-> "mem", guess |-> None, code |-> None,
         held |-> None, n |-> 0]

\* used: times a code was accepted; judged: guesses PasswordResetConfirm compared with a code;
\* carried: codes another request held when they were accepted or deleted,
\* or whose deletion a restart prevented; lost: codes of which a try
\* was not counted, since increments overlapped or counted for a younger code; admitted: when each place that counts requests let one pass; unbounded: a process ended between
\* an INCR and its EXPIRE, or Redis could not be asked
MailHist == [used : [Codes -> Nat], judged : [Codes -> Nat], carried : SUBSET Codes, lost : SUBSET Codes,
             admitted : Seq([store : {"mem", "redis", "verify"}, at : Nat]), unbounded : BOOLEAN]

TypeOK ==
  /\ now \in Nat /\ redis \in BOOLEAN /\ starts \in Nat
  /\ slot \in [{"mem", "redis", "verify"} -> SomeCode]
  /\ codeInfo \in [Codes -> [expires : Nat, tries : Nat]]
  /\ sends \in [{"mem", "verify"} -> Seq(Nat)]
  /\ keys \in [{"sends", "tries"} -> Counter]
  /\ mailing \in [Workers -> Mailing] /\ mailHist \in MailHist

Init ==
  /\ now = 1 /\ redis \in BOOLEAN /\ starts = 0
  /\ slot = [s \in {"mem", "redis", "verify"} |-> None]
  /\ codeInfo = [c \in Codes |-> [expires |-> 0, tries |-> 0]]
  /\ sends = [s \in {"mem", "verify"} |-> <<>>]
  /\ keys = [k \in {"sends", "tries"} |-> Fresh]
  /\ mailing = [w \in Workers |-> Idle]
  /\ mailHist = [used |-> [c \in Codes |-> 0], judged |-> [c \in Codes |-> 0], carried |-> {}, lost |-> {},
                 admitted |-> <<>>, unbounded |-> FALSE]

----------------------------------------------------------------------------
Request == starts < MaxStarts /\ starts' = starts + 1
At(w, step) == mailing[w].step = step
Go(w, step) == mailing' = [mailing EXCEPT ![w].step = step]
Stop(w) == mailing' = [mailing EXCEPT ![w] = Idle]
\* at: the time an older route has noted already, or 0
Enter(w, step, store, at) ==
  mailing' = [mailing EXCEPT ![w] = [Idle EXCEPT !.step = step, !.store = store, !.n = at]]

Unsent == {c \in Codes : codeInfo[c].expires = 0}
Within(times) == SelectSeq(times, LAMBDA t : now - t < Hour)
\* INCR of a key, which starts again from nothing once it has expired.
Incr(k) == IF now < keys[k].until THEN [keys[k] EXCEPT !.n = @ + 1] ELSE [n |-> 1, until |-> Never]

\* The list of times kept by checkResetRateLimit in memory and by the older routes.
RateLimited(store) == Len(Within(sends[store])) >= MaxSends

Admit(store) == [mailHist EXCEPT !.admitted = Append(@, [store |-> store, at |-> now])]

\* checkResetRateLimit with Redis: INCR, and EXPIRE by whoever counted to one; an error lets pass.
CountRequest(w) ==
  \/ /\ keys' = [keys EXCEPT !["sends"] = Incr("sends")]
     /\ \/ keys'["sends"].n = 1 /\ Enter(w, "expireSends", "redis", 0)
        \/ keys'["sends"].n \in 2..MaxSends /\ Enter(w, "save", "redis", 0)
        \/ keys'["sends"].n > MaxSends /\ Stop(w)
     /\ mailHist' = IF keys'["sends"].n <= MaxSends THEN Admit("redis") ELSE mailHist
     /\ UNCHANGED sends
  \/ /\ Enter(w, "save", "redis", 0)
     /\ mailHist' = [mailHist EXCEPT !.unbounded = TRUE]
     /\ UNCHANGED <<sends, keys>>

checkResetRateLimit(w, store, at) ==
  IF store = "redis" THEN CountRequest(w)
  ELSE /\ ~RateLimited(store)
       /\ sends' = [sends EXCEPT ![store] = Append(Within(@), now)]
       /\ Enter(w, "save", store, at)
       /\ mailHist' = Admit(store)
       /\ UNCHANGED keys

Asks(w, store, at) ==
  /\ Request /\ At(w, "idle") /\ checkResetRateLimit(w, store, at)
  /\ UNCHANGED <<now, redis, slot, codeInfo>>

ResetStore == IF redis THEN "redis" ELSE "mem"
PasswordResetRequest(w) == Asks(w, ResetStore, 0)
SendPasswordResetEmail(w) == Asks(w, "mem", now)

ExpireSends(w) ==
  /\ At(w, "expireSends")
  /\ keys' = [keys EXCEPT !["sends"].until = now + Hour]
  /\ Go(w, "save")
  /\ UNCHANGED <<now, redis, slot, codeInfo, sends, mailHist, starts>>

\* saveResetCode replaces the address's code.
Store(c, store, at) ==
  /\ slot' = [slot EXCEPT ![store] = c]
  /\ codeInfo' = [codeInfo EXCEPT ![c] = [expires |-> at + CodeTTL, tries |-> 0]]

saveResetCode(w) ==
  /\ At(w, "save")
  /\ \E c \in Unsent : Store(c, mailing[w].store, IF mailing[w].n = 0 THEN now ELSE mailing[w].n)
  /\ Stop(w)
  /\ UNCHANGED <<now, redis, sends, keys, mailHist, starts>>

\* The limit is judged and the code stored in one critical section.
SendsVerifyCode ==
  /\ Request /\ ~RateLimited("verify")
  /\ sends' = [sends EXCEPT !["verify"] = Append(Within(@), now)]
  /\ \E c \in Unsent : Store(c, "verify", now)
  /\ mailHist' = Admit("verify")
  /\ UNCHANGED <<now, redis, keys, mailing>>

SendEmailVerifyCode == SendsVerifyCode
SendEmailVerification == SendsVerifyCode

----------------------------------------------------------------------------
\* A Redis key is gone once it has expired; the map keeps an expired code until it is deleted.
getResetCode(store) ==
  LET c == slot[store] IN
  IF c # None /\ (store = "redis" => now < codeInfo[c].expires) THEN c ELSE None
Valid(c) == c # None /\ now <= codeInfo[c].expires

\* PasswordResetConfirm with any guess: the code is read first, and an expired one deleted.
PasswordResetConfirm(w, guess) ==
  LET c == getResetCode(ResetStore) IN
  /\ Request /\ At(w, "idle")
  /\ mailing' = [mailing EXCEPT ![w] = [Idle EXCEPT !.store = ResetStore, !.guess = guess,
                                       !.code = c, !.step = IF Valid(c) THEN "increment" ELSE "drop"]]
  /\ UNCHANGED <<now, redis, slot, codeInfo, sends, keys, mailHist>>

\* incrementResetAttempts in memory looks the code up again, adds one to that object's count and
\* makes the map point at it again.
IncrementInMemory(w) ==
  LET c == slot["mem"]
      overlap == {v \in Workers \ {w} : At(v, "writeBack") /\ mailing[v].held = c} IN
  /\ At(w, "increment") /\ ~redis
  /\ mailing' = [mailing EXCEPT ![w].held = c, ![w].step = IF c = None THEN "judge" ELSE "writeBack",
                                ![w].n = IF c = None THEN 0 ELSE codeInfo[c].tries + 1]
  /\ mailHist' = IF overlap # {} \/ c # mailing[w].code
                 THEN [mailHist EXCEPT !.lost = @ \cup {mailing[w].code}] ELSE mailHist
  /\ UNCHANGED <<now, redis, slot, codeInfo, sends, keys, starts>>

\* Seeded bug: the new count is not stored.
BugWriteBack(w) ==
  /\ At(w, "writeBack")
  /\ slot' = [slot EXCEPT !["mem"] = mailing[w].held]
  /\ Go(w, "judge")
  /\ UNCHANGED <<now, redis, codeInfo, sends, keys, mailHist, starts>>

WriteBack(w) ==
  LET x == mailing[w] IN
  /\ At(w, "writeBack")
  /\ codeInfo' = [codeInfo EXCEPT ![x.held].tries = x.n]
  /\ slot' = [slot EXCEPT !["mem"] = x.held]
  /\ Go(w, "judge")
  /\ UNCHANGED <<now, redis, sends, keys, mailHist, starts>>

\* With Redis the count is a key of its own, which a new code does not reset; an error is zero.
IncrementInRedis(w) ==
  /\ At(w, "increment") /\ redis
  /\ \/ /\ keys' = [keys EXCEPT !["tries"] = Incr("tries")]
        /\ mailing' = [mailing EXCEPT ![w].n = keys'["tries"].n,
                                      ![w].step = IF keys'["tries"].n = 1 THEN "expireTries" ELSE "judge"]
        /\ mailHist' = IF now < codeInfo[mailing[w].code].expires THEN mailHist
                       ELSE [mailHist EXCEPT !.lost = @ \cup {mailing[w].code}]
     \/ /\ mailing' = [mailing EXCEPT ![w].n = 0, ![w].step = "judge"]
        /\ mailHist' = [mailHist EXCEPT !.unbounded = TRUE]
        /\ UNCHANGED keys
  /\ UNCHANGED <<now, redis, slot, codeInfo, sends, starts>>

ExpireTries(w) ==
  /\ At(w, "expireTries")
  /\ keys' = [keys EXCEPT !["tries"].until = now + CodeTTL]
  /\ Go(w, "judge")
  /\ UNCHANGED <<now, redis, slot, codeInfo, sends, mailHist, starts>>

\* The count is read from the object again, then the guess is compared with the code read first.
Tries(x) == IF redis THEN x.n ELSE IF x.held = None THEN 0 ELSE codeInfo[x.held].tries
Judge(w) ==
  LET x == mailing[w] IN
  /\ At(w, "judge")
  /\ \/ Tries(x) > MaxTry /\ Go(w, "drop") /\ UNCHANGED mailHist
     \/ /\ Tries(x) <= MaxTry
        /\ mailHist' = [mailHist EXCEPT !.judged[x.code] = @ + 1]
        /\ IF x.guess = x.code THEN Go(w, "update") ELSE Stop(w)
  /\ UNCHANGED <<now, redis, slot, codeInfo, sends, keys, starts>>

\* ResetPassword and CheckEmailVerifyCode: a read under the read lock, no count of tries.
Checks(w, store, guess) ==
  /\ Request /\ At(w, "idle") /\ guess # None
  /\ slot[store] = guess /\ Valid(guess)
  /\ mailing' = [mailing EXCEPT ![w] = [Idle EXCEPT !.step = "update", !.store = store, !.guess = guess, !.code = guess]]
  /\ UNCHANGED <<now, redis, slot, codeInfo, sends, keys, mailHist>>

ResetPassword(w, guess) == Checks(w, "mem", guess)
CheckEmailVerifyCode(w, guess) == Checks(w, "verify", guess)

Holds(w, c) == ~At(w, "idle") /\ c \in {mailing[w].code, mailing[w].held}
Carry(w, cs) == {c \in cs : c # None /\ \E v \in Workers \ {w} : Holds(v, c)}

\* The password of every row with this address changes; an address code has nothing to do here.
UpdatePassword(w) ==
  /\ At(w, "update")
  /\ mailHist' = [mailHist EXCEPT !.used[mailing[w].code] = @ + 1,
                              !.carried = @ \cup Carry(w, {mailing[w].code})]
  /\ Go(w, "drop")
  /\ UNCHANGED <<now, redis, slot, codeInfo, sends, keys, starts>>

\* deleteResetCode removes whatever code the address has by now.
deleteResetCode(w) ==
  LET store == mailing[w].store IN
  /\ At(w, "drop")
  /\ slot' = [slot EXCEPT ![store] = None]
  /\ mailHist' = [mailHist EXCEPT !.carried = @ \cup Carry(w, {slot[store], mailing[w].code})]
  /\ Stop(w)
  /\ UNCHANGED <<now, redis, codeInfo, sends, keys, starts>>

\* A restart empties the maps; the keys stay, even one whose EXPIRE was not sent.
Restart ==
  /\ Request
  /\ slot' = [slot EXCEPT !["mem"] = None, !["verify"] = None]
  /\ sends' = [s \in {"mem", "verify"} |-> <<>>]
  /\ mailing' = [w \in Workers |-> Idle]
  /\ mailHist' = [mailHist EXCEPT !.unbounded = TRUE,
                              !.carried = @ \cup ({mailing[w].code : w \in {v \in Workers : At(v, "drop")}} \ {None})]
  /\ UNCHANGED <<now, redis, codeInfo, keys>>

Tick == now < MaxClock /\ now' = now + 1
        /\ UNCHANGED <<redis, slot, codeInfo, sends, keys, mailing, mailHist, starts>>

Next ==
  \/ SendEmailVerifyCode \/ SendEmailVerification \/ Restart \/ Tick
  \/ \E w \in Workers :
       \/ PasswordResetRequest(w) \/ SendPasswordResetEmail(w) \/ ExpireSends(w) \/ saveResetCode(w)
       \/ \E guess \in SomeCode : \/ PasswordResetConfirm(w, guess) \/ ResetPassword(w, guess)
                                  \/ CheckEmailVerifyCode(w, guess)
       \/ IncrementInMemory(w) \/ WriteBack(w) \/ IncrementInRedis(w) \/ ExpireTries(w) \/ Judge(w)
       \/ UpdatePassword(w) \/ deleteResetCode(w)

Spec == Init /\ [][Next]_vars
----------------------------------------------------------------------------
AdmittedWithin(stores) == Cardinality({i \in DOMAIN mailHist.admitted : /\ mailHist.admitted[i].store \in stores
                                                                  /\ now - mailHist.admitted[i].at < Hour})

\* As long as the process and Redis keep running, within an hour at
\* most MaxSends requests for a code pass each place that counts them (checkResetRateLimit,
\* SendEmailVerifyCode), or twice as many through the fixed window of the Redis key.
SendsLimited ==
  ~mailHist.unbounded =>
    /\ \A s \in {"mem", "verify"} : AdmittedWithin({s}) <= MaxSends
    /\ AdmittedWithin({"redis"}) <= 2 * MaxSends

\* A code is accepted a second time only if another request held it when it was accepted or deleted, which
\* may compare it, or with incrementResetAttempts put it back, after its deletion, or if the
\* process ended before it deleted the code.
CodeUsedOnce == \A c \in Codes : mailHist.used[c] > 1 => c \in mailHist.carried

\* PasswordResetConfirm compares at most MaxTry guesses with a code, unless in memory increments of
\* its count overlapped or counted for a younger code, or with Redis the try was counted after
\* the code expired; with Redis, where the count may expire under a younger code, at
\* most twice as many.
GuessesLimited ==
  \A c \in Codes : mailHist.judged[c] > (IF redis THEN 2 * MaxTry ELSE MaxTry) =>
    mailHist.unbounded \/ c \in mailHist.lost \cup mailHist.carried

\* What a code sent by mail is limited to: how often it is sent, guessed and used.
MailInv == TypeOK /\ SendsLimited /\ CodeUsedOnce /\ GuessesLimited
=============================================================================
