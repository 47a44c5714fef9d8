------------------------------- MODULE Limits -------------------------------
(***************************************************************************)
(* Rate limits: the counters of middleware/ratelimit.go and of             *)
(* middleware/group_ratelimit.go, in memory or in Redis.  A call passes a  *)
(* chain of counters (address, token, user, model, sanction, the group's   *)
(* day and minute), then looks at the group's tokens of the minute and,    *)
(* once answered, adds its own.  A counter in memory is an object behind a *)
(* pointer: a call takes the pointer in one step and counts in another,    *)
(* and a sweeper may unlink the object in between.  In Redis, INCR and     *)
(* EXPIRE are two commands.                                                *)
(***************************************************************************)
EXTENDS Integers, Sequences, FiniteSets

CONSTANTS
  Workers,
  Chain,       \* the counters a call passes, in order
  LimitOf,     \* their limits, and the group's tokens per minute under "tpm"
  Tokens,      \* the tokens a call uses up
  Objects,     \* counters that can be allocated
  Window,      \* length of a window
  MaxStarts, MaxClock, None

VARIABLES
  now, budget,
  inRedis,     \* RedisClient # nil
  limits,      \* the sync.Map: a key's object
  objects,     \* [count, reset]
  redisKeys,   \* [count, until], until = None while no EXPIRE was set
  calls,
  limHist
vars == <<now, budget, inRedis, limits, objects, redisKeys, calls, limHist>>

Keys == {Chain[i] : i \in DOMAIN Chain} \cup {"tpm"}
Idle == [pc |-> "idle"]
At(w, pc) == calls[w].pc = pc
Key(w) == IF calls[w].i > Len(Chain) THEN "tpm" ELSE Chain[calls[w].i]
Amount(w) == IF Key(w) = "tpm" THEN Tokens ELSE 1

Init ==
  /\ now = 0 /\ budget = MaxStarts
  /\ inRedis \in BOOLEAN
  /\ limits = [k \in Keys |-> None]
  /\ objects = [o \in Objects |-> None]
  /\ redisKeys = [k \in Keys |-> None]
  /\ calls = [w \in Workers |-> Idle]
  /\ limHist = [admitted |-> [k \in Keys |-> 0], tokens |-> 0, orphan |-> FALSE, lost |-> FALSE, failed |-> FALSE]

stores == <<limits, objects, redisKeys>>

\* A call arrives (RateLimitMiddleware and the routes' checks).
Arrive(w) ==
  /\ calls[w] = Idle /\ budget > 0
  /\ budget' = budget - 1
  /\ calls' = [calls EXCEPT ![w] = [pc |-> "check", i |-> 1, obj |-> None]]
  /\ UNCHANGED <<now, inRedis, stores, limHist>>

\* What a verdict of the counter the call is at leads to: the next one, a look at the tokens
\* (GroupRateLimitMiddleware), a refusal, or the end after the tokens were added.
RateLimitMiddleware(w, pass) ==
  /\ calls' = [calls EXCEPT ![w] =
                 IF Key(w) = "tpm" \/ ~pass THEN Idle
                 ELSE IF @.i = Len(Chain) THEN [pc |-> "peek", i |-> @.i, obj |-> None]
                 ELSE [pc |-> "check", i |-> @.i + 1, obj |-> None]]
Noted(w, pass) == [limHist EXCEPT !.admitted[Key(w)] = IF pass THEN @ + 1 ELSE @,
                                  !.tokens = IF Key(w) = "tpm" /\ now < Window THEN @ + Tokens ELSE @]

\* In memory: the object of the key is loaded, or a new one stored (which one does not matter).
LoadOrStore(w) ==
  /\ At(w, "check") /\ ~inRedis
  /\ IF limits[Key(w)] # None
       THEN /\ calls' = [calls EXCEPT ![w].pc = "count", ![w].obj = limits[Key(w)]]
            /\ UNCHANGED <<limits, objects>>
       ELSE LET o == CHOOSE o \in Objects : objects[o] = None IN
              /\ \E free \in Objects : objects[free] = None
              /\ objects' = [objects EXCEPT ![o] = [count |-> 0, reset |-> now + Window]]
              /\ limits' = [limits EXCEPT ![Key(w)] = o]
              /\ calls' = [calls EXCEPT ![w].pc = "count", ![w].obj = o]
  /\ UNCHANGED <<now, budget, inRedis, redisKeys, limHist>>

\* Seeded bug: a window is over as soon as its end is reached.
Bugexpired(info) == now >= info.reset
expired(info) == now > info.reset
\* checkLimit and addToWindow, with the object locked.
checkLimit(w) ==
  LET o == calls[w].obj
      info == IF expired(objects[o]) THEN [count |-> 0, reset |-> now + Window] ELSE objects[o]
      n == info.count + Amount(w)
      pass == n <= LimitOf[Key(w)]
  IN  /\ At(w, "count")
      /\ objects' = [objects EXCEPT ![o] = [info EXCEPT !.count = n]]
      /\ RateLimitMiddleware(w, pass)
      /\ limHist' = [Noted(w, pass) EXCEPT !.orphan = @ \/ limits[Key(w)] # o]
      /\ UNCHANGED <<now, budget, inRedis, limits, redisKeys>>

\* The sweeper, every 10 minutes: a counter whose window ended a window ago is unlinked.
Sweep(k) ==
  /\ ~inRedis /\ limits[k] # None
  /\ now > objects[limits[k]].reset + Window
  /\ limits' = [limits EXCEPT ![k] = None]
  /\ objects' = [objects EXCEPT ![limits[k]] = IF \E w \in Workers : At(w, "count") /\ calls[w].obj = limits[k] THEN @ ELSE None]
  /\ UNCHANGED <<now, budget, inRedis, redisKeys, calls, limHist>>

\* In Redis: INCR (INCRBY), which starts a key that is missing or has run out.  A call that
\* Redis does not answer passes.
Running(k) == IF redisKeys[k] = None THEN 0
              ELSE IF redisKeys[k].until # None THEN (IF redisKeys[k].until <= now THEN 0 ELSE redisKeys[k].count)
              ELSE redisKeys[k].count
redisCheckLimit(w) ==
  LET k == Key(w)
      n == Running(k) + Amount(w)
      first == n = Amount(w)
      pass == n <= LimitOf[k]
  IN  /\ At(w, "check") /\ inRedis
      /\ \/ /\ redisKeys' = [redisKeys EXCEPT ![k] = [count |-> n, until |-> IF first THEN None ELSE @.until]]
            /\ IF first THEN calls' = [calls EXCEPT ![w].pc = "expire"] ELSE RateLimitMiddleware(w, pass)
            /\ limHist' = Noted(w, pass)
         \/ /\ RateLimitMiddleware(w, TRUE)
            /\ limHist' = [Noted(w, TRUE) EXCEPT !.failed = TRUE]
            /\ UNCHANGED redisKeys
      /\ UNCHANGED <<now, budget, inRedis, limits, objects>>
\* EXPIRE for the first of a window; its error is not looked at.
Expire(w) ==
  LET k == Key(w) IN
  /\ At(w, "expire")
  /\ \/ /\ redisKeys' = [redisKeys EXCEPT ![k].until = now + Window]
        /\ UNCHANGED limHist
     \/ /\ limHist' = [limHist EXCEPT !.lost = TRUE]
        /\ UNCHANGED redisKeys
  /\ RateLimitMiddleware(w, Amount(w) <= LimitOf[k])
  /\ UNCHANGED <<now, budget, inRedis, limits, objects>>

peekWindow(n) == n < LimitOf["tpm"]
\* GroupRateLimitMiddleware looks at the tokens of the minute and adds nothing.
Peek(w) ==
  LET o == limits["tpm"]
      n == IF inRedis THEN Running("tpm")
           ELSE IF o = None THEN 0 ELSE IF expired(objects[o]) THEN 0 ELSE objects[o].count
  IN  /\ At(w, "peek")
      /\ calls' = [calls EXCEPT ![w] = IF peekWindow(n) THEN [@ EXCEPT !.pc = "upstream"] ELSE Idle]
      /\ UNCHANGED <<now, budget, inRedis, stores, limHist>>
\* The answer: RecordGroupTokens adds its tokens, or it has none.
RecordGroupTokens(w) ==
  /\ At(w, "upstream")
  /\ \/ calls' = [calls EXCEPT ![w] = [pc |-> "check", i |-> Len(Chain) + 1, obj |-> None]]
     \/ calls' = [calls EXCEPT ![w] = Idle]
  /\ UNCHANGED <<now, budget, inRedis, stores, limHist>>

Tick ==
  /\ now < MaxClock
  /\ now' = now + 1
  /\ UNCHANGED <<budget, inRedis, stores, calls, limHist>>

\* The process is started again: what is in memory is gone, what is in Redis stays.
Restart ==
  /\ budget > 0
  /\ budget' = budget - 1
  /\ calls' = [w \in Workers |-> Idle]
  /\ limits' = [k \in Keys |-> None]
  /\ objects' = [o \in Objects |-> None]
  /\ limHist' = [limHist EXCEPT !.lost = TRUE]
  /\ UNCHANGED <<now, inRedis, redisKeys>>

Next ==
  \/ \E w \in Workers : \/ Arrive(w) \/ LoadOrStore(w) \/ checkLimit(w) \/ redisCheckLimit(w) \/ Expire(w)
                        \/ Peek(w) \/ RecordGroupTokens(w)
  \/ \E k \in Keys : Sweep(k)
  \/ Tick \/ Restart
Spec == Init /\ [][Next]_vars

---------------------------------------------------------------------------
TypeOK ==
  /\ now \in 0..MaxClock /\ budget \in 0..MaxStarts
  /\ limits \in [Keys -> Objects \cup {None}] /\ \A k \in Keys : limits[k] # None => objects[limits[k]] # None

\* As long as no counter was swept from under a call, lost by a restart or passed over because
\* Redis failed: windows of one counter do not overlap, so that it has let through at most its limit for each
\* (a window in memory ends strictly after its last instant, one in Redis at it); tokens of the
\* first window exceed the group's limit by no more than the calls that were on their way when
\* it was reached; and a key of Redis without an end is about to get one.
LimitsHold ==
  TypeOK /\ (~limHist.orphan /\ ~limHist.lost /\ ~limHist.failed =>
    /\ \A k \in Keys \ {"tpm"} :
         limHist.admitted[k] <= LimitOf[k] * (1 + now \div (IF inRedis THEN Window ELSE Window + 1))
    /\ now < Window => limHist.tokens <= LimitOf["tpm"] - 1 + Tokens * Cardinality(Workers)
    /\ \A k \in Keys : redisKeys[k] # None
         => IF redisKeys[k].until = None THEN \E w \in Workers : At(w, "expire") /\ Key(w) = k ELSE TRUE)
=============================================================================
