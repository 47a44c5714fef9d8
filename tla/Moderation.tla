----------------------------- MODULE Moderation -----------------------------
(***************************************************************************)
(* Looking at what a token sends: the keyword list and Tencent's text      *)
(* moderation behind a circuit breaker (controller/relay.go,               *)
(* controller/tencent_moderation_circuit.go), the guard's own detection    *)
(* behind another (service/qingyuan/circuit_breaker.go), and the risk that *)
(* both add to the token's record (service/qingyuan/token_risk.go).  A     *)
(* check looks at its breaker in one step and reports what came of it in   *)
(* another, so that results meet a breaker that others have moved since.   *)
(***************************************************************************)
EXTENDS Integers, Sequences, FiniteSets

CONSTANTS
  Workers,
  Payloads,        \* texts that are told apart by their hash
  Threshold,       \* failures that open a breaker
  Cooldown,        \* how long it stays open
  SlidingWindow,   \* of the risk record
  Forget,          \* a record without a trigger for so long is dropped
  MaxFloor,        \* cap of the floor, in steps of its smaller increment
  ProbeLen, ProbeDistinct, KeepHashes,
  MaxStarts, MaxClock, None

VARIABLES
  now, budget,
  circuits,   \* the breakers of "tms" and of "guard"
  risk,       \* the token's record, or None
  checks,
  modHist
vars == <<now, budget, circuits, risk, checks, modHist>>

Idle == [pc |-> "idle"]
At(w, pc) == checks[w].pc = pc
Shut == [state |-> "closed", failures |-> 0, openedUntil |-> 0]

Init ==
  /\ now = 0 /\ budget = MaxStarts
  /\ circuits = [s \in {"tms", "guard"} |-> Shut]
  /\ risk = None
  /\ checks = [w \in Workers |-> Idle]
  /\ modHist = [opened |-> [s \in {"tms", "guard"} |-> 0], early |-> FALSE, seen |-> {}, since |-> 0]

---------------------------------------------------------------------------
\* The breakers.

\* Seeded bug: an open breaker lets the next check through, cooled down or not.
BugtmsCircuitState(c) == IF c.state = "open" THEN [c EXCEPT !.state = "half_open"] ELSE c
\* An open breaker that has cooled down is half open from the next look on.
tmsCircuitState(c) == IF c.state = "open" /\ now > c.openedUntil THEN [c EXCEPT !.state = "half_open"] ELSE c
tmsRecordSuccess(c) == Shut
tmsRecordFailure(c) ==
  IF c.failures + 1 >= Threshold THEN [state |-> "open", failures |-> c.failures + 1, openedUntil |-> now + Cooldown]
                                 ELSE [c EXCEPT !.failures = @ + 1]
\* The guard's, one for each policy that has it switched on.
GetCircuitState(c) == IF c.state = "open" /\ now > c.openedUntil THEN [c EXCEPT !.state = "half_open"] ELSE c
RecordCircuitSuccess(c) == Shut
RecordCircuitFailure(c) ==
  LET n == c.failures + 1
      opens == n >= Threshold
  IN  [state |-> IF opens THEN "open" ELSE c.state, failures |-> n, openedUntil |-> IF opens THEN now + Cooldown ELSE c.openedUntil]

Looked(s) == IF s = "tms" THEN tmsCircuitState(circuits[s]) ELSE GetCircuitState(circuits[s])

\* What a result does to its breaker; noted are openings and a breaker shut before its time.
Failed(s) ==
  LET c == IF s = "tms" THEN tmsRecordFailure(circuits[s]) ELSE RecordCircuitFailure(circuits[s]) IN
  /\ circuits' = [circuits EXCEPT ![s] = c]
  /\ modHist' = [modHist EXCEPT !.opened[s] = IF c.state = "open" /\ circuits[s].state # "open" THEN @ + 1 ELSE @]
Succeeded(w, s) ==
  /\ circuits' = [circuits EXCEPT ![s] = IF s = "tms" THEN tmsRecordSuccess(@) ELSE RecordCircuitSuccess(@)]
  /\ modHist' = [modHist EXCEPT !.early = @ \/ (circuits[s].state = "open" /\ checks[w].opened = modHist.opened[s])]

---------------------------------------------------------------------------
\* The record of the token's risk.

countUnique(hashes) == Cardinality({hashes[i] : i \in DOMAIN hashes})
Halved(n) == n \div 2
CapAt(n, m) == IF n > m THEN m ELSE n
Forgotten(r) == IF now - r.last > SlidingWindow THEN [r EXCEPT !.count = 0, !.hashes = <<>>] ELSE r
Decayed(r) == IF now - r.decayed > SlidingWindow THEN [r EXCEPT !.floor = Halved(@), !.decayed = now] ELSE r
\* Reading the floor decays it without storing that.
GetTokenRiskFloor == IF risk = None THEN 0 ELSE Decayed(risk).floor
GetTokenTriggerCount == IF risk = None THEN 0 ELSE IF now - risk.last > SlidingWindow THEN 0 ELSE risk.count
IsTokenProbing == IF risk = None THEN FALSE ELSE risk.probe

\* A trigger: windows that have passed are forgotten, the floor decays once and rises, and
\* many payloads in a row that differ show that someone is probing.
RecordTokenTrigger(payload, high) ==
  LET r0 == IF risk = None THEN [floor |-> 0, count |-> 0, last |-> now, decayed |-> now, probe |-> FALSE, hashes |-> <<>>] ELSE risk
      r == Decayed(Forgotten(r0))
      all == Append(r.hashes, payload)
      hashes == IF Len(all) > KeepHashes THEN Tail(all) ELSE all
  IN  /\ risk' = [r EXCEPT !.count = @ + 1, !.last = now, !.hashes = hashes,
                           !.floor = CapAt(@ + (IF high THEN 2 ELSE 1), MaxFloor),
                           !.probe = @ \/ (Len(hashes) >= ProbeLen /\ countUnique(hashes) >= ProbeDistinct)]
      /\ modHist' = IF risk = None \/ now - modHist.since > SlidingWindow
                      THEN [modHist EXCEPT !.seen = IF IsTokenProbing THEN @ ELSE {payload}, !.since = now]
                      ELSE [modHist EXCEPT !.seen = @ \cup {payload}, !.since = now]

\* The job that drops records, every 10 minutes.
CleanupExpiredRisks ==
  /\ IF risk = None THEN FALSE ELSE now - risk.last > Forget
  /\ risk' = None
  /\ UNCHANGED <<now, budget, circuits, checks, modHist>>

---------------------------------------------------------------------------
\* Checks.

\* checkTencentModeration for a text that the keyword list let pass, and ApplyRequest's
\* detection: behind an open breaker both make do with what they have at hand.
Consult(w, s) ==
  /\ checks[w] = Idle /\ budget > 0
  /\ budget' = budget - 1
  /\ circuits' = [circuits EXCEPT ![s] = Looked(s)]
  /\ \E p \in Payloads :
       checks' = [checks EXCEPT ![w] = IF Looked(s).state = "open" THEN Idle
                                       ELSE [pc |-> s, payload |-> p, high |-> FALSE, opened |-> modHist.opened[s]]]
  /\ UNCHANGED <<now, risk, modHist>>

\* Tencent does not answer, or with an error: the text passes.
ModerateTextFails(w) ==
  /\ At(w, "tms")
  /\ Failed("tms")
  /\ checks' = [checks EXCEPT ![w] = Idle]
  /\ UNCHANGED <<now, budget, risk>>
\* It answers: Block and Pass end the check, Review notes the token in a goroutine.
checkTencentModeration(w) ==
  /\ At(w, "tms")
  /\ Succeeded(w, "tms")
  /\ \E suggestion \in {"Block", "Review", "Pass"} :
       checks' = [checks EXCEPT ![w] = IF suggestion = "Review" THEN [@ EXCEPT !.pc = "trigger"] ELSE Idle]
  /\ UNCHANGED <<now, budget, risk>>

\* detectWithTimeout gives up, and so does the check.
detectTimesOut(w) ==
  /\ At(w, "guard")
  /\ Failed("guard")
  /\ checks' = [checks EXCEPT ![w] = Idle]
  /\ UNCHANGED <<now, budget, risk>>
\* It returns; the score, the token's floor added, may reach the threshold, which ends the check
\* before the breaker hears of it.  Findings of substance are noted.
detectWithTimeout(w) ==
  /\ At(w, "guard")
  /\ \E score \in {"none", "some", "high"}, refused \in BOOLEAN :
       IF refused /\ (score # "none" \/ GetTokenRiskFloor > 0)
         THEN /\ checks' = [checks EXCEPT ![w] = Idle]
              /\ UNCHANGED <<circuits, modHist>>
         ELSE /\ Succeeded(w, "guard")
              /\ checks' = [checks EXCEPT ![w] = IF score = "none" THEN Idle ELSE [@ EXCEPT !.pc = "trigger", !.high = score = "high"]]
  /\ UNCHANGED <<now, budget, risk>>

Trigger(w) ==
  /\ At(w, "trigger")
  /\ RecordTokenTrigger(checks[w].payload, checks[w].high)
  /\ checks' = [checks EXCEPT ![w] = Idle]
  /\ UNCHANGED <<now, budget, circuits>>

Tick ==
  /\ now < MaxClock
  /\ now' = now + 1
  /\ UNCHANGED <<budget, circuits, risk, checks, modHist>>

Next ==
  \/ \E w \in Workers : \/ \E s \in {"tms", "guard"} : Consult(w, s)
                        \/ ModerateTextFails(w) \/ checkTencentModeration(w)
                        \/ detectTimesOut(w) \/ detectWithTimeout(w) \/ Trigger(w)
  \/ CleanupExpiredRisks \/ Tick
Spec == Init /\ [][Next]_vars

---------------------------------------------------------------------------
TypeOK ==
  /\ now \in 0..MaxClock /\ budget \in 0..MaxStarts
  /\ \A s \in DOMAIN circuits : circuits[s].state \in {"closed", "open", "half_open"} /\ circuits[s].failures \in Nat

\* A breaker is open exactly when as many checks as its threshold failed without a success
\* between them, half open only after it has cooled down, and shut before that only by the success of a check that began
\* before it opened.  The floor of a token is capped, and a token is taken to be
\* probing only after enough different payloads without a pause of a window between two.
BreakersAndRisk ==
  /\ TypeOK
  /\ \A s \in DOMAIN circuits :
       /\ circuits[s].state = "closed" <=> circuits[s].failures < Threshold
       /\ circuits[s].state = "half_open" => now > circuits[s].openedUntil
  /\ ~modHist.early
  /\ GetTokenRiskFloor <= MaxFloor
  /\ IsTokenProbing => Cardinality(modHist.seen) >= ProbeDistinct
  /\ GetTokenTriggerCount > 0 => now - modHist.since <= SlidingWindow
=============================================================================
