---------------------------- MODULE HybridCache ----------------------------
(***************************************************************************)
(* The cache of pkg/cachex as service/channel_affinity.go uses it: each    *)
(* entry is in Redis and in a map of the process, which answers when Redis *)
(* does not.  The map has a limit and a cleanup; Redis drops entries by    *)
(* itself.                                                                 *)
(***************************************************************************)
EXTENDS Integers, FiniteSets

CONSTANTS
  Workers,
  HyKeys,      \* keys of the cache
  MaxEntries,  \* the limit of the map
  HyStarts, None

VARIABLES
  hyBudget,
  hyRedis,     \* key -> None or its value
  hyMem,       \* key -> None or [v, fresh], fresh while its time is not over
  writes,      \* what the requests are doing
  hyHist
vars == <<hyBudget, hyRedis, hyMem, writes, hyHist>>

Idle == [pc |-> "idle", keys |-> {}]
Spend == hyBudget > 0 /\ hyBudget' = hyBudget - 1
Init ==
  /\ hyBudget = HyStarts
  /\ hyRedis = [k \in HyKeys |-> None] /\ hyMem = [k \in HyKeys |-> None]
  /\ writes = [w \in Workers |-> Idle]
  /\ hyHist = [apart |-> {}, crowded |-> FALSE]

\* Set writes Redis, then takes the lock and writes the memory.
Held(mem) == {k \in HyKeys : mem[k] # None}
Alone(w, k) == \A v \in Workers \ {w} : k \notin writes[v].keys

SetRedis(k, v) ==
  \/ hyRedis' = [hyRedis EXCEPT ![k] = v] /\ UNCHANGED hyHist
  \/ UNCHANGED hyRedis /\ hyHist' = [hyHist EXCEPT !.apart = @ \cup {k}]
RecordChannelAffinity(w) ==
  /\ writes[w] = Idle /\ Spend
  /\ \E k \in HyKeys, v \in {1, 2} :
       /\ writes' = [writes EXCEPT ![w] = [pc |-> "mem", keys |-> {k}, v |-> v]]
       /\ SetRedis(k, v)
  /\ UNCHANGED hyMem

\* evictOldest finds only entries whose time is over.
Evicted(mem) ==
  LET over == {k \in Held(mem) : ~mem[k].fresh} IN
  IF Cardinality(Held(mem)) < MaxEntries \/ over = {} THEN {mem} ELSE {[mem EXCEPT ![k] = None] : k \in over}

SetMemory(w) ==
  LET job == writes[w] IN
  /\ job.pc = "mem"
  /\ \E k \in job.keys, mem \in Evicted(hyMem) :
       /\ hyMem' = [mem EXCEPT ![k] = [v |-> job.v, fresh |-> TRUE]]
       /\ hyHist' = [hyHist EXCEPT !.apart = IF Alone(w, k) /\ hyRedis[k] = job.v THEN @ \ {k} ELSE @ \cup {k},
                                     !.crowded = @ \/ (Cardinality(Held(hyMem)) >= MaxEntries /\ \A j \in Held(hyMem) : hyMem[j].fresh)]
  /\ writes' = [writes EXCEPT ![w] = Idle]
  /\ UNCHANGED <<hyBudget, hyRedis>>

\* ClearAffinityCacheAll: the keys of the memory, under the lock for reading; then, under the
\* lock for writing, memory and Redis.
ClearAffinityCacheAll(w) ==
  /\ writes[w] = Idle /\ Spend
  /\ writes' = [writes EXCEPT ![w] = [pc |-> "many", keys |-> Held(hyMem), v |-> 0]]
  /\ UNCHANGED <<hyRedis, hyMem, hyHist>>
DeleteMany(w) ==
  LET S == writes[w].keys
      Without(m) == [k \in HyKeys |-> IF k \in S THEN None ELSE m[k]]
  IN  /\ writes[w].pc = "many"
      /\ hyMem' = Without(hyMem)
      /\ \/ /\ hyRedis' = Without(hyRedis)
            /\ hyHist' = [hyHist EXCEPT !.apart = (@ \ {k \in S : Alone(w, k)}) \cup {k \in S : ~Alone(w, k)}]
         \/ UNCHANGED hyRedis /\ hyHist' = [hyHist EXCEPT !.apart = @ \cup S]
      /\ writes' = [writes EXCEPT ![w] = Idle]
      /\ UNCHANGED hyBudget

\* Get: from Redis, if that has it, else from memory, if its time is not over.
Get(k) ==
  IF hyRedis[k] # None THEN hyRedis[k] ELSE IF hyMem[k] # None /\ hyMem[k].fresh THEN hyMem[k].v ELSE 0

\* An entry's time is over: Redis drops it, the memory keeps it until cleanup comes by.
Elapse ==
  /\ \E k \in HyKeys :
       /\ hyRedis[k] # None \/ (hyMem[k] # None /\ hyMem[k].fresh)
       /\ hyRedis' = [hyRedis EXCEPT ![k] = None]
       /\ hyMem' = IF hyMem[k] = None THEN hyMem ELSE [hyMem EXCEPT ![k].fresh = FALSE]
       /\ hyHist' = [hyHist EXCEPT !.apart = IF \E w \in Workers : k \in writes[w].keys THEN @ \cup {k} ELSE @ \ {k}]
  /\ UNCHANGED <<hyBudget, writes>>
cleanup ==
  /\ \E k \in HyKeys : hyMem[k] # None /\ ~hyMem[k].fresh
  /\ hyMem' = [k \in HyKeys |-> IF hyMem[k] # None /\ ~hyMem[k].fresh THEN None ELSE hyMem[k]]
  /\ UNCHANGED <<hyBudget, hyRedis, writes, hyHist>>
\* The process is started again: its memory is gone.
Restart ==
  /\ Spend
  /\ hyMem' = [k \in HyKeys |-> None]
  /\ writes' = [w \in Workers |-> Idle]
  /\ hyHist' = [hyHist EXCEPT !.apart = @ \cup {k \in HyKeys : hyRedis[k] # None}, !.crowded = FALSE]
  /\ UNCHANGED hyRedis

Next ==
  \/ \E w \in Workers : RecordChannelAffinity(w) \/ SetMemory(w) \/ ClearAffinityCacheAll(w) \/ DeleteMany(w)
  \/ Elapse \/ cleanup \/ Restart
Spec == Init /\ [][Next]_vars

---------------------------------------------------------------------------
TypeOK ==
  /\ hyBudget \in 0..HyStarts /\ hyRedis \in [HyKeys -> {1, 2, None}]
  /\ hyMem \in [HyKeys -> {None} \cup [v : {1, 2}, fresh : BOOLEAN]] /\ hyHist.apart \subseteq HyKeys

\* Memory and Redis answer alike for a key unless its writers overlapped, Redis failed, or the
\* process was started again, and that only until the next write; and the memory outgrows its
\* limit only when it is full of entries whose time is not over (pkg/cachex/hybrid_cache.go).
CacheInv ==
  /\ TypeOK
  /\ \A k \in HyKeys \ hyHist.apart :
       (\A w \in Workers : k \notin writes[w].keys) =>
         Get(k) = IF hyMem[k] # None /\ hyMem[k].fresh THEN hyMem[k].v ELSE 0
  /\ Cardinality(Held(hyMem)) > MaxEntries => hyHist.crowded
=============================================================================
