------------------------------ MODULE Affinity ------------------------------
(***************************************************************************)
(* Which channel served a key's last call (controller/                     *)
(* channel_affinity_cache.go): an entry in Redis for each key and group    *)
(* that moves that channel to the front of the next route.  The entry is   *)
(* read before a call and, in a goroutine after it, read again, counted up *)
(* and written; an administrator's clearing scans for keys and deletes     *)
(* them.                                                                   *)
(***************************************************************************)
EXTENDS Integers, Sequences, FiniteSets, SequencesExt

CONSTANTS
  Workers,
  Routes,      \* what the selector may answer: sequences of [ch, model, group]
  Groups,      \* the user's group "own", and those of keys that name another
  AffStarts, None

VARIABLES
  affBudget,
  entries,     \* per group: None or [ch, hit]
  routed,      \* the calls and clearings at work
  affHist
vars == <<affBudget, entries, routed, affHist>>

Idle == [pc |-> "idle"]
Init ==
  /\ affBudget = AffStarts
  /\ entries = [g \in Groups |-> None]
  /\ routed = [w \in Workers |-> Idle]
  /\ affHist = [count |-> 0, lost |-> FALSE]

At(w, pc) == routed[w].pc = pc
Go(w, job) == routed' = [routed EXCEPT ![w] = job]
Spend == affBudget > 0 /\ affBudget' = affBudget - 1

---------------------------------------------------------------------------
\* A route is three lists side by side, as in the code.
Lists(route) == [chs |-> [i \in DOMAIN route |-> route[i].ch], models |-> [i \in DOMAIN route |-> route[i].model],
                 groups |-> [i \in DOMAIN route |-> route[i].group]]
ToFront(s, i) == <<s[i]>> \o RemoveAt(s, i)

\* Seeded bug: the groups stay where they were.
BugprioritizeAffinityChannel(r, ch) ==
  LET at == {i \in DOMAIN r.chs : r.chs[i] = ch} IN
  IF at = {} THEN r
  ELSE LET i == CHOOSE i \in at : \A j \in at : i <= j
       IN  [chs |-> ToFront(r.chs, i), models |-> ToFront(r.models, i), groups |-> r.groups]
prioritizeAffinityChannel(r, ch) ==
  LET at == {i \in DOMAIN r.chs : r.chs[i] = ch} IN
  IF at = {} THEN r
  ELSE LET i == CHOOSE i \in at : \A j \in at : i <= j
       IN  [chs |-> ToFront(r.chs, i), models |-> ToFront(r.models, i), groups |-> ToFront(r.groups, i)]

\* The entry is looked up under the group the call is billed in; a failing Redis has none.
getChannelAffinityChannelID(g) == IF entries[g] = None THEN {0} ELSE {0, entries[g].ch}
SelectChannelWithAffinity(w) ==
  /\ routed[w] = Idle /\ Spend
  /\ \E route \in Routes, using \in Groups : \E id \in getChannelAffinityChannelID(using) :
       Go(w, [pc |-> "try", route |-> route, using |-> using, id |-> id, order |-> prioritizeAffinityChannel(Lists(route), id)])
  /\ UNCHANGED <<entries, affHist>>
\* The channels are tried in this order; the call ends with one that answers, or with none.
Served(w) ==
  /\ At(w, "try")
  /\ \/ \E i \in DOMAIN routed[w].order.chs : Go(w, [pc |-> "get", ch |-> routed[w].order.chs[i]])
     \/ Go(w, Idle)
  /\ UNCHANGED <<affBudget, entries, affHist>>

\* upsertChannelAffinity, under the user's own group: a GET that fails is taken for no entry.
upsertChannelAffinity(w) ==
  /\ At(w, "get")
  /\ \E seen \in {entries["own"], None} :
       Go(w, [pc |-> "set", ch |-> routed[w].ch, seen |-> seen])
  /\ UNCHANGED <<affBudget, entries, affHist>>
SetEntry(w) ==
  LET job == routed[w]
      hit == IF job.seen = None THEN 1 ELSE job.seen.hit + 1
  IN  /\ At(w, "set")
      /\ \/ /\ entries' = [entries EXCEPT !["own"] = [ch |-> job.ch, hit |-> hit]]
            /\ affHist' = [affHist EXCEPT !.count = @ + 1, !.lost = @ \/ job.seen # entries["own"]]
         \/ UNCHANGED <<entries, affHist>>
      /\ Go(w, Idle)
      /\ UNCHANGED affBudget

\* clearChannelAffinityCacheAll, and ...ByRuleName, which finds the same keys: SCAN, then DEL.
clearChannelAffinityCacheAll == {g \in Groups : entries[g] # None}
ClearChannelAffinityCache(w) ==
  /\ routed[w] = Idle /\ Spend
  /\ \/ Go(w, [pc |-> "del", keys |-> clearChannelAffinityCacheAll])
     \/ Go(w, Idle)
  /\ UNCHANGED <<entries, affHist>>
Forget(S) ==
  /\ entries' = [g \in Groups |-> IF g \in S THEN None ELSE entries[g]]
  /\ affHist' = IF "own" \in S THEN [affHist EXCEPT !.count = 0, !.lost = FALSE] ELSE affHist
DelKeys(w) ==
  /\ At(w, "del")
  /\ Forget(routed[w].keys) \/ UNCHANGED <<entries, affHist>>
  /\ Go(w, Idle)
  /\ UNCHANGED affBudget
\* An entry's day is over.
ExpireEntry ==
  /\ entries["own"] # None
  /\ Forget({"own"})
  /\ UNCHANGED <<affBudget, routed>>

\* The process is started again: its goroutines are gone, the entries stay.
Restart ==
  /\ Spend
  /\ routed' = [w \in Workers |-> Idle]
  /\ UNCHANGED <<entries, affHist>>

Next ==
  \/ \E w \in Workers :
       \/ SelectChannelWithAffinity(w) \/ Served(w) \/ upsertChannelAffinity(w) \/ SetEntry(w)
       \/ ClearChannelAffinityCache(w) \/ DelKeys(w)
  \/ ExpireEntry \/ Restart
Spec == Init /\ [][Next]_vars

---------------------------------------------------------------------------
TypeOK ==
  /\ affBudget \in 0..AffStarts /\ affHist.count \in 0..AffStarts
  /\ \A g \in Groups : entries[g] # None => entries[g].hit \in 1..AffStarts

\* The list is the old one, or the old one with an entry of this channel in front of the
\* others, which keep their order.
InFront(list, old, ch) ==
  /\ Len(list) = Len(old)
  /\ \/ list = old
     \/ \E i \in DOMAIN old :
          /\ old[i].ch = ch /\ list[1] = old[i]
          /\ \A j \in DOMAIN old \ {i} : list[IF j < i THEN j + 1 ELSE j] = old[j]

\* Whatever is moved to the front, each channel of a route keeps its model and its group, the
\* others keep their order, and only calls in the user's own group are reordered at all, since
\* entries are written under that; an entry counts the calls since it was made unless it changed
\* between the reading and the writing of one (controller/channel_affinity_cache.go:89-151).
AffinityInv ==
  /\ TypeOK
  /\ \A w \in Workers : At(w, "try") =>
       LET job == routed[w]
           back == [i \in DOMAIN job.order.chs |-> [ch |-> job.order.chs[i], model |-> job.order.models[i], group |-> job.order.groups[i]]]
       IN  /\ InFront(back, job.route, job.id)
           /\ job.using # "own" => back = job.route
  /\ entries["own"] # None /\ ~affHist.lost => entries["own"].hit = affHist.count
=============================================================================
