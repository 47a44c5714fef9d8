----------------------------- MODULE MultiKeys -----------------------------
(***************************************************************************)
(* The keys of one channel that has several                                *)
(* (controller/channel_multikey.go).  The row holds the list and, by       *)
(* position in it, the keys that are switched off.  A request of the       *)
(* administrator reads the row, then takes the channel's lock, changes the *)
(* copy it read and saves all of it; UpdateChannel writes the list without *)
(* the lock and without the statuses.  Times and reasons go with the       *)
(* statuses and are left out.                                              *)
(***************************************************************************)
EXTENDS Integers, Sequences, FiniteSets

CONSTANTS Workers, Secrets, MaxStarts, None

VARIABLES
  budget,
  keyRow,    \* [keys, status]: the list, and 2 or 3 (by the system) for positions that are off
  keyLock,   \* who holds getMultiKeyLock's mutex
  requests,
  keyHist
vars == <<budget, keyRow, keyLock, requests, keyHist>>

Idle == [pc |-> "idle"]
At(w, pc) == requests[w].pc = pc
Lists == UNION {{l \in [1..n -> Secrets] : \A i, j \in 1..n : i # j => l[i] # l[j]} : n \in 1..Cardinality(Secrets)}
AllOn == [i \in {} |-> 2]
OffOf(row) == {row.keys[i] : i \in DOMAIN row.status \cap DOMAIN row.keys}

Init ==
  /\ budget = MaxStarts
  /\ keyRow \in [keys : {l \in Lists : Len(l) = Cardinality(Secrets)}, status : {AllOn}]
  /\ keyLock = None
  /\ requests = [w \in Workers |-> Idle]
  /\ keyHist = [stale |-> FALSE, edited |-> FALSE, off |-> {}]

---------------------------------------------------------------------------
\* What an action makes of a copy of the row: [ok, row], ok = FALSE for a request that is refused.
Refused(row) == [ok |-> FALSE, row |-> row]
Saved(keys, status) == [ok |-> TRUE, row |-> [keys |-> keys, status |-> status]]
Kept(status, S) == [i \in DOMAIN status \cap S |-> status[i]]

setKeys(row, list) == Saved(list, AllOn)
disableKey(row, i) ==
  IF i \notin DOMAIN row.keys THEN Refused(row)
  ELSE Saved(row.keys, [j \in DOMAIN row.status \cup {i} |-> IF j = i THEN 2 ELSE row.status[j]])
enableKey(row, i) ==
  IF i \notin DOMAIN row.keys THEN Refused(row) ELSE Saved(row.keys, Kept(row.status, DOMAIN row.status \ {i}))
enableAllKeys(row) == Saved(row.keys, AllOn)
disableAllKeys(row) ==
  IF DOMAIN row.keys \subseteq DOMAIN row.status THEN Refused(row)
  ELSE Saved(row.keys, [j \in DOMAIN row.status \cup DOMAIN row.keys |-> IF j \in DOMAIN row.status THEN row.status[j] ELSE 2])

\* The keys at the positions S stay, in their order; a status moves with its key.
Position(S, n) == CHOOSE i \in S : Cardinality({j \in S : j <= i}) = n
\* Seeded bug: the statuses keep the positions they had.
BugShrink(row, S) ==
  Saved([n \in 1..Cardinality(S) |-> row.keys[Position(S, n)]], Kept(row.status, 1..Cardinality(S)))
Shrink(row, S) ==
  Saved([n \in 1..Cardinality(S) |-> row.keys[Position(S, n)]],
        [n \in {n \in 1..Cardinality(S) : Position(S, n) \in DOMAIN row.status} |-> row.status[Position(S, n)]])
deleteKey(row, i) ==
  IF i \notin DOMAIN row.keys \/ Len(row.keys) <= 1 THEN Refused(row) ELSE Shrink(row, DOMAIN row.keys \ {i})
deleteDisabledKeys(row) ==
  LET gone == {i \in DOMAIN row.keys : i \in DOMAIN row.status /\ row.status[i] = 3}
  IN  IF gone = {} \/ gone = DOMAIN row.keys THEN Refused(row) ELSE Shrink(row, DOMAIN row.keys \ gone)

Results(row) ==
  {setKeys(row, l) : l \in Lists}
  \cup {op : op \in UNION {{disableKey(row, i), enableKey(row, i), deleteKey(row, i)} : i \in 1..Cardinality(Secrets)}}
  \cup {enableAllKeys(row), disableAllKeys(row), deleteDisabledKeys(row)}

---------------------------------------------------------------------------
\* ManageMultiKeys reads the row before it takes the lock.
ManageMultiKeys(w) ==
  /\ requests[w] = Idle /\ budget > 0
  /\ budget' = budget - 1
  /\ requests' = [requests EXCEPT ![w] = [pc |-> "lock", copy |-> keyRow]]
  /\ UNCHANGED <<keyRow, keyLock, keyHist>>
getMultiKeyLock(w) ==
  /\ At(w, "lock") /\ keyLock = None
  /\ keyLock' = w
  /\ requests' = [requests EXCEPT ![w].pc = "act"]
  /\ UNCHANGED <<budget, keyRow, keyHist>>
\* Noted are the keys that are off in the row as the request leaves it, judged by the row as it
\* was, key by key, and whether the copy had become older than the row.
saveState(w) ==
  LET copy == requests[w].copy IN
  /\ At(w, "act")
  /\ \E r \in Results(copy) :
       \/ /\ r.ok
          /\ keyRow' = r.row
          /\ keyHist' = [stale |-> (keyHist.stale \/ copy # keyRow) /\ r.row.status # AllOn,
                         edited |-> keyHist.edited /\ r.row.status # AllOn,
                         off |-> {k \in {r.row.keys[i] : i \in DOMAIN r.row.keys} :
                                    IF r.row.keys = copy.keys THEN k \in OffOf(r.row) ELSE r.row.status # AllOn /\ k \in keyHist.off}]
       \/ UNCHANGED <<keyRow, keyHist>>
  /\ keyLock' = None
  /\ requests' = [requests EXCEPT ![w] = Idle]
  /\ UNCHANGED budget

\* UpdateChannel: a list of keys, a map of statuses, or both, as the request has them.
UpdateChannel ==
  /\ budget > 0 /\ budget' = budget - 1
  /\ \E l \in Lists, st \in {keyRow.status} \cup {[j \in {i} |-> 3] : i \in 1..Cardinality(Secrets)} :
       /\ keyRow' = [keys |-> l, status |-> st]
       /\ keyHist' = [keyHist EXCEPT !.edited = @ \/ (l # keyRow.keys /\ st # AllOn) \/ ~(DOMAIN st \subseteq DOMAIN l),
                                     !.off = {l[i] : i \in DOMAIN st \cap DOMAIN l}]
  /\ UNCHANGED <<keyLock, requests>>

\* The process is started again: the lock is gone with the requests.
Restart ==
  /\ budget > 0 /\ budget' = budget - 1
  /\ keyLock' = None
  /\ requests' = [w \in Workers |-> Idle]
  /\ UNCHANGED <<keyRow, keyHist>>

Next ==
  \/ \E w \in Workers : ManageMultiKeys(w) \/ getMultiKeyLock(w) \/ saveState(w)
  \/ UpdateChannel \/ Restart
Spec == Init /\ [][Next]_vars

---------------------------------------------------------------------------
TypeOK ==
  /\ budget \in 0..MaxStarts /\ keyLock \in Workers \cup {None}
  /\ keyRow.keys \in Lists \cup {<<>>} /\ DOMAIN keyRow.status \subseteq Nat /\ keyHist.off \subseteq Secrets

\* The list never gets empty; and unless a request saved a copy that had become older than the
\* row (the lock does not cover the reading), or the list was written without its statuses, a
\* key is off exactly if it was switched off: positions shift with the keys that are deleted
\* before them, and no status is left without a key (channel_multikey.go:150-425).
MultiKeyInv ==
  /\ TypeOK
  /\ keyRow.keys # <<>>
  /\ ~keyHist.stale /\ ~keyHist.edited =>
       /\ DOMAIN keyRow.status \subseteq DOMAIN keyRow.keys
       /\ OffOf(keyRow) = keyHist.off
  /\ \A w \in Workers : At(w, "act") => keyLock = w
=============================================================================
