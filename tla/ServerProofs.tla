---------------------------- MODULE ServerProofs ----------------------------
(***************************************************************************)
(* What a server process keeps in memory beside its tables, for all values *)
(* of the constants: the lock table of payment orders (OrderLock), and of  *)
(* the components of Server the index of sanctions, the scheduler and the  *)
(* prices calls are billed with.  Each has an inductive invariant, one     *)
(* lemma per action, and theorems that follow from it.                     *)
(***************************************************************************)
EXTENDS OrderLock, Server, FiniteSetTheorems, SequenceTheorems, WellFoundedInduction, TLAPS

---------------------------------------------------------------------------
(* Order lock: LockInv is an inductive invariant of the lock table. *)
USE DEF CountIn, DropEntry, MutexFree

\* The goroutines counted in on a trade number are finitely many.
LEMMA UsersFinite == ASSUME NEW t PROVE IsFiniteSet(UsersOf(t))
<1>1. UsersOf(t) \in SUBSET Procs
  BY DEF UsersOf
<1> QED
  BY <1>1, ProcsFinite, FS_Subset

\* The table starts empty, with every goroutine outside LockOrder.
LEMMA InitLockInv == Init => LockInv
BY NoObjAssumption
   DEF Init, LockInv, TypeOK, UsersPointToEntry, EntriesCountUsers,
       EntriesDistinct, HoldersLocked, OneHolder

\* A second caller joins the entry of its trade number.
LEMMA LockOrderFoundInv ==
  ASSUME LockInv, NEW p \in Procs, NEW t \in Trades, LockOrderFound(p, t)
  PROVE  LockInv'
<1> USE NoObjAssumption DEF LockInv, LockOrderFound
<1>1. TypeOK'
  BY DEF TypeOK
<1>2. UsersPointToEntry'
  BY DEF TypeOK, UsersPointToEntry
<1>3. EntriesCountUsers'
  <2> SUFFICES ASSUME NEW u \in Trades, orderLocks[u] # NoObj
               PROVE  /\ refCount'[orderLocks[u]] = Cardinality(UsersOf(u)')
                      /\ UsersOf(u)' # {}
    BY DEF EntriesCountUsers
  <2>1. IsFiniteSet(UsersOf(u))
    BY UsersFinite
  <2>2. CASE u = t
    <3>1. UsersOf(u)' = UsersOf(u) \cup {p} /\ p \notin UsersOf(u)
      BY <2>2 DEF UsersOf, TypeOK
    <3>2. Cardinality(UsersOf(u)') = Cardinality(UsersOf(u)) + 1
      BY <2>1, <3>1, FS_AddElement
    <3> QED
      BY <2>2, <3>1, <3>2 DEF EntriesCountUsers, TypeOK
  <2>3. CASE u # t
    <3>1. UsersOf(u)' = UsersOf(u)
      BY <2>3 DEF UsersOf, TypeOK
    <3>2. orderLocks[u] # orderLocks[t]
      BY <2>3 DEF EntriesDistinct
    <3> QED
      BY <3>1, <3>2 DEF EntriesCountUsers, TypeOK
  <2> QED
    BY <2>2, <2>3
<1>4. EntriesDistinct'
  BY DEF EntriesDistinct
<1>5. HoldersLocked'
  BY DEF HoldersLocked, TypeOK
<1>6. OneHolder'
  BY DEF OneHolder, TypeOK
<1> QED
  BY <1>1, <1>2, <1>3, <1>4, <1>5, <1>6

\* The first caller makes the entry, out of a mutex nobody can reach.
LEMMA LockOrderCreateInv ==
  ASSUME LockInv, NEW p \in Procs, NEW t \in Trades, LockOrderCreate(p, t)
  PROVE  LockInv'
<1> USE NoObjAssumption DEF LockInv
<1> PICK o \in Objs : /\ Unreachable(o)
                      /\ orderLocks' = [orderLocks EXCEPT ![t] = o]
                      /\ refCount' = [refCount EXCEPT ![o] = 1]
                      /\ locked' = [locked EXCEPT ![o] = FALSE]
                      /\ rcm' = [rcm EXCEPT ![p] = o]
  BY DEF LockOrderCreate
<1>0. /\ pc[p] = "idle"
      /\ orderLocks[t] = NoObj
      /\ trade' = [trade EXCEPT ![p] = t]
      /\ pc' = [pc EXCEPT ![p] = "blocked"]
  BY DEF LockOrderCreate
<1>1. TypeOK'
  BY <1>0 DEF TypeOK
<1>2. UsersPointToEntry'
  <2> SUFFICES ASSUME NEW q \in Procs, pc'[q] \in {"blocked", "critical"}
               PROVE  rcm'[q] = orderLocks'[trade'[q]] /\ rcm'[q] \in Objs
    BY DEF UsersPointToEntry
  <2>1. CASE q = p
    BY <1>0, <2>1 DEF TypeOK
  <2>2. CASE q # p
    BY <1>0, <2>2 DEF TypeOK, UsersPointToEntry
  <2> QED
    BY <2>1, <2>2
<1>3. EntriesCountUsers'
  <2> SUFFICES ASSUME NEW u \in Trades, orderLocks'[u] # NoObj
               PROVE  /\ refCount'[orderLocks'[u]] = Cardinality(UsersOf(u)')
                      /\ UsersOf(u)' # {}
    BY DEF EntriesCountUsers
  <2>1. CASE u = t
    <3>1. UsersOf(u)' = {p}
      BY <1>0, <2>1 DEF UsersOf, TypeOK, UsersPointToEntry
    <3> QED
      BY <2>1, <3>1, FS_Singleton DEF TypeOK
  <2>2. CASE u # t
    <3>1. UsersOf(u)' = UsersOf(u)
      BY <1>0, <2>2 DEF UsersOf, TypeOK
    <3> QED
      BY <2>2, <3>1 DEF EntriesCountUsers, TypeOK, Unreachable
  <2> QED
    BY <2>1, <2>2
<1>4. EntriesDistinct'
  BY <1>0 DEF EntriesDistinct, Unreachable, TypeOK
<1>5. HoldersLocked'
  BY <1>0 DEF HoldersLocked, Unreachable, TypeOK
<1>6. OneHolder'
  BY <1>0 DEF OneHolder, Unreachable, TypeOK
<1> QED
  BY <1>1, <1>2, <1>3, <1>4, <1>5, <1>6

\* Locking the per-order mutex makes its caller the one holder of it.
LEMMA MutexLockInv ==
  ASSUME LockInv, NEW p \in Procs, MutexLock(p)
  PROVE  LockInv'
<1> USE NoObjAssumption DEF LockInv, MutexLock
<1>1. TypeOK'
  BY DEF TypeOK
<1>2. UsersPointToEntry'
  BY DEF TypeOK, UsersPointToEntry
<1>3. EntriesCountUsers'
  <2>1. \A u \in Trades : UsersOf(u)' = UsersOf(u)
    BY DEF UsersOf, TypeOK
  <2> QED
    BY <2>1 DEF EntriesCountUsers, TypeOK
<1>4. EntriesDistinct'
  BY DEF EntriesDistinct
<1>5. HoldersLocked'
  BY DEF HoldersLocked, UsersPointToEntry, TypeOK
<1>6. OneHolder'
  BY DEF OneHolder, HoldersLocked, TypeOK
<1> QED
  BY <1>1, <1>2, <1>3, <1>4, <1>5, <1>6

\* UnlockOrder always finds the entry its caller was counted in on.
LEMMA UnlockFindsOwnEntry ==
  ASSUME LockInv, NEW p \in Procs, pc[p] = "critical"
  PROVE  orderLocks[trade[p]] = rcm[p] /\ rcm[p] \in Objs /\ rcm[p] # NoObj
BY NoObjAssumption DEF LockInv, UsersPointToEntry

\* Counting the caller out; the entry goes with the last user.
LEMMA UnlockOrderInv ==
  ASSUME LockInv, NEW p \in Procs, UnlockOrder(p)
  PROVE  LockInv'
<1> USE NoObjAssumption DEF LockInv
<1>0. PICK o \in Objs, t \in Trades :
      /\ pc[p] = "critical" /\ t = trade[p] /\ o = rcm[p]
      /\ orderLocks[t] = o /\ o # NoObj
      /\ refCount' = [refCount EXCEPT ![o] = @ - 1]
      /\ orderLocks' = IF refCount[o] - 1 <= 0
                       THEN [orderLocks EXCEPT ![t] = NoObj] ELSE orderLocks
      /\ rcm' = rcm
      /\ pc' = [pc EXCEPT ![p] = "unlocking"]
      /\ UNCHANGED <<locked, trade>>
  BY UnlockFindsOwnEntry DEF UnlockOrder, TypeOK
<1>1. TypeOK'
  BY <1>0 DEF TypeOK
<1>a. UsersOf(t)' = UsersOf(t) \ {p} /\ p \in UsersOf(t)
  BY <1>0 DEF UsersOf, TypeOK
<1>b. \A u \in Trades \ {t} : UsersOf(u)' = UsersOf(u)
  BY <1>0 DEF UsersOf, TypeOK
<1>c. /\ IsFiniteSet(UsersOf(t)')
      /\ Cardinality(UsersOf(t)') = refCount[o] - 1
      /\ Cardinality(UsersOf(t)') \in Nat
  <2>1. IsFiniteSet(UsersOf(t))
    BY UsersFinite
  <2>2. IsFiniteSet(UsersOf(t)') /\ Cardinality(UsersOf(t)') = Cardinality(UsersOf(t)) - 1
    BY <1>a, <2>1, FS_RemoveElement
  <2>3. refCount[o] = Cardinality(UsersOf(t))
    BY <1>0 DEF EntriesCountUsers
  <2> QED
    BY <2>2, <2>3, FS_CardinalityType
<1>d. refCount[o] - 1 <= 0 <=> UsersOf(t)' = {}
  BY <1>c, FS_EmptySet
<1>2. UsersPointToEntry'
  <2> SUFFICES ASSUME NEW q \in Procs, pc'[q] \in {"blocked", "critical"}
               PROVE  rcm[q] = orderLocks'[trade[q]] /\ rcm[q] \in Objs
    BY <1>0 DEF UsersPointToEntry
  <2>1. rcm[q] = orderLocks[trade[q]] /\ rcm[q] \in Objs /\ trade[q] \in Trades
    BY <1>0 DEF UsersPointToEntry, TypeOK
  <2>2. CASE trade[q] = t
    <3>1. q \in UsersOf(t)'
      BY <1>0, <2>2 DEF UsersOf
    <3> QED
      BY <1>0, <1>d, <2>1, <3>1
  <2>3. CASE trade[q] # t
    BY <1>0, <2>1, <2>3 DEF TypeOK
  <2> QED
    BY <2>2, <2>3
<1>3. EntriesCountUsers'
  <2> SUFFICES ASSUME NEW u \in Trades, orderLocks'[u] # NoObj
               PROVE  /\ refCount'[orderLocks'[u]] = Cardinality(UsersOf(u)')
                      /\ UsersOf(u)' # {}
    BY DEF EntriesCountUsers
  <2>1. CASE u = t
    <3>1. UsersOf(t)' # {} /\ orderLocks' = orderLocks
      BY <1>0, <1>d, <2>1 DEF TypeOK
    <3> QED
      BY <1>0, <1>c, <2>1, <3>1 DEF TypeOK
  <2>2. CASE u # t
    <3>1. orderLocks'[u] = orderLocks[u] /\ orderLocks[u] # o
      BY <1>0, <2>2 DEF EntriesDistinct, TypeOK
    <3>2. refCount'[orderLocks[u]] = refCount[orderLocks[u]]
      BY <1>0, <3>1 DEF TypeOK
    <3> QED
      BY <1>b, <2>2, <3>1, <3>2 DEF EntriesCountUsers
  <2> QED
    BY <2>1, <2>2
<1>4. EntriesDistinct'
  BY <1>0 DEF EntriesDistinct, TypeOK
<1>5. HoldersLocked'
  BY <1>0 DEF HoldersLocked, TypeOK
<1>6. OneHolder'
  BY <1>0 DEF OneHolder, TypeOK
<1> QED
  BY <1>1, <1>2, <1>3, <1>4, <1>5, <1>6

\* Releasing the mutex, of an entry that may be gone already.
LEMMA MutexUnlockInv ==
  ASSUME LockInv, NEW p \in Procs, MutexUnlock(p)
  PROVE  LockInv'
<1> USE NoObjAssumption DEF LockInv, MutexUnlock
<1>1. TypeOK'
  BY DEF TypeOK
<1>2. UsersPointToEntry'
  BY DEF TypeOK, UsersPointToEntry
<1>3. EntriesCountUsers'
  <2>1. \A u \in Trades : UsersOf(u)' = UsersOf(u)
    BY DEF UsersOf, TypeOK
  <2> QED
    BY <2>1 DEF EntriesCountUsers, TypeOK
<1>4. EntriesDistinct'
  BY DEF EntriesDistinct
<1>5. HoldersLocked'
  BY DEF HoldersLocked, OneHolder, TypeOK
<1>6. OneHolder'
  BY DEF OneHolder, TypeOK
<1> QED
  BY <1>1, <1>2, <1>3, <1>4, <1>5, <1>6

\* Every step preserves the inductive invariant.
LEMMA NextLockInv == LockInv /\ [Next]_vars => LockInv'
<1> SUFFICES ASSUME LockInv, [Next]_vars PROVE LockInv'
  OBVIOUS
<1>1. CASE UNCHANGED vars
  BY <1>1 DEF vars, LockInv, TypeOK, UsersPointToEntry, EntriesCountUsers,
              EntriesDistinct, HoldersLocked, OneHolder, UsersOf
<1>2. ASSUME NEW p \in Procs, NEW t \in Trades, LockOrderFound(p, t) PROVE LockInv'
  BY <1>2, LockOrderFoundInv
<1>3. ASSUME NEW p \in Procs, NEW t \in Trades, LockOrderCreate(p, t) PROVE LockInv'
  BY <1>3, LockOrderCreateInv
<1>4. ASSUME NEW p \in Procs, MutexLock(p) PROVE LockInv'
  BY <1>4, MutexLockInv
<1>5. ASSUME NEW p \in Procs, UnlockOrder(p) PROVE LockInv'
  BY <1>5, UnlockOrderInv
<1>6. ASSUME NEW p \in Procs, MutexUnlock(p) PROVE LockInv'
  BY <1>6, MutexUnlockInv
<1> QED
  BY <1>1, <1>2, <1>3, <1>4, <1>5, <1>6 DEF Next

\* The lock table of LockOrder and UnlockOrder keeps LockInv: types, counts,
\* distinct mutexes, one holder of each.
THEOREM LockInvariant == Spec => []LockInv
<1> QED
  BY InitLockInv, NextLockInv, PTL DEF Spec

\* At most one goroutine is between LockOrder and UnlockOrder of a trade number.
THEOREM OrderLockMutualExclusion == Spec => []MutualExclusion
<1>1. LockInv => MutualExclusion
  BY DEF LockInv, MutualExclusion, UsersPointToEntry, OneHolder
<1> QED
  BY <1>1, LockInvariant, PTL

\* A trade number is in orderLocks exactly while a goroutine waits for it or
\* holds it, so the table does not grow with the orders of the past.
THEOREM OrderLockNoLeftovers == Spec => []NoLeftoverEntry
<1>1. LockInv => NoLeftoverEntry
  <2> SUFFICES ASSUME LockInv, NEW t \in Trades
               PROVE  orderLocks[t] # NoObj <=> UsersOf(t) # {}
    BY DEF NoLeftoverEntry
  <2>1. orderLocks[t] # NoObj => UsersOf(t) # {}
    BY DEF LockInv, EntriesCountUsers
  <2>2. ASSUME NEW p \in UsersOf(t) PROVE orderLocks[t] # NoObj
    BY NoObjAssumption DEF LockInv, UsersPointToEntry, UsersOf
  <2> QED
    BY <2>1, <2>2
<1> QED
  BY <1>1, LockInvariant, PTL

\* rcm.mu.Unlock() is only called on the mutex its caller has locked.
THEOREM OrderLockUnlockSafe == Spec => []UnlocksOwnMutex
<1>1. LockInv => UnlocksOwnMutex
  BY NoObjAssumption DEF LockInv, UnlocksOwnMutex, HoldersLocked, OneHolder
<1> QED
  BY <1>1, LockInvariant, PTL

\* The reference-counted table implements one plain mutex per trade number.
THEOREM OrderLockImplementsKeyedMutex == Spec => ImplementsKeyedMutex
<1>1. Init => KM!KMInit
  BY DEF Init, KM!KMInit, AbstractPhase
<1>2. LockInv /\ [Next]_vars => [KM!KMNext]_(KM!kmVars)
  <2> SUFFICES ASSUME LockInv, [Next]_vars PROVE [KM!KMNext]_(KM!kmVars)
    OBVIOUS
  <2>0. TypeOK
    BY DEF LockInv
  <2>1. CASE UNCHANGED vars
    BY <2>1 DEF vars, KM!kmVars, AbstractPhase
  <2>2. ASSUME NEW p \in Procs, NEW t \in Trades,
               LockOrderFound(p, t) \/ LockOrderCreate(p, t)
        PROVE  KM!Request(p, t)
    <3>1. pc[p] = "idle" /\ pc' = [pc EXCEPT ![p] = "blocked"] /\ trade' = [trade EXCEPT ![p] = t]
      BY <2>2 DEF LockOrderFound, LockOrderCreate
    <3> QED
      BY <2>0, <3>1 DEF TypeOK, KM!Request, AbstractPhase
  <2>3. ASSUME NEW p \in Procs, MutexLock(p) PROVE KM!Acquire(p)
    <3>1. \A q \in Procs : pc[q] = "critical" => trade[q] # trade[p]
      BY <2>0, <2>3 DEF LockInv, TypeOK, MutexLock, UsersPointToEntry, HoldersLocked
    <3>2. pc[p] = "blocked" /\ pc' = [pc EXCEPT ![p] = "critical"] /\ trade' = trade
      BY <2>3 DEF MutexLock
    <3> QED
      BY <2>0, <3>1, <3>2 DEF TypeOK, KM!Acquire, AbstractPhase
  <2>4. ASSUME NEW p \in Procs, UnlockOrder(p) PROVE KM!Release(p)
    BY <2>0, <2>4 DEF TypeOK, UnlockOrder, KM!Release, AbstractPhase
  <2>5. ASSUME NEW p \in Procs, MutexUnlock(p) PROVE UNCHANGED KM!kmVars
    BY <2>0, <2>5 DEF TypeOK, MutexUnlock, KM!kmVars, AbstractPhase
  <2> QED
    BY <2>1, <2>2, <2>3, <2>4, <2>5 DEF Next, KM!KMNext
<1> QED
  BY <1>1, <1>2, LockInvariant, PTL DEF Spec, ImplementsKeyedMutex, KM!KMSpec

---------------------------------------------------------------------------
(* Sanctions: the inductive invariant. *)

LEMMA SaAssumed ==
  /\ None \notin Workers /\ None \notin Nat
  /\ CacheTTL \in Nat /\ Starts["SA"] \in Nat /\ Clock["SA"] \in Nat
BY ServerAssumption

SaRows == [kind : SanctionKinds, factor : Strengths \cup {0}, until : Nat]
SaLists == UNION {[S -> SaRows] : S \in SUBSET Nat}
SaPcs == {"look", "upsert", "reload", "swap", "sync", "restore", "delete", "execute", "save", "setCache", "sanction"}
SaOps == {"apply", "revoke", "execute", "update", "call"}
SaJobs == [op : SaOps, pc : SaPcs, kind : SanctionKinds \cup {None}, factor : Strengths \cup {0}, until : Nat, sync : BOOLEAN,
           id : Nat \cup {None}, copy : BOOLEAN, list : SaLists \cup {None}, fresh : BOOLEAN, alone : BOOLEAN]
SaHists == [raced : BOOLEAN, overtaken : BOOLEAN, failed : BOOLEAN, late : BOOLEAN, offSince : Nat \cup {None},
            served : BOOLEAN, servedOff : BOOLEAN, returned : BOOLEAN]

\* What a job holds: the kind it applies, the row it found or is to delete, the list it read.
SaJobHolds(j) ==
  /\ j.pc \in {"look", "upsert"} => j.kind \in SanctionKinds
  /\ j.pc = "upsert" => j.id = None \/ j.id \in DOMAIN rows
  /\ j.pc = "delete" => j.id \in DOMAIN rows
  /\ j.pc = "swap" => j.list \in SaLists

SaTyped ==
  /\ now \in 0..Clock["SA"] /\ budget \in 0..Starts["SA"]
  /\ tok \in [present : BOOLEAN, active : BOOLEAN]
  /\ rows \in Seq(SaRows \cup {None})
  /\ DOMAIN index = {"view", "fresh"} /\ index.fresh \in BOOLEAN
  /\ cached \in [active : BOOLEAN, until : Nat] \cup {None}
  /\ ticker \in [pc : {"wait", "swap"}, list : SaLists, fresh : BOOLEAN]
  /\ work \in [Workers -> SaJobs \cup {SA!Idle}]
  /\ sancHist \in SaHists
  /\ \A w \in Workers : SaJobHolds(work[w])

\* The index has fallen behind only for a reason.
Behind == ~index.fresh => SA!Reloading \/ sancHist.overtaken \/ sancHist.failed

\* A list that no write has outdated holds every row in force, and so does the index it made.
Holds(list) == \A i \in SA!LiveRows(rows, now) : i \in DOMAIN list /\ list[i] = rows[i]
Copies ==
  /\ index.fresh => \A i \in SA!LiveRows(rows, now) : rows[i].kind \in DOMAIN index.view
  /\ \A w \in Workers : SA!At(w, "swap") /\ work[w].fresh => Holds(work[w].list)
  /\ ticker.pc = "swap" /\ ticker.fresh => Holds(ticker.list)

\* Where nothing raced and no row came back, a kind has one row at most, and who is about to
\* write one alone still knows which.
OfKind(k) == {i \in DOMAIN rows : rows[i] # None /\ rows[i].kind = k}
Knows(j) ==
  /\ j.id = None => OfKind(j.kind) = {}
  /\ j.id # None => OfKind(j.kind) \subseteq {j.id} /\ (rows[j.id] # None => rows[j.id].kind = j.kind)
Singly ==
  ~sancHist.raced /\ ~sancHist.returned =>
    /\ \A i, j \in DOMAIN rows : rows[i] # None /\ rows[j] # None /\ rows[i].kind = rows[j].kind => i = j
    /\ \A w \in Workers : SA!At(w, "upsert") /\ work[w].alone => Knows(work[w])

\* An active copy in the cache that was not late when it was written ends a lifetime after the
\* token went off, at the latest.
Cached ==
  /\ sancHist.offSince = None <=> tok.present /\ tok.active
  /\ tok.active => tok.present
  /\ sancHist.offSince # None => sancHist.offSince <= now
  /\ cached # None /\ cached.active /\ ~sancHist.late =>
       IF sancHist.offSince = None THEN cached.until <= now + CacheTTL ELSE cached.until <= sancHist.offSince + CacheTTL

SaIInv == SaTyped /\ Behind /\ Copies /\ Singly /\ Cached /\ SA!SanctionedNotServed

LEMMA SaImplies == ASSUME SaIInv PROVE SA!SanctionInv
<1> USE DEF SaIInv
<1>1. SA!TypeOK
  <2>1. \A i \in DOMAIN rows : rows[i] \in SaRows \cup {None}  BY DEF SaTyped
  <2> QED BY <2>1 DEF SaTyped, SA!TypeOK, SaRows
<1>2. index.fresh => SA!LiveRows(rows, now) \subseteq {i \in DOMAIN rows : rows[i] # None /\ rows[i].kind \in DOMAIN index.view}
  BY DEF Copies, SA!LiveRows
<1>3. \A i, j \in DOMAIN rows : rows[i] # None /\ rows[j] # None /\ rows[i].kind = rows[j].kind /\ i # j
                               => sancHist.raced \/ sancHist.returned
  BY DEF Singly
<1>4. SA!IndexInStep  BY <1>2, <1>3 DEF SA!IndexInStep, Behind
<1> QED BY <1>1, <1>4 DEF SA!SanctionInv

---------------------------------------------------------------------------
(* Sanctions: what the helpers do. *)

LEMMA SaRowsTyped ==
  ASSUME SaTyped
  PROVE  /\ Len(rows) \in Nat /\ DOMAIN rows = 1..Len(rows)
         /\ \A i \in DOMAIN rows : rows[i] \in SaRows \cup {None}
         /\ now \in Nat
BY SaAssumed DEF SaTyped

\* Rows in force are rows, and none comes into force by the clock.
LEMMA LiveTyped ==
  ASSUME SaTyped, NEW i \in SA!LiveRows(rows, now)
  PROVE  i \in DOMAIN rows /\ rows[i] # None /\ rows[i] \in SaRows /\ i \in Nat
BY SaRowsTyped DEF SA!LiveRows

\* The list that a reload reads is right.
LEMMA ReadList ==
  ASSUME SaTyped
  PROVE  SA!GetActiveSanctions \in SaLists /\ Holds(SA!GetActiveSanctions)
<1> DEFINE S == SA!LiveRows(rows, now)
<1>1. \A i \in S : i \in Nat /\ rows[i] \in SaRows  BY LiveTyped
<1>2. SA!GetActiveSanctions = [i \in S |-> rows[i]]  BY DEF SA!GetActiveSanctions
<1>3. SA!GetActiveSanctions \in [S -> SaRows]  BY <1>1, <1>2
<1>4. S \in SUBSET Nat  BY <1>1
<1>5. [S -> SaRows] \in {[T -> SaRows] : T \in SUBSET Nat}  BY <1>4
<1>6. SA!GetActiveSanctions \in SaLists  BY <1>3, <1>5 DEF SaLists
<1>7. Holds(SA!GetActiveSanctions)  BY <1>2 DEF Holds
<1> QED BY <1>6, <1>7

LEMMA NoListTyped == SA!NoList \in SaLists
<1>1. SA!NoList \in [{} -> SaRows]  BY DEF SA!NoList
<1>2. [{} -> SaRows] \in {[T -> SaRows] : T \in SUBSET Nat}  OBVIOUS
<1> QED BY <1>1, <1>2 DEF SaLists

\* The index built from a list knows the kinds in it.
LEMMA BuiltKinds == ASSUME NEW list PROVE DOMAIN SA!BuildIndex(list) = {list[i].kind : i \in DOMAIN list}
BY DEF SA!BuildIndex

\* A set of natural numbers has a least element.
LEMMA Below == IsWellFoundedOn({p \in Nat \X Nat : p[1] < p[2]}, Nat)
<1>1. {p \in Nat \X Nat : p[1] < p[2]} = OpToRel(<, Nat)  BY DEF OpToRel
<1> QED BY <1>1, NatLessThanWellFounded
LEMMA Least == ASSUME NEW S, S \subseteq Nat, S # {} PROVE \E n \in S : \A m \in S : n <= m
<1> DEFINE R == {p \in Nat \X Nat : p[1] < p[2]}
<1>1. IsWellFoundedOn(R, Nat)  BY Below
<1>2. \A m, n \in Nat : <<m, n>> \in R <=> m < n  OBVIOUS
<1> HIDE DEF R
<1>3. PICK n \in S : \A m \in S : <<m, n>> \notin R  BY <1>1, WFMin
<1>4. ASSUME NEW m \in S PROVE n <= m
  <2>1. m \in Nat /\ n \in Nat /\ <<m, n>> \notin R  BY <1>3
  <2>2. ~(m < n)  BY <1>2, <2>1
  <2> QED BY <2>1, <2>2
<1> QED BY <1>4

\* Steps that keep the table, the index and the clock, and reload nothing.
LEMMA SaKeepsCopies ==
  ASSUME Behind, Copies, UNCHANGED <<now, rows, index, ticker>>,
         \A u \in Workers : work'[u] = work[u] \/ (work[u].pc \notin {"reload", "swap"} /\ work'[u].pc \notin {"reload", "swap"}),
         sancHist'.overtaken = sancHist.overtaken, sancHist'.failed = sancHist.failed
  PROVE  Behind' /\ Copies'
<1> USE DEF SA!At
<1>1. SA!Reloading' <=> SA!Reloading  BY DEF SA!Reloading
<1>2. SA!LiveRows(rows, now)' = SA!LiveRows(rows, now)  BY DEF SA!LiveRows
<1>3. \A u \in Workers : work'[u].pc = "swap" => work'[u] = work[u]  OBVIOUS
<1>4. Copies'
  <2>1. \A u \in Workers : work'[u].pc = "swap" /\ work'[u].fresh => Holds(work[u].list)  BY <1>3 DEF Copies
  <2> QED BY <1>2, <1>3, <2>1 DEF Copies, Holds
<1> QED BY <1>1, <1>4 DEF Behind

\* Steps that keep the table and bring nobody to the point of writing it.
LEMMA SaKeepsSingly ==
  ASSUME Singly, rows' = rows,
         \A u \in Workers : work'[u] = work[u] \/ work'[u].pc # "upsert",
         sancHist'.raced = sancHist.raced, sancHist'.returned = sancHist.returned
  PROVE  Singly'
<1> USE DEF SA!At
<1>1. \A u \in Workers : work'[u].pc = "upsert" => work'[u] = work[u]  OBVIOUS
<1>2. \A k : OfKind(k)' = OfKind(k)  BY DEF OfKind
<1>3. ASSUME ~sancHist.raced, ~sancHist.returned, NEW u \in Workers, work'[u].pc = "upsert", work'[u].alone PROVE Knows(work[u])'
  <2>1. Knows(work[u])  BY <1>1, <1>3 DEF Singly
  <2> QED BY <1>1, <1>2, <1>3, <2>1 DEF Knows
<1> QED BY <1>3 DEF Singly

\* Steps that keep the token, the cache and the clock.
LEMMA SaKeepsCached ==
  ASSUME Cached, UNCHANGED <<now, tok, cached>>,
         sancHist'.offSince = sancHist.offSince, sancHist'.late = sancHist.late
  PROVE  Cached'
BY DEF Cached

\* A worker's next job, the table as it was.
LEMMA SaTakes ==
  ASSUME SaTyped, NEW w \in Workers, NEW y, work' = [work EXCEPT ![w] = y], y \in SaJobs \cup {SA!Idle}, SaJobHolds(y), rows' = rows
  PROVE  /\ work' \in [Workers -> SaJobs \cup {SA!Idle}] /\ \A u \in Workers : SaJobHolds(work[u])'
         /\ work'[w] = y /\ \A u \in Workers \ {w} : work'[u] = work[u]
<1>1. work' \in [Workers -> SaJobs \cup {SA!Idle}]  BY DEF SaTyped
<1>2. work'[w] = y /\ \A u \in Workers \ {w} : work'[u] = work[u]  BY DEF SaTyped
<1>3. \A u \in Workers : SaJobHolds(work'[u])  BY <1>2 DEF SaTyped
<1>4. \A u \in Workers : SaJobHolds(work[u])'  BY <1>3 DEF SaJobHolds
<1> QED BY <1>1, <1>2, <1>4

\* A worker that is somewhere has a job; an idle one holds nothing.
LEMMA SaAtWork ==
  ASSUME SaTyped, NEW w \in Workers
  PROVE  /\ work[w].pc # "idle" => work[w] \in SaJobs /\ work[w].pc \in SaPcs
         /\ work[w] \in SaJobs => work[w].pc # "idle"
         /\ SaJobHolds(SA!Idle) /\ SA!Idle.pc = "idle"
BY DEF SaTyped, SA!Idle, SaJobs, SaPcs, SaJobHolds

\* A job that is new, or that goes on.
LEMMA SaGoesOn ==
  ASSUME NEW j \in SaJobs, NEW p \in SaPcs
  PROVE  /\ [j EXCEPT !.pc = p] \in SaJobs /\ [j EXCEPT !.pc = p].pc = p
         /\ [j EXCEPT !.pc = p].kind = j.kind /\ [j EXCEPT !.pc = p].id = j.id /\ [j EXCEPT !.pc = p].alone = j.alone
         /\ [j EXCEPT !.pc = p].until = j.until /\ [j EXCEPT !.pc = p].copy = j.copy
BY DEF SaJobs
LEMMA SaNewJob ==
  ASSUME NEW o \in SaOps, NEW p \in SaPcs
  PROVE  SA!Job(o, p) \in SaJobs /\ SA!Job(o, p).pc = p
BY SaAssumed DEF SaJobs, SA!Job

---------------------------------------------------------------------------
(* Sanctions: one lemma per action. *)

\* A worker's step that touches neither table nor index nor token, and only what its history notes.
LEMMA SaAside ==
  ASSUME SaIInv, NEW w \in Workers, NEW y, work' = [work EXCEPT ![w] = y], y \in SaJobs \cup {SA!Idle}, SaJobHolds(y),
         work[w].pc \notin {"reload", "swap"}, y.pc \notin {"reload", "swap", "upsert"},
         budget' \in 0..Starts["SA"], UNCHANGED <<now, rows, index, ticker, tok, cached, sancHist>>
  PROVE  SaIInv'
<1> USE DEF SaIInv
<1>1. /\ work' \in [Workers -> SaJobs \cup {SA!Idle}] /\ \A u \in Workers : SaJobHolds(work[u])'
      /\ work'[w] = y /\ \A u \in Workers \ {w} : work'[u] = work[u]
  BY SaTakes
<1>2. SaTyped'  BY <1>1 DEF SaTyped
<1>3. \A u \in Workers : work'[u] = work[u] \/ (work[u].pc \notin {"reload", "swap"} /\ work'[u].pc \notin {"reload", "swap", "upsert"})
  BY <1>1
<1>4. Behind' /\ Copies'  BY <1>3, SaKeepsCopies
<1>5. Singly'  BY <1>3, SaKeepsSingly
<1>6. Cached' /\ SA!SanctionedNotServed'  BY SaKeepsCached DEF SA!SanctionedNotServed
<1> QED BY <1>2, <1>4, <1>5, <1>6

LEMMA SaBegins ==
  ASSUME SaIInv, NEW w \in Workers, NEW y \in SaJobs, SA!Begin(w, y), SaJobHolds(y), y.pc \notin {"reload", "swap", "upsert"},
         UNCHANGED <<now, rows, index, ticker, tok, cached, sancHist>>
  PROVE  SaIInv'
<1>1. work[w] = SA!Idle /\ budget > 0 /\ budget' = budget - 1 /\ work' = [work EXCEPT ![w] = y]  BY DEF SA!Begin
<1>2. work[w].pc = "idle"  BY <1>1, SaAtWork DEF SaIInv
<1>3. budget' \in 0..Starts["SA"]  BY <1>1, SaAssumed DEF SaIInv, SaTyped
<1> QED BY <1>1, <1>2, <1>3, SaAside

LEMMA SaUpsertFails == ASSUME SaIInv, NEW w \in Workers, SA!UpsertFails(w) PROVE SaIInv'
<1>1. /\ work[w].pc = "upsert" /\ work' = [work EXCEPT ![w] = SA!Idle]
      /\ UNCHANGED <<now, budget, rows, index, tok, cached, ownerBanned, ticker, sancHist>>
  BY DEF SA!UpsertFails, SA!Done, SA!At, SA!tokenSide
<1>2. SaJobHolds(SA!Idle) /\ SA!Idle.pc = "idle"  BY SaAtWork DEF SaIInv
<1>3. budget' \in 0..Starts["SA"]  BY <1>1 DEF SaIInv, SaTyped
<1> QED BY <1>1, <1>2, <1>3, SaAside

LEMMA SaCreates == ASSUME SaIInv, NEW w \in Workers, SA!AdminCreateSanction(w) PROVE SaIInv'
<1>1. PICK k \in SanctionKinds, f \in Strengths, d \in {0, 1} :
        SA!Begin(w, [SA!Job("apply", "look") EXCEPT !.kind = k, !.factor = IF k \in SA!Disabling THEN 0 ELSE f,
                                             !.until = IF d = 0 THEN 0 ELSE now + d, !.sync = TRUE])
  BY DEF SA!AdminCreateSanction
<1> DEFINE y == [SA!Job("apply", "look") EXCEPT !.kind = k, !.factor = IF k \in SA!Disabling THEN 0 ELSE f,
                                             !.until = IF d = 0 THEN 0 ELSE now + d, !.sync = TRUE]
<1>2. UNCHANGED <<now, rows, index, tok, cached, ticker, sancHist>>  BY DEF SA!AdminCreateSanction, SA!tokenSide
<1>3. y \in SaJobs /\ y.pc = "look" /\ y.kind = k
  <2>1. now \in Nat  BY SaRowsTyped DEF SaIInv
  <2> DEFINE j == SA!Job("apply", "look")
             g == IF k \in SA!Disabling THEN 0 ELSE f
             u == IF d = 0 THEN 0 ELSE now + d
             z == [j EXCEPT !.kind = k, !.factor = g]
  <2>2. j \in SaJobs /\ j.pc = "look"  BY SaNewJob DEF SaOps, SaPcs
  <2>3. g \in Strengths \cup {0} /\ u \in Nat  BY <2>1
  <2>4. y = [z EXCEPT !.until = u, !.sync = TRUE]  OBVIOUS
  <2> HIDE DEF j, g, u
  <2>5. z \in SaJobs /\ z.pc = "look" /\ z.kind = k  BY <2>2, <2>3 DEF SaJobs
  <2> HIDE DEF z, y
  <2>6. y \in SaJobs /\ y.pc = "look" /\ y.kind = k  BY <2>3, <2>4, <2>5 DEF SaJobs
  <2> QED BY <2>6
<1>4. SA!Begin(w, y)  BY <1>1
<1> HIDE DEF y
<1>5. SaJobHolds(y)  BY <1>3 DEF SaJobHolds
<1> QED BY <1>2, <1>3, <1>4, <1>5, SaBegins

LEMMA SaRevokes == ASSUME SaIInv, NEW w \in Workers, SA!AdminRevokeSanction(w) PROVE SaIInv'
<1>1. PICK i \in DOMAIN rows :
        rows[i] # None /\ SA!Begin(w, [SA!Job("revoke", "delete") EXCEPT !.id = i, !.kind = rows[i].kind])
  BY DEF SA!AdminRevokeSanction
<1> DEFINE y == [SA!Job("revoke", "delete") EXCEPT !.id = i, !.kind = rows[i].kind]
<1>2. UNCHANGED <<now, rows, index, tok, cached, ticker, sancHist>>  BY DEF SA!AdminRevokeSanction, SA!tokenSide
<1>3. y \in SaJobs /\ y.pc = "delete" /\ y.id = i
  <2>1. rows[i] \in SaRows /\ i \in Nat  BY <1>1, SaRowsTyped DEF SaIInv
  <2>2. SA!Job("revoke", "delete") \in SaJobs /\ SA!Job("revoke", "delete").pc = "delete"  BY SaNewJob DEF SaOps, SaPcs
  <2> QED BY <2>1, <2>2 DEF SaJobs, SaRows
<1>4. SA!Begin(w, y)  BY <1>1
<1> HIDE DEF y
<1>5. SaJobHolds(y)  BY <1>3 DEF SaJobHolds
<1> QED BY <1>2, <1>3, <1>4, <1>5, SaBegins

LEMMA SaUpdates == ASSUME SaIInv, NEW w \in Workers, SA!UpdateToken(w) PROVE SaIInv'
<1>1. PICK a \in BOOLEAN : SA!Begin(w, [SA!Job("update", "save") EXCEPT !.copy = a])  BY DEF SA!UpdateToken
<1> DEFINE y == [SA!Job("update", "save") EXCEPT !.copy = a]
<1>2. UNCHANGED <<now, rows, index, tok, cached, ticker, sancHist>>  BY DEF SA!UpdateToken, SA!tokenSide
<1>3. y \in SaJobs /\ y.pc = "save"
  <2>1. SA!Job("update", "save") \in SaJobs /\ SA!Job("update", "save").pc = "save"  BY SaNewJob DEF SaOps, SaPcs
  <2> QED BY <2>1 DEF SaJobs
<1>4. SA!Begin(w, y)  BY <1>1
<1> HIDE DEF y
<1>5. SaJobHolds(y)  BY <1>3 DEF SaJobHolds
<1> QED BY <1>2, <1>3, <1>4, <1>5, SaBegins

LEMMA SaLooksUp == ASSUME SaIInv, NEW w \in Workers, SA!GetTokenByKey(w) PROVE SaIInv'
<1> DEFINE y == [SA!Job("call", "setCache") EXCEPT !.copy = tok.active]
<1>1. SA!Begin(w, y)  BY DEF SA!GetTokenByKey
<1>2. UNCHANGED <<now, rows, index, tok, cached, ticker, sancHist>>  BY DEF SA!GetTokenByKey, SA!tokenSide
<1>3. y \in SaJobs /\ y.pc = "setCache"
  <2>1. SA!Job("call", "setCache") \in SaJobs /\ SA!Job("call", "setCache").pc = "setCache"  BY SaNewJob DEF SaOps, SaPcs
  <2>2. tok.active \in BOOLEAN  BY DEF SaIInv, SaTyped
  <2> QED BY <2>1, <2>2 DEF SaJobs
<1> HIDE DEF y
<1>5. SaJobHolds(y)  BY <1>3 DEF SaJobHolds
<1> QED BY <1>1, <1>2, <1>3, <1>5, SaBegins

LEMMA SaLooks == ASSUME SaIInv, NEW w \in Workers, SA!ApplyLook(w) PROVE SaIInv'
<1> USE DEF SaIInv
<1> DEFINE same == {i \in DOMAIN rows : rows[i] # None /\ rows[i].kind = work[w].kind}
           i == IF same = {} THEN None ELSE CHOOSE n \in same : \A j \in same : n <= j
           b == \A v \in Workers \ {w} : ~(work[v].pc = "upsert" /\ work[v].kind = work[w].kind)
           y == [work[w] EXCEPT !.pc = "upsert", !.id = i, !.alone = b]
<1>1. /\ work[w].pc = "look" /\ work' = [work EXCEPT ![w].pc = "upsert", ![w].id = i, ![w].alone = b]
      /\ UNCHANGED <<now, budget, rows, index, tok, cached, ownerBanned, ticker, sancHist>>
  BY DEF SA!ApplyLook, SA!At, SA!tokenSide
<1>3. work[w] \in SaJobs /\ work[w].kind \in SanctionKinds  BY <1>1, SaAtWork DEF SaTyped, SaJobHolds
<1>4. b \in BOOLEAN  OBVIOUS
<1>5. same = OfKind(work[w].kind) /\ same \subseteq DOMAIN rows /\ same \subseteq Nat  BY SaRowsTyped DEF OfKind
<1>6. /\ same = {} => i = None
      /\ same # {} => i \in same
  <2>1. CASE same # {}
    <3>1. \E n \in same : \A j \in same : n <= j  BY <1>5, <2>1, Least
    <3> QED BY <2>1, <3>1
  <2> QED BY <2>1
<1> HIDE DEF i, b, same
<1>2. work' = [work EXCEPT ![w] = y]  BY <1>1 DEF SaTyped
<1>7. i \in Nat \cup {None} /\ (i # None => i \in same)  BY <1>5, <1>6
<1>8. y \in SaJobs /\ y.pc = "upsert" /\ y.id = i /\ y.kind = work[w].kind
  <2> DEFINE z == [work[w] EXCEPT !.pc = "upsert", !.id = i]
  <2>1. z \in SaJobs /\ z.pc = "upsert" /\ z.id = i /\ z.kind = work[w].kind  BY <1>3, <1>7 DEF SaJobs, SaPcs
  <2>2. y = [z EXCEPT !.alone = b]  OBVIOUS
  <2> HIDE DEF y, z
  <2> QED BY <1>4, <2>1, <2>2 DEF SaJobs
<1> HIDE DEF y
<1>9. SaJobHolds(y)  BY <1>3, <1>5, <1>7, <1>8 DEF SaJobHolds
<1>10. /\ work' \in [Workers -> SaJobs \cup {SA!Idle}] /\ \A u \in Workers : SaJobHolds(work[u])'
       /\ work'[w] = y /\ \A u \in Workers \ {w} : work'[u] = work[u]
  BY <1>1, <1>2, <1>8, <1>9, SaTakes
<1>11. SaTyped'  BY <1>1, <1>10 DEF SaTyped
<1>12. Behind' /\ Copies'
  <2>1. \A u \in Workers : work'[u] = work[u] \/ (work[u].pc \notin {"reload", "swap"} /\ work'[u].pc \notin {"reload", "swap"})
    BY <1>1, <1>8, <1>10
  <2> QED BY <1>1, <2>1, SaKeepsCopies
<1>13. Singly'
  <2>1. \A k : OfKind(k)' = OfKind(k)  BY <1>1 DEF OfKind
  <2>2. ~sancHist.raced /\ ~sancHist.returned => Knows(y)
    <3> SUFFICES ASSUME ~sancHist.raced, ~sancHist.returned PROVE Knows(y)  OBVIOUS
    <3>1. CASE i = None  BY <1>5, <1>6, <1>8, <3>1, SaAssumed DEF Knows
    <3>2. CASE i # None
      <4>1. i \in OfKind(work[w].kind)  BY <1>5, <1>7, <3>2
      <4>2. OfKind(work[w].kind) \subseteq {i}  BY <4>1 DEF Singly, OfKind
      <4>3. rows[i].kind = work[w].kind  BY <4>1 DEF OfKind
      <4> QED BY <1>8, <3>2, <4>2, <4>3 DEF Knows
    <3> QED BY <3>1, <3>2
  <2>3. \A u \in Workers : ~sancHist.raced /\ ~sancHist.returned /\ work'[u].pc = "upsert" /\ work'[u].alone => Knows(work'[u])
    BY <1>10, <2>2 DEF Singly, SA!At
  <2>4. \A u \in Workers : ~sancHist.raced /\ ~sancHist.returned /\ work'[u].pc = "upsert" /\ work'[u].alone => Knows(work[u])'
    BY <1>1, <2>1, <2>3 DEF Knows
  <2> QED BY <1>1, <2>4 DEF Singly, SA!At
<1>14. Cached' /\ SA!SanctionedNotServed'  BY <1>1, SaKeepsCached DEF SA!SanctionedNotServed
<1> QED BY <1>11, <1>12, <1>13, <1>14

\* A write of the table outdates the index, and the copies of it that are under way.
LEMMA SaOutdates ==
  ASSUME SaTyped, NEW w \in Workers, NEW rs, NEW y, SA!WriteTable(rs, w, y), y.pc = "reload", y \in SaJobs,
         rs \in Seq(SaRows \cup {None}), DOMAIN rows \subseteq DOMAIN rs
  PROVE  /\ rows' = rs
         /\ DOMAIN index' = {"view", "fresh"} /\ index'.fresh = FALSE
         /\ ticker' \in [pc : {"wait", "swap"}, list : SaLists, fresh : BOOLEAN] /\ ticker'.pc = ticker.pc /\ (ticker'.pc = "swap" => ~ticker'.fresh)
         /\ work' \in [Workers -> SaJobs \cup {SA!Idle}] /\ work'[w] = y
         /\ \A u \in Workers \ {w} : /\ work'[u].pc = work[u].pc
                                     /\ work'[u].pc = "swap" => ~work'[u].fresh
                                     /\ work'[u].pc # "swap" => work'[u] = work[u]
         /\ \A u \in Workers : SaJobHolds(work[u])'
<1>1. /\ rows' = rs /\ index' = [index EXCEPT !.fresh = FALSE]
      /\ ticker' = [ticker EXCEPT !.fresh = @ /\ ticker.pc = "wait"]
      /\ work' = [SA!Outdated EXCEPT ![w] = y]
  BY DEF SA!WriteTable
<1>2. DOMAIN index' = {"view", "fresh"} /\ index'.fresh = FALSE  BY <1>1 DEF SaTyped
<1>3. ticker' \in [pc : {"wait", "swap"}, list : SaLists, fresh : BOOLEAN] /\ ticker'.pc = ticker.pc /\ (ticker'.pc = "swap" => ~ticker'.fresh)
  <2> DEFINE b == ticker.fresh /\ ticker.pc = "wait"
  <2>1. b \in BOOLEAN /\ ticker' = [ticker EXCEPT !.fresh = b] /\ (ticker.pc = "swap" => ~b)  BY <1>1
  <2> HIDE DEF b
  <2> QED BY <2>1 DEF SaTyped
<1> DEFINE o(u) == IF work[u].pc = "swap" THEN [work[u] EXCEPT !.fresh = FALSE] ELSE work[u]
<1>4. SA!Outdated = [u \in Workers |-> o(u)]  BY DEF SA!Outdated, SA!At
<1>5. \A u \in Workers : /\ o(u) \in SaJobs \cup {SA!Idle} /\ o(u).pc = work[u].pc
                         /\ (o(u).pc = "swap" => ~o(u).fresh /\ o(u).list = work[u].list) /\ (o(u).pc # "swap" => o(u) = work[u])
  <2> SUFFICES ASSUME NEW u \in Workers
               PROVE  /\ o(u) \in SaJobs \cup {SA!Idle} /\ o(u).pc = work[u].pc
                      /\ (o(u).pc = "swap" => ~o(u).fresh /\ o(u).list = work[u].list) /\ (o(u).pc # "swap" => o(u) = work[u])
    OBVIOUS
  <2>1. CASE work[u].pc = "swap"
    <3>1. work[u] \in SaJobs  BY <2>1, SaAtWork
    <3> QED BY <2>1, <3>1 DEF SaJobs
  <2>2. CASE work[u].pc # "swap"  BY <2>2 DEF SaTyped
  <2> QED BY <2>1, <2>2
<1> HIDE DEF o
<1>6. work' \in [Workers -> SaJobs \cup {SA!Idle}] /\ work'[w] = y /\ \A u \in Workers \ {w} : work'[u] = o(u)
  BY <1>1, <1>4, <1>5
<1>7. \A u \in Workers : SaJobHolds(work[u])'
  <2>1. \A u \in Workers : SaJobHolds(work[u])  BY DEF SaTyped
  <2>2. SaJobHolds(work[w])'  BY <1>6 DEF SaJobHolds
  <2>3. ASSUME NEW u \in Workers \ {w} PROVE SaJobHolds(work[u])'
    <3>1. CASE work[u].pc = "swap"  BY <1>5, <1>6, <2>1, <3>1 DEF SaJobHolds
    <3>2. CASE work[u].pc # "swap"
      <4>1. work'[u] = work[u]  BY <1>5, <1>6, <3>2
      <4> QED BY <1>1, <2>1, <4>1 DEF SaJobHolds
    <3> QED BY <3>1, <3>2
  <2> QED BY <2>2, <2>3
<1> QED BY <1>1, <1>2, <1>3, <1>5, <1>6, <1>7

\* So the index lags behind with a reload on its way, and no copy claims to be fresh.
LEMMA SaLags ==
  ASSUME NEW w \in Workers, work'[w].pc = "reload", index'.fresh = FALSE,
         \A u \in Workers : work'[u].pc = "swap" => ~work'[u].fresh,
         ticker'.pc = "swap" => ~ticker'.fresh
  PROVE  Behind' /\ Copies'
BY DEF Behind, Copies, SA!Reloading, SA!At

LEMMA SaPuts ==
  ASSUME SaTyped, NEW i \in DOMAIN rows \cup {Len(rows) + 1}, NEW r \in SaRows
  PROVE  /\ SA!Put(rows, i, r) \in Seq(SaRows \cup {None})
         /\ DOMAIN SA!Put(rows, i, r) = DOMAIN rows \cup {i}
         /\ SA!Put(rows, i, r)[i] = r
         /\ \A j \in DOMAIN rows \ {i} : SA!Put(rows, i, r)[j] = rows[j]
<1>1. Len(rows) \in Nat /\ DOMAIN rows = 1..Len(rows) /\ rows \in Seq(SaRows \cup {None})  BY SaRowsTyped DEF SaTyped
<1>2. CASE i = Len(rows) + 1
  <2>1. SA!Put(rows, i, r) = Append(rows, r)  BY <1>2 DEF SA!Put
  <2>2. Append(rows, r) \in Seq(SaRows \cup {None})  BY <1>1
  <2>3. /\ DOMAIN Append(rows, r) = 1..(Len(rows) + 1) /\ Append(rows, r)[Len(rows) + 1] = r
        /\ \A j \in 1..Len(rows) : Append(rows, r)[j] = rows[j]
    BY <1>1
  <2>4. 1..(Len(rows) + 1) = 1..Len(rows) \cup {i} /\ i \notin 1..Len(rows)  BY <1>1, <1>2
  <2> QED BY <1>1, <1>2, <2>1, <2>2, <2>3, <2>4
<1>3. CASE i # Len(rows) + 1
  <2>1. i \in 1..Len(rows) /\ SA!Put(rows, i, r) = [rows EXCEPT ![i] = r]  BY <1>1, <1>3 DEF SA!Put
  <2>2. [rows EXCEPT ![i] = r] \in Seq(SaRows \cup {None})  BY <1>1, <2>1, ExceptSeq
  <2> QED BY <1>1, <2>1, <2>2
<1> QED BY <1>2, <1>3

LEMMA SaUpserts == ASSUME SaIInv, NEW w \in Workers, SA!UpsertSanction(w) PROVE SaIInv'
<1> USE DEF SaIInv
<1> DEFINE job == work[w]
           i == IF job.id = None THEN Len(rows) + 1 ELSE job.id
           r == [kind |-> job.kind, factor |-> job.factor, until |-> job.until]
           y == [job EXCEPT !.pc = "reload", !.id = None, !.alone = TRUE]
           rs == SA!Put(rows, i, r)
           raced == sancHist.raced \/ ~job.alone \/ \E v \in Workers \ {w} : work[v].pc = "upsert" /\ work[v].kind = job.kind
           returned == sancHist.returned \/ (job.id # None /\ rows[i] = None)
<1>1. /\ job.pc = "upsert" /\ SA!WriteTable(rs, w, y)
      /\ sancHist' = [sancHist EXCEPT !.raced = raced, !.returned = returned]
      /\ UNCHANGED <<now, budget, tok, cached, ownerBanned>>
  BY DEF SA!UpsertSanction, SA!At, SA!tokenSide
<1>2. job \in SaJobs /\ job.kind \in SanctionKinds /\ (job.id = None \/ job.id \in DOMAIN rows)
  BY <1>1, SaAtWork DEF SaTyped, SaJobHolds
<1>3. r \in SaRows /\ r.kind = job.kind  BY <1>2 DEF SaJobs, SaRows
<1>4. Len(rows) \in Nat /\ DOMAIN rows = 1..Len(rows) /\ i \in DOMAIN rows \cup {Len(rows) + 1}
  BY <1>2, SaRowsTyped
<1>5. y \in SaJobs /\ y.pc = "reload"
  <2> DEFINE z == [job EXCEPT !.pc = "reload", !.id = None]
  <2>1. z \in SaJobs /\ z.pc = "reload"  BY <1>2 DEF SaJobs, SaPcs
  <2>2. y = [z EXCEPT !.alone = TRUE]  OBVIOUS
  <2> HIDE DEF y, z
  <2> QED BY <2>1, <2>2 DEF SaJobs
<1>6. raced \in BOOLEAN /\ returned \in BOOLEAN
  <2>1. sancHist.raced \in BOOLEAN /\ sancHist.returned \in BOOLEAN  BY DEF SaTyped, SaHists
  <2> QED BY <2>1
<1>7. /\ rs \in Seq(SaRows \cup {None}) /\ DOMAIN rs = DOMAIN rows \cup {i} /\ rs[i] = r
      /\ \A j \in DOMAIN rows \ {i} : rs[j] = rows[j]
  BY <1>3, <1>4, SaPuts
<1>8. /\ ~raced => ~sancHist.raced /\ job.alone /\ \A v \in Workers \ {w} : ~(work[v].pc = "upsert" /\ work[v].kind = job.kind)
      /\ ~returned => ~sancHist.returned /\ (job.id # None => rows[i] # None)
  OBVIOUS
<1>9. (job.id = None => i = Len(rows) + 1) /\ (job.id # None => i = job.id)  OBVIOUS
<1> HIDE DEF i, r, y, rs, raced, returned
<1>10. /\ rows' = rs
       /\ DOMAIN index' = {"view", "fresh"} /\ index'.fresh = FALSE
       /\ ticker' \in [pc : {"wait", "swap"}, list : SaLists, fresh : BOOLEAN] /\ ticker'.pc = ticker.pc /\ (ticker'.pc = "swap" => ~ticker'.fresh)
       /\ work' \in [Workers -> SaJobs \cup {SA!Idle}] /\ work'[w] = y
       /\ \A u \in Workers \ {w} : /\ work'[u].pc = work[u].pc
                                   /\ work'[u].pc = "swap" => ~work'[u].fresh
                                   /\ work'[u].pc # "swap" => work'[u] = work[u]
       /\ \A u \in Workers : SaJobHolds(work[u])'
  <2>1. DOMAIN rows \subseteq DOMAIN rs  BY <1>7
  <2> QED BY <1>1, <1>5, <1>7, <2>1, SaOutdates
<1>11. /\ sancHist' \in SaHists /\ sancHist'.raced = raced /\ sancHist'.returned = returned
       /\ sancHist'.offSince = sancHist.offSince /\ sancHist'.late = sancHist.late
       /\ sancHist'.served = sancHist.served /\ sancHist'.servedOff = sancHist.servedOff
  BY <1>1, <1>6 DEF SaTyped, SaHists
<1>12. SaTyped'  BY <1>1, <1>7, <1>10, <1>11 DEF SaTyped
<1>13. Behind' /\ Copies'
  <2>1. \A u \in Workers : work'[u].pc = "swap" => ~work'[u].fresh  BY <1>5, <1>10
  <2>2. work'[w].pc = "reload"  BY <1>5, <1>10
  <2> QED BY <1>10, <2>1, <2>2, SaLags
<1>14. Singly'
  <2> SUFFICES ASSUME ~raced, ~returned
               PROVE  /\ \A m, n \in DOMAIN rs : rs[m] # None /\ rs[n] # None /\ rs[m].kind = rs[n].kind => m = n
                      /\ \A u \in Workers : work'[u].pc = "upsert" /\ work'[u].alone => Knows(work[u])'
    BY <1>10, <1>11 DEF Singly, SA!At
  <2>1. Knows(job)  BY <1>1, <1>8 DEF Singly, SA!At
  <2>2. OfKind(job.kind) \subseteq {i}  BY <1>9, <2>1 DEF Knows
  <2>3. \A m \in DOMAIN rs : rs[m] # None /\ rs[m].kind = job.kind => m = i
    BY <1>7, <2>2 DEF OfKind
  <2>4. ASSUME NEW m \in DOMAIN rs, NEW n \in DOMAIN rs, rs[m] # None, rs[n] # None, rs[m].kind = rs[n].kind PROVE m = n
    <3>1. CASE rs[m].kind = job.kind  BY <2>3, <2>4, <3>1
    <3>2. CASE rs[m].kind # job.kind
      <4>1. m # i /\ n # i  BY <1>3, <1>7, <2>4, <3>2
      <4> QED BY <1>7, <1>8, <2>4, <4>1 DEF Singly
    <3> QED BY <3>1, <3>2
  <2>5. ASSUME NEW k, k # job.kind PROVE OfKind(k)' = OfKind(k)
    <3>1. OfKind(k)' = {j \in DOMAIN rs : rs[j] # None /\ rs[j].kind = k}  BY <1>10 DEF OfKind
    <3>2. i \in DOMAIN rows => rows[i] = None \/ rows[i].kind = job.kind
      <4>1. i \in DOMAIN rows => i = job.id /\ job.id # None  BY <1>4, <1>9
      <4> QED BY <2>1, <4>1 DEF Knows
    <3>3. \A j \in DOMAIN rs : rs[j] # None /\ rs[j].kind = k <=> j \in OfKind(k)
      BY <1>3, <1>7, <2>5, <3>2 DEF OfKind
    <3>4. OfKind(k) \subseteq DOMAIN rs  BY <1>7 DEF OfKind
    <3> QED BY <3>1, <3>3, <3>4
  <2>6. ASSUME NEW u \in Workers, work'[u].pc = "upsert", work'[u].alone PROVE Knows(work[u])'
    <3>1. u # w /\ work'[u] = work[u] /\ work[u].kind # job.kind  BY <1>5, <1>8, <1>10, <2>6
    <3>2. Knows(work[u])  BY <1>8, <2>6, <3>1 DEF Singly, SA!At
    <3>3. work[u].id # None => work[u].id \in DOMAIN rows  BY <2>6, <3>1 DEF SaTyped, SaJobHolds
    <3>4. OfKind(work[u].kind)' = OfKind(work[u].kind)
      <4> DEFINE k == work[u].kind
      <4>1. {j \in DOMAIN rows' : rows'[j] # None /\ rows'[j].kind = k} = {j \in DOMAIN rows : rows[j] # None /\ rows[j].kind = k}
        <5> HIDE DEF k
        <5> k # job.kind  BY <3>1 DEF k
        <5> QED BY <2>5 DEF OfKind
      <4> QED BY <3>1, <4>1 DEF OfKind
    <3>5. ASSUME work[u].id # None PROVE work[u].id # i
      <4>1. CASE job.id = None  BY <1>4, <1>9, <3>3, <3>5, <4>1
      <4>2. CASE job.id # None
        <5>1. rows[i] # None /\ rows[i].kind = job.kind  BY <1>8, <1>9, <2>1, <4>2 DEF Knows
        <5> QED BY <3>1, <3>2, <3>5, <5>1 DEF Knows
      <4> QED BY <4>1, <4>2
    <3>6. work[u].id # None => rows'[work[u].id] = rows[work[u].id]  BY <1>7, <1>10, <3>3, <3>5
    <3> QED BY <3>1, <3>2, <3>4, <3>6 DEF Knows
  <2> QED BY <2>4, <2>6
<1>15. Cached' /\ SA!SanctionedNotServed'  BY <1>1, <1>11, SaKeepsCached DEF SA!SanctionedNotServed
<1> QED BY <1>12, <1>13, <1>14, <1>15

\* What a job goes on with after its reload.
LEMMA SaAfter ==
  ASSUME NEW j \in SaJobs
  PROVE  /\ SA!AfterReload(j) \in SaJobs \cup {SA!Idle}
         /\ SA!AfterReload(j).pc \in {"restore", "sync", "idle"}
<1> DEFINE y(p) == [j EXCEPT !.pc = p, !.list = None, !.fresh = TRUE]
<1>1. ASSUME NEW p \in {"restore", "sync"} PROVE y(p) \in SaJobs /\ y(p).pc = p
  <2> DEFINE z == [j EXCEPT !.pc = p, !.list = None]
  <2>1. z \in SaJobs /\ z.pc = p  BY DEF SaJobs, SaPcs
  <2>2. y(p) = [z EXCEPT !.fresh = TRUE]  OBVIOUS
  <2> HIDE DEF y, z
  <2> QED BY <2>1, <2>2 DEF SaJobs
<1>2. SA!AfterReload(j) \in {y("restore"), y("sync"), SA!Idle}  BY DEF SA!AfterReload
<1> HIDE DEF y
<1> QED BY <1>1, <1>2 DEF SA!Idle

LEMMA SaReads == ASSUME SaIInv, NEW w \in Workers, SA!ReloadNow(w) PROVE SaIInv'
<1> USE DEF SaIInv
<1> DEFINE list == SA!GetActiveSanctions
           y == [work[w] EXCEPT !.pc = "swap", !.list = list, !.fresh = TRUE]
           z == SA!AfterReload(work[w])
<1>1. /\ work[w].pc = "reload"
      /\ UNCHANGED <<now, budget, rows, index, tok, cached, ownerBanned, ticker>>
  BY DEF SA!ReloadNow, SA!At, SA!tokenSide
<1>2. work[w] \in SaJobs  BY <1>1, SaAtWork
<1>3. list \in SaLists /\ Holds(list)  BY ReadList
<1>4. CASE work' = [work EXCEPT ![w].pc = "swap", ![w].list = list, ![w].fresh = TRUE] /\ sancHist' = sancHist
  <2> HIDE DEF list
  <2>1. work' = [work EXCEPT ![w] = y]  BY <1>4 DEF SaTyped
  <2>2. y \in SaJobs /\ y.pc = "swap" /\ y.list = list
    <3> DEFINE x == [work[w] EXCEPT !.pc = "swap", !.list = list]
    <3>1. x \in SaJobs /\ x.pc = "swap" /\ x.list = list  BY <1>2, <1>3 DEF SaJobs, SaPcs
    <3>2. y = [x EXCEPT !.fresh = TRUE]  OBVIOUS
    <3> HIDE DEF x, y
    <3> QED BY <3>1, <3>2 DEF SaJobs
  <2> HIDE DEF y
  <2>3. SaJobHolds(y)  BY <1>3, <2>2 DEF SaJobHolds
  <2>4. /\ work' \in [Workers -> SaJobs \cup {SA!Idle}] /\ \A u \in Workers : SaJobHolds(work[u])'
        /\ work'[w] = y /\ \A u \in Workers \ {w} : work'[u] = work[u]
    BY <1>1, <2>1, <2>2, <2>3, SaTakes
  <2>5. SaTyped'  BY <1>1, <1>4, <2>4 DEF SaTyped
  <2>6. Behind'  BY <2>2, <2>4 DEF Behind, SA!Reloading
  <2>7. Copies'
    <3>1. SA!LiveRows(rows, now)' = SA!LiveRows(rows, now)  BY <1>1 DEF SA!LiveRows
    <3>2. \A u \in Workers : work'[u].pc = "swap" /\ work'[u].fresh => Holds(work'[u].list)
      BY <1>3, <2>2, <2>4 DEF Copies, SA!At
    <3>3. \A u \in Workers : work'[u].pc = "swap" /\ work'[u].fresh => Holds(work[u].list)'
      BY <1>1, <3>1, <3>2 DEF Holds
    <3> QED BY <1>1, <3>1, <3>3 DEF Copies, SA!At, Holds
  <2>8. Singly'
    <3>1. \A u \in Workers : work'[u] = work[u] \/ work'[u].pc # "upsert"  BY <2>2, <2>4
    <3> QED BY <1>1, <1>4, <3>1, SaKeepsSingly
  <2>9. Cached' /\ SA!SanctionedNotServed'  BY <1>1, <1>4, SaKeepsCached DEF SA!SanctionedNotServed
  <2> QED BY <2>5, <2>6, <2>7, <2>8, <2>9
<1>5. CASE work' = [work EXCEPT ![w] = z] /\ sancHist' = [sancHist EXCEPT !.failed = TRUE]
  <2>2. z \in SaJobs \cup {SA!Idle} /\ z.pc \in {"restore", "sync", "idle"}  BY <1>2, SaAfter
  <2> HIDE DEF z, list
  <2>3. SaJobHolds(z)  BY <2>2 DEF SaJobHolds
  <2>4. /\ work' \in [Workers -> SaJobs \cup {SA!Idle}] /\ \A u \in Workers : SaJobHolds(work[u])'
        /\ work'[w] = z /\ \A u \in Workers \ {w} : work'[u] = work[u]
    BY <1>1, <1>5, <2>2, <2>3, SaTakes
  <2>5. /\ sancHist' \in SaHists /\ sancHist'.failed /\ sancHist'.raced = sancHist.raced /\ sancHist'.returned = sancHist.returned
        /\ sancHist'.offSince = sancHist.offSince /\ sancHist'.late = sancHist.late
        /\ sancHist'.served = sancHist.served /\ sancHist'.servedOff = sancHist.servedOff
    BY <1>5 DEF SaTyped, SaHists
  <2>6. SaTyped'  BY <1>1, <2>4, <2>5 DEF SaTyped
  <2>7. Behind'  BY <2>5 DEF Behind
  <2>8. Copies'
    <3>1. SA!LiveRows(rows, now)' = SA!LiveRows(rows, now)  BY <1>1 DEF SA!LiveRows
    <3>2. \A u \in Workers : work'[u].pc = "swap" /\ work'[u].fresh => Holds(work'[u].list)
      BY <2>2, <2>4 DEF Copies, SA!At
    <3>3. \A u \in Workers : work'[u].pc = "swap" /\ work'[u].fresh => Holds(work[u].list)'
      BY <1>1, <3>1, <3>2 DEF Holds
    <3> QED BY <1>1, <3>1, <3>3 DEF Copies, SA!At, Holds
  <2>9. Singly'
    <3>1. \A u \in Workers : work'[u] = work[u] \/ work'[u].pc # "upsert"  BY <2>2, <2>4
    <3> QED BY <1>1, <2>5, <3>1, SaKeepsSingly
  <2>10. Cached' /\ SA!SanctionedNotServed'  BY <1>1, <2>5, SaKeepsCached DEF SA!SanctionedNotServed
  <2> QED BY <2>6, <2>7, <2>8, <2>9, <2>10
<1> QED BY <1>4, <1>5 DEF SA!ReloadNow

\* A list that holds every row in force makes an index that knows their kinds.
LEMMA SaInstalls ==
  ASSUME SaTyped, NEW list, NEW fresh \in BOOLEAN, SA!Install(list, fresh), fresh => Holds(list), UNCHANGED <<now, rows>>
  PROVE  /\ DOMAIN index' = {"view", "fresh"} /\ index'.fresh = fresh
         /\ fresh => \A i \in SA!LiveRows(rows, now) : rows[i].kind \in DOMAIN index'.view
         /\ sancHist' \in SaHists /\ sancHist'.overtaken = ~fresh
         /\ sancHist'.raced = sancHist.raced /\ sancHist'.returned = sancHist.returned
         /\ sancHist'.offSince = sancHist.offSince /\ sancHist'.late = sancHist.late
         /\ sancHist'.served = sancHist.served /\ sancHist'.servedOff = sancHist.servedOff
<1> DEFINE v == SA!BuildIndex(list)
           f == sancHist.failed /\ ~fresh
<1>1. index' = [view |-> v, fresh |-> fresh] /\ sancHist' = [sancHist EXCEPT !.overtaken = ~fresh, !.failed = f]
  BY DEF SA!Install
<1>2. DOMAIN v = {list[i].kind : i \in DOMAIN list}  BY BuiltKinds
<1>3. fresh => \A i \in SA!LiveRows(rows, now) : rows[i].kind \in DOMAIN v  BY <1>2 DEF Holds
<1>4. f \in BOOLEAN  OBVIOUS
<1> HIDE DEF v, f
<1> QED BY <1>1, <1>3, <1>4 DEF SaTyped, SaHists

LEMMA SaReloads == ASSUME SaIInv, NEW w \in Workers, SA!Reload(w) PROVE SaIInv'
<1> USE DEF SaIInv
<1> DEFINE list == work[w].list
           fresh == work[w].fresh
           z == SA!AfterReload(work[w])
<1>1. /\ work[w].pc = "swap" /\ SA!Install(list, fresh) /\ work' = [work EXCEPT ![w] = z]
      /\ UNCHANGED <<now, budget, rows, tok, cached, ownerBanned, ticker>>
  BY DEF SA!Reload, SA!At, SA!tokenSide
<1>2. work[w] \in SaJobs  BY <1>1, SaAtWork
<1>3. fresh \in BOOLEAN /\ (fresh => Holds(list))  BY <1>1, <1>2 DEF Copies, SA!At, SaJobs
<1>4. z \in SaJobs \cup {SA!Idle} /\ z.pc \in {"restore", "sync", "idle"}  BY <1>2, SaAfter
<1> HIDE DEF z, list, fresh
<1>5. SaJobHolds(z)  BY <1>4 DEF SaJobHolds
<1>6. /\ work' \in [Workers -> SaJobs \cup {SA!Idle}] /\ \A u \in Workers : SaJobHolds(work[u])'
      /\ work'[w] = z /\ \A u \in Workers \ {w} : work'[u] = work[u]
  BY <1>1, <1>4, <1>5, SaTakes
<1>7. /\ DOMAIN index' = {"view", "fresh"} /\ index'.fresh = fresh
      /\ fresh => \A i \in SA!LiveRows(rows, now) : rows[i].kind \in DOMAIN index'.view
      /\ sancHist' \in SaHists /\ sancHist'.overtaken = ~fresh
      /\ sancHist'.raced = sancHist.raced /\ sancHist'.returned = sancHist.returned
      /\ sancHist'.offSince = sancHist.offSince /\ sancHist'.late = sancHist.late
      /\ sancHist'.served = sancHist.served /\ sancHist'.servedOff = sancHist.servedOff
  BY <1>1, <1>3, SaInstalls
<1>8. SaTyped'  BY <1>1, <1>3, <1>6, <1>7 DEF SaTyped
<1>9. Behind'  BY <1>7 DEF Behind
<1>10. Copies'
  <2>1. SA!LiveRows(rows, now)' = SA!LiveRows(rows, now)  BY <1>1 DEF SA!LiveRows
  <2>2. \A u \in Workers : work'[u].pc = "swap" /\ work'[u].fresh => Holds(work'[u].list)
    BY <1>4, <1>6 DEF Copies, SA!At
  <2>3. \A u \in Workers : work'[u].pc = "swap" /\ work'[u].fresh => Holds(work[u].list)'
    BY <1>1, <2>1, <2>2 DEF Holds
  <2> QED BY <1>1, <1>7, <2>1, <2>3 DEF Copies, SA!At, Holds
<1>11. Singly'
  <2>1. \A u \in Workers : work'[u] = work[u] \/ work'[u].pc # "upsert"  BY <1>4, <1>6
  <2> QED BY <1>1, <1>7, <2>1, SaKeepsSingly
<1>12. Cached' /\ SA!SanctionedNotServed'  BY <1>1, <1>7, SaKeepsCached DEF SA!SanctionedNotServed
<1> QED BY <1>8, <1>9, <1>10, <1>11, <1>12

LEMMA SaTicks == ASSUME SaIInv, SA!TickerSwaps PROVE SaIInv'
<1> USE DEF SaIInv
<1> DEFINE list == ticker.list
           fresh == ticker.fresh
<1>1. /\ ticker.pc = "swap" /\ SA!Install(list, fresh) /\ ticker' = [pc |-> "wait", list |-> SA!NoList, fresh |-> TRUE]
      /\ UNCHANGED <<now, budget, rows, tok, cached, ownerBanned, work>>
  BY DEF SA!TickerSwaps, SA!tokenSide
<1>3. fresh \in BOOLEAN /\ (fresh => Holds(list))  BY <1>1 DEF Copies, SaTyped
<1> HIDE DEF list, fresh
<1>7. /\ DOMAIN index' = {"view", "fresh"} /\ index'.fresh = fresh
      /\ fresh => \A i \in SA!LiveRows(rows, now) : rows[i].kind \in DOMAIN index'.view
      /\ sancHist' \in SaHists /\ sancHist'.overtaken = ~fresh
      /\ sancHist'.raced = sancHist.raced /\ sancHist'.returned = sancHist.returned
      /\ sancHist'.offSince = sancHist.offSince /\ sancHist'.late = sancHist.late
      /\ sancHist'.served = sancHist.served /\ sancHist'.servedOff = sancHist.servedOff
  BY <1>1, <1>3, SaInstalls
<1>8. SaTyped'
  <2>1. \A u \in Workers : SaJobHolds(work[u])'  BY <1>1 DEF SaTyped, SaJobHolds
  <2> QED BY <1>1, <1>3, <1>7, <2>1, NoListTyped DEF SaTyped
<1>9. Behind'  BY <1>7 DEF Behind
<1>10. Copies'
  <2>1. SA!LiveRows(rows, now)' = SA!LiveRows(rows, now)  BY <1>1 DEF SA!LiveRows
  <2>3. \A u \in Workers : work'[u].pc = "swap" /\ work'[u].fresh => Holds(work[u].list)'
    BY <1>1, <2>1 DEF Holds, Copies, SA!At
  <2> QED BY <1>1, <1>7, <2>1, <2>3 DEF Copies, SA!At
<1>11. Singly'  BY <1>1, <1>7, SaKeepsSingly
<1>12. Cached' /\ SA!SanctionedNotServed'  BY <1>1, <1>7, SaKeepsCached DEF SA!SanctionedNotServed
<1> QED BY <1>8, <1>9, <1>10, <1>11, <1>12

---------------------------------------------------------------------------
(* Sanctions: the steps on the token, the cache and the clock. *)

\* Steps that keep the table and the index, and take nobody to or from a reload.
LEMMA SaStays ==
  ASSUME SaIInv, UNCHANGED <<now, rows, index, ticker>>, budget' \in 0..Starts["SA"],
         work' \in [Workers -> SaJobs \cup {SA!Idle}], \A u \in Workers : SaJobHolds(work'[u]),
         \A u \in Workers : work'[u] = work[u] \/ (work[u].pc \notin {"reload", "swap"} /\ work'[u].pc \notin {"reload", "swap", "upsert"}),
         tok' \in [present : BOOLEAN, active : BOOLEAN], cached' \in [active : BOOLEAN, until : Nat] \cup {None},
         sancHist' \in SaHists, sancHist'.overtaken = sancHist.overtaken, sancHist'.failed = sancHist.failed,
         sancHist'.raced = sancHist.raced, sancHist'.returned = sancHist.returned,
         Cached', SA!SanctionedNotServed'
  PROVE  SaIInv'
<1> USE DEF SaIInv
<1>1. \A u \in Workers : SaJobHolds(work[u])'  BY DEF SaJobHolds
<1>2. SaTyped'  BY <1>1 DEF SaTyped
<1>3. Behind' /\ Copies'
  <2>1. \A u \in Workers : work'[u] = work[u] \/ (work[u].pc \notin {"reload", "swap"} /\ work'[u].pc \notin {"reload", "swap"})
    OBVIOUS
  <2> QED BY <2>1, SaKeepsCopies
<1>4. Singly'
  <2>1. \A u \in Workers : work'[u] = work[u] \/ work'[u].pc # "upsert"  OBVIOUS
  <2> QED BY <2>1, SaKeepsSingly
<1> QED BY <1>2, <1>3, <1>4

\* A worker's move that keeps clear of the reload and of the table.
LEMMA SaMoves ==
  ASSUME SaIInv, NEW w \in Workers, NEW y, work' = [work EXCEPT ![w] = y], y \in SaJobs \cup {SA!Idle}, SaJobHolds(y), rows' = rows,
         work[w].pc \notin {"reload", "swap"}, y.pc \notin {"reload", "swap", "upsert"}
  PROVE  /\ work' \in [Workers -> SaJobs \cup {SA!Idle}] /\ \A u \in Workers : SaJobHolds(work'[u])
         /\ \A u \in Workers : work'[u] = work[u] \/ (work[u].pc \notin {"reload", "swap"} /\ work'[u].pc \notin {"reload", "swap", "upsert"})
<1>1. SaTyped  BY DEF SaIInv
<1>2. work' \in [Workers -> SaJobs \cup {SA!Idle}] /\ work'[w] = y /\ \A u \in Workers \ {w} : work'[u] = work[u]
  BY <1>1 DEF SaTyped
<1>3. \A u \in Workers : SaJobHolds(work'[u])  BY <1>1, <1>2 DEF SaTyped
<1> QED BY <1>2, <1>3

\* Setting the status of the token starts or ends the time it is off.
LEMMA SaStatus ==
  ASSUME SaIInv, NEW p \in BOOLEAN, NEW a \in BOOLEAN, a => p, SA!Status(p, a), UNCHANGED <<now, cached>>
  PROVE  /\ tok' \in [present : BOOLEAN, active : BOOLEAN] /\ sancHist' \in SaHists
         /\ sancHist'.overtaken = sancHist.overtaken /\ sancHist'.failed = sancHist.failed
         /\ sancHist'.raced = sancHist.raced /\ sancHist'.returned = sancHist.returned
         /\ Cached' /\ SA!SanctionedNotServed'
<1> DEFINE o == IF p /\ a THEN None ELSE IF sancHist.offSince = None THEN now ELSE sancHist.offSince
<1>1. now \in Nat /\ CacheTTL \in Nat /\ None \notin Nat  BY SaRowsTyped, SaAssumed DEF SaIInv
<1>2. tok' = [present |-> p, active |-> a] /\ sancHist' = [sancHist EXCEPT !.offSince = o]  BY DEF SA!Status
<1>3. sancHist \in SaHists /\ sancHist.offSince \in Nat \cup {None}  BY DEF SaIInv, SaTyped, SaHists
<1>4. o \in Nat \cup {None} /\ (o = None <=> p /\ a)  BY <1>1, <1>3
<1>5. /\ o # None => o <= now
      /\ o = None \/ o = now \/ o = sancHist.offSince
      /\ sancHist.offSince # None => o = None \/ o = sancHist.offSince
  BY <1>1, <1>3 DEF SaIInv, Cached
<1> HIDE DEF o
<1>6. /\ sancHist' \in SaHists /\ sancHist'.offSince = o /\ sancHist'.late = sancHist.late
      /\ sancHist'.overtaken = sancHist.overtaken /\ sancHist'.failed = sancHist.failed
      /\ sancHist'.raced = sancHist.raced /\ sancHist'.returned = sancHist.returned
      /\ sancHist'.served = sancHist.served /\ sancHist'.servedOff = sancHist.servedOff
  BY <1>2, <1>3, <1>4 DEF SaHists
<1>7. tok' \in [present : BOOLEAN, active : BOOLEAN] /\ tok'.present = p /\ tok'.active = a  BY <1>2
<1>8. ASSUME cached # None, cached.active, ~sancHist.late
      PROVE  IF o = None THEN cached.until <= now + CacheTTL ELSE cached.until <= o + CacheTTL
  <2>1. cached.until \in Nat  BY <1>8 DEF SaIInv, SaTyped
  <2>2. IF sancHist.offSince = None THEN cached.until <= now + CacheTTL ELSE cached.until <= sancHist.offSince + CacheTTL
    BY <1>8 DEF SaIInv, Cached
  <2>3. sancHist.offSince # None => sancHist.offSince <= now  BY DEF SaIInv, Cached
  <2> QED BY <1>1, <1>3, <1>4, <1>5, <2>1, <2>2, <2>3
<1>9. Cached'  BY <1>4, <1>5, <1>6, <1>7, <1>8 DEF Cached
<1> QED BY <1>6, <1>7, <1>9 DEF SaIInv, SA!SanctionedNotServed

\* A worker that sets the status and is done.
LEMMA SaSets ==
  ASSUME SaIInv, NEW w \in Workers, SA!Done(w), work[w].pc \notin {"reload", "swap"},
         NEW p \in BOOLEAN, NEW a \in BOOLEAN, a => p, SA!Status(p, a), UNCHANGED <<now, budget, rows, index, ticker, cached>>
  PROVE  SaIInv'
<1>1. work' = [work EXCEPT ![w] = SA!Idle]  BY DEF SA!Done
<1>2. SaJobHolds(SA!Idle) /\ SA!Idle.pc = "idle"  BY SaAtWork DEF SaIInv
<1>3. /\ work' \in [Workers -> SaJobs \cup {SA!Idle}] /\ \A u \in Workers : SaJobHolds(work'[u])
      /\ \A u \in Workers : work'[u] = work[u] \/ (work[u].pc \notin {"reload", "swap"} /\ work'[u].pc \notin {"reload", "swap", "upsert"})
  BY <1>1, <1>2, SaMoves
<1>4. /\ tok' \in [present : BOOLEAN, active : BOOLEAN] /\ sancHist' \in SaHists
      /\ sancHist'.overtaken = sancHist.overtaken /\ sancHist'.failed = sancHist.failed
      /\ sancHist'.raced = sancHist.raced /\ sancHist'.returned = sancHist.returned
      /\ Cached' /\ SA!SanctionedNotServed'
  BY SaStatus
<1>5. budget' \in 0..Starts["SA"] /\ cached' \in [active : BOOLEAN, until : Nat] \cup {None}  BY DEF SaIInv, SaTyped
<1> QED BY <1>3, <1>4, <1>5, SaStays

\* A worker that is done and leaves the token alone.
LEMMA SaEnds ==
  ASSUME SaIInv, NEW w \in Workers, SA!Done(w), work[w].pc \notin {"reload", "swap"},
         UNCHANGED <<now, budget, rows, index, ticker, tok, cached, sancHist>>
  PROVE  SaIInv'
<1>1. work' = [work EXCEPT ![w] = SA!Idle]  BY DEF SA!Done
<1>2. SaJobHolds(SA!Idle) /\ SA!Idle.pc = "idle"  BY SaAtWork DEF SaIInv
<1>3. budget' \in 0..Starts["SA"]  BY DEF SaIInv, SaTyped
<1> QED BY <1>1, <1>2, <1>3, SaAside

LEMMA SaSyncs == ASSUME SaIInv, NEW w \in Workers, SA!syncDestructiveState(w) PROVE SaIInv'
<1>1. work[w].pc \notin {"reload", "swap"} /\ SA!Done(w) /\ UNCHANGED <<now, budget, rows, index, cached, ticker>>
  BY DEF SA!syncDestructiveState, SA!At
<1>2. CASE tok.present /\ tok' = [tok EXCEPT !.active = FALSE]
           /\ sancHist' = [sancHist EXCEPT !.offSince = IF @ = None THEN now ELSE @]
  <2>1. tok' = [present |-> TRUE, active |-> FALSE]  BY <1>2 DEF SaIInv, SaTyped
  <2>2. SA!Status(TRUE, FALSE)  BY <1>2, <2>1 DEF SA!Status
  <2> QED BY <1>1, <2>2, SaSets
<1>3. CASE UNCHANGED <<tok, sancHist>>  BY <1>1, <1>3, SaEnds
<1> QED BY <1>2, <1>3 DEF SA!syncDestructiveState

LEMMA SaRestores == ASSUME SaIInv, NEW w \in Workers, SA!restoreDestructiveState(w) PROVE SaIInv'
<1>1. work[w].pc \notin {"reload", "swap"} /\ SA!Done(w) /\ UNCHANGED <<now, budget, rows, index, cached, ticker>>
  BY DEF SA!restoreDestructiveState, SA!At
<1>2. CASE SA!Status(TRUE, TRUE)  BY <1>1, <1>2, SaSets
<1>3. CASE UNCHANGED <<tok, sancHist>>  BY <1>1, <1>3, SaEnds
<1> QED BY <1>2, <1>3 DEF SA!restoreDestructiveState

LEMMA SaExecutes == ASSUME SaIInv, NEW w \in Workers, SA!Execute(w) PROVE SaIInv'
<1>1. work[w].pc \notin {"reload", "swap"} /\ SA!Done(w) /\ UNCHANGED <<now, budget, rows, index, cached, ticker>>
  BY DEF SA!Execute, SA!At
<1>2. CASE SA!Status(TRUE, FALSE)  BY <1>1, <1>2, SaSets
<1>3. CASE UNCHANGED <<tok, sancHist>>  BY <1>1, <1>3, SaEnds
<1> QED BY <1>2, <1>3 DEF SA!Execute, SA!executeDisableToken

LEMMA SaSaves == ASSUME SaIInv, NEW w \in Workers, SA!SaveToken(w) PROVE SaIInv'
<1>1. work[w].pc = "save" /\ SA!Done(w) /\ SA!Status(TRUE, work[w].copy) /\ UNCHANGED <<now, budget, rows, index, cached, ticker>>
  BY DEF SA!SaveToken, SA!At
<1>2. work[w].copy \in BOOLEAN  BY <1>1, SaAtWork DEF SaIInv, SaJobs
<1> QED BY <1>1, <1>2, SaSets

LEMMA SaDeletes == ASSUME SaIInv, SA!DeleteToken PROVE SaIInv'
<1>1. budget > 0 /\ budget' = budget - 1 /\ SA!Status(FALSE, FALSE) /\ UNCHANGED <<now, rows, index, cached, ticker, work>>
  BY DEF SA!DeleteToken
<1>2. /\ tok' \in [present : BOOLEAN, active : BOOLEAN] /\ sancHist' \in SaHists
      /\ sancHist'.overtaken = sancHist.overtaken /\ sancHist'.failed = sancHist.failed
      /\ sancHist'.raced = sancHist.raced /\ sancHist'.returned = sancHist.returned
      /\ Cached' /\ SA!SanctionedNotServed'
  BY <1>1, SaStatus
<1>3. budget' \in 0..Starts["SA"]  BY <1>1, SaAssumed DEF SaIInv, SaTyped
<1>4. /\ work' \in [Workers -> SaJobs \cup {SA!Idle}] /\ \A u \in Workers : SaJobHolds(work'[u])
      /\ \A u \in Workers : work'[u] = work[u]
      /\ cached' \in [active : BOOLEAN, until : Nat] \cup {None}
  BY <1>1 DEF SaIInv, SaTyped
<1> QED BY <1>1, <1>2, <1>3, <1>4, SaStays

\* A copy that is taken from the cache past a lifetime since the token went off was a late one.
LEMMA SaHits == ASSUME SaIInv, NEW w \in Workers, SA!CacheHit(w) PROVE SaIInv'
<1> DEFINE b == sancHist.servedOff \/ (cached.active /\ sancHist.offSince # None
                                         /\ now >= sancHist.offSince + CacheTTL /\ ~sancHist.late)
<1>1. /\ cached # None /\ cached.until > now /\ sancHist' = [sancHist EXCEPT !.servedOff = b]
      /\ UNCHANGED <<now, rows, index, tok, cached, ticker>>
  BY DEF SA!CacheHit, SA!ValidateToken, SA!tokenSide
<1>2. b = FALSE
  <2>1. now \in Nat /\ CacheTTL \in Nat /\ cached.until \in Nat  BY <1>1, SaRowsTyped, SaAssumed DEF SaIInv, SaTyped
  <2>2. sancHist.servedOff = FALSE /\ sancHist.offSince \in Nat \cup {None}  BY DEF SaIInv, SA!SanctionedNotServed, SaTyped, SaHists
  <2>3. cached.active /\ sancHist.offSince # None /\ ~sancHist.late => cached.until <= sancHist.offSince + CacheTTL
    BY <1>1 DEF SaIInv, Cached
  <2> QED BY <1>1, <2>1, <2>2, <2>3
<1> HIDE DEF b
<1>3. /\ sancHist' \in SaHists /\ sancHist'.overtaken = sancHist.overtaken /\ sancHist'.failed = sancHist.failed
      /\ sancHist'.raced = sancHist.raced /\ sancHist'.returned = sancHist.returned
      /\ sancHist'.offSince = sancHist.offSince /\ sancHist'.late = sancHist.late
      /\ sancHist'.served = sancHist.served /\ ~sancHist'.servedOff
  BY <1>1, <1>2 DEF SaIInv, SaTyped, SaHists
<1>4. Cached'  BY <1>1, <1>3, SaKeepsCached DEF SaIInv
<1>5. SA!SanctionedNotServed'  BY <1>3 DEF SaIInv, SA!SanctionedNotServed
<1>6. budget > 0 /\ budget' = budget - 1  BY DEF SA!CacheHit, SA!Begin
<1>7. budget' \in 0..Starts["SA"]  BY <1>6, SaAssumed DEF SaIInv, SaTyped
<1>8. /\ work' \in [Workers -> SaJobs \cup {SA!Idle}] /\ \A u \in Workers : SaJobHolds(work'[u])
      /\ \A u \in Workers : work'[u] = work[u] \/ (work[u].pc \notin {"reload", "swap"} /\ work'[u].pc \notin {"reload", "swap", "upsert"})
  <2>1. CASE work' = work  BY <2>1 DEF SaIInv, SaTyped
  <2> DEFINE y == [SA!Job("call", "sanction") EXCEPT !.copy = TRUE]
  <2>2. CASE SA!Begin(w, y)
    <3>1. SA!Job("call", "sanction") \in SaJobs /\ SA!Job("call", "sanction").pc = "sanction"  BY SaNewJob DEF SaOps, SaPcs
    <3>2. y \in SaJobs /\ y.pc = "sanction"  BY <3>1 DEF SaJobs
    <3> HIDE DEF y
    <3>3. work' = [work EXCEPT ![w] = y] /\ work[w].pc = "idle"  BY <2>2, SaAtWork DEF SaIInv, SA!Begin
    <3>4. SaJobHolds(y)  BY <3>2 DEF SaJobHolds
    <3> QED BY <1>1, <3>2, <3>3, <3>4, SaMoves
  <2> QED BY <2>1, <2>2 DEF SA!CacheHit
<1>9. tok' \in [present : BOOLEAN, active : BOOLEAN] /\ cached' \in [active : BOOLEAN, until : Nat] \cup {None}
  BY <1>1 DEF SaIInv, SaTyped
<1> QED BY <1>1, <1>3, <1>4, <1>5, <1>7, <1>8, <1>9, SaStays

\* The copy that is written now holds what the row says, or is noted as late.
LEMMA SaCaches == ASSUME SaIInv, NEW w \in Workers, SA!SetCache(w) PROVE SaIInv'
<1> DEFINE job == work[w]
           y == IF job.copy THEN [job EXCEPT !.pc = "sanction"] ELSE SA!Idle
           c == [active |-> job.copy, until |-> now + CacheTTL]
           late == job.copy /\ ~tok.active
<1>1. /\ job.pc = "setCache" /\ work' = [work EXCEPT ![w] = y] /\ UNCHANGED <<now, budget, rows, index, tok, ticker>>
      /\ \/ cached' = c /\ sancHist' = [sancHist EXCEPT !.late = late]
         \/ UNCHANGED <<cached, sancHist>>
  BY DEF SA!SetCache, SA!At
<1>2. job \in SaJobs /\ job.copy \in BOOLEAN  BY <1>1, SaAtWork DEF SaIInv, SaJobs
<1>3. y \in SaJobs \cup {SA!Idle} /\ y.pc \in {"sanction", "idle"}
  <2>1. [job EXCEPT !.pc = "sanction"] \in SaJobs /\ [job EXCEPT !.pc = "sanction"].pc = "sanction"  BY <1>2, SaGoesOn DEF SaPcs
  <2>2. SA!Idle.pc = "idle"  BY DEF SA!Idle
  <2> QED BY <2>1, <2>2
<1>4. now \in Nat /\ CacheTTL \in Nat /\ tok.active \in BOOLEAN /\ sancHist \in SaHists
  BY SaRowsTyped, SaAssumed DEF SaIInv, SaTyped
<1>5. c \in [active : BOOLEAN, until : Nat] /\ c.active = job.copy /\ c.until = now + CacheTTL /\ late \in BOOLEAN
  BY <1>2, <1>4
<1>6. c.active /\ ~late => tok.active  BY <1>5
<1> HIDE DEF job, y, c, late
<1>7. SaJobHolds(y)  BY <1>3 DEF SaJobHolds
<1>8. work[w].pc = "setCache"  BY <1>1 DEF job
<1>9. /\ work' \in [Workers -> SaJobs \cup {SA!Idle}] /\ \A u \in Workers : SaJobHolds(work'[u])
      /\ \A u \in Workers : work'[u] = work[u] \/ (work[u].pc \notin {"reload", "swap"} /\ work'[u].pc \notin {"reload", "swap", "upsert"})
  BY <1>1, <1>3, <1>7, <1>8, SaMoves
<1>10. budget' \in 0..Starts["SA"] /\ tok' \in [present : BOOLEAN, active : BOOLEAN]  BY <1>1 DEF SaIInv, SaTyped
<1>11. /\ cached' \in [active : BOOLEAN, until : Nat] \cup {None} /\ sancHist' \in SaHists
       /\ sancHist'.overtaken = sancHist.overtaken /\ sancHist'.failed = sancHist.failed
       /\ sancHist'.raced = sancHist.raced /\ sancHist'.returned = sancHist.returned
       /\ Cached' /\ SA!SanctionedNotServed'
  <2>1. CASE UNCHANGED <<cached, sancHist>>
    <3>1. Cached'  BY <1>1, <2>1, SaKeepsCached DEF SaIInv
    <3> QED BY <1>1, <2>1, <3>1 DEF SaIInv, SaTyped, SA!SanctionedNotServed
  <2>2. CASE cached' = c /\ sancHist' = [sancHist EXCEPT !.late = late]
    <3>1. /\ sancHist' \in SaHists /\ sancHist'.offSince = sancHist.offSince /\ sancHist'.late = late
          /\ sancHist'.overtaken = sancHist.overtaken /\ sancHist'.failed = sancHist.failed
          /\ sancHist'.raced = sancHist.raced /\ sancHist'.returned = sancHist.returned
          /\ sancHist'.served = sancHist.served /\ sancHist'.servedOff = sancHist.servedOff
      BY <1>4, <1>5, <2>2 DEF SaHists
    <3>2. /\ sancHist.offSince = None <=> tok.present /\ tok.active
          /\ tok.active => tok.present
          /\ sancHist.offSince # None => sancHist.offSince <= now
      BY DEF SaIInv, Cached
    <3>3. c.active /\ ~late => sancHist.offSince = None /\ c.until <= now + CacheTTL  BY <1>4, <1>5, <1>6, <3>2
    <3>4. Cached'  BY <1>1, <2>2, <3>1, <3>2, <3>3 DEF Cached
    <3> QED BY <1>5, <2>2, <3>1, <3>4 DEF SaIInv, SA!SanctionedNotServed
  <2> QED BY <1>1, <2>1, <2>2
<1> QED BY <1>1, <1>9, <1>10, <1>11, SaStays

\* An index that is fresh knows every row in force, so no request passes one that forbids it.
LEMMA SaChecks == ASSUME SaIInv, NEW w \in Workers, SA!CheckTokenSanction(w) PROVE SaIInv'
<1> DEFINE b == ~SA!IsIPBanned /\ ~SA!GetTokenSanction /\ index.fresh
                   /\ \E i \in SA!LiveRows(rows, now) : rows[i].kind \in SA!Disabling \cup {<<"ip", "ban_ip">>}
<1>1. /\ work[w].pc = "sanction" /\ SA!Done(w) /\ sancHist' = [sancHist EXCEPT !.served = b]
      /\ UNCHANGED <<now, budget, rows, index, tok, cached, ticker>>
  BY DEF SA!CheckTokenSanction, SA!At, SA!tokenSide
<1>2. b = FALSE
  <2>1. index.fresh => \A i \in SA!LiveRows(rows, now) : rows[i].kind \in DOMAIN index.view  BY DEF SaIInv, Copies
  <2> QED BY <2>1 DEF SA!IsIPBanned, SA!GetTokenSanction
<1> HIDE DEF b
<1>3. /\ sancHist' \in SaHists /\ sancHist'.overtaken = sancHist.overtaken /\ sancHist'.failed = sancHist.failed
      /\ sancHist'.raced = sancHist.raced /\ sancHist'.returned = sancHist.returned
      /\ sancHist'.offSince = sancHist.offSince /\ sancHist'.late = sancHist.late
      /\ ~sancHist'.served /\ sancHist'.servedOff = sancHist.servedOff
  BY <1>1, <1>2 DEF SaIInv, SaTyped, SaHists
<1>4. Cached'  BY <1>1, <1>3, SaKeepsCached DEF SaIInv
<1>5. SA!SanctionedNotServed'  BY <1>3 DEF SaIInv, SA!SanctionedNotServed
<1>6. work' = [work EXCEPT ![w] = SA!Idle]  BY <1>1 DEF SA!Done
<1>7. SaJobHolds(SA!Idle) /\ SA!Idle.pc = "idle"  BY SaAtWork DEF SaIInv
<1>8. /\ work' \in [Workers -> SaJobs \cup {SA!Idle}] /\ \A u \in Workers : SaJobHolds(work'[u])
      /\ \A u \in Workers : work'[u] = work[u] \/ (work[u].pc \notin {"reload", "swap"} /\ work'[u].pc \notin {"reload", "swap", "upsert"})
  BY <1>1, <1>6, <1>7, SaMoves
<1>9. /\ budget' \in 0..Starts["SA"] /\ tok' \in [present : BOOLEAN, active : BOOLEAN]
      /\ cached' \in [active : BOOLEAN, until : Nat] \cup {None}
  BY <1>1 DEF SaIInv, SaTyped
<1> QED BY <1>1, <1>3, <1>4, <1>5, <1>8, <1>9, SaStays

LEMMA SaApplies ==
  ASSUME SaIInv, NEW k \in SanctionKinds, NEW f \in Strengths
  PROVE  SA!applySanction(k, f) \in SaJobs /\ SA!applySanction(k, f).pc = "look" /\ SA!applySanction(k, f).kind = k
<1> DEFINE j == SA!Job("apply", "look")
           g == IF k \in SA!Disabling THEN 0 ELSE f
           u == IF k \in SA!Destructive \ {<<"ip", "ban_ip">>} THEN 0 ELSE now + 1
           z == [j EXCEPT !.kind = k, !.factor = g]
           y == [z EXCEPT !.until = u]
<1>1. now \in Nat  BY SaRowsTyped DEF SaIInv
<1>2. j \in SaJobs /\ j.pc = "look"  BY SaNewJob DEF SaOps, SaPcs
<1>3. g \in Strengths \cup {0} /\ u \in Nat  BY <1>1
<1>4. SA!applySanction(k, f) = y  BY DEF SA!applySanction
<1> HIDE DEF j, g, u
<1>5. z \in SaJobs /\ z.pc = "look" /\ z.kind = k  BY <1>2, <1>3 DEF SaJobs
<1> HIDE DEF z
<1>6. y \in SaJobs /\ y.pc = "look" /\ y.kind = k  BY <1>3, <1>5 DEF SaJobs
<1> QED BY <1>4, <1>6

LEMMA SaEnforces == ASSUME SaIInv, NEW w \in Workers, SA!Enforce(w) PROVE SaIInv'
<1>1. UNCHANGED <<now, rows, index, tok, cached, ticker, sancHist>>  BY DEF SA!Enforce, SA!tokenSide
<1>2. PICK k \in SanctionKinds, f \in Strengths :
        \/ \E v \in Workers \ {w} :
             /\ work[w] = SA!Idle /\ work[v] = SA!Idle /\ budget > 0
             /\ budget' = budget - 1
             /\ work' = [work EXCEPT ![w] = SA!applySanction(k, f), ![v] = [SA!Job("execute", "execute") EXCEPT !.kind = k]]
        \/ SA!Begin(w, SA!applySanction(k, f))
  BY DEF SA!Enforce
<1> DEFINE y == SA!applySanction(k, f)
           x == [SA!Job("execute", "execute") EXCEPT !.kind = k]
<1>3. y \in SaJobs /\ y.pc = "look" /\ y.kind = k  BY SaApplies
<1>4. x \in SaJobs /\ x.pc = "execute"
  <2>1. SA!Job("execute", "execute") \in SaJobs /\ SA!Job("execute", "execute").pc = "execute"  BY SaNewJob DEF SaOps, SaPcs
  <2> QED BY <2>1 DEF SaJobs
<1>5. CASE SA!Begin(w, y)
  <2> HIDE DEF y
  <2>1. SaJobHolds(y)  BY <1>3 DEF SaJobHolds
  <2> QED BY <1>1, <1>3, <1>5, <2>1, SaBegins
<1>6. ASSUME NEW v \in Workers \ {w}, work[w] = SA!Idle, work[v] = SA!Idle, budget > 0, budget' = budget - 1,
             work' = [work EXCEPT ![w] = y, ![v] = x]
      PROVE  SaIInv'
  <2> HIDE DEF y, x
  <2>1. work \in [Workers -> SaJobs \cup {SA!Idle}] /\ \A u \in Workers : SaJobHolds(work[u])  BY DEF SaIInv, SaTyped
  <2>2. work' \in [Workers -> SaJobs \cup {SA!Idle}] /\ work'[w] = y /\ work'[v] = x /\ \A u \in Workers \ {w, v} : work'[u] = work[u]
    BY <1>3, <1>4, <1>6, <2>1
  <2>3. SaJobHolds(y) /\ SaJobHolds(x)  BY <1>3, <1>4 DEF SaJobHolds
  <2>4. \A u \in Workers : SaJobHolds(work'[u])  BY <2>1, <2>2, <2>3
  <2>5. work[w].pc = "idle" /\ work[v].pc = "idle"  BY <1>6, SaAtWork DEF SaIInv
  <2>6. \A u \in Workers : work'[u] = work[u] \/ (work[u].pc \notin {"reload", "swap"} /\ work'[u].pc \notin {"reload", "swap", "upsert"})
    BY <1>3, <1>4, <2>2, <2>5
  <2>7. budget' \in 0..Starts["SA"]  BY <1>6, SaAssumed DEF SaIInv, SaTyped
  <2>8. /\ Cached' /\ SA!SanctionedNotServed' /\ sancHist' \in SaHists
        /\ tok' \in [present : BOOLEAN, active : BOOLEAN] /\ cached' \in [active : BOOLEAN, until : Nat] \cup {None}
    BY <1>1, SaKeepsCached DEF SaIInv, SaTyped, SA!SanctionedNotServed
  <2> QED BY <1>1, <2>2, <2>4, <2>6, <2>7, <2>8, SaStays
<1> QED BY <1>2, <1>5, <1>6

\* Deleting a row leaves every other as it was.
LEMMA SaLifts == ASSUME SaIInv, NEW w \in Workers, SA!Revoke(w) PROVE SaIInv'
<1> USE DEF SaIInv
<1> DEFINE job == work[w]
           rs == [rows EXCEPT ![job.id] = None]
           y == [job EXCEPT !.pc = "reload", !.id = None]
<1>1. job.pc = "delete" /\ SA!WriteTable(rs, w, y) /\ UNCHANGED <<now, budget, tok, cached, sancHist>>
  BY DEF SA!Revoke, SA!At, SA!tokenSide
<1>2. job \in SaJobs /\ job.id \in DOMAIN rows  BY <1>1, SaAtWork DEF SaTyped, SaJobHolds
<1>3. y \in SaJobs /\ y.pc = "reload"  BY <1>2 DEF SaJobs, SaPcs
<1>4. /\ rs \in Seq(SaRows \cup {None}) /\ DOMAIN rs = DOMAIN rows
      /\ \A j \in DOMAIN rs : rs[j] # None => rs[j] = rows[j]
  <2>1. Len(rows) \in Nat /\ DOMAIN rows = 1..Len(rows) /\ rows \in Seq(SaRows \cup {None})  BY SaRowsTyped DEF SaTyped
  <2>2. rs \in Seq(SaRows \cup {None})  BY <1>2, <2>1, ExceptSeq
  <2> QED BY <2>2
<1> HIDE DEF job, rs, y
<1>5. /\ rows' = rs
      /\ DOMAIN index' = {"view", "fresh"} /\ index'.fresh = FALSE
      /\ ticker' \in [pc : {"wait", "swap"}, list : SaLists, fresh : BOOLEAN] /\ ticker'.pc = ticker.pc /\ (ticker'.pc = "swap" => ~ticker'.fresh)
      /\ work' \in [Workers -> SaJobs \cup {SA!Idle}] /\ work'[w] = y
      /\ \A u \in Workers \ {w} : /\ work'[u].pc = work[u].pc
                                  /\ work'[u].pc = "swap" => ~work'[u].fresh
                                  /\ work'[u].pc # "swap" => work'[u] = work[u]
      /\ \A u \in Workers : SaJobHolds(work[u])'
  BY <1>1, <1>3, <1>4, SaOutdates
<1>6. SaTyped'  BY <1>1, <1>4, <1>5 DEF SaTyped
<1>7. Behind' /\ Copies'
  <2>1. \A u \in Workers : work'[u].pc = "swap" => ~work'[u].fresh  BY <1>3, <1>5
  <2>2. work'[w].pc = "reload"  BY <1>3, <1>5
  <2> QED BY <1>5, <2>1, <2>2, SaLags
<1>8. \A k : OfKind(k)' \subseteq OfKind(k)  BY <1>4, <1>5 DEF OfKind
<1>9. Singly'
  <2> SUFFICES ASSUME ~sancHist.raced, ~sancHist.returned
               PROVE  /\ \A m, n \in DOMAIN rs : rs[m] # None /\ rs[n] # None /\ rs[m].kind = rs[n].kind => m = n
                      /\ \A u \in Workers : work'[u].pc = "upsert" /\ work'[u].alone => Knows(work[u])'
    BY <1>1, <1>5 DEF Singly, SA!At
  <2>1. \A m, n \in DOMAIN rs : rs[m] # None /\ rs[n] # None /\ rs[m].kind = rs[n].kind => m = n  BY <1>4 DEF Singly
  <2>2. ASSUME NEW u \in Workers, work'[u].pc = "upsert", work'[u].alone PROVE Knows(work[u])'
    <3>1. u # w /\ work'[u] = work[u]  BY <1>3, <1>5, <2>2
    <3>2. Knows(work[u])  BY <2>2, <3>1 DEF Singly, SA!At
    <3>3. work[u].id # None => work[u].id \in DOMAIN rows  BY <2>2, <3>1 DEF SaTyped, SaJobHolds
    <3>4. OfKind(work[u].kind)' \subseteq OfKind(work[u].kind)
      <4> DEFINE k == work[u].kind
      <4>1. {j \in DOMAIN rows' : rows'[j] # None /\ rows'[j].kind = k} \subseteq {j \in DOMAIN rows : rows[j] # None /\ rows[j].kind = k}
        <5> HIDE DEF k
        <5> QED BY <1>4, <1>5
      <4> QED BY <3>1, <4>1 DEF OfKind
    <3>5. work[u].id # None /\ rows'[work[u].id] # None => rows'[work[u].id] = rows[work[u].id]  BY <1>4, <1>5, <3>3
    <3> QED BY <3>1, <3>2, <3>4, <3>5 DEF Knows
  <2> QED BY <2>1, <2>2
<1>10. Cached' /\ SA!SanctionedNotServed'  BY <1>1, SaKeepsCached DEF SA!SanctionedNotServed
<1> QED BY <1>6, <1>7, <1>9, <1>10

\* The rows that are cleaned up were not in force.
LEMMA SaCleans == ASSUME SaIInv, SA!CleanupExpiredSanctions PROVE SaIInv'
<1> USE DEF SaIInv
<1> DEFINE gone == {i \in DOMAIN rows : rows[i] # None /\ rows[i].until # 0 /\ rows[i].until <= now}
           rs == [i \in DOMAIN rows |-> IF i \in gone THEN None ELSE rows[i]]
           list == SA!GetActiveSanctions
<1>1. /\ ticker.pc = "wait" /\ rows' = rs
      /\ ticker' = [pc |-> "swap", list |-> list, fresh |-> TRUE]
      /\ UNCHANGED <<now, budget, index, work, tok, cached, sancHist>>
  BY DEF SA!CleanupExpiredSanctions, SA!tokenSide
<1>2. list \in SaLists /\ Holds(list)  BY ReadList
<1>3. /\ Len(rows) \in Nat /\ DOMAIN rows = 1..Len(rows) /\ now \in Nat
      /\ \A i \in DOMAIN rows : rows[i] \in SaRows \cup {None}
  BY SaRowsTyped
<1>4. /\ rs \in Seq(SaRows \cup {None}) /\ DOMAIN rs = DOMAIN rows
      /\ \A j \in DOMAIN rs : rs[j] # None => rs[j] = rows[j]
  <2>1. \A i \in 1..Len(rows) : rs[i] \in SaRows \cup {None}  BY <1>3
  <2>2. rs \in [1..Len(rows) -> SaRows \cup {None}]  BY <1>3, <2>1
  <2>3. rs \in Seq(SaRows \cup {None})  BY <1>3, <2>2
  <2> QED BY <2>3
<1>5. \A i \in SA!LiveRows(rs, now) : i \in SA!LiveRows(rows, now) /\ rs[i] = rows[i]  BY <1>4 DEF SA!LiveRows
<1> HIDE DEF rs, list, gone
<1>6. \A i \in SA!LiveRows(rows, now)' : i \in SA!LiveRows(rows, now) /\ rows'[i] = rows[i]  BY <1>1, <1>5 DEF SA!LiveRows
<1>7. SaTyped'
  <2>1. \A u \in Workers : SaJobHolds(work[u])'  BY <1>1, <1>4 DEF SaTyped, SaJobHolds
  <2> QED BY <1>1, <1>2, <1>4, <2>1 DEF SaTyped
<1>8. Behind'  BY <1>1 DEF Behind, SA!Reloading
<1>9. Copies'
  <2>1. \A l : Holds(l) => \A i \in SA!LiveRows(rows, now)' : i \in DOMAIN l /\ l[i] = rows'[i]  BY <1>6 DEF Holds
  <2>2. ticker'.list = list  BY <1>1
  <2>3. Holds(ticker.list)'  BY <1>2, <2>1, <2>2 DEF Holds
  <2>4. ASSUME NEW u \in Workers, work'[u].pc = "swap", work'[u].fresh PROVE Holds(work[u].list)'
    <3>1. Holds(work[u].list)  BY <1>1, <2>4 DEF Copies, SA!At
    <3> QED BY <1>1, <2>1, <3>1 DEF Holds
  <2>5. index'.fresh => \A i \in SA!LiveRows(rows, now)' : rows'[i].kind \in DOMAIN index'.view  BY <1>1, <1>6 DEF Copies
  <2> QED BY <2>3, <2>4, <2>5 DEF Copies, SA!At
<1>10. Singly'
  <2>1. ASSUME NEW u \in Workers, Knows(work[u]), work[u].id # None => work[u].id \in DOMAIN rows PROVE Knows(work[u])'
    <3>1. OfKind(work[u].kind)' \subseteq OfKind(work[u].kind)
      <4> DEFINE k == work[u].kind
      <4>1. {j \in DOMAIN rows' : rows'[j] # None /\ rows'[j].kind = k} \subseteq {j \in DOMAIN rows : rows[j] # None /\ rows[j].kind = k}
        <5> HIDE DEF k
        <5> QED BY <1>1, <1>4
      <4> QED BY <1>1, <4>1 DEF OfKind
    <3>2. work[u].id # None /\ rows'[work[u].id] # None => rows'[work[u].id] = rows[work[u].id]  BY <1>1, <1>4, <2>1
    <3> QED BY <1>1, <2>1, <3>1, <3>2 DEF Knows
  <2>2. ~sancHist.raced /\ ~sancHist.returned => \A m, n \in DOMAIN rs : rs[m] # None /\ rs[n] # None /\ rs[m].kind = rs[n].kind => m = n
    BY <1>4 DEF Singly
  <2>3. ~sancHist.raced /\ ~sancHist.returned => \A u \in Workers : work[u].pc = "upsert" /\ work[u].alone => Knows(work[u])'
    <3>1. \A u \in Workers : work[u].pc = "upsert" /\ work[u].id # None => work[u].id \in DOMAIN rows  BY DEF SaTyped, SaJobHolds
    <3> QED BY <2>1, <3>1 DEF Singly, SA!At
  <2> QED BY <1>1, <2>2, <2>3 DEF Singly, SA!At
<1>11. Cached' /\ SA!SanctionedNotServed'  BY <1>1, SaKeepsCached DEF SA!SanctionedNotServed
<1> QED BY <1>7, <1>8, <1>9, <1>10, <1>11

\* The clock takes rows out of force and brings none back.
LEMMA SaClock == ASSUME SaIInv, SA!Tick PROVE SaIInv'
<1> USE DEF SaIInv
<1>1. now < Clock["SA"] /\ now' = now + 1 /\ UNCHANGED <<budget, rows, index, tok, cached, ticker, work, sancHist>>
  BY DEF SA!Tick, SA!tokenSide
<1>2. now \in Nat /\ Clock["SA"] \in Nat /\ CacheTTL \in Nat  BY SaRowsTyped, SaAssumed
<1>3. now' \in 0..Clock["SA"]  BY <1>1, <1>2
<1>4. \A i \in SA!LiveRows(rows, now)' : i \in SA!LiveRows(rows, now)
  <2> SUFFICES ASSUME NEW i \in DOMAIN rows, rows[i] # None, rows[i].until = 0 \/ rows[i].until > now + 1
               PROVE  rows[i].until = 0 \/ rows[i].until > now
    BY <1>1 DEF SA!LiveRows
  <2>1. rows[i].until \in Nat  BY SaRowsTyped DEF SaRows
  <2> QED BY <1>2, <2>1
<1>5. SaTyped'
  <2>1. \A u \in Workers : SaJobHolds(work[u])'  BY <1>1 DEF SaTyped, SaJobHolds
  <2> QED BY <1>1, <1>3, <2>1 DEF SaTyped
<1>6. Behind'  BY <1>1 DEF Behind, SA!Reloading
<1>7. Copies'
  <2>1. \A l : Holds(l) => \A i \in SA!LiveRows(rows, now)' : i \in DOMAIN l /\ l[i] = rows[i]  BY <1>4 DEF Holds
  <2>2. ticker'.pc = "swap" /\ ticker'.fresh => Holds(ticker.list)'  BY <1>1, <2>1 DEF Copies, Holds
  <2>3. ASSUME NEW u \in Workers, work'[u].pc = "swap", work'[u].fresh PROVE Holds(work[u].list)'
    <3>1. Holds(work[u].list)  BY <1>1, <2>3 DEF Copies, SA!At
    <3> QED BY <1>1, <2>1, <3>1 DEF Holds
  <2>4. index'.fresh => \A i \in SA!LiveRows(rows, now)' : rows'[i].kind \in DOMAIN index'.view  BY <1>1, <1>4 DEF Copies
  <2> QED BY <2>2, <2>3, <2>4 DEF Copies, SA!At
<1>8. Singly'  BY <1>1, SaKeepsSingly
<1>9. Cached'
  <2>1. sancHist.offSince \in Nat \cup {None} /\ (cached # None => cached.until \in Nat)  BY DEF SaTyped, SaHists
  <2> QED BY <1>1, <1>2, <2>1 DEF Cached
<1>10. SA!SanctionedNotServed'  BY <1>1 DEF SA!SanctionedNotServed
<1> QED BY <1>5, <1>6, <1>7, <1>8, <1>9, <1>10

LEMMA SaRestarts == ASSUME SaIInv, SA!Restart PROVE SaIInv'
<1> USE DEF SaIInv
<1> DEFINE list == SA!GetActiveSanctions
           view == SA!BuildIndex(list)
<1>1. /\ budget > 0 /\ budget' = budget - 1 /\ work' = [w \in Workers |-> SA!Idle]
      /\ ticker' = [pc |-> "wait", list |-> SA!NoList, fresh |-> TRUE] /\ UNCHANGED <<now, rows, tok, cached>>
      /\ \/ index' = [view |-> view, fresh |-> TRUE] /\ sancHist' = [sancHist EXCEPT !.overtaken = FALSE, !.failed = FALSE]
         \/ index' = [view |-> SA!Emptied, fresh |-> FALSE] /\ sancHist' = [sancHist EXCEPT !.failed = TRUE]
  BY DEF SA!Restart, SA!tokenSide
<1>2. \A i \in SA!LiveRows(rows, now) : rows[i].kind \in DOMAIN view
  <2>1. Holds(list) /\ DOMAIN view = {list[i].kind : i \in DOMAIN list}  BY ReadList, BuiltKinds
  <2> HIDE DEF list, view
  <2> QED BY <2>1 DEF Holds
<1> HIDE DEF list, view
<1>3. /\ sancHist' \in SaHists /\ sancHist'.raced = sancHist.raced /\ sancHist'.returned = sancHist.returned
      /\ sancHist'.offSince = sancHist.offSince /\ sancHist'.late = sancHist.late
      /\ sancHist'.served = sancHist.served /\ sancHist'.servedOff = sancHist.servedOff
      /\ DOMAIN index' = {"view", "fresh"} /\ index'.fresh \in BOOLEAN
      /\ index'.fresh \/ sancHist'.failed
      /\ index'.fresh => index'.view = view
  <2>1. sancHist \in SaHists  BY DEF SaTyped
  <2>2. CASE index' = [view |-> view, fresh |-> TRUE] /\ sancHist' = [sancHist EXCEPT !.overtaken = FALSE, !.failed = FALSE]
    BY <2>1, <2>2 DEF SaHists
  <2>3. CASE index' = [view |-> SA!Emptied, fresh |-> FALSE] /\ sancHist' = [sancHist EXCEPT !.failed = TRUE]
    <3> DEFINE e == SA!Emptied
    <3> HIDE DEF e
    <3>1. index' = [view |-> e, fresh |-> FALSE]  BY <2>3 DEF e
    <3>2. DOMAIN index' = {"view", "fresh"} /\ index'.fresh = FALSE  BY <3>1
    <3>3. sancHist' \in SaHists /\ sancHist' = [sancHist EXCEPT !.failed = TRUE]  BY <2>1, <2>3 DEF SaHists
    <3>4. /\ sancHist'.raced = sancHist.raced /\ sancHist'.returned = sancHist.returned
          /\ sancHist'.offSince = sancHist.offSince /\ sancHist'.late = sancHist.late
          /\ sancHist'.served = sancHist.served /\ sancHist'.servedOff = sancHist.servedOff /\ sancHist'.failed
      BY <2>1, <3>3 DEF SaHists
    <3> QED BY <3>2, <3>3, <3>4
  <2> QED BY <1>1, <2>2, <2>3
<1>4. \A u \in Workers : work'[u] = SA!Idle  BY <1>1
<1>5. SA!Idle.pc = "idle"  BY DEF SA!Idle
<1>6. SaTyped'
  <2>1. \A u \in Workers : SaJobHolds(work[u])'  BY <1>4, <1>5 DEF SaJobHolds
  <2>2. budget' \in 0..Starts["SA"]  BY <1>1, SaAssumed DEF SaTyped
  <2>3. work' \in [Workers -> SaJobs \cup {SA!Idle}]  BY <1>1
  <2> QED BY <1>1, <1>3, <2>1, <2>2, <2>3, NoListTyped DEF SaTyped
<1>7. Behind'  BY <1>3 DEF Behind
<1>8. Copies'
  <2>1. SA!LiveRows(rows, now)' = SA!LiveRows(rows, now)  BY <1>1 DEF SA!LiveRows
  <2> QED BY <1>1, <1>2, <1>3, <1>4, <1>5, <2>1 DEF Copies, SA!At
<1>9. Singly'
  <2>1. \A u \in Workers : work'[u].pc # "upsert"  BY <1>4, <1>5
  <2> QED BY <1>1, <1>3, <2>1, SaKeepsSingly
<1>10. Cached' /\ SA!SanctionedNotServed'  BY <1>1, <1>3, SaKeepsCached DEF SA!SanctionedNotServed
<1> QED BY <1>6, <1>7, <1>8, <1>9, <1>10

---------------------------------------------------------------------------
(* Sanctions: the theorem. *)

LEMMA SaInit == ASSUME SA!Init PROVE SaIInv
<1>1. /\ now = 0 /\ budget = Starts["SA"] /\ tok = [present |-> TRUE, active |-> TRUE] /\ cached = None
      /\ ticker = [pc |-> "wait", list |-> SA!NoList, fresh |-> TRUE]
      /\ work = [w \in Workers |-> SA!Idle]
      /\ index = [view |-> SA!BuildIndex(rows), fresh |-> TRUE]
      /\ sancHist = [raced |-> FALSE, overtaken |-> FALSE, failed |-> FALSE, late |-> FALSE, offSince |-> None,
                     served |-> FALSE, servedOff |-> FALSE, returned |-> FALSE]
  BY DEF SA!Init
<1>2. rows \in Seq(SaRows \cup {None}) /\ DOMAIN rows \subseteq {1}
  <2>1. CASE rows = << >>  BY <2>1
  <2>2. CASE rows # << >>
    <3>1. PICK k \in SanctionKinds : rows = <<[kind |-> k, factor |-> 0, until |-> 0]>>  BY <2>2 DEF SA!Init
    <3>2. [kind |-> k, factor |-> 0, until |-> 0] \in SaRows  BY DEF SaRows
    <3> DEFINE r == [kind |-> k, factor |-> 0, until |-> 0]
    <3> HIDE DEF r
    <3>3. r \in SaRows /\ rows = <<r>>  BY <3>1, <3>2 DEF r
    <3> QED BY <3>3
  <2> QED BY <2>1, <2>2
<1>3. Clock["SA"] \in Nat /\ Starts["SA"] \in Nat /\ CacheTTL \in Nat  BY SaAssumed
<1>4. \A u \in Workers : work[u] = SA!Idle /\ work[u].pc = "idle"  BY <1>1 DEF SA!Idle
<1>5. SaTyped
  <2>1. \A u \in Workers : SaJobHolds(work[u])  BY <1>4 DEF SaJobHolds
  <2>2. work \in [Workers -> SaJobs \cup {SA!Idle}]  BY <1>1
  <2>3. sancHist \in SaHists  BY <1>1 DEF SaHists
  <2>4. DOMAIN index = {"view", "fresh"} /\ index.fresh  BY <1>1
  <2> QED BY <1>1, <1>2, <1>3, <2>1, <2>2, <2>3, <2>4, NoListTyped DEF SaTyped
<1>6. Behind  BY <1>1 DEF Behind
<1>7. Copies
  <2>1. DOMAIN index.view = {rows[i].kind : i \in DOMAIN rows}  BY <1>1, BuiltKinds
  <2>2. \A i \in SA!LiveRows(rows, now) : rows[i].kind \in DOMAIN index.view  BY <2>1 DEF SA!LiveRows
  <2> QED BY <1>1, <1>4, <2>2 DEF Copies, SA!At
<1>8. Singly  BY <1>2, <1>4 DEF Singly, SA!At
<1>9. Cached  BY <1>1 DEF Cached
<1>10. SA!SanctionedNotServed  BY <1>1 DEF SA!SanctionedNotServed
<1> QED BY <1>5, <1>6, <1>7, <1>8, <1>9, <1>10 DEF SaIInv

LEMMA SaStep == ASSUME SaIInv, SA!Next PROVE SaIInv'
<1>1. CASE SA!CleanupExpiredSanctions \/ SA!TickerSwaps \/ SA!DeleteToken \/ SA!Tick \/ SA!Restart
  BY <1>1, SaCleans, SaTicks, SaDeletes, SaClock, SaRestarts
<1>2. ASSUME NEW w \in Workers,
             \/ SA!ApplyLook(w) \/ SA!UpsertSanction(w) \/ SA!UpsertFails(w) \/ SA!ReloadNow(w) \/ SA!Reload(w)
             \/ SA!AdminCreateSanction(w) \/ SA!syncDestructiveState(w)
             \/ SA!AdminRevokeSanction(w) \/ SA!Revoke(w) \/ SA!restoreDestructiveState(w)
      PROVE  SaIInv'
  BY <1>2, SaLooks, SaUpserts, SaUpsertFails, SaReads, SaReloads, SaCreates, SaSyncs, SaRevokes, SaLifts, SaRestores
<1>3. ASSUME NEW w \in Workers,
             \/ SA!Enforce(w) \/ SA!Execute(w) \/ SA!UpdateToken(w) \/ SA!SaveToken(w)
             \/ SA!CacheHit(w) \/ SA!GetTokenByKey(w) \/ SA!SetCache(w) \/ SA!CheckTokenSanction(w)
      PROVE  SaIInv'
  BY <1>3, SaEnforces, SaExecutes, SaUpdates, SaSaves, SaHits, SaLooksUp, SaCaches, SaChecks
<1> QED BY <1>1, <1>2, <1>3 DEF SA!Next

LEMMA SaStill == ASSUME SaIInv, UNCHANGED <<saVars, now, budget>> PROVE SaIInv'
<1> USE DEF SaIInv, saVars
<1>1. budget' \in 0..Starts["SA"]  BY DEF SaTyped
<1>2. work' \in [Workers -> SaJobs \cup {SA!Idle}] /\ \A u \in Workers : SaJobHolds(work'[u])  BY DEF SaTyped
<1>3. \A u \in Workers : work'[u] = work[u]  OBVIOUS
<1>4. Cached' /\ SA!SanctionedNotServed'  BY SaKeepsCached DEF SA!SanctionedNotServed
<1>5. /\ sancHist' \in SaHists /\ tok' \in [present : BOOLEAN, active : BOOLEAN]
      /\ cached' \in [active : BOOLEAN, until : Nat] \cup {None}
  BY DEF SaTyped
<1> QED BY <1>1, <1>2, <1>3, <1>4, <1>5, SaStays

\* SanctionInv: but for a reload on its way, one overtaken and one that failed, the index knows
\* every row in force; a kind has one row but for two writers that overlapped or a row put back;
\* and a sanctioned token is served only from a copy written late - for any workers, kinds,
\* strengths, lifetimes and bounds.
THEOREM SanctionsAreInForce == ServerSpec => []SanctionInv
<1> DEFINE I == part = "SA" => SaIInv
<1>1. ServerInit => I  BY SaInit DEF ServerInit, AdministrationInit
<1>2. I /\ [ServerNext]_serverVars => I'
  <2> SUFFICES ASSUME I, [ServerNext]_serverVars PROVE I'  OBVIOUS
  <2>1. CASE part = "SA" /\ SA!Next /\ part' = part  BY <2>1, SaStep
  <2>2. CASE part' = part /\ part # "SA"  BY <2>2
  <2>3. CASE UNCHANGED serverVars  BY <2>3, SaStill DEF serverVars, administration
  <2> QED BY <2>1, <2>2, <2>3 DEF ServerNext, AdministrationNext, GatewayNext
<1>3. I => SanctionInv  BY SaImplies DEF SanctionInv
<1> QED BY <1>1, <1>2, <1>3, PTL DEF ServerSpec

---------------------------------------------------------------------------
(* Scheduler: the inductive invariant. *)

LEMMA ScAssumed ==
  /\ None \notin Workers /\ None \notin Nat
  /\ Loops \subseteq Nat \ {0} /\ 1 \in Loops /\ Starts["SC"] \in Nat
BY ServerAssumption

\* The channel in the variable is open, and a goroutine that waits does so on that one or on one
\* that was closed.
Listening ==
  /\ stopChan \notin closed /\ \A c \in closed : c < stopChan
  /\ \A n \in Loops : SC!At(n, "wait") => loops[n].chan \in closed \cup {stopChan}

\* Where every start waited for the goroutines before it to go, at most one is there.
OneAlive == ~schedHist.hurried => \A m, n \in Loops : SC!Alive(m) /\ SC!Alive(n) => m = n

\* The tickers a goroutine made and waits on are its own, all armed, with the interval asked for.
OwnTickers ==
  ~schedHist.hurried => \A n \in Loops :
    /\ SC!At(n, "make") /\ ~schedHist.late => loops[n].hours = hours
    /\ SC!At(n, "wait") => loops[n].mine = n
    /\ SC!At(n, "select") \/ SC!At(n, "wait") => current = n
    /\ ~schedHist.missed /\ (SC!At(n, "select") \/ (SC!At(n, "wait") /\ SC!Working(n))) =>
         /\ tickers[n].armed = SC!Kinds
         /\ ~schedHist.late => tickers[n].hours = hours

ScIInv == SC!TypeOK /\ SC!OneScheduler /\ Listening /\ OneAlive /\ OwnTickers

ScLoop == [pc : {"unborn", "begin", "make", "select", "wait", "leave", "gone"},
           chan : Nat, mine : Loops \cup {0}, hours : Hours \cup {0}]

USE DEF SC!At, SC!Alive

\* The state of the scheduler after startup.
LEMMA ScInit == ASSUME SC!Init PROVE ScIInv
<1> USE ScAssumed DEF SC!Init, SC!Unborn
<1>1. SC!TypeOK  BY DEF SC!TypeOK
<1>2. \A n \in Loops : loops[n].pc = IF n = 1 THEN "begin" ELSE "unborn"  OBVIOUS
<1>3. \A n \in Loops : SC!Working(n) <=> n = 1  BY <1>2 DEF SC!Working
<1>4. SC!OneScheduler  BY <1>3 DEF SC!OneScheduler
<1>5. Listening /\ OneAlive /\ OwnTickers  BY <1>2 DEF Listening, OneAlive, OwnTickers
<1> QED BY <1>1, <1>4, <1>5 DEF ScIInv

---------------------------------------------------------------------------
(* Scheduler: one lemma per action. *)

LEMMA ScStart == ASSUME ScIInv, SC!startScheduler PROVE ScIInv'
<1> USE ScAssumed DEF SC!startScheduler, SC!Request
<1>1. CASE running
  <2>1. UNCHANGED <<running, loops, schedHist, stopChan, closed, hours, tickers, current>> /\ budget' \in 0..Starts["SC"]
    BY <1>1 DEF ScIInv, SC!TypeOK
  <2>2. SC!TypeOK' /\ SC!OneScheduler'  BY <2>1 DEF ScIInv, SC!TypeOK, SC!OneScheduler, SC!Working
  <2> QED BY <2>1, <2>2 DEF ScIInv, Listening, OneAlive, OwnTickers, SC!Working
<1>2. CASE ~running
  <2>1. PICK n \in Loops : /\ loops[n].pc = "unborn"
                           /\ loops' = [loops EXCEPT ![n].pc = "begin"] /\ running' = TRUE
                           /\ schedHist' = [schedHist EXCEPT !.hurried = @ \/ \E k \in Loops : SC!Alive(k)]
                           /\ UNCHANGED <<stopChan, closed, hours, tickers, current>>
                           /\ budget < Starts["SC"] /\ budget' = budget + 1
    BY <1>2
  <2> DEFINE b == schedHist.hurried \/ \E k \in Loops : SC!Alive(k)
  <2>a. b \in BOOLEAN /\ schedHist' = [schedHist EXCEPT !.hurried = b]
    BY <2>1 DEF ScIInv, SC!TypeOK
  <2> HIDE DEF b
  <2>b. schedHist' \in [missed : BOOLEAN, hurried : BOOLEAN, late : BOOLEAN]
    BY <2>a DEF ScIInv, SC!TypeOK
  <2> DEFINE r == [loops[n] EXCEPT !.pc = "begin"]
  <2>p. r \in ScLoop
    <3>1. loops[n] \in ScLoop  BY DEF ScIInv, SC!TypeOK, ScLoop
    <3> QED BY <3>1 DEF ScLoop
  <2>q. loops' = [loops EXCEPT ![n] = r]  BY <2>1
  <2> HIDE DEF r
  <2>c. loops' \in [Loops -> ScLoop]  BY <2>p, <2>q DEF ScIInv, SC!TypeOK, ScLoop
  <2>d. budget' \in 0..Starts["SC"]  BY <2>1 DEF ScIInv, SC!TypeOK
  <2>2. SC!TypeOK'  BY <2>1, <2>b, <2>c, <2>d DEF ScIInv, SC!TypeOK, ScLoop
  <2>3. /\ loops'[n].pc = "begin"
        /\ \A k \in Loops \ {n} : loops'[k] = loops[k]
    BY <2>1 DEF ScIInv, SC!TypeOK
  <2>4. /\ schedHist'.missed = schedHist.missed /\ schedHist'.late = schedHist.late
        /\ ~schedHist'.hurried => ~schedHist.hurried /\ \A k \in Loops : ~SC!Alive(k)
    BY <2>1 DEF ScIInv, SC!TypeOK
  <2>5. SC!Working(n)' /\ \A k \in Loops \ {n} : SC!Working(k)' <=> SC!Working(k)
    BY <2>1, <2>3 DEF SC!Working
  <2>6. SC!OneScheduler'  BY <1>2, <2>1, <2>4, <2>5 DEF ScIInv, SC!OneScheduler
  <2>7. Listening'  BY <2>1, <2>3 DEF ScIInv, Listening
  <2>8. OneAlive'  BY <2>3, <2>4 DEF ScIInv, OneAlive
  <2>9. OwnTickers'  BY <2>1, <2>3, <2>4 DEF ScIInv, OwnTickers
  <2> QED BY <2>2, <2>6, <2>7, <2>8, <2>9 DEF ScIInv
<1> QED BY <1>1, <1>2

LEMMA ScStop == ASSUME ScIInv, SC!StopScheduler PROVE ScIInv'
<1> USE ScAssumed
<1>1. /\ running /\ closed' = closed \cup {stopChan} /\ stopChan' = stopChan + 1 /\ running' = FALSE
      /\ schedHist' = [schedHist EXCEPT !.missed = @ \/ \E n \in Loops : SC!Working(n) /\ loops[n].pc # "wait"]
      /\ budget < Starts["SC"] /\ budget' = budget + 1
      /\ UNCHANGED <<hours, tickers, current, loops>>
  BY DEF SC!StopScheduler, SC!FreshChan, SC!Request
<1> DEFINE b == schedHist.missed \/ \E n \in Loops : SC!Working(n) /\ loops[n].pc # "wait"
<1>a. b \in BOOLEAN /\ schedHist' = [schedHist EXCEPT !.missed = b]
  BY <1>1 DEF ScIInv, SC!TypeOK
<1> HIDE DEF b
<1>b. schedHist' \in [missed : BOOLEAN, hurried : BOOLEAN, late : BOOLEAN]
  BY <1>a DEF ScIInv, SC!TypeOK
<1>c. budget' \in 0..Starts["SC"] /\ stopChan' \in Nat /\ closed' \subseteq Nat  BY <1>1 DEF ScIInv, SC!TypeOK
<1>2. SC!TypeOK'  BY <1>1, <1>b, <1>c DEF ScIInv, SC!TypeOK
<1>3. Listening'  BY <1>1 DEF ScIInv, Listening, SC!TypeOK
<1>4. /\ schedHist'.hurried = schedHist.hurried /\ schedHist'.late = schedHist.late
      /\ ~schedHist'.missed => ~schedHist.missed /\ \A n \in Loops : SC!Working(n) => loops[n].pc = "wait"
  BY <1>1 DEF ScIInv, SC!TypeOK
<1>5. ~schedHist'.missed => \A n \in Loops : ~SC!Working(n)'
  BY <1>1, <1>4 DEF ScIInv, SC!Working, Listening
<1>6. SC!OneScheduler'  BY <1>1, <1>5 DEF SC!OneScheduler
<1>7. OneAlive'  BY <1>1, <1>4 DEF ScIInv, OneAlive
<1>8. OwnTickers'
  <2>1. ~schedHist'.missed => \A n \in Loops : loops[n].pc # "select" BY <1>4 DEF SC!Working
  <2> QED BY <1>1, <1>4, <1>5, <2>1 DEF ScIInv, OwnTickers
<1> QED BY <1>2, <1>3, <1>6, <1>7, <1>8 DEF ScIInv

LEMMA ScConfig == ASSUME ScIInv, NEW h \in Hours, SC!UpdateSchedulerConfig(h) PROVE ScIInv'
<1> USE ScAssumed
<1>1. /\ hours' = h
      /\ tickers' = IF running /\ current # 0
                    THEN [tickers EXCEPT ![current] = [armed |-> tickers[current].armed \cup {"checkin"}, hours |-> h]] ELSE tickers
      /\ schedHist' = [schedHist EXCEPT !.late = @ \/ \E n \in Loops : loops[n].pc = "make"]
      /\ budget < Starts["SC"] /\ budget' = budget + 1
      /\ UNCHANGED <<running, stopChan, closed, current, loops>>
  BY DEF SC!UpdateSchedulerConfig, SC!Request
<1> DEFINE b == schedHist.late \/ \E n \in Loops : loops[n].pc = "make"
<1>a. b \in BOOLEAN /\ schedHist' = [schedHist EXCEPT !.late = b]
  BY <1>1 DEF ScIInv, SC!TypeOK
<1> HIDE DEF b
<1>b. tickers' \in [Loops -> [armed : SUBSET SC!Kinds, hours : Hours \cup {0}]]
  BY <1>1 DEF ScIInv, SC!TypeOK, SC!Kinds
<1>2. SC!TypeOK'  BY <1>1, <1>a, <1>b DEF ScIInv, SC!TypeOK
<1>3. /\ schedHist'.hurried = schedHist.hurried /\ schedHist'.missed = schedHist.missed
      /\ ~schedHist'.late => ~schedHist.late /\ \A n \in Loops : loops[n].pc # "make"
  BY <1>1 DEF ScIInv, SC!TypeOK
<1>4. \A n \in Loops : SC!Working(n)' <=> SC!Working(n)  BY <1>1 DEF SC!Working
<1>5. SC!OneScheduler' /\ Listening' /\ OneAlive'
  BY <1>1, <1>3, <1>4 DEF ScIInv, SC!OneScheduler, Listening, OneAlive
<1>6. OwnTickers'
  <2> SUFFICES ASSUME ~schedHist.hurried, NEW n \in Loops
               PROVE  /\ (loops[n].pc = "make" /\ ~schedHist'.late => loops[n].hours = h)
                      /\ (loops[n].pc = "wait" => loops[n].mine = n)
                      /\ (loops[n].pc \in {"select", "wait"} => current = n)
                      /\ (~schedHist.missed /\ (loops[n].pc = "select" \/ (loops[n].pc = "wait" /\ SC!Working(n))) =>
                           tickers'[n].armed = SC!Kinds /\ (~schedHist'.late => tickers'[n].hours = h))
    BY <1>1, <1>3, <1>4 DEF OwnTickers
  <2>1. /\ (loops[n].pc = "wait" => loops[n].mine = n)
        /\ (loops[n].pc \in {"select", "wait"} => current = n)
    BY DEF ScIInv, OwnTickers
  <2>2. ASSUME ~schedHist.missed, loops[n].pc = "select" \/ (loops[n].pc = "wait" /\ SC!Working(n))
        PROVE  tickers'[n].armed = SC!Kinds /\ tickers'[n].hours = h
    <3>1. SC!Working(n) /\ current = n /\ n # 0  BY <2>1, <2>2 DEF SC!Working
    <3>2. running  BY <2>2, <3>1 DEF ScIInv, SC!OneScheduler
    <3>3. tickers[n].armed = SC!Kinds  BY <2>2 DEF ScIInv, OwnTickers
    <3>4. tickers'[n] = [armed |-> tickers[n].armed \cup {"checkin"}, hours |-> h]
      BY <1>1, <3>1, <3>2 DEF ScIInv, SC!TypeOK
    <3> QED BY <3>3, <3>4 DEF SC!Kinds
  <2> QED BY <1>3, <2>1, <2>2
<1> QED BY <1>2, <1>5, <1>6 DEF ScIInv

LEMMA ScReads == ASSUME ScIInv, NEW n \in Loops, SC!ReadIntervals(n) PROVE ScIInv'
<1>1. /\ loops[n].pc = "begin" /\ loops' = [loops EXCEPT ![n].pc = "make", ![n].hours = hours]
      /\ UNCHANGED <<running, stopChan, closed, hours, tickers, current, schedHist, budget>>
  BY DEF SC!ReadIntervals
<1>2. SC!TypeOK'
  <2> DEFINE r == [loops[n] EXCEPT !.pc = "make", !.hours = hours]
  <2>1. r \in ScLoop
    <3>1. loops[n] \in ScLoop /\ stopChan \in Nat /\ current \in Loops \cup {0} /\ hours \in Hours
      BY DEF ScIInv, SC!TypeOK, ScLoop
    <3> QED BY <3>1 DEF ScLoop
  <2>2. loops' = [loops EXCEPT ![n] = r]  BY <1>1 DEF ScIInv, SC!TypeOK
  <2> HIDE DEF r
  <2>3. loops' \in [Loops -> ScLoop]  BY <2>1, <2>2 DEF ScIInv, SC!TypeOK, ScLoop
  <2> QED BY <1>1, <2>3 DEF ScIInv, SC!TypeOK, ScLoop
<1>3. /\ loops'[n].pc = "make" /\ loops'[n].hours = hours
      /\ \A k \in Loops \ {n} : loops'[k] = loops[k]
  BY <1>1 DEF ScIInv, SC!TypeOK
<1>a. loops[n].pc = "begin" /\ UNCHANGED <<running, stopChan, closed, hours, tickers, current, schedHist>>  BY <1>1
<1>4. \A k \in Loops : SC!Working(k)' <=> SC!Working(k)
  <2>1. SC!Working(n)' /\ SC!Working(n)  BY <1>1, <1>3 DEF SC!Working
  <2>2. \A k \in Loops \ {n} : SC!Working(k)' <=> SC!Working(k)  BY <1>a, <1>3 DEF SC!Working
  <2> QED BY <2>1, <2>2
<1>5. SC!OneScheduler' /\ Listening' /\ OneAlive' /\ OwnTickers'
  BY <1>a, <1>3, <1>4 DEF ScIInv, SC!OneScheduler, Listening, OneAlive, OwnTickers
<1> QED BY <1>2, <1>5 DEF ScIInv

LEMMA ScMakes == ASSUME ScIInv, NEW n \in Loops, SC!NewTickers(n) PROVE ScIInv'
<1>1. /\ loops[n].pc = "make" /\ loops' = [loops EXCEPT ![n].pc = "select"]
      /\ tickers' = [tickers EXCEPT ![n] = [armed |-> SC!Kinds, hours |-> loops[n].hours]] /\ current' = n
      /\ UNCHANGED <<running, stopChan, closed, hours, schedHist, budget>>
  BY DEF SC!NewTickers
<1>2. SC!TypeOK'
  <2> DEFINE r == [loops[n] EXCEPT !.pc = "select"]
  <2>1. r \in ScLoop
    <3>1. loops[n] \in ScLoop /\ stopChan \in Nat /\ current \in Loops \cup {0} /\ hours \in Hours
      BY DEF ScIInv, SC!TypeOK, ScLoop
    <3> QED BY <3>1 DEF ScLoop
  <2>2. loops' = [loops EXCEPT ![n] = r]  BY <1>1 DEF ScIInv, SC!TypeOK
  <2> HIDE DEF r
  <2>3. loops' \in [Loops -> ScLoop]  BY <2>1, <2>2 DEF ScIInv, SC!TypeOK, ScLoop
  <2> QED BY <1>1, <2>3 DEF ScIInv, SC!TypeOK, ScLoop
<1>3. /\ loops'[n].pc = "select" /\ tickers'[n].armed = SC!Kinds /\ tickers'[n].hours = loops[n].hours
      /\ \A k \in Loops \ {n} : loops'[k] = loops[k]
  BY <1>1 DEF ScIInv, SC!TypeOK
<1>4. \A k \in Loops : SC!Working(k)' <=> SC!Working(k)  BY <1>1, <1>3 DEF SC!Working
<1>5. SC!OneScheduler' /\ Listening' /\ OneAlive'
  BY <1>1, <1>3, <1>4 DEF ScIInv, SC!OneScheduler, Listening, OneAlive
<1>6. ~schedHist.hurried => \A k \in Loops \ {n} : ~SC!Alive(k)  BY <1>1 DEF ScIInv, OneAlive
<1>7. OwnTickers'
  BY <1>1, <1>3, <1>6 DEF ScIInv, OwnTickers
<1> QED BY <1>2, <1>5, <1>7 DEF ScIInv

LEMMA ScSelects == ASSUME ScIInv, NEW n \in Loops, SC!EnterSelect(n) PROVE ScIInv'
<1>1. /\ loops[n].pc = "select" /\ loops' = [loops EXCEPT ![n] = [loops[n] EXCEPT !.pc = "wait", !.chan = stopChan, !.mine = current]]
      /\ UNCHANGED <<running, stopChan, closed, hours, tickers, current, schedHist, budget>>
  BY DEF SC!EnterSelect
<1>2. SC!TypeOK'
  <2> DEFINE r == [loops[n] EXCEPT !.pc = "wait", !.chan = stopChan, !.mine = current]
  <2>1. r \in ScLoop
    <3>1. loops[n] \in ScLoop /\ stopChan \in Nat /\ current \in Loops \cup {0} /\ hours \in Hours
      BY DEF ScIInv, SC!TypeOK, ScLoop
    <3> QED BY <3>1 DEF ScLoop
  <2>2. loops' = [loops EXCEPT ![n] = r]  BY <1>1 DEF ScIInv, SC!TypeOK
  <2> HIDE DEF r
  <2>3. loops' \in [Loops -> ScLoop]  BY <2>1, <2>2 DEF ScIInv, SC!TypeOK, ScLoop
  <2> QED BY <1>1, <2>3 DEF ScIInv, SC!TypeOK, ScLoop
<1>3. /\ loops'[n].pc = "wait" /\ loops'[n].chan = stopChan /\ loops'[n].mine = current
      /\ \A k \in Loops \ {n} : loops'[k] = loops[k]
  BY <1>1 DEF ScIInv, SC!TypeOK
<1>4. \A k \in Loops : SC!Working(k)' <=> SC!Working(k)
  <2>1. stopChan \notin closed  BY DEF ScIInv, Listening
  <2>2. SC!Working(n)' /\ SC!Working(n)  BY <1>1, <1>3, <2>1 DEF SC!Working
  <2>3. \A k \in Loops \ {n} : SC!Working(k)' <=> SC!Working(k)  BY <1>1, <1>3 DEF SC!Working
  <2> QED BY <2>2, <2>3
<1>5. SC!OneScheduler' /\ Listening' /\ OneAlive'
  BY <1>1, <1>3, <1>4 DEF ScIInv, SC!OneScheduler, Listening, OneAlive
<1>6. OwnTickers'
  <2>1. ~schedHist.hurried => current = n  BY <1>1 DEF ScIInv, OwnTickers
  <2> QED BY <1>1, <1>3, <1>4, <2>1 DEF ScIInv, OwnTickers
<1> QED BY <1>2, <1>5, <1>6 DEF ScIInv

LEMMA ScFires == ASSUME ScIInv, NEW n \in Loops, SC!Fires(n) PROVE ScIInv'
<1>1. /\ loops[n].pc = "wait" /\ loops' = [loops EXCEPT ![n].pc = "select"]
      /\ schedHist' = [schedHist EXCEPT !.missed = @ \/ loops[n].chan \in closed]
      /\ UNCHANGED <<running, stopChan, closed, hours, tickers, current, budget>>
  BY DEF SC!Fires
<1>2. SC!TypeOK'
  <2> DEFINE r == [loops[n] EXCEPT !.pc = "select"]
  <2>1. r \in ScLoop
    <3>1. loops[n] \in ScLoop /\ stopChan \in Nat /\ current \in Loops \cup {0} /\ hours \in Hours
      BY DEF ScIInv, SC!TypeOK, ScLoop
    <3> QED BY <3>1 DEF ScLoop
  <2>2. loops' = [loops EXCEPT ![n] = r]  BY <1>1 DEF ScIInv, SC!TypeOK
  <2> HIDE DEF r
  <2>3. loops' \in [Loops -> ScLoop]  BY <2>1, <2>2 DEF ScIInv, SC!TypeOK, ScLoop
  <2> QED BY <1>1, <2>3 DEF ScIInv, SC!TypeOK, ScLoop
<1>3. /\ loops'[n].pc = "select"
      /\ \A k \in Loops \ {n} : loops'[k] = loops[k]
  BY <1>1 DEF ScIInv, SC!TypeOK
<1>4. /\ schedHist'.hurried = schedHist.hurried /\ schedHist'.late = schedHist.late
      /\ ~schedHist'.missed => ~schedHist.missed /\ loops[n].chan \notin closed
  BY <1>1 DEF ScIInv, SC!TypeOK
<1>5. /\ \A k \in Loops \ {n} : SC!Working(k)' <=> SC!Working(k)
      /\ SC!Working(n)'
      /\ ~schedHist'.missed => SC!Working(n)
  BY <1>1, <1>3, <1>4 DEF SC!Working
<1>6. SC!OneScheduler' /\ Listening' /\ OneAlive' /\ OwnTickers'
  BY <1>1, <1>3, <1>4, <1>5 DEF ScIInv, SC!OneScheduler, Listening, OneAlive, OwnTickers
<1> QED BY <1>2, <1>6 DEF ScIInv

LEMMA ScSees == ASSUME ScIInv, NEW n \in Loops, SC!SeesStop(n) PROVE ScIInv'
<1>1. /\ loops[n].pc = "wait" /\ loops[n].chan \in closed /\ loops' = [loops EXCEPT ![n].pc = "leave"]
      /\ UNCHANGED <<running, stopChan, closed, hours, tickers, current, schedHist, budget>>
  BY DEF SC!SeesStop
<1>2. SC!TypeOK'
  <2> DEFINE r == [loops[n] EXCEPT !.pc = "leave"]
  <2>1. r \in ScLoop
    <3>1. loops[n] \in ScLoop /\ stopChan \in Nat /\ current \in Loops \cup {0} /\ hours \in Hours
      BY DEF ScIInv, SC!TypeOK, ScLoop
    <3> QED BY <3>1 DEF ScLoop
  <2>2. loops' = [loops EXCEPT ![n] = r]  BY <1>1 DEF ScIInv, SC!TypeOK
  <2> HIDE DEF r
  <2>3. loops' \in [Loops -> ScLoop]  BY <2>1, <2>2 DEF ScIInv, SC!TypeOK, ScLoop
  <2> QED BY <1>1, <2>3 DEF ScIInv, SC!TypeOK, ScLoop
<1>3. /\ loops'[n].pc = "leave"
      /\ \A k \in Loops \ {n} : loops'[k] = loops[k]
  BY <1>1 DEF ScIInv, SC!TypeOK
<1>4. \A k \in Loops : SC!Working(k)' <=> SC!Working(k)  BY <1>1, <1>3 DEF SC!Working
<1>5. SC!OneScheduler' /\ Listening' /\ OneAlive' /\ OwnTickers'
  BY <1>1, <1>3, <1>4 DEF ScIInv, SC!OneScheduler, Listening, OneAlive, OwnTickers
<1> QED BY <1>2, <1>5 DEF ScIInv

LEMMA ScLeaves == ASSUME ScIInv, NEW n \in Loops, SC!StopTickers(n) PROVE ScIInv'
<1>1. /\ loops[n].pc = "leave" /\ loops' = [loops EXCEPT ![n].pc = "gone"]
      /\ tickers' = [tickers EXCEPT ![current].armed = {}]
      /\ UNCHANGED <<running, stopChan, closed, hours, current, schedHist, budget>>
  BY DEF SC!StopTickers
<1>2. SC!TypeOK'
  <2> DEFINE r == [loops[n] EXCEPT !.pc = "gone"]
  <2>1. r \in ScLoop
    <3>1. loops[n] \in ScLoop /\ stopChan \in Nat /\ current \in Loops \cup {0} /\ hours \in Hours
      BY DEF ScIInv, SC!TypeOK, ScLoop
    <3> QED BY <3>1 DEF ScLoop
  <2>2. loops' = [loops EXCEPT ![n] = r]  BY <1>1 DEF ScIInv, SC!TypeOK
  <2> HIDE DEF r
  <2>3. loops' \in [Loops -> ScLoop]  BY <2>1, <2>2 DEF ScIInv, SC!TypeOK, ScLoop
  <2>4. tickers' \in [Loops -> [armed : SUBSET SC!Kinds, hours : Hours \cup {0}]]
    <3>1. CASE current = 0  BY <1>1, <3>1, ScAssumed DEF ScIInv, SC!TypeOK
    <3>2. CASE current \in Loops
      <4> DEFINE t == [tickers[current] EXCEPT !.armed = {}]
      <4>1. t \in [armed : SUBSET SC!Kinds, hours : Hours \cup {0}]  BY <3>2 DEF ScIInv, SC!TypeOK
      <4>2. tickers' = [tickers EXCEPT ![current] = t]  BY <1>1
      <4> HIDE DEF t
      <4> QED BY <4>1, <4>2 DEF ScIInv, SC!TypeOK
    <3> QED BY <3>1, <3>2 DEF ScIInv, SC!TypeOK
  <2> QED BY <1>1, <2>3, <2>4 DEF ScIInv, SC!TypeOK, ScLoop
<1>3. /\ loops'[n].pc = "gone"
      /\ \A k \in Loops \ {n} : loops'[k] = loops[k]
  BY <1>1 DEF ScIInv, SC!TypeOK
<1>4. \A k \in Loops : SC!Working(k)' <=> SC!Working(k)  BY <1>1, <1>3 DEF SC!Working
<1>5. SC!OneScheduler' /\ Listening' /\ OneAlive'
  BY <1>1, <1>3, <1>4 DEF ScIInv, SC!OneScheduler, Listening, OneAlive
<1>6. ~schedHist.hurried => \A k \in Loops \ {n} : ~SC!Alive(k)  BY <1>1 DEF ScIInv, OneAlive
<1>7. OwnTickers'  BY <1>1, <1>3, <1>6 DEF OwnTickers
<1> QED BY <1>2, <1>5, <1>7 DEF ScIInv

---------------------------------------------------------------------------
(* Scheduler: the theorem. *)

LEMMA ScStep == ASSUME ScIInv, SC!Next PROVE ScIInv'
BY ScStart, ScStop, ScConfig, ScReads, ScMakes, ScSelects, ScFires, ScSees, ScLeaves DEF SC!Next

LEMMA ScStill == ASSUME ScIInv, UNCHANGED <<scVars, budget>> PROVE ScIInv'
<1> USE DEF scVars
<1>1. SC!TypeOK'  BY DEF ScIInv, SC!TypeOK
<1>2. \A n \in Loops : SC!Working(n)' <=> SC!Working(n)  BY DEF SC!Working
<1>3. SC!OneScheduler' /\ Listening' /\ OneAlive' /\ OwnTickers'
  BY <1>2 DEF ScIInv, SC!OneScheduler, Listening, OneAlive, OwnTickers
<1> QED BY <1>1, <1>3 DEF ScIInv

LEMMA ScImplies == ASSUME ScIInv PROVE SC!SchedulerInv
<1>1. SC!TickersArmed
  <2> SUFFICES ASSUME ~schedHist.hurried, ~schedHist.missed, NEW n \in Loops, loops[n].pc = "wait", SC!Working(n)
               PROVE  tickers[loops[n].mine].armed = SC!Kinds /\ (~schedHist.late => tickers[loops[n].mine].hours = hours)
    BY DEF SC!TickersArmed
  <2> QED BY DEF ScIInv, OwnTickers
<1> QED BY <1>1 DEF ScIInv, SC!SchedulerInv

\* SchedulerInv: a running scheduler has a goroutine and, but for a stop that was missed, only one,
\* and a stopped one none; it waits on armed tickers with the interval asked for, but for a start
\* in haste or a change in between, for any number of goroutines, requests and intervals.
THEOREM SchedulerKeepsOneGoroutine == ServerSpec => []SchedulerInv
<1> DEFINE I == part = "SC" => ScIInv
<1>1. ServerInit => I  BY ScInit DEF ServerInit, AdministrationInit
<1>2. I /\ [ServerNext]_serverVars => I'
  <2> SUFFICES ASSUME I, [ServerNext]_serverVars PROVE I'  OBVIOUS
  <2>1. CASE part = "SC" /\ SC!Next /\ part' = part  BY <2>1, ScStep
  <2>2. CASE part' = part /\ part # "SC"  BY <2>2
  <2>3. CASE UNCHANGED serverVars  BY <2>3, ScStill DEF serverVars, administration
  <2> QED BY <2>1, <2>2, <2>3 DEF ServerNext, AdministrationNext, GatewayNext
<1>3. I => SchedulerInv  BY ScImplies DEF SchedulerInv
<1> QED BY <1>1, <1>2, <1>3, PTL DEF ServerSpec

---------------------------------------------------------------------------
(* Prices: the inductive invariant. *)

DimOptions == {Dimensions[i] : i \in 1..Len(Dimensions)}
PrKeys == DimOptions \cup {"group_ratio"}

LEMMA PrAssumed ==
  /\ Len(Dimensions) \in Nat \ {0} /\ Starts["PR"] \in Nat /\ DOMAIN Dimensions = 1..Len(Dimensions)
  /\ PR!Keys = PrKeys /\ PR!DimKeys = DimOptions /\ "group_ratio" \notin DimOptions
  /\ (\A i \in 1..Len(Dimensions) : Dimensions[i] \in DimOptions)
  /\ Dimensions[1] \in DimOptions /\ Dimensions[Len(Dimensions)] \in DimOptions
<1>1. Dimensions \in Seq(STRING \ {"group_ratio"}) /\ Len(Dimensions) \in Nat \ {0} /\ Starts["PR"] \in Nat  BY ServerAssumption
<1>2. DOMAIN Dimensions = 1..Len(Dimensions) /\ \A i \in 1..Len(Dimensions) : Dimensions[i] # "group_ratio"  BY <1>1
<1>3. 1 \in 1..Len(Dimensions) /\ Len(Dimensions) \in 1..Len(Dimensions)  BY <1>1
<1> QED BY <1>1, <1>2, <1>3 DEF PR!Keys, PR!DimKeys, PR!Group, DimOptions, PrKeys

LEMMA PrValues ==
  /\ PR!Unset \in Int /\ PR!Default \in Int /\ PR!Broken \in Int /\ PR!Empty \in Int
  /\ PR!Unset # PR!Default /\ PR!Unset # PR!Broken /\ PR!Default # PR!Broken
  /\ PR!Unset \notin Nat /\ PR!Default \notin Nat /\ PR!Broken \notin Nat
BY DEF PR!Unset, PR!Default, PR!Broken, PR!Empty

\* The price that a text brings about.
Full(v) == IF v = PR!Unset THEN PR!Default ELSE v
PrRaw == [op : {"sync", "option", "group", "quote"}, pc : {"read", "row", "map", "save", "swap", "price"}, i : 1..Len(Dimensions),
          key : PrKeys \cup {None}, copy : Int, alone : BOOLEAN, clean : BOOLEAN]
PrJobs ==
  {j \in PrRaw :
     /\ j.op = "sync" => j.pc \in {"read", "row", "map"}
     /\ j.op = "option" => j.pc \in {"save", "map"} /\ j.key \in PrKeys /\ j.clean
     /\ j.op = "group" => j.pc \in {"read", "swap"}
     /\ j.op = "quote" => j.pc = "price"
     /\ j.pc = "read" => j.i = 1 /\ j.clean}
PrHists == [memOff : BOOLEAN, tabOff : BOOLEAN, grpRaced : BOOLEAN, grpReset : BOOLEAN, byHand : BOOLEAN, torn : BOOLEAN]
PrTyped ==
  /\ budget \in 0..Starts["PR"] /\ configs \in Nat \cup {PR!Default} /\ groups \in Int
  /\ optionRows \in [PrKeys -> Int] /\ optionMap \in [PrKeys -> Int] /\ prices \in [PrKeys -> Int]
  /\ edits \in [Workers -> PrJobs \cup {PR!Idle}] /\ priceHist \in PrHists

KeyOf(j) == IF j.op = "sync" THEN Dimensions[j.i] ELSE j.key
Writing(j) == j.op \in {"sync", "option"}

\* Who changes prices alone has no rival.
Solo ==
  /\ \A w \in Workers : edits[w].op \in {"sync", "option", "quote"} /\ edits[w].alone => \A v \in Workers \ {w} : ~Writing(edits[v])
  /\ \A w \in Workers : edits[w].op = "group" /\ edits[w].alone => \A v \in Workers \ {w} : edits[v].op # "group"

\* What one that changes prices alone has done so far.
Carried(j) ==
  Writing(j) /\ j.alone =>
    /\ j.op = "sync" /\ j.pc \in {"row", "map"} => j.copy = configs
    /\ j.op = "sync" /\ j.pc \in {"row", "map"} /\ j.clean =>
         \A n \in 1..(j.i - 1) : optionRows[Dimensions[n]] = j.copy /\ optionMap[Dimensions[n]] = j.copy
    /\ j.pc = "map" /\ j.clean => optionRows[KeyOf(j)] = j.copy
    /\ ~j.clean => priceHist.memOff
Passes == \A w \in Workers : Carried(edits[w])
Quoted(j) == j.op = "quote" /\ j.alone => j.copy = prices[Dimensions[1]]
Quotes == \A w \in Workers : Quoted(edits[w])
Swapping(j) == j.op = "group" /\ j.alone /\ j.pc = "swap" => j.copy = groups
Swaps == \A w \in Workers : Swapping(edits[w])

\* Prices follow the texts in memory, those the table, and the table the configurations.
Followed == \A k \in DimOptions : optionMap[k] # PR!Broken => prices[k] = Full(optionMap[k])
Taking(k) == \E w \in Workers : edits[w].pc = "map" /\ KeyOf(edits[w]) = k
Alike(k) == Full(optionRows[k]) = Full(optionMap[k])
Loaded == ~priceHist.memOff => \A k \in DimOptions : Alike(k) \/ Taking(k)
Tabled == ~priceHist.tabOff => \A k \in DimOptions : optionRows[k] = configs
Grouped == ~priceHist.grpRaced /\ ~priceHist.grpReset => prices["group_ratio"] = groups \/ \E w \in Workers : edits[w].op = "group"
PrIInv == PrTyped /\ Solo /\ Passes /\ Quotes /\ Swaps /\ Followed /\ Loaded /\ Tabled /\ Grouped /\ ~priceHist.torn

LEMMA PrIdle == PR!Idle \notin PrJobs /\ PR!Idle.op = "idle" /\ PR!Idle.pc = "idle"
BY DEF PR!Idle, PrJobs, PrRaw
LEMMA PrKey == ASSUME NEW w \in Workers PROVE PR!Key(w) = KeyOf(edits[w])
BY DEF PR!Key, KeyOf
LEMMA KeyOfIn == ASSUME NEW j \in PrJobs, Writing(j) PROVE KeyOf(j) \in PrKeys /\ (j.op = "sync" => KeyOf(j) \in DimOptions)
BY PrAssumed DEF KeyOf, PrJobs, PrRaw, Writing, PrKeys

\* What the options bring about.
LEMMA PricesAre ==
  ASSUME NEW map \in [PrKeys -> Int], NEW old \in [PrKeys -> Int]
  PROVE  /\ PR!UpdatePricing(map, old) \in [PrKeys -> Int]
         /\ \A k \in PrKeys : map[k] # PR!Broken => PR!UpdatePricing(map, old)[k] = Full(map[k])
<1>1. PR!UpdatePricing(map, old) =
        [k \in PrKeys |-> IF map[k] = PR!Unset THEN PR!Default ELSE IF map[k] = PR!Broken THEN old[k] ELSE map[k]]
  BY PrAssumed DEF PR!UpdatePricing
<1> QED BY <1>1, PrValues DEF Full
LEMMA LoadedPrices ==
  ASSUME NEW rs \in [PrKeys -> Int], NEW gs \in Int, NEW old \in Int
  PROVE  /\ PR!InitOptions(rs, gs, old) \in [PrKeys -> Int] /\ PR!InitOptions(rs, gs, old)["group_ratio"] = gs
         /\ \A k \in DimOptions : rs[k] # PR!Broken => PR!InitOptions(rs, gs, old)[k] = Full(rs[k])
<1> DEFINE o == [k \in PrKeys |-> old]
           p == PR!UpdatePricing(rs, o)
<1>1. o \in [PrKeys -> Int]  OBVIOUS
<1>2. p \in [PrKeys -> Int] /\ \A k \in PrKeys : rs[k] # PR!Broken => p[k] = Full(rs[k])
  <2> HIDE DEF o
  <2> QED BY <1>1, PricesAre
<1>3. PR!InitOptions(rs, gs, old) = [p EXCEPT !["group_ratio"] = gs]  BY PrAssumed DEF PR!InitOptions, PR!Group
<1> HIDE DEF p
<1> QED BY <1>2, <1>3, PrAssumed DEF PrKeys

LEMMA PrInit == ASSUME PR!Init PROVE PrIInv
<1> USE PrAssumed, PrValues
<1>1. PICK v \in {0, PR!Default} :
        /\ configs = v /\ groups = v /\ optionRows = [k \in PrKeys |-> v]
        /\ optionMap = IF v = PR!Default THEN [k \in PrKeys |-> PR!Unset] ELSE optionRows
        /\ prices = PR!InitOptions(optionRows, v, PR!Empty)
  BY DEF PR!Init
<1>2. budget = Starts["PR"] /\ edits = [w \in Workers |-> PR!Idle]
      /\ priceHist = [memOff |-> FALSE, tabOff |-> FALSE, grpRaced |-> FALSE, grpReset |-> FALSE, byHand |-> FALSE, torn |-> FALSE]
  BY DEF PR!Init
<1>3. v \in Int /\ v # PR!Broken /\ v # PR!Unset /\ Full(v) = v /\ Full(PR!Unset) = PR!Default  BY DEF Full
<1>4. optionRows \in [PrKeys -> Int] /\ optionMap \in [PrKeys -> Int] /\ \A k \in PrKeys : optionRows[k] = v /\ Full(optionMap[k]) = v
  BY <1>1, <1>3
<1>5. prices \in [PrKeys -> Int] /\ prices["group_ratio"] = v /\ \A k \in DimOptions : prices[k] = v
  <2>1. /\ prices \in [PrKeys -> Int] /\ prices["group_ratio"] = v
        /\ \A k \in DimOptions : optionRows[k] # PR!Broken => prices[k] = Full(optionRows[k])
    BY <1>1, <1>3, <1>4, LoadedPrices
  <2> QED BY <1>3, <1>4, <2>1 DEF PrKeys
<1>6. PrTyped  BY <1>1, <1>2, <1>3, <1>4, <1>5 DEF PrTyped, PrHists
<1>7. \A w \in Workers : edits[w] = PR!Idle  BY <1>2
<1>8. Solo /\ Passes /\ Quotes /\ Swaps  BY <1>7, PrIdle DEF Solo, Passes, Carried, Quotes, Quoted, Swaps, Swapping, Writing
<1>9. Followed /\ Loaded /\ Tabled /\ Grouped  BY <1>1, <1>2, <1>3, <1>4, <1>5 DEF Followed, Loaded, Alike, Tabled, Grouped, PrKeys
<1> QED BY <1>2, <1>6, <1>8, <1>9 DEF PrIInv

LEMMA PrImplies == ASSUME PrIInv PROVE PR!PricesInv
<1> USE PrAssumed DEF PrIInv
<1>1. PR!TypeOK  BY DEF PR!TypeOK, PrTyped
<1>2. ASSUME PR!AtRest
      PROVE  /\ ~priceHist.memOff => \A k \in PR!DimKeys : optionRows[k] # PR!Broken => prices[k] = PR!UpdatePricing(optionRows, prices)[k]
             /\ ~priceHist.tabOff => \A k \in PR!DimKeys : optionRows[k] = configs
             /\ ~priceHist.grpRaced /\ ~priceHist.grpReset => prices[PR!Group] = groups
  <2>1. \A w \in Workers : ~Writing(edits[w]) /\ edits[w].op # "group" /\ edits[w].pc # "map"
    <3> SUFFICES ASSUME NEW w \in Workers PROVE ~Writing(edits[w]) /\ edits[w].op # "group" /\ edits[w].pc # "map"  OBVIOUS
    <3>1. edits[w].op \in {"idle", "quote"}  BY <1>2 DEF PR!AtRest
    <3> QED BY <3>1, PrIdle DEF Writing, PrTyped, PrJobs, PrRaw
  <2>2. ASSUME ~priceHist.memOff, NEW k \in DimOptions, optionRows[k] # PR!Broken
        PROVE  prices[k] = PR!UpdatePricing(optionRows, prices)[k]
    <3>1. Alike(k)  BY <2>1, <2>2 DEF Loaded, Taking
    <3>2. Full(optionRows[k]) # PR!Broken  BY <2>2, PrValues DEF Full
    <3>3. optionMap[k] # PR!Broken  BY <3>1, <3>2, PrValues DEF Alike, Full
    <3>4. prices[k] = Full(optionRows[k])  BY <3>1, <3>3 DEF Followed, Alike
    <3>5. PR!UpdatePricing(optionRows, prices)[k] = Full(optionRows[k])  BY <2>2, PricesAre DEF PrTyped, PrKeys
    <3> QED BY <3>4, <3>5
  <2>3. ~priceHist.grpRaced /\ ~priceHist.grpReset => prices[PR!Group] = groups  BY <2>1 DEF Grouped, PR!Group
  <2> QED BY <2>2, <2>3 DEF Tabled
<1> QED BY <1>1, <1>2 DEF PR!PricesInv

---------------------------------------------------------------------------
(* Prices: a change or a bill begins. *)

LEMMA PrBegins ==
  ASSUME PrIInv, NEW w \in Workers, NEW job \in PrJobs, PR!Begin(w, job), job.i = 1, job.clean,
         job.pc # "map" /\ job.pc # "row" /\ job.pc # "swap",
         job.op = "quote" => job.copy = prices[Dimensions[1]],
         UNCHANGED <<optionRows, optionMap, prices>>,
         configs' \in Nat \cup {PR!Default}, configs' = configs \/ (job.op = "sync" /\ priceHist'.tabOff),
         groups' \in Int, groups' = groups \/ job.op = "group",
         priceHist' = priceHist \/ priceHist' = [priceHist EXCEPT !.tabOff = TRUE]
  PROVE  PrIInv'
<1> USE PrAssumed, PrIdle
<1> DEFINE lone == \A u \in Workers \ {w} : ~PR!Busy(u, PR!Rivals(job.op))
<1>1. edits[w] = PR!Idle /\ budget \in 0..Starts["PR"] /\ budget > 0 /\ budget' = budget - 1
      /\ edits' = [v \in Workers |-> IF v = w THEN [job EXCEPT !.alone = lone]
                                     ELSE IF edits[v] # PR!Idle /\ job.op \in PR!Rivals(edits[v].op)
                                       THEN [edits[v] EXCEPT !.alone = FALSE] ELSE edits[v]]
  BY DEF PR!Begin, PrIInv, PrTyped
<1>2. \A v \in Workers : edits[v] \in PrJobs \cup {PR!Idle}  BY DEF PrIInv, PrTyped
<1>3. edits'[w] = [job EXCEPT !.alone = lone] /\ edits'[w] \in PrJobs /\ edits'[w].op = job.op /\ edits'[w].pc = job.pc
      /\ edits'[w].i = job.i /\ edits'[w].copy = job.copy /\ edits'[w].clean = job.clean /\ edits'[w].alone = lone
  <2>1. edits'[w] = [job EXCEPT !.alone = lone]  BY <1>1
  <2>2. lone \in BOOLEAN  OBVIOUS
  <2> HIDE DEF lone
  <2> QED BY <2>1, <2>2 DEF PrJobs, PrRaw
<1> HIDE DEF lone
<1>4. ASSUME NEW v \in Workers \ {w}
      PROVE  /\ edits'[v] \in PrJobs \cup {PR!Idle} /\ edits'[v].op = edits[v].op /\ edits'[v].pc = edits[v].pc
             /\ edits'[v] = edits[v] \/ (edits[v] \in PrJobs /\ ~edits'[v].alone)
             /\ (edits[v] \in PrJobs => edits'[v].i = edits[v].i /\ edits'[v].key = edits[v].key)
             /\ (edits'[v] \in PrJobs /\ edits'[v].alone => edits'[v] = edits[v] /\ job.op \notin PR!Rivals(edits[v].op))
  <2>1. CASE edits[v] # PR!Idle /\ job.op \in PR!Rivals(edits[v].op)
    <3>1. edits'[v] = [edits[v] EXCEPT !.alone = FALSE] /\ edits[v] \in PrJobs  BY <1>1, <1>2, <2>1
    <3> QED BY <3>1 DEF PrJobs, PrRaw
  <2>2. CASE ~(edits[v] # PR!Idle /\ job.op \in PR!Rivals(edits[v].op))
    <3>1. edits'[v] = edits[v]  BY <1>1, <2>2
    <3> QED BY <1>2, <2>2, <3>1
  <2> QED BY <2>1, <2>2
<1>5. PrTyped'
  <2>1. edits' \in [Workers -> PrJobs \cup {PR!Idle}]
    <3>1. edits' = [v \in Workers |-> edits'[v]]  BY <1>1
    <3>2. \A v \in Workers : edits'[v] \in PrJobs \cup {PR!Idle}  BY <1>3, <1>4
    <3> QED BY <3>1, <3>2
  <2>2. budget' \in 0..Starts["PR"]  BY <1>1
  <2>3. priceHist' \in PrHists  BY DEF PrIInv, PrTyped, PrHists
  <2> QED BY <2>1, <2>2, <2>3 DEF PrIInv, PrTyped
<1>6. \A v \in Workers : edits'[v].op = (IF v = w THEN job.op ELSE edits[v].op) /\ edits'[v].pc = (IF v = w THEN job.pc ELSE edits[v].pc)
  BY <1>3, <1>4
<1>7. Solo'
  <2>1. ASSUME NEW u \in Workers, edits'[u].op \in {"sync", "option", "quote"}, edits'[u].alone, NEW v \in Workers \ {u}, Writing(edits[v])'
        PROVE  FALSE
    <3>1. Writing(edits[v])' <=> edits'[v].op \in {"sync", "option"}  BY DEF Writing
    <3>2. CASE u = w
      <4>1. lone /\ job.op # "group"  BY <1>3, <2>1, <3>2
      <4>2. edits[v].op \notin {"sync", "option"}  BY <4>1, <3>2 DEF lone, PR!Busy, PR!Rivals, PR!Writers
      <4> QED BY <4>2, <3>1, <2>1, <1>6, <3>2
    <3>3. CASE u # w
      <4>1. edits'[u] = edits[u] /\ job.op \notin PR!Rivals(edits[u].op) /\ edits[u] \in PrJobs
        <5>1. edits'[u] \in PrJobs  BY <1>4, <2>1, <3>3
        <5> QED BY <1>4, <2>1, <3>3, <5>1
      <4>2. job.op \notin {"sync", "option"}  BY <4>1, <2>1 DEF PR!Rivals, PR!Writers
      <4>3. v # w  BY <4>2, <3>1, <2>1, <1>6
      <4>4. Writing(edits[v])  BY <4>3, <3>1, <2>1, <1>6 DEF Writing
      <4> QED BY <4>1, <4>3, <4>4, <2>1 DEF PrIInv, Solo
    <3> QED BY <3>2, <3>3
  <2>2. ASSUME NEW u \in Workers, edits'[u].op = "group", edits'[u].alone, NEW v \in Workers \ {u}, edits'[v].op = "group"
        PROVE  FALSE
    <3>1. CASE u = w
      <4>1. lone /\ job.op = "group"  BY <1>3, <2>2, <3>1
      <4> QED BY <4>1, <2>2, <3>1, <1>6 DEF lone, PR!Busy, PR!Rivals
    <3>2. CASE u # w
      <4>1. edits'[u] = edits[u] /\ job.op \notin PR!Rivals(edits[u].op)
        <5>1. edits'[u] \in PrJobs  BY <1>4, <2>2, <3>2
        <5> QED BY <1>4, <2>2, <3>2, <5>1
      <4>2. job.op # "group"  BY <4>1, <2>2 DEF PR!Rivals
      <4>3. edits[v].op = "group"  BY <4>2, <2>2, <1>6
      <4> QED BY <4>1, <4>3, <2>2 DEF PrIInv, Solo
    <3> QED BY <3>1, <3>2
  <2> QED BY <2>1, <2>2 DEF Solo
<1>8. Passes'
  <2> SUFFICES ASSUME NEW v \in Workers PROVE Carried(edits[v])'  BY DEF Passes
  <2>1. CASE v = w  BY <1>3, <2>1 DEF Carried, Writing
  <2>2. CASE v # w
    <3> SUFFICES ASSUME edits'[v].op \in {"sync", "option"}, edits'[v].alone PROVE Carried(edits[v])'  BY DEF Carried, Writing
    <3>1. edits'[v] = edits[v] /\ job.op \notin PR!Rivals(edits[v].op)
      <4>1. edits'[v] \in PrJobs  BY <1>4, <2>2
      <4> QED BY <1>4, <2>2, <4>1
    <3>2. configs' = configs  BY <3>1 DEF PR!Rivals, PR!Writers
    <3>3. Carried(edits[v])  BY DEF PrIInv, Passes
    <3>4. priceHist.memOff => priceHist'.memOff  BY DEF PrIInv, PrTyped, PrHists
    <3> QED BY <3>1, <3>2, <3>3, <3>4 DEF Carried, Writing, KeyOf
  <2> QED BY <2>1, <2>2
<1>9. Quotes'
  <2> SUFFICES ASSUME NEW v \in Workers, edits'[v].op = "quote", edits'[v].alone PROVE edits'[v].copy = prices'[Dimensions[1]]  BY DEF Quotes, Quoted
  <2>1. CASE v = w  BY <1>3, <2>1
  <2>2. CASE v # w
    <3>1. edits'[v] = edits[v]
      <4>1. edits'[v] \in PrJobs  BY <1>4, <2>2
      <4> QED BY <1>4, <2>2, <4>1
    <3> QED BY <3>1 DEF PrIInv, Quotes, Quoted
  <2> QED BY <2>1, <2>2
<1>10. Swaps'
  <2> SUFFICES ASSUME NEW v \in Workers, edits'[v].op = "group", edits'[v].alone, edits'[v].pc = "swap" PROVE edits'[v].copy = groups'  BY DEF Swaps, Swapping
  <2>1. v # w  BY <1>6
  <2>2. edits'[v] = edits[v] /\ job.op \notin PR!Rivals(edits[v].op)
    <3>1. edits'[v] \in PrJobs  BY <1>4, <2>1
    <3> QED BY <1>4, <2>1, <3>1
  <2>3. groups' = groups  BY <2>2 DEF PR!Rivals
  <2> QED BY <2>2, <2>3 DEF PrIInv, Swaps, Swapping
<1>11. Followed'  BY DEF PrIInv, Followed
<1>12. \A k \in DimOptions : Taking(k) => Taking(k)'
  <2> SUFFICES ASSUME NEW k \in DimOptions, NEW v \in Workers, edits[v].pc = "map", KeyOf(edits[v]) = k PROVE Taking(k)'  BY DEF Taking
  <2>1. v # w /\ edits[v] \in PrJobs  BY <1>1, <1>2
  <2>2. edits'[v].pc = "map" /\ edits'[v].op = edits[v].op /\ edits'[v].i = edits[v].i /\ edits'[v].key = edits[v].key  BY <1>4, <2>1
  <2> QED BY <2>2 DEF Taking, KeyOf
<1>13. priceHist'.memOff = priceHist.memOff /\ priceHist'.grpRaced = priceHist.grpRaced /\ priceHist'.grpReset = priceHist.grpReset
       /\ priceHist'.torn = priceHist.torn /\ (priceHist'.tabOff = priceHist.tabOff \/ priceHist'.tabOff)
  BY DEF PrIInv, PrTyped, PrHists
<1>14. Loaded'  BY <1>12, <1>13 DEF PrIInv, Loaded, Alike
<1>15. Tabled'  BY <1>13 DEF PrIInv, Tabled
<1>16. Grouped'
  <2> SUFFICES ASSUME ~priceHist'.grpRaced, ~priceHist'.grpReset, \A v \in Workers : edits'[v].op # "group"
               PROVE  prices'["group_ratio"] = groups'
    BY DEF Grouped
  <2>1. groups' = groups /\ \A v \in Workers \ {w} : edits[v].op # "group"  BY <1>6
  <2> QED BY <1>1, <1>13, <2>1 DEF PrIInv, Grouped
<1> QED BY <1>5, <1>7, <1>8, <1>9, <1>10, <1>11, <1>13, <1>14, <1>15, <1>16 DEF PrIInv

LEMMA PrFresh ==
  ASSUME NEW p \in {"sync", "option", "group", "quote"}, NEW c \in {"read", "save", "price"}, NEW k \in PrKeys \cup {None}, NEW x \in Int,
         p = "sync" => c = "read", p = "option" => c = "save" /\ k \in PrKeys, p = "group" => c = "read", p = "quote" => c = "price"
  PROVE  [op |-> p, pc |-> c, i |-> 1, key |-> k, copy |-> x, alone |-> TRUE, clean |-> TRUE] \in PrJobs
BY PrAssumed DEF PrJobs, PrRaw

LEMMA PrEdits ==
  ASSUME PrIInv, NEW w \in Workers,
         PR!EditConfig(w) \/ PR!SyncPricingFromModelConfig(w) \/ PR!UpdateOption(w) \/ PR!EditGroup(w) \/ PR!Quote(w)
  PROVE  PrIInv'
<1> USE PrAssumed, PrValues
<1>1. configs \in Nat \cup {PR!Default} /\ groups \in Int /\ budget \in 0..Starts["PR"] /\ prices \in [PrKeys -> Int] /\ priceHist \in PrHists
  BY DEF PrIInv, PrTyped
<1>2. PR!Stamp \in Nat  BY <1>1 DEF PR!Stamp
<1>3. PR!Job("sync", "read") \in PrJobs /\ PR!Job("group", "read") \in PrJobs
  BY PrFresh DEF PR!Job
<1>4. CASE PR!EditConfig(w)
  <2>1. configs' \in Nat /\ priceHist' = [priceHist EXCEPT !.tabOff = TRUE] /\ PR!Begin(w, PR!Job("sync", "read"))
        /\ UNCHANGED <<groups, optionRows, optionMap, prices>>
    BY <1>2, <1>4 DEF PR!EditConfig
  <2>2. priceHist'.tabOff  BY <1>1, <2>1 DEF PrHists
  <2>3. PR!Job("sync", "read").op = "sync" /\ PR!Job("sync", "read").pc = "read" /\ PR!Job("sync", "read").i = 1 /\ PR!Job("sync", "read").clean
    BY DEF PR!Job
  <2> QED BY <1>1, <1>3, <2>1, <2>2, <2>3, PrBegins
<1>5. CASE PR!SyncPricingFromModelConfig(w)
  <2>1. PR!Begin(w, PR!Job("sync", "read")) /\ UNCHANGED <<configs, groups, optionRows, optionMap, prices, priceHist>>
    BY <1>5 DEF PR!SyncPricingFromModelConfig
  <2>2. PR!Job("sync", "read").op = "sync" /\ PR!Job("sync", "read").pc = "read" /\ PR!Job("sync", "read").i = 1 /\ PR!Job("sync", "read").clean
    BY DEF PR!Job
  <2> QED BY <1>1, <1>3, <2>1, <2>2, PrBegins
<1>6. CASE PR!UpdateOption(w)
  <2>1. PICK k \in PrKeys, v \in {PR!Stamp, PR!Unset, PR!Broken} : PR!Begin(w, [PR!Job("option", "save") EXCEPT !.key = k, !.copy = v])
    BY <1>6 DEF PR!UpdateOption
  <2>2. UNCHANGED <<configs, groups, optionRows, optionMap, prices, priceHist>>  BY <1>6 DEF PR!UpdateOption
  <2> DEFINE bare == PR!Job("option", "save")
             jb == [bare EXCEPT !.key = k, !.copy = v]
  <2>3. bare \in PrRaw /\ bare.op = "option" /\ bare.pc = "save" /\ bare.i = 1 /\ bare.clean  BY DEF PR!Job, PrRaw
  <2>4. v \in Int  BY <1>2
  <2>5. jb \in PrJobs /\ jb.op = "option" /\ jb.pc = "save" /\ jb.i = 1 /\ jb.clean
    <3> HIDE DEF bare
    <3> QED BY <2>3, <2>4 DEF PrRaw, PrJobs
  <2>6. PR!Begin(w, jb)  BY <2>1
  <2> HIDE DEF jb
  <2> QED BY <1>1, <2>2, <2>5, <2>6, PrBegins
<1>7. CASE PR!EditGroup(w)
  <2>1. groups' \in Int /\ PR!Begin(w, PR!Job("group", "read")) /\ UNCHANGED <<configs, optionRows, optionMap, prices, priceHist>>
    BY <1>2, <1>7 DEF PR!EditGroup
  <2>2. PR!Job("group", "read").op = "group" /\ PR!Job("group", "read").pc = "read" /\ PR!Job("group", "read").i = 1 /\ PR!Job("group", "read").clean
    BY DEF PR!Job
  <2> QED BY <1>1, <1>3, <2>1, <2>2, PrBegins
<1>8. CASE PR!Quote(w)
  <2> DEFINE c == prices[Dimensions[1]]
             bare == PR!Job("quote", "price")
             jb == [bare EXCEPT !.copy = c]
  <2>1. PR!Begin(w, jb) /\ UNCHANGED <<configs, groups, optionRows, optionMap, prices, priceHist>>  BY <1>8 DEF PR!Quote
  <2>2. c \in Int  BY <1>1 DEF PrKeys
  <2>3. bare \in PrRaw /\ bare.op = "quote" /\ bare.pc = "price" /\ bare.i = 1 /\ bare.clean  BY DEF PR!Job, PrRaw
  <2>4. jb \in PrJobs /\ jb.op = "quote" /\ jb.pc = "price" /\ jb.i = 1 /\ jb.clean /\ jb.copy = c
    <3> HIDE DEF bare, c
    <3> QED BY <2>2, <2>3 DEF PrRaw, PrJobs
  <2> HIDE DEF jb
  <2> QED BY <1>1, <2>1, <2>4, PrBegins
<1> QED BY <1>4, <1>5, <1>6, <1>7, <1>8

---------------------------------------------------------------------------
(* Prices: what a change in progress does next. *)

LEMMA PrGoes ==
  ASSUME PrIInv, NEW w \in Workers, NEW j \in PrJobs \cup {PR!Idle}, edits[w] \in PrJobs, edits' = [edits EXCEPT ![w] = j],
         j = PR!Idle \/ (j.op = edits[w].op /\ j.alone = edits[w].alone)
  PROVE  /\ edits' \in [Workers -> PrJobs \cup {PR!Idle}] /\ edits'[w] = j /\ (\A v \in Workers \ {w} : edits'[v] = edits[v]) /\ Solo'
         /\ (Writing(edits[w]) => \A v \in Workers \ {w} : edits[v].op \in {"sync", "option", "quote"} => ~edits[v].alone)
<1>1. edits' \in [Workers -> PrJobs \cup {PR!Idle}] /\ edits'[w] = j /\ \A v \in Workers \ {w} : edits'[v] = edits[v]
  BY DEF PrIInv, PrTyped
<1>2. \A v \in Workers : edits'[v] = PR!Idle \/ (edits'[v].op = edits[v].op /\ edits'[v].alone = edits[v].alone)  BY <1>1
<1>3. Solo'
  <2>1. ASSUME NEW u \in Workers, edits'[u].op \in {"sync", "option", "quote"}, edits'[u].alone, NEW v \in Workers \ {u},
               edits'[v].op \in {"sync", "option"}
        PROVE  FALSE
    <3>1. edits[u].op \in {"sync", "option", "quote"} /\ edits[u].alone /\ edits[v].op \in {"sync", "option"}
      BY <1>2, <2>1, PrIdle
    <3> QED BY <3>1 DEF PrIInv, Solo, Writing
  <2>2. ASSUME NEW u \in Workers, edits'[u].op = "group", edits'[u].alone, NEW v \in Workers \ {u}, edits'[v].op = "group"
        PROVE  FALSE
    <3>1. edits[u].op = "group" /\ edits[u].alone /\ edits[v].op = "group"  BY <1>2, <2>2, PrIdle
    <3> QED BY <3>1 DEF PrIInv, Solo
  <2> QED BY <2>1, <2>2 DEF Solo, Writing
<1>4. Writing(edits[w]) => \A v \in Workers \ {w} : edits[v].op \in {"sync", "option", "quote"} => ~edits[v].alone
  BY DEF PrIInv, Solo
<1> QED BY <1>1, <1>3, <1>4

LEMMA PrBusy == ASSUME PrIInv, NEW w \in Workers, edits[w].pc # "idle" PROVE edits[w] \in PrJobs
BY PrIdle DEF PrIInv, PrTyped

\* Who takes a text into memory still does so, but for w.
LEMMA PrTaking ==
  ASSUME NEW w \in Workers, \A v \in Workers \ {w} : edits'[v] = edits[v], NEW k, Taking(k), edits[w].pc = "map" => KeyOf(edits[w]) # k
  PROVE  Taking(k)'
<1>1. PICK v \in Workers : edits[v].pc = "map" /\ KeyOf(edits[v]) = k  BY DEF Taking
<1>2. v # w  BY <1>1
<1>3. edits'[v] = edits[v]  BY <1>2
<1> QED BY <1>1, <1>3 DEF Taking, KeyOf

LEMMA PrReads == ASSUME PrIInv, NEW w \in Workers, PR!ReadConfigs(w) PROVE PrIInv'
<1> DEFINE e == edits[w]
           r == [e EXCEPT !.pc = "row", !.copy = configs]
<1>1. e.pc = "read" /\ e.op = "sync" /\ UNCHANGED <<budget, configs, groups, optionRows, optionMap, prices, priceHist>>
  BY DEF PR!ReadConfigs, PR!At, PR!Busy
<1>2. e \in PrJobs /\ e.i = 1 /\ e.clean /\ configs \in Int
  <2>1. e \in PrJobs  BY <1>1, PrBusy
  <2>2. configs \in Int  BY PrValues DEF PrIInv, PrTyped
  <2> QED BY <1>1, <2>1, <2>2 DEF PrJobs
<1>3. PICK j \in {r, PR!Idle} : edits' = [edits EXCEPT ![w] = j]
  <2>1. edits \in [Workers -> PrJobs \cup {PR!Idle}]  BY DEF PrIInv, PrTyped
  <2>2. CASE edits' = [edits EXCEPT ![w].pc = "row", ![w].copy = configs]
    <3>1. [edits EXCEPT ![w].pc = "row", ![w].copy = configs] = [edits EXCEPT ![w] = r]  BY <2>1
    <3> QED BY <2>2, <3>1
  <2>3. CASE PR!Finish(w)  BY <2>3 DEF PR!Finish
  <2> QED BY <2>2, <2>3 DEF PR!ReadConfigs
<1>4. r \in PrJobs /\ r.op = "sync" /\ r.pc = "row" /\ r.i = 1 /\ r.clean /\ r.copy = configs /\ r.alone = e.alone
  <2> HIDE DEF e
  <2> QED BY <1>1, <1>2 DEF PrJobs, PrRaw
<1> HIDE DEF r
<1>5. /\ edits' \in [Workers -> PrJobs \cup {PR!Idle}] /\ edits'[w] = j /\ (\A v \in Workers \ {w} : edits'[v] = edits[v]) /\ Solo'
  BY <1>1, <1>2, <1>3, <1>4, PrGoes
<1>6. PrTyped'  BY <1>1, <1>5 DEF PrIInv, PrTyped
<1>7. Passes' /\ Quotes' /\ Swaps'
  <2> SUFFICES ASSUME NEW v \in Workers PROVE Carried(edits[v])' /\ Quoted(edits[v])' /\ Swapping(edits[v])'  BY DEF Passes, Quotes, Swaps
  <2>1. CASE v # w
    <3>1. Carried(edits[v]) /\ Quoted(edits[v]) /\ Swapping(edits[v])  BY DEF PrIInv, Passes, Quotes, Swaps
    <3>2. edits'[v] = edits[v]  BY <1>5, <2>1
    <3> QED BY <1>1, <3>1, <3>2 DEF Carried, Writing, KeyOf, Quoted, Swapping
  <2>2. CASE v = w /\ j = r
    <3>1. 1..(1 - 1) = {}  OBVIOUS
    <3>2. edits'[v] = r  BY <1>5, <2>2
    <3> QED BY <1>1, <1>4, <3>1, <3>2 DEF Carried, Writing, Quoted, Swapping
  <2>3. CASE v = w /\ j = PR!Idle  BY <1>5, <2>3, PrIdle DEF Carried, Writing, Quoted, Swapping
  <2> QED BY <1>3, <2>1, <2>2, <2>3
<1>8. \A k : Taking(k) => Taking(k)'  BY <1>1, <1>5, PrTaking
<1>9. Followed' /\ Loaded' /\ Tabled'  BY <1>1, <1>8 DEF PrIInv, Followed, Loaded, Alike, Tabled
<1>10. Grouped'
  <2>1. ASSUME NEW v \in Workers, edits[v].op = "group" PROVE edits'[v].op = "group"  BY <1>1, <1>5, <2>1
  <2> QED BY <1>1, <2>1 DEF PrIInv, Grouped
<1> QED BY <1>1, <1>5, <1>6, <1>7, <1>9, <1>10 DEF PrIInv

\* A write of an option into the table.
LEMMA PrRows ==
  ASSUME PrIInv, NEW w \in Workers, edits[w].pc \in {"row", "save"}, Writing(edits[w]),
         NEW j \in PrJobs \cup {PR!Idle}, edits' = [edits EXCEPT ![w] = j],
         UNCHANGED <<budget, configs, groups, optionMap, prices>>,
         \/ /\ j \in PrJobs /\ j.op = edits[w].op /\ j.alone = edits[w].alone /\ j.i = edits[w].i /\ j.key = edits[w].key
            /\ j.copy = edits[w].copy /\ j.pc = "map"
            /\ \/ /\ j.clean = edits[w].clean /\ optionRows' = [optionRows EXCEPT ![KeyOf(edits[w])] = edits[w].copy]
                  /\ priceHist'.memOff = (priceHist.memOff \/ ~edits[w].alone)
               \/ ~j.clean /\ optionRows' = optionRows /\ priceHist'.memOff
            /\ priceHist'.tabOff
         \/ j = PR!Idle /\ edits[w].op = "option" /\ optionRows' = optionRows /\ priceHist' = priceHist,
         priceHist' \in PrHists,
         priceHist'.grpRaced = priceHist.grpRaced, priceHist'.grpReset = priceHist.grpReset, ~priceHist'.torn
  PROVE  PrIInv'
<1> DEFINE e == edits[w]
<1>1. e \in PrJobs /\ e.pc # "map"  BY PrBusy
<1>2. KeyOf(e) \in PrKeys /\ e.copy \in Int /\ (e.op = "sync" => KeyOf(e) \in DimOptions)  BY <1>1, KeyOfIn DEF PrJobs, PrRaw
<1> DEFINE key == KeyOf(e)
<1>3. optionRows \in [PrKeys -> Int]  BY DEF PrIInv, PrTyped
<1>4. \/ optionRows' = [optionRows EXCEPT ![key] = e.copy] /\ j.clean = e.clean /\ j.pc = "map"
      \/ optionRows' = optionRows
  BY PrIdle
<1>5. optionRows' \in [PrKeys -> Int] /\ \A k \in PrKeys : k # key => optionRows'[k] = optionRows[k]
  <2> HIDE DEF e, key
  <2> QED BY <1>2, <1>3, <1>4
<1>6. /\ edits' \in [Workers -> PrJobs \cup {PR!Idle}] /\ edits'[w] = j /\ (\A v \in Workers \ {w} : edits'[v] = edits[v]) /\ Solo'
      /\ \A v \in Workers \ {w} : edits[v].op \in {"sync", "option", "quote"} => ~edits[v].alone
  BY <1>1, PrGoes
<1>7. PrTyped'  BY <1>5, <1>6 DEF PrIInv, PrTyped
<1>8. j.pc = "map" => KeyOf(j) = key /\ j.op = e.op /\ j.alone = e.alone /\ j.i = e.i /\ j.copy = e.copy  BY PrIdle DEF KeyOf
<1>9. Carried(edits[w])'
  <2> SUFFICES ASSUME Writing(j), j.alone PROVE Carried(edits[w])'  BY <1>6 DEF Carried, Writing
  <2>1. j.pc = "map" /\ j \in PrJobs  BY PrIdle DEF Writing
  <2>2. Carried(e)  BY DEF PrIInv, Passes
  <2>3. Writing(e) /\ e.alone  BY <1>8, <2>1
  <2>4. j.op = "sync" => j.copy = configs'
    <3>1. j.op = "sync" => e.op = "sync" /\ e.pc = "row"  BY <1>1, <1>8, <2>1 DEF PrJobs
    <3> QED BY <1>8, <2>1, <2>2, <2>3, <3>1 DEF Carried
  <2>5. j.clean => optionRows' = [optionRows EXCEPT ![key] = e.copy] /\ e.clean  BY <2>1, PrIdle
  <2>6. j.clean => optionRows'[key] = j.copy
    <3>1. key \in PrKeys /\ e.copy = j.copy  BY <1>2, <1>8, <2>1
    <3> HIDE DEF e, key
    <3> QED BY <1>3, <2>5, <3>1
  <2>7. ASSUME j.clean, j.op = "sync", NEW n \in 1..(j.i - 1) PROVE optionRows'[Dimensions[n]] = j.copy /\ optionMap'[Dimensions[n]] = j.copy
    <3>1. e.op = "sync" /\ e.pc = "row" /\ e.clean /\ n \in 1..(e.i - 1)  BY <1>1, <1>8, <2>1, <2>5, <2>7 DEF PrJobs
    <3>2. optionRows[Dimensions[n]] = e.copy /\ optionMap[Dimensions[n]] = e.copy  BY <2>2, <2>3, <3>1 DEF Carried
    <3>3. Dimensions[n] \in PrKeys
      <4>1. e.i \in 1..Len(Dimensions)  BY <1>1 DEF PrJobs, PrRaw
      <4>2. n \in 1..Len(Dimensions)
        <5> HIDE DEF e
        <5> QED BY <3>1, <4>1, PrAssumed
      <4> QED BY <4>2, PrAssumed DEF PrKeys
    <3>4. optionRows'[Dimensions[n]] = j.copy
      <4>1. CASE Dimensions[n] = key  BY <2>6, <2>7, <4>1
      <4>2. CASE Dimensions[n] # key  BY <1>5, <1>8, <2>1, <3>2, <3>3, <4>2
      <4> QED BY <4>1, <4>2
    <3> QED BY <1>8, <2>1, <3>2, <3>4
  <2>8. ~j.clean => priceHist'.memOff
    <3>1. ~e.clean => priceHist.memOff  BY <2>2, <2>3 DEF Carried
    <3> QED BY <3>1, <2>1, PrIdle
  <2>9. edits'[w] = j  BY <1>6
  <2> QED BY <1>8, <2>1, <2>4, <2>6, <2>7, <2>8, <2>9 DEF Carried, Writing, KeyOf
<1>10. Passes' /\ Quotes' /\ Swaps'
  <2> SUFFICES ASSUME NEW v \in Workers PROVE Carried(edits[v])' /\ Quoted(edits[v])' /\ Swapping(edits[v])'  BY DEF Passes, Quotes, Swaps
  <2>1. CASE v # w
    <3>1. edits'[v] = edits[v] /\ (edits[v].op \in {"sync", "option", "quote"} => ~edits[v].alone)  BY <1>6, <2>1
    <3>2. Swapping(edits[v])  BY DEF PrIInv, Swaps
    <3> QED BY <3>1, <3>2 DEF Carried, Writing, Quoted, Swapping
  <2>2. CASE v = w
    <3>1. j.op \in {"idle", "sync", "option"} /\ edits'[v] = j  BY <1>6, <2>2, PrIdle DEF Writing
    <3> QED BY <1>9, <2>2, <3>1 DEF Quoted, Swapping
  <2> QED BY <2>1, <2>2
<1>11. Followed'  BY DEF PrIInv, Followed
<1>12. Loaded'
  <2> SUFFICES ASSUME ~priceHist'.memOff, NEW k \in DimOptions PROVE Alike(k)' \/ Taking(k)'  BY DEF Loaded
  <2>1. ~priceHist.memOff  OBVIOUS
  <2>2. Taking(k) => Taking(k)'  BY <1>1, <1>6, PrTaking
  <2>3. CASE k = key /\ j.pc = "map"
    <3>1. edits'[w].pc = "map" /\ KeyOf(edits[w])' = k
      <4>1. KeyOf(j) = k /\ edits'[w] = j  BY <1>6, <1>8, <2>3
      <4> QED BY <4>1, <2>3 DEF KeyOf
    <3> QED BY <3>1 DEF Taking
  <2>4. CASE k # key \/ j.pc # "map"
    <3>1. optionRows'[k] = optionRows[k]
      <4>1. CASE k # key  BY <1>5, <4>1 DEF PrKeys
      <4>2. CASE j.pc # "map"  BY <4>2, <1>4
      <4> QED BY <2>4, <4>1, <4>2
    <3>2. Alike(k) => Alike(k)'  BY <3>1 DEF Alike
    <3> QED BY <2>1, <2>2, <3>2 DEF PrIInv, Loaded
  <2> QED BY <2>3, <2>4
<1>13. Tabled'  BY DEF PrIInv, Tabled
<1>14. Grouped'
  <2>1. \A v \in Workers : edits[v].op = "group" => edits'[v].op = "group"  BY <1>6 DEF Writing
  <2> QED BY <2>1 DEF PrIInv, Grouped
<1> QED BY <1>6, <1>7, <1>10, <1>11, <1>12, <1>13, <1>14 DEF PrIInv

LEMMA PrFirst == ASSUME PrIInv, NEW w \in Workers, PR!FirstOrCreate(w) PROVE PrIInv'
<1> DEFINE e == edits[w]
           a == [e EXCEPT !.pc = "map"]
           b == [e EXCEPT !.pc = "map", !.clean = FALSE]
<1>1. e.pc = "row" /\ e.op = "sync" /\ UNCHANGED <<budget, configs, groups, optionMap, prices>>
  BY DEF PR!FirstOrCreate, PR!At, PR!Busy
<1>2. e \in PrJobs /\ Writing(e)  BY <1>1, PrBusy DEF Writing
<1>3. /\ a \in PrJobs /\ a.op = e.op /\ a.alone = e.alone /\ a.i = e.i /\ a.key = e.key /\ a.copy = e.copy /\ a.pc = "map" /\ a.clean = e.clean
      /\ b \in PrJobs /\ b.op = e.op /\ b.alone = e.alone /\ b.i = e.i /\ b.key = e.key /\ b.copy = e.copy /\ b.pc = "map" /\ ~b.clean
  <2> HIDE DEF e
  <2> QED BY <1>1, <1>2 DEF PrJobs, PrRaw
<1>4. priceHist \in PrHists /\ edits \in [Workers -> PrJobs \cup {PR!Idle}] /\ e.alone \in BOOLEAN /\ ~priceHist.torn
  BY <1>2 DEF PrIInv, PrTyped, PrJobs, PrRaw
<1>5. CASE /\ optionRows' = [optionRows EXCEPT ![PR!Key(w)] = edits[w].copy]
           /\ edits' = [edits EXCEPT ![w].pc = "map"]
           /\ priceHist' = [priceHist EXCEPT !.tabOff = TRUE, !.memOff = @ \/ ~edits[w].alone]
  <2>1. edits' = [edits EXCEPT ![w] = a]  BY <1>4, <1>5
  <2>2. /\ priceHist' \in PrHists /\ priceHist'.memOff = (priceHist.memOff \/ ~e.alone) /\ priceHist'.tabOff
        /\ priceHist'.grpRaced = priceHist.grpRaced /\ priceHist'.grpReset = priceHist.grpReset /\ ~priceHist'.torn
    <3> HIDE DEF e
    <3>1. priceHist' = [priceHist EXCEPT !.tabOff = TRUE, !.memOff = @ \/ ~e.alone]  BY <1>5 DEF e
    <3> QED BY <1>4, <3>1 DEF PrHists
  <2>3. optionRows' = [optionRows EXCEPT ![KeyOf(e)] = e.copy]  BY <1>5, PrKey
  <2> HIDE DEF a
  <2> QED BY <1>1, <1>2, <1>3, <2>1, <2>2, <2>3, PrRows
<1>6. CASE /\ edits' = [edits EXCEPT ![w].pc = "map", ![w].clean = FALSE]
           /\ priceHist' = [priceHist EXCEPT !.memOff = TRUE, !.tabOff = TRUE] /\ optionRows' = optionRows
  <2>1. edits' = [edits EXCEPT ![w] = b]  BY <1>4, <1>6
  <2>2. /\ priceHist' \in PrHists /\ priceHist'.memOff /\ priceHist'.tabOff
        /\ priceHist'.grpRaced = priceHist.grpRaced /\ priceHist'.grpReset = priceHist.grpReset /\ ~priceHist'.torn
    BY <1>4, <1>6 DEF PrHists
  <2> HIDE DEF b
  <2> QED BY <1>1, <1>2, <1>3, <1>6, <2>1, <2>2, PrRows
<1> QED BY <1>5, <1>6 DEF PR!FirstOrCreate

LEMMA PrSave == ASSUME PrIInv, NEW w \in Workers, PR!SaveOption(w) PROVE PrIInv'
<1> DEFINE e == edits[w]
           a == [e EXCEPT !.pc = "map"]
<1>1. e.pc = "save" /\ UNCHANGED <<budget, configs, groups, optionMap, prices>>  BY DEF PR!SaveOption, PR!At
<1>2. e \in PrJobs /\ e.op = "option" /\ Writing(e)
  <2>1. e \in PrJobs  BY <1>1, PrBusy
  <2> QED BY <1>1, <2>1 DEF PrJobs, PrRaw, Writing
<1>3. a \in PrJobs /\ a.op = e.op /\ a.alone = e.alone /\ a.i = e.i /\ a.key = e.key /\ a.copy = e.copy /\ a.pc = "map" /\ a.clean = e.clean
  <2> HIDE DEF e
  <2> QED BY <1>1, <1>2 DEF PrJobs, PrRaw
<1>4. priceHist \in PrHists /\ edits \in [Workers -> PrJobs \cup {PR!Idle}] /\ e.alone \in BOOLEAN /\ ~priceHist.torn
  BY <1>2 DEF PrIInv, PrTyped, PrJobs, PrRaw
<1>5. CASE /\ optionRows' = [optionRows EXCEPT ![PR!Key(w)] = edits[w].copy]
           /\ edits' = [edits EXCEPT ![w].pc = "map"]
           /\ priceHist' = [priceHist EXCEPT !.tabOff = TRUE, !.memOff = @ \/ ~edits[w].alone, !.byHand = @ \/ PR!Key(w) = PR!Group]
  <2>1. edits' = [edits EXCEPT ![w] = a]  BY <1>4, <1>5
  <2>2. /\ priceHist' \in PrHists /\ priceHist'.memOff = (priceHist.memOff \/ ~e.alone) /\ priceHist'.tabOff
        /\ priceHist'.grpRaced = priceHist.grpRaced /\ priceHist'.grpReset = priceHist.grpReset /\ ~priceHist'.torn
    <3> HIDE DEF e
    <3>1. priceHist' = [priceHist EXCEPT !.tabOff = TRUE, !.memOff = @ \/ ~e.alone, !.byHand = @ \/ PR!Key(w) = PR!Group]  BY <1>5 DEF e
    <3> QED BY <1>4, <3>1 DEF PrHists
  <2>3. optionRows' = [optionRows EXCEPT ![KeyOf(e)] = e.copy]  BY <1>5, PrKey
  <2> HIDE DEF a
  <2> QED BY <1>1, <1>2, <1>3, <2>1, <2>2, <2>3, PrRows
<1>6. CASE PR!Finish(w) /\ UNCHANGED <<optionRows, priceHist>>
  <2>1. edits' = [edits EXCEPT ![w] = PR!Idle]  BY <1>6 DEF PR!Finish
  <2> QED BY <1>1, <1>2, <1>4, <1>6, <2>1, PrRows
<1> QED BY <1>5, <1>6 DEF PR!SaveOption

LEMMA PrMaps == ASSUME PrIInv, NEW w \in Workers, PR!UpdateOptionMap(w) PROVE PrIInv'
<1> DEFINE e == edits[w]
           key == KeyOf(e)
           map == [optionMap EXCEPT ![key] = e.copy]
           last == e.op = "option" \/ e.i = Len(Dimensions)
           settled == e.op = "sync" /\ last /\ e.alone /\ e.clean
           r == [e EXCEPT !.pc = "row", !.i = @ + 1]
           j == IF last THEN PR!Idle ELSE r
<1> USE PrAssumed, PrValues
<1>1. e.pc = "map" /\ UNCHANGED <<budget, configs, groups, optionRows>>  BY DEF PR!UpdateOptionMap, PR!At
<1>2. e \in PrJobs /\ Writing(e) /\ e.i \in 1..Len(Dimensions) /\ e.copy \in Int /\ e.alone \in BOOLEAN /\ e.clean \in BOOLEAN
      /\ (e.op = "option" => e.clean)
  <2>1. e \in PrJobs  BY <1>1, PrBusy
  <2> QED BY <1>1, <2>1 DEF PrJobs, PrRaw, Writing
<1>3. key \in PrKeys /\ (e.op = "sync" => key = Dimensions[e.i])
  <2>1. key \in PrKeys  BY <1>2, KeyOfIn
  <2> QED BY <2>1 DEF KeyOf
<1>4. /\ optionMap' = map /\ prices' = PR!UpdatePricing(map, prices)
      /\ edits' = [edits EXCEPT ![w] = j]
      /\ priceHist' = [priceHist EXCEPT !.memOff = IF settled THEN FALSE ELSE @ \/ ~e.alone, !.tabOff = ~settled, !.grpReset = TRUE]
  BY PrKey DEF PR!UpdateOptionMap
<1>5. optionMap \in [PrKeys -> Int] /\ prices \in [PrKeys -> Int] /\ priceHist \in PrHists /\ optionRows \in [PrKeys -> Int]
  BY DEF PrIInv, PrTyped
<1>6. map \in [PrKeys -> Int] /\ map[key] = e.copy /\ \A k \in PrKeys : k # key => map[k] = optionMap[k]
  <2> HIDE DEF e, key
  <2> QED BY <1>2, <1>3, <1>5
<1>7. ~last => r \in PrJobs /\ r.op = "sync" /\ r.pc = "row" /\ r.i = e.i + 1 /\ r.copy = e.copy /\ r.alone = e.alone /\ r.clean = e.clean
  <2>1. ~last => e.op = "sync" /\ e.i + 1 \in 1..Len(Dimensions)  BY <1>2 DEF Writing
  <2> HIDE DEF e, last
  <2> QED BY <1>2, <2>1 DEF PrJobs, PrRaw
<1>8. settled \in BOOLEAN  BY <1>2
<1> HIDE DEF map, r
<1>9. priceHist' \in PrHists /\ (settled => ~priceHist'.memOff) /\ (~settled => priceHist'.memOff = (priceHist.memOff \/ ~e.alone))
      /\ priceHist'.tabOff = ~settled /\ priceHist'.grpReset /\ priceHist'.torn = priceHist.torn
  <2> DEFINE off == IF settled THEN FALSE ELSE priceHist.memOff \/ ~e.alone
  <2>1. off \in BOOLEAN  BY <1>2, <1>5 DEF PrHists
  <2>2. priceHist' = [priceHist EXCEPT !.memOff = off, !.tabOff = ~settled, !.grpReset = TRUE]  BY <1>4
  <2>3. (settled => ~off) /\ (~settled => off = (priceHist.memOff \/ ~e.alone))  OBVIOUS
  <2> HIDE DEF off, settled
  <2> QED BY <1>5, <1>8, <2>1, <2>2, <2>3 DEF PrHists
<1>10. /\ edits' \in [Workers -> PrJobs \cup {PR!Idle}] /\ edits'[w] = j /\ (\A v \in Workers \ {w} : edits'[v] = edits[v]) /\ Solo'
       /\ \A v \in Workers \ {w} : edits[v].op \in {"sync", "option", "quote"} => ~edits[v].alone
  <2>1. j \in PrJobs \cup {PR!Idle} /\ (j = PR!Idle \/ (j.op = e.op /\ j.alone = e.alone))  BY <1>2, <1>7 DEF Writing
  <2> HIDE DEF j
  <2> QED BY <1>2, <1>4, <2>1, PrGoes
<1>11. prices' \in [PrKeys -> Int] /\ \A k \in PrKeys : map[k] # PR!Broken => prices'[k] = Full(map[k])
  BY <1>4, <1>5, <1>6, PricesAre
<1>12. PrTyped'  BY <1>1, <1>4, <1>6, <1>9, <1>10, <1>11 DEF PrIInv, PrTyped
<1>13. Carried(e)  BY DEF PrIInv, Passes
<1>14. e.alone /\ e.clean => optionRows[key] = e.copy  BY <1>1, <1>2, <1>13 DEF Carried
<1>15. ASSUME e.op = "sync", e.alone, e.clean, NEW n \in 1..e.i
       PROVE  optionRows[Dimensions[n]] = e.copy /\ map[Dimensions[n]] = e.copy /\ e.copy = configs
  <2>1. e.copy = configs  BY <1>1, <1>2, <1>13, <1>15 DEF Carried
  <2>2. CASE n = e.i
    <3>1. Dimensions[n] = key  BY <1>3, <1>15, <2>2
    <3> QED BY <1>6, <1>14, <1>15, <2>1, <3>1
  <2>3. CASE n # e.i
    <3>1. n \in 1..(e.i - 1) /\ n \in 1..Len(Dimensions)
      <4> HIDE DEF e
      <4> QED BY <1>2, <2>3
    <3>2. optionRows[Dimensions[n]] = e.copy /\ optionMap[Dimensions[n]] = e.copy  BY <1>1, <1>2, <1>13, <1>15, <3>1 DEF Carried
    <3>3. Dimensions[n] \in PrKeys  BY <3>1 DEF PrKeys
    <3> QED BY <1>6, <2>1, <3>2, <3>3
  <2> QED BY <2>2, <2>3
<1>16. Passes' /\ Quotes' /\ Swaps'
  <2> SUFFICES ASSUME NEW v \in Workers PROVE Carried(edits[v])' /\ Quoted(edits[v])' /\ Swapping(edits[v])'  BY DEF Passes, Quotes, Swaps
  <2>1. CASE v # w
    <3>1. edits'[v] = edits[v] /\ (edits[v].op \in {"sync", "option", "quote"} => ~edits[v].alone)  BY <1>10, <2>1
    <3>2. Swapping(edits[v])  BY DEF PrIInv, Swaps
    <3> QED BY <1>1, <3>1, <3>2 DEF Carried, Writing, Quoted, Swapping
  <2>2. CASE v = w /\ last
    <3>1. edits'[v] = PR!Idle  BY <1>10, <2>2
    <3> QED BY <3>1, PrIdle DEF Carried, Writing, Quoted, Swapping
  <2>3. CASE v = w /\ ~last
    <3>1. edits'[v] = r /\ e.op = "sync" /\ ~settled  BY <1>2, <1>10, <2>3 DEF Writing
    <3>2. r.alone => r.copy = configs'  BY <1>1, <1>2, <1>7, <1>13, <2>3, <3>1 DEF Carried
    <3>3. ASSUME r.alone, r.clean, NEW n \in 1..(r.i - 1) PROVE optionRows'[Dimensions[n]] = r.copy /\ optionMap'[Dimensions[n]] = r.copy
      <4>1. n \in 1..e.i
        <5>1. r.i - 1 = e.i
          <6>1. r.i = e.i + 1 /\ e.i \in Nat  BY <1>2, <1>7, <2>3
          <6> HIDE DEF e
          <6> QED BY <6>1
        <5> QED BY <5>1
      <4> QED BY <1>1, <1>4, <1>7, <1>15, <2>3, <3>1, <3>3, <4>1
    <3>4. r.alone /\ ~r.clean => priceHist'.memOff  BY <1>2, <1>7, <1>9, <1>13, <2>3, <3>1 DEF Carried
    <3>5. r.op = "sync" /\ r.pc = "row"  BY <1>7, <2>3
    <3> QED BY <3>1, <3>2, <3>3, <3>4, <3>5 DEF Carried, Writing, Quoted, Swapping
  <2> QED BY <2>1, <2>2, <2>3
<1>17. Followed'  BY <1>4, <1>11 DEF Followed, PrKeys
<1>18. settled => \A k \in DimOptions : optionRows'[k] = configs' /\ optionMap'[k] = configs'
  <2> SUFFICES ASSUME settled, NEW k \in DimOptions PROVE optionRows'[k] = configs' /\ optionMap'[k] = configs'  OBVIOUS
  <2>1. PICK n \in 1..Len(Dimensions) : k = Dimensions[n]  BY DEF DimOptions
  <2>2. e.i = Len(Dimensions)  OBVIOUS
  <2>3. n \in 1..e.i  BY <2>1, <2>2
  <2> QED BY <1>1, <1>4, <1>15, <2>1, <2>3
<1>19. Loaded'
  <2>1. CASE settled  BY <1>18, <2>1 DEF Loaded, Alike
  <2>2. CASE ~settled
    <3> SUFFICES ASSUME ~priceHist'.memOff, NEW k \in DimOptions PROVE Alike(k)' \/ Taking(k)'  BY DEF Loaded
    <3>1. ~priceHist.memOff /\ e.alone  BY <1>9, <2>2
    <3>2. e.clean  BY <1>2, <1>13, <3>1 DEF Carried
    <3>3. CASE k = key  BY <1>1, <1>4, <1>6, <1>14, <3>1, <3>2, <3>3 DEF Alike
    <3>4. CASE k # key
      <4>1. optionMap'[k] = optionMap[k]  BY <1>4, <1>6, <3>4 DEF PrKeys
      <4>2. Alike(k) => Alike(k)'  BY <1>1, <4>1 DEF Alike
      <4>3. Taking(k) => Taking(k)'  BY <1>10, <3>4, PrTaking
      <4> QED BY <3>1, <4>2, <4>3 DEF PrIInv, Loaded
    <3> QED BY <3>3, <3>4
  <2> QED BY <2>1, <2>2
<1>20. Tabled'  BY <1>9, <1>18 DEF Tabled
<1>21. Grouped' /\ ~priceHist'.torn  BY <1>9 DEF PrIInv, Grouped
<1> QED BY <1>10, <1>12, <1>16, <1>17, <1>19, <1>20, <1>21 DEF PrIInv

LEMMA PrSyncs == ASSUME PrIInv, NEW w \in Workers, PR!SyncGroupRatioToMemory(w) PROVE PrIInv'
<1> DEFINE e == edits[w]
           r == [e EXCEPT !.pc = "swap", !.copy = groups]
<1>1. e.pc = "read" /\ e.op = "group" /\ UNCHANGED <<budget, configs, groups, optionRows, optionMap, prices>>
  BY DEF PR!SyncGroupRatioToMemory, PR!At, PR!Busy
<1>2. e \in PrJobs /\ groups \in Int /\ edits \in [Workers -> PrJobs \cup {PR!Idle}] /\ priceHist \in PrHists
  BY <1>1, PrBusy DEF PrIInv, PrTyped
<1>3. r \in PrJobs /\ r.op = "group" /\ r.pc = "swap" /\ r.copy = groups /\ r.alone = e.alone
  <2> HIDE DEF e
  <2> QED BY <1>1, <1>2 DEF PrJobs, PrRaw
<1>4. PICK j \in {r, PR!Idle} :
        /\ edits' = [edits EXCEPT ![w] = j]
        /\ \/ j = r /\ priceHist' = priceHist
           \/ j = PR!Idle /\ priceHist' = [priceHist EXCEPT !.grpRaced = TRUE]
  <2>1. CASE edits' = [edits EXCEPT ![w].pc = "swap", ![w].copy = groups] /\ UNCHANGED priceHist
    <3>1. [edits EXCEPT ![w].pc = "swap", ![w].copy = groups] = [edits EXCEPT ![w] = r]  BY <1>2
    <3> QED BY <2>1, <3>1
  <2>2. CASE PR!Finish(w) /\ priceHist' = [priceHist EXCEPT !.grpRaced = TRUE]  BY <2>2 DEF PR!Finish
  <2> QED BY <2>1, <2>2 DEF PR!SyncGroupRatioToMemory
<1> HIDE DEF r
<1>5. /\ edits' \in [Workers -> PrJobs \cup {PR!Idle}] /\ edits'[w] = j /\ (\A v \in Workers \ {w} : edits'[v] = edits[v]) /\ Solo'
  BY <1>1, <1>2, <1>3, <1>4, PrGoes
<1>6. /\ priceHist' \in PrHists /\ priceHist'.memOff = priceHist.memOff /\ priceHist'.tabOff = priceHist.tabOff
      /\ priceHist'.torn = priceHist.torn /\ priceHist'.grpReset = priceHist.grpReset
      /\ (j = r => priceHist'.grpRaced = priceHist.grpRaced) /\ (j = PR!Idle => priceHist'.grpRaced)
  <2>1. r # PR!Idle  BY <1>3, PrIdle
  <2> QED BY <1>2, <1>4, <2>1 DEF PrHists
<1>7. PrTyped'  BY <1>1, <1>5, <1>6 DEF PrIInv, PrTyped
<1>8. Passes' /\ Quotes' /\ Swaps'
  <2> SUFFICES ASSUME NEW v \in Workers PROVE Carried(edits[v])' /\ Quoted(edits[v])' /\ Swapping(edits[v])'  BY DEF Passes, Quotes, Swaps
  <2>1. CASE v # w
    <3>1. Carried(edits[v]) /\ Quoted(edits[v]) /\ Swapping(edits[v])  BY DEF PrIInv, Passes, Quotes, Swaps
    <3>2. edits'[v] = edits[v]  BY <1>5, <2>1
    <3> QED BY <1>1, <1>6, <3>1, <3>2 DEF Carried, Writing, KeyOf, Quoted, Swapping
  <2>2. CASE v = w /\ j = r
    <3>1. edits'[v] = r  BY <1>5, <2>2
    <3> QED BY <1>1, <1>3, <3>1 DEF Carried, Writing, Quoted, Swapping
  <2>3. CASE v = w /\ j = PR!Idle  BY <1>5, <2>3, PrIdle DEF Carried, Writing, Quoted, Swapping
  <2> QED BY <1>4, <2>1, <2>2, <2>3
<1>9. \A k : Taking(k) => Taking(k)'  BY <1>1, <1>5, PrTaking
<1>10. Followed' /\ Loaded' /\ Tabled'  BY <1>1, <1>6, <1>9 DEF PrIInv, Followed, Loaded, Alike, Tabled
<1>11. Grouped'  BY <1>3, <1>4, <1>5, <1>6 DEF Grouped
<1> QED BY <1>5, <1>6, <1>7, <1>8, <1>10, <1>11 DEF PrIInv

LEMMA PrSwaps == ASSUME PrIInv, NEW w \in Workers, PR!UpdateGroupRatio(w) PROVE PrIInv'
<1> DEFINE e == edits[w]
<1> USE PrAssumed
<1>1. e.pc = "swap" /\ edits' = [edits EXCEPT ![w] = PR!Idle] /\ UNCHANGED <<budget, configs, groups, optionRows, optionMap>>
      /\ prices' = [prices EXCEPT !["group_ratio"] = e.copy]
      /\ priceHist' = [priceHist EXCEPT !.grpRaced = ~e.alone, !.grpReset = @ /\ ~e.alone]
  BY DEF PR!UpdateGroupRatio, PR!At, PR!Finish, PR!Group
<1>2. e \in PrJobs /\ e.op = "group" /\ e.copy \in Int /\ e.alone \in BOOLEAN
  <2>1. e \in PrJobs  BY <1>1, PrBusy
  <2> QED BY <1>1, <2>1 DEF PrJobs, PrRaw
<1>3. prices \in [PrKeys -> Int] /\ priceHist \in PrHists /\ ~priceHist.torn  BY DEF PrIInv, PrTyped
<1>4. edits' \in [Workers -> PrJobs \cup {PR!Idle}] /\ edits'[w] = PR!Idle /\ (\A v \in Workers \ {w} : edits'[v] = edits[v]) /\ Solo'
  BY <1>1, <1>2, PrGoes
<1>5. prices' \in [PrKeys -> Int] /\ prices'["group_ratio"] = e.copy /\ \A k \in DimOptions : prices'[k] = prices[k]
  <2> HIDE DEF e
  <2> QED BY <1>1, <1>2, <1>3 DEF PrKeys
<1>6. /\ priceHist' \in PrHists /\ priceHist'.memOff = priceHist.memOff /\ priceHist'.tabOff = priceHist.tabOff /\ ~priceHist'.torn
      /\ priceHist'.grpRaced = ~e.alone
  <2> HIDE DEF e
  <2> QED BY <1>1, <1>2, <1>3 DEF PrHists
<1>7. PrTyped'  BY <1>1, <1>4, <1>5, <1>6 DEF PrIInv, PrTyped
<1>8. Passes' /\ Quotes' /\ Swaps'
  <2> SUFFICES ASSUME NEW v \in Workers PROVE Carried(edits[v])' /\ Quoted(edits[v])' /\ Swapping(edits[v])'  BY DEF Passes, Quotes, Swaps
  <2>1. CASE v # w
    <3>1. Carried(edits[v]) /\ Quoted(edits[v]) /\ Swapping(edits[v])  BY DEF PrIInv, Passes, Quotes, Swaps
    <3>2. edits'[v] = edits[v] /\ prices'[Dimensions[1]] = prices[Dimensions[1]]  BY <1>4, <1>5, <2>1
    <3> QED BY <1>1, <1>6, <3>1, <3>2 DEF Carried, Writing, KeyOf, Quoted, Swapping
  <2>2. CASE v = w  BY <1>4, <2>2, PrIdle DEF Carried, Writing, Quoted, Swapping
  <2> QED BY <2>1, <2>2
<1>9. \A k : Taking(k) => Taking(k)'  BY <1>1, <1>4, PrTaking
<1>10. Followed' /\ Loaded' /\ Tabled'  BY <1>1, <1>5, <1>6, <1>9 DEF PrIInv, Followed, Loaded, Alike, Tabled
<1>11. Grouped'
  <2>1. e.alone => e.copy = groups  BY <1>1, <1>2 DEF PrIInv, Swaps, Swapping
  <2> QED BY <1>1, <1>5, <1>6, <2>1 DEF Grouped
<1> QED BY <1>4, <1>6, <1>7, <1>8, <1>10, <1>11 DEF PrIInv

\* A bill that had no change beside it takes all its prices from one change.
LEMMA PrBill == ASSUME PrIInv, NEW w \in Workers, PR!GetModelPrice(w) PROVE PrIInv'
<1> DEFINE e == edits[w]
           torn == e.alone /\ ~priceHist.tabOff /\ ~priceHist.memOff /\ e.copy # prices[Dimensions[Len(Dimensions)]]
<1> USE PrAssumed
<1>1. e.pc = "price" /\ edits' = [edits EXCEPT ![w] = PR!Idle] /\ UNCHANGED <<budget, configs, groups, optionRows, optionMap, prices>>
      /\ priceHist' = [priceHist EXCEPT !.torn = torn]
  BY DEF PR!GetModelPrice, PR!At, PR!Finish
<1>2. e \in PrJobs /\ e.op = "quote" /\ e.alone \in BOOLEAN
  <2>1. e \in PrJobs  BY <1>1, PrBusy
  <2> QED BY <1>1, <2>1 DEF PrJobs, PrRaw
<1>3. ~torn
  <2> SUFFICES ASSUME e.alone, ~priceHist.tabOff, ~priceHist.memOff PROVE e.copy = prices[Dimensions[Len(Dimensions)]]  OBVIOUS
  <2>1. \A k : ~Taking(k)
    <3> SUFFICES ASSUME NEW v \in Workers, edits[v].pc = "map" PROVE FALSE  BY DEF Taking
    <3>1. edits[v] \in PrJobs  BY PrBusy
    <3>2. Writing(edits[v])  BY <3>1 DEF PrJobs, PrRaw, Writing
    <3>3. v # w  BY <1>1
    <3> QED BY <1>2, <3>2, <3>3 DEF PrIInv, Solo
  <2>2. \A k \in DimOptions : prices[k] = configs
    <3> SUFFICES ASSUME NEW k \in DimOptions PROVE prices[k] = configs  OBVIOUS
    <3>1. optionRows[k] = configs /\ Alike(k)  BY <2>1 DEF PrIInv, Tabled, Loaded
    <3>2. configs # PR!Unset /\ configs # PR!Broken  BY PrValues DEF PrIInv, PrTyped
    <3>3. Full(optionMap[k]) = configs  BY <3>1, <3>2 DEF Alike, Full
    <3>4. optionMap[k] # PR!Broken  BY <3>2, <3>3, PrValues DEF Full
    <3> QED BY <3>3, <3>4 DEF PrIInv, Followed
  <2>3. e.copy = prices[Dimensions[1]]  BY <1>2 DEF PrIInv, Quotes, Quoted
  <2> QED BY <2>2, <2>3
<1>4. edits' \in [Workers -> PrJobs \cup {PR!Idle}] /\ edits'[w] = PR!Idle /\ (\A v \in Workers \ {w} : edits'[v] = edits[v]) /\ Solo'
  BY <1>1, <1>2, PrGoes
<1>5. priceHist' = priceHist
  <2>1. priceHist \in PrHists /\ ~priceHist.torn  BY DEF PrIInv, PrTyped
  <2>2. priceHist' = [priceHist EXCEPT !.torn = FALSE]  BY <1>1, <1>3
  <2> QED BY <2>1, <2>2 DEF PrHists
<1>6. PrTyped'  BY <1>1, <1>4, <1>5 DEF PrIInv, PrTyped
<1>7. Passes' /\ Quotes' /\ Swaps'
  <2> SUFFICES ASSUME NEW v \in Workers PROVE Carried(edits[v])' /\ Quoted(edits[v])' /\ Swapping(edits[v])'  BY DEF Passes, Quotes, Swaps
  <2>1. CASE v # w
    <3>1. Carried(edits[v]) /\ Quoted(edits[v]) /\ Swapping(edits[v])  BY DEF PrIInv, Passes, Quotes, Swaps
    <3>2. edits'[v] = edits[v]  BY <1>4, <2>1
    <3> QED BY <1>1, <1>5, <3>1, <3>2 DEF Carried, Writing, KeyOf, Quoted, Swapping
  <2>2. CASE v = w  BY <1>4, <2>2, PrIdle DEF Carried, Writing, Quoted, Swapping
  <2> QED BY <2>1, <2>2
<1>8. \A k : Taking(k) => Taking(k)'  BY <1>1, <1>4, PrTaking
<1>9. Followed' /\ Loaded' /\ Tabled'  BY <1>1, <1>5, <1>8 DEF PrIInv, Followed, Loaded, Alike, Tabled
<1>10. Grouped'
  <2>1. ASSUME NEW v \in Workers, edits[v].op = "group" PROVE edits'[v].op = "group"  BY <1>2, <1>4, <2>1
  <2> QED BY <1>1, <1>5, <2>1 DEF PrIInv, Grouped
<1> QED BY <1>4, <1>5, <1>6, <1>7, <1>9, <1>10 DEF PrIInv

LEMMA PrRestart == ASSUME PrIInv, PR!Restart PROVE PrIInv'
<1> USE PrAssumed, PrValues
<1>1. budget > 0 /\ budget' = budget - 1 /\ edits' = [w \in Workers |-> PR!Idle] /\ optionMap' = optionRows
      /\ priceHist' = [priceHist EXCEPT !.memOff = FALSE, !.grpRaced = FALSE, !.grpReset = FALSE, !.torn = FALSE]
      /\ UNCHANGED <<configs, groups, optionRows>>
  BY DEF PR!Restart
<1>2. PICK old \in {PR!Default, PR!Empty} : prices' = PR!InitOptions(optionRows, groups, old)  BY DEF PR!Restart
<1>3. optionRows \in [PrKeys -> Int] /\ groups \in Int /\ priceHist \in PrHists  BY DEF PrIInv, PrTyped
<1>4. /\ prices' \in [PrKeys -> Int] /\ prices'["group_ratio"] = groups
      /\ \A k \in DimOptions : optionRows[k] # PR!Broken => prices'[k] = Full(optionRows[k])
  BY <1>2, <1>3, LoadedPrices
<1>5. priceHist' \in PrHists /\ ~priceHist'.memOff /\ ~priceHist'.torn /\ priceHist'.tabOff = priceHist.tabOff  BY <1>1, <1>3 DEF PrHists
<1>6. PrTyped'
  <2>1. edits' \in [Workers -> PrJobs \cup {PR!Idle}]  BY <1>1
  <2>2. budget' \in 0..Starts["PR"]  BY <1>1 DEF PrIInv, PrTyped
  <2> QED BY <1>1, <1>3, <1>4, <1>5, <2>1, <2>2 DEF PrIInv, PrTyped
<1>7. \A w \in Workers : edits'[w] = PR!Idle  BY <1>1
<1>8. Solo' /\ Passes' /\ Quotes' /\ Swaps'  BY <1>7, PrIdle DEF Solo, Passes, Carried, Quotes, Quoted, Swaps, Swapping, Writing
<1>9. Followed' /\ Loaded' /\ Tabled' /\ Grouped'  BY <1>1, <1>4, <1>5 DEF PrIInv, Followed, Loaded, Alike, Tabled, Grouped
<1> QED BY <1>5, <1>6, <1>8, <1>9 DEF PrIInv

LEMMA PrStep == ASSUME PrIInv, PR!Next PROVE PrIInv'
BY PrEdits, PrReads, PrFirst, PrMaps, PrSave, PrSyncs, PrSwaps, PrBill, PrRestart DEF PR!Next

LEMMA PrStill == ASSUME PrIInv, UNCHANGED <<prVars, budget>> PROVE PrIInv'
<1> USE DEF prVars
<1>1. PrTyped' /\ Solo' /\ Passes' /\ Quotes' /\ Swaps'
  BY DEF PrIInv, PrTyped, Solo, Passes, Carried, Writing, KeyOf, Quotes, Quoted, Swaps, Swapping
<1>2. Followed' /\ Loaded' /\ Tabled' /\ Grouped'
  BY DEF PrIInv, Followed, Loaded, Alike, Taking, KeyOf, Tabled, Grouped
<1> QED BY <1>1, <1>2 DEF PrIInv

\* PricesInv: the prices follow the tables once no change is on its way, within the exceptions the
\* model names, and a bill drawn up then takes its prices from one change, for any number of
\* changes, options and bills at once.
THEOREM PricesFollowTables == ServerSpec => [](part = "PR" => PR!PricesInv)
<1> DEFINE I == part = "PR" => PrIInv
<1>1. ServerInit => I  BY PrInit DEF ServerInit, AdministrationInit
<1>2. I /\ [ServerNext]_serverVars => I'
  <2> SUFFICES ASSUME I, [ServerNext]_serverVars PROVE I'  OBVIOUS
  <2>1. CASE part = "PR" /\ PR!Next /\ part' = part  BY <2>1, PrStep
  <2>2. CASE part' = part /\ part # "PR"  BY <2>2
  <2>3. CASE UNCHANGED serverVars  BY <2>3, PrStill DEF serverVars, administration
  <2> QED BY <2>1, <2>2, <2>3 DEF ServerNext, AdministrationNext, GatewayNext
<1>3. I => (part = "PR" => PR!PricesInv)  BY PrImplies
<1> QED BY <1>1, <1>2, <1>3, PTL DEF ServerSpec
=============================================================================
