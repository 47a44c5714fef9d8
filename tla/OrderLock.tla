------------------------------ MODULE OrderLock ------------------------------
(***************************************************************************)
(* The reference-counted lock table of service/payment/lock.go.            *)
(*                                                                         *)
(* LockOrder and UnlockOrder touch the table and the counters only while   *)
(* they hold orderLocksMu, and never block while they hold it, so each of  *)
(* those critical sections is one step here.  The per-order mutex is       *)
(* locked after orderLocksMu has been released (LockOrder) and unlocked    *)
(* after the entry may already have been deleted (UnlockOrder): those are  *)
(* steps of their own, and everything another goroutine can do fits in     *)
(* between.                                                                *)
(***************************************************************************)
EXTENDS Integers, FiniteSets

CONSTANTS Procs,    \* goroutines that recharge orders
          Trades,   \* trade numbers
          Objs,     \* memory for refCountedMutex values
          NoObj     \* absent entry / nil pointer

ASSUME ProcsFinite == IsFiniteSet(Procs)
ASSUME NoObjAssumption == NoObj \notin Objs

VARIABLES orderLocks,  \* [Trades -> Objs \cup {NoObj}], the table
          refCount,    \* [Objs -> Int], rcm.refCount
          locked,      \* [Objs -> BOOLEAN], rcm.mu
          pc,          \* where each goroutine is
          trade,       \* its tradeNo argument
          rcm          \* its local variable rcm

vars == <<orderLocks, refCount, locked, pc, trade, rcm>>

TypeOK == /\ orderLocks \in [Trades -> Objs \cup {NoObj}]
          /\ refCount \in [Objs -> Int]
          /\ locked \in [Objs -> BOOLEAN]
          /\ pc \in [Procs -> {"idle", "blocked", "critical", "unlocking"}]
          /\ trade \in [Procs -> Trades]
          /\ rcm \in [Procs -> Objs \cup {NoObj}]

Init == /\ orderLocks = [t \in Trades |-> NoObj]
        /\ refCount = [o \in Objs |-> 0]
        /\ locked = [o \in Objs |-> FALSE]
        /\ pc = [p \in Procs |-> "idle"]
        /\ trade \in [Procs -> Trades]
        /\ rcm = [p \in Procs |-> NoObj]

\* A new refCountedMutex is memory nothing points to.
Unreachable(o) == /\ \A t \in Trades : orderLocks[t] # o
                  /\ \A p \in Procs : rcm[p] # o

\* Seeded bug: LockOrder forgets to count a second caller in.
BugCountIn(o) == refCount[o]

\* rcm.refCount++ on an entry that is in the table.
CountIn(o) == refCount[o] + 1

\* rcm.refCount-- has reached zero, so the entry is deleted.
DropEntry(o) == refCount[o] - 1 <= 0

\* Seeded bug: LockOrder returns without waiting for the mutex.
BugMutexFree(o) == TRUE

\* sync.Mutex: Lock waits until the mutex is free.
MutexFree(o) == ~locked[o]

(***************************************************************************)
(* LockOrder under orderLocksMu: find the entry of the trade number, or    *)
(* make one, and count the caller in.                                      *)
(***************************************************************************)
LockOrderFound(p, t) ==
  /\ pc[p] = "idle"
  /\ orderLocks[t] # NoObj
  /\ refCount' = [refCount EXCEPT ![orderLocks[t]] = CountIn(orderLocks[t])]
  /\ rcm' = [rcm EXCEPT ![p] = orderLocks[t]]
  /\ trade' = [trade EXCEPT ![p] = t]
  /\ pc' = [pc EXCEPT ![p] = "blocked"]
  /\ UNCHANGED <<orderLocks, locked>>

LockOrderCreate(p, t) ==
  /\ pc[p] = "idle"
  /\ orderLocks[t] = NoObj
  /\ \E o \in Objs :
       /\ Unreachable(o)
       /\ orderLocks' = [orderLocks EXCEPT ![t] = o]
       /\ refCount' = [refCount EXCEPT ![o] = 1]
       /\ locked' = [locked EXCEPT ![o] = FALSE]
       /\ rcm' = [rcm EXCEPT ![p] = o]
  /\ trade' = [trade EXCEPT ![p] = t]
  /\ pc' = [pc EXCEPT ![p] = "blocked"]

\* The last line of LockOrder: rcm.mu.Lock().
MutexLock(p) ==
  /\ pc[p] = "blocked"
  /\ MutexFree(rcm[p])
  /\ locked' = [locked EXCEPT ![rcm[p]] = TRUE]
  /\ pc' = [pc EXCEPT ![p] = "critical"]
  /\ UNCHANGED <<orderLocks, refCount, trade, rcm>>

(***************************************************************************)
(* UnlockOrder under orderLocksMu.  It looks the entry up again by trade   *)
(* number; with no entry it returns early and leaves the mutex locked.     *)
(***************************************************************************)
UnlockOrder(p) ==
  LET o == orderLocks[trade[p]]
      found == o # NoObj
  IN /\ pc[p] = "critical"
     /\ refCount' = IF found THEN [refCount EXCEPT ![o] = @ - 1] ELSE refCount
     /\ orderLocks' = IF found /\ DropEntry(o)
                      THEN [orderLocks EXCEPT ![trade[p]] = NoObj]
                      ELSE orderLocks
     /\ rcm' = [rcm EXCEPT ![p] = o]
     /\ pc' = [pc EXCEPT ![p] = IF found THEN "unlocking" ELSE "idle"]
     /\ UNCHANGED <<locked, trade>>

\* Seeded bug: UnlockOrder returns with the mutex still locked.
BugMutexUnlock(p) ==
  /\ pc[p] = "unlocking"
  /\ pc' = [pc EXCEPT ![p] = "idle"]
  /\ rcm' = [rcm EXCEPT ![p] = NoObj]
  /\ UNCHANGED <<orderLocks, refCount, locked, trade>>

\* The last line of UnlockOrder: rcm.mu.Unlock().
MutexUnlock(p) ==
  /\ pc[p] = "unlocking"
  /\ locked' = [locked EXCEPT ![rcm[p]] = FALSE]
  /\ pc' = [pc EXCEPT ![p] = "idle"]
  /\ rcm' = [rcm EXCEPT ![p] = NoObj]
  /\ UNCHANGED <<orderLocks, refCount, trade>>

Next == \E p \in Procs : \/ \E t \in Trades : \/ LockOrderFound(p, t)
                                              \/ LockOrderCreate(p, t)
                         \/ MutexLock(p)
                         \/ UnlockOrder(p)
                         \/ MutexUnlock(p)

Spec == Init /\ [][Next]_vars

(***************************************************************************)
(* A goroutine that holds a lock runs on and unlocks it by defer (weak     *)
(* fairness); sync.Mutex hands itself to a waiter that has been starved    *)
(* for a millisecond, so a waiter is not overtaken for ever (strong        *)
(* fairness).  Nothing obliges a goroutine to ask for the lock.            *)
(***************************************************************************)
Fairness == \A p \in Procs : /\ SF_vars(MutexLock(p))
                             /\ WF_vars(UnlockOrder(p))
                             /\ WF_vars(MutexUnlock(p))

FairSpec == Spec /\ Fairness

-----------------------------------------------------------------------------
\* The goroutines counted in on a trade number: waiting for it or holding it.
UsersOf(t) == {p \in Procs : pc[p] \in {"blocked", "critical"} /\ trade[p] = t}

\* Two goroutines are never between LockOrder and UnlockOrder of the same
\* trade number, although the table entry is deleted and made again, and
\* deleted before the mutex of the entry is released.
MutualExclusion ==
  \A p, q \in Procs :
    pc[p] = "critical" /\ pc[q] = "critical" /\ trade[p] = trade[q] => p = q

\* UnlockOrder leaves no entry behind: a trade number is in the table exactly
\* while some goroutine waits for it or holds it.
NoLeftoverEntry == \A t \in Trades : orderLocks[t] # NoObj <=> UsersOf(t) # {}

\* rcm.mu.Unlock() never hits an unlocked mutex, which is fatal in Go, nor the
\* mutex another goroutine has locked.
UnlocksOwnMutex ==
  \A p, q \in Procs :
    pc[p] = "unlocking" =>
      /\ rcm[p] # NoObj
      /\ locked[rcm[p]]
      /\ pc[q] \in {"critical", "unlocking"} /\ rcm[q] = rcm[p] => p = q

\* The table implements one plain mutex per trade number.  A goroutine has
\* left the abstract lock once UnlockOrder has counted it out.
AbstractPhase(p) == CASE pc[p] = "blocked"  -> "waiting"
                      [] pc[p] = "critical" -> "holding"
                      [] OTHER              -> "idle"

KM == INSTANCE KeyedMutex WITH Keys  <- Trades,
                               phase <- [p \in Procs |-> AbstractPhase(p)],
                               want  <- trade

ImplementsKeyedMutex == KM!KMSpec

\* A goroutine that has entered LockOrder gets the lock.
EveryWaiterLocks == \A p \in Procs : pc[p] = "blocked" ~> pc[p] = "critical"

-----------------------------------------------------------------------------
(***************************************************************************)
(* The inductive invariant behind the properties above.                    *)
(***************************************************************************)
UsersPointToEntry ==
  \A p \in Procs : pc[p] \in {"blocked", "critical"} =>
                     rcm[p] = orderLocks[trade[p]] /\ rcm[p] \in Objs

EntriesCountUsers ==
  \A t \in Trades : orderLocks[t] # NoObj =>
                      /\ refCount[orderLocks[t]] = Cardinality(UsersOf(t))
                      /\ UsersOf(t) # {}

EntriesDistinct ==
  \A t, u \in Trades : orderLocks[t] # NoObj /\ orderLocks[t] = orderLocks[u]
                         => t = u

HoldersLocked ==
  \A p \in Procs : pc[p] \in {"critical", "unlocking"} =>
                     rcm[p] \in Objs /\ locked[rcm[p]]

OneHolder ==
  \A p, q \in Procs : /\ pc[p] \in {"critical", "unlocking"}
                      /\ pc[q] \in {"critical", "unlocking"}
                      /\ rcm[p] = rcm[q]
                      => p = q

LockInv == /\ TypeOK
           /\ UsersPointToEntry
           /\ EntriesCountUsers
           /\ EntriesDistinct
           /\ HoldersLocked
           /\ OneHolder
=============================================================================
