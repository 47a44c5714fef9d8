----------------------------- MODULE KeyedMutex -----------------------------
(***************************************************************************)
(* What service/payment/lock.go promises its callers: one mutual-exclusion *)
(* lock per key (a trade number), acquired and released by goroutines.     *)
(* How the locks are stored, counted and dropped is left to OrderLock,     *)
(* which implements this specification; PaymentOrders uses the lock        *)
(* through it.                                                             *)
(***************************************************************************)
CONSTANTS Procs,   \* goroutines of one server process
          Keys     \* trade numbers

VARIABLES phase,   \* [Procs -> {"idle", "waiting", "holding"}]
          want     \* [Procs -> Keys], the key of the last request

kmVars == <<phase, want>>

KMInit == /\ phase = [p \in Procs |-> "idle"]
          /\ want \in [Procs -> Keys]

Request(p, k) == /\ phase[p] = "idle"
                 /\ phase' = [phase EXCEPT ![p] = "waiting"]
                 /\ want' = [want EXCEPT ![p] = k]

Acquire(p) == /\ phase[p] = "waiting"
              /\ \A q \in Procs : phase[q] = "holding" => want[q] # want[p]
              /\ phase' = [phase EXCEPT ![p] = "holding"]
              /\ UNCHANGED want

Release(p) == /\ phase[p] = "holding"
              /\ phase' = [phase EXCEPT ![p] = "idle"]
              /\ UNCHANGED want

KMNext == \E p \in Procs : \/ \E k \in Keys : Request(p, k)
                           \/ Acquire(p)
                           \/ Release(p)

KMSpec == KMInit /\ [][KMNext]_kmVars
=============================================================================
