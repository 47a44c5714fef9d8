----------------------------- MODULE Scheduler ------------------------------
(***************************************************************************)
(* The scheduler of check-ins, balances, log clean-up and version checks   *)
(* (service/scheduler.go): a goroutine that waits for its tickers and for  *)
(* the closing of stopChan.  Starting, stopping and reconfiguring hold     *)
(* schedulerMutex; the goroutine holds nothing, and reads stopChan and the *)
(* tickers from global variables, once per turn of its select and once     *)
(* more when it leaves.                                                    *)
(***************************************************************************)
EXTENDS Integers, FiniteSets

CONSTANTS
  Loops,       \* goroutines that may be started: 1..n
  Hours,       \* intervals an administrator may ask for
  MaxStarts    \* bound on the administrator's requests

VARIABLES
  running,     \* schedulerRunning
  stopChan,    \* the stop channel in the variable: channels are numbered
  closed,      \* the channels that were closed
  hours,       \* currentConfig.CheckinIntervalHours
  tickers,     \* the tickers each goroutine made: which of them are armed, and the interval
  current,     \* whose tickers the variables hold, 0 for nil
  loops,       \* the goroutines of runScheduler
  schedHist,   \* what happened: see TypeOK
  budget
vars == <<running, stopChan, closed, hours, tickers, current, loops, schedHist, budget>>

\* checkin stands for the tickers UpdateSchedulerConfig resets, balance for the others.
Kinds == {"checkin", "balance"}
Unborn == [pc |-> "unborn", chan |-> 0, mine |-> 0, hours |-> 0]

\* InitScheduler has just started the first goroutine.
Init ==
  /\ running = TRUE /\ stopChan = 1 /\ closed = {} /\ hours \in Hours
  /\ tickers = [n \in Loops |-> [armed |-> {}, hours |-> 0]] /\ current = 0
  /\ loops = [n \in Loops |-> IF n = 1 THEN [Unborn EXCEPT !.pc = "begin"] ELSE Unborn]
  /\ schedHist = [missed |-> FALSE, hurried |-> FALSE, late |-> FALSE]
  /\ budget = 0

At(n, pc) == loops[n].pc = pc
Request == budget < MaxStarts /\ budget' = budget + 1

\* A goroutine that may still start jobs: it has not seen its channel closed, nor will it.
Working(n) == \/ At(n, "begin") \/ At(n, "make") \/ At(n, "select")
              \/ At(n, "wait") /\ loops[n].chan \notin closed
Alive(n) == ~At(n, "unborn") /\ ~At(n, "gone")

---------------------------------------------------------------------------
(* The administrator's requests. *)

startScheduler ==
  /\ Request
  /\ IF running THEN UNCHANGED <<running, loops, schedHist>>
     ELSE \E n \in Loops :
            /\ At(n, "unborn") /\ \A k \in Loops : At(k, "unborn") => n <= k
            /\ loops' = [loops EXCEPT ![n].pc = "begin"]
            /\ running' = TRUE
            /\ schedHist' = [schedHist EXCEPT !.hurried = @ \/ \E k \in Loops : Alive(k)]
  /\ UNCHANGED <<stopChan, closed, hours, tickers, current>>

\* Seeded bug: the closed channel stays in the variable.
BugFreshChan == stopChan
\* The channel the next goroutine will listen to.
FreshChan == stopChan + 1

StopScheduler ==
  /\ Request /\ running
  /\ closed' = closed \cup {stopChan}
  /\ stopChan' = FreshChan
  /\ running' = FALSE
  /\ schedHist' = [schedHist EXCEPT !.missed = @ \/ \E n \in Loops : Working(n) /\ ~At(n, "wait")]
  /\ UNCHANGED <<hours, tickers, current, loops>>

\* Reset arms a stopped ticker again.  Before the first tickers exist it is called on nil: the
\* request panics and has changed the interval only.
UpdateSchedulerConfig(h) ==
  /\ Request
  /\ hours' = h
  /\ tickers' = IF running /\ current # 0
                THEN [tickers EXCEPT ![current] = [armed |-> @.armed \cup {"checkin"}, hours |-> h]] ELSE tickers
  /\ schedHist' = [schedHist EXCEPT !.late = @ \/ \E n \in Loops : At(n, "make")]
  /\ UNCHANGED <<running, stopChan, closed, current, loops>>

---------------------------------------------------------------------------
(* runScheduler, of goroutine n. *)

ReadIntervals(n) ==
  /\ At(n, "begin")
  /\ loops' = [loops EXCEPT ![n].pc = "make", ![n].hours = hours]
  /\ UNCHANGED <<running, stopChan, closed, hours, tickers, current, schedHist, budget>>

NewTickers(n) ==
  /\ At(n, "make")
  /\ tickers' = [tickers EXCEPT ![n] = [armed |-> Kinds, hours |-> loops[n].hours]]
  /\ current' = n
  /\ loops' = [loops EXCEPT ![n].pc = "select"]
  /\ UNCHANGED <<running, stopChan, closed, hours, schedHist, budget>>

\* The select looks at the variables once, then waits on what they held.
EnterSelect(n) ==
  /\ At(n, "select")
  /\ loops' = [loops EXCEPT ![n] = [@ EXCEPT !.pc = "wait", !.chan = stopChan, !.mine = current]]
  /\ UNCHANGED <<running, stopChan, closed, hours, tickers, current, schedHist, budget>>

\* A tick starts its job in a goroutine of its own; of a tick and a closed channel that are ready
\* together the select takes either.
Fires(n) ==
  /\ At(n, "wait") /\ tickers[loops[n].mine].armed # {}
  /\ loops' = [loops EXCEPT ![n].pc = "select"]
  /\ schedHist' = [schedHist EXCEPT !.missed = @ \/ loops[n].chan \in closed]
  /\ UNCHANGED <<running, stopChan, closed, hours, tickers, current, budget>>

SeesStop(n) ==
  /\ At(n, "wait") /\ loops[n].chan \in closed
  /\ loops' = [loops EXCEPT ![n].pc = "leave"]
  /\ UNCHANGED <<running, stopChan, closed, hours, tickers, current, schedHist, budget>>

\* The deferred function stops whatever tickers the variables hold by now.
StopTickers(n) ==
  /\ At(n, "leave")
  /\ tickers' = [tickers EXCEPT ![current].armed = {}]
  /\ loops' = [loops EXCEPT ![n].pc = "gone"]
  /\ UNCHANGED <<running, stopChan, closed, hours, current, schedHist, budget>>

Next ==
  \/ startScheduler \/ StopScheduler \/ \E h \in Hours : UpdateSchedulerConfig(h)
  \/ \E n \in Loops : ReadIntervals(n) \/ NewTickers(n) \/ EnterSelect(n) \/ Fires(n) \/ SeesStop(n) \/ StopTickers(n)
Spec == Init /\ [][Next]_vars

---------------------------------------------------------------------------
\* missed: a stop came while a goroutine was between two waits, or together with a tick; hurried: a
\* start came before an earlier goroutine had gone; late: an interval changed while a goroutine was
\* making tickers.
TypeOK ==
  /\ running \in BOOLEAN /\ stopChan \in Nat /\ closed \subseteq Nat /\ hours \in Hours /\ budget \in 0..MaxStarts
  /\ tickers \in [Loops -> [armed : SUBSET Kinds, hours : Hours \cup {0}]] /\ current \in Loops \cup {0}
  /\ loops \in [Loops -> [pc : {"unborn", "begin", "make", "select", "wait", "leave", "gone"},
                          chan : Nat, mine : Loops \cup {0}, hours : Hours \cup {0}]]
  /\ schedHist \in [missed : BOOLEAN, hurried : BOOLEAN, late : BOOLEAN]

\* A running scheduler has a goroutine, and it has only one, and a stopped one none, unless a
\* stop fell between two of its waits or met a tick: it then went on to listen to the channel made
\* for its successor (scheduler.go:134-138, 206-208).
OneScheduler ==
  /\ running => \E n \in Loops : Working(n)
  /\ ~schedHist.missed => \A m, n \in Loops : Working(m) /\ Working(n) => running /\ m = n

\* The goroutine waits on armed tickers with the interval asked for, unless it was started before
\* an earlier one had gone, whose deferred function then stops the tickers of its successor, or
\* the interval changed while it was making them (scheduler.go:116-121, 228-233).
TickersArmed ==
  ~schedHist.hurried /\ ~schedHist.missed =>
    \A n \in Loops : At(n, "wait") /\ Working(n) =>
      /\ tickers[loops[n].mine].armed = Kinds
      /\ ~schedHist.late => tickers[loops[n].mine].hours = hours

\* What the scheduler keeps to.
SchedulerInv == TypeOK /\ OneScheduler /\ TickersArmed
=============================================================================
