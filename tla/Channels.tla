------------------------------ MODULE Channels ------------------------------
(***************************************************************************)
(* Upstream channels: the table channels, the table abilities that is      *)
(* derived from it and that requests are routed by, and everybody who      *)
(* writes one of them or both: the administrator's handlers, the goroutine *)
(* that bans a channel after a bad answer, the hourly check that brings    *)
(* banned channels back, and balance refreshes and check-ins.              *)
(*                                                                         *)
(* One group and one model: a channel has at most one row in abilities.    *)
(* No handler uses a transaction, so every statement is a step; a handler  *)
(* of several statements is a worker with the copies it has read.          *)
(***************************************************************************)
EXTENDS Naturals, Sequences, FiniteSets

CONSTANTS Channels,
          Workers,      \* goroutines of handlers and requests
          Priorities,   \* a set of numbers with 0
          DefaultPriority, \* what the column gets if a row is created with 0
          Weight,       \* [Channels -> Nat]
          AutoBan,      \* the channels that may be banned
          Healthy,      \* the channels whose upstream answers a check
          Databases,    \* the channels there may be at the start
          Selections,   \* sets of channels with a tag in common, or chosen for a batch
          MaxOps        \* bound on the handlers and requests started

ASSUME ChannelsAssumption ==
  /\ Priorities \subseteq Nat /\ 0 \in Priorities /\ DefaultPriority \in Priorities \ {0}
  /\ Weight \in [Channels -> Nat]
  /\ AutoBan \subseteq Channels /\ Healthy \subseteq Channels /\ MaxOps \in Nat
  /\ Selections \subseteq SUBSET Channels

VARIABLES
  chan,      \* channels: [status, prio]; ids are not given twice
  ability,   \* abilities: [there, on, prio]
  jobs,      \* what a worker does
  bans,      \* channels with a DisableChannel goroutine under way
  check,     \* CheckAllChannels: its copies of the banned channels still to be checked
  ops,
  \* History, for the properties:
  doubt,     \* channels whose row in abilities may differ from what they are
  live       \* channels that were active at some time since a worker's request began

tables == <<chan, ability, bans, check>>
vars == <<chan, ability, jobs, bans, check, ops, doubt, live>>

Status == {"none", "active", "disabled", "auto", "gone"}
Row == [status : Status, prio : Priorities]
Ability == [there : BOOLEAN, on : BOOLEAN, prio : Priorities]

NoRow     == [status |-> "none", prio |-> 0]
NoAbility == [there |-> FALSE, on |-> FALSE, prio |-> 0]
Nowhere   == [c \in Channels |-> NoRow]

ASSUME DatabasesAssumption == Databases \subseteq [Channels -> {r \in Row : r.status # "gone"}]

\* What a request may ask for: no handler looks at the status it is given.
Given == {"active", "disabled", "auto"}

Exists(r) == r.status \in Given

\* gorm's Create puts the column's default in place of a zero, in the struct as well.
Created(r) == [r EXCEPT !.prio = IF @ = 0 THEN DefaultPriority ELSE @]

\* Seeded bug: an ability is enabled whatever the status of its channel.
BugBuilt(r) == [there |-> TRUE, on |-> TRUE, prio |-> r.prio]

\* buildAbilities: the row of abilities for a channel.
Built(r) == [there |-> TRUE, on |-> r.status = "active", prio |-> r.prio]

Copies(S) == [c \in Channels |-> IF c \in S THEN chan[c] ELSE NoRow]

\* What a worker holds: the channels it still has to work on, those whose row in
\* abilities it still has to insert, its copies, and the route of a request.
Idle == [op |-> "idle", todo |-> {}, fill |-> {}, rows |-> Nowhere, route |-> <<>>]

WriteOps == {"fresh", "rebuild", "fix", "fixFill", "tagOn", "tagOff", "purge", "orphan",
             "toggle", "test", "balance"}
Ops == WriteOps \cup {"idle", "select", "order", "try"}

TypeOK ==
  /\ chan \in [Channels -> Row] /\ ability \in [Channels -> Ability]
  /\ jobs \in [Workers -> [op : Ops, todo : SUBSET Channels, fill : SUBSET Channels,
                           rows : [Channels -> Row], route : Seq(Channels)]]
  /\ bans \subseteq Channels
  /\ check \in [Channels -> Row]
  /\ ops \in Nat
  /\ doubt \subseteq Channels
  /\ live \in [Workers -> SUBSET Channels]

\* A database whose tables are in step.
Init ==
  /\ chan \in Databases
  /\ ability = [c \in Channels |-> IF Exists(chan[c]) THEN Built(chan[c]) ELSE NoAbility]
  /\ jobs = [w \in Workers |-> Idle]
  /\ bans = {} /\ check = Nowhere
  /\ ops = 0 /\ doubt = {} /\ live = [w \in Workers |-> {}]

-----------------------------------------------------------------------------
(* Starting and ending, and what the history notes.                        *)

Began == ops < MaxOps /\ ops' = ops + 1

Job(op, todo, fill, rows) ==
  [op |-> op, todo |-> todo, fill |-> fill, rows |-> rows, route |-> <<>>]

Become(w, job) == jobs' = [jobs EXCEPT ![w] = job]

Start(w, job) == jobs[w] = Idle /\ Began /\ Become(w, job)

Done(w) == Become(w, Idle)

\* w ends if nothing is left to clear and nothing to insert.
Onward(w, job) ==
  Become(w, IF job.fill = {} /\ (job.todo = {} \/ job.op = "fixFill") THEN Idle ELSE job)

Involves(v, c) == jobs[v].op \in WriteOps /\ c \in jobs[v].todo \cup jobs[v].fill

\* Channels of S that a worker other than w is writing.
Contested(w, S) == {c \in S : \E v \in Workers \ {w} : Involves(v, c)}

\* w writes S: fine if nobody else does.
Touch(w, S) == doubt' = doubt \cup Contested(w, S)

\* S is written without its row in abilities.
Neglect(S) == doubt' = doubt \cup S

-----------------------------------------------------------------------------
(* The two tables.                                                         *)

\* AddAbilities: ON CONFLICT DO NOTHING.
Inserted(a, r) == IF a.there THEN a ELSE Built(r)

\* UPDATE channels of S: rows that do not exist are not touched.
Updated(S, Change(_)) == [c \in Channels |-> IF c \in S /\ Exists(chan[c]) THEN Change(chan[c]) ELSE chan[c]]

WithStatus(S, s) == LET Change(r) == [r EXCEPT !.status = s] IN Updated(S, Change)

WithPriority(S, p) == LET Change(r) == [r EXCEPT !.prio = p] IN Updated(S, Change)

Cleared(S) == [c \in Channels |-> IF c \in S THEN NoAbility ELSE ability[c]]

-----------------------------------------------------------------------------
(* Handlers that keep both tables.                                         *)

\* The row is created; AddAbilities comes next.
AddChannel(w, c, r) ==
  /\ chan[c] = NoRow /\ r.status \in Given
  /\ chan' = [chan EXCEPT ![c] = Created(r)]
  /\ Start(w, Job("rebuild", {}, {c}, [Nowhere EXCEPT ![c] = Created(r)]))
  /\ Touch(w, {c})
  /\ UNCHANGED <<ability, bans, check>>

\* Updates(struct) leaves a column alone if the new value is zero.
UpdateChannel(w, c, s, p) ==
  LET Change(r) == [status |-> s, prio |-> IF p = 0 THEN r.prio ELSE p] IN
  /\ Exists(chan[c])
  /\ chan' = Updated({c}, Change)
  /\ Start(w, Job("fresh", {c}, {}, Nowhere))
  /\ Neglect({c})
  /\ UNCHANGED <<ability, bans, check>>

\* The channels with a tag get a new priority.  They are looked up by the same tag
\* afterwards: if it was changed as well, none is found.
EditTagChannels(w, S, p, renamed) ==
  /\ \A c \in S : Exists(chan[c])
  /\ chan' = WithPriority(S, p)
  /\ IF renamed THEN jobs[w] = Idle /\ Began /\ UNCHANGED jobs
                ELSE Start(w, Job("fresh", S, {}, Nowhere))
  /\ Neglect(S)
  /\ UNCHANGED <<ability, bans, check>>

\* The rows are read again; those still there are rebuilt.  From here on nothing
\* is in doubt unless somebody else writes the same channels.
ReadFresh(w) ==
  LET S == {c \in jobs[w].todo : Exists(chan[c])} IN
  /\ jobs[w].op = "fresh"
  /\ Onward(w, Job("rebuild", S, {}, Copies(S)))
  /\ doubt' = (doubt \ S) \cup Contested(w, S)
  /\ UNCHANGED <<tables, ops>>

\* UpdateAbilities: the channel's rows are deleted ...
ClearAbilities(w, c) ==
  /\ jobs[w].op = "rebuild" /\ jobs[w].fill = {} /\ c \in jobs[w].todo
  /\ ability' = Cleared({c})
  /\ Become(w, [jobs[w] EXCEPT !.todo = @ \ {c}, !.fill = {c}])
  /\ Touch(w, {c})
  /\ UNCHANGED <<chan, bans, check, ops>>

\* ... and inserted from the copy.
AddAbilities(w, c) ==
  /\ jobs[w].op \in {"rebuild", "fixFill"} /\ c \in jobs[w].fill
  /\ ability' = [ability EXCEPT ![c] = Inserted(@, jobs[w].rows[c])]
  /\ Onward(w, [jobs[w] EXCEPT !.fill = @ \ {c}])
  /\ Touch(w, {c})
  /\ UNCHANGED <<chan, bans, check, ops>>

\* FixAllAbilities: all channels are read ...
FixAllAbilities(w) ==
  /\ Start(w, Job("fix", Channels, {}, Copies({c \in Channels : Exists(chan[c])})))
  /\ doubt' = Contested(w, Channels)
  /\ UNCHANGED <<tables>>

\* ... DELETE FROM abilities; the rows are inserted one by one.
ClearAll(w) ==
  LET S == {c \in Channels : Exists(jobs[w].rows[c])} IN
  /\ jobs[w].op = "fix"
  /\ ability' = Cleared(Channels)
  /\ IF S = {} THEN Done(w) ELSE Become(w, [jobs[w] EXCEPT !.op = "fixFill", !.fill = S])
  /\ Touch(w, Channels)
  /\ UNCHANGED <<chan, bans, check, ops>>

\* DisableTagChannels and EnableTagChannels: first the channels, then the abilities
\* of the same channels (their ids are read before, by the same tag).
SwitchTag(w, S, op) ==
  /\ \A c \in S : Exists(chan[c])
  /\ chan' = WithStatus(S, IF op = "tagOn" THEN "active" ELSE "disabled")
  /\ Start(w, Job(op, S, {}, Nowhere))
  /\ Touch(w, S)
  /\ UNCHANGED <<ability, bans, check>>

SwitchAbilities(w) ==
  LET S == jobs[w].todo IN
  /\ jobs[w].op \in {"tagOn", "tagOff"}
  /\ ability' = [c \in Channels |-> IF c \in S /\ ability[c].there
                                    THEN [ability[c] EXCEPT !.on = jobs[w].op = "tagOn"] ELSE ability[c]]
  /\ Done(w) /\ Touch(w, S)
  /\ UNCHANGED <<chan, bans, check, ops>>

Delete(S) == [c \in Channels |-> IF c \in S THEN [NoRow EXCEPT !.status = "gone"] ELSE chan[c]]

DeleteChannel(w, c) ==
  /\ Exists(chan[c])
  /\ chan' = Delete({c})
  /\ Start(w, Job("orphan", {c}, {}, Nowhere))
  /\ Touch(w, {c})
  /\ UNCHANGED <<ability, bans, check>>

Dead(r) == r.status \in {"disabled", "auto"}

\* DeleteDisabledChannel: the ids are read first, the DELETE looks again.
PluckDisabled(w) ==
  LET S == {c \in Channels : Dead(chan[c])} IN
  /\ S # {} /\ Start(w, Job("purge", S, {}, Nowhere))
  /\ Touch(w, S)
  /\ UNCHANGED <<tables>>

DeleteDisabledChannel(w) ==
  LET S == {c \in Channels : Dead(chan[c])} IN
  /\ jobs[w].op = "purge"
  /\ chan' = Delete(S)
  /\ Become(w, [jobs[w] EXCEPT !.op = "orphan"])
  /\ doubt' = doubt \cup Contested(w, S \cup jobs[w].todo) \cup (S \ jobs[w].todo)
  /\ UNCHANGED <<ability, bans, check, ops>>

DeleteAbilities(w) ==
  /\ jobs[w].op = "orphan"
  /\ ability' = Cleared(jobs[w].todo)
  /\ Done(w) /\ Touch(w, jobs[w].todo)
  /\ UNCHANGED <<chan, bans, check, ops>>

-----------------------------------------------------------------------------
(* Writers that leave abilities alone.                                     *)

BatchUpdateChannelStatus(S, s) ==
  /\ Began /\ chan' = WithStatus(S, s) /\ Neglect(S)
  /\ UNCHANGED <<ability, jobs, bans, check>>

BatchUpdateChannelPriority(S, p) ==
  /\ Began /\ chan' = WithPriority(S, p) /\ Neglect(S)
  /\ UNCHANGED <<ability, jobs, bans, check>>

BatchDeleteChannels(S) ==
  /\ Began /\ \A c \in S : Exists(chan[c])
  /\ chan' = Delete(S) /\ Neglect(S)
  /\ UNCHANGED <<ability, jobs, bans, check>>

\* The copy gets no row in abilities.
CopyChannel(c, d) ==
  /\ Began /\ Exists(chan[c]) /\ chan[d] = NoRow
  /\ chan' = [chan EXCEPT ![d] = Created(chan[c])] /\ Neglect({d})
  /\ UNCHANGED <<ability, jobs, bans, check>>

\* Handlers that read the row, ask the upstream perhaps, and write.
ReadChannel(w, c, op) ==
  /\ Exists(chan[c])
  /\ Start(w, Job(op, {c}, {}, Copies({c})))
  /\ UNCHANGED <<tables, doubt>>

\* A banned channel is disabled by it, not enabled.
Toggled(s) == IF s = "disabled" THEN "active" ELSE "disabled"

ToggleChannelStatus(w, c) ==
  /\ jobs[w].op = "toggle" /\ c \in jobs[w].todo
  /\ chan' = WithStatus({c}, Toggled(jobs[w].rows[c].status))
  /\ Done(w) /\ Neglect({c})
  /\ UNCHANGED <<ability, bans, check, ops>>

\* TestChannel saves the whole copy, and inserts a row that is gone.
TestChannel(w, c) ==
  /\ jobs[w].op = "test" /\ c \in jobs[w].todo
  /\ chan' = [chan EXCEPT ![c] = jobs[w].rows[c]]
  /\ Done(w) /\ Neglect({c})
  /\ UNCHANGED <<ability, bans, check, ops>>

\* The test fails, or the account gives no answer: nothing is written.
UpstreamFails(w) ==
  /\ jobs[w].op \in {"test", "balance"} /\ Done(w)
  /\ UNCHANGED <<tables, ops, doubt>>

\* RefreshChannelBalance, CheckinChannelWithLog: the account answered, so the
\* channel is set active, whatever it was.
RefreshChannelBalance(w, c) ==
  /\ jobs[w].op = "balance" /\ c \in jobs[w].todo
  /\ chan' = WithStatus({c}, "active")
  /\ Done(w) /\ Neglect({c})
  /\ UNCHANGED <<ability, bans, check, ops>>

\* The goroutine after a bad answer; the channel is read and its status written.
DisableChannel(c) ==
  /\ c \in bans /\ bans' = bans \ {c}
  /\ IF c \in AutoBan
     THEN chan' = WithStatus({c}, "auto") /\ Neglect({c})
     ELSE UNCHANGED <<chan, doubt>>
  /\ UNCHANGED <<ability, jobs, check, ops>>

\* Seeded bug: every channel that is not active is tried.
BugBanned(s) == s \in {"auto", "disabled"}

\* Seeded bug: only active channels are looked at.
BugNotBanned(s) == s = "active"

Banned(s) == s = "auto"

\* CheckAllChannels: all rows are read, then the banned ones checked in turn.
CheckAllChannels ==
  /\ check = Nowhere
  /\ check' = Copies({c \in Channels : Banned(chan[c].status)})
  /\ UNCHANGED <<chan, ability, jobs, bans, ops, doubt>>

CheckChannel(c) ==
  /\ check[c] # NoRow /\ check' = [check EXCEPT ![c] = NoRow]
  /\ IF c \in Healthy
     THEN chan' = WithStatus({c}, "active") /\ Neglect({c})
     ELSE UNCHANGED <<chan, doubt>>
  /\ UNCHANGED <<ability, jobs, bans, ops>>

-----------------------------------------------------------------------------
(* Requests.                                                               *)

\* GetChannelCandidates: enabled abilities, with the priority they have.
SelectChannel(w) ==
  LET S == {c \in Channels : ability[c].there /\ ability[c].on} IN
  /\ S # {}
  /\ Start(w, Job("select", S, {}, [c \in Channels |-> [status |-> "none", prio |-> ability[c].prio]]))
  /\ UNCHANGED <<tables, doubt>>

Active(c) == chan[c].status = "active"

\* The channels themselves: only those that are active.
ReadCandidates(w) ==
  LET S == {c \in jobs[w].todo : Active(c)} IN
  /\ jobs[w].op = "select"
  /\ IF S = {} THEN Done(w) ELSE Become(w, [jobs[w] EXCEPT !.op = "order", !.todo = S])
  /\ UNCHANGED <<tables, ops, doubt>>

\* The candidates of the highest priority.
Bucket(S, rows) == {c \in S : \A d \in S : rows[d].prio <= rows[c].prio}

\* weightedShuffle draws by weight; if all that is left weighs nothing, in any order.
Drawn(S) == IF \E c \in S : Weight[c] > 0 THEN {c \in S : Weight[c] > 0} ELSE S

\* One round of weightedShuffle.
WeightedShuffle(w) ==
  /\ jobs[w].op = "order"
  /\ \E c \in Drawn(Bucket(jobs[w].todo, jobs[w].rows)) :
       Become(w, [jobs[w] EXCEPT !.op = IF jobs[w].todo = {c} THEN "try" ELSE @,
                                 !.todo = @ \ {c}, !.route = Append(@, c)])
  /\ UNCHANGED <<tables, ops, doubt>>

\* The first channel of the route is asked.  A good answer, or a bad one that is the
\* client's fault, ends the request; otherwise the next is asked.  An answer
\* that condemns the channel (ShouldDisableChannel) starts DisableChannel.
TryChannel(w, answer) ==
  /\ jobs[w].op = "try"
  /\ bans' = IF answer = "condemned" THEN bans \cup {Head(jobs[w].route)} ELSE bans
  /\ IF answer = "final" \/ Len(jobs[w].route) = 1
     THEN Done(w) ELSE Become(w, [jobs[w] EXCEPT !.route = Tail(@)])
  /\ UNCHANGED <<chan, ability, check, ops, doubt>>

-----------------------------------------------------------------------------
Begin(w) ==
  \/ \E c \in Channels :
       \/ \E r \in Row : AddChannel(w, c, r)
       \/ \E s \in Given, p \in Priorities : UpdateChannel(w, c, s, p)
       \/ DeleteChannel(w, c)
       \/ \E op \in {"toggle", "test", "balance"} : ReadChannel(w, c, op)
  \/ \E S \in Selections :
       \/ \E p \in Priorities, renamed \in BOOLEAN : EditTagChannels(w, S, p, renamed)
       \/ \E op \in {"tagOn", "tagOff"} : SwitchTag(w, S, op)
  \/ FixAllAbilities(w) \/ PluckDisabled(w) \/ SelectChannel(w)

Continue(w) ==
  \/ ReadFresh(w) \/ ClearAll(w) \/ SwitchAbilities(w)
  \/ DeleteDisabledChannel(w) \/ DeleteAbilities(w) \/ UpstreamFails(w)
  \/ \E c \in Channels :
       \/ ClearAbilities(w, c) \/ AddAbilities(w, c)
       \/ ToggleChannelStatus(w, c) \/ TestChannel(w, c) \/ RefreshChannelBalance(w, c)
  \/ ReadCandidates(w) \/ WeightedShuffle(w)
  \/ \E answer \in {"final", "retry", "condemned"} : TryChannel(w, answer)

Batch ==
  \/ \E S \in Selections :
       \/ \E s \in Given : BatchUpdateChannelStatus(S, s)
       \/ \E p \in Priorities : BatchUpdateChannelPriority(S, p)
       \/ BatchDeleteChannels(S)
  \/ \E c, d \in Channels : CopyChannel(c, d)

Checker == CheckAllChannels \/ \E c \in Channels : CheckChannel(c)

\* Which channels have been active since a worker began, noted after every step.
Observe ==
  live' = [w \in Workers |-> IF jobs'[w].op = "idle" THEN {}
                            ELSE live[w] \cup {c \in Channels : chan'[c].status = "active"}]

Next ==
  /\ \/ \E w \in Workers : Begin(w) \/ Continue(w)
     \/ Batch \/ Checker \/ \E c \in Channels : DisableChannel(c)
  /\ Observe

\* The hourly loop goes on for as long as the process lives.
Spec == Init /\ [][Next]_vars /\ WF_vars(Checker /\ Observe)

-----------------------------------------------------------------------------
(* Properties.                                                             *)

\* A request's route has each channel once, none of those still to be placed, and
\* is never empty when a channel is to be tried.
RouteOnce ==
  \A w \in Workers : LET j == jobs[w] IN
       /\ Cardinality({j.route[i] : i \in DOMAIN j.route}) = Len(j.route)
       /\ \A i \in DOMAIN j.route : j.route[i] \notin j.todo
       /\ j.op = "try" => j.route # <<>>
       /\ j.op = "order" => j.todo # {}
       /\ j.op \notin WriteOps => j.fill = {}

\* Whoever comes first on a route has the higher priority, or the same and a weight
\* unless neither has one: priorities are compared as the abilities gave them, whatever
\* happens to the tables in the meantime (selectChannelForSingleGroup, weightedShuffle).
RouteInOrder ==
  \A w \in Workers : LET j == jobs[w]  Before(c, d) ==
      \/ j.rows[c].prio > j.rows[d].prio
      \/ j.rows[c].prio = j.rows[d].prio /\ (Weight[d] > 0 => Weight[c] > 0)
    IN  \A i \in DOMAIN j.route :
          /\ \A k \in DOMAIN j.route : i < k => Before(j.route[i], j.route[k])
          /\ \A d \in j.todo : Before(j.route[i], d)

\* A channel that was not active at any time since a request began is not on its
\* route, although abilities are not told when a channel is banned or disabled.
RoutedWasActive ==
  \A w \in Workers : \A i \in DOMAIN jobs[w].route : jobs[w].route[i] \in live[w]

\* The row in abilities says what the channel is.
InStep(c) ==
  ability[c] = IF Exists(chan[c])
               THEN [there |-> TRUE, on |-> chan[c].status = "active", prio |-> chan[c].prio]
               ELSE NoAbility

\* The handlers that keep both tables leave them in step when they are done, and
\* UpdateChannel and FixAllAbilities bring them back in step whatever was wrong,
\* unless another writer of the channel overlapped.
AbilitiesInStep ==
  \A c \in Channels \ doubt : InStep(c) \/ \E w \in Workers : Involves(w, c)

\* What selection and the upkeep of abilities keep to: routes are in order, without repetition
\* or channels that were never active, and the two tables are in step.
ChannelsInv == TypeOK /\ RouteOnce /\ RouteInOrder /\ RoutedWasActive /\ AbilitiesInStep

\* The hourly check and the channel test re-enable a channel that an administrator has
\* disabled only from a copy they had read before that (CheckAllChannels, TestChannel).
ReenabledOnlyFromOldCopy ==
  [][\A c \in Channels :
       chan[c].status = "disabled" /\ chan'[c].status = "active" =>
         /\ check' # check => check[c].status = "auto"
         /\ \A w \in Workers : jobs[w].op = "test" /\ jobs'[w] # jobs[w]
              => jobs[w].rows[c].status # "disabled"]_vars

\* A banned channel whose upstream works does not stay banned: the hourly check
\* brings it back, unless somebody disables or deletes it.
BanEnds == \A c \in Healthy : chan[c].status = "auto" ~> chan[c].status # "auto"
=============================================================================
