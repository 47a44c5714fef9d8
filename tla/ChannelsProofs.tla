--------------------------- MODULE ChannelsProofs ---------------------------
(***************************************************************************)
(* The invariant of Channels, for any number of channels and workers, any  *)
(* weights, priorities and selections, and any database whose tables are   *)
(* in step at the start.                                                   *)
(***************************************************************************)
EXTENDS Channels, FiniteSetTheorems, FunctionTheorems, TLAPS

Jobs == [op : Ops, todo : SUBSET Channels, fill : SUBSET Channels,
         rows : [Channels -> Row], route : Seq(Channels)]

\* The constant records, and what the tables are written with, have their types.
LEMMA RecordTypes ==
  /\ NoRow \in Row /\ NoAbility \in Ability /\ Nowhere \in [Channels -> Row]
  /\ [NoRow EXCEPT !.status = "gone"] \in Row /\ Idle \in Jobs
<1>1. NoRow \in Row /\ [NoRow EXCEPT !.status = "gone"] \in Row
  BY ChannelsAssumption DEF NoRow, Row, Status
<1>2. NoAbility \in Ability
  BY ChannelsAssumption DEF NoAbility, Ability
<1>3. Nowhere \in [Channels -> Row]
  BY <1>1 DEF Nowhere
<1>4. Idle \in Jobs
  BY <1>3 DEF Idle, Jobs, Ops
<1> QED
  BY <1>1, <1>2, <1>3, <1>4

LEMMA CreatedType ==
  ASSUME NEW r \in Row
  PROVE  Created(r) \in Row /\ Created(r).status = r.status
BY ChannelsAssumption DEF Created, Row

LEMMA BuiltType ==
  ASSUME NEW r \in Row
  PROVE  Built(r) \in Ability
<1>1. r.prio \in Priorities /\ (r.status = "active") \in BOOLEAN
  BY DEF Row
<1> QED
  BY <1>1 DEF Built, Ability

LEMMA JobType ==
  ASSUME NEW op \in Ops, NEW T \in SUBSET Channels, NEW F \in SUBSET Channels,
         NEW rs \in [Channels -> Row]
  PROVE  Job(op, T, F, rs) \in Jobs
BY DEF Job, Jobs

\* What an UPDATE of some channels leaves.
LEMMA StatusIs ==
  ASSUME NEW S, NEW s
  PROVE  WithStatus(S, s) = [c \in Channels |-> IF c \in S /\ Exists(chan[c])
                                                THEN [chan[c] EXCEPT !.status = s] ELSE chan[c]]
BY DEF WithStatus, Updated

LEMMA PriorityIs ==
  ASSUME NEW S, NEW p
  PROVE  WithPriority(S, p) = [c \in Channels |-> IF c \in S /\ Exists(chan[c])
                                                  THEN [chan[c] EXCEPT !.prio = p] ELSE chan[c]]
BY DEF WithPriority, Updated

\* Types of the tables; the history of active channels is apart.
Typed(ch, ab, js, bn, ck, n, db) ==
  /\ ch \in [Channels -> Row] /\ ab \in [Channels -> Ability] /\ js \in [Workers -> Jobs]
  /\ bn \subseteq Channels /\ ck \in [Channels -> Row] /\ n \in Nat /\ db \subseteq Channels

Types == Typed(chan, ability, jobs, bans, check, ops, doubt)

LEMMA TypesIs == TypeOK <=> Types /\ live \in [Workers -> SUBSET Channels]
BY DEF TypeOK, Types, Typed, Jobs

LEMMA InitTypes == Init => Types
<1> SUFFICES ASSUME Init PROVE Types
  OBVIOUS
<1>1. chan \in [Channels -> Row]
  BY DatabasesAssumption DEF Init
<1>2. ability \in [Channels -> Ability]
  BY <1>1, BuiltType, RecordTypes DEF Init
<1> QED
  BY <1>1, <1>2, RecordTypes DEF Init, Types, Typed

LEMMA TableTypes ==
  ASSUME Types
  PROVE  /\ \A S : Copies(S) \in [Channels -> Row]
         /\ \A S : Delete(S) \in [Channels -> Row]
         /\ \A S : Cleared(S) \in [Channels -> Ability]
         /\ \A S, s : s \in Status => WithStatus(S, s) \in [Channels -> Row]
         /\ \A S, p : p \in Priorities => WithPriority(S, p) \in [Channels -> Row]
<1>1. chan \in [Channels -> Row] /\ ability \in [Channels -> Ability]
  BY DEF Types, Typed
<1>2. ASSUME NEW S PROVE Copies(S) \in [Channels -> Row] /\ Delete(S) \in [Channels -> Row]
  BY <1>1, RecordTypes DEF Copies, Delete
<1>3. ASSUME NEW S PROVE Cleared(S) \in [Channels -> Ability]
  BY <1>1, RecordTypes DEF Cleared
<1>4. ASSUME NEW S, NEW s \in Status PROVE WithStatus(S, s) \in [Channels -> Row]
  <2>1. \A c \in Channels : [chan[c] EXCEPT !.status = s] \in Row
    BY <1>1 DEF Row
  <2> QED
    BY <1>1, <2>1, StatusIs
<1>5. ASSUME NEW S, NEW p \in Priorities PROVE WithPriority(S, p) \in [Channels -> Row]
  <2>1. \A c \in Channels : [chan[c] EXCEPT !.prio = p] \in Row
    BY <1>1 DEF Row
  <2> QED
    BY <1>1, <2>1, PriorityIs
<1> QED
  BY <1>2, <1>3, <1>4, <1>5

\* A worker goes on to a job.
LEMMA BecomeType ==
  ASSUME Types, NEW w \in Workers, NEW j \in Jobs
  PROVE  /\ Become(w, j) => jobs' \in [Workers -> Jobs]
         /\ Onward(w, j) => jobs' \in [Workers -> Jobs]
         /\ Done(w) => jobs' \in [Workers -> Jobs]
         /\ Start(w, j) => jobs' \in [Workers -> Jobs] /\ ops' \in Nat
BY RecordTypes DEF Types, Typed, Become, Onward, Done, Start, Began

\* The jobs that handlers begin with.
LEMMA JobsBegun ==
  ASSUME Types, NEW c \in Channels, NEW S \in SUBSET Channels, NEW T \in SUBSET Channels, NEW op \in WriteOps
  PROVE  /\ Job(op, S, {}, Nowhere) \in Jobs
         /\ Job(op, S, {}, Copies(T)) \in Jobs
         /\ \A r \in Row : Job(op, {}, {c}, [Nowhere EXCEPT ![c] = r]) \in Jobs
<1>1. op \in Ops /\ Nowhere \in [Channels -> Row] /\ Copies(T) \in [Channels -> Row]
  BY TableTypes, RecordTypes DEF Ops
<1>2. \A r \in Row : [Nowhere EXCEPT ![c] = r] \in [Channels -> Row]
  BY <1>1
<1> QED
  BY <1>1, <1>2, JobType

USE DEF tables

\* Doubt only grows by channels, or is cleared for some.
LEMMA DoubtTypes ==
  ASSUME Types, NEW w, NEW S \in SUBSET Channels
  PROVE  /\ Contested(w, S) \subseteq Channels
         /\ Touch(w, S) => doubt' \subseteq Channels
         /\ Neglect(S) => doubt' \subseteq Channels
BY DEF Types, Typed, Contested, Touch, Neglect

LEMMA BeginTypes ==
  ASSUME Types, NEW w \in Workers, Begin(w)
  PROVE  Types'
<1>0. /\ chan \in [Channels -> Row] /\ ability \in [Channels -> Ability] /\ jobs \in [Workers -> Jobs]
      /\ bans \subseteq Channels /\ check \in [Channels -> Row] /\ ops \in Nat /\ doubt \subseteq Channels
  BY DEF Types, Typed
<1>1. ASSUME NEW c \in Channels, NEW r \in Row, AddChannel(w, c, r) PROVE Types'
  <2>1. Created(r) \in Row /\ Job("rebuild", {}, {c}, [Nowhere EXCEPT ![c] = Created(r)]) \in Jobs
    BY CreatedType, JobsBegun DEF WriteOps
  <2>2. jobs' \in [Workers -> Jobs] /\ ops' \in Nat
    BY <1>1, <2>1, BecomeType DEF AddChannel
  <2>3. doubt' \subseteq Channels
    BY <1>1, DoubtTypes DEF AddChannel
  <2> QED
    BY <1>0, <1>1, <2>1, <2>2, <2>3 DEF AddChannel, Types, Typed
<1>2. ASSUME NEW S \in SUBSET Channels, NEW op \in WriteOps, Start(w, Job(op, S, {}, Nowhere)),
             chan' \in [Channels -> Row], doubt' \subseteq Channels, UNCHANGED <<ability, bans, check>>
      PROVE Types'
  <2>1. Job(op, S, {}, Nowhere) \in Jobs
    BY RecordTypes, JobType DEF Ops
  <2>2. jobs' \in [Workers -> Jobs] /\ ops' \in Nat
    BY <1>2, <2>1, BecomeType
  <2> QED
    BY <1>0, <1>2, <2>2 DEF Types, Typed
<1>3. ASSUME NEW c \in Channels, NEW s \in Given, NEW p \in Priorities, UpdateChannel(w, c, s, p) PROVE Types'
  <2>1. chan' \in [Channels -> Row]
    BY <1>0, <1>3 DEF UpdateChannel, Updated, Row, Given, Status
  <2>2. doubt' \subseteq Channels
    BY <1>3, DoubtTypes DEF UpdateChannel
  <2> QED
    BY <1>2, <1>3, <2>1, <2>2 DEF UpdateChannel, WriteOps
<1>4. ASSUME NEW c \in Channels, DeleteChannel(w, c) PROVE Types'
  <2>1. chan' \in [Channels -> Row] /\ doubt' \subseteq Channels
    BY <1>4, TableTypes, DoubtTypes DEF DeleteChannel
  <2> QED
    BY <1>2, <1>4, <2>1 DEF DeleteChannel, WriteOps
<1>5. ASSUME NEW c \in Channels, NEW op \in {"toggle", "test", "balance"}, ReadChannel(w, c, op) PROVE Types'
  <2>1. Job(op, {c}, {}, Copies({c})) \in Jobs
    BY JobsBegun DEF WriteOps
  <2>2. jobs' \in [Workers -> Jobs] /\ ops' \in Nat
    BY <1>5, <2>1, BecomeType DEF ReadChannel
  <2> QED
    BY <1>0, <1>5, <2>2 DEF ReadChannel, Types, Typed
<1>6. ASSUME NEW S \in SUBSET Channels, NEW p \in Priorities, NEW renamed \in BOOLEAN,
             EditTagChannels(w, S, p, renamed)
      PROVE Types'
  <2>1. chan' \in [Channels -> Row] /\ doubt' \subseteq Channels
    BY <1>6, TableTypes, DoubtTypes DEF EditTagChannels
  <2>2. CASE renamed
    BY <1>0, <1>6, <2>1, <2>2 DEF EditTagChannels, Began, Types, Typed
  <2>3. CASE ~renamed
    BY <1>2, <1>6, <2>1, <2>3 DEF EditTagChannels, WriteOps
  <2> QED
    BY <2>2, <2>3
<1>7. ASSUME NEW S \in SUBSET Channels, NEW op \in {"tagOn", "tagOff"}, SwitchTag(w, S, op) PROVE Types'
  <2>1. chan' \in [Channels -> Row] /\ doubt' \subseteq Channels
    BY <1>7, TableTypes, DoubtTypes DEF SwitchTag, Status
  <2> QED
    BY <1>2, <1>7, <2>1 DEF SwitchTag, WriteOps
<1>8. CASE FixAllAbilities(w)
  <2> DEFINE j == Job("fix", Channels, {}, Copies({c \in Channels : Exists(chan[c])}))
  <2>1. j \in Jobs
    BY TableTypes, JobType DEF Ops, WriteOps
  <2>2. Start(w, j)
    BY <1>8 DEF FixAllAbilities
  <2> HIDE DEF j
  <2>3. jobs' \in [Workers -> Jobs] /\ ops' \in Nat
    BY <2>1, <2>2, BecomeType
  <2>4. doubt' \subseteq Channels
    BY <1>8, DoubtTypes DEF FixAllAbilities
  <2> QED
    BY <1>0, <1>8, <2>3, <2>4 DEF FixAllAbilities, Types, Typed
<1>9. CASE PluckDisabled(w)
  <2>1. doubt' \subseteq Channels
    BY <1>9, DoubtTypes DEF PluckDisabled
  <2> QED
    BY <1>0, <1>2, <1>9, <2>1 DEF PluckDisabled, WriteOps
<1>10. CASE SelectChannel(w)
  <2> DEFINE S == {c \in Channels : ability[c].there /\ ability[c].on}
             rs == [c \in Channels |-> [status |-> "none", prio |-> ability[c].prio]]
  <2>1. rs \in [Channels -> Row]
    BY <1>0 DEF Row, Ability, Status
  <2>2. Job("select", S, {}, rs) \in Jobs
    BY <2>1, JobType DEF Ops
  <2>3. jobs' \in [Workers -> Jobs] /\ ops' \in Nat
    <3>1. Start(w, Job("select", S, {}, rs))
      BY <1>10 DEF SelectChannel
    <3> HIDE DEF S, rs
    <3> QED
      BY <2>2, <3>1, BecomeType
  <2> QED
    BY <1>0, <1>10, <2>3 DEF SelectChannel, Types, Typed
<1> QED
  BY <1>1, <1>3, <1>4, <1>5, <1>6, <1>7, <1>8, <1>9, <1>10, ChannelsAssumption DEF Begin

LEMMA ContinueTypes ==
  ASSUME Types, NEW w \in Workers, Continue(w), jobs[w].op = "try" => jobs[w].route # <<>>
  PROVE  Types'
<1>0. /\ chan \in [Channels -> Row] /\ ability \in [Channels -> Ability] /\ jobs \in [Workers -> Jobs]
      /\ bans \subseteq Channels /\ check \in [Channels -> Row] /\ ops \in Nat /\ doubt \subseteq Channels
  BY DEF Types, Typed
<1>j. /\ jobs[w] \in Jobs /\ jobs[w].op \in Ops /\ jobs[w].todo \in SUBSET Channels
      /\ jobs[w].fill \in SUBSET Channels
      /\ jobs[w].rows \in [Channels -> Row] /\ jobs[w].route \in Seq(Channels)
  BY <1>0 DEF Jobs
<1>d. Done(w) => jobs' \in [Workers -> Jobs]
  BY RecordTypes, BecomeType
<1>1. CASE ReadFresh(w)
  <2> DEFINE S == {c \in jobs[w].todo : Exists(chan[c])}
  <2>1. S \in SUBSET Channels
    BY <1>j
  <2>2. Job("rebuild", S, {}, Copies(S)) \in Jobs
    BY <2>1, TableTypes, JobType DEF Ops, WriteOps
  <2>3. Onward(w, Job("rebuild", S, {}, Copies(S))) /\ doubt' = (doubt \ S) \cup Contested(w, S)
    BY <1>1 DEF ReadFresh
  <2> HIDE DEF S
  <2>4. jobs' \in [Workers -> Jobs] /\ doubt' \subseteq Channels
    BY <1>0, <2>1, <2>2, <2>3, BecomeType, DoubtTypes
  <2> QED
    BY <1>0, <1>1, <2>4 DEF ReadFresh, Types, Typed
<1>2. CASE ClearAll(w)
  <2> DEFINE S == {c \in Channels : Exists(jobs[w].rows[c])}
             j == [jobs[w] EXCEPT !.op = "fixFill", !.fill = S]
  <2>1. j \in Jobs
    BY <1>j DEF Jobs, Ops, WriteOps
  <2>2. Done(w) \/ Become(w, j)
    BY <1>2 DEF ClearAll
  <2> HIDE DEF S, j
  <2>3. jobs' \in [Workers -> Jobs]
    BY <1>d, <2>1, <2>2, BecomeType
  <2>4. ability' \in [Channels -> Ability] /\ doubt' \subseteq Channels
    BY <1>2, TableTypes, DoubtTypes DEF ClearAll
  <2> QED
    BY <1>0, <1>2, <2>3, <2>4 DEF ClearAll, Types, Typed
<1>3. CASE SwitchAbilities(w)
  <2>1. \A c \in Channels, b \in BOOLEAN : [ability[c] EXCEPT !.on = b] \in Ability
    BY <1>0 DEF Ability
  <2>2. (jobs[w].op = "tagOn") \in BOOLEAN
    OBVIOUS
  <2>3. \A c \in Channels : [ability[c] EXCEPT !.on = jobs[w].op = "tagOn"] \in Ability
    BY <2>1, <2>2, Zenon
  <2>4. ability' \in [Channels -> Ability]
    BY <1>0, <1>3, <2>3 DEF SwitchAbilities
  <2>5. doubt' \subseteq Channels
    BY <1>3, <1>j, DoubtTypes DEF SwitchAbilities
  <2> QED
    BY <1>0, <1>3, <1>d, <2>4, <2>5 DEF SwitchAbilities, Types, Typed
<1>4. CASE DeleteDisabledChannel(w)
  <2>1. [jobs[w] EXCEPT !.op = "orphan"] \in Jobs
    BY <1>j DEF Jobs, Ops, WriteOps
  <2>2. jobs' \in [Workers -> Jobs]
    BY <1>4, <2>1, BecomeType DEF DeleteDisabledChannel
  <2>3. chan' \in [Channels -> Row]
    BY <1>4, TableTypes DEF DeleteDisabledChannel
  <2>4. doubt' \subseteq Channels
    BY <1>0, <1>4, <1>j DEF DeleteDisabledChannel, Contested
  <2> QED
    BY <1>0, <1>4, <2>2, <2>3, <2>4 DEF DeleteDisabledChannel, Types, Typed
<1>5. CASE DeleteAbilities(w)
  <2>1. ability' \in [Channels -> Ability] /\ doubt' \subseteq Channels
    BY <1>5, <1>j, TableTypes, DoubtTypes DEF DeleteAbilities
  <2> QED
    BY <1>0, <1>5, <1>d, <2>1 DEF DeleteAbilities, Types, Typed
<1>6. CASE UpstreamFails(w)
  BY <1>0, <1>6, <1>d DEF UpstreamFails, Types, Typed
<1>7. ASSUME NEW c \in Channels, ClearAbilities(w, c) PROVE Types'
  <2>1. [jobs[w] EXCEPT !.todo = @ \ {c}, !.fill = {c}] \in Jobs
    BY <1>j DEF Jobs
  <2>2. jobs' \in [Workers -> Jobs]
    BY <1>7, <2>1, BecomeType DEF ClearAbilities
  <2>3. ability' \in [Channels -> Ability] /\ doubt' \subseteq Channels
    BY <1>7, TableTypes, DoubtTypes DEF ClearAbilities
  <2> QED
    BY <1>0, <1>7, <2>2, <2>3 DEF ClearAbilities, Types, Typed
<1>8. ASSUME NEW c \in Channels, AddAbilities(w, c) PROVE Types'
  <2>1. [jobs[w] EXCEPT !.fill = @ \ {c}] \in Jobs
    BY <1>j DEF Jobs
  <2>2. jobs' \in [Workers -> Jobs]
    BY <1>8, <2>1, BecomeType DEF AddAbilities
  <2>3. Built(jobs[w].rows[c]) \in Ability
    BY <1>j, BuiltType
  <2>4. ability' \in [Channels -> Ability]
    BY <1>0, <1>8, <2>3 DEF AddAbilities, Inserted
  <2>5. doubt' \subseteq Channels
    BY <1>8, DoubtTypes DEF AddAbilities
  <2> QED
    BY <1>0, <1>8, <2>2, <2>4, <2>5 DEF AddAbilities, Types, Typed
<1>9. ASSUME NEW c \in Channels, ToggleChannelStatus(w, c) \/ RefreshChannelBalance(w, c) PROVE Types'
  <2>1. PICK s \in Status : chan' = WithStatus({c}, s)
    BY <1>9 DEF ToggleChannelStatus, RefreshChannelBalance, Toggled, Status
  <2>2. chan' \in [Channels -> Row] /\ doubt' \subseteq Channels
    BY <1>9, <2>1, TableTypes, DoubtTypes DEF ToggleChannelStatus, RefreshChannelBalance
  <2> QED
    BY <1>0, <1>9, <1>d, <2>2 DEF ToggleChannelStatus, RefreshChannelBalance, Types, Typed
<1>10. ASSUME NEW c \in Channels, TestChannel(w, c) PROVE Types'
  <2>1. chan' \in [Channels -> Row] /\ doubt' \subseteq Channels
    BY <1>0, <1>10, <1>j, DoubtTypes DEF TestChannel
  <2> QED
    BY <1>0, <1>10, <1>d, <2>1 DEF TestChannel, Types, Typed
<1>11. CASE ReadCandidates(w)
  <2> DEFINE S == {c \in jobs[w].todo : Active(c)}
             j == [jobs[w] EXCEPT !.op = "order", !.todo = S]
  <2>1. j \in Jobs
    BY <1>j DEF Jobs, Ops
  <2>2. Done(w) \/ Become(w, j)
    BY <1>11 DEF ReadCandidates
  <2> HIDE DEF S, j
  <2>3. jobs' \in [Workers -> Jobs]
    BY <1>d, <2>1, <2>2, BecomeType
  <2> QED
    BY <1>0, <1>11, <2>3 DEF ReadCandidates, Types, Typed
<1>12. CASE WeightedShuffle(w)
  <2>1. PICK c \in jobs[w].todo : \E o \in Ops :
          Become(w, [jobs[w] EXCEPT !.op = o, !.todo = @ \ {c}, !.route = Append(@, c)])
    BY <1>12, <1>j DEF WeightedShuffle, Drawn, Bucket, Ops
  <2>2. c \in Channels /\ Append(jobs[w].route, c) \in Seq(Channels)
    BY <1>j
  <2>3. \A o \in Ops : [jobs[w] EXCEPT !.op = o, !.todo = @ \ {c}, !.route = Append(@, c)] \in Jobs
    BY <1>j, <2>2 DEF Jobs
  <2>4. jobs' \in [Workers -> Jobs]
    BY <2>1, <2>3, BecomeType
  <2> QED
    BY <1>0, <1>12, <2>4 DEF WeightedShuffle, Types, Typed
<1>13. ASSUME NEW answer, TryChannel(w, answer) PROVE Types'
  <2>1. jobs[w].route # <<>> /\ Head(jobs[w].route) \in Channels /\ Tail(jobs[w].route) \in Seq(Channels)
    BY <1>13, <1>j DEF TryChannel
  <2>2. [jobs[w] EXCEPT !.route = Tail(@)] \in Jobs
    BY <1>j, <2>1 DEF Jobs
  <2>3. jobs' \in [Workers -> Jobs]
    BY <1>13, <1>d, <2>2, BecomeType DEF TryChannel
  <2>4. bans' \subseteq Channels
    BY <1>0, <1>13, <2>1 DEF TryChannel
  <2> QED
    BY <1>0, <1>13, <2>3, <2>4 DEF TryChannel, Types, Typed
<1> QED
  BY <1>1, <1>2, <1>3, <1>4, <1>5, <1>6, <1>7, <1>8, <1>9, <1>10, <1>11, <1>12, <1>13 DEF Continue

\* The handlers of one statement, the hourly check and the goroutine that bans.
LEMMA OtherTypes ==
  ASSUME Types, Batch \/ Checker \/ \E c \in Channels : DisableChannel(c)
  PROVE  Types'
<1>0. /\ chan \in [Channels -> Row] /\ ability \in [Channels -> Ability] /\ jobs \in [Workers -> Jobs]
      /\ bans \subseteq Channels /\ check \in [Channels -> Row] /\ ops \in Nat /\ doubt \subseteq Channels
  BY DEF Types, Typed
<1>1. ASSUME NEW S \in SUBSET Channels, NEW s \in Given, BatchUpdateChannelStatus(S, s) PROVE Types'
  <2>1. chan' \in [Channels -> Row] /\ doubt' \subseteq Channels
    BY <1>1, TableTypes, DoubtTypes DEF BatchUpdateChannelStatus, Given, Status
  <2> QED
    BY <1>0, <1>1, <2>1 DEF BatchUpdateChannelStatus, Began, Types, Typed
<1>2. ASSUME NEW S \in SUBSET Channels, NEW p \in Priorities, BatchUpdateChannelPriority(S, p) PROVE Types'
  <2>1. chan' \in [Channels -> Row] /\ doubt' \subseteq Channels
    BY <1>2, TableTypes, DoubtTypes DEF BatchUpdateChannelPriority
  <2> QED
    BY <1>0, <1>2, <2>1 DEF BatchUpdateChannelPriority, Began, Types, Typed
<1>3. ASSUME NEW S \in SUBSET Channels, BatchDeleteChannels(S) PROVE Types'
  <2>1. chan' \in [Channels -> Row] /\ doubt' \subseteq Channels
    BY <1>3, TableTypes, DoubtTypes DEF BatchDeleteChannels
  <2> QED
    BY <1>0, <1>3, <2>1 DEF BatchDeleteChannels, Began, Types, Typed
<1>4. ASSUME NEW c \in Channels, NEW d \in Channels, CopyChannel(c, d) PROVE Types'
  <2>1. chan' \in [Channels -> Row] /\ doubt' \subseteq Channels
    BY <1>0, <1>4, CreatedType, DoubtTypes DEF CopyChannel
  <2> QED
    BY <1>0, <1>4, <2>1 DEF CopyChannel, Began, Types, Typed
<1>5. CASE CheckAllChannels
  BY <1>0, <1>5, TableTypes DEF CheckAllChannels, Types, Typed
<1>6. ASSUME NEW c \in Channels, CheckChannel(c) PROVE Types'
  <2>0. \/ chan' = chan /\ doubt' = doubt
        \/ chan' = WithStatus({c}, "active") /\ Neglect({c})
    BY <1>6 DEF CheckChannel
  <2>1. chan' \in [Channels -> Row] /\ doubt' \subseteq Channels
    <3>1. WithStatus({c}, "active") \in [Channels -> Row]
      BY TableTypes DEF Status
    <3>2. Neglect({c}) => doubt' \subseteq Channels
      BY DoubtTypes
    <3> QED
      BY <1>0, <2>0, <3>1, <3>2
  <2>2. check' \in [Channels -> Row]
    BY <1>0, <1>6, RecordTypes DEF CheckChannel
  <2> QED
    BY <1>0, <1>6, <2>1, <2>2 DEF CheckChannel, Types, Typed
<1>7. ASSUME NEW c \in Channels, DisableChannel(c) PROVE Types'
  <2>0. \/ chan' = chan /\ doubt' = doubt
        \/ chan' = WithStatus({c}, "auto") /\ Neglect({c})
    BY <1>7 DEF DisableChannel
  <2>1. chan' \in [Channels -> Row] /\ doubt' \subseteq Channels
    <3>1. WithStatus({c}, "auto") \in [Channels -> Row]
      BY TableTypes DEF Status
    <3>2. Neglect({c}) => doubt' \subseteq Channels
      BY DoubtTypes
    <3> QED
      BY <1>0, <2>0, <3>1, <3>2
  <2> QED
    BY <1>0, <1>7, <2>1 DEF DisableChannel, Types, Typed
<1> QED
  BY <1>1, <1>2, <1>3, <1>4, <1>5, <1>6, <1>7, ChannelsAssumption DEF Batch, Checker

-----------------------------------------------------------------------------
(* Routes.  A request that is being ordered holds channels that were active *)
(* when it looked; each round moves the best of them to the end of the      *)
(* route, so that nothing left behind could have gone before.               *)

Before(rs, c, d) ==
  \/ rs[c].prio > rs[d].prio
  \/ rs[c].prio = rs[d].prio /\ (Weight[d] > 0 => Weight[c] > 0)

GoodPhase(j, l) ==
  /\ j.op \notin {"order", "try"} => j.route = <<>>
  /\ j.op \in {"fix", "fixFill"} => j.todo = Channels
  /\ j.op = "try" => j.todo = {} /\ j.route # <<>>
  /\ j.op = "order" => j.todo # {} /\ j.todo \subseteq l
  /\ j.op \notin {"rebuild", "fixFill"} => j.fill = {}

GoodOrder(j, l) ==
  \A i \in 1..Len(j.route) :
    /\ j.route[i] \in l /\ j.route[i] \notin j.todo
    /\ \A d \in j.todo : Before(j.rows, j.route[i], d)
    /\ \A k \in 1..Len(j.route) : i < k => /\ j.route[i] # j.route[k]
                                           /\ Before(j.rows, j.route[i], j.route[k])

Routes == \A w \in Workers : GoodPhase(jobs[w], live[w]) /\ GoodOrder(jobs[w], live[w])

\* A job without a route.
LEMMA PlainRoute ==
  ASSUME NEW j, NEW l, j.route = <<>>, j.op \notin {"order", "try"},
         j.op \in {"fix", "fixFill"} => j.todo = Channels,
         j.op \notin {"rebuild", "fixFill"} => j.fill = {}
  PROVE  GoodPhase(j, l) /\ GoodOrder(j, l)
BY DEF GoodPhase, GoodOrder

LEMMA IdleRoute == ASSUME NEW l PROVE GoodPhase(Idle, l) /\ GoodOrder(Idle, l)
<1>1. Idle.route = <<>> /\ Idle.op = "idle" /\ Idle.fill = {}
  BY DEF Idle
<1> QED
  BY <1>1, PlainRoute

LEMMA JobRoute ==
  ASSUME NEW op \in WriteOps \cup {"select"}, NEW S, NEW F, NEW rs, NEW l,
         op \in {"fix", "fixFill"} => S = Channels, op # "rebuild" => F = {}
  PROVE  GoodPhase(Job(op, S, F, rs), l) /\ GoodOrder(Job(op, S, F, rs), l)
<1>1. Job(op, S, F, rs).route = <<>> /\ Job(op, S, F, rs).op = op
      /\ Job(op, S, F, rs).todo = S /\ Job(op, S, F, rs).fill = F
  BY DEF Job
<1>2. op \notin {"order", "try"}
  BY DEF WriteOps
<1> QED
  BY <1>1, <1>2, PlainRoute

\* More channels have been active.
LEMMA RouteGrows ==
  ASSUME NEW j, NEW l, NEW m, GoodPhase(j, l), GoodOrder(j, l), l \subseteq m
  PROVE  GoodPhase(j, m) /\ GoodOrder(j, m)
BY DEF GoodPhase, GoodOrder

Lives == live \in [Workers -> SUBSET Channels]

\* What Observe notes for a worker.
LEMMA ObserveIs ==
  ASSUME Lives, Observe, NEW v \in Workers
  PROVE  /\ Lives'
         /\ jobs'[v].op # "idle" => /\ live[v] \subseteq live'[v]
                                    /\ {c \in Channels : chan'[c].status = "active"} \subseteq live'[v]
BY DEF Lives, Observe

\* A worker whose job stays.
LEMMA RouteStays ==
  ASSUME Lives, Routes, Observe, NEW v \in Workers, jobs'[v] = jobs[v]
  PROVE  GoodPhase(jobs'[v], live'[v]) /\ GoodOrder(jobs'[v], live'[v])
<1>1. GoodPhase(jobs[v], live[v]) /\ GoodOrder(jobs[v], live[v])
  BY DEF Routes
<1>2. CASE jobs[v].op # "idle"
  <2>1. live[v] \subseteq live'[v]
    BY <1>2, ObserveIs
  <2> QED
    BY <1>1, <2>1, RouteGrows
<1>3. CASE jobs[v].op = "idle"
  <2>1. jobs[v].route = <<>> /\ jobs[v].fill = {}
    BY <1>1, <1>3 DEF GoodPhase
  <2> QED
    BY <1>3, <2>1, PlainRoute
<1> QED
  BY <1>2, <1>3

\* One worker goes on to a job whose route is good.
LEMMA RoutesStep ==
  ASSUME Types, Lives, Routes, Observe, NEW w \in Workers, NEW j, Become(w, j),
         GoodPhase(j, live'[w]), GoodOrder(j, live'[w])
  PROVE  Routes'
<1>1. jobs'[w] = j /\ \A v \in Workers \ {w} : jobs'[v] = jobs[v]
  BY DEF Types, Typed, Become
<1>2. \A v \in Workers \ {w} : GoodPhase(jobs'[v], live'[v]) /\ GoodOrder(jobs'[v], live'[v])
  BY <1>1, RouteStays
<1>3. \A v \in Workers : GoodPhase(jobs'[v], live'[v]) /\ GoodOrder(jobs'[v], live'[v])
  BY <1>1, <1>2
<1> QED
  BY <1>3 DEF Routes

LEMMA RoutesSame ==
  ASSUME Lives, Routes, Observe, UNCHANGED jobs
  PROVE  Routes'
BY RouteStays DEF Routes

\* One round of weightedShuffle.
LEMMA RoundGood ==
  ASSUME NEW j \in Jobs, NEW l, NEW m, l \subseteq m, GoodPhase(j, l), GoodOrder(j, l), j.op = "order",
         NEW c \in Drawn(Bucket(j.todo, j.rows)),
         NEW k, k = [j EXCEPT !.op = IF j.todo = {c} THEN "try" ELSE @,
                              !.todo = @ \ {c}, !.route = Append(@, c)]
  PROVE  GoodPhase(k, m) /\ GoodOrder(k, m)
<1>1. /\ j.todo \in SUBSET Channels /\ j.rows \in [Channels -> Row] /\ j.route \in Seq(Channels)
      /\ \A d \in Channels : j.rows[d].prio \in Nat /\ Weight[d] \in Nat
  BY ChannelsAssumption DEF Jobs, Row
<1>2. /\ k.op = (IF j.todo = {c} THEN "try" ELSE "order") /\ k.todo = j.todo \ {c}
      /\ k.route = Append(j.route, c) /\ k.rows = j.rows /\ k.fill = j.fill
  BY DEF Jobs
<1>3. c \in j.todo /\ c \in Channels
  BY <1>1 DEF Drawn, Bucket
<1>4. \A d \in j.todo : Before(j.rows, c, d)
  <2> SUFFICES ASSUME NEW d \in j.todo PROVE Before(j.rows, c, d)
    OBVIOUS
  <2>1. c \in Bucket(j.todo, j.rows)
    BY DEF Drawn
  <2>2. j.rows[d].prio <= j.rows[c].prio
    BY <2>1 DEF Bucket
  <2>3. ASSUME j.rows[d].prio = j.rows[c].prio, Weight[d] > 0 PROVE Weight[c] > 0
    <3>1. d \in Bucket(j.todo, j.rows)
      BY <2>1, <2>3 DEF Bucket
    <3> QED
      BY <2>3, <3>1 DEF Drawn
  <2> QED
    BY <1>1, <1>3, <2>2, <2>3 DEF Before
<1>5. /\ Len(k.route) = Len(j.route) + 1 /\ k.route[Len(j.route) + 1] = c
      /\ \A i \in 1..Len(j.route) : k.route[i] = j.route[i]
      /\ Len(j.route) \in Nat /\ k.route # <<>>
  BY <1>1, <1>2, <1>3
<1>6. GoodPhase(k, m)
  BY <1>2, <1>3, <1>5 DEF GoodPhase, WriteOps
<1>7. c \in m
  BY <1>3 DEF GoodPhase
<1>8. GoodOrder(k, m)
  <2> SUFFICES ASSUME NEW i \in 1..Len(k.route)
               PROVE  /\ k.route[i] \in m /\ k.route[i] \notin k.todo
                      /\ \A d \in k.todo : Before(k.rows, k.route[i], d)
                      /\ \A n \in 1..Len(k.route) : i < n => /\ k.route[i] # k.route[n]
                                                             /\ Before(k.rows, k.route[i], k.route[n])
    BY DEF GoodOrder
  <2>1. CASE i = Len(j.route) + 1
    BY <1>2, <1>4, <1>5, <1>7, <2>1
  <2>2. CASE i # Len(j.route) + 1
    <3>1. i \in 1..Len(j.route) /\ k.route[i] = j.route[i]
      BY <1>5, <2>2
    <3>2. /\ j.route[i] \in l /\ j.route[i] \notin j.todo /\ \A d \in j.todo : Before(j.rows, j.route[i], d)
          /\ \A n \in 1..Len(j.route) : i < n => /\ j.route[i] # j.route[n]
                                                 /\ Before(j.rows, j.route[i], j.route[n])
      BY <3>1 DEF GoodOrder
    <3>3. ASSUME NEW n \in 1..Len(k.route), i < n
          PROVE  k.route[i] # k.route[n] /\ Before(k.rows, k.route[i], k.route[n])
      <4>1. CASE n = Len(j.route) + 1
        BY <1>2, <1>3, <1>5, <3>1, <3>2, <4>1
      <4>2. CASE n # Len(j.route) + 1
        <5>1. n \in 1..Len(j.route) /\ k.route[n] = j.route[n]
          BY <1>5, <4>2
        <5> QED
          BY <1>2, <3>1, <3>2, <3>3, <5>1
      <4> QED
        BY <4>1, <4>2
    <3> QED
      BY <1>2, <3>1, <3>2, <3>3
  <2> QED
    BY <2>1, <2>2
<1> QED
  BY <1>6, <1>8

\* The next channel of the route is asked.
LEMMA RouteTail ==
  ASSUME NEW j \in Jobs, NEW l, NEW m, l \subseteq m, GoodPhase(j, l), GoodOrder(j, l), j.op = "try",
         Len(j.route) # 1, NEW k, k = [j EXCEPT !.route = Tail(@)]
  PROVE  GoodPhase(k, m) /\ GoodOrder(k, m)
<1>1. /\ j.route \in Seq(Channels) /\ j.todo = {} /\ j.route # <<>>
  BY DEF Jobs, GoodPhase
<1>2. /\ k.op = "try" /\ k.todo = j.todo /\ k.route = Tail(j.route) /\ k.rows = j.rows /\ k.fill = j.fill
  BY DEF Jobs
<1>3. /\ Len(j.route) \in Nat /\ Len(j.route) > 1 /\ Len(k.route) = Len(j.route) - 1
      /\ \A i \in 1..Len(k.route) : k.route[i] = j.route[i + 1]
  <2>1. PICK s \in Seq(Channels) : s = j.route /\ s # <<>> /\ Len(s) # 1
    BY <1>1
  <2>2. Len(s) \in Nat /\ Len(s) # 0 /\ Len(s) # 1
    BY <2>1
  <2>3. Len(Tail(s)) = Len(s) - 1 /\ \A i \in 1..(Len(s) - 1) : Tail(s)[i] = s[i + 1]
    BY <2>1, <2>2
  <2>4. PICK t : t = Tail(s) /\ k.route = t
    BY <1>2, <2>1
  <2>5. Len(s) > 1 /\ Len(t) = Len(s) - 1 /\ \A i \in 1..Len(t) : t[i] = s[i + 1]
    <3>1. Len(s) > 1
      <4>1. \A n \in Nat : n # 0 /\ n # 1 => n > 1
        OBVIOUS
      <4> QED
        BY <2>2, <4>1, Zenon
    <3>2. Len(t) = Len(s) - 1
      BY <2>3, <2>4
    <3> QED
      BY <2>3, <2>4, <3>1, <3>2, Zenon
  <2> QED
    BY <2>1, <2>2, <2>4, <2>5, Zenon
<1>4. k.route # <<>>
  BY <1>3
<1>5. GoodPhase(k, m)
  BY <1>1, <1>2, <1>4 DEF GoodPhase, WriteOps
<1>6. GoodOrder(k, m)
  <2> SUFFICES ASSUME NEW i \in 1..Len(k.route)
               PROVE  /\ k.route[i] \in m
                      /\ \A n \in 1..Len(k.route) : i < n => /\ k.route[i] # k.route[n]
                                                             /\ Before(k.rows, k.route[i], k.route[n])
    BY <1>1, <1>2 DEF GoodOrder
  <2>1. i + 1 \in 1..Len(j.route) /\ k.route[i] = j.route[i + 1]
    BY <1>3
  <2>2. /\ j.route[i + 1] \in l
        /\ \A n \in 1..Len(j.route) : i + 1 < n => /\ j.route[i + 1] # j.route[n]
                                                   /\ Before(j.rows, j.route[i + 1], j.route[n])
    BY <2>1 DEF GoodOrder
  <2>3. ASSUME NEW n \in 1..Len(k.route), i < n
        PROVE  k.route[i] # k.route[n] /\ Before(k.rows, k.route[i], k.route[n])
    <3>1. n + 1 \in 1..Len(j.route) /\ i + 1 < n + 1 /\ k.route[n] = j.route[n + 1]
      BY <1>3, <2>3
    <3> QED
      BY <1>2, <2>1, <2>2, <3>1
  <2> QED
    BY <2>1, <2>2, <2>3
<1> QED
  BY <1>5, <1>6

LEMMA BeginRoutes ==
  ASSUME Types, Lives, Routes, Observe, NEW w \in Workers, Begin(w)
  PROVE  Routes'
<1>1. ASSUME NEW op \in WriteOps \cup {"select"}, NEW S, NEW F, NEW rs, Start(w, Job(op, S, F, rs)),
             op \in {"fix", "fixFill"} => S = Channels, op # "rebuild" => F = {}
      PROVE  Routes'
  <2>1. GoodPhase(Job(op, S, F, rs), live'[w]) /\ GoodOrder(Job(op, S, F, rs), live'[w])
    BY <1>1, JobRoute
  <2> QED
    BY <1>1, <2>1, RoutesStep DEF Start
<1>2. ASSUME NEW op \in {"rebuild", "fresh", "orphan", "toggle", "test", "balance", "tagOn", "tagOff", "purge"},
             NEW S, NEW F, NEW rs, Start(w, Job(op, S, F, rs)), op # "rebuild" => F = {}
      PROVE  Routes'
  <2>1. op \in WriteOps /\ op \notin {"fix", "fixFill"} /\ op # "select"
    BY DEF WriteOps
  <2> QED
    BY <1>1, <1>2, <2>1
<1>3. ASSUME NEW c \in Channels, NEW r \in Row, AddChannel(w, c, r) PROVE Routes'
  BY <1>2, <1>3 DEF AddChannel
<1>4. ASSUME NEW c \in Channels, NEW s \in Given, NEW p \in Priorities, UpdateChannel(w, c, s, p) PROVE Routes'
  BY <1>2, <1>4 DEF UpdateChannel
<1>5. ASSUME NEW c \in Channels, DeleteChannel(w, c) PROVE Routes'
  BY <1>2, <1>5 DEF DeleteChannel
<1>6. ASSUME NEW c \in Channels, NEW op \in {"toggle", "test", "balance"}, ReadChannel(w, c, op) PROVE Routes'
  BY <1>2, <1>6 DEF ReadChannel
<1>7. ASSUME NEW S, NEW p, NEW renamed \in BOOLEAN, EditTagChannels(w, S, p, renamed) PROVE Routes'
  <2>1. CASE renamed
    BY <1>7, <2>1, RoutesSame DEF EditTagChannels
  <2>2. CASE ~renamed
    BY <1>2, <1>7, <2>2 DEF EditTagChannels
  <2> QED
    BY <2>1, <2>2
<1>8. ASSUME NEW S, NEW op \in {"tagOn", "tagOff"}, SwitchTag(w, S, op) PROVE Routes'
  BY <1>2, <1>8 DEF SwitchTag
<1>9. CASE FixAllAbilities(w)
  BY <1>1, <1>9 DEF FixAllAbilities, WriteOps
<1>10. CASE PluckDisabled(w)
  BY <1>2, <1>10 DEF PluckDisabled
<1>11. CASE SelectChannel(w)
  BY <1>1, <1>11 DEF SelectChannel, WriteOps
<1> QED
  BY <1>3, <1>4, <1>5, <1>6, <1>7, <1>8, <1>9, <1>10, <1>11 DEF Begin

LEMMA ContinueRoutes ==
  ASSUME Types, Lives, Routes, Observe, NEW w \in Workers, Continue(w)
  PROVE  Routes'
<1> DEFINE j == jobs[w]
<1>0. j \in Jobs /\ GoodPhase(j, live[w]) /\ GoodOrder(j, live[w])
  BY DEF Types, Typed, Routes
<1>1. CASE Done(w)
  BY <1>1, IdleRoute, RoutesStep DEF Done
<1>2. ASSUME NEW k, Become(w, k), k.route = <<>>, k.op \notin {"order", "try"},
             k.op \in {"fix", "fixFill"} => k.todo = Channels,
             k.op \notin {"rebuild", "fixFill"} => k.fill = {}
      PROVE  Routes'
  <2>1. GoodPhase(k, live'[w]) /\ GoodOrder(k, live'[w])
    BY <1>2, PlainRoute
  <2> QED
    BY <1>2, <2>1, RoutesStep
<1>3. ASSUME NEW k, Onward(w, k), k.route = <<>>, k.op \notin {"order", "try"},
             k.op \in {"fix", "fixFill"} => k.todo = Channels,
             k.op \notin {"rebuild", "fixFill"} => k.fill = {}
      PROVE  Routes'
  <2>1. Become(w, k) \/ Done(w)
    BY <1>3 DEF Onward, Done, Become
  <2> QED
    BY <1>1, <1>2, <1>3, <2>1
<1>4. CASE ReadFresh(w)
  <2>1. PICK S, rs : Onward(w, Job("rebuild", S, {}, rs))
    BY <1>4 DEF ReadFresh
  <2>2. Job("rebuild", S, {}, rs).route = <<>> /\ Job("rebuild", S, {}, rs).op = "rebuild"
    BY DEF Job
  <2> QED
    BY <1>3, <2>1, <2>2 DEF WriteOps
<1>5. CASE ClearAll(w) /\ ~Done(w)
  <2> DEFINE S == {c \in Channels : Exists(j.rows[c])}
             k == [j EXCEPT !.op = "fixFill", !.fill = S]
  <2>1. j.op = "fix" /\ Become(w, k)
    BY <1>5 DEF ClearAll
  <2>2. k.op = "fixFill" /\ k.route = j.route /\ k.todo = j.todo
    BY <1>0 DEF Jobs
  <2>3. j.route = <<>> /\ j.todo = Channels
    BY <1>0, <2>1 DEF GoodPhase
  <2> HIDE DEF S, k
  <2> QED
    BY <1>2, <2>1, <2>2, <2>3 DEF WriteOps
<1>6. CASE DeleteDisabledChannel(w)
  <2> DEFINE k == [j EXCEPT !.op = "orphan"]
  <2>1. j.op = "purge" /\ Become(w, k)
    BY <1>6 DEF DeleteDisabledChannel
  <2>2. k.op = "orphan" /\ k.route = j.route /\ k.fill = j.fill
    BY <1>0 DEF Jobs
  <2>3. j.route = <<>> /\ j.fill = {}
    BY <1>0, <2>1 DEF GoodPhase
  <2> HIDE DEF k
  <2> QED
    BY <1>2, <2>1, <2>2, <2>3 DEF WriteOps
<1>7. ASSUME NEW c \in Channels, ClearAbilities(w, c) PROVE Routes'
  <2> DEFINE k == [j EXCEPT !.todo = @ \ {c}, !.fill = {c}]
  <2>1. j.op = "rebuild" /\ Become(w, k)
    BY <1>7 DEF ClearAbilities
  <2>2. k.op = j.op /\ k.route = j.route
    BY <1>0 DEF Jobs
  <2>3. j.route = <<>>
    BY <1>0, <2>1 DEF GoodPhase
  <2> HIDE DEF k
  <2> QED
    BY <1>2, <2>1, <2>2, <2>3 DEF WriteOps
<1>8. ASSUME NEW c \in Channels, AddAbilities(w, c) PROVE Routes'
  <2> DEFINE k == [j EXCEPT !.fill = @ \ {c}]
  <2>1. j.op \in {"rebuild", "fixFill"} /\ Onward(w, k)
    BY <1>8 DEF AddAbilities
  <2>2. k.op = j.op /\ k.route = j.route /\ k.todo = j.todo
    BY <1>0 DEF Jobs
  <2>3. j.route = <<>> /\ (j.op = "fixFill" => j.todo = Channels)
    BY <1>0, <2>1 DEF GoodPhase
  <2> HIDE DEF k
  <2> QED
    BY <1>3, <2>1, <2>2, <2>3 DEF WriteOps
<1>9. CASE ReadCandidates(w) /\ ~Done(w)
  <2> DEFINE S == {c \in j.todo : Active(c)}
             k == [j EXCEPT !.op = "order", !.todo = S]
  <2>1. j.op = "select" /\ Become(w, k) /\ S # {} /\ chan' = chan
    BY <1>9 DEF ReadCandidates
  <2>2. k.op = "order" /\ k.route = j.route /\ k.todo = S /\ k.fill = j.fill
    BY <1>0 DEF Jobs
  <2>3. j.route = <<>> /\ j.fill = {}
    BY <1>0, <2>1 DEF GoodPhase, WriteOps
  <2>4. jobs'[w] = k
    BY <2>1 DEF Types, Typed, Become
  <2>5. {c \in Channels : chan'[c].status = "active"} \subseteq live'[w]
    BY <2>2, <2>4, ObserveIs
  <2>6. S \subseteq live'[w]
    BY <1>0, <2>1, <2>5 DEF Active, Jobs
  <2> HIDE DEF S, k
  <2>7. GoodPhase(k, live'[w])
    BY <2>1, <2>2, <2>3, <2>6 DEF GoodPhase, WriteOps
  <2>8. GoodOrder(k, live'[w])
    BY <2>2, <2>3 DEF GoodOrder
  <2> QED
    BY <2>1, <2>7, <2>8, RoutesStep
<1>10. CASE WeightedShuffle(w)
  <2>1. PICK c \in Drawn(Bucket(j.todo, j.rows)) :
          Become(w, [j EXCEPT !.op = IF j.todo = {c} THEN "try" ELSE @, !.todo = @ \ {c}, !.route = Append(@, c)])
    BY <1>10 DEF WeightedShuffle
  <2>2. PICK k : k = [j EXCEPT !.op = IF j.todo = {c} THEN "try" ELSE @, !.todo = @ \ {c}, !.route = Append(@, c)]
    OBVIOUS
  <2>3. j.op = "order" /\ Become(w, k)
    BY <1>10, <2>1, <2>2 DEF WeightedShuffle
  <2>4. jobs'[w] = k /\ k.op # "idle"
    BY <1>0, <2>2, <2>3 DEF Types, Typed, Become, Jobs
  <2>5. live[w] \subseteq live'[w]
    BY <2>4, ObserveIs
  <2>6. GoodPhase(k, live'[w]) /\ GoodOrder(k, live'[w])
    BY <1>0, <2>2, <2>3, <2>5, RoundGood
  <2> QED
    BY <2>3, <2>6, RoutesStep
<1>11. ASSUME NEW answer, TryChannel(w, answer), ~Done(w) PROVE Routes'
  <2>1. PICK k : k = [j EXCEPT !.route = Tail(@)]
    OBVIOUS
  <2>2. j.op = "try" /\ Become(w, k) /\ Len(j.route) # 1
    BY <1>11, <2>1 DEF TryChannel
  <2>3. jobs'[w] = k /\ k.op # "idle"
    BY <1>0, <2>1, <2>2 DEF Types, Typed, Become, Jobs
  <2>4. live[w] \subseteq live'[w]
    BY <2>3, ObserveIs
  <2>5. GoodPhase(k, live'[w]) /\ GoodOrder(k, live'[w])
    BY <1>0, <2>1, <2>2, <2>4, RouteTail
  <2> QED
    BY <2>2, <2>5, RoutesStep
<1> QED
  BY <1>1, <1>4, <1>5, <1>6, <1>7, <1>8, <1>9, <1>10, <1>11
     DEF Continue, SwitchAbilities, DeleteAbilities, UpstreamFails, ToggleChannelStatus, TestChannel,
         RefreshChannelBalance

-----------------------------------------------------------------------------
(* The two tables.  Of a channel that is not in doubt at most one worker    *)
(* keeps both tables; it knows how far it has come (Promise), and without   *)
(* it the tables are in step.  Toggles, tests and balances are not among    *)
(* these workers: what they write puts the channel in doubt.                *)

Keepers == WriteOps \ {"toggle", "test", "balance"}

Writes(v, c) == jobs[v].op \in Keepers /\ c \in jobs[v].todo \cup jobs[v].fill

\* The row of abilities is away, and its channel is as it was read.
Away(j, c) == j.rows[c] = chan[c] /\ Exists(chan[c]) /\ ability[c] = NoAbility

\* What holds of c while a worker with job j keeps it.
Promise(j, c) ==
  /\ j.op # "fresh"
  /\ j.op = "rebuild" => j.rows[c] = chan[c] /\ Exists(chan[c]) /\ (c \in j.fill => Away(j, c))
  /\ j.op = "fix" => j.rows[c] = IF Exists(chan[c]) THEN chan[c] ELSE NoRow
  /\ j.op = "fixFill" => IF c \in j.fill THEN Away(j, c) ELSE InStep(c)
  /\ j.op \in {"tagOn", "tagOff"} =>
       /\ ability[c].there /\ ability[c].prio = chan[c].prio
       /\ chan[c].status = IF j.op = "tagOn" THEN "active" ELSE "disabled"
  /\ j.op = "purge" => Dead(chan[c])
  /\ j.op = "orphan" => ~Exists(chan[c])

Kept(c) ==
  c \notin doubt =>
    /\ \A v, x \in Workers : Writes(v, c) /\ Writes(x, c) => v = x
    /\ \A v \in Workers : Writes(v, c) => Promise(jobs[v], c)
    /\ (\A v \in Workers : ~Writes(v, c)) => InStep(c)

InStepNow(a, r) == a = IF Exists(r) THEN Built(r) ELSE NoAbility

LEMMA InStepIs ==
  ASSUME NEW c
  PROVE  /\ InStep(c) <=> InStepNow(ability[c], chan[c])
         /\ InStep(c)' <=> InStepNow(ability'[c], chan'[c])
BY DEF InStep, InStepNow, Built

LEMMA InitKept == Init => \A c \in Channels : Kept(c)
<1> SUFFICES ASSUME Init, NEW c \in Channels PROVE Kept(c)
  OBVIOUS
<1>1. InStep(c)
  BY InStepIs DEF Init, InStepNow
<1>2. \A v \in Workers : ~Writes(v, c)
  BY DEF Init, Writes, Idle
<1> QED
  BY <1>1, <1>2 DEF Kept

\* Nothing happens to c.
LEMMA KeptFrame ==
  ASSUME NEW c \in Channels, Kept(c), c \notin doubt' => c \notin doubt,
         chan'[c] = chan[c], ability'[c] = ability[c],
         \A v \in Workers :
           \/ jobs'[v] = jobs[v]
           \/ ~Writes(v, c) /\ ~Writes(v, c)'
           \/ /\ jobs'[v].op = jobs[v].op /\ jobs'[v].rows = jobs[v].rows
              /\ c \in jobs'[v].todo <=> c \in jobs[v].todo
              /\ c \in jobs'[v].fill <=> c \in jobs[v].fill
  PROVE  Kept(c)'
<1> SUFFICES ASSUME c \notin doubt, c \notin doubt' PROVE Kept(c)'
  BY DEF Kept
<1>1. \A v \in Workers : Writes(v, c)' => Writes(v, c)
  BY DEF Writes
<1>2. \A v \in Workers : Writes(v, c) => Writes(v, c)'
  BY DEF Writes
<1>3. InStep(c) <=> InStep(c)'
  BY InStepIs
<1>4. ASSUME NEW v \in Workers, Writes(v, c)' PROVE Promise(jobs[v], c)'
  <2>1. Writes(v, c) /\ Promise(jobs[v], c)
    BY <1>1, <1>4 DEF Kept
  <2>2. /\ jobs'[v].op = jobs[v].op /\ jobs'[v].rows = jobs[v].rows
        /\ c \in jobs'[v].fill <=> c \in jobs[v].fill
    BY <1>4, <2>1
  <2> QED
    BY <1>3, <2>1, <2>2 DEF Promise, Away
<1>5. \A v, x \in Workers : Writes(v, c)' /\ Writes(x, c)' => v = x
  BY <1>1 DEF Kept
<1>6. (\A v \in Workers : ~Writes(v, c)') => InStep(c)'
  BY <1>2, <1>3 DEF Kept
<1> QED
  BY <1>4, <1>5, <1>6 DEF Kept

\* The same when one worker goes on to a job and neither the old nor the new one keeps c.
LEMMA KeptBecome ==
  ASSUME Types, NEW c \in Channels, Kept(c), c \notin doubt' => c \notin doubt,
         chan'[c] = chan[c], ability'[c] = ability[c], NEW w \in Workers, NEW j, Become(w, j),
         ~Writes(w, c), j.op \in Keepers => c \notin j.todo \cup j.fill
  PROVE  Kept(c)'
<1>1. jobs'[w] = j /\ \A v \in Workers \ {w} : jobs'[v] = jobs[v]
  BY DEF Types, Typed, Become
<1>2. ~Writes(w, c)'
  BY <1>1 DEF Writes
<1> QED
  BY <1>1, <1>2, KeptFrame

\* w keeps c, alone.
LEMMA KeptWrite ==
  ASSUME Types, NEW c \in Channels, NEW w \in Workers, NEW j, Become(w, j),
         c \notin doubt' => \A v \in Workers \ {w} : ~Writes(v, c),
         c \notin doubt' /\ j.op \in Keepers /\ c \in j.todo \cup j.fill => Promise(jobs[w], c)',
         c \notin doubt' /\ ~(j.op \in Keepers /\ c \in j.todo \cup j.fill) => InStep(c)'
  PROVE  Kept(c)'
<1> SUFFICES ASSUME c \notin doubt' PROVE Kept(c)'
  BY DEF Kept
<1>1. jobs'[w] = j /\ \A v \in Workers \ {w} : jobs'[v] = jobs[v]
  BY DEF Types, Typed, Become
<1>2. \A v \in Workers \ {w} : ~Writes(v, c)'
  BY <1>1 DEF Writes
<1>3. Writes(w, c)' <=> j.op \in Keepers /\ c \in j.todo \cup j.fill
  BY <1>1 DEF Writes
<1>4. Writes(w, c)' => Promise(jobs[w], c)'
  BY <1>3
<1>5. ~Writes(w, c)' => InStep(c)'
  BY <1>3
<1>6. \A v, x \in Workers : Writes(v, c)' /\ Writes(x, c)' => v = x
  BY <1>2
<1>7. \A v \in Workers : Writes(v, c)' => Promise(jobs[v], c)'
  BY <1>2, <1>4
<1> QED
  BY <1>5, <1>6, <1>7 DEF Kept

\* Nobody else is involved with what w touches, unless it is in doubt.
LEMMA Uncontested ==
  ASSUME NEW w \in Workers, NEW S, NEW c \in S, c \notin Contested(w, S)
  PROVE  \A v \in Workers \ {w} : ~Writes(v, c)
BY DEF Contested, Involves, Writes, Keepers

LEMMA TouchIs ==
  ASSUME NEW w \in Workers, NEW S, Touch(w, S), NEW c, Kept(c)
  PROVE  /\ c \notin doubt' => c \notin doubt
         /\ c \in S /\ c \notin doubt' =>
              /\ \A v \in Workers \ {w} : ~Writes(v, c)
              /\ Writes(w, c) => Promise(jobs[w], c)
              /\ ~Writes(w, c) => InStep(c)
<1>1. doubt \subseteq doubt' /\ Contested(w, S) \subseteq doubt'
  BY DEF Touch
<1>2. ASSUME c \in S, c \notin doubt' PROVE \A v \in Workers \ {w} : ~Writes(v, c)
  BY <1>1, <1>2, Uncontested
<1>3. ASSUME c \in S, c \notin doubt', ~Writes(w, c) PROVE InStep(c)
  <2>1. \A v \in Workers : ~Writes(v, c)
    BY <1>2, <1>3
  <2> QED
    BY <1>1, <1>3, <2>1 DEF Kept
<1> QED
  BY <1>1, <1>2, <1>3 DEF Kept

\* An idle worker keeps nothing.
LEMMA IdleKeepsNothing ==
  ASSUME NEW w, jobs[w] = Idle, NEW c
  PROVE  ~Writes(w, c)
BY DEF Writes, Idle

\* Jobs as they are begun.
LEMMA JobFields ==
  ASSUME NEW op, NEW S, NEW F, NEW rs, NEW j, j = Job(op, S, F, rs)
  PROVE  j.op = op /\ j.todo = S /\ j.fill = F /\ j.rows = rs
BY DEF Job

\* A handler begins that does not keep c.
LEMMA BeginApart ==
  ASSUME Types, NEW c \in Channels, Kept(c), c \notin doubt' => c \notin doubt,
         chan'[c] = chan[c], ability'[c] = ability[c], NEW w \in Workers,
         NEW op, NEW S, NEW F, NEW rs, Start(w, Job(op, S, F, rs)), op \in Keepers => c \notin S \cup F
  PROVE  Kept(c)'
<1>1. PICK j : j = Job(op, S, F, rs)
  OBVIOUS
<1>2. Become(w, j) /\ ~Writes(w, c)
  BY <1>1, IdleKeepsNothing DEF Start
<1>3. j.op \in Keepers => c \notin j.todo \cup j.fill
  BY <1>1, JobFields
<1> QED
  BY <1>2, <1>3, KeptBecome

\* A handler begins that touches S and keeps c, one of S.
LEMMA BeginKeeps ==
  ASSUME Types, NEW c \in Channels, Kept(c), NEW w \in Workers, NEW A, c \in A, Touch(w, A),
         NEW op \in Keepers, NEW S, NEW F, NEW rs, Start(w, Job(op, S, F, rs)), c \in S \cup F,
         NEW j, j = Job(op, S, F, rs),
         c \notin doubt' /\ InStep(c) /\ jobs'[w] = j => Promise(jobs[w], c)'
  PROVE  Kept(c)'
<1>2. Become(w, j) /\ ~Writes(w, c) /\ jobs'[w] = j
  BY IdleKeepsNothing DEF Start, Become, Types, Typed
<1>3. j.op \in Keepers /\ c \in j.todo \cup j.fill
  BY JobFields
<1>4. c \notin doubt' => (\A v \in Workers \ {w} : ~Writes(v, c)) /\ InStep(c)
  BY <1>2, TouchIs
<1> QED
  BY <1>2, <1>3, <1>4, KeptWrite

LEMMA BeginKept ==
  ASSUME Types, NEW w \in Workers, Begin(w), NEW c \in Channels, Kept(c)
  PROVE  Kept(c)'
<1>0. /\ chan \in [Channels -> Row] /\ ability \in [Channels -> Ability] /\ chan[c] \in Row
  BY DEF Types, Typed
<1>1. ASSUME NEW d \in Channels, NEW r \in Row, AddChannel(w, d, r) PROVE Kept(c)'
  <2> DEFINE rs == [Nowhere EXCEPT ![d] = Created(r)]
  <2>1. /\ Start(w, Job("rebuild", {}, {d}, rs)) /\ Touch(w, {d}) /\ chan[d] = NoRow
        /\ ability' = ability /\ chan' = [chan EXCEPT ![d] = Created(r)] /\ r.status \in Given
    BY <1>1 DEF AddChannel
  <2>2. rs[d] = Created(r) /\ Created(r).status = r.status
    BY RecordTypes, CreatedType
  <2>3. "rebuild" \in Keepers /\ ~Exists(NoRow)
    BY DEF Keepers, WriteOps, Exists, NoRow, Given
  <2> HIDE DEF rs
  <2>4. CASE c # d
    <3>1. chan'[c] = chan[c] /\ ability'[c] = ability[c] /\ (c \notin doubt' => c \notin doubt)
      BY <1>0, <2>1, <2>4, TouchIs
    <3> QED
      BY <2>1, <2>4, <3>1, BeginApart
  <2>5. CASE c = d
    <3>1. PICK j : j = Job("rebuild", {}, {d}, rs)
      OBVIOUS
    <3>2. j.op = "rebuild" /\ j.fill = {d} /\ j.rows[c] = Created(r)
      BY <2>2, <2>5, <3>1, JobFields
    <3>3. ASSUME InStep(c), jobs'[w] = j PROVE Promise(jobs[w], c)'
      <4>1. ability'[c] = NoAbility
        BY <2>1, <2>3, <2>5, <3>3, InStepIs DEF InStepNow
      <4>2. chan'[c] = Created(r) /\ Exists(chan'[c])
        BY <1>0, <2>1, <2>2, <2>5 DEF Exists
      <4> QED
        BY <3>2, <3>3, <4>1, <4>2 DEF Promise, Away
    <3> QED
      BY <2>1, <2>3, <2>5, <3>1, <3>3, BeginKeeps
  <2> QED
    BY <2>4, <2>5
<1>2. ASSUME c \in doubt' PROVE Kept(c)'
  BY <1>2 DEF Kept
<1>3. ASSUME NEW d \in Channels, NEW s \in Given, NEW p \in Priorities, UpdateChannel(w, d, s, p) PROVE Kept(c)'
  <2>1. CASE c = d
    BY <1>2, <1>3, <2>1 DEF UpdateChannel, Neglect
  <2>2. CASE c # d
    <3>1. chan'[c] = chan[c] /\ ability'[c] = ability[c] /\ (c \notin doubt' => c \notin doubt)
      BY <1>3, <2>2 DEF UpdateChannel, Updated, Neglect
    <3> QED
      BY <1>3, <2>2, <3>1, BeginApart DEF UpdateChannel
  <2> QED
    BY <2>1, <2>2
<1>4. ASSUME NEW d \in Channels, DeleteChannel(w, d) PROVE Kept(c)'
  <2>1. Start(w, Job("orphan", {d}, {}, Nowhere)) /\ Touch(w, {d}) /\ ability' = ability /\ chan' = Delete({d})
    BY <1>4 DEF DeleteChannel
  <2>2. CASE c # d
    <3>1. chan'[c] = chan[c] /\ ability'[c] = ability[c] /\ (c \notin doubt' => c \notin doubt)
      BY <2>1, <2>2, TouchIs DEF Delete
    <3> QED
      BY <2>1, <2>2, <3>1, BeginApart
  <2>3. CASE c = d
    <3>1. PICK j : j = Job("orphan", {d}, {}, Nowhere)
      OBVIOUS
    <3>2. j.op = "orphan" /\ "orphan" \in Keepers
      BY <3>1, JobFields DEF Keepers, WriteOps
    <3>3. ~Exists(chan'[c])
      BY <2>1, <2>3 DEF Delete, NoRow, Exists, Given
    <3>4. ASSUME jobs'[w] = j PROVE Promise(jobs[w], c)'
      BY <3>2, <3>3, <3>4 DEF Promise
    <3> QED
      BY <2>1, <2>3, <3>1, <3>2, <3>4, BeginKeeps
  <2> QED
    BY <2>2, <2>3
<1>5. ASSUME NEW d \in Channels, NEW op \in {"toggle", "test", "balance"}, ReadChannel(w, d, op) PROVE Kept(c)'
  <2>1. op \notin Keepers
    BY DEF Keepers
  <2> QED
    BY <1>5, <2>1, BeginApart DEF ReadChannel
<1>6. ASSUME NEW S, NEW p, NEW renamed \in BOOLEAN, EditTagChannels(w, S, p, renamed) PROVE Kept(c)'
  <2>1. CASE c \in S
    BY <1>2, <1>6, <2>1 DEF EditTagChannels, Neglect
  <2>2. CASE c \notin S
    <3>1. chan'[c] = chan[c] /\ ability'[c] = ability[c] /\ (c \notin doubt' => c \notin doubt)
      BY <1>6, <2>2, PriorityIs DEF EditTagChannels, Neglect
    <3>2. CASE renamed
      BY <1>6, <3>1, <3>2, KeptFrame DEF EditTagChannels
    <3>3. CASE ~renamed
      BY <1>6, <2>2, <3>1, <3>3, BeginApart DEF EditTagChannels
    <3> QED
      BY <3>2, <3>3
  <2> QED
    BY <2>1, <2>2
<1>7. ASSUME NEW S, NEW op \in {"tagOn", "tagOff"}, SwitchTag(w, S, op) PROVE Kept(c)'
  <2> DEFINE s == IF op = "tagOn" THEN "active" ELSE "disabled"
  <2>1. /\ Start(w, Job(op, S, {}, Nowhere)) /\ Touch(w, S) /\ ability' = ability
        /\ chan' = WithStatus(S, s) /\ \A d \in S : Exists(chan[d])
    BY <1>7 DEF SwitchTag
  <2>2. CASE c \notin S
    <3>1. chan'[c] = chan[c] /\ ability'[c] = ability[c] /\ (c \notin doubt' => c \notin doubt)
      BY <2>1, <2>2, StatusIs, TouchIs
    <3> QED
      BY <2>1, <2>2, <3>1, BeginApart
  <2>3. CASE c \in S
    <3>1. PICK j : j = Job(op, S, {}, Nowhere)
      OBVIOUS
    <3>2. j.op = op /\ op \in Keepers
      BY <3>1, JobFields DEF Keepers, WriteOps
    <3>3. chan'[c] = [chan[c] EXCEPT !.status = s]
      BY <2>1, <2>3, StatusIs
    <3>4. chan'[c].status = s /\ chan'[c].prio = chan[c].prio
      BY <1>0, <3>3 DEF Row
    <3>5. ASSUME InStep(c), jobs'[w] = j PROVE Promise(jobs[w], c)'
      <4>1. ability[c] = Built(chan[c])
        BY <2>1, <2>3, <3>5, InStepIs DEF InStepNow
      <4>2. ability'[c].there /\ ability'[c].prio = chan'[c].prio
        BY <2>1, <3>4, <4>1 DEF Built
      <4> QED
        BY <3>2, <3>4, <3>5, <4>2 DEF Promise
    <3> QED
      BY <2>1, <2>3, <3>1, <3>2, <3>5, BeginKeeps
  <2> QED
    BY <2>2, <2>3
<1>8. CASE FixAllAbilities(w)
  <2>1. PICK rs : rs = Copies({d \in Channels : Exists(chan[d])})
    OBVIOUS
  <2>2. PICK j : j = Job("fix", Channels, {}, rs)
    OBVIOUS
  <2>3. Start(w, j) /\ doubt' = Contested(w, Channels) /\ UNCHANGED <<chan, ability>>
    BY <1>8, <2>1, <2>2 DEF FixAllAbilities
  <2>4. Become(w, j) /\ jobs'[w] = j
    BY <2>3 DEF Start, Become, Types, Typed
  <2>5. j.op = "fix" /\ j.todo = Channels /\ j.rows = rs /\ "fix" \in Keepers
    BY <2>2, JobFields DEF Keepers, WriteOps
  <2>6. rs[c] = IF Exists(chan[c]) THEN chan[c] ELSE NoRow
    BY <2>1 DEF Copies
  <2>7. Promise(jobs[w], c)'
    BY <2>3, <2>4, <2>5, <2>6 DEF Promise
  <2>8. c \notin doubt' => \A v \in Workers \ {w} : ~Writes(v, c)
    BY <2>3, Uncontested
  <2> QED
    BY <2>4, <2>5, <2>7, <2>8, KeptWrite
<1>9. CASE PluckDisabled(w)
  <2>1. PICK S : S = {d \in Channels : Dead(chan[d])}
    OBVIOUS
  <2>2. Start(w, Job("purge", S, {}, Nowhere)) /\ Touch(w, S) /\ UNCHANGED <<chan, ability>>
    BY <1>9, <2>1 DEF PluckDisabled
  <2>3. CASE c \notin S
    <3>1. chan'[c] = chan[c] /\ ability'[c] = ability[c] /\ (c \notin doubt' => c \notin doubt)
      BY <2>2, TouchIs
    <3> QED
      BY <2>2, <2>3, <3>1, BeginApart
  <2>4. CASE c \in S
    <3>1. PICK j : j = Job("purge", S, {}, Nowhere)
      OBVIOUS
    <3>2. j.op = "purge" /\ "purge" \in Keepers
      BY <3>1, JobFields DEF Keepers, WriteOps
    <3>3. ASSUME jobs'[w] = j PROVE Promise(jobs[w], c)'
      BY <2>1, <2>2, <2>4, <3>2, <3>3 DEF Promise, Dead
    <3> QED
      BY <2>2, <2>4, <3>1, <3>2, <3>3, BeginKeeps
  <2> QED
    BY <2>3, <2>4
<1>10. CASE SelectChannel(w)
  <2>1. "select" \notin Keepers
    BY DEF Keepers, WriteOps
  <2> QED
    BY <1>10, <2>1, BeginApart DEF SelectChannel
<1> QED
  BY <1>1, <1>3, <1>4, <1>5, <1>6, <1>7, <1>8, <1>9, <1>10 DEF Begin

\* A switched row of abilities.
LEMMA SwitchedIs ==
  ASSUME NEW a \in Ability, NEW r \in Row, a.there, a.prio = r.prio,
         NEW b, b = (r.status = "active")
  PROVE  [a EXCEPT !.on = b] = Built(r)
<1>1. a.there = TRUE /\ b \in BOOLEAN
  BY DEF Ability
<1>2. PICK s : s = [a EXCEPT !.on = b]
  OBVIOUS
<1>3. s \in Ability /\ Built(r) \in Ability
  BY <1>1, <1>2, BuiltType DEF Ability
<1>4. s.there = a.there /\ s.on = b /\ s.prio = a.prio
  BY <1>2 DEF Ability
<1>5. Built(r).there = TRUE /\ Built(r).on = b /\ Built(r).prio = r.prio
  BY DEF Built
<1>6. \A x, y \in Ability : x.there = y.there /\ x.on = y.on /\ x.prio = y.prio => x = y
  BY DEF Ability
<1> QED
  BY <1>1, <1>2, <1>3, <1>4, <1>5, <1>6, Zenon

LEMMA ContinueKept ==
  ASSUME Types, Routes, NEW w \in Workers, Continue(w), NEW c \in Channels, Kept(c)
  PROVE  Kept(c)'
<1> DEFINE j == jobs[w]
<1>0. /\ chan \in [Channels -> Row] /\ ability \in [Channels -> Ability] /\ chan[c] \in Row
      /\ j \in Jobs /\ jobs \in [Workers -> Jobs] /\ ability[c] \in Ability /\ GoodPhase(j, live[w])
      /\ j.todo \subseteq Channels
  BY DEF Types, Typed, Routes, Jobs
<1>2. ASSUME c \in doubt' PROVE Kept(c)'
  BY <1>2 DEF Kept
<1>i. Done(w) => Become(w, Idle) /\ Idle.op \notin Keepers
  BY DEF Done, Idle, Keepers, WriteOps
<1>a. ASSUME ~Writes(w, c), Done(w), c \notin doubt' => c \notin doubt, chan'[c] = chan[c], ability'[c] = ability[c]
      PROVE Kept(c)'
  BY <1>a, <1>i, KeptBecome
<1>k. /\ {"fresh", "rebuild", "fix", "fixFill", "tagOn", "tagOff", "purge", "orphan"} \subseteq Keepers
      /\ Keepers \cap {"idle", "select", "order", "try", "toggle", "test", "balance"} = {}
  BY DEF Keepers, WriteOps
<1>3. CASE ReadFresh(w)
  <2>1. PICK S : S = {d \in j.todo : Exists(chan[d])}
    OBVIOUS
  <2>2. PICK k : k = Job("rebuild", S, {}, Copies(S))
    OBVIOUS
  <2>3. /\ j.op = "fresh" /\ Onward(w, k) /\ doubt' = (doubt \ S) \cup Contested(w, S)
        /\ UNCHANGED <<chan, ability>>
    BY <1>3, <2>1, <2>2 DEF ReadFresh
  <2>4. k.op = "rebuild" /\ k.todo = S /\ k.fill = {} /\ k.rows = Copies(S)
    BY <2>2, JobFields
  <2>5. CASE c \in S
    <3>1. Become(w, k) /\ jobs'[w] = k
      BY <1>0, <2>3, <2>4, <2>5 DEF Onward, Become
    <3>2. c \notin doubt' => \A v \in Workers \ {w} : ~Writes(v, c)
      BY <2>3, <2>5, Uncontested
    <3>3. Copies(S)[c] = chan[c] /\ Exists(chan[c])
      BY <2>1, <2>5 DEF Copies
    <3>4. Promise(jobs[w], c)'
      BY <2>3, <2>4, <3>1, <3>3 DEF Promise
    <3> QED
      BY <1>k, <2>4, <2>5, <3>1, <3>2, <3>4, KeptWrite
  <2>6. CASE c \notin S /\ c \in j.todo
    <3>1. Writes(w, c)
      BY <1>k, <2>3, <2>6 DEF Writes
    <3>2. ~Promise(jobs[w], c)
      BY <2>3 DEF Promise
    <3>3. c \in doubt
      BY <3>1, <3>2 DEF Kept
    <3> QED
      BY <1>2, <2>3, <2>6, <3>3
  <2>7. CASE c \notin j.todo
    <3>1. ~Writes(w, c) /\ c \notin S
      BY <1>0, <2>1, <2>3, <2>7 DEF Writes, GoodPhase
    <3>2. c \notin doubt' => c \notin doubt
      BY <2>3, <3>1
    <3>3. Become(w, k) \/ Done(w)
      BY <2>3 DEF Onward, Done, Become
    <3> QED
      BY <1>a, <2>3, <2>4, <3>1, <3>2, <3>3, KeptBecome
  <2> QED
    BY <2>5, <2>6, <2>7
<1>4. ASSUME NEW d \in Channels, ClearAbilities(w, d) PROVE Kept(c)'
  <2>1. PICK k : k = [j EXCEPT !.todo = @ \ {d}, !.fill = {d}]
    OBVIOUS
  <2>2. /\ j.op = "rebuild" /\ j.fill = {} /\ d \in j.todo /\ Become(w, k) /\ Touch(w, {d})
        /\ ability' = Cleared({d}) /\ chan' = chan
    BY <1>4, <2>1 DEF ClearAbilities
  <2>3. k.op = "rebuild" /\ k.todo = j.todo \ {d} /\ k.fill = {d} /\ k.rows = j.rows
    BY <1>0, <2>1, <2>2 DEF Jobs
  <2>4. jobs'[w] = k /\ \A v \in Workers \ {w} : jobs'[v] = jobs[v]
    BY <1>0, <2>2 DEF Become
  <2>5. CASE c = d
    <3>1. Writes(w, c)
      BY <1>k, <2>2, <2>5 DEF Writes
    <3>2. c \notin doubt' => (\A v \in Workers \ {w} : ~Writes(v, c)) /\ Promise(jobs[w], c)
      BY <2>2, <2>5, <3>1, TouchIs
    <3>3. ability'[c] = NoAbility
      BY <2>2, <2>5 DEF Cleared
    <3>4. c \notin doubt' => Promise(jobs[w], c)'
      BY <2>2, <2>3, <2>4, <3>2, <3>3 DEF Promise, Away
    <3> QED
      BY <1>k, <2>2, <2>3, <2>5, <3>2, <3>4, KeptWrite
  <2>6. CASE c # d
    <3>1. chan'[c] = chan[c] /\ ability'[c] = ability[c] /\ (c \notin doubt' => c \notin doubt)
      BY <2>2, <2>6, TouchIs DEF Cleared
    <3> QED
      BY <2>2, <2>3, <2>4, <2>6, <3>1, KeptFrame
  <2> QED
    BY <2>5, <2>6
<1>5. ASSUME NEW d \in Channels, AddAbilities(w, d) PROVE Kept(c)'
  <2>1. PICK k : k = [j EXCEPT !.fill = @ \ {d}]
    OBVIOUS
  <2>2. /\ j.op \in {"rebuild", "fixFill"} /\ d \in j.fill /\ Onward(w, k) /\ Touch(w, {d})
        /\ ability' = [ability EXCEPT ![d] = Inserted(@, j.rows[d])] /\ chan' = chan
    BY <1>5, <2>1 DEF AddAbilities
  <2>3. k.op = j.op /\ k.todo = j.todo /\ k.fill = j.fill \ {d} /\ k.rows = j.rows
    BY <1>0, <2>1, <2>2 DEF Jobs
  <2>4. Become(w, k) \/ Done(w)
    BY <2>2 DEF Onward, Done, Become
  <2>5. CASE c = d
    <3>1. Writes(w, c)
      BY <1>k, <2>2, <2>5 DEF Writes
    <3>2. c \notin doubt' => (\A v \in Workers \ {w} : ~Writes(v, c)) /\ Promise(jobs[w], c)
      BY <2>2, <2>5, <3>1, TouchIs
    <3>3. c \notin doubt' => Away(j, c)
      BY <2>2, <2>5, <3>2 DEF Promise
    <3>4. c \notin doubt' => InStep(c)' /\ Exists(chan'[c]) /\ j.rows[c] = chan'[c]
      <4>1. ASSUME Away(j, c) PROVE ability'[c] = Built(chan[c]) /\ Exists(chan[c]) /\ j.rows[c] = chan[c]
        BY <1>0, <2>2, <2>5, <4>1 DEF Away, Inserted, NoAbility
      <4> QED
        BY <2>2, <3>3, <4>1, InStepIs DEF InStepNow
    <3>5. CASE Done(w)
      BY <1>i, <3>2, <3>4, <3>5, KeptWrite
    <3>6. CASE Become(w, k)
      <4>1. jobs'[w] = k
        BY <1>0, <3>6 DEF Become
      <4>2. c \notin doubt' => Promise(jobs[w], c)'
        BY <2>2, <2>3, <2>5, <3>4, <4>1 DEF Promise
      <4> QED
        BY <3>2, <3>4, <3>6, <4>2, KeptWrite
    <3> QED
      BY <2>4, <3>5, <3>6
  <2>6. CASE c # d
    <3>1. chan'[c] = chan[c] /\ ability'[c] = ability[c] /\ (c \notin doubt' => c \notin doubt)
      BY <1>0, <2>2, <2>6, TouchIs
    <3>2. CASE Become(w, k)
      <4>1. jobs'[w] = k /\ \A v \in Workers \ {w} : jobs'[v] = jobs[v]
        BY <1>0, <3>2 DEF Become
      <4> QED
        BY <2>3, <2>6, <3>1, <4>1, KeptFrame
    <3>3. CASE ~Become(w, k)
      <4>1. Done(w) /\ k.fill = {} /\ (k.todo = {} \/ k.op = "fixFill")
        BY <2>2, <2>4, <3>3 DEF Onward
      <4>2. c \notin j.fill
        BY <2>3, <2>6, <4>1
      <4>3. CASE Writes(w, c)
        <5>1. j.op = "fixFill"
          BY <2>3, <4>1, <4>2, <4>3 DEF Writes
        <5>2. c \notin doubt' => InStep(c) /\ \A v \in Workers \ {w} : ~Writes(v, c)
          BY <3>1, <4>2, <4>3, <5>1 DEF Kept, Promise
        <5>3. c \notin doubt' => InStep(c)'
          BY <3>1, <5>2, InStepIs
        <5> QED
          BY <1>i, <4>1, <5>2, <5>3, KeptWrite
      <4>4. CASE ~Writes(w, c)
        BY <1>a, <3>1, <4>1, <4>4
      <4> QED
        BY <4>3, <4>4
    <3> QED
      BY <3>2, <3>3
  <2> QED
    BY <2>5, <2>6
<1>6. CASE ClearAll(w)
  <2>1. PICK S : S = {d \in Channels : Exists(j.rows[d])}
    OBVIOUS
  <2>2. PICK k : k = [j EXCEPT !.op = "fixFill", !.fill = S]
    OBVIOUS
  <2>3. /\ j.op = "fix" /\ ability' = Cleared(Channels) /\ Touch(w, Channels) /\ chan' = chan
        /\ IF S = {} THEN Done(w) ELSE Become(w, k)
    BY <1>6, <2>1, <2>2 DEF ClearAll
  <2>4. k.op = "fixFill" /\ k.todo = j.todo /\ k.fill = S /\ k.rows = j.rows /\ j.todo = Channels
    BY <1>0, <2>2, <2>3 DEF Jobs, GoodPhase
  <2>5. Writes(w, c) /\ ability'[c] = NoAbility
    BY <1>k, <2>3, <2>4 DEF Writes, Cleared
  <2>6. c \notin doubt' => (\A v \in Workers \ {w} : ~Writes(v, c)) /\ Promise(jobs[w], c)
    BY <2>3, <2>5, TouchIs
  <2>7. c \notin doubt' => j.rows[c] = IF Exists(chan[c]) THEN chan[c] ELSE NoRow
    BY <2>3, <2>6 DEF Promise
  <2>8. ~Exists(NoRow)
    BY DEF Exists, NoRow, Given
  <2>9. c \notin doubt' => IF c \in S THEN j.rows[c] = chan'[c] /\ Exists(chan'[c]) ELSE ~Exists(chan'[c])
    BY <2>1, <2>3, <2>7, <2>8
  <2>10. c \notin doubt' /\ c \notin S => InStep(c)'
    BY <2>5, <2>9, InStepIs DEF InStepNow
  <2>11. CASE S = {}
    BY <1>i, <2>3, <2>6, <2>10, <2>11, KeptWrite
  <2>12. CASE S # {}
    <3>1. Become(w, k) /\ jobs'[w] = k
      BY <1>0, <2>3, <2>12 DEF Become
    <3>2. c \notin doubt' => Promise(jobs[w], c)'
      BY <2>4, <2>5, <2>9, <2>10, <3>1 DEF Promise, Away
    <3> QED
      BY <1>k, <2>4, <2>6, <3>1, <3>2, KeptWrite
  <2> QED
    BY <2>11, <2>12
<1>7. CASE SwitchAbilities(w)
  <2>1. /\ j.op \in {"tagOn", "tagOff"} /\ Done(w) /\ Touch(w, j.todo) /\ chan' = chan
        /\ ability'[c] = IF c \in j.todo /\ ability[c].there
                         THEN [ability[c] EXCEPT !.on = j.op = "tagOn"] ELSE ability[c]
    BY <1>7 DEF SwitchAbilities
  <2>2. CASE c \in j.todo
    <3>1. Writes(w, c)
      BY <1>k, <2>1, <2>2 DEF Writes
    <3>2. c \notin doubt' => (\A v \in Workers \ {w} : ~Writes(v, c)) /\ Promise(jobs[w], c)
      BY <2>1, <2>2, <3>1, TouchIs
    <3>3. ASSUME c \notin doubt' PROVE InStep(c)'
      <4>1. /\ ability[c].there /\ ability[c].prio = chan[c].prio
            /\ chan[c].status = IF j.op = "tagOn" THEN "active" ELSE "disabled"
        BY <2>1, <3>2, <3>3 DEF Promise
      <4>2. (j.op = "tagOn") = (chan[c].status = "active")
        BY <4>1
      <4>3. [ability[c] EXCEPT !.on = j.op = "tagOn"] = Built(chan[c])
        BY <1>0, <4>1, <4>2, SwitchedIs
      <4>4. Exists(chan'[c]) /\ ability'[c] = Built(chan'[c])
        BY <2>1, <2>2, <4>1, <4>3 DEF Exists, Given
      <4> QED
        BY <4>4, InStepIs DEF InStepNow
    <3> QED
      BY <1>i, <2>1, <3>2, <3>3, KeptWrite
  <2>3. CASE c \notin j.todo
    <3>1. ~Writes(w, c)
      BY <1>0, <2>1, <2>3 DEF Writes, GoodPhase
    <3>2. c \notin doubt' => c \notin doubt
      BY <2>1, TouchIs
    <3> QED
      BY <1>a, <2>1, <2>3, <3>1, <3>2
  <2> QED
    BY <2>2, <2>3
<1>8. CASE DeleteDisabledChannel(w)
  <2>1. PICK S : S = {d \in Channels : Dead(chan[d])}
    OBVIOUS
  <2>2. PICK k : k = [j EXCEPT !.op = "orphan"]
    OBVIOUS
  <2>3. /\ j.op = "purge" /\ chan' = Delete(S) /\ Become(w, k) /\ ability' = ability
        /\ doubt' = doubt \cup Contested(w, S \cup j.todo) \cup (S \ j.todo)
    BY <1>8, <2>1, <2>2 DEF DeleteDisabledChannel
  <2>4. k.op = "orphan" /\ k.todo = j.todo /\ k.fill = j.fill /\ j.fill = {} /\ jobs'[w] = k
    BY <1>0, <2>2, <2>3 DEF Jobs, GoodPhase, Become
  <2>5. CASE c \in j.todo
    <3>1. Writes(w, c)
      BY <1>k, <2>3, <2>5 DEF Writes
    <3>2. c \notin doubt' => (\A v \in Workers \ {w} : ~Writes(v, c)) /\ Dead(chan[c])
      <4>1. c \notin doubt' => c \notin doubt /\ c \notin Contested(w, S \cup j.todo)
        BY <2>3
      <4>2. c \notin doubt' => Dead(chan[c])
        BY <2>3, <3>1, <4>1 DEF Kept, Promise
      <4> QED
        BY <2>5, <4>1, <4>2, Uncontested
    <3>3. c \notin doubt' => ~Exists(chan'[c])
      BY <2>1, <2>3, <3>2 DEF Delete, Exists, Given, NoRow
    <3>4. c \notin doubt' => Promise(jobs[w], c)'
      BY <2>4, <3>3 DEF Promise
    <3> QED
      BY <1>k, <2>3, <2>4, <2>5, <3>2, <3>4, KeptWrite
  <2>6. CASE c \notin j.todo /\ c \in S
    BY <1>2, <2>3, <2>6
  <2>7. CASE c \notin j.todo /\ c \notin S
    <3>1. chan'[c] = chan[c] /\ ability'[c] = ability[c] /\ (c \notin doubt' => c \notin doubt)
      BY <2>3, <2>7 DEF Delete
    <3>2. ~Writes(w, c)
      BY <2>4, <2>7 DEF Writes
    <3> QED
      BY <2>3, <2>4, <2>7, <3>1, <3>2, KeptBecome
  <2> QED
    BY <2>5, <2>6, <2>7
<1>9. CASE DeleteAbilities(w)
  <2>1. /\ j.op = "orphan" /\ ability' = Cleared(j.todo) /\ Done(w) /\ Touch(w, j.todo) /\ chan' = chan
    BY <1>9 DEF DeleteAbilities
  <2>2. CASE c \in j.todo
    <3>1. Writes(w, c)
      BY <1>k, <2>1, <2>2 DEF Writes
    <3>2. c \notin doubt' => (\A v \in Workers \ {w} : ~Writes(v, c)) /\ ~Exists(chan[c])
      BY <2>1, <2>2, <3>1, TouchIs DEF Promise
    <3>3. c \notin doubt' => InStep(c)'
      BY <2>1, <2>2, <3>2, InStepIs DEF InStepNow, Cleared
    <3> QED
      BY <1>i, <2>1, <3>2, <3>3, KeptWrite
  <2>3. CASE c \notin j.todo
    <3>1. ~Writes(w, c)
      BY <1>0, <2>1, <2>3 DEF Writes, GoodPhase
    <3>2. ability'[c] = ability[c] /\ (c \notin doubt' => c \notin doubt)
      BY <2>1, <2>3, TouchIs DEF Cleared
    <3> QED
      BY <1>a, <2>1, <3>1, <3>2
  <2> QED
    BY <2>2, <2>3
<1>10. CASE UpstreamFails(w)
  <2>1. ~Writes(w, c)
    BY <1>10, <1>k DEF UpstreamFails, Writes
  <2> QED
    BY <1>a, <1>10, <2>1 DEF UpstreamFails
<1>11. ASSUME NEW d \in Channels, ToggleChannelStatus(w, d) \/ TestChannel(w, d) \/ RefreshChannelBalance(w, d)
       PROVE Kept(c)'
  <2>1. j.op \in {"toggle", "test", "balance"} /\ Done(w) /\ Neglect({d}) /\ ability' = ability
    BY <1>11 DEF ToggleChannelStatus, TestChannel, RefreshChannelBalance
  <2>2. CASE c = d
    BY <1>2, <2>1, <2>2 DEF Neglect
  <2>3. CASE c # d
    <3>1. chan'[c] = chan[c]
      BY <1>0, <1>11, <2>3, StatusIs DEF ToggleChannelStatus, TestChannel, RefreshChannelBalance
    <3>2. ~Writes(w, c) /\ (c \notin doubt' => c \notin doubt)
      BY <1>k, <2>1 DEF Writes, Neglect
    <3> QED
      BY <1>a, <2>1, <3>1, <3>2
  <2> QED
    BY <2>2, <2>3
<1>12. ASSUME j.op \in {"select", "order", "try"}, NEW k, Become(w, k), k.op \in {"idle", "select", "order", "try"},
              UNCHANGED <<chan, ability, doubt>>
       PROVE Kept(c)'
  <2>1. ~Writes(w, c)
    BY <1>12, <1>k DEF Writes
  <2> QED
    BY <1>12, <1>k, <2>1, KeptBecome
<1>13. CASE ReadCandidates(w) \/ WeightedShuffle(w) \/ \E answer \in {"final", "retry", "condemned"} : TryChannel(w, answer)
  <2>1. j.op \in {"select", "order", "try"} /\ UNCHANGED <<chan, ability, doubt>>
    BY <1>13 DEF ReadCandidates, WeightedShuffle, TryChannel
  <2>2. Idle.op = "idle"
    BY DEF Idle
  <2>3. \A S : [j EXCEPT !.op = "order", !.todo = S].op = "order"
    BY <1>0 DEF Jobs
  <2>4. \A d : LET k == [j EXCEPT !.op = IF j.todo = {d} THEN "try" ELSE @, !.todo = @ \ {d}, !.route = Append(@, d)]
               IN  j.op = "order" => k.op \in {"order", "try"}
    BY <1>0 DEF Jobs
  <2>5. [j EXCEPT !.route = Tail(@)].op = j.op
    BY <1>0 DEF Jobs
  <2>6. CASE ReadCandidates(w)
    BY <1>12, <2>1, <2>2, <2>3, <2>6 DEF ReadCandidates, Done
  <2>7. CASE WeightedShuffle(w)
    BY <1>12, <2>1, <2>4, <2>7 DEF WeightedShuffle
  <2>8. ASSUME NEW answer, TryChannel(w, answer) PROVE Kept(c)'
    BY <1>12, <2>1, <2>2, <2>5, <2>8 DEF TryChannel, Done
  <2> QED
    BY <1>13, <2>6, <2>7, <2>8
<1> QED
  BY <1>3, <1>4, <1>5, <1>6, <1>7, <1>8, <1>9, <1>10, <1>11, <1>13 DEF Continue

\* The handlers of one statement, the hourly check and the goroutine that bans.
LEMMA OtherKept ==
  ASSUME Types, Batch \/ Checker \/ \E d \in Channels : DisableChannel(d), NEW c \in Channels, Kept(c)
  PROVE  Kept(c)'
<1>0. /\ chan \in [Channels -> Row] /\ ability' = ability /\ jobs' = jobs
  BY DEF Types, Typed, Batch, Checker, DisableChannel, BatchUpdateChannelStatus, BatchUpdateChannelPriority,
         BatchDeleteChannels, CopyChannel, CheckAllChannels, CheckChannel
<1>1. ASSUME NEW S, c \notin S => chan'[c] = chan[c], Neglect(S) PROVE Kept(c)'
  <2>1. CASE c \in S
    BY <1>1, <2>1 DEF Kept, Neglect
  <2>2. CASE c \notin S
    <3>1. c \notin doubt' => c \notin doubt
      BY <1>1 DEF Neglect
    <3> QED
      BY <1>0, <1>1, <2>2, <3>1, KeptFrame
  <2> QED
    BY <2>1, <2>2
<1>2. CASE chan' = chan /\ doubt' = doubt
  BY <1>0, <1>2, KeptFrame
<1>3. ASSUME NEW S, NEW s, chan' = WithStatus(S, s), Neglect(S) PROVE Kept(c)'
  BY <1>1, <1>3, StatusIs
<1>4. ASSUME NEW S, NEW p, chan' = WithPriority(S, p), Neglect(S) PROVE Kept(c)'
  BY <1>1, <1>4, PriorityIs
<1>5. ASSUME NEW S, chan' = Delete(S), Neglect(S) PROVE Kept(c)'
  <2>1. c \notin S => chan'[c] = chan[c]
    BY <1>5 DEF Delete
  <2> QED
    BY <1>1, <1>5, <2>1
<1>6. ASSUME NEW d, NEW e \in Channels, CopyChannel(d, e) PROVE Kept(c)'
  <2>1. (c \notin {e} => chan'[c] = chan[c]) /\ Neglect({e})
    BY <1>0, <1>6 DEF CopyChannel
  <2> QED
    BY <1>1, <2>1
<1>7. CASE Batch
  BY <1>3, <1>4, <1>5, <1>6, <1>7
     DEF Batch, BatchUpdateChannelStatus, BatchUpdateChannelPriority, BatchDeleteChannels
<1>8. ASSUME NEW d, CheckChannel(d) \/ DisableChannel(d) PROVE Kept(c)'
  <2>1. \/ chan' = chan /\ doubt' = doubt
        \/ chan' = WithStatus({d}, "active") /\ Neglect({d})
        \/ chan' = WithStatus({d}, "auto") /\ Neglect({d})
    BY <1>8 DEF CheckChannel, DisableChannel
  <2> QED
    BY <1>2, <1>3, <2>1
<1>9. CASE CheckAllChannels
  BY <1>2, <1>9 DEF CheckAllChannels
<1> QED
  BY <1>7, <1>8, <1>9 DEF Checker

-----------------------------------------------------------------------------
(* The invariant and what follows from it.                                  *)

\* The hourly check has copies of banned channels only.
Checked == \A c \in Channels : check[c] = NoRow \/ check[c].status = "auto"

Inv == Types /\ Lives /\ Routes /\ (\A c \in Channels : Kept(c)) /\ Checked

LEMMA InitInv == Init => Inv
<1> SUFFICES ASSUME Init PROVE Inv
  OBVIOUS
<1>1. Lives /\ Checked
  BY DEF Init, Lives, Checked, Nowhere
<1>2. Routes
  BY IdleRoute DEF Init, Routes
<1> QED
  BY <1>1, <1>2, InitTypes, InitKept DEF Inv

LEMMA StepInv == Inv /\ [Next]_vars => Inv'
<1> SUFFICES ASSUME Inv, [Next]_vars PROVE Inv'
  OBVIOUS
<1>0. Types /\ Lives /\ Routes /\ (\A c \in Channels : Kept(c)) /\ Checked
  BY DEF Inv
<1>1. CASE UNCHANGED vars
  <2>1. Types' /\ Lives' /\ Routes' /\ Checked'
    BY <1>0, <1>1 DEF vars, Types, Lives, Routes, Checked
  <2>2. \A c \in Channels : Kept(c)'
    BY <1>0, <1>1, KeptFrame DEF vars
  <2> QED
    BY <2>1, <2>2 DEF Inv
<1>2. CASE Next
  <2>1. Observe
    BY <1>2 DEF Next
  <2>2. Lives'
    BY <1>0, <2>1 DEF Lives, Observe
  <2>3. ASSUME NEW w \in Workers, Begin(w) \/ Continue(w)
        PROVE  Types' /\ Routes' /\ Checked' /\ \A c \in Channels : Kept(c)'
    <3>1. jobs[w].op = "try" => jobs[w].route # <<>>
      BY <1>0 DEF Routes, GoodPhase
    <3>2. Types'
      BY <1>0, <2>3, <3>1, BeginTypes, ContinueTypes
    <3>3. Routes'
      BY <1>0, <2>1, <2>3, BeginRoutes, ContinueRoutes
    <3>4. \A c \in Channels : Kept(c)'
      BY <1>0, <2>3, BeginKept, ContinueKept
    <3>5. check' = check
      <4>1. CASE Begin(w)
        BY <4>1 DEF Begin, AddChannel, UpdateChannel, DeleteChannel, ReadChannel, EditTagChannels, SwitchTag,
           FixAllAbilities, PluckDisabled, SelectChannel
      <4>2. CASE Continue(w)
        BY <4>2 DEF Continue, ReadFresh, ClearAll, SwitchAbilities, DeleteDisabledChannel, DeleteAbilities,
           UpstreamFails, ClearAbilities, AddAbilities, ToggleChannelStatus, TestChannel, RefreshChannelBalance,
           ReadCandidates, WeightedShuffle, TryChannel
      <4> QED
        BY <2>3, <4>1, <4>2
    <3> QED
      BY <1>0, <3>2, <3>3, <3>4, <3>5 DEF Checked
  <2>4. ASSUME Batch \/ Checker \/ \E c \in Channels : DisableChannel(c)
        PROVE  Types' /\ Routes' /\ Checked' /\ \A c \in Channels : Kept(c)'
    <3>1. Types' /\ \A c \in Channels : Kept(c)'
      BY <1>0, <2>4, OtherTypes, OtherKept
    <3>2. jobs' = jobs
      BY <2>4 DEF Batch, Checker, DisableChannel, BatchUpdateChannelStatus, BatchUpdateChannelPriority,
         BatchDeleteChannels, CopyChannel, CheckAllChannels, CheckChannel
    <3>3. Routes'
      BY <1>0, <2>1, <3>2, RoutesSame
    <3>4. Checked'
      <4>1. CASE CheckAllChannels
        BY <4>1 DEF CheckAllChannels, Copies, Banned, Checked
      <4>2. ASSUME NEW c \in Channels, CheckChannel(c) PROVE Checked'
        BY <1>0, <4>2 DEF CheckChannel, Checked, Types, Typed
      <4>3. CASE check' = check
        BY <1>0, <4>3 DEF Checked
      <4> QED
        BY <2>4, <4>1, <4>2, <4>3 DEF Batch, Checker, DisableChannel, BatchUpdateChannelStatus,
           BatchUpdateChannelPriority, BatchDeleteChannels, CopyChannel
    <3> QED
      BY <3>1, <3>3, <3>4
  <2> QED
    BY <1>2, <2>2, <2>3, <2>4 DEF Next, Inv
<1> QED
  BY <1>1, <1>2

\* A sequence without repetitions has as many elements as it is long.
LEMMA DistinctLength ==
  ASSUME NEW s \in Seq(Channels),
         \A i, k \in 1..Len(s) : i < k => s[i] # s[k]
  PROVE  Cardinality({s[i] : i \in DOMAIN s}) = Len(s)
<1> DEFINE T == {s[i] : i \in DOMAIN s}
<1>1. Len(s) \in Nat /\ DOMAIN s = 1..Len(s) /\ s = [i \in 1..Len(s) |-> s[i]]
  OBVIOUS
<1>2. IsFiniteSet(1..Len(s)) /\ Cardinality(1..Len(s)) = Len(s)
  <2>1. PICK n \in Nat : n = Len(s)
    BY <1>1
  <2>2. IsFiniteSet(1..n) /\ Cardinality(1..n) = IF 1 > n THEN 0 ELSE n - 1 + 1
    BY FS_Interval
  <2>3. Cardinality(1..n) = n
    BY <2>2
  <2> QED
    BY <2>1, <2>2, <2>3, Zenon
<1>3. s \in [1..Len(s) -> T]
  BY <1>1
<1>4. \A i, k \in 1..Len(s) : s[i] = s[k] => i = k
  BY <1>1
<1>5. s \in Injection(1..Len(s), T)
  BY <1>1, <1>3, <1>4 DEF Injection, IsInjective
<1>6. s \in Surjection(1..Len(s), T)
  BY <1>1, <1>3 DEF Surjection
<1>7. Cardinality(T) = Cardinality(1..Len(s))
  BY <1>2, <1>5, <1>6, FS_Surjection
<1> QED
  BY <1>2, <1>7

LEMMA InvImplies == Inv => ChannelsInv
<1> SUFFICES ASSUME Inv PROVE ChannelsInv
  OBVIOUS
<1>1. TypeOK
  BY TypesIs DEF Inv, Lives
<1>2. ASSUME NEW w \in Workers
      PROVE  /\ jobs[w].route \in Seq(Channels) /\ DOMAIN jobs[w].route = 1..Len(jobs[w].route)
             /\ GoodPhase(jobs[w], live[w]) /\ GoodOrder(jobs[w], live[w])
  BY DEF Inv, Types, Typed, Jobs, Routes
<1>3. RouteOnce
  <2> SUFFICES ASSUME NEW w \in Workers
               PROVE  /\ Cardinality({jobs[w].route[i] : i \in DOMAIN jobs[w].route}) = Len(jobs[w].route)
                      /\ \A i \in DOMAIN jobs[w].route : jobs[w].route[i] \notin jobs[w].todo
                      /\ jobs[w].op = "try" => jobs[w].route # <<>>
                      /\ jobs[w].op = "order" => jobs[w].todo # {}
                      /\ jobs[w].op \notin WriteOps => jobs[w].fill = {}
    BY DEF RouteOnce
  <2>1. \A i, k \in 1..Len(jobs[w].route) : i < k => jobs[w].route[i] # jobs[w].route[k]
    BY <1>2 DEF GoodOrder
  <2>2. Cardinality({jobs[w].route[i] : i \in DOMAIN jobs[w].route}) = Len(jobs[w].route)
    BY <1>2, <2>1, DistinctLength
  <2>3. \A i \in DOMAIN jobs[w].route : jobs[w].route[i] \notin jobs[w].todo
    BY <1>2 DEF GoodOrder
  <2>4. jobs[w].op \notin WriteOps => jobs[w].op \notin {"rebuild", "fixFill"}
    BY DEF WriteOps
  <2> QED
    BY <1>2, <2>2, <2>3, <2>4 DEF GoodPhase
<1>4. RouteInOrder
  <2> SUFFICES ASSUME NEW w \in Workers, NEW i \in DOMAIN jobs[w].route
               PROVE  /\ \A k \in DOMAIN jobs[w].route : i < k =>
                           Before(jobs[w].rows, jobs[w].route[i], jobs[w].route[k])
                      /\ \A d \in jobs[w].todo : Before(jobs[w].rows, jobs[w].route[i], d)
    BY DEF RouteInOrder, Before
  <2> QED
    BY <1>2 DEF GoodOrder
<1>5. RoutedWasActive
  <2> SUFFICES ASSUME NEW w \in Workers, NEW i \in DOMAIN jobs[w].route
               PROVE  jobs[w].route[i] \in live[w]
    BY DEF RoutedWasActive
  <2> QED
    BY <1>2 DEF GoodOrder
<1>6. AbilitiesInStep
  <2> SUFFICES ASSUME NEW c \in Channels \ doubt, \A w \in Workers : ~Involves(w, c) PROVE InStep(c)
    BY DEF AbilitiesInStep
  <2>1. \A w \in Workers : ~Writes(w, c)
    BY DEF Writes, Involves, Keepers
  <2> QED
    BY <2>1 DEF Inv, Kept
<1> QED
  BY <1>1, <1>3, <1>4, <1>5, <1>6 DEF ChannelsInv

\* Routes are in order, without repetition or channels that were never active, and the
\* table of abilities is in step with every channel that nobody is writing and no other
\* writer has disturbed: for every number of channels and of overlapping handlers.
THEOREM ChannelsInvariant == Spec => []ChannelsInv
BY InitInv, StepInv, InvImplies, PTL DEF Spec

\* What the steps do to a disabled channel: the hourly check sets one active only if it was
\* banned when it was read, and a test only if its copy is not of a disabled channel.
LEMMA Reenabling ==
  ASSUME Inv, Next, NEW c \in Channels, chan[c].status = "disabled", chan'[c].status = "active"
  PROVE  /\ check' # check => check[c].status = "auto"
         /\ \A w \in Workers : jobs[w].op = "test" /\ jobs'[w] # jobs[w] => jobs[w].rows[c].status # "disabled"
<1>0. chan \in [Channels -> Row] /\ check \in [Channels -> Row] /\ jobs \in [Workers -> Jobs] /\ chan' # chan
  BY DEF Inv, Types, Typed
<1>1. ASSUME check' # check PROVE check[c].status = "auto"
  <2>1. PICK d \in Channels : CheckChannel(d)
    <3>1. ASSUME NEW v \in Workers PROVE ~Begin(v)
      BY <1>1, <3>1 DEF Begin, AddChannel, UpdateChannel, DeleteChannel, ReadChannel, EditTagChannels,
         SwitchTag, FixAllAbilities, PluckDisabled, SelectChannel
    <3>2. ASSUME NEW v \in Workers PROVE ~Continue(v)
      BY <1>1, <3>2 DEF Continue, ReadFresh, ClearAll, SwitchAbilities, DeleteDisabledChannel, DeleteAbilities,
         UpstreamFails, ClearAbilities, AddAbilities, ToggleChannelStatus, TestChannel, RefreshChannelBalance,
         ReadCandidates, WeightedShuffle, TryChannel
    <3>3. ~Batch
      BY <1>1 DEF Batch, BatchUpdateChannelStatus, BatchUpdateChannelPriority, BatchDeleteChannels, CopyChannel
    <3> QED
      BY <1>0, <1>1, <3>1, <3>2, <3>3 DEF Next, Checker, DisableChannel, CheckAllChannels
  <2>2. c = d
    BY <2>1, StatusIs DEF CheckChannel
  <2> QED
    BY <2>1, <2>2 DEF CheckChannel, Inv, Checked
<1>2. ASSUME NEW w \in Workers, jobs[w].op = "test", jobs'[w] # jobs[w] PROVE jobs[w].rows[c].status # "disabled"
  <2>1. CASE \E v \in Workers : Begin(v)
    <3>1. PICK v \in Workers : jobs[v] = Idle /\ (jobs' = jobs \/ \E j : Become(v, j))
      <4>1. PICK v \in Workers : Begin(v)
        BY <2>1
      <4>2. (\E j : Start(v, j)) \/ (jobs[v] = Idle /\ jobs' = jobs)
        <5>1. ASSUME NEW d, NEW r, AddChannel(v, d, r) PROVE \E j : Start(v, j)
          BY <5>1 DEF AddChannel
        <5>2. ASSUME NEW d, NEW s, NEW p, UpdateChannel(v, d, s, p) PROVE \E j : Start(v, j)
          BY <5>2 DEF UpdateChannel
        <5>3. ASSUME NEW d, NEW op, DeleteChannel(v, d) \/ ReadChannel(v, d, op) PROVE \E j : Start(v, j)
          BY <5>3 DEF DeleteChannel, ReadChannel
        <5>4. ASSUME NEW S, NEW p, NEW renamed, EditTagChannels(v, S, p, renamed)
              PROVE  (\E j : Start(v, j)) \/ (jobs[v] = Idle /\ jobs' = jobs)
          BY <5>4 DEF EditTagChannels
        <5>5. ASSUME NEW S, NEW op, SwitchTag(v, S, op) PROVE \E j : Start(v, j)
          BY <5>5 DEF SwitchTag
        <5>6. ASSUME FixAllAbilities(v) \/ PluckDisabled(v) \/ SelectChannel(v) PROVE \E j : Start(v, j)
          BY <5>6 DEF FixAllAbilities, PluckDisabled, SelectChannel
        <5> QED
          BY <4>1, <5>1, <5>2, <5>3, <5>4, <5>5, <5>6, Zenon DEF Begin
      <4> QED
        BY <4>2 DEF Start
    <3>2. v = w
      BY <1>0, <1>2, <3>1 DEF Become
    <3> QED
      BY <1>2, <3>1, <3>2 DEF Idle
  <2>2. ASSUME NEW v \in Workers, Continue(v) PROVE jobs[w].rows[c].status # "disabled"
    <3>1. \E j : Become(v, j)
      BY <2>2 DEF Continue, ReadFresh, ClearAll, SwitchAbilities,
         DeleteDisabledChannel, DeleteAbilities, UpstreamFails, ClearAbilities, AddAbilities, ToggleChannelStatus,
         TestChannel, RefreshChannelBalance, ReadCandidates, WeightedShuffle, TryChannel, Done, Onward
    <3>2. v = w
      BY <1>0, <1>2, <3>1 DEF Become
    <3>3. PICK d \in Channels : TestChannel(w, d)
      BY <1>0, <1>2, <2>2, <3>2 DEF Continue, ReadFresh, ClearAll, SwitchAbilities,
         DeleteDisabledChannel, DeleteAbilities, UpstreamFails, ClearAbilities, AddAbilities, ToggleChannelStatus,
         RefreshChannelBalance, ReadCandidates, WeightedShuffle, TryChannel
    <3>4. chan'[c] = jobs[w].rows[c]
      BY <1>0, <3>3 DEF TestChannel
    <3> QED
      BY <3>4
  <2>3. CASE Batch \/ Checker \/ \E d \in Channels : DisableChannel(d)
    BY <1>2, <2>3 DEF Batch, Checker, DisableChannel, BatchUpdateChannelStatus, BatchUpdateChannelPriority,
       BatchDeleteChannels, CopyChannel, CheckAllChannels, CheckChannel
  <2> QED
    BY <2>1, <2>2, <2>3 DEF Next
<1> QED
  BY <1>1, <1>2

\* The hourly check and the channel test set a disabled channel active only from a copy
\* that was read before it was disabled.
THEOREM ReenabledFromOldCopy == Spec => ReenabledOnlyFromOldCopy
<1> DEFINE A == \A c \in Channels :
       chan[c].status = "disabled" /\ chan'[c].status = "active" =>
         /\ check' # check => check[c].status = "auto"
         /\ \A w \in Workers : jobs[w].op = "test" /\ jobs'[w] # jobs[w]
              => jobs[w].rows[c].status # "disabled"
<1>1. Inv /\ [Next]_vars => [A]_vars
  BY Reenabling
<1> QED
  BY <1>1, InitInv, StepInv, PTL DEF Spec, ReenabledOnlyFromOldCopy
=============================================================================
