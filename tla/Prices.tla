------------------------------- MODULE Prices -------------------------------
(***************************************************************************)
(* The prices calls are billed with.  They live in maps in memory          *)
(* (common/pricing.go) that are filled from rows of the table options,     *)
(* which in turn are generated from the table of model configurations      *)
(* (controller/model_config.go); the ratios of groups come from the table  *)
(* of groups (model/group.go) straight into memory.  Each change writes a  *)
(* table and then carries it on, option by option, without a lock around   *)
(* the whole.  The content of a table, an option or a map is the number of *)
(* the change it comes from.                                               *)
(***************************************************************************)
EXTENDS Integers, Sequences, FiniteSets

CONSTANTS
  Workers,
  Dims,        \* the options generated from the configurations, in their order
  MaxStarts, None

VARIABLES
  budget,
  configs,     \* the table of model configurations
  groups,      \* the table of groups
  optionRows,  \* the table of options
  optionMap,   \* OptionMap
  prices,      \* the maps of pricing.go
  edits,       \* what administrators and calls are doing
  priceHist
vars == <<budget, configs, groups, optionRows, optionMap, prices, edits, priceHist>>

Unset == -1      \* no row, no key, or an empty text
Default == -2    \* the tables built into the program
Broken == -3     \* a text that is no JSON
Empty == -4      \* a map that was never filled

Group == "group_ratio"
DimKeys == {Dims[i] : i \in DOMAIN Dims}
Keys == DimKeys \cup {Group}

Idle == [op |-> "idle", pc |-> "idle"]
Job(op, pc) == [op |-> op, pc |-> pc, i |-> 1, key |-> None, copy |-> Unset, alone |-> TRUE, clean |-> TRUE]
At(w, pc) == edits[w].pc = pc
Stamp == MaxStarts - budget + 1

\* Seeded bug: as it once was (config.go:210), the options a change does not name are passed as empty texts.
BugUpdatePricing(map, old) ==
  [k \in Keys |-> IF k # "model_ratio" THEN Default ELSE IF map[k] = Unset THEN Default ELSE IF map[k] = Broken THEN old[k] ELSE map[k]]
\* An empty text brings the built-in table back, a broken one changes nothing.
UpdatePricing(map, old) ==
  [k \in Keys |-> IF map[k] = Unset THEN Default ELSE IF map[k] = Broken THEN old[k] ELSE map[k]]

\* InitOptions: all options are loaded, then the ratios of groups from their own table.
InitOptions(rs, gs, old) == [UpdatePricing(rs, [k \in Keys |-> old]) EXCEPT ![Group] = gs]

\* A program that has run before, or one whose tables were just made: the built-in prices are
\* saved, and MigrateGroupConfigFromOptions has taken the groups' ratios over.
Init ==
  /\ budget = MaxStarts
  /\ \E v \in {0, Default} :
       /\ configs = v /\ groups = v
       /\ optionRows = [k \in Keys |-> v]
       /\ optionMap = IF v = Default THEN [k \in Keys |-> Unset] ELSE optionRows
       /\ prices = InitOptions(optionRows, v, Empty)
  /\ edits = [w \in Workers |-> Idle]
  /\ priceHist = [memOff |-> FALSE, tabOff |-> FALSE, grpRaced |-> FALSE, grpReset |-> FALSE, byHand |-> FALSE, torn |-> FALSE]

---------------------------------------------------------------------------
\* Who changes prices at the same time as whom.
Busy(v, ops) == edits[v].op \in ops
Writers == {"sync", "option"}
Rivals(op) == IF op = "group" THEN {"group"} ELSE Writers
Begin(w, job) ==
  /\ edits[w] = Idle /\ budget > 0
  /\ budget' = budget - 1
  /\ edits' = [v \in Workers |-> IF v = w THEN [job EXCEPT !.alone = \A u \in Workers \ {w} : ~Busy(u, Rivals(job.op))]
                                 ELSE IF edits[v] # Idle /\ job.op \in Rivals(edits[v].op)
                                   THEN [edits[v] EXCEPT !.alone = FALSE] ELSE edits[v]]
Finish(w) == edits' = [edits EXCEPT ![w] = Idle]

---------------------------------------------------------------------------
\* The model configurations.

\* AddModelConfig, UpdateModelConfig, DeleteModelConfig, BatchUpdateModelRatio and
\* BatchApplyModelPricing write the table and then generate all options anew.
EditConfig(w) ==
  /\ configs' = Stamp
  /\ Begin(w, Job("sync", "read"))
  /\ priceHist' = [priceHist EXCEPT !.tabOff = TRUE]
  /\ UNCHANGED <<groups, optionRows, optionMap, prices>>
SyncPricingFromModelConfig(w) ==
  /\ Begin(w, Job("sync", "read"))
  /\ UNCHANGED <<configs, groups, optionRows, optionMap, prices, priceHist>>

\* syncAllPricingFromModelConfig reads the table, once; a failure to read it is logged.
ReadConfigs(w) ==
  /\ At(w, "read") /\ Busy(w, {"sync"})
  /\ \/ edits' = [edits EXCEPT ![w].pc = "row", ![w].copy = configs]
     \/ Finish(w)
  /\ UNCHANGED <<budget, configs, groups, optionRows, optionMap, prices, priceHist>>

Key(w) == IF edits[w].op = "sync" THEN Dims[edits[w].i] ELSE edits[w].key
\* FirstOrCreate with Assign, whose error nobody looks at.
FirstOrCreate(w) ==
  /\ At(w, "row") /\ Busy(w, {"sync"})
  /\ \/ /\ optionRows' = [optionRows EXCEPT ![Key(w)] = edits[w].copy]
        /\ edits' = [edits EXCEPT ![w].pc = "map"]
        /\ priceHist' = [priceHist EXCEPT !.tabOff = TRUE, !.memOff = @ \/ ~edits[w].alone]
     \/ /\ edits' = [edits EXCEPT ![w].pc = "map", ![w].clean = FALSE]
        /\ priceHist' = [priceHist EXCEPT !.memOff = TRUE, !.tabOff = TRUE]
        /\ UNCHANGED optionRows
  /\ UNCHANGED <<budget, configs, groups, optionMap, prices>>

\* UpdateOptionMap stores the text and, for any of these keys, refreshes all the maps.  The last
\* option of a pass that had no company settles what overlapping passes left behind.
UpdateOptionMap(w) ==
  LET job == edits[w]
      map == [optionMap EXCEPT ![Key(w)] = job.copy]
      last == job.op = "option" \/ job.i = Len(Dims)
      settled == job.op = "sync" /\ last /\ job.alone /\ job.clean
  IN  /\ At(w, "map")
      /\ optionMap' = map
      /\ prices' = UpdatePricing(map, prices)
      /\ edits' = [edits EXCEPT ![w] = IF last THEN Idle ELSE [job EXCEPT !.pc = "row", !.i = @ + 1]]
      /\ priceHist' = [priceHist EXCEPT !.memOff = IF settled THEN FALSE ELSE @ \/ ~job.alone,
                                        !.tabOff = ~settled, !.grpReset = TRUE]
      /\ UNCHANGED <<budget, configs, groups, optionRows>>

---------------------------------------------------------------------------
\* The page of settings: an option is saved and then taken over; a failure ends the request.
UpdateOption(w) ==
  /\ \E k \in Keys, v \in {Stamp, Unset, Broken} : Begin(w, [Job("option", "save") EXCEPT !.key = k, !.copy = v])
  /\ UNCHANGED <<configs, groups, optionRows, optionMap, prices, priceHist>>
SaveOption(w) ==
  /\ At(w, "save")
  /\ \/ /\ optionRows' = [optionRows EXCEPT ![Key(w)] = edits[w].copy]
        /\ edits' = [edits EXCEPT ![w].pc = "map"]
        /\ priceHist' = [priceHist EXCEPT !.tabOff = TRUE, !.memOff = @ \/ ~edits[w].alone, !.byHand = @ \/ Key(w) = Group]
     \/ /\ Finish(w)
        /\ UNCHANGED <<optionRows, priceHist>>
  /\ UNCHANGED <<budget, configs, groups, optionMap, prices>>

---------------------------------------------------------------------------
\* AddGroup, UpdateGroup and DeleteGroup write the table of groups; SyncGroupRatioToMemory reads
\* it, once, and replaces the map in memory only.
EditGroup(w) ==
  /\ groups' = Stamp
  /\ Begin(w, Job("group", "read"))
  /\ UNCHANGED <<configs, optionRows, optionMap, prices, priceHist>>
SyncGroupRatioToMemory(w) ==
  /\ At(w, "read") /\ Busy(w, {"group"})
  /\ \/ /\ edits' = [edits EXCEPT ![w].pc = "swap", ![w].copy = groups]
        /\ UNCHANGED priceHist
     \/ /\ Finish(w)
        /\ priceHist' = [priceHist EXCEPT !.grpRaced = TRUE]
  /\ UNCHANGED <<budget, configs, groups, optionRows, optionMap, prices>>
UpdateGroupRatio(w) ==
  /\ At(w, "swap")
  /\ prices' = [prices EXCEPT ![Group] = edits[w].copy]
  /\ priceHist' = [priceHist EXCEPT !.grpRaced = ~edits[w].alone, !.grpReset = @ /\ ~edits[w].alone]
  /\ Finish(w)
  /\ UNCHANGED <<budget, configs, groups, optionRows, optionMap>>

---------------------------------------------------------------------------
\* A bill: GetModelRatio, and GetModelPrice or GetCompletionRatio, each under the lock for itself.
Quote(w) ==
  /\ Begin(w, [Job("quote", "price") EXCEPT !.copy = prices[Dims[1]]])
  /\ UNCHANGED <<configs, groups, optionRows, optionMap, prices, priceHist>>
GetModelPrice(w) ==
  /\ At(w, "price")
  /\ priceHist' = [priceHist EXCEPT !.torn = edits[w].alone /\ ~priceHist.tabOff /\ ~priceHist.memOff
                                             /\ edits[w].copy # prices[Dims[Len(Dims)]]]
  /\ Finish(w)
  /\ UNCHANGED <<budget, configs, groups, optionRows, optionMap, prices>>

\* The program is started again.
Restart ==
  /\ budget > 0
  /\ budget' = budget - 1
  /\ edits' = [w \in Workers |-> Idle]
  /\ optionMap' = optionRows
  /\ \E old \in {Default, Empty} : prices' = InitOptions(optionRows, groups, old)
  /\ priceHist' = [priceHist EXCEPT !.memOff = FALSE, !.grpRaced = FALSE, !.grpReset = FALSE, !.torn = FALSE]
  /\ UNCHANGED <<configs, groups, optionRows>>

Next ==
  \/ \E w \in Workers :
       \/ EditConfig(w) \/ SyncPricingFromModelConfig(w) \/ ReadConfigs(w) \/ FirstOrCreate(w) \/ UpdateOptionMap(w)
       \/ UpdateOption(w) \/ SaveOption(w)
       \/ EditGroup(w) \/ SyncGroupRatioToMemory(w) \/ UpdateGroupRatio(w)
       \/ Quote(w) \/ GetModelPrice(w)
  \/ Restart
Spec == Init /\ [][Next]_vars

---------------------------------------------------------------------------
TypeOK ==
  /\ budget \in 0..MaxStarts
  /\ DOMAIN optionRows = Keys /\ DOMAIN optionMap = Keys /\ DOMAIN prices = Keys

AtRest == \A w \in Workers : edits[w].op \in {"idle", "quote"}

\* With no change on its way: unless changes overlapped or a statement failed, a restart would
\* change no price; unless the settings were edited by hand, or a pass was cut short or
\* overlapped, every option comes from the table of configurations as it is now, and a later
\* pass that runs alone settles what overlapping ones left; the ratios of groups are the
\* table's unless an option was taken over since; and a bill drawn up then takes all its
\* prices from one change (syncAllPricingFromModelConfig, UpdateOptionMap).
PricesInv ==
  /\ TypeOK
  /\ AtRest =>
       /\ ~priceHist.memOff => \A k \in DimKeys : optionRows[k] # Broken => prices[k] = UpdatePricing(optionRows, prices)[k]
       /\ ~priceHist.tabOff => \A k \in DimKeys : optionRows[k] = configs
       /\ ~priceHist.grpRaced /\ ~priceHist.grpReset => prices[Group] = groups
  /\ ~priceHist.torn

\* The table of groups is the authority for their ratios, and syncing memory after each change of
\* it keeps the bills right (model/group.go:173-174, "Group 表是倍率权威 ... 保证账算得对"), where nobody
\* has set the old option of groups by hand.
GroupRatioFromTable == AtRest /\ ~priceHist.grpRaced /\ ~priceHist.byHand => prices[Group] = groups
=============================================================================
