----------------------------- MODULE Catalogue -----------------------------
(***************************************************************************)
(* The catalogue of models and of their vendors, and the syncs that fill   *)
(* it: from the model lists of channels' providers                         *)
(* (controller/channel_model_sync.go), from a public repository of model   *)
(* descriptions (controller/model_meta_official_sync.go), and after a      *)
(* channel was saved (controller/channel.go).  Each of them first looks    *)
(* which names are missing and then inserts row by row, and nothing in the *)
(* table keeps a name from being there twice.  Administrators edit the     *)
(* same rows meanwhile.  One vendor stands for all; a row's description    *)
(* stands for all the fields that are filled in where they are empty.      *)
(* sync_official, which the column's default keeps set, and the overwrite  *)
(* of a row's vendor are left out.                                         *)
(***************************************************************************)
EXTENDS Integers, Sequences, FiniteSets

CONSTANTS
  Workers,
  Names,       \* names of models
  MaxStarts, None

VARIABLES
  budget,
  metas,       \* the table of models: a sequence over ids, None where a row was deleted
  vendorRows,  \* the table of vendors, by id, with their codes
  chan,        \* one active channel: its list of models and its abilities
  priced,      \* names with a row of prices
  official,    \* what the public repository holds now
  offCache,    \* officialEtagCache and officialBodyCache
  desk,        \* the requests at work
  catHist
vars == <<budget, metas, vendorRows, chan, priced, official, offCache, desk, catHist>>
tables == <<metas, vendorRows, chan, priced>>
repo == <<official, offCache>>

Idle == [op |-> "idle", pc |-> "idle", todo |-> {}]
Job(op, pc) == [op |-> op, pc |-> pc, todo |-> {}, blind |-> FALSE, vend |-> None, reply |-> None, text |-> "",
                locals |-> <<>>, over |-> FALSE, copy |-> None, back |-> None]
At(w, pc) == desk[w].pc = pc
Set(w, job) == desk' = [desk EXCEPT ![w] = job]
Begin(w, job) == desk[w] = Idle /\ budget > 0 /\ budget' = budget - 1 /\ Set(w, job)

Ids == {i \in DOMAIN metas : metas[i] # None}
Listed == {metas[i].name : i \in Ids}
Row(name, desc, vendor) == [name |-> name, desc |-> desc, vendor |-> vendor]

\* A channel is there, saved before; the rows of prices of its models were deleted since.
Init ==
  /\ budget = MaxStarts
  /\ metas = <<>> /\ vendorRows = <<>>
  /\ chan = [models |-> Names, abilities |-> Names]
  /\ priced = {}
  /\ official = "v1"
  /\ offCache = [etag |-> None, body |-> None]
  /\ desk = [w \in Workers |-> Idle]
  /\ catHist = [raced |-> FALSE, vraced |-> FALSE, untagged |-> FALSE, vendorGone |-> FALSE, lostOwn |-> FALSE, behind |-> TRUE, unpriced |-> TRUE]

\* A row is inserted; noted is whether another request still means to insert the same name, or
\* the one at work never learnt what there is.
Insert(w, row) ==
  /\ metas' = Append(metas, row)
  /\ catHist' = [catHist EXCEPT !.raced = @ \/ desk[w].blind \/ \E v \in Workers \ {w} : row.name \in desk[v].todo]

---------------------------------------------------------------------------
\* From the providers.

\* Names of a list that have no row; a query that fails counts as "none has".
queryExistingModelMetaNames(blind) == IF blind THEN {} ELSE Listed

missingOf(names, blind) == names \ queryExistingModelMetaNames(blind)

\* Whatever the provider lists.
fetchUpstreamModelList == SUBSET Names

\* SyncUpstreamModels: the lists of the channels that answer, together, less the names there are.
SyncUpstreamModels(w) ==
  /\ \E up \in fetchUpstreamModelList, blind \in BOOLEAN :
       /\ missingOf(up, blind) # {}
       /\ Begin(w, [Job("upstream", "insert") EXCEPT !.todo = missingOf(up, blind), !.blind = blind])
  /\ UNCHANGED <<tables, repo, catHist>>
InsertUpstream(w) ==
  /\ At(w, "insert")
  /\ \E n \in desk[w].todo :
       /\ \/ Insert(w, Row(n, "", 0))
          \/ UNCHANGED <<metas, catHist>>
       /\ Set(w, IF desk[w].todo = {n} THEN Idle ELSE [desk[w] EXCEPT !.todo = @ \ {n}])
  /\ UNCHANGED <<budget, vendorRows, chan, priced, repo>>

\* applyUpstreamUpdatesByIDs: the channel is read, its provider asked, and the column of models
\* written if the list differs from the one that was read.  Abilities stay as they are.
applyUpstreamUpdatesByIDs(w) ==
  /\ Begin(w, [Job("apply", "apply") EXCEPT !.copy = chan.models])
  /\ UNCHANGED <<tables, repo, catHist>>
ApplyUpdate(w) ==
  /\ At(w, "apply")
  /\ \E up \in fetchUpstreamModelList :
       IF up = desk[w].copy THEN UNCHANGED <<chan, catHist>>
       ELSE /\ chan' = [chan EXCEPT !.models = up]
            /\ catHist' = [catHist EXCEPT !.behind = TRUE, !.unpriced = TRUE]
  /\ Set(w, Idle)
  /\ UNCHANGED <<budget, metas, vendorRows, priced, repo>>

\* UpdateChannel: the row; its abilities, from a second look at it; its names' prices; then, in
\* a goroutine, syncModelMetaFromChannelModels.  AddChannel does the same for a new row.
UpdateChannel(w) ==
  /\ \E S \in SUBSET Names \ {{}} :
       /\ chan' = [chan EXCEPT !.models = S]
       /\ Begin(w, [Job("channel", "fresh") EXCEPT !.copy = S])
  /\ UNCHANGED <<metas, vendorRows, priced, repo, catHist>>
\* If the row cannot be read the abilities stay as they are and the goroutine has no names.
ReadFresh(w) ==
  /\ At(w, "fresh")
  /\ \/ /\ Set(w, [desk[w] EXCEPT !.pc = "abilities", !.reply = chan.models])
        /\ UNCHANGED <<priced, catHist>>
     \/ /\ Set(w, Idle)
        /\ priced' \in {priced, priced \cup desk[w].copy}
        /\ catHist' = [catHist EXCEPT !.behind = TRUE, !.unpriced = TRUE]
  /\ UNCHANGED <<budget, metas, vendorRows, chan, repo>>
UpdateAbilities(w) ==
  LET fresh == desk[w].reply IN
  /\ At(w, "abilities")
  /\ \/ /\ chan' = [chan EXCEPT !.abilities = fresh]
        /\ priced' = priced \cup desk[w].copy
        /\ catHist' = [catHist EXCEPT !.behind = fresh # chan.models, !.unpriced = @ /\ desk[w].copy # chan.models]
        /\ Set(w, [desk[w] EXCEPT !.pc = "existing", !.copy = fresh, !.reply = None])
     \/ /\ \E done \in BOOLEAN : chan' = IF done THEN [chan EXCEPT !.abilities = fresh] ELSE chan
        /\ catHist' = [catHist EXCEPT !.behind = TRUE, !.unpriced = TRUE]
        /\ Set(w, Idle)
        /\ UNCHANGED priced
  /\ UNCHANGED <<budget, metas, vendorRows, repo>>
ReadExisting(w) ==
  /\ At(w, "existing")
  /\ LET missing == missingOf(desk[w].copy, FALSE) IN
       Set(w, IF missing = {} THEN Idle ELSE [desk[w] EXCEPT !.pc = "ask", !.todo = missing, !.copy = None, !.back = "batch"])
  /\ UNCHANGED <<budget, tables, repo, catHist>>
\* All the missing rows in one statement, the vendor looked up before if the repository was reached.
syncModelMetaFromChannelModels(w) ==
  /\ At(w, "batch")
  /\ IF desk[w].text # "" /\ desk[w].vend = None
       THEN /\ Set(w, [desk[w] EXCEPT !.pc = "vendor"])
            /\ UNCHANGED <<metas, catHist>>
       ELSE /\ \/ \E order \in [1..Cardinality(desk[w].todo) -> desk[w].todo] :
                    /\ \A i, j \in DOMAIN order : i # j => order[i] # order[j]
                    /\ metas' = metas \o [i \in DOMAIN order |-> Row(order[i], desk[w].text, IF desk[w].vend = None THEN 0 ELSE desk[w].vend)]
                    /\ catHist' = [catHist EXCEPT !.raced = @ \/ \E v \in Workers \ {w} : desk[v].todo \cap desk[w].todo # {}]
               \/ UNCHANGED <<metas, catHist>>
            /\ Set(w, Idle)
  /\ UNCHANGED <<budget, vendorRows, chan, priced, repo>>

---------------------------------------------------------------------------
\* From the public repository.

SyncOfficialModels(w) ==
  /\ \E over \in BOOLEAN : Begin(w, [Job("official", "ask") EXCEPT !.over = over, !.back = "missing"])
  /\ UNCHANGED <<tables, repo, catHist>>

\* The request goes out with the ETag of the cache; the answer may take its time.
fetchOfficialJSON(w) ==
  /\ At(w, "ask")
  /\ \/ \E tagged \in BOOLEAN :
          Set(w, [desk[w] EXCEPT !.pc = "answer",
                    !.reply = [code |-> IF offCache.etag = official THEN 304 ELSE 200, v |-> official, tagged |-> tagged]])
     \/ Set(w, IF desk[w].op = "channel" THEN [desk[w] EXCEPT !.pc = "batch"] ELSE Idle)
  /\ UNCHANGED <<budget, tables, repo, catHist>>
\* A 200 fills the cache; its body always, its ETag if it has one.  A 304 is answered from it.
StoreOfficial(w) ==
  LET r == desk[w].reply
      cache == IF r.code = 304 THEN offCache
               ELSE [etag |-> IF r.tagged THEN r.v ELSE offCache.etag, body |-> r.v]
  IN  /\ At(w, "answer")
      /\ offCache' = cache
      /\ Set(w, IF cache.body = None THEN Idle ELSE [desk[w] EXCEPT !.pc = desk[w].back, !.text = cache.body, !.reply = None])
      /\ catHist' = [catHist EXCEPT !.untagged = @ \/ (r.code = 200 /\ ~r.tagged)]
      /\ UNCHANGED <<budget, tables, official>>

\* officialMissingModelNames: names of active channels without a row.
officialMissingModelNames(w) ==
  /\ At(w, "missing")
  /\ \E blind \in BOOLEAN :
       Set(w, [desk[w] EXCEPT !.pc = "create", !.todo = missingOf(chan.models, blind), !.blind = blind, !.back = "create"])
  /\ UNCHANGED <<budget, tables, repo, catHist>>
CreateMissing(w) ==
  LET job == desk[w] IN
  /\ At(w, "create")
  /\ IF job.todo = {} THEN Set(w, [job EXCEPT !.pc = "locals", !.blind = FALSE]) /\ UNCHANGED <<metas, catHist>>
     ELSE IF job.vend = None THEN Set(w, [job EXCEPT !.pc = "vendor"]) /\ UNCHANGED <<metas, catHist>>
     ELSE \E n \in job.todo :
            /\ \/ Insert(w, Row(n, job.text, job.vend))
               \/ UNCHANGED <<metas, catHist>>
            /\ Set(w, [job EXCEPT !.todo = @ \ {n}])
  /\ UNCHANGED <<budget, vendorRows, chan, priced, repo>>

\* ensureOfficialVendor looks for the vendor by its name and inserts it under the code made from
\* the name; an insert that fails is remembered as "no vendor" for the rest of the request.
VendorIds == {i \in DOMAIN vendorRows : vendorRows[i] # None}
ensureOfficialVendor(w) ==
  /\ At(w, "vendor")
  /\ Set(w, IF VendorIds = {} THEN [desk[w] EXCEPT !.pc = "vendorInsert"]
            ELSE [desk[w] EXCEPT !.pc = desk[w].back, !.vend = CHOOSE i \in VendorIds : \A j \in VendorIds : i <= j])
  /\ UNCHANGED <<budget, tables, repo, catHist>>
AddVendor(w, code) ==
  /\ vendorRows' = Append(vendorRows, code)
  /\ catHist' = [catHist EXCEPT !.vraced = @ \/ \E v \in Workers \ {w} : desk[v].pc \in {"vendorInsert", "vendorCreate"}]
InsertVendor(w) ==
  /\ At(w, "vendorInsert")
  /\ \/ /\ \A i \in VendorIds : vendorRows[i] # "made"
        /\ AddVendor(w, "made")
        /\ Set(w, [desk[w] EXCEPT !.pc = desk[w].back, !.vend = Len(vendorRows) + 1])
     \/ /\ Set(w, [desk[w] EXCEPT !.pc = desk[w].back, !.vend = 0])
        /\ UNCHANGED <<vendorRows, catHist>>
  /\ UNCHANGED <<budget, metas, chan, priced, repo>>

\* The rows there are now are read once (or none, if that fails) and their empty fields filled in, row by row.
ReadLocals(w) ==
  /\ At(w, "locals")
  /\ \E S \in {Ids, {}} : Set(w, [desk[w] EXCEPT !.pc = "enrich", !.locals = [i \in S |-> metas[i]], !.back = "enrich"])
  /\ UNCHANGED <<budget, tables, repo, catHist>>

Filled(copy, row, text, vend) ==
  [row EXCEPT !.desc = IF copy.desc = "" THEN text ELSE @, !.vendor = IF copy.vendor = 0 /\ vend > 0 THEN vend ELSE @]
Enrich(w) ==
  LET job == desk[w] IN
  /\ At(w, "enrich")
  /\ IF DOMAIN job.locals = {} THEN Set(w, [job EXCEPT !.pc = "overwrite"]) /\ UNCHANGED <<metas, catHist>>
     ELSE \E i \in DOMAIN job.locals :
            IF job.locals[i].vendor = 0 /\ job.vend = None THEN Set(w, [job EXCEPT !.pc = "vendor"]) /\ UNCHANGED <<metas, catHist>>
            ELSE LET vend == IF job.vend = None THEN 0 ELSE job.vend IN
                 \E new \in {metas[i], IF metas[i] = None THEN None ELSE Filled(job.locals[i], metas[i], job.text, vend)} :
                     /\ metas' = [metas EXCEPT ![i] = new]
                     /\ catHist' = [catHist EXCEPT !.lostOwn = @ \/ (new # metas[i] /\ metas[i].desc = "own" /\ job.locals[i].desc # "" /\ new.desc # "own")]
                     /\ Set(w, [job EXCEPT !.locals = [j \in DOMAIN @ \ {i} |-> @[j]]])
  /\ UNCHANGED <<budget, vendorRows, chan, priced, repo>>
\* What the administrator approved in the preview is overwritten, in the first row of the name.
Overwrite(w) ==
  /\ At(w, "overwrite")
  /\ \/ /\ desk[w].over /\ Ids # {}
        /\ \E n \in Listed :
             LET i == CHOOSE i \in Ids : metas[i].name = n /\ \A j \in Ids : metas[j].name = n => i <= j
             IN  metas' = [metas EXCEPT ![i].desc = desk[w].text]
     \/ UNCHANGED metas
  /\ Set(w, Idle)
  /\ UNCHANGED <<budget, vendorRows, chan, priced, repo, catHist>>

\* The repository publishes something else, or takes it back.
Publish ==
  /\ budget > 0 /\ budget' = budget - 1
  /\ official' = IF official = "v1" THEN "v2" ELSE "v1"
  /\ UNCHANGED <<tables, offCache, desk, catHist>>

---------------------------------------------------------------------------
\* The administrator's pages.

\* CreateModelMeta: the name is looked up, the row inserted, a row of prices added.
CreateModelMeta(w) ==
  /\ \E n \in Names \ Listed : Begin(w, [Job("create", "createRow") EXCEPT !.todo = {n}])
  /\ UNCHANGED <<tables, repo, catHist>>
CreateRow(w) ==
  /\ At(w, "createRow")
  /\ \E n \in desk[w].todo :
       \/ /\ Insert(w, Row(n, "own", 0))
          /\ priced' \in {priced, priced \cup {n}}
       \/ UNCHANGED <<metas, priced, catHist>>
  /\ Set(w, Idle)
  /\ UNCHANGED <<budget, vendorRows, chan, repo>>
\* UpdateModelMeta writes the fields that are not empty.
UpdateModelMeta ==
  /\ budget > 0 /\ budget' = budget - 1
  /\ \E i \in Ids : metas' = [metas EXCEPT ![i].desc = "own"]
  /\ UNCHANGED <<vendorRows, chan, priced, repo, desk, catHist>>
\* DeleteModelMeta and BatchDeleteModels.
DeleteModelMeta ==
  /\ budget > 0 /\ budget' = budget - 1
  /\ \E i \in Ids : metas' = [metas EXCEPT ![i] = None]
  /\ UNCHANGED <<vendorRows, chan, priced, repo, desk, catHist>>
CreateVendorMeta(w) ==
  /\ VendorIds = {}
  /\ Begin(w, Job("vendor", "vendorCreate"))
  /\ UNCHANGED <<tables, repo, catHist>>
InsertVendorMeta(w) ==
  /\ At(w, "vendorCreate")
  /\ \/ \E code \in {"made", "chosen"} : (\A i \in VendorIds : vendorRows[i] # code) /\ AddVendor(w, code)
     \/ UNCHANGED <<vendorRows, catHist>>
  /\ Set(w, Idle)
  /\ UNCHANGED <<budget, metas, chan, priced, repo>>
\* Deleting a vendor leaves its models alone.
DeleteVendorMeta ==
  /\ budget > 0 /\ budget' = budget - 1
  /\ \E i \in VendorIds : vendorRows' = [vendorRows EXCEPT ![i] = None]
  /\ catHist' = [catHist EXCEPT !.vendorGone = TRUE]
  /\ UNCHANGED <<metas, chan, priced, repo, desk>>

Next ==
  \/ \E w \in Workers :
       \/ SyncUpstreamModels(w) \/ InsertUpstream(w) \/ applyUpstreamUpdatesByIDs(w) \/ ApplyUpdate(w)
       \/ UpdateChannel(w) \/ ReadFresh(w) \/ UpdateAbilities(w) \/ ReadExisting(w) \/ syncModelMetaFromChannelModels(w)
       \/ SyncOfficialModels(w) \/ fetchOfficialJSON(w) \/ StoreOfficial(w) \/ officialMissingModelNames(w) \/ CreateMissing(w)
       \/ ensureOfficialVendor(w) \/ InsertVendor(w) \/ ReadLocals(w) \/ Enrich(w) \/ Overwrite(w)
       \/ CreateModelMeta(w) \/ CreateRow(w) \/ CreateVendorMeta(w) \/ InsertVendorMeta(w)
  \/ Publish \/ UpdateModelMeta \/ DeleteModelMeta \/ DeleteVendorMeta
Spec == Init /\ [][Next]_vars

---------------------------------------------------------------------------
TypeOK ==
  /\ budget \in 0..MaxStarts /\ chan.models \subseteq Names /\ chan.abilities \subseteq Names /\ priced \subseteq Names
  /\ \A i \in Ids : metas[i].name \in Names /\ metas[i].vendor \in 0..Len(vendorRows)

\* A name, or a vendor, is there twice only if two requests that meant to insert it overlapped or
\* one could not read what there is; a sync replaces a text of the administrator's own only
\* where that was approved or the text is younger than its look at the row; a model points to a
\* vendor that is gone only if one was deleted; the cached body is the one its ETag stands for
\* unless the repository once left the ETag out; the channel's abilities are those of its models
\* unless they are about to be rebuilt, that failed or used an older look at the row, or its list
\* was taken over from the provider; and its models have prices unless the list was taken over, or
\* saving it is not over or failed: rebuilding abilities later does not make up for that, since
\* prices follow the list a request sent (channel_model_sync.go, channel.go:525-541).
CatalogueInv ==
  /\ TypeOK
  /\ \A i, j \in Ids : i # j /\ metas[i].name = metas[j].name => catHist.raced
  /\ Cardinality(VendorIds) > 1 => catHist.vraced
  /\ ~catHist.lostOwn
  /\ \A i \in Ids : metas[i].vendor \notin VendorIds \cup {0} => catHist.vendorGone
  /\ offCache.etag # None => offCache.body # None /\ (offCache.body = offCache.etag \/ catHist.untagged)
  /\ \/ chan.abilities = chan.models \/ catHist.behind
     \/ \E w \in Workers : desk[w].pc \in {"fresh", "abilities"}
  /\ \/ chan.models \subseteq priced \/ catHist.unpriced
     \/ \E w \in Workers : desk[w].pc \in {"fresh", "abilities"} /\ desk[w].copy = chan.models
=============================================================================
