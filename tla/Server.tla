------------------------------- MODULE Server -------------------------------
(***************************************************************************)
(* What a server process does besides money and sign-in, one component at  *)
(* a time: a behaviour is a behaviour of one component, chosen at the      *)
(* start, with the variables of the others at rest.  Administration is     *)
(* sanctions, limits, prices, catalogue and scheduler; the gateway is the  *)
(* path of a call to a provider and of its answer back.                    *)
(***************************************************************************)
EXTENDS Integers, Sequences, FiniteSets

CONSTANTS
  Parts,           \* the components of a run
  Workers,         \* requests and goroutines at work at a time
  Clock, Starts,   \* the bounds of each component's clock and requests
  None,            \* nobody and nothing
  SanctionKinds, Strengths, CacheTTL,                  \* sanctions
  LimitChain, LimitOf, Tokens, Objects, Window,        \* limits
  Dimensions,                                          \* prices
  Names,                                               \* catalogue
  Loops, Hours,                                        \* scheduler
  Conversations, Models, MaxEvents,                    \* adapters
  Policies, BufferSize, MaxUnits,                      \* the guard on streams
  CallBodies, Routings,                                    \* forwarding
  Secrets,                                             \* keys of a channel
  Offers, CallGroups, HyKeys, MaxEntries,              \* remembered channels
  Payloads, Threshold, Cooldown, SlidingWindow,
  RiskMemory, MaxFloor, ProbeLen, ProbeDistinct, KeepHashes  \* breakers and risk

\* The goroutine that InitScheduler starts is the first.
ASSUME ServerAssumption ==
  /\ None \notin Workers /\ None \notin Nat
  /\ CacheTTL \in Nat /\ Starts["SA"] \in Nat /\ Clock["SA"] \in Nat
  /\ Loops \subseteq Nat \ {0} /\ 1 \in Loops /\ Starts["SC"] \in Nat
  /\ LimitChain \in Seq(STRING \ {"tpm"}) /\ Len(LimitChain) > 0 /\ Tokens \in Nat \ {0} /\ Window \in Nat \ {0}
  /\ (\A i \in DOMAIN LimitChain : LimitOf[LimitChain[i]] \in Nat) /\ LimitOf["tpm"] \in Nat \ {0}
  /\ Starts["LM"] \in Nat /\ Clock["LM"] \in Nat
  /\ Dimensions \in Seq(STRING \ {"group_ratio"}) /\ Len(Dimensions) > 0 /\ Starts["PR"] \in Nat
  /\ IsFiniteSet(Names) /\ Starts["CT"] \in Nat
  /\ None \notin STRING /\ None \notin [name : Names, desc : STRING, vendor : Nat]
  /\ None \notin Objects /\ None \notin [count : Nat, reset : Nat] /\ None \notin [count : Nat, until : Nat \cup {None}]
  /\ IsFiniteSet(HyKeys) /\ Starts["HY"] \in Nat /\ MaxEntries \in Nat
  /\ None \notin [v : {1, 2}, fresh : BOOLEAN]
  /\ IsFiniteSet(Secrets) /\ Starts["MK"] \in Nat
  /\ IsFiniteSet(Workers) /\ Starts["AF"] \in Nat /\ "own" \in CallGroups
  /\ \A r \in Offers : r \in Seq([ch : Nat \ {0}, model : STRING, group : STRING])
  /\ None \notin [ch : Nat \ {0}, hit : Nat]
  /\ Clock["MO"] \in Nat /\ Starts["MO"] \in Nat /\ SlidingWindow \in Nat /\ MaxFloor \in Nat /\ Cooldown \in Nat
  /\ Threshold \in Nat \ {0} /\ KeepHashes \in Nat /\ ProbeLen \in Nat /\ ProbeDistinct \in Nat

VARIABLES
  part, now, budget,
  rows, index, tok, ownerBanned, cached, ticker, work, sancHist,
  inRedis, limits, objects, redisKeys, calls, limHist,
  configs, groups, optionRows, optionMap, prices, edits, priceHist,
  metas, vendorRows, chan, pricedNames, official, offCache, desk, catHist,
  running, stopChan, closed, hours, tickers, current, loops, schedHist,
  call, wire, local, client,
  setting, core, given, loop, shown,
  trip, routing, sent, told, after,
  keyRow, keyLock, requests, keyHist,
  affBudget, entries, routed, affHist,
  hyBudget, hyRedis, hyMem, writes, hyHist,
  circuits, risk, checks, modHist

saVars == <<rows, index, tok, ownerBanned, cached, ticker, work, sancHist>>
lmVars == <<inRedis, limits, objects, redisKeys, calls, limHist>>
prVars == <<configs, groups, optionRows, optionMap, prices, edits, priceHist>>
ctVars == <<metas, vendorRows, chan, pricedNames, official, offCache, desk, catHist>>
scVars == <<running, stopChan, closed, hours, tickers, current, loops, schedHist>>
adVars == <<call, wire, local, client>>
sgVars == <<setting, core, given, loop, shown>>
fwVars == <<trip, routing, sent, told, after>>
mkVars == <<keyRow, keyLock, requests, keyHist>>
afVars == <<affBudget, entries, routed, affHist>>
hyVars == <<hyBudget, hyRedis, hyMem, writes, hyHist>>
moVars == <<circuits, risk, checks, modHist>>
administration == <<saVars, lmVars, prVars, ctVars, scVars>>
gateway == <<adVars, sgVars, fwVars, mkVars, afVars, hyVars, moVars>>
serverVars == <<part, now, budget, administration, gateway>>

SA == INSTANCE Sanctions WITH
        Kinds <- SanctionKinds, Factors <- Strengths, Forever <- 0, MaxStarts <- Starts["SA"], MaxClock <- Clock["SA"]
LM == INSTANCE Limits WITH Chain <- LimitChain, MaxStarts <- Starts["LM"], MaxClock <- Clock["LM"]
PR == INSTANCE Prices WITH Dims <- Dimensions, MaxStarts <- Starts["PR"]
CT == INSTANCE Catalogue WITH priced <- pricedNames, MaxStarts <- Starts["CT"]
SC == INSTANCE Scheduler WITH MaxStarts <- Starts["SC"]
AD == INSTANCE Adapters
SG == INSTANCE StreamGuard
FW == INSTANCE Forwarding WITH Requests <- CallBodies
MK == INSTANCE MultiKeys WITH MaxStarts <- Starts["MK"]
AF == INSTANCE Affinity WITH Routes <- Offers, Groups <- CallGroups, AffStarts <- Starts["AF"]
HY == INSTANCE HybridCache WITH HyStarts <- Starts["HY"]
MO == INSTANCE Moderation WITH Forget <- RiskMemory, MaxStarts <- Starts["MO"], MaxClock <- Clock["MO"]

AdministrationInit ==
  /\ IF part = "SA" THEN SA!Init
     ELSE rows = None /\ index = None /\ tok = None /\ ownerBanned = None /\ cached = None /\ ticker = None /\ work = None /\ sancHist = None
  /\ IF part = "LM" THEN LM!Init
     ELSE inRedis = None /\ limits = None /\ objects = None /\ redisKeys = None /\ calls = None /\ limHist = None
  /\ IF part = "PR" THEN PR!Init
     ELSE configs = None /\ groups = None /\ optionRows = None /\ optionMap = None /\ prices = None /\ edits = None /\ priceHist = None
  /\ IF part = "CT" THEN CT!Init
     ELSE metas = None /\ vendorRows = None /\ chan = None /\ pricedNames = None /\ official = None /\ offCache = None /\ desk = None /\ catHist = None
  /\ IF part = "SC" THEN SC!Init
     ELSE running = None /\ stopChan = None /\ closed = None /\ hours = None /\ tickers = None /\ current = None /\ loops = None /\ schedHist = None

GatewayInit ==
  /\ IF part = "AD" THEN AD!Init ELSE call = None /\ wire = None /\ local = None /\ client = None
  /\ IF part = "SG" THEN SG!Init ELSE setting = None /\ core = None /\ given = None /\ loop = None /\ shown = None
  /\ IF part = "FW" THEN FW!Init ELSE trip = None /\ routing = None /\ sent = None /\ told = None /\ after = None
  /\ IF part = "MK" THEN MK!Init ELSE keyRow = None /\ keyLock = None /\ requests = None /\ keyHist = None
  /\ IF part = "AF" THEN AF!Init ELSE affBudget = None /\ entries = None /\ routed = None /\ affHist = None
  /\ IF part = "HY" THEN HY!Init ELSE hyBudget = None /\ hyRedis = None /\ hyMem = None /\ writes = None /\ hyHist = None
  /\ IF part = "MO" THEN MO!Init ELSE circuits = None /\ risk = None /\ checks = None /\ modHist = None

ServerInit ==
  /\ part \in Parts
  /\ part \notin {"SA", "LM", "MO"} => now = 0
  /\ part \notin {"SA", "LM", "PR", "CT", "SC", "MK", "MO"} => budget = 0
  /\ AdministrationInit
  /\ GatewayInit

AdministrationNext ==
  \/ part = "SA" /\ SA!Next /\ UNCHANGED <<part, lmVars, prVars, ctVars, scVars>>
  \/ part = "LM" /\ LM!Next /\ UNCHANGED <<part, saVars, prVars, ctVars, scVars>>
  \/ part = "PR" /\ PR!Next /\ UNCHANGED <<part, now, saVars, lmVars, ctVars, scVars>>
  \/ part = "CT" /\ CT!Next /\ UNCHANGED <<part, now, saVars, lmVars, prVars, scVars>>
  \/ part = "SC" /\ SC!Next /\ UNCHANGED <<part, now, saVars, lmVars, prVars, ctVars>>

GatewayNext ==
  \/ part = "AD" /\ AD!Next /\ UNCHANGED <<part, now, budget, sgVars, fwVars, mkVars, afVars, hyVars, moVars>>
  \/ part = "SG" /\ SG!Next /\ UNCHANGED <<part, now, budget, adVars, fwVars, mkVars, afVars, hyVars, moVars>>
  \/ part = "FW" /\ FW!Next /\ UNCHANGED <<part, now, budget, adVars, sgVars, mkVars, afVars, hyVars, moVars>>
  \/ part = "MK" /\ MK!Next /\ UNCHANGED <<part, now, adVars, sgVars, fwVars, afVars, hyVars, moVars>>
  \/ part = "AF" /\ AF!Next /\ UNCHANGED <<part, now, budget, adVars, sgVars, fwVars, mkVars, hyVars, moVars>>
  \/ part = "HY" /\ HY!Next /\ UNCHANGED <<part, now, budget, adVars, sgVars, fwVars, mkVars, afVars, moVars>>
  \/ part = "MO" /\ MO!Next /\ UNCHANGED <<part, adVars, sgVars, fwVars, mkVars, afVars, hyVars>>

ServerNext ==
  \/ AdministrationNext /\ UNCHANGED gateway
  \/ GatewayNext /\ UNCHANGED administration
ServerSpec == ServerInit /\ [][ServerNext]_serverVars
-----------------------------------------------------------------------------
\* Sanctions: the index follows the table and a sanction is applied, within Sanctions' exceptions.
SanctionInv == part = "SA" => SA!SanctionInv

\* Rate limits: no window lets through more than its limit, within the exceptions of Limits.
LimitsHold == part = "LM" => LM!LimitsHold

\* Prices: tables, options and memory agree once no change is under way, within Prices' exceptions.
\* Catalogue: no name twice, no text lost, abilities follow models, within Catalogue's exceptions.
ConfigurationInv == (part = "PR" => PR!PricesInv) /\ (part = "CT" => CT!CatalogueInv)

\* Scheduler: one goroutine while it runs and none once stopped, waiting on armed tickers, within
\* the exceptions of Scheduler.
SchedulerInv == part = "SC" => SC!SchedulerInv

\* The table of groups is the authority for their ratios (model/group.go:173): memory holds them
\* whenever no change is under way, whatever else was priced in between.
GroupRatioFromTable == part = "PR" => PR!GroupRatioFromTable

\* Adapters: the provider gets the conversation and the client the answer, piece for piece.
AdapterInv == part = "AD" => AD!AdapterInv

\* The guard on streams: what it blocks stays blocked, and it loses nothing else.
StreamInv == part = "SG" => SG!StreamInv

\* Forwarding: guarded once whatever the retries, converted without loss, one outcome told and billed.
ForwardInv == part = "FW" => FW!ForwardInv

\* Channels with several keys: a status stays with its key while positions shift.
MultiKeyInv == part = "MK" => MK!MultiKeyInv

\* The two caches of remembered channels: a route is only reordered, a count counts, and memory
\* and Redis answer alike, within the exceptions of Affinity and HybridCache.
RememberedInv == (part = "AF" => AF!AffinityInv) /\ (part = "HY" => HY!CacheInv)

\* Breakers open and close, and risk is remembered and forgotten, as their records say.
BreakersAndRisk == part = "MO" => MO!BreakersAndRisk
=============================================================================
