----------------------------- MODULE CodexKeys ------------------------------
(***************************************************************************)
(* Keys of Codex channels (controller/channel_codex_oauth.go).  A key is   *)
(* obtained by signing in at OpenAI: a flow is stored per channel, with    *)
(* channel 0 for a key that is shown instead of saved; the administrator   *)
(* pastes the authorization code and the state he came back with; the code *)
(* and the flow's verifier are exchanged for tokens.  Later the tokens are *)
(* refreshed, which may retire the refresh token that was used.            *)
(*                                                                         *)
(* A state and its verifier are made together and one number stands for    *)
(* both.  A grant is what one exchange obtained: the tokens derived from   *)
(* it by refreshing are numbered.  A key typed in by hand is not modelled. *)
(***************************************************************************)
EXTENDS Integers, FiniteSets

CONSTANTS
  Workers,
  Flows,                  \* states that may be made: 1..n, one code is issued for each at most
  FlowTTL,                \* 15 minutes
  MaxClock, MaxStarts     \* bounds of the model

VARIABLES
  now, starts,
  flowStore,   \* codexFlowStore: state and time of the flow of each channel, or NoFlow
  codes,       \* the provider: the code issued for a state is absent, issued or spent
  serial,      \* the provider: the refresh token of each grant that is good
  codexRow,    \* the channel's row: is it there, and its key
  codexJobs,   \* requests at work
  codexHist    \* what happened: see TypeOK
vars == <<now, starts, flowStore, codes, serial, codexRow, codexJobs, codexHist>>

\* channel 0 and the channel
Slots == {0, 1}
NoFlow == [state |-> 0, at |-> 0]
\* account: whose account_id the key carries; grant and serial: whose tokens it carries
NoKey == [account |-> 0, grant |-> 0, serial |-> 0]
Idle == [pc |-> "idle", id |-> 0, state |-> 0, key |-> NoKey]

Init ==
  /\ now = 1 /\ starts = 0
  /\ flowStore = [i \in Slots |-> NoFlow]
  /\ codes = [f \in Flows |-> "absent"] /\ serial = [f \in Flows |-> 0]
  /\ codexRow = [there |-> TRUE, key |-> NoKey]
  /\ codexJobs = [w \in Workers |-> Idle]
  /\ codexHist = [made |-> {}, overlap |-> FALSE, broken |-> FALSE, misfit |-> FALSE, crossed |-> {}, erased |-> {}, last |-> 0]

At(w, pc) == codexJobs[w].pc = pc
Put(w, job) == codexJobs' = [codexJobs EXCEPT ![w] = job]
Busy == \E w \in Workers : ~At(w, "idle")
Request == starts < MaxStarts /\ starts' = starts + 1
\* A request on the channel's key begins; it overlaps another one on it.
Begun(w) == [codexHist EXCEPT !.overlap = @ \/ \E v \in Workers \ {w} : ~At(v, "idle") /\ codexJobs[v].id = 1]

---------------------------------------------------------------------------
\* storeCodexFlow: the flow of a channel replaces an earlier one.
StartCodexOAuth(id) ==
  /\ Request
  /\ id = 1 => codexRow.there
  /\ \E f \in Flows :
       /\ f \notin codexHist.made /\ \A g \in Flows : g < f => g \in codexHist.made
       /\ flowStore' = [flowStore EXCEPT ![id] = [state |-> f, at |-> now]]
       /\ codexHist' = [codexHist EXCEPT !.made = @ \cup {f},
                          !.crossed = IF \E w \in Workers : ~At(w, "idle") /\ ~At(w, "refresh") /\ codexJobs[w].id = id
                                      THEN @ \cup {f} ELSE @]
  /\ UNCHANGED <<now, codes, serial, codexRow, codexJobs>>

\* The administrator signs in at the page of a flow and comes back with a code.
Authorize(f) ==
  /\ f \in codexHist.made /\ codes[f] = "absent"
  /\ codes' = [codes EXCEPT ![f] = "issued"]
  /\ UNCHANGED <<now, starts, flowStore, serial, codexRow, codexJobs, codexHist>>

\* Seeded bug: a flow is good whatever state came with the code.
BugloadCodexFlow(id, state) == flowStore[id] # NoFlow /\ now - flowStore[id].at <= FlowTTL
\* The flow is there, not too old, and the one the pasted state belongs to.
loadCodexFlow(id, state) ==
  flowStore[id] # NoFlow /\ now - flowStore[id].at <= FlowTTL /\ flowStore[id].state = state

\* CompleteCodexOAuth with what came back for state f, perhaps pasted again or at the wrong channel.
CompleteCodexOAuth(w, id, f) ==
  /\ Request /\ At(w, "idle") /\ codes[f] # "absent"
  /\ loadCodexFlow(id, f) /\ (id = 1 => codexRow.there)
  /\ Put(w, [pc |-> "exchange", id |-> id, state |-> f, key |-> [NoKey EXCEPT !.account = flowStore[id].state]])
  /\ codexHist' = IF id = 1 THEN Begun(w) ELSE codexHist
  /\ UNCHANGED <<now, flowStore, codes, serial, codexRow>>

\* The provider takes a code once, and with the verifier of its own flow; the account of the key
\* is read from the token.  An answer that is lost or has no tokens ends the request.
exchangeCodexAuthorizationCode(w) ==
  LET x == codexJobs[w]  fits == x.key.account = x.state IN
  /\ At(w, "exchange")
  /\ \/ /\ codes[x.state] = "issued" /\ fits
        /\ codes' = [codes EXCEPT ![x.state] = "spent"]
        /\ \/ Put(w, [x EXCEPT !.pc = "delete", !.key = [account |-> x.state, grant |-> x.state, serial |-> 0]])
           \/ Put(w, Idle)
     \/ (codes[x.state] # "issued" \/ ~fits) /\ Put(w, Idle) /\ UNCHANGED codes
  /\ codexHist' = [codexHist EXCEPT !.misfit = @ \/ ~fits]
  /\ UNCHANGED <<now, starts, flowStore, serial, codexRow>>

\* Whatever flow the channel has by now is deleted.
deleteCodexFlow(w) ==
  LET x == codexJobs[w] IN
  /\ At(w, "delete")
  /\ flowStore' = [flowStore EXCEPT ![x.id] = NoFlow]
  /\ codexHist' = [codexHist EXCEPT !.erased = IF flowStore[x.id].state \in {0, x.state} THEN @ ELSE @ \cup {flowStore[x.id].state}]
  /\ Put(w, IF x.id = 0 THEN Idle ELSE [x EXCEPT !.pc = "save"])
  /\ UNCHANGED <<now, starts, codes, serial, codexRow>>

\* UPDATE channels SET key: nothing if the row is gone, and it may fail.
SaveKey(w) ==
  LET x == codexJobs[w] IN
  /\ At(w, "save")
  /\ \/ /\ codexRow' = IF codexRow.there THEN [codexRow EXCEPT !.key = x.key] ELSE codexRow
        /\ codexHist' = [codexHist EXCEPT !.last = IF x.state # 0 THEN x.state ELSE @]
     \/ UNCHANGED codexRow /\ codexHist' = [codexHist EXCEPT !.broken = TRUE]
  /\ Put(w, Idle)
  /\ UNCHANGED <<now, starts, flowStore, codes, serial>>

---------------------------------------------------------------------------
\* RefreshCodexChannelCredential reads the key, ...
RefreshCodexChannelCredential(w) ==
  /\ Request /\ At(w, "idle") /\ codexRow.there /\ codexRow.key # NoKey
  /\ Put(w, [pc |-> "refresh", id |-> 1, state |-> 0, key |-> codexRow.key])
  /\ codexHist' = Begun(w)
  /\ UNCHANGED <<now, flowStore, codes, serial, codexRow>>

\* ... has its refresh token exchanged, for a new one or for none, and puts what came into the
\* copy it read.  A token that is not the good one is refused; an answer may be lost.
RefreshTokens(w) ==
  LET x == codexJobs[w]  g == x.key.grant IN
  /\ At(w, "refresh")
  /\ \/ /\ x.key.serial = serial[g]
        /\ \/ Put(w, [x EXCEPT !.pc = "save"]) /\ UNCHANGED <<serial, codexHist>>
           \/ /\ serial' = [serial EXCEPT ![g] = @ + 1]
              /\ \/ Put(w, [x EXCEPT !.pc = "save", !.key.serial = @ + 1]) /\ UNCHANGED codexHist
                 \/ Put(w, Idle) /\ codexHist' = [codexHist EXCEPT !.broken = TRUE]
     \/ Put(w, Idle) /\ UNCHANGED <<serial, codexHist>>
  /\ UNCHANGED <<now, starts, flowStore, codes, codexRow>>

DeleteChannel ==
  /\ Request /\ codexRow.there
  /\ codexRow' = [there |-> FALSE, key |-> NoKey]
  /\ UNCHANGED <<now, flowStore, codes, serial, codexJobs, codexHist>>

Restart ==
  /\ Request
  /\ flowStore' = [i \in Slots |-> NoFlow]
  /\ codexJobs' = [w \in Workers |-> Idle]
  /\ codexHist' = [codexHist EXCEPT !.broken = @ \/ Busy]
  /\ UNCHANGED <<now, codes, serial, codexRow>>

Tick == now < MaxClock /\ now' = now + 1
        /\ UNCHANGED <<starts, flowStore, codes, serial, codexRow, codexJobs, codexHist>>

Next ==
  \/ \E id \in Slots : StartCodexOAuth(id)
  \/ \E f \in Flows : Authorize(f)
  \/ \E w \in Workers :
       \/ \E id \in Slots, f \in Flows : CompleteCodexOAuth(w, id, f)
       \/ exchangeCodexAuthorizationCode(w) \/ deleteCodexFlow(w) \/ SaveKey(w)
       \/ RefreshCodexChannelCredential(w) \/ RefreshTokens(w)
  \/ DeleteChannel \/ Restart \/ Tick
Spec == Init /\ [][Next]_vars

---------------------------------------------------------------------------
\* made: the states handed out; overlap: two requests on the channel's key were under way at
\* once; broken: tokens were obtained and lost; misfit: a code met the verifier of another flow;
\* crossed: flows started while a completion for their channel was under way; erased: flows
\* deleted by the completion of another; last: the grant completed last.
TypeOK ==
  /\ now \in Nat /\ starts \in 0..MaxStarts
  /\ flowStore \in [Slots -> [state : Flows \cup {0}, at : Nat]]
  /\ codes \in [Flows -> {"absent", "issued", "spent"}] /\ serial \in [Flows -> Nat]
  /\ codexRow.there \in BOOLEAN /\ \A w \in Workers : codexJobs[w].pc \in {"idle", "exchange", "delete", "save", "refresh"}
  /\ codexHist.made \subseteq Flows /\ codexHist.erased \subseteq Flows /\ codexHist.last \in Flows \cup {0}

\* A code is never sent with another flow's verifier, and a flow that is neither completed nor
\* replaced is only taken away by a completion that was under way when it was started
\* (channel_codex_oauth.go:271-279, 330).
FlowsKept == ~codexHist.misfit /\ codexHist.erased \subseteq codexHist.crossed

\* The saved key carries the tokens of the account it names.  Where requests on it did not overlap
\* and no answer or write was lost, it is of the sign-in completed last and its refresh token is
\* still good, so that the channel can be refreshed (channel_codex_oauth.go:332-336, 381-442).
KeyUsable ==
  LET k == codexRow.key IN
  /\ k.account = k.grant
  /\ k # NoKey /\ ~Busy /\ ~codexHist.overlap /\ ~codexHist.broken => k.grant = codexHist.last /\ k.serial = serial[k.grant]

\* What the keys of Codex channels keep to.
CodexInv == TypeOK /\ FlowsKept /\ KeyUsable
=============================================================================
