----------------------------- MODULE Forwarding -----------------------------
(***************************************************************************)
(* The five ways a model call comes in (controller/relay.go,               *)
(* messages_relay.go, responses.go, gemini_relay.go, realtime.go): the     *)
(* checks each route makes and their order, the guard's look at the        *)
(* request, the loop over channels, and what the client is told and        *)
(* billed.  One request; the guard's policy is a channel's own.            *)
(*                                                                         *)
(* The hold of the chat route is RelayBilling's, the text of an answer     *)
(* Adapters' and StreamGuard's: here an answer is its outcome.             *)
(***************************************************************************)
EXTENDS Integers, Sequences, SequencesExt, FiniteSets

CONSTANTS Requests,   \* what a client may send: [system, msgs]
          Routings    \* lists of channels a selection may give: [type, policy]

VARIABLES
  trip,      \* route, stage, request and index of the channel tried
  routing,   \* the channels selected
  sent,      \* requests sent to providers, in order
  told,      \* what was written to the client
  after      \* billing, affinity and behaviour records started

vars == <<trip, routing, sent, told, after>>

Routes == {"chat", "messages", "responses", "gemini", "realtime"}

-----------------------------------------------------------------------------
(* The checks of each route before channels are selected, in order. *)
RelayGates == <<"key", "token", "ip", "realname", "body", "user", "keywords", "tokenModel", "sanction", "modelRate",
                "moderation", "group", "groupRate">>
MessagesGates == <<"key", "token", "realname", "body", "tokenModel", "sanction", "modelRate", "user", "group",
                   "groupRate">>
ResponsesGates == <<"key", "token", "realname", "body", "tokenModel", "sanction", "modelRate", "user", "group",
                    "groupRate">>
GeminiGates == <<"key", "token", "realname", "body", "user", "group", "groupRate", "sanction">>
RealtimeGates == <<"key", "token", "user", "group", "groupRate", "sanction">>
Gates(route) ==
  CASE route = "chat" -> RelayGates [] route = "messages" -> MessagesGates [] route = "responses" -> ResponsesGates
    [] route = "gemini" -> GeminiGates [] route = "realtime" -> RealtimeGates

-----------------------------------------------------------------------------
(* Requests: system is "none", "text" or "blocks"; a message has a role, a  *)
(* form ("text", "blocks" or "odd") and blocks [type, id].                  *)
Ids(blocks) == [i \in DOMAIN blocks |-> blocks[i].id]
OfType(blocks, t) == SelectSeq(blocks, LAMBDA b : b.type = t)
Message(role, content, calls) == [role |-> role, content |-> content, calls |-> calls]

(* Blocks: an assistant's tool calls with the text; or images, the texts    *)
(* before them in reverse; or the text; then one message per tool result.   *)
ConvertBlocks(m) ==
  LET texts == Ids(OfType(m.blocks, "text"))
      calls == Ids(OfType(m.blocks, "tool_use"))
      images == Ids(OfType(m.blocks, "image"))
      results == Ids(OfType(m.blocks, "tool_result"))
      body == IF m.role = "assistant" /\ calls # <<>> THEN <<Message(m.role, texts, calls)>>
              ELSE IF images # <<>> THEN <<Message(m.role, Reverse(texts) \o images, <<>>)>>
              ELSE IF texts # <<>> THEN <<Message(m.role, texts, <<>>)>>
              ELSE <<>>
  IN  body \o [i \in DOMAIN results |-> Message("tool", <<results[i]>>, <<>>)]

ConvertMessage(m) ==
  CASE m.form = "text"   -> <<Message(m.role, Ids(m.blocks), <<>>)>>
    [] m.form = "blocks" -> ConvertBlocks(m)
    [] OTHER             -> <<>>

(* A system prompt in blocks is dropped. *)
claudeToOpenAIRequest(r) ==
  [system |-> IF r.system = "text" THEN <<"client">> ELSE <<>>,
   msgs |-> FlattenSeq([i \in DOMAIN r.msgs |-> ConvertMessage(r.msgs[i])])]

responsesToChatRequest(r) ==
  [system |-> IF r.system = "none" THEN <<>> ELSE <<"client">>,
   msgs |-> [i \in DOMAIN r.msgs |-> Message(r.msgs[i].role, Ids(r.msgs[i].blocks), <<>>)]]

AsGiven(r) ==
  [system |-> IF r.system = "none" THEN <<>> ELSE <<"client">>,
   msgs |-> [i \in DOMAIN r.msgs |-> Message(r.msgs[i].role, Ids(r.msgs[i].blocks), <<>>)]]

(* The guard's look at a request under policy p: "off", "monitor", "guard"   *)
(* (a system message is put in front), "refuse" (the request is refused).   *)
injectGuard(x) == [x EXCEPT !.system = <<"guard">> \o @]
ApplyRequest(x, p) ==
  [blocked |-> p = "refuse", req |-> IF p = "guard" /\ x.msgs # <<>> THEN injectGuard(x) ELSE x]

(* The leading system messages, as the text of Claude's system field. *)
extractLeadingSystemText(x) == x.system

-----------------------------------------------------------------------------
Init ==
  /\ \E route \in Routes, r \in Requests :
       trip = [route |-> route, at |-> "gates", gate |-> 1, asked |-> r, base |-> AsGiven(r), claude |-> <<>>, i |-> 1]
  /\ routing = <<>>
  /\ sent = <<>>
  /\ told = <<>>
  /\ after = [billed |-> <<>>, recorded |-> <<>>, affine |-> <<>>]

Tell(what) == told' = Append(told, what)
Over(t) == trip' = [t EXCEPT !.at = "over"]
Refuse == Tell("refusal") /\ Over(trip) /\ UNCHANGED <<routing, sent, after>>

(* One check of the route: it refuses the request or lets it on. *)
Gate ==
  /\ trip.at = "gates" /\ trip.gate <= Len(Gates(trip.route))
  /\ \/ Refuse
     \/ trip' = [trip EXCEPT !.gate = @ + 1] /\ UNCHANGED <<routing, sent, told, after>>

(* Channels for the model, or none; the review of the content, which may    *)
(* refuse (not on the realtime route); the request in OpenAI's format.      *)
Converted(route, r) ==
  CASE route = "messages" -> claudeToOpenAIRequest(r) [] route = "responses" -> responsesToChatRequest(r)
    [] OTHER -> AsGiven(r)
Select ==
  /\ trip.at = "gates" /\ trip.gate > Len(Gates(trip.route))
  /\ \/ Refuse
     \/ /\ \E w \in Routings : routing' = w
        /\ trip' = [trip EXCEPT !.at = IF trip.route = "messages" THEN "first" ELSE "try",
                                !.base = Converted(trip.route, trip.asked)]
        /\ UNCHANGED <<sent, told, after>>
AIReviewCheck == trip.at \in {"first", "try"} /\ trip.i = 1 /\ sent = <<>> /\ trip.route # "realtime" /\ Refuse

(* RelayMessages lets the guard look once, under the first channel's        *)
(* policy; the system text it leaves replaces Claude's system field.        *)
MessagesGuard ==
  LET a == ApplyRequest(trip.base, routing[1].policy)
      leading == extractLeadingSystemText(a.req)
      own == IF trip.asked.system = "none" THEN <<>> ELSE <<"client">>
  IN  /\ trip.at = "first"
      /\ IF a.blocked THEN Refuse
         ELSE /\ trip' = [trip EXCEPT !.at = "try", !.base = a.req, !.claude = IF leading # <<>> THEN leading ELSE own]
              /\ UNCHANGED <<routing, sent, told, after>>

(* Seeded bug: the attempts share one request. *)
BugDeepCopyOpenAIRequest(x, a) == a.req

(* What the next attempt starts from: each works on a copy of its own. *)
DeepCopyOpenAIRequest(x, a) == x

NextChannel(t) ==
  IF t.i < Len(routing) THEN trip' = [t EXCEPT !.at = "try", !.i = @ + 1] /\ UNCHANGED told
  ELSE Tell("failure") /\ Over(t)

Send(req) == sent' = Append(sent, [to |-> trip.i, system |-> req.system, msgs |-> req.msgs])

(* One attempt of the chat and the Responses routes: the guard's look under *)
(* this channel's policy, then the request; it may fail before it is sent   *)
(* or after, and a status of 400 or more is tried elsewhere.                *)
TryGuarded ==
  LET a == ApplyRequest(trip.base, routing[trip.i].policy)
      t == [trip EXCEPT !.base = DeepCopyOpenAIRequest(trip.base, a)]
  IN  /\ trip.at = "try" /\ trip.route \in {"chat", "responses"}
      /\ IF a.blocked THEN Refuse
         ELSE /\ \/ UNCHANGED sent /\ NextChannel(t)
                 \/ Send(a.req) /\ NextChannel(t)
                 \/ Send(a.req) /\ trip' = [t EXCEPT !.at = "answer"] /\ UNCHANGED told
              /\ UNCHANGED <<routing, after>>

(* One attempt of the messages route: Claude's own format to a Claude       *)
(* channel, OpenAI's to another.                                            *)
relayClaudeDirect == [system |-> trip.claude, msgs |-> AsGiven(trip.asked).msgs]
relayClaudeViaOpenAI == trip.base
TryMessages ==
  /\ trip.at = "try" /\ trip.route = "messages"
  /\ Send(IF routing[trip.i].type = "claude" THEN relayClaudeDirect ELSE relayClaudeViaOpenAI)
  /\ \/ NextChannel(trip)
     \/ trip' = [trip EXCEPT !.at = "answer"] /\ UNCHANGED told
  /\ UNCHANGED <<routing, after>>

(* The Gemini route takes the first Gemini channel, or the first there is;  *)
(* the realtime route, where messages are piped, the first.  Neither tries  *)
(* another.                                                                 *)
SelectedIndex ==
  IF trip.route = "gemini" /\ \E i \in DOMAIN routing : routing[i].type = "gemini"
  THEN CHOOSE i \in DOMAIN routing : routing[i].type = "gemini" /\ \A j \in 1..(i - 1) : routing[j].type # "gemini"
  ELSE 1
TryOnce ==
  /\ trip.at = "try" /\ trip.route \in {"gemini", "realtime"}
  /\ LET body == IF trip.route = "gemini" THEN AsGiven(trip.asked) ELSE [system |-> <<>>, msgs |-> <<>>]
     IN  sent' = Append(sent, [to |-> SelectedIndex, system |-> body.system, msgs |-> body.msgs])
  /\ \/ Tell("failure") /\ Over(trip)
     \/ trip' = [trip EXCEPT !.at = "answer", !.i = SelectedIndex] /\ UNCHANGED told
  /\ UNCHANGED <<routing, after>>

-----------------------------------------------------------------------------
(* The answer.  Outcomes: "good"; "error" (the provider's own, 4xx);        *)
(* "unread" (it does not parse); "blocked" (the guard refuses it).          *)
Settle(bill, affine) ==
  after' = [billed |-> IF bill THEN Append(after.billed, trip.i) ELSE after.billed,
            recorded |-> IF affine THEN Append(after.recorded, trip.i) ELSE after.recorded,
            affine |-> IF affine THEN Append(after.affine, trip.i) ELSE after.affine]

(* Chat: an error that is not worth a retry is passed on; a blocked or      *)
(* unread answer is the adapter's to tell, which it may not, and is never   *)
(* retried.                                                                 *)
ChatAnswer(o) ==
  /\ trip.route = "chat"
  /\ \/ o = "error" /\ Tell("passed") /\ Settle(FALSE, FALSE)
     \/ o = "good" /\ Tell("answer") /\ Settle(TRUE, TRUE)
     \/ o \in {"blocked", "unread"} /\ Tell("failure") /\ Settle(FALSE, TRUE)
     \/ o = "unread" /\ UNCHANGED told /\ Settle(FALSE, TRUE)
  /\ Over(trip)

(* Messages: an answer in one piece from another provider that is blocked   *)
(* or does not parse sends the request to the next channel; Claude's own is *)
(* passed on whatever the guard says of it.                                 *)
normalOpenAI2Claude(o) == o \in {"blocked", "unread"}
normalPassthroughClaude(o) == FALSE
MessagesAnswer(o, stream) ==
  LET again == ~stream /\ IF routing[trip.i].type = "claude" THEN normalPassthroughClaude(o) ELSE normalOpenAI2Claude(o)
  IN  /\ trip.route = "messages" /\ o # "error"
      /\ IF again THEN NextChannel(trip) /\ UNCHANGED after
         ELSE Tell("answer") /\ Over(trip) /\ Settle(TRUE, TRUE)

(* Responses: an answer in one piece, or collected, that is blocked or does *)
(* not parse is not told at all.                                            *)
normalChatToResponses(o) == o = "good"
ResponsesAnswer(o, stream) ==
  /\ trip.route = "responses" /\ o # "error"
  /\ IF stream \/ normalChatToResponses(o) THEN Tell("answer") /\ Settle(TRUE, TRUE) ELSE UNCHANGED <<told, after>>
  /\ Over(trip)

(* Gemini: whatever came is passed on and billed if it was a success. *)
GeminiAnswer(o) ==
  /\ trip.route = "gemini"
  /\ Tell(IF o = "error" THEN "passed" ELSE "answer") /\ Settle(o # "error", o # "error")
  /\ Over(trip)

(* Realtime: the pipe ends; nothing is billed. *)
RealtimeAnswer ==
  /\ trip.route = "realtime"
  /\ Tell("answer") /\ Settle(FALSE, TRUE)
  /\ Over(trip)

Answer ==
  /\ trip.at = "answer"
  /\ \E o \in {"good", "error", "blocked", "unread"}, stream \in BOOLEAN :
       \/ ChatAnswer(o) \/ MessagesAnswer(o, stream) \/ ResponsesAnswer(o, stream) \/ GeminiAnswer(o) \/ RealtimeAnswer
  /\ UNCHANGED <<routing, sent>>

Next == Gate \/ Select \/ AIReviewCheck \/ MessagesGuard \/ TryGuarded \/ TryMessages \/ TryOnce \/ Answer
Spec == Init /\ [][Next]_vars

-----------------------------------------------------------------------------
Count(seq, x) == Cardinality({i \in DOMAIN seq : seq[i] = x})

TypeOK ==
  /\ trip.route \in Routes /\ trip.at \in {"gates", "first", "try", "answer", "over"}
  /\ Range(told) \subseteq {"refusal", "failure", "passed", "answer"}
  /\ \A i \in DOMAIN sent : sent[i].to \in DOMAIN routing /\ Range(sent[i].system) \subseteq {"guard", "client"}

(* A provider gets the guard exactly once if the policy that counts says    *)
(* so, and then first: its own channel's on the chat and Responses routes   *)
(* however many channels were tried before, the first channel's on the      *)
(* messages route, none on the other two.                                   *)
GuardedAsSent ==
  \A i \in DOMAIN sent :
    LET counts == CASE trip.route \in {"chat", "responses"} -> routing[sent[i].to].policy
                    [] trip.route = "messages" -> routing[1].policy
                    [] OTHER -> "off"
        due == counts = "guard" /\ sent[i].msgs # <<>>
    IN  /\ Count(sent[i].system, "guard") = IF due THEN 1 ELSE 0
        /\ due => sent[i].system[1] = "guard"
        /\ counts # "refuse"

(* The client's system prompt is sent with every attempt, except on the     *)
(* messages route where one in blocks survives only unguarded to Claude.    *)
SystemSent ==
  \A i \in DOMAIN sent :
    Count(sent[i].system, "client") =
      IF trip.asked.system = "none" \/ trip.route = "realtime" THEN 0
      ELSE IF trip.route = "messages" /\ trip.asked.system = "blocks"
                /\ (routing[sent[i].to].type # "claude" \/ (routing[1].policy = "guard" /\ sent[i].msgs # <<>>)) THEN 0
      ELSE 1

(* Channels are tried in the order selected, each at most once.             *)
TriedInOrder == \A i, j \in DOMAIN sent : i < j => sent[i].to < sent[j].to

(* Conversion to OpenAI's format: no text, image or result of a readable    *)
(* message is lost or doubled, results of tools follow the message they     *)
(* came in, and texts keep their order in messages without images.          *)
ConversionKeeps ==
  trip.route = "messages" =>
    \A i \in DOMAIN trip.asked.msgs :
      LET m == trip.asked.msgs[i]
          out == ConvertMessage(m)
          flat == FlattenSeq([k \in DOMAIN out |-> out[k].content])
          kept(b) == b.type # "tool_use" /\ ~(b.type = "image" /\ m.role = "assistant" /\ OfType(m.blocks, "tool_use") # <<>>)
          expected == Ids(SelectSeq(m.blocks, kept))
      IN  m.form # "odd" =>
            /\ Range(flat) = Range(expected) /\ Len(flat) = Len(expected)
            /\ \A k, l \in DOMAIN out : (out[k].role = "tool" /\ out[l].role # "tool") => l < k
            /\ OfType(m.blocks, "image") = <<>> =>
                 \A b, c \in DOMAIN m.blocks : (b < c /\ m.blocks[b].type = "text" /\ m.blocks[c].type = "text") =>
                    \E k, l \in DOMAIN flat : k < l /\ flat[k] = m.blocks[b].id /\ flat[l] = m.blocks[c].id

(* The client is told one thing: nothing before the end, exactly one reply  *)
(* at the end, but for the chat and Responses routes, which may tell nothing *)
(* after an answer that was blocked or not read.  At most one channel is billed: the *)
(* last tried, and only for an answer the client has.  What is recorded for *)
(* affinity is the channel that answered.                                   *)
OneOutcome ==
  /\ Len(told) <= 1
  /\ told # <<>> => trip.at = "over"
  /\ (trip.at = "over" /\ told = <<>>) => trip.route \in {"chat", "responses"} /\ sent # <<>>
  /\ Len(after.billed) <= 1 /\ Len(after.affine) <= 1
  /\ after.billed # <<>> => told = <<"answer">> /\ after.billed[1] = sent[Len(sent)].to
  /\ after.affine # <<>> => sent # <<>> /\ after.affine[1] = sent[Len(sent)].to
  /\ (told = <<"refusal">> /\ sent # <<>>) => trip.route \in {"chat", "responses"} /\ routing[trip.i].policy = "refuse"

(* What goes out and what the provider gets, over all attempts, and what    *)
(* the client is told.                                                      *)
ForwardInv == TypeOK /\ GuardedAsSent /\ SystemSent /\ TriedInOrder /\ ConversionKeeps /\ OneOutcome
=============================================================================
