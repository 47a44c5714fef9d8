------------------------------ MODULE Adapters ------------------------------
(***************************************************************************)
(* The provider adapters (adapter/): each turns the gateway's request into *)
(* the provider's, sends it, and turns the provider's answer back while    *)
(* keeping a copy of the text for the behaviour analysis                   *)
(* (qy_completion_text) and the usage for billing.  One call of one        *)
(* adapter: the provider may send any events of its protocol, junk between *)
(* them, and may break off at any point.                                   *)
(*                                                                         *)
(* A piece of text, a tool, a usage report is the number of the event that *)
(* brought it, so order and origin are kept and wording is not.            *)
(***************************************************************************)
EXTENDS Integers, Sequences, SequencesExt, FiniteSets

CONSTANTS Conversations,   \* sequences of [role, form] a client may send
          Models,          \* models a channel's mapping may give for the one named
          MaxEvents,       \* events of one stream
          None             \* nothing

VARIABLES
  call,     \* the request: family, options, conversation, what was sent, stage
  wire,     \* the events the provider has sent
  local,    \* the handler's local variables
  client    \* what the client got, the copy for the analysis, what is returned

vars == <<call, wire, local, client>>

(* Channel types with an adapter of their own; every other type, and a     *)
(* custom channel whose configuration is gone, is served as its type says. *)
OwnFamily ==
  [anthropic |-> "claude", gemini |-> "gemini", hunyuan |-> "tencent", wenxin |-> "baidu", spark |-> "xunfei",
   dify |-> "dify", qwen |-> "ali", deepseek |-> "deepseek", zhipu |-> "zhipu", moonshot |-> "moonshot",
   ollama |-> "ollama", siliconflow |-> "siliconflow", mistral |-> "mistral", xai |-> "xai", groq |-> "groq",
   together |-> "together", perplexity |-> "perplexity"]
GetAdaptor(type, isCustom, configFound) ==
  IF isCustom /\ configFound THEN "custom"
  ELSE IF type \in DOMAIN OwnFamily THEN OwnFamily[type] ELSE "openai"

(* The adapters that send OpenAI's format and leave reading to its adapter. *)
OpenAILike == {"ali", "deepseek", "zhipu", "moonshot", "ollama", "siliconflow", "mistral", "xai", "groq", "together",
               "perplexity"}
Reader(family) == IF family \in OpenAILike THEN "openai" ELSE family
Families == OpenAILike \cup {"openai", "claude", "gemini", "baidu", "tencent", "xunfei", "dify", "custom"}

-----------------------------------------------------------------------------
(* ConvertRequest: [system, messages] as the provider will get them.  A     *)
(* message that is not an object is [role |-> "odd"].                       *)
IsSystem(m) == m.role = "system"
IsTurn(m) == m.role \notin {"system", "odd"}
IsObject(m) == m.role # "odd"

ClaudeRequest(msgs) == [system |-> SelectSeq(msgs, IsSystem), messages |-> SelectSeq(msgs, IsTurn)]

(* Gemini: roles are user and model, images and other parts are dropped. *)
GeminiRequest(msgs) ==
  LET turn(m) == [m EXCEPT !.role = IF m.role = "assistant" THEN "model" ELSE "user", !.form = "text"]
  IN  [system |-> SelectSeq(msgs, IsSystem),
       messages |-> [i \in DOMAIN SelectSeq(msgs, IsTurn) |-> turn(SelectSeq(msgs, IsTurn)[i])]]

(* Content that is not a string is printed. *)
parseMessage(m) == [m EXCEPT !.form = "text"]
Printed(msgs) == [i \in DOMAIN msgs |-> parseMessage(msgs[i])]

(* Baidu keeps the last system message only. *)
requestOpenAI2Baidu(msgs) ==
  LET sys == SelectSeq(msgs, IsSystem)
  IN  [system |-> IF sys = <<>> THEN <<>> ELSE <<parseMessage(sys[Len(sys)])>>,
       messages |-> Printed(SelectSeq(msgs, IsTurn))]

requestOpenAI2Tencent(msgs) == [system |-> <<>>, messages |-> Printed(SelectSeq(msgs, IsObject))]

(* Xunfei: DoResponse puts a system message of its own in front. *)
requestOpenAI2Xunfei(msgs) ==
  [system |-> <<>>,
   messages |-> <<[role |-> "system", form |-> "text", id |-> 0]>> \o Printed(SelectSeq(msgs, IsObject))]

(* Dify: the last user message, if its content is a string. *)
DifyRequest(msgs) ==
  LET asked == SelectSeq(msgs, LAMBDA m : m.role = "user")
  IN  [system |-> <<>>,
       messages |-> IF asked = <<>> \/ asked[Len(asked)].form # "text" THEN <<>> ELSE <<asked[Len(asked)]>>]

(* Custom channels: the field for the messages may be switched off. *)
CustomRequest(msgs, mapped) == [system |-> <<>>, messages |-> IF mapped THEN msgs ELSE <<>>]

ConvertRequest(c) ==
  CASE c.family = "claude"  -> ClaudeRequest(c.msgs)
    [] c.family = "gemini"  -> GeminiRequest(c.msgs)
    [] c.family = "baidu"   -> requestOpenAI2Baidu(c.msgs)
    [] c.family = "tencent" -> requestOpenAI2Tencent(c.msgs)
    [] c.family = "xunfei"  -> requestOpenAI2Xunfei(c.msgs)
    [] c.family = "dify"    -> DifyRequest(c.msgs)
    [] c.family = "custom"  -> CustomRequest(c.msgs, c.mapped)
    [] OTHER -> [system |-> <<>>, messages |-> c.msgs]

-----------------------------------------------------------------------------
NoUsage == [prompt |-> 0, completion |-> 0]
Locals == [text |-> <<>>, usage |-> NoUsage, tool |-> 0, args |-> <<>>, thinking |-> FALSE, over |-> FALSE, err |-> FALSE]

Init ==
  /\ \E type \in DOMAIN OwnFamily \cup {"openai"}, isCustom, configFound, stream, option, raw \in BOOLEAN,
       msgs \in Conversations, target \in Models :
       LET family == GetAdaptor(type, isCustom, configFound)
           has(f) == family = f /\ option
       IN  call = [family |-> family, stream |-> stream, mapped |-> has("custom"), streamEnabled |-> has("custom"),
                   thoughts |-> has("claude"), msgs |-> msgs, raw |-> raw, model |-> "named", mappedModel |-> target,
                   sent |-> None, asked |-> None, stage |-> "convert"]
  /\ wire = <<>>
  /\ local = Locals
  /\ client = [out |-> <<>>, side |-> None, result |-> None]

Convert ==
  /\ call.stage = "convert"
  /\ call' = [call EXCEPT !.stage = "request", !.sent = ConvertRequest(call)]
  /\ UNCHANGED <<wire, local, client>>

Fails(c) ==
  /\ call' = [c EXCEPT !.stage = "ended"]
  /\ client' = [client EXCEPT !.result = "error"]
  /\ UNCHANGED <<wire, local>>

(* DoRequest: the ways it can end without an answer, and the model the      *)
(* provider is asked for.  The adapters of OpenAI's format send the client's *)
(* own bytes while the request still carries them (RawBody), and so the      *)
(* model the client named; the others encode the request, with the model the *)
(* channel's mapping gave.  Dify has no model.  Baidu needs an access token  *)
(* first; Xunfei only takes its key apart and dials in DoResponse.           *)
Sends(errors, asked) == [errors |-> errors, model |-> asked]
RawOrEncoded(c, errors) == Sends(errors, IF c.raw THEN c.model ELSE c.mappedModel)
Encoded(c, errors) == Sends(errors, c.mappedModel)

openaiDoRequest(c) == RawOrEncoded(c, {"refused"})
aliDoRequest(c) == RawOrEncoded(c, {"refused"})
deepseekDoRequest(c) == RawOrEncoded(c, {"refused"})
moonshotDoRequest(c) == RawOrEncoded(c, {"refused"})
ollamaDoRequest(c) == RawOrEncoded(c, {"refused"})
siliconflowDoRequest(c) == RawOrEncoded(c, {"refused"})
mistralDoRequest(c) == RawOrEncoded(c, {"refused"})
xaiDoRequest(c) == RawOrEncoded(c, {"refused"})
groqDoRequest(c) == RawOrEncoded(c, {"refused"})
togetherDoRequest(c) == RawOrEncoded(c, {"refused"})
perplexityDoRequest(c) == RawOrEncoded(c, {"refused"})
zhipuDoRequest(c) == RawOrEncoded(c, {"badKey", "refused"})
claudeDoRequest(c) == Encoded(c, {"refused"})
geminiDoRequest(c) == Encoded(c, {"refused"})
difyDoRequest(c) == Sends({"refused"}, None)
customDoRequest(c) == Sends({"refused"}, IF c.mapped THEN c.mappedModel ELSE None)
baiduDoRequest(c) == Encoded(c, {"noToken", "refused"})
tencentDoRequest(c) == Encoded(c, {"badKey", "refused"})
xunfeiDoRequest(c) == Encoded(c, {"badKey"})

Request(c) ==
  CASE c.family = "ali"         -> aliDoRequest(c)
    [] c.family = "deepseek"    -> deepseekDoRequest(c)
    [] c.family = "moonshot"    -> moonshotDoRequest(c)
    [] c.family = "ollama"      -> ollamaDoRequest(c)
    [] c.family = "siliconflow" -> siliconflowDoRequest(c)
    [] c.family = "mistral"     -> mistralDoRequest(c)
    [] c.family = "xai"         -> xaiDoRequest(c)
    [] c.family = "groq"        -> groqDoRequest(c)
    [] c.family = "together"    -> togetherDoRequest(c)
    [] c.family = "perplexity"  -> perplexityDoRequest(c)
    [] c.family = "zhipu"       -> zhipuDoRequest(c)
    [] c.family = "claude"      -> claudeDoRequest(c)
    [] c.family = "gemini"      -> geminiDoRequest(c)
    [] c.family = "dify"        -> difyDoRequest(c)
    [] c.family = "custom"      -> customDoRequest(c)
    [] c.family = "baidu"       -> baiduDoRequest(c)
    [] c.family = "tencent"     -> tencentDoRequest(c)
    [] c.family = "xunfei"      -> xunfeiDoRequest(c)
    [] OTHER                    -> openaiDoRequest(c)

DoRequest ==
  /\ call.stage = "request"
  /\ \/ Request(call).errors # {} /\ Fails(call)
     \/ /\ call' = [call EXCEPT !.stage = "answer", !.asked = Request(call).model]
        /\ UNCHANGED <<wire, local, client>>

(* DoResponse: which handler reads an answer of status 200 or another       *)
(* ("odd", below 400) and of content type text/event-stream (sse) or not.   *)
BySse(sse) == IF sse THEN "stream" ELSE "normal"
openaiDoResponse(sse) == BySse(sse)
claudeDoResponse(status, sse) == IF status # "ok" THEN "error" ELSE BySse(sse)
geminiDoResponse(status, asked) == IF status # "ok" THEN "error" ELSE BySse(asked)
difyDoResponse(status, sse) == IF status # "ok" THEN "error" ELSE BySse(sse)
baiduDoResponse(sse) == BySse(sse)
tencentDoResponse(asked) == BySse(asked)
xunfeiDoResponse(dialled, asked) == IF ~dialled THEN "error" ELSE BySse(asked)
customDoResponse(sse, enabled) == BySse(sse /\ enabled)
DoResponse(c, status, sse) ==
  CASE c.family = "claude"  -> claudeDoResponse(status, sse)
    [] c.family = "gemini"  -> geminiDoResponse(status, c.stream)
    [] c.family = "dify"    -> difyDoResponse(status, sse)
    [] c.family = "baidu"   -> baiduDoResponse(sse)
    [] c.family = "tencent" -> tencentDoResponse(c.stream)
    [] c.family = "xunfei"  -> xunfeiDoResponse(status = "ok", c.stream)
    [] c.family = "custom"  -> customDoResponse(sse, c.streamEnabled)
    [] OTHER -> openaiDoResponse(sse)

Respond ==
  /\ call.stage = "answer"
  /\ \E status \in {"ok", "odd"}, sse \in BOOLEAN :
       LET handler == DoResponse(call, status, sse)
       IN  IF handler = "error" THEN Fails(call)
           ELSE call' = [call EXCEPT !.stage = handler] /\ UNCHANGED <<wire, local, client>>

-----------------------------------------------------------------------------
(* The stream handlers: what one event does to the local variables l and to *)
(* the client's events o.                                                   *)
Kinds(family) ==
  CASE family = "claude" -> {"message_start", "tool_start", "thinking_start", "text", "thought", "json",
                             "block_stop", "message_delta", "junk"}
    [] family = "gemini" -> {"text", "textReport", "empty", "fail"}
    [] family = "xunfei" -> {"text", "textReport", "empty", "finish", "junk", "fail"}
    [] family = "custom" -> {"text", "hole", "empty", "done", "junk"}
    [] OTHER -> {"text", "textReport", "empty", "finish", "done", "junk"}
(* A custom channel's chunk whose content path ends in a missing field has *)
(* text too: extractByPath prints the missing value ("hole").              *)
HasText(k) == k \in {"text", "textReport", "hole"}
Chunk(k, n) == <<[kind |-> IF k = "finish" THEN "finish" ELSE "text", piece |-> IF HasText(k) THEN n ELSE 0]>>
Kept(l, k, n) == IF HasText(k) THEN [l EXCEPT !.text = Append(@, n)] ELSE l
Reported(l, k, n) ==
  IF k \in {"textReport", "finish"} THEN [l EXCEPT !.usage = [prompt |-> n, completion |-> n]] ELSE l
Done == <<[kind |-> "done", piece |-> 0]>>
Step(l, o) == [l |-> l, o |-> o]

(* OpenAI's events are passed on as they are, [DONE] too; no usage is read. *)
openaiStreamHandler(l, k, n) == Step(Kept(l, k, n), IF k = "done" THEN Done ELSE Chunk(k, n))

(* Seeded bug: the tool is not forgotten when its block ends. *)
BugBlockStop(l) ==
  LET close == IF l.thinking THEN <<[kind |-> "thought", piece |-> 0]>> ELSE <<>>
      emit == IF l.tool # 0 THEN <<[kind |-> "tool", piece |-> l.tool, args |-> l.args]>> ELSE <<>>
  IN  Step([l EXCEPT !.thinking = FALSE, !.args = <<>>], close \o emit)

BlockStop(l) ==
  LET close == IF l.thinking THEN <<[kind |-> "thought", piece |-> 0]>> ELSE <<>>
      emit == IF l.tool # 0 THEN <<[kind |-> "tool", piece |-> l.tool, args |-> l.args]>> ELSE <<>>
  IN  Step([l EXCEPT !.thinking = FALSE, !.tool = 0, !.args = IF l.tool # 0 THEN <<>> ELSE @], close \o emit)

claudeStreamHandler(l, k, n, thoughts) ==
  CASE k = "message_start"  -> Step([l EXCEPT !.usage.prompt = n], Chunk("empty", n))
    [] k = "tool_start"     -> Step([l EXCEPT !.tool = n, !.args = <<>>], <<>>)
    [] k = "thinking_start" -> IF thoughts THEN Step([l EXCEPT !.thinking = TRUE], <<[kind |-> "thought", piece |-> 0]>>)
                               ELSE Step(l, <<>>)
    [] k = "text"           -> Step(Kept(l, k, n), Chunk(k, n))
    [] k = "thought"        -> Step(l, IF thoughts THEN <<[kind |-> "thought", piece |-> n]>> ELSE <<>>)
    [] k = "json"           -> Step([l EXCEPT !.args = Append(@, n)], <<>>)
    [] k = "block_stop"     -> BlockStop(l)
    [] k = "message_delta"  -> Step([l EXCEPT !.usage.completion = n], Chunk("finish", n))
    [] OTHER                -> Step(l, <<>>)

(* Gemini: a chunk that does not decode ends the loop. *)
geminiStreamHandler(l, k, n) ==
  IF k = "fail" THEN Step([l EXCEPT !.over = TRUE], <<>>) ELSE Step(Kept(Reported(l, k, n), k, n), Chunk(k, n))

(* Baidu and Tencent read line by line until [DONE]. *)
LineHandler(l, k, n) ==
  CASE k = "done" -> Step([l EXCEPT !.over = TRUE], Done)
    [] k = "junk" -> Step(l, <<>>)
    [] OTHER      -> Step(Kept(Reported(l, k, n), k, n), Chunk(k, n))

(* Xunfei: a code other than 0 ends the call; status 2 ends the stream. *)
xunfeiStreamResponse(l, k, n) ==
  CASE k = "fail"   -> Step([l EXCEPT !.err = TRUE, !.over = TRUE], <<>>)
    [] k = "junk"   -> Step(l, <<>>)
    [] k = "finish" -> Step([Reported(l, k, n) EXCEPT !.over = TRUE], Chunk(k, n) \o Done)
    [] OTHER        -> Step(Kept(Reported(l, k, n), k, n), Chunk(k, n))

difyStreamHandler(l, k, n) ==
  CASE HasText(k)   -> Step(Kept(l, k, n), Chunk(k, n))
    [] k = "finish" -> Step(l, Chunk(k, n))
    [] OTHER        -> Step(l, <<>>)

handleStreamResponse(l, k, n) ==
  CASE k = "done"  -> Step([l EXCEPT !.over = TRUE], Done)
    [] HasText(k)  -> Step(Kept(l, k, n), Chunk(k, n))
    [] OTHER       -> Step(l, <<>>)

Handle(family, l, k, n) ==
  CASE family = "openai" -> openaiStreamHandler(l, k, n)
    [] family = "claude" -> claudeStreamHandler(l, k, n, call.thoughts)
    [] family = "gemini" -> geminiStreamHandler(l, k, n)
    [] family = "xunfei" -> xunfeiStreamResponse(l, k, n)
    [] family = "dify"   -> difyStreamHandler(l, k, n)
    [] family = "custom" -> handleStreamResponse(l, k, n)
    [] OTHER             -> LineHandler(l, k, n)

(* The provider keeps to its protocol: Claude's blocks are opened, filled   *)
(* and closed one at a time; nothing follows [DONE].                        *)
OpenBlock == LET starts == {i \in DOMAIN wire : wire[i] \in {"tool_start", "thinking_start"}}
                 stops == {i \in DOMAIN wire : wire[i] = "block_stop"}
             IN  IF starts = {} \/ \E s \in stops : \A i \in starts : s > i THEN "none"
                 ELSE wire[CHOOSE i \in starts : \A j \in starts : j <= i]
Allowed(k) ==
  /\ "done" \notin Range(wire)
  /\ k = "json" => OpenBlock = "tool_start"
  /\ k = "thought" => OpenBlock = "thinking_start"
  /\ k \in {"tool_start", "thinking_start", "message_delta"} => OpenBlock = "none"

ReadEvent ==
  /\ call.stage = "stream" /\ ~local.over /\ Len(wire) < MaxEvents
  /\ \E k \in Kinds(Reader(call.family)) :
       LET n == Len(wire) + 1
           s == Handle(Reader(call.family), local, k, n)
       IN  /\ Allowed(k)
           /\ wire' = Append(wire, k)
           /\ local' = s.l
           /\ client' = [client EXCEPT !.out = @ \o s.o]
  /\ UNCHANGED call

KeepCopy(l) == IF l.text = <<>> THEN None ELSE l.text

(* The loop ends: the provider's marker, its last event or a cut; Xunfei's  *)
(* connection that breaks off is an error.  Claude, Gemini and Dify write   *)
(* [DONE] however the loop ended.  A custom channel counts the tokens.      *)
EndStream ==
  LET f == Reader(call.family)
      broken == local.err \/ (f = "xunfei" /\ ~local.over)
      counted == [prompt |-> Len(local.text) \div 2, completion |-> Len(local.text)]
  IN  /\ call.stage = "stream"
      /\ call' = [call EXCEPT !.stage = "ended"]
      /\ client' = [out |-> client.out \o IF f \in {"claude", "gemini", "dify"} THEN Done ELSE <<>>,
                    side |-> IF broken THEN None ELSE KeepCopy(local),
                    result |-> IF broken THEN "error" ELSE "ok"]
      /\ local' = IF f = "custom" THEN [local EXCEPT !.usage = counted] ELSE local
      /\ UNCHANGED wire

-----------------------------------------------------------------------------
(* The handlers of answers in one piece.  The body may not parse, may carry *)
(* the provider's error, or may be an answer: text, or nothing (no choice,  *)
(* an embedding, an image), for a custom channel a missing field.           *)
Bodies == {"junk", "error", "text", "nothing", "hole"}
Answered(body) == [result |-> "ok", shows |-> "json", text |-> IF HasText(body) THEN <<1>> ELSE <<>>]
Failed(shows) == [result |-> "error", shows |-> shows, text |-> <<>>]

openaiNormalHandler(body) == Answered(body)
claudeNormalHandler(body) == IF body = "junk" THEN Failed("nothing") ELSE Answered(body)
geminiNormalHandler(body) == IF body = "junk" THEN Failed("nothing") ELSE Answered(body)
difyNormalHandler(body) == IF body = "junk" THEN Failed("nothing") ELSE Answered(body)
baiduNormalHandler(body) == IF body \in {"junk", "error"} THEN Failed("error") ELSE Answered(body)
(* responseTencent2OpenAI takes the first choice without looking whether there is one. *)
tencentNormalHandler(body) ==
  CASE body \in {"junk", "error"} -> Failed("error")
    [] body = "nothing" -> [result |-> "panic", shows |-> "nothing", text |-> <<>>]
    [] OTHER -> Answered(body)
xunfeiNormalResponse(body) == IF body \in {"junk", "error"} THEN Failed("nothing") ELSE Answered(body)
handleNormalResponse(body) == IF body = "junk" THEN Failed("nothing") ELSE Answered(body)

NormalAnswer(family, body) ==
  CASE family = "claude"  -> claudeNormalHandler(body)
    [] family = "gemini"  -> geminiNormalHandler(body)
    [] family = "dify"    -> difyNormalHandler(body)
    [] family = "baidu"   -> baiduNormalHandler(body)
    [] family = "tencent" -> tencentNormalHandler(body)
    [] family = "xunfei"  -> xunfeiNormalResponse(body)
    [] family = "custom"  -> handleNormalResponse(body)
    [] OTHER -> openaiNormalHandler(body)

NormalHandler ==
  /\ call.stage = "normal"
  /\ \E body \in Bodies :
       LET a == NormalAnswer(Reader(call.family), body)
           n == Len(a.text)
           l == [local EXCEPT !.text = a.text, !.usage = [prompt |-> n, completion |-> n]]
       IN  /\ body = "hole" => call.family = "custom"
           /\ wire' = <<body>>
           /\ local' = l
           /\ client' = [out |-> IF a.shows = "nothing" THEN <<>> ELSE <<[kind |-> a.shows, piece |-> n]>>,
                         side |-> IF a.result = "ok" THEN KeepCopy(l) ELSE None,
                         result |-> a.result]
           /\ call' = [call EXCEPT !.stage = "ended"]

Next == Convert \/ DoRequest \/ Respond \/ ReadEvent \/ EndStream \/ NormalHandler
Spec == Init /\ [][Next]_vars

-----------------------------------------------------------------------------
Pieces(seq) == LET t == SelectSeq(seq, LAMBDA e : e.kind \in {"text", "json"} /\ e.piece # 0)
               IN  [i \in DOMAIN t |-> t[i].piece]
SentPieces == SelectSeq([i \in DOMAIN wire |-> IF HasText(wire[i]) THEN i ELSE 0], LAMBDA n : n # 0)
Ended == call.stage = "ended"
DoneAt == {i \in DOMAIN client.out : client.out[i].kind = "done"}

TypeOK ==
  /\ call.stage \in {"convert", "request", "answer", "stream", "normal", "ended"} /\ call.family \in Families
  /\ local.text \in Seq(1..MaxEvents) /\ {local.usage.prompt, local.usage.completion} \subseteq 0..MaxEvents
  /\ client.result \in {None, "ok", "error", "panic"} /\ (Ended <=> client.result # None)

(* Every turn of the conversation reaches the provider, in order, but for   *)
(* Dify and for a custom channel without the field; the system messages do, *)
(* but for Dify and all but Baidu's last.                                   *)
ConversationKept ==
  (call.sent # None /\ call.family # "dify" /\ (call.family = "custom" => call.mapped)) =>
     LET ids(s) == [i \in DOMAIN s |-> s[i].id]
         got == SelectSeq(call.sent.messages, LAMBDA m : m.role \notin {"system", "odd"})
         sys == call.sent.system \o SelectSeq(call.sent.messages, LAMBDA m : IsSystem(m) /\ m.id # 0)
     IN  /\ ids(got) = ids(SelectSeq(call.msgs, IsTurn))
         /\ IF call.family = "baidu" THEN IsSuffix(ids(sys), ids(SelectSeq(call.msgs, IsSystem)))
            ELSE ids(sys) = ids(SelectSeq(call.msgs, IsSystem))

(* The tool calls the client is given are the tool blocks Claude closed,    *)
(* one each and in order, with their own arguments and none of another's    *)
(* (streamHandler's currentToolID and toolArgsBuf).                         *)
ToolsWhole ==
  LET tools == SelectSeq(client.out, LAMBDA e : e.kind = "tool")
      closed(s, e) == wire[s] = "tool_start" /\ wire[e] = "block_stop" /\ s < e /\ \A i \in (s + 1)..(e - 1) : wire[i] # "block_stop"
  IN  /\ \A i \in DOMAIN tools : \E s, e \in DOMAIN wire :
           /\ closed(s, e) /\ tools[i].piece = s
           /\ tools[i].args = SelectSeq([j \in DOMAIN wire |-> IF j \in s..e /\ wire[j] = "json" THEN j ELSE 0], LAMBDA j : j # 0)
      /\ \A s, e \in DOMAIN wire : closed(s, e) => \E i \in DOMAIN tools : tools[i].piece = s
      /\ \A i, j \in DOMAIN tools : i < j => tools[i].piece < tools[j].piece

(* A request the gateway encoded itself asks for the model the channel's    *)
(* mapping gave.                                                            *)
EncodedAsksMapped == (call.asked # None /\ ~call.raw) => call.asked = call.mappedModel

(* What the client was shown, what the behaviour analysis is given and what *)
(* the provider sent are the same text: a client that reads the end of the  *)
(* stream has every piece and nothing follows; the analysis gets the same   *)
(* text unless the call ended in an error, where it gets none; and the      *)
(* usage that is billed is the last one reported, none for OpenAI and Dify  *)
(* streams, which report none.                                              *)
AnswerAsSent ==
  Ended /\ client.result # None =>
    /\ DoneAt # {} => DoneAt = {Len(client.out)} /\ Pieces(client.out) = SentPieces
    /\ client.result = "ok" => client.side = IF Pieces(client.out) = <<>> THEN None ELSE Pieces(client.out)
    /\ client.result # "ok" => client.side = None
    /\ (client.result = "ok" /\ Reader(call.family) \in {"openai", "dify"} /\ wire \notin {<<b>> : b \in Bodies}) => local.usage = NoUsage
    /\ (call.family \in {"baidu", "tencent", "gemini", "xunfei"} /\ \E i \in DOMAIN wire : wire[i] = "textReport") =>
          local.usage.completion >= CHOOSE i \in DOMAIN wire : wire[i] = "textReport" /\ \A j \in DOMAIN wire : wire[j] = "textReport" => j <= i

(* An adapter passes on what it was given: the request keeps the            *)
(* conversation, tool calls come out whole, and the answer is what came.    *)
AdapterInv == TypeOK /\ ConversationKept /\ EncodedAsksMapped /\ ToolsWhole /\ AnswerAsSent
=============================================================================
